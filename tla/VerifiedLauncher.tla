-------------------------- MODULE VerifiedLauncher --------------------------
(***************************************************************************)
(* What the artifact pipeline promises, without how.  A launcher that      *)
(* prepares a release first only removes files and gives up those it       *)
(* cannot read, then only writes over files that it gave up or that are    *)
(* not yet what the release asks for, then leaves the repository alone,    *)
(* and starts the client on the repository only if every jar of the        *)
(* release is right in it.  Repository implements this for one launcher.   *)
(***************************************************************************)
CONSTANTS
  Launchers,   \* launcher processes
  Names,       \* file names of the repository
  Contents,    \* what a file may hold
  Absent,      \* the content of a file that is not there
  Repos,       \* repositories to begin with
  Releases     \* lists of artifacts, each with a name and a hash

VARIABLES
  repo,        \* the content of every file
  phase,       \* how far each launcher is
  release,     \* what it prepares or has started
  doubted,     \* the files each launcher could not read
  jars         \* the repository as its client found it

vars == <<repo, phase, release, doubted, jars>>

Preparing == {"removing", "mending", "ready"}

(* File n has a jar of release r, and holds something else.                  *)
Wrong(r, n) == \E k \in DOMAIN r : r[k].name = n /\ repo[n] # r[k].hash

Complete(r) == \A k \in DOMAIN r : repo[r[k].name] = r[k].hash

Goto(l, p) == phase' = [phase EXCEPT ![l] = p]

Init ==
  /\ repo \in Repos
  /\ phase = [l \in Launchers |-> "closed"]
  /\ release = [l \in Launchers |-> <<>>]
  /\ doubted = [l \in Launchers |-> {}]
  /\ jars = [l \in Launchers |-> [n \in Names |-> Absent]]

Open(l) ==
  /\ phase[l] = "closed"
  /\ \E r \in Releases : release' = [release EXCEPT ![l] = r]
  /\ doubted' = [doubted EXCEPT ![l] = {}]
  /\ Goto(l, "removing")
  /\ UNCHANGED <<repo, jars>>

Remove(l) ==
  /\ phase[l] = "removing"
  /\ \E n \in Names : repo' = [repo EXCEPT ![n] = Absent]
  /\ UNCHANGED <<phase, release, doubted, jars>>

(* A file cannot be read; it is removed or not.                              *)
Doubt(l) ==
  /\ phase[l] = "removing"
  /\ \E n \in Names :
       /\ doubted' = [doubted EXCEPT ![l] = @ \cup {n}]
       /\ repo' \in {repo, [repo EXCEPT ![n] = Absent]}
  /\ UNCHANGED <<phase, release, jars>>

(* A jar is written; a write that fails may end the launcher.                *)
Mend(l) ==
  /\ phase[l] = "mending"
  /\ \E n \in Names, c \in Contents :
       /\ Wrong(release[l], n) \/ n \in doubted[l]
       /\ repo' = [repo EXCEPT ![n] = c]
  /\ \E p \in {"mending", "refused"} : Goto(l, p)
  /\ UNCHANGED <<release, doubted, jars>>

MoveOn(l) ==
  /\ \/ phase[l] = "removing" /\ Goto(l, "mending")
     \/ phase[l] = "mending" /\ Goto(l, "ready")
  /\ UNCHANGED <<repo, release, doubted, jars>>

Start(l) ==
  /\ phase[l] = "ready" /\ Complete(release[l])
  /\ Goto(l, "running")
  /\ jars' = [jars EXCEPT ![l] = repo]
  /\ UNCHANGED <<repo, release, doubted>>

Refuse(l) ==
  /\ phase[l] \in Preparing \cup {"closed"}
  /\ Goto(l, "refused")
  /\ UNCHANGED <<repo, release, doubted, jars>>

(* Closed by the user, or killed at any point.                               *)
Close(l) ==
  /\ phase[l] # "closed"
  /\ Goto(l, "closed")
  /\ release' = [release EXCEPT ![l] = <<>>]
  /\ doubted' = [doubted EXCEPT ![l] = {}]
  /\ jars' = [jars EXCEPT ![l] = [n \in Names |-> Absent]]
  /\ UNCHANGED repo

Next ==
  \E l \in Launchers :
    \/ Open(l) \/ Remove(l) \/ Doubt(l) \/ Mend(l) \/ MoveOn(l)
    \/ Start(l) \/ Refuse(l) \/ Close(l)

Spec == Init /\ [][Next]_vars
=============================================================================
