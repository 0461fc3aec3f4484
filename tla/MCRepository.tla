---------------------------- MODULE MCRepository ----------------------------
(***************************************************************************)
(* Small instances of Repository: a client jar whose name carries its      *)
(* version, and a library jar that keeps its name, in two releases.  The   *)
(* second release has a diff for each; the library's diff starts from the  *)
(* very file it replaces.                                                  *)
(***************************************************************************)
EXTENDS Repository

CONSTANTS client1, client2, lib,    \* names
          c1, c2, l1, l2            \* hashes

MCNames == {client1, client2, lib}
MCHashes == {c1, c2, l1, l2}

Jar(name, hash, size, diffs) ==
  [name |-> name, hash |-> hash, size |-> size, diffs |-> diffs]
Delta(from, fromHash) == [from |-> from, fromHash |-> fromHash, size |-> 1]

Release1 == <<Jar(client1, c1, 3, <<>>), Jar(lib, l1, 2, <<>>)>>
Release2 == <<Jar(client2, c2, 3, <<Delta(client1, c1)>>),
              Jar(lib, l2, 2, <<Delta(lib, l1)>>)>>

BothReleases == {Release1, Release2}
OnlyRelease2 == {Release2}

(* Nothing yet; the first release installed; an installation gone wrong.     *)
Empty == [n \in MCNames |-> Absent]
Installed1 == [Empty EXCEPT ![client1] = c1, ![lib] = l1]
Broken == [n \in MCNames |-> Garbage]
MCInitialRepos == {Empty, Installed1, Broken}
=============================================================================
