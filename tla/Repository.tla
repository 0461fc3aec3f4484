----------------------------- MODULE Repository -----------------------------
(***************************************************************************)
(* The artifact pipeline of Launcher.main: fetch the bootstrap, clean      *)
(* REPO_DIR, find out what is stale, download patches or whole jars,       *)
(* verify every hash, start the client.                                    *)
(*                                                                         *)
(* REPO_DIR is shared by every launcher process of the user; all the rest  *)
(* is the memory of one process.  A jar's content is abstracted to the     *)
(* hash it has; Garbage is any content that no bootstrap asks for (a       *)
(* truncated file, a partial download, a wrong answer of the server).      *)
(***************************************************************************)
EXTENDS Integers, Sequences, FiniteSets

CONSTANTS
  Launchers,   \* launcher processes of one user
  Names,       \* file names that may appear in REPO_DIR
  Hashes,      \* contents that some bootstrap asks for
  Absent,      \* "no such file"
  Garbage,     \* a content that has none of the Hashes
  InitialRepos,\* what earlier versions may have left in REPO_DIR
  Bootstraps,  \* artifact lists the server may hand out, filtered by platform
  MaxRuns,     \* bound: starts of each launcher
  MaxFaults    \* bound: failures injected by network, disk, server or a kill

Contents == Hashes \cup {Absent, Garbage}

Diff == [from : Names, fromHash : Hashes, size : Nat]

Artifact == [name : Names, hash : Hashes, size : Nat, diffs : Seq(Diff)]

ASSUME RepositoryAssumption ==
  /\ Absent \notin Hashes /\ Garbage \notin Hashes /\ Absent # Garbage
  /\ InitialRepos \subseteq [Names -> Contents]
  /\ \A b \in Bootstraps : b \in Seq(Artifact)
  /\ MaxRuns \in Nat /\ MaxFaults \in Nat

VARIABLES
  repo,        \* content of every file of REPO_DIR
  pc,          \* what each launcher is doing
  arts,        \* its artifact list
  nodiff,      \* its --nodiff, or an incompatible zlib
  stale,       \* files clean() has still to delete
  pos,         \* loop index over the artifacts
  dpos,        \* loop index over the diffs of one artifact
  toDownload,  \* indexes of the artifacts to download
  chosen,      \* index of the diff to use for an artifact, 0 if none
  total,       \* totalDownloadBytes
  downloaded,  \* downloaded
  unread,      \* history: artifacts whose file hash() could not read
  truncated,   \* did another launcher truncate the file this one has open?
  loaded,      \* REPO_DIR as the client started by this launcher found it
  runs,        \* starts of each launcher so far
  faults       \* failures so far

vars == <<repo, pc, arts, nodiff, stale, pos, dpos, toDownload, chosen, total,
          downloaded, unread, truncated, loaded, runs, faults>>

(* What a step outside the download arithmetic leaves alone. *)
plan == <<toDownload, chosen, total, downloaded>>
setup == <<arts, nodiff, unread, runs>>

Phases == {"idle", "list", "clean", "scan", "diffs", "get", "patch", "apply",
           "full", "write", "verify", "launch", "launched", "failed"}

Running == Phases \ {"idle", "launched", "failed"}

Cur(l) == arts[l][pos[l]]
Dest(l) == Cur(l).name
CurDiff(l) == Cur(l).diffs[chosen[l][pos[l]]]
HasMore(l) == pos[l] <= Len(arts[l])

(* Mutant: the names of the artifacts alone.                                 *)
NeededNames(as) == {as[k].name : k \in DOMAIN as}

(* clean(): the names of the artifacts and of the files their diffs are from. *)
Needed(as) ==
  UNION {{as[k].name} \cup {as[k].diffs[d].from : d \in DOMAIN as[k].diffs}
           : k \in DOMAIN as}

Goto(l, phase) == pc' = [pc EXCEPT ![l] = phase]
Advance(l) == pos' = [pos EXCEPT ![l] = @ + 1]
\* Mutant: a loop that starts one too early.
RewindToZero(l) == pos' = [pos EXCEPT ![l] = 0]

Rewind(l) == pos' = [pos EXCEPT ![l] = 1]
Fault == faults < MaxFaults /\ faults' = faults + 1

Writing(l) == pc[l] \in {"apply", "write"}

(* Files.newOutputStream(dest): dest is emptied at once, also under the      *)
(* feet of a launcher that is still writing it.                              *)
Truncate(l) ==
  /\ repo' = [repo EXCEPT ![Dest(l)] = Garbage]
  /\ truncated' = [m \in Launchers |->
       IF m = l THEN FALSE
       ELSE truncated[m] \/ (Writing(m) /\ Dest(m) = Dest(l))]

(* What dest holds once this launcher has written all bytes of content h.    *)
(* A stream that was truncated half way leaves a hole, unless its rival has  *)
(* written the same bytes; a rival that is still writing other bytes may     *)
(* have spoilt the file.                                                     *)
Rival(l) == \E m \in Launchers \ {l} :
              Writing(m) /\ Dest(m) = Dest(l) /\ Cur(m).hash # Cur(l).hash

WriteResults(l, h) ==
  IF repo[Dest(l)] # h /\ (truncated[l] \/ Rival(l)) THEN {h, Garbage} ELSE {h}

(* A stream closed before all bytes were written: dest keeps whatever it has *)
(* now, or what was written of it.                                           *)
Spoil(l) ==
  \E c \in {repo[Dest(l)], Garbage} : repo' = [repo EXCEPT ![Dest(l)] = c]
-----------------------------------------------------------------------------
Init ==
  /\ repo \in InitialRepos
  /\ pc = [l \in Launchers |-> "idle"]
  /\ arts = [l \in Launchers |-> <<>>]
  /\ nodiff = [l \in Launchers |-> FALSE]
  /\ stale = [l \in Launchers |-> {}]
  /\ pos = [l \in Launchers |-> 1]
  /\ dpos = [l \in Launchers |-> 1]
  /\ toDownload = [l \in Launchers |-> {}]
  /\ chosen = [l \in Launchers |-> <<>>]
  /\ total = [l \in Launchers |-> 0]
  /\ downloaded = [l \in Launchers |-> 0]
  /\ unread = [l \in Launchers |-> {}]
  /\ truncated = [l \in Launchers |-> FALSE]
  /\ loaded = [l \in Launchers |-> [n \in Names |-> Absent]]
  /\ runs = [l \in Launchers |-> 0]
  /\ faults = 0

(* main() up to the artifact list: a process starts with an empty memory and *)
(* gets the bootstrap of the day.                                            *)
Begin(l) ==
  /\ pc[l] = "idle" /\ runs[l] < MaxRuns
  /\ runs' = [runs EXCEPT ![l] = @ + 1]
  /\ \E b \in Bootstraps, nd \in BOOLEAN :
       /\ arts' = [arts EXCEPT ![l] = b]
       /\ nodiff' = [nodiff EXCEPT ![l] = nd]
       /\ chosen' = [chosen EXCEPT ![l] = [k \in 1..Len(b) |-> 0]]
  /\ toDownload' = [toDownload EXCEPT ![l] = {}]
  /\ total' = [total EXCEPT ![l] = 0]
  /\ downloaded' = [downloaded EXCEPT ![l] = 0]
  /\ unread' = [unread EXCEPT ![l] = {}]
  /\ Goto(l, "list")
  /\ UNCHANGED <<repo, stale, pos, dpos, truncated, loaded, faults>>

(* getBootstrap() throws: a network error window, and main returns.          *)
BootstrapFails(l) ==
  /\ pc[l] = "idle" /\ runs[l] < MaxRuns /\ Fault
  /\ runs' = [runs EXCEPT ![l] = @ + 1]
  /\ Goto(l, "failed")
  /\ UNCHANGED <<repo, arts, nodiff, unread, stale, pos, dpos, plan, truncated,
                 loaded>>

(* clean(): REPO_DIR.listFiles() and the names to keep.  A listing that      *)
(* fails is null and clean returns.                                          *)
CleanList(l) ==
  /\ pc[l] = "list"
  /\ \/ /\ stale' = [stale EXCEPT ![l] =
              {n \in Names : repo[n] # Absent /\ n \notin Needed(arts[l])}]
        /\ UNCHANGED faults
     \/ stale' = [stale EXCEPT ![l] = {}] /\ Fault
  /\ Goto(l, "clean")
  /\ UNCHANGED <<repo, setup, pos, dpos, plan, truncated, loaded>>

(* file.delete(), whose failure is only logged.                              *)
CleanOne(l) ==
  /\ pc[l] = "clean"
  /\ \E n \in stale[l] :
       /\ stale' = [stale EXCEPT ![l] = @ \ {n}]
       /\ \/ repo' = [repo EXCEPT ![n] = Absent] /\ UNCHANGED faults
          \/ UNCHANGED repo /\ Fault
  /\ UNCHANGED <<pc, setup, pos, dpos, plan, truncated, loaded>>

CleanDone(l) ==
  /\ pc[l] = "clean" /\ stale[l] = {}
  /\ Goto(l, "scan") /\ Rewind(l)
  /\ UNCHANGED <<repo, setup, stale, dpos, plan, truncated, loaded, faults>>
-----------------------------------------------------------------------------
(* download(): the first loop hashes every artifact and picks its diff.      *)
\* Mutant: any file will do.
UpToDateIfPresent(l) ==
  /\ pc[l] = "scan" /\ HasMore(l)
  /\ repo[Dest(l)] # Absent
  /\ Advance(l)
  /\ UNCHANGED <<repo, pc, setup, stale, dpos, plan, truncated, loaded, faults>>

UpToDate(l) ==
  /\ pc[l] = "scan" /\ HasMore(l)
  /\ repo[Dest(l)] = Cur(l).hash
  /\ Advance(l)
  /\ UNCHANGED <<repo, pc, setup, stale, dpos, plan, truncated, loaded, faults>>

\* Mutant: every artifact is downloaded, whatever its hash.
AlwaysOutOfDate(l) ==
  /\ pc[l] = "scan" /\ HasMore(l)
  /\ Goto(l, "diffs")
  /\ dpos' = [dpos EXCEPT ![l] = 1]
  /\ UNCHANGED <<repo, setup, stale, pos, plan, truncated, loaded, faults>>

OutOfDate(l) ==
  /\ pc[l] = "scan" /\ HasMore(l)
  /\ repo[Dest(l)] # Cur(l).hash
  /\ Goto(l, "diffs")
  /\ dpos' = [dpos EXCEPT ![l] = 1]
  /\ UNCHANGED <<repo, setup, stale, pos, plan, truncated, loaded, faults>>

(* hash(dest) throws, and hash is null, right as the jar may be.  A file      *)
(* that cannot be read is deleted, and nobody looks whether it is; one that  *)
(* cannot be opened is a FileNotFoundException and stays.                    *)
Unreadable(l) ==
  /\ pc[l] = "scan" /\ HasMore(l) /\ Fault
  /\ repo[Dest(l)] # Absent
  /\ repo' \in {repo, [repo EXCEPT ![Dest(l)] = Absent]}
  /\ unread' = [unread EXCEPT ![l] = @ \cup {pos[l]}]
  /\ Goto(l, "diffs")
  /\ dpos' = [dpos EXCEPT ![l] = 1]
  /\ UNCHANGED <<arts, nodiff, runs, stale, pos, plan, truncated, loaded>>

(* One diff of the artifact: usable if its old file has the right hash; the  *)
(* loop goes on, so that the last usable one wins.                           *)
ScanDiff(l) ==
  /\ pc[l] = "diffs" /\ ~nodiff[l]
  /\ dpos[l] <= Len(Cur(l).diffs)
  /\ LET d == Cur(l).diffs[dpos[l]] IN
       \/ /\ repo[d.from] = d.fromHash
          /\ chosen' = [chosen EXCEPT ![l][pos[l]] = dpos[l]]
          /\ UNCHANGED faults
       \/ repo[d.from] # d.fromHash /\ UNCHANGED <<chosen, faults>>
       \/ Fault /\ UNCHANGED chosen
  /\ dpos' = [dpos EXCEPT ![l] = @ + 1]
  /\ UNCHANGED <<repo, pc, setup, stale, pos, toDownload, total, downloaded,
                 truncated, loaded>>

(* Mutant: the size of the diff is not taken over from the scan.             *)
WholeSize(l) == Cur(l).size

DownloadSize(l) ==
  IF chosen[l][pos[l]] = 0 THEN Cur(l).size ELSE CurDiff(l).size

AddDownload(l) ==
  /\ pc[l] = "diffs"
  /\ nodiff[l] \/ dpos[l] > Len(Cur(l).diffs)
  /\ toDownload' = [toDownload EXCEPT ![l] = @ \cup {pos[l]}]
  /\ total' = [total EXCEPT ![l] = @ + DownloadSize(l)]
  /\ Goto(l, "scan") /\ Advance(l)
  /\ UNCHANGED <<repo, setup, stale, dpos, chosen, downloaded, truncated,
                 loaded, faults>>

ScanDone(l) ==
  /\ pc[l] = "scan" /\ ~HasMore(l)
  /\ Goto(l, "get") /\ Rewind(l)
  /\ UNCHANGED <<repo, setup, stale, dpos, plan, truncated, loaded, faults>>
-----------------------------------------------------------------------------
(* download(): the second loop, over toDownload.                             *)
Skip(l) ==
  /\ pc[l] = "get" /\ HasMore(l) /\ pos[l] \notin toDownload[l]
  /\ Advance(l)
  /\ UNCHANGED <<repo, pc, setup, stale, dpos, plan, truncated, loaded, faults>>

(* "Adjust the download size for the difference", on the way from the patch  *)
(* to the whole artifact.                                                    *)
GiveUpPatch(l) ==
  /\ total' = [total EXCEPT ![l] = @ - CurDiff(l).size + Cur(l).size]
  /\ Goto(l, "full")

(* The diff is downloaded into memory.                                       *)
FetchDiff(l) ==
  /\ pc[l] = "get" /\ HasMore(l)
  /\ pos[l] \in toDownload[l] /\ chosen[l][pos[l]] # 0
  /\ \/ /\ downloaded' = [downloaded EXCEPT ![l] = @ + CurDiff(l).size]
        /\ Goto(l, "patch")
        /\ UNCHANGED <<total, faults>>
     \/ GiveUpPatch(l) /\ Fault /\ UNCHANGED downloaded
  /\ UNCHANGED <<repo, setup, stale, pos, dpos, toDownload, chosen, truncated,
                 loaded>>

OpenPatch(l) ==
  /\ pc[l] = "patch"
  /\ \/ Truncate(l) /\ Goto(l, "apply") /\ UNCHANGED <<total, faults>>
     \/ GiveUpPatch(l) /\ Fault /\ UNCHANGED <<repo, truncated>>
  /\ UNCHANGED <<setup, stale, pos, dpos, toDownload, chosen, downloaded, loaded>>

(* Mutant: the loop does not "continue" after a successful patch.            *)
ApplyPatchFallsThrough(l) ==
  /\ pc[l] = "apply"
  /\ repo[CurDiff(l).from] = CurDiff(l).fromHash
  /\ \E c \in WriteResults(l, Cur(l).hash) : repo' = [repo EXCEPT ![Dest(l)] = c]
  /\ GiveUpPatch(l)
  /\ UNCHANGED <<setup, stale, pos, dpos, toDownload, chosen, downloaded,
                 truncated, loaded, faults>>

(* applyDelta() reads the old file now, not when its hash was checked.  The  *)
(* hash compared is that of the bytes written, not of the file.              *)
ApplyPatch(l) ==
  /\ pc[l] = "apply"
  /\ repo[CurDiff(l).from] = CurDiff(l).fromHash
  /\ \E c \in WriteResults(l, Cur(l).hash) : repo' = [repo EXCEPT ![Dest(l)] = c]
  /\ Goto(l, "get") /\ Advance(l)
  /\ UNCHANGED <<setup, stale, dpos, plan, truncated, loaded, faults>>

\* Mutant: a patched file is accepted without comparing its hash.
PatchMismatchAccepted(l) ==
  /\ pc[l] = "apply"
  /\ \/ repo[CurDiff(l).from] # CurDiff(l).fromHash /\ UNCHANGED faults
     \/ Fault
  /\ Spoil(l)
  /\ Goto(l, "get") /\ Advance(l)
  /\ UNCHANGED <<setup, stale, dpos, plan, truncated, loaded>>

PatchMismatch(l) ==
  /\ pc[l] = "apply"
  /\ \/ repo[CurDiff(l).from] # CurDiff(l).fromHash /\ UNCHANGED faults
     \/ Fault
  /\ Spoil(l)
  /\ GiveUpPatch(l)
  /\ UNCHANGED <<setup, stale, pos, dpos, toDownload, chosen, downloaded,
                 truncated, loaded>>

(* The whole artifact goes straight into dest, which is opened (and emptied) *)
(* before the request is made.                                               *)
OpenFull(l) ==
  /\ \/ pc[l] = "full"
     \/ /\ pc[l] = "get" /\ HasMore(l)
        /\ pos[l] \in toDownload[l] /\ chosen[l][pos[l]] = 0
  /\ \/ Truncate(l) /\ Goto(l, "write") /\ UNCHANGED faults
     \/ Goto(l, "failed") /\ Fault /\ UNCHANGED <<repo, truncated>>
  /\ UNCHANGED <<setup, stale, pos, dpos, plan, loaded>>

WriteFull(l) ==
  /\ pc[l] = "write"
  /\ \E c \in WriteResults(l, Cur(l).hash) : repo' = [repo EXCEPT ![Dest(l)] = c]
  /\ downloaded' = [downloaded EXCEPT ![l] = @ + Cur(l).size]
  /\ Goto(l, "get") /\ Advance(l)
  /\ UNCHANGED <<setup, stale, dpos, toDownload, chosen, total, truncated,
                 loaded, faults>>

(* A VerificationException of a whole artifact is only logged: verifyJarHashes *)
(* is what stops the launch.                                                 *)
WriteWrong(l) ==
  /\ pc[l] = "write" /\ Fault
  /\ Spoil(l)
  /\ Goto(l, "get") /\ Advance(l)
  /\ UNCHANGED <<setup, stale, dpos, plan, truncated, loaded>>

(* An IOException ends download() and main; dest is left as it is.           *)
WriteFails(l) ==
  /\ pc[l] = "write" /\ Fault
  /\ Spoil(l)
  /\ Goto(l, "failed")
  /\ UNCHANGED <<setup, stale, pos, dpos, plan, truncated, loaded>>

DownloadDone(l) ==
  /\ pc[l] = "get" /\ ~HasMore(l)
  /\ Goto(l, "verify") /\ Rewind(l)
  /\ UNCHANGED <<repo, setup, stale, dpos, plan, truncated, loaded, faults>>
-----------------------------------------------------------------------------
(* Mutant: the hashes are computed and logged but not compared.              *)
VerifyOneUnchecked(l) ==
  /\ pc[l] = "verify" /\ HasMore(l)
  /\ Advance(l)
  /\ UNCHANGED <<repo, pc, setup, stale, dpos, plan, truncated, loaded, faults>>

(* verifyJarHashes(), artifact by artifact.                                  *)
VerifyOne(l) ==
  /\ pc[l] = "verify" /\ HasMore(l)
  /\ repo[Dest(l)] = Cur(l).hash
  /\ Advance(l)
  /\ UNCHANGED <<repo, pc, setup, stale, dpos, plan, truncated, loaded, faults>>

VerifyFails(l) ==
  /\ pc[l] = "verify" /\ HasMore(l)
  /\ \/ repo[Dest(l)] # Cur(l).hash /\ UNCHANGED faults
     \/ Fault
  /\ Goto(l, "failed")
  /\ UNCHANGED <<repo, setup, stale, pos, dpos, plan, truncated, loaded>>

VerifyDone(l) ==
  /\ pc[l] = "verify" /\ ~HasMore(l)
  /\ Goto(l, "launch")
  /\ UNCHANGED <<repo, setup, stale, pos, dpos, plan, truncated, loaded, faults>>

(* The client opens the jars of its class path.                              *)
Launch(l) ==
  /\ pc[l] = "launch"
  /\ loaded' = [loaded EXCEPT ![l] = repo]
  /\ Goto(l, "launched")
  /\ UNCHANGED <<repo, setup, stale, pos, dpos, plan, truncated, faults>>

(* The process is gone: the client was closed, the error dialog was closed   *)
(* (exit), or the launcher was killed in the middle of anything.             *)
Forget(l) ==
  /\ Goto(l, "idle") /\ Rewind(l)
  /\ arts' = [arts EXCEPT ![l] = <<>>]
  /\ nodiff' = [nodiff EXCEPT ![l] = FALSE]
  /\ stale' = [stale EXCEPT ![l] = {}]
  /\ dpos' = [dpos EXCEPT ![l] = 1]
  /\ toDownload' = [toDownload EXCEPT ![l] = {}]
  /\ chosen' = [chosen EXCEPT ![l] = <<>>]
  /\ total' = [total EXCEPT ![l] = 0]
  /\ downloaded' = [downloaded EXCEPT ![l] = 0]
  /\ unread' = [unread EXCEPT ![l] = {}]
  /\ truncated' = [truncated EXCEPT ![l] = FALSE]
  /\ loaded' = [loaded EXCEPT ![l] = [n \in Names |-> Absent]]
  /\ UNCHANGED <<repo, runs>>

Exit(l) == pc[l] \in {"launched", "failed"} /\ Forget(l) /\ UNCHANGED faults

Kill(l) == pc[l] \in Running /\ Fault /\ Forget(l)

Prepare(l) ==
  \/ CleanList(l) \/ CleanOne(l) \/ CleanDone(l)
  \/ UpToDate(l) \/ OutOfDate(l) \/ Unreadable(l)
  \/ ScanDiff(l) \/ AddDownload(l) \/ ScanDone(l)
  \/ Skip(l) \/ FetchDiff(l) \/ OpenPatch(l) \/ ApplyPatch(l) \/ PatchMismatch(l)
  \/ OpenFull(l) \/ WriteFull(l) \/ WriteWrong(l) \/ WriteFails(l)
  \/ DownloadDone(l) \/ VerifyOne(l) \/ VerifyFails(l) \/ VerifyDone(l)

Next ==
  \E l \in Launchers :
    \/ Begin(l) \/ BootstrapFails(l)
    \/ Prepare(l) \/ Launch(l)
    \/ Exit(l) \/ Kill(l)

Spec == Init /\ [][Next]_vars

(* A launcher that runs goes on, and a user whose client did not come up      *)
(* starts it again.  Kills, and the failure branches of Prepare once          *)
(* MaxFaults is reached, are never forced.                                    *)
Fairness ==
  \A l \in Launchers : WF_vars(Begin(l) \/ Prepare(l) \/ Launch(l) \/ Exit(l))

FairSpec == Spec /\ Fairness
-----------------------------------------------------------------------------
TypeOK ==
  /\ repo \in [Names -> Contents]
  /\ pc \in [Launchers -> Phases]
  /\ arts \in [Launchers -> Seq(Artifact)]
  /\ nodiff \in [Launchers -> BOOLEAN]
  /\ stale \in [Launchers -> SUBSET Names]
  /\ pos \in [Launchers -> Nat \ {0}]
  /\ dpos \in [Launchers -> Nat \ {0}]
  /\ toDownload \in [Launchers -> SUBSET Nat]
  /\ chosen \in [Launchers -> Seq(Nat)]
  /\ total \in [Launchers -> Int]
  /\ downloaded \in [Launchers -> Nat]
  /\ unread \in [Launchers -> SUBSET Nat]
  /\ truncated \in [Launchers -> BOOLEAN]
  /\ loaded \in [Launchers -> [Names -> Contents]]
  /\ runs \in [Launchers -> Nat]
  /\ faults \in Nat

(* The loop index is inside the list wherever an artifact is being handled,   *)
(* and a patch is only worked on where the scan chose one.                   *)
CursorOK ==
  \A l \in Launchers :
    /\ pc[l] \in {"diffs", "patch", "apply", "full", "write"} => HasMore(l)
    /\ pc[l] \in {"patch", "apply"} => chosen[l][pos[l]] # 0

ChosenOK ==
  \A l \in Launchers :
    /\ Len(chosen[l]) = Len(arts[l])
    /\ \A k \in DOMAIN arts[l] : chosen[l][k] \in 0..Len(arts[l][k].diffs)

(* A client is started on jars that all have the hash the signed bootstrap   *)
(* gives them (verifyJarHashes before the launch), however the downloads,    *)
(* patches and crashes before it went.  For one launcher process at a time.  *)
VerifiedLaunch ==
  \A l \in Launchers : pc[l] = "launched" =>
    \A k \in DOMAIN arts[l] : loaded[l][arts[l][k].name] = arts[l][k].hash

(* What makes VerifiedLaunch inductive: the jars already verified stay so    *)
(* until the client has them.                                                *)
VerifiedPrefix ==
  \A l \in Launchers : \A k \in DOMAIN arts[l] :
    \/ pc[l] = "verify" /\ k < pos[l]
    \/ pc[l] = "launch"
    => repo[arts[l][k].name] = arts[l][k].hash

(* A jar that already is what the bootstrap wants is never touched again: not *)
(* by clean, not by a patch or a download of another jar, not after its own  *)
(* successful patch.  Only a jar that this run tried to read and could not   *)
(* is given up; from then on it may be deleted, emptied or overwritten.      *)
KeepsGoodFiles ==
  \A l \in Launchers : \A k \in DOMAIN arts[l] :
    LET n == arts[l][k].name IN
    pc[l] \in Running /\ repo[n] = arts[l][k].hash =>
      repo'[n] = repo[n] \/ k \in unread'[l]

GoodFilesKept == [][KeepsGoodFiles]_vars

(* What makes GoodFilesKept inductive: what the scan could read and found out *)
(* of date stays out of date until its own download is over.                 *)
Pending(l) ==
  CASE pc[l] = "scan"  -> toDownload[l]
    [] pc[l] = "diffs" -> toDownload[l] \cup {pos[l]}
    [] pc[l] \in {"get", "patch", "apply", "full", "write"} ->
         {k \in toDownload[l] : k >= pos[l]}
    [] OTHER -> {}

PendingBad ==
  \A l \in Launchers :
    /\ \A k \in Pending(l) :
         /\ k \in DOMAIN arts[l]
         /\ repo[arts[l][k].name] # arts[l][k].hash \/ k \in unread[l]
    /\ pc[l] \in {"patch", "apply", "full", "write"} => pos[l] \in toDownload[l]
    /\ pc[l] \in {"list", "clean"} => toDownload[l] = {}

(* What clean has still to delete, the rest of the run does not need.        *)
StaleUnneeded ==
  \A l \in Launchers : pc[l] = "clean" => stale[l] \cap Needed(arts[l]) = {}

(* No two artifacts of a list share a file.                                  *)
DistinctNames ==
  \A l \in Launchers : \A j, k \in DOMAIN arts[l] :
    arts[l][j].name = arts[l][k].name => j = k

(* "Keep around the old files which diffs are from": an old file that a diff *)
(* can start from survives the whole run, unless it is itself the file of an *)
(* artifact that is being replaced.                                          *)
KeepsBases ==
  \A l \in Launchers : \A k \in DOMAIN arts[l] :
    \A i \in DOMAIN arts[l][k].diffs :
      LET d == arts[l][k].diffs[i] IN
      /\ pc[l] \in Running
      /\ repo[d.from] = d.fromHash
      /\ \A j \in DOMAIN arts[l] : arts[l][j].name # d.from
      => repo'[d.from] = repo[d.from]

BasesKept == [][KeepsBases]_vars

(* Launchers started side by side on the same bootstrap end up agreeing: if  *)
(* nothing failed, then once none of them is at work the jars under a client *)
(* that was started are the verified ones, whoever wrote them last.          *)
ConcurrentRunsConverge ==
  faults = 0 /\ (\A m \in Launchers : pc[m] \notin Running) =>
    \A l \in Launchers : pc[l] = "launched" =>
      \A k \in DOMAIN arts[l] : repo[arts[l][k].name] = arts[l][k].hash

(* "Adjust the download size for the difference" (download()): the progress  *)
(* bar never stops short of its end.  What was downloaded adds up to at least *)
(* the total, whichever artifacts were patched, downloaded whole, or first    *)
(* patched in vain (a patch in vain is counted twice, beyond the total).      *)
ProgressComplete ==
  \A l \in Launchers : faults = 0 /\ pc[l] = "verify" => downloaded[l] >= total[l]

(* A run that meets no failure is never refused, whatever REPO_DIR held when  *)
(* it began (half a jar, a wrong jar, half a clean, as earlier runs leave    *)
(* them): clean, the patches and the downloads leave nothing that            *)
(* verifyJarHashes would reject, not even where a patch destroys the file it *)
(* starts from.  For one launcher process at a time.                         *)
UndisturbedRunSucceeds ==
  faults = 0 => \A l \in Launchers : pc[l] # "failed"

(* Whatever a run leaves behind (half a jar, a wrong jar, half a clean), a    *)
(* later run that meets no failure starts the client.                        *)
RecoversAndLaunches == <>(\E l \in Launchers : pc[l] = "launched")
-----------------------------------------------------------------------------
(* The pipeline against what it promises: clean and the first loop of         *)
(* download() remove, the second loop mends, and from verifyJarHashes() on the *)
(* repository is left alone.                                                 *)
PhaseOf(p) ==
  CASE p = "idle" -> "closed"
    [] p \in {"list", "clean", "scan", "diffs"} -> "removing"
    [] p \in {"get", "patch", "apply", "full", "write"} -> "mending"
    [] p \in {"verify", "launch"} -> "ready"
    [] p = "launched" -> "running"
    [] OTHER -> "refused"

Promise == INSTANCE VerifiedLauncher WITH
  Repos <- InitialRepos, Releases <- Bootstraps, release <- arts,
  jars <- loaded, phase <- [l \in Launchers |-> PhaseOf(pc[l])],
  doubted <- [l \in Launchers |-> {arts[l][k].name : k \in unread[l]}]

(* Every step of a single launcher is a step that VerifiedLauncher allows: no *)
(* crash, failed patch or wrong download makes it write over a jar that is    *)
(* right and that it could read, touch the repository once it is verified, or *)
(* start the client on anything but the release.                             *)
KeepsPromise == Promise!Spec
=============================================================================
