------------------------------ MODULE Updater -------------------------------
(***************************************************************************)
(* The launcher's self-update: Updater.update as Launcher.main calls it,   *)
(* the backoff it keeps in settings.json, and the configuration window     *)
(* that writes the same file from a process of its own.                    *)
(*                                                                         *)
(* On macOS packr makes Contents/Resources of the bundle the working       *)
(* directory, where settings.json is looked for: the file is a part of the *)
(* application that an update deletes.                                     *)
(*                                                                         *)
(* Time is an age in hours that Tick lets grow, up to MaxAge.              *)
(***************************************************************************)
EXTENDS Versions, FiniteSets

CONSTANTS
  Procs,         \* launcher processes
  Frames,        \* configuration windows ("--configure")
  Os,            \* "Windows" or "MacOS"
  Feeds,         \* update lists the bootstraps may carry
  Hashes,        \* hashes of the updates
  None,          \* no update, no hash, no minimum version
  FirstVersion,  \* the version the user installed
  Rank,          \* for the properties: the order that versions are meant to have
  Gone,          \* the application folder does not exist
  Partial,       \* it exists, with files missing
  MaxFaults,     \* bound: failures before the point of no return, and kills there
  MaxLateFaults, \* bound: failures and kills after it
  MaxSaveFaults, \* bound: saveSettings that fail
  MaxAge         \* ages saturate here

Update ==
  [version : Version, hash : Hashes, minimum : Version \cup {None}, fits : BOOLEAN,
   limited : BOOLEAN]

Settings == [noupdates : BOOLEAN, hash : Hashes \cup {None}, num : Nat, age : 0..MaxAge]

(* What loadSettings returns without a readable file.                        *)
Default == [noupdates |-> FALSE, hash |-> None, num |-> 0, age |-> MaxAge]

ASSUME UpdaterAssumption ==
  /\ Os \in {"Windows", "MacOS"}
  /\ None \notin Hashes
  /\ \A list \in Feeds : list \in Seq(Update)
  /\ FirstVersion \in Version /\ Rank \in [DOMAIN Rank -> Nat]
  /\ Gone # Partial /\ {Gone, Partial, None} \cap (Version \cup Update) = {}
  /\ MaxFaults \in Nat /\ MaxLateFaults \in Nat /\ MaxSaveFaults \in Nat
  /\ MaxAge \in Nat

VARIABLES
  app,        \* the installed application: its version, Gone or Partial
  file,       \* settings.json
  pc,         \* what each launcher is doing
  ver,        \* the version each launcher runs
  installed,  \* was it started from the installed application?
  upgrade,    \* its _UPGRADE environment variable
  noupdate,   \* its settings.noupdates, with the command line applied
  feed,       \* the update list of its bootstrap
  newest,     \* newestUpdate
  mem,        \* the settings it loaded for the backoff
  spoilt,     \* has another process got in the way of its copy or deletion?
  frame,      \* what each configuration window is doing
  box,        \* its "disable updates" box
  fmem,       \* the settings it loaded in save()
  faults, lateFaults, saveFaults,
  best,       \* history: the newest version ever installed completely
  lastMark,   \* history: the last attempt marked, until the bundle takes it along
  chain       \* history: upgrades since the user started this process

disk == <<app, file>>
self == <<ver, installed, upgrade, noupdate, feed>>
work == <<newest, mem, spoilt>>
window == <<frame, box, fmem>>
budget == <<faults, lateFaults, saveFaults>>
history == <<best, lastMark, chain>>
vars == <<disk, pc, self, work, window, budget, history>>

Steps == {"off", "check", "newest", "backoff", "mark", "download", "attach",
          "delete", "deleting", "copy", "copying", "relaunch", "notInstalled", "run"}

Goto(p, s) == pc' = [pc EXCEPT ![p] = s]

Fault == faults < MaxFaults /\ faults' = faults + 1 /\ UNCHANGED <<lateFaults, saveFaults>>
LateFault ==
  lateFaults < MaxLateFaults /\ lateFaults' = lateFaults + 1 /\ UNCHANGED <<faults, saveFaults>>
SaveFault ==
  saveFaults < MaxSaveFaults /\ saveFaults' = saveFaults + 1 /\ UNCHANGED <<faults, lateFaults>>

Late(p) == pc[p] \in {"deleting", "copy", "copying", "relaunch"}

(* 1 << Math.min(9, lastUpdateAttemptNum): "512 hours = ~21 days".           *)
Backoff(num) == 2 ^ (IF num < 9 THEN num ELSE 9)

Older(s) == [s EXCEPT !.age = IF @ < MaxAge THEN @ + 1 ELSE @]

\* Mutant: written in place, so that a failure leaves a file that cannot be read.
SaveInPlace(s) ==
  /\ spoilt' = [q \in Procs |-> spoilt[q] \/ pc[q] = "deleting"]
  /\ \/ file' = s /\ UNCHANGED budget
     \/ file' = None /\ SaveFault

(* saveSettings: the file is replaced as a whole, or deleted on any          *)
(* IOException, as it is where its directory is gone.  A file made in a      *)
(* directory that is being deleted keeps the directory from going.           *)
Save(s) ==
  /\ spoilt' = [q \in Procs |-> spoilt[q] \/ pc[q] = "deleting"]
  /\ \/ app # Gone /\ file' = s /\ UNCHANGED budget
     \/ app \in {Gone, Partial} /\ file' = Default /\ UNCHANGED budget
     \/ file' = Default /\ SaveFault
-----------------------------------------------------------------------------
(* findAvailableUpdate.                                                      *)
\* Mutant: the launcher's own version is not compared.
EligibleAnyVersion(u, version) == u.fits /\ (u.minimum = None \/ CompareVersion(version, u.minimum) >= 0)

Eligible(u, version) ==
  /\ u.fits
  /\ CompareVersion(u.version, version) > 0
  /\ u.minimum = None \/ CompareVersion(version, u.minimum) >= 0

(* One turn of the loop, and what it leaves in newestUpdate after each turn. *)
Better(u, before, version) ==
  IF /\ Eligible(u, version)
     /\ before = None \/ CompareVersion(u.version, before.version) > 0
  THEN u ELSE before

NewestAmong(list, version) ==
  LET newestOf[i \in 0..Len(list)] ==
        IF i = 0 THEN None ELSE Better(list[i], newestOf[i - 1], version)
  IN newestOf

NewestUpdate(list, version) == NewestAmong(list, version)[Len(list)]
-----------------------------------------------------------------------------
Init ==
  /\ app = FirstVersion
  /\ file = Default
  /\ pc = [p \in Procs |-> "off"]
  /\ ver = [p \in Procs |-> FirstVersion]
  /\ installed = [p \in Procs |-> FALSE]
  /\ upgrade = [p \in Procs |-> FALSE]
  /\ noupdate = [p \in Procs |-> FALSE]
  /\ feed = [p \in Procs |-> <<>>]
  /\ newest = [p \in Procs |-> None]
  /\ mem = [p \in Procs |-> Default]
  /\ spoilt = [p \in Procs |-> FALSE]
  /\ frame = [f \in Frames |-> "closed"]
  /\ box = [f \in Frames |-> FALSE]
  /\ fmem = [f \in Frames |-> Default]
  /\ faults = 0 /\ lateFaults = 0 /\ saveFaults = 0
  /\ best = FirstVersion
  /\ lastMark = Default
  /\ chain = [p \in Procs |-> 0]

(* A user starts the installed application, or the bare jar, which has its    *)
(* settings elsewhere; with or without --noupdate.                           *)
Start(p) ==
  /\ pc[p] = "off"
  /\ \E jar, cli \in BOOLEAN, list \in Feeds :
       /\ jar \/ app \notin {Gone, Partial}
       /\ installed' = [installed EXCEPT ![p] = ~jar]
       /\ ver' = [ver EXCEPT ![p] = IF jar THEN FirstVersion ELSE app]
       /\ noupdate' = [noupdate EXCEPT ![p] = (~jar /\ file.noupdates) \/ cli]
       /\ feed' = [feed EXCEPT ![p] = list]
  /\ Goto(p, "check")
  /\ UNCHANGED <<disk, upgrade, work, window, budget, history>>

(* On Windows the command looked at is java.home\bin\java.exe, which is not  *)
(* the launcher's executable name; on macOS it is what ps says of the        *)
(* process.                                                                  *)
FromInstaller(p) == Os = "MacOS" /\ installed[p]

CheckInstaller(p) ==
  /\ pc[p] = "check"
  /\ Goto(p, IF FromInstaller(p) THEN "newest" ELSE "notInstalled")
  /\ UNCHANGED <<disk, self, work, window, budget, history>>

SkipUpdate(p) ==
  /\ pc[p] = "notInstalled"
  /\ Goto(p, "run")
  /\ UNCHANGED <<disk, self, work, window, budget, history>>

\* Mutant: the _UPGRADE variable is ignored.
FindUpdateAgain(p) ==
  /\ pc[p] = "newest"
  /\ LET u == NewestUpdate(feed[p], ver[p]) IN
       /\ newest' = [newest EXCEPT ![p] = u]
       /\ Goto(p, IF u = None \/ noupdate[p] THEN "run" ELSE "backoff")
  /\ UNCHANGED <<disk, self, mem, spoilt, window, budget, history>>

(* The newest update, --noupdate, and the _UPGRADE variable.                 *)
FindUpdate(p) ==
  /\ pc[p] = "newest"
  /\ LET u == NewestUpdate(feed[p], ver[p]) IN
       /\ newest' = [newest EXCEPT ![p] = u]
       /\ Goto(p, IF u = None \/ noupdate[p] \/ upgrade[p] THEN "run" ELSE "backoff")
  /\ UNCHANGED <<disk, self, mem, spoilt, window, budget, history>>

\* Mutant: the age of the attempt is not looked at.
BackedOffForever(u, s) == u.hash = s.hash

(* "Load settings for backoff", then the rollout lottery.                    *)
BackedOff(u, s) == u.hash = s.hash /\ s.age < Backoff(s.num)

CheckBackoff(p) ==
  /\ pc[p] = "backoff"
  /\ mem' = [mem EXCEPT ![p] = file]
  /\ \/ BackedOff(newest[p], file) /\ Goto(p, "run")
     \/ ~BackedOff(newest[p], file) /\ Goto(p, "mark")
     \/ ~BackedOff(newest[p], file) /\ newest[p].limited /\ Goto(p, "run")
  /\ UNCHANGED <<disk, self, newest, spoilt, window, budget, history>>

\* Mutant: the attempts are not counted.
MarkWithoutCount(p) ==
  LET marked == [mem[p] EXCEPT !.hash = newest[p].hash, !.age = 0] IN
  /\ pc[p] = "mark"
  /\ Save(marked)
  /\ lastMark' = [lastMark EXCEPT !.hash = newest[p].hash, !.num = @ + 1, !.age = 0]
  /\ Goto(p, "download")
  /\ UNCHANGED <<app, self, newest, mem, window, best, chain>>

(* "Mark update attempt early".                                              *)
Mark(p) ==
  LET marked == [mem[p] EXCEPT !.hash = newest[p].hash, !.num = @ + 1, !.age = 0] IN
  /\ pc[p] = "mark"
  /\ Save(marked)
  /\ lastMark' = [lastMark EXCEPT !.hash = newest[p].hash, !.num = @ + 1, !.age = 0]
  /\ Goto(p, "download")
  /\ UNCHANGED <<app, self, newest, mem, window, best, chain>>

(* Download, verify, mount: each may end the update and let the launcher run. *)
Download(p) ==
  /\ pc[p] = "download"
  /\ \/ Goto(p, "attach") /\ UNCHANGED budget
     \/ Goto(p, "run") /\ Fault
  /\ UNCHANGED <<disk, self, work, window, history>>

Attach(p) ==
  /\ pc[p] = "attach"
  /\ \/ Goto(p, "delete") /\ UNCHANGED budget
     \/ Goto(p, "run") /\ Fault
  /\ UNCHANGED <<disk, self, work, window, history>>

(* "Point of no return - remove old app and copy new".  Both walk the file   *)
(* tree, so each is seen half done.                                          *)
OthersCopySpoilt(p) ==
  spoilt' = [q \in Procs |-> spoilt[q] \/ (q # p /\ pc[q] = "copying")]

(* settings.json goes when delete() comes to it, and the attempt with it.     *)
SettingsGo == file' = Default /\ lastMark' = Default
SettingsMayGo == SettingsGo \/ UNCHANGED <<file, lastMark>>

BeginDelete(p) ==
  /\ pc[p] = "delete"
  /\ \/ /\ app = Gone /\ Goto(p, "run")
        /\ UNCHANGED <<disk, lastMark, spoilt, budget>>
     \/ /\ app # Gone /\ Goto(p, "deleting")
        /\ app' = Partial /\ SettingsMayGo
        /\ OthersCopySpoilt(p) /\ UNCHANGED budget
     \/ /\ app # Gone /\ Goto(p, "run") /\ LateFault
        /\ SettingsMayGo /\ UNCHANGED <<app, spoilt>>
  /\ UNCHANGED <<self, newest, mem, window, best, chain>>

EndDelete(p) ==
  /\ pc[p] = "deleting"
  /\ \/ /\ app = Partial /\ \A q \in Procs : pc[q] # "copying"
        /\ app' = Gone /\ SettingsGo
        /\ Goto(p, "copy") /\ UNCHANGED <<spoilt, budget>>
     \/ /\ app # Partial \/ spoilt[p] \/ \E q \in Procs : pc[q] = "copying"
        /\ app' = IF app = Gone THEN Gone ELSE Partial
        /\ SettingsMayGo
        /\ OthersCopySpoilt(p) /\ Goto(p, "run") /\ UNCHANGED budget
     \/ UNCHANGED <<app, spoilt>> /\ SettingsMayGo /\ Goto(p, "run") /\ LateFault
  /\ UNCHANGED <<self, newest, mem, window, best, chain>>

(* copy() refuses to overwrite a file; a plist without mount point is a      *)
(* NullPointerException here, after the old application is gone.             *)
BeginCopy(p) ==
  /\ pc[p] = "copy"
  /\ \/ /\ app = Gone
        /\ app' = Partial /\ spoilt' = [spoilt EXCEPT ![p] = FALSE]
        /\ Goto(p, "copying") /\ UNCHANGED budget
     \/ app # Gone /\ Goto(p, "run") /\ UNCHANGED <<app, spoilt, budget>>
     \/ Goto(p, "run") /\ LateFault /\ UNCHANGED <<app, spoilt>>
  /\ UNCHANGED <<file, self, newest, mem, window, history>>

EndCopy(p) ==
  /\ pc[p] = "copying"
  /\ \/ /\ ~spoilt[p]
        /\ app' = newest[p].version /\ best' = newest[p].version
        /\ Goto(p, "relaunch") /\ UNCHANGED budget
     \/ spoilt[p] /\ Goto(p, "run") /\ UNCHANGED <<app, best, budget>>
     \/ Goto(p, "run") /\ LateFault /\ UNCHANGED <<app, best>>
  /\ UNCHANGED <<file, self, work, window, lastMark, chain>>

(* The new application is started with _UPGRADE set and the same arguments   *)
(* (--noupdate is not one of them), and this process exits: one process      *)
(* takes the place of the other.                                             *)
Relaunch(p) ==
  /\ pc[p] = "relaunch"
  /\ \/ /\ app \notin {Gone, Partial}
        /\ upgrade' = [upgrade EXCEPT ![p] = TRUE]
        /\ ver' = [ver EXCEPT ![p] = app]
        /\ \E list \in Feeds : feed' = [feed EXCEPT ![p] = list]
        /\ noupdate' = [noupdate EXCEPT ![p] = file.noupdates]
        /\ chain' = [chain EXCEPT ![p] = @ + 1]
        /\ Goto(p, "check") /\ UNCHANGED budget
     \/ /\ (app \in {Gone, Partial} /\ UNCHANGED budget) \/ LateFault
        /\ Goto(p, "run") /\ UNCHANGED <<upgrade, ver, feed, noupdate, chain>>
  /\ UNCHANGED <<disk, installed, work, window, best, lastMark>>

Forget(p) ==
  /\ Goto(p, "off")
  /\ newest' = [newest EXCEPT ![p] = None]
  /\ mem' = [mem EXCEPT ![p] = Default]
  /\ feed' = [feed EXCEPT ![p] = <<>>]
  /\ spoilt' = [spoilt EXCEPT ![p] = FALSE]
  /\ ver' = [ver EXCEPT ![p] = FirstVersion]
  /\ installed' = [installed EXCEPT ![p] = FALSE]
  /\ upgrade' = [upgrade EXCEPT ![p] = FALSE]
  /\ noupdate' = [noupdate EXCEPT ![p] = FALSE]
  /\ chain' = [chain EXCEPT ![p] = 0]
  /\ UNCHANGED <<app, window, best>>

Exit(p) ==
  /\ pc[p] = "run"
  /\ Forget(p)
  /\ UNCHANGED <<file, lastMark, budget>>

Kill(p) ==
  /\ pc[p] \notin {"off", "run"}
  /\ IF Late(p) THEN LateFault ELSE Fault
  /\ IF pc[p] = "deleting" THEN SettingsMayGo ELSE UNCHANGED <<file, lastMark>>
  /\ Forget(p)
-----------------------------------------------------------------------------
(* ConfigurationFrame: opened on the settings, changed by the user, and on   *)
(* "Save" merged into a fresh copy of the file.                              *)
OpenFrame(f) ==
  /\ frame[f] = "closed" /\ app \notin {Gone, Partial}
  /\ frame' = [frame EXCEPT ![f] = "open"]
  /\ box' = [box EXCEPT ![f] = file.noupdates]
  /\ UNCHANGED <<disk, pc, self, work, fmem, budget, history>>

ToggleBox(f) ==
  /\ frame[f] = "open"
  /\ box' = [box EXCEPT ![f] = ~@]
  /\ UNCHANGED <<disk, pc, self, work, frame, fmem, budget, history>>

LoadToSave(f) ==
  /\ frame[f] = "open"
  /\ frame' = [frame EXCEPT ![f] = "saving"]
  /\ fmem' = [fmem EXCEPT ![f] = [file EXCEPT !.noupdates = box[f]]]
  /\ UNCHANGED <<disk, pc, self, work, box, budget, history>>

SaveFrame(f) ==
  /\ frame[f] = "saving"
  /\ Save(fmem[f])
  /\ frame' = [frame EXCEPT ![f] = "closed"]
  /\ fmem' = [fmem EXCEPT ![f] = Default]
  /\ UNCHANGED <<app, pc, self, newest, mem, box, history>>

(* An hour passes, for the file and for every copy of it in memory.          *)
Tick ==
  /\ file' = Older(file)
  /\ mem' = [p \in Procs |-> Older(mem[p])]
  /\ fmem' = [f \in Frames |-> Older(fmem[f])]
  /\ lastMark' = Older(lastMark)
  /\ UNCHANGED <<app, pc, self, newest, spoilt, frame, box, budget, best, chain>>

Step(p) ==
  \/ CheckInstaller(p) \/ SkipUpdate(p) \/ FindUpdate(p) \/ CheckBackoff(p)
  \/ Mark(p) \/ Download(p) \/ Attach(p)
  \/ BeginDelete(p) \/ EndDelete(p) \/ BeginCopy(p) \/ EndCopy(p) \/ Relaunch(p)

Next ==
  \/ \E p \in Procs : Start(p) \/ Step(p) \/ Exit(p) \/ Kill(p)
  \/ \E f \in Frames : OpenFrame(f) \/ ToggleBox(f) \/ LoadToSave(f) \/ SaveFrame(f)
  \/ Tick

Spec == Init /\ [][Next]_vars

(* A launcher goes on; the user keeps starting the installed application     *)
(* without --noupdate; the lottery, drawn anew at every start, is won some   *)
(* day; time passes.                                                         *)
StartInstalled(p) == Start(p) /\ installed'[p] /\ ~noupdate'[p]
WinLottery(p) == CheckBackoff(p) /\ pc'[p] = "mark"

Fairness ==
  /\ WF_vars(Tick)
  /\ \A p \in Procs :
       /\ WF_vars(Step(p)) /\ WF_vars(Exit(p))
       /\ SF_vars(StartInstalled(p)) /\ SF_vars(WinLottery(p))

FairSpec == Spec /\ Fairness
-----------------------------------------------------------------------------
TypeOK ==
  /\ app \in Version \cup {Gone, Partial}
  /\ file \in Settings
  /\ pc \in [Procs -> Steps]
  /\ ver \in [Procs -> Version]
  /\ installed \in [Procs -> BOOLEAN]
  /\ upgrade \in [Procs -> BOOLEAN]
  /\ noupdate \in [Procs -> BOOLEAN]
  /\ feed \in [Procs -> Seq(Update)]
  /\ newest \in [Procs -> Update \cup {None}]
  /\ mem \in [Procs -> Settings]
  /\ spoilt \in [Procs -> BOOLEAN]
  /\ frame \in [Frames -> {"closed", "open", "saving"}]
  /\ box \in [Frames -> BOOLEAN]
  /\ fmem \in [Frames -> Settings]
  /\ faults \in Nat /\ lateFaults \in Nat /\ saveFaults \in Nat
  /\ best \in Version
  /\ lastMark \in Settings
  /\ chain \in [Procs -> Nat]

(* What a launcher is about to install is the newest update its version may  *)
(* take, in the order that versions are meant to have: newer than itself,    *)
(* allowed by minimumVersion, and none such in the list is newer             *)
(* (findAvailableUpdate and compareVersion, whatever the order of the list). *)
Offers(p) ==
  {u \in {feed[p][i] : i \in DOMAIN feed[p]} :
     /\ u.fits /\ Rank[u.version] > Rank[ver[p]]
     /\ u.minimum = None \/ Rank[ver[p]] >= Rank[u.minimum]}

NewestChosen ==
  \A p \in Procs : pc[p] \in Steps \ {"off", "check", "newest", "notInstalled", "run"} =>
    /\ newest[p] \in Offers(p)
    /\ \A u \in Offers(p) : Rank[u.version] <= Rank[newest[p].version]

(* However updates, failed ones, restarts and settings races follow each     *)
(* other, the application is never replaced by an older one.                 *)
NeverDowngrades == [][Rank[best'] >= Rank[best]]_vars

(* One start by the user leads to one upgrade at most: the process started   *)
(* by an upgrade (_UPGRADE) does not upgrade again, even if the new version  *)
(* is now allowed to take a further update.                                  *)
OneUpgradePerStart == \A p \in Procs : chain[p] <= 1

(* After n attempts the next attempt at the same update comes no sooner than *)
(* 2^min(9, n) hours after the last: through failures, kills and restarts,   *)
(* because the attempt is marked before the download ("Mark update attempt   *)
(* early").  For a launcher that is alone with its settings file, and until  *)
(* the file goes with the bundle: what fails from the deletion on is tried   *)
(* again at once.                                                            *)
HoldsBackoff ==
  \A p \in Procs : pc[p] = "mark" /\ pc'[p] = "download" =>
    \/ newest[p].hash # lastMark.hash
    \/ lastMark.age >= Backoff(lastMark.num)

BackoffHeld == [][HoldsBackoff]_vars

(* If only so many downloads and mounts fail, the newest update is installed *)
(* some day: the backoff delays a new attempt but never forbids it.          *)
EventuallyLatest ==
  <>(/\ app \notin {Gone, Partial}
     /\ \A list \in Feeds : \A i \in DOMAIN list :
          list[i].fits => Rank[list[i].version] <= Rank[app])

(* "Point of no return - remove old app and copy new": when every launcher    *)
(* is through with its update, or with giving it up, there is an application. *)
(* Nothing in the code keeps two launchers from passing that point together. *)
AppSurvives ==
  (\A p \in Procs : pc[p] \in {"off", "run"}) => app \notin {Gone, Partial}
=============================================================================
