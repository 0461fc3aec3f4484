---------------------------- MODULE PackrConfig -----------------------------
(***************************************************************************)
(* config.json, from which the native packr launcher takes the arguments   *)
(* and the environment of the launcher's JVM, and its two writers:         *)
(* PackrConfig.updateLauncherArgs, called by every launcher run and by     *)
(* --postinstall with the arguments of the signed bootstrap, and the       *)
(* configuration window, which adds or removes the IPv4 flag.  Both follow *)
(* the ipv4 setting of settings.json, whose writers are the window and, on *)
(* macOS, the self-update, which saves all the settings it has loaded and  *)
(* takes both files away with the old application.  On Windows, where it   *)
(* never gets that far (Updater), and macOS; elsewhere patch() does        *)
(* nothing.                                                                *)
(***************************************************************************)
EXTENDS Integers, FiniteSets

CONSTANTS
  Launchers,   \* launcher processes
  Frames,      \* configuration windows
  Releases,    \* bootstraps; each has its own vmArgs and env
  ArgsOf,      \* release -> BOOLEAN: does the bootstrap have launcher arguments?
  Shipped,     \* the config.json that was installed
  Updates,     \* does the self-update get past its installer check (macOS)?
  MaxSaves,    \* bound: saves of configuration windows
  MaxInstalls, \* bound: updates that install a new application
  MaxFaults    \* bound: bootstraps, reads, writes and deletions that fail

ASSUME PackrConfigAssumption ==
  /\ ArgsOf \in [Releases -> BOOLEAN] /\ Shipped \notin Releases
  /\ Updates \in BOOLEAN
  /\ MaxSaves \in Nat /\ MaxInstalls \in Nat /\ MaxFaults \in Nat

VARIABLES
  ipv4,     \* settings.ipv4 on disk
  config,   \* config.json: whose vmArgs, whose env, how many IPv4 flags in vmArgs
  pc,       \* what each launcher is doing
  mem,      \* the ipv4 setting it loaded when main() started
  release,  \* its bootstrap
  upd,      \* the ipv4 setting its self-update loaded for the backoff
  frame,    \* what each window is doing
  box,      \* its IPv4 box
  read,     \* the config.json each launcher or window is patching
  saves, installs, faults

launcher == <<mem, release, upd>>
window == <<frame, box>>
vars == <<ipv4, config, pc, launcher, window, read, saves, installs, faults>>

Configs == [args : Releases \cup {Shipped}, env : Releases \cup {Shipped}, flags : Nat]
ShippedConfig == [args |-> Shipped, env |-> Shipped, flags |-> 0]

Writers == Launchers \cup Frames

Fault == faults < MaxFaults /\ faults' = faults + 1

Flags(on) == IF on THEN 1 ELSE 0

Init ==
  /\ ipv4 = FALSE
  /\ config = ShippedConfig
  /\ pc = [l \in Launchers |-> "off"]
  /\ mem = [l \in Launchers |-> FALSE]
  /\ release = [l \in Launchers |-> Shipped]
  /\ upd = [l \in Launchers |-> FALSE]
  /\ frame = [f \in Frames |-> "closed"]
  /\ box = [f \in Frames |-> FALSE]
  /\ read = [w \in Writers |-> ShippedConfig]
  /\ saves = 0 /\ installs = 0 /\ faults = 0
-----------------------------------------------------------------------------
(* main(): the settings are loaded first, the bootstrap is fetched long      *)
(* after.                                                                    *)
Start(l) ==
  /\ pc[l] = "off"
  /\ pc' = [pc EXCEPT ![l] = "bootstrap"]
  /\ mem' = [mem EXCEPT ![l] = ipv4]
  /\ UNCHANGED <<ipv4, config, release, upd, window, read, saves, installs, faults>>

GetBootstrap(l) ==
  /\ pc[l] = "bootstrap"
  /\ \/ /\ \E r \in Releases : release' = [release EXCEPT ![l] = r]
        /\ pc' = [pc EXCEPT ![l] = "update"] /\ UNCHANGED faults
     \/ pc' = [pc EXCEPT ![l] = "off"] /\ Fault /\ UNCHANGED release
  /\ UNCHANGED <<ipv4, config, mem, upd, window, read, saves, installs>>

(* updateLauncherArgs does nothing without arguments.                        *)
GoOn(l) == pc' = [pc EXCEPT ![l] = IF ArgsOf[release[l]] THEN "patch" ELSE "off"]

(* --postinstall does not update, and neither does a launcher without a      *)
(* newer version to go to; "Load settings for backoff" comes after that.     *)
CheckUpdate(l) ==
  /\ pc[l] = "update"
  /\ \/ GoOn(l) /\ UNCHANGED upd
     \/ Updates /\ pc' = [pc EXCEPT ![l] = "mark"] /\ upd' = [upd EXCEPT ![l] = ipv4]
  /\ UNCHANGED <<ipv4, config, mem, release, window, read, saves, installs, faults>>

(* "Mark update attempt early" saves the ipv4 setting loaded above with the  *)
(* attempt.  A save that fails deletes settings.json: every setting is back  *)
(* to its default.                                                           *)
MarkUpdate(l) ==
  /\ pc[l] = "mark"
  /\ \/ ipv4' = upd[l] /\ UNCHANGED faults
     \/ ipv4' = FALSE /\ Fault
  /\ pc' = [pc EXCEPT ![l] = "updating"]
  /\ UNCHANGED <<config, launcher, window, read, saves, installs>>

(* The update ends before it deletes anything, or fails in the deletion with *)
(* settings.json gone, or installs an application without settings.json and  *)
(* with a config.json of its own, and exits.  (With config.json gone and no  *)
(* new application no launcher starts: see Updater.)                         *)
EndUpdate(l) ==
  /\ pc[l] = "updating"
  /\ \/ GoOn(l) /\ UNCHANGED <<ipv4, config, installs, faults>>
     \/ GoOn(l) /\ ipv4' = FALSE /\ Fault /\ UNCHANGED <<config, installs>>
     \/ /\ installs < MaxInstalls /\ installs' = installs + 1
        /\ ipv4' = FALSE /\ config' = ShippedConfig
        /\ pc' = [pc EXCEPT ![l] = "off"] /\ UNCHANGED faults
  /\ UNCHANGED <<launcher, window, read, saves>>

(* patch(): the whole file is read, and later replaced as a whole.  A file   *)
(* that is missing, read-only or unreadable ends it without an effect.       *)
ReadConfig(l) ==
  /\ pc[l] = "patch"
  /\ \/ /\ read' = [read EXCEPT ![l] = config]
        /\ pc' = [pc EXCEPT ![l] = "write"] /\ UNCHANGED faults
     \/ pc' = [pc EXCEPT ![l] = "off"] /\ Fault /\ UNCHANGED read
  /\ UNCHANGED <<ipv4, config, launcher, window, saves, installs>>

(* Mutant of Patched: the environment is left as it was.                     *)
ArgsOnly(l) == [read[l] EXCEPT !.args = release[l], !.flags = Flags(mem[l])]

(* Mutant of Patched: the flag is put in when the setting is on and not taken *)
(* out when it is off, as if the old arguments were kept.                    *)
FlagKept(l) ==
  [read[l] EXCEPT !.args = release[l], !.env = release[l],
                  !.flags = IF mem[l] THEN 1 ELSE @]

Patched(l) ==
  [read[l] EXCEPT !.args = release[l], !.env = release[l], !.flags = Flags(mem[l])]

WriteConfig(l) ==
  /\ pc[l] = "write"
  /\ \/ config' = Patched(l) /\ UNCHANGED faults
     \/ UNCHANGED config /\ Fault
  /\ pc' = [pc EXCEPT ![l] = "off"]
  /\ read' = [read EXCEPT ![l] = ShippedConfig]
  /\ UNCHANGED <<ipv4, launcher, window, saves, installs>>
-----------------------------------------------------------------------------
OpenFrame(f) ==
  /\ frame[f] = "closed" /\ saves < MaxSaves
  /\ frame' = [frame EXCEPT ![f] = "open"]
  /\ box' = [box EXCEPT ![f] = ipv4]
  /\ UNCHANGED <<ipv4, config, pc, launcher, read, saves, installs, faults>>

(* The user ticks the box or not, and saves; a save that fails is not        *)
(* noticed here either.                                                      *)
SaveSettings(f) ==
  /\ frame[f] = "open" /\ saves < MaxSaves
  /\ saves' = saves + 1
  /\ \E on \in BOOLEAN :
       /\ box' = [box EXCEPT ![f] = on]
       /\ \/ ipv4' = on /\ UNCHANGED faults
          \/ ipv4' = FALSE /\ Fault
  /\ frame' = [frame EXCEPT ![f] = "patch"]
  /\ UNCHANGED <<config, pc, launcher, read, installs>>

(* "IPv4 change requires patching packr config", made on every save.         *)
ReadForFrame(f) ==
  /\ frame[f] = "patch"
  /\ \/ /\ read' = [read EXCEPT ![f] = config]
        /\ frame' = [frame EXCEPT ![f] = "write"] /\ UNCHANGED faults
     \/ frame' = [frame EXCEPT ![f] = "closed"] /\ Fault /\ UNCHANGED read
  /\ UNCHANGED <<ipv4, config, pc, launcher, box, saves, installs>>

(* Mutant of Flipped: the flag is taken out although it is not there.        *)
FlippedBlindly(f) ==
  [read[f] EXCEPT !.flags = IF box[f] THEN @ + 1 ELSE @ - 1]

(* vmArgs.add(flag), or vmArgs.remove(flag), which removes one occurrence.   *)
Flipped(f) ==
  LET n == read[f].flags IN
  [read[f] EXCEPT !.flags = IF box[f] THEN n + 1 ELSE IF n > 0 THEN n - 1 ELSE 0]

WriteForFrame(f) ==
  /\ frame[f] = "write"
  /\ \/ config' = Flipped(f) /\ UNCHANGED faults
     \/ UNCHANGED config /\ Fault
  /\ frame' = [frame EXCEPT ![f] = "closed"]
  /\ read' = [read EXCEPT ![f] = ShippedConfig]
  /\ UNCHANGED <<ipv4, pc, launcher, box, saves, installs>>

CloseFrame(f) ==
  /\ frame[f] = "open"
  /\ frame' = [frame EXCEPT ![f] = "closed"]
  /\ UNCHANGED <<ipv4, config, pc, launcher, box, read, saves, installs, faults>>

UpdateStep(l) == CheckUpdate(l) \/ MarkUpdate(l) \/ EndUpdate(l)
LauncherStep(l) ==
  Start(l) \/ GetBootstrap(l) \/ UpdateStep(l) \/ ReadConfig(l) \/ WriteConfig(l)
FrameStep(f) == ReadForFrame(f) \/ WriteForFrame(f)

Next ==
  \/ \E l \in Launchers : LauncherStep(l)
  \/ \E f \in Frames : OpenFrame(f) \/ SaveSettings(f) \/ FrameStep(f) \/ CloseFrame(f)

Spec == Init /\ [][Next]_vars

(* A launcher is started again and again, and its bootstrap has arguments    *)
(* again and again; a window that was asked to save goes on; nobody has to   *)
(* open a window.                                                            *)
GetArgs(l) == GetBootstrap(l) /\ pc'[l] = "update" /\ ArgsOf[release'[l]]

Fairness ==
  /\ \A l \in Launchers : WF_vars(LauncherStep(l)) /\ SF_vars(GetArgs(l))
  /\ \A f \in Frames : WF_vars(FrameStep(f))

FairSpec == Spec /\ Fairness
-----------------------------------------------------------------------------
TypeOK ==
  /\ ipv4 \in BOOLEAN
  /\ config \in Configs
  /\ pc \in [Launchers -> {"off", "bootstrap", "update", "mark", "updating", "patch", "write"}]
  /\ mem \in [Launchers -> BOOLEAN]
  /\ release \in [Launchers -> Releases \cup {Shipped}]
  /\ upd \in [Launchers -> BOOLEAN]
  /\ frame \in [Frames -> {"closed", "open", "patch", "write"}]
  /\ box \in [Frames -> BOOLEAN]
  /\ read \in [Writers -> Configs]
  /\ saves \in Nat /\ installs \in Nat /\ faults \in Nat

(* The arguments and the environment of the launcher's JVM always come from  *)
(* one bootstrap, whatever launchers and windows patch the file at the same  *)
(* time and overwrite each other's work.                                     *)
ArgsMatchEnv == config.args = config.env

(* Once the user stops changing settings, the launcher runs that follow make *)
(* the flag and the setting agree for good, and no flag is there twice:      *)
(* lost patches, stale settings, failed saves, and settings that a           *)
(* self-update puts back or takes away heal.                                 *)
FlagConverges == <>[](config.flags = Flags(ipv4))
=============================================================================
