-------------------------- MODULE PackrConfigProofs --------------------------
(***************************************************************************)
(* Theorems about PackrConfig, for any launchers, windows and bootstraps.  *)
(***************************************************************************)
EXTENDS PackrConfig, TLAPS

(* Every copy of config.json that a launcher or a window has in hand, and    *)
(* may write back long after it was read, is of one bootstrap too.           *)
WholeCopies == \A w \in Writers : read[w].args = read[w].env

IInv == TypeOK /\ ArgsMatchEnv /\ WholeCopies

LEMMA WritersAreBoth == Launchers \subseteq Writers /\ Frames \subseteq Writers
  BY DEF Writers

LEMMA ShippedTyped == ShippedConfig \in Configs /\ ShippedConfig.args = ShippedConfig.env
  BY DEF ShippedConfig, Configs

(* What the two writers make of a copy.                                      *)
LEMMA PatchedIsWhole ==
  ASSUME TypeOK, NEW l \in Launchers
  PROVE  Patched(l) \in Configs /\ Patched(l).args = Patched(l).env
  <1>1. read[l] \in Configs /\ release[l] \in Releases \cup {Shipped}
    BY WritersAreBoth DEF TypeOK
  <1>2. Flags(mem[l]) \in Nat BY DEF Flags
  <1> QED BY <1>1, <1>2 DEF Patched, Configs

LEMMA FlippedIsWhole ==
  ASSUME IInv, NEW f \in Frames
  PROVE  Flipped(f) \in Configs /\ Flipped(f).args = Flipped(f).env
  <1>1. read[f] \in Configs /\ read[f].args = read[f].env
    BY WritersAreBoth DEF IInv, TypeOK, WholeCopies
  <1>2. read[f].flags \in Nat BY <1>1 DEF Configs
  <1>3. (IF box[f] THEN read[f].flags + 1
         ELSE IF read[f].flags > 0 THEN read[f].flags - 1 ELSE 0) \in Nat
    BY <1>2
  <1> QED BY <1>1, <1>3 DEF Flipped, Configs

LEMMA InitIInv == Init => IInv
  <1> SUFFICES ASSUME Init PROVE IInv
    OBVIOUS
  <1>1. TypeOK BY ShippedTyped DEF Init, TypeOK
  <1>2. ArgsMatchEnv BY ShippedTyped DEF Init, ArgsMatchEnv
  <1>3. WholeCopies BY ShippedTyped DEF Init, WholeCopies
  <1> QED BY <1>1, <1>2, <1>3 DEF IInv

LEMMA NextIInv == IInv /\ [Next]_vars => IInv'
  <1> SUFFICES ASSUME IInv, [Next]_vars PROVE IInv'
    OBVIOUS
  <1> USE DEF IInv, TypeOK, ArgsMatchEnv, WholeCopies, Fault, launcher, window
  <1>1. ASSUME NEW l \in Launchers, Start(l) PROVE IInv'
    BY <1>1 DEF Start
  <1>2. ASSUME NEW l \in Launchers, GetBootstrap(l) PROVE IInv'
    <2>1. /\ UNCHANGED <<ipv4, config, mem, upd, window, read, saves, installs>>
          /\ faults' \in Nat
      BY <1>2 DEF GetBootstrap
    <2>2. CASE UNCHANGED release /\ pc' = [pc EXCEPT ![l] = "off"]
      BY <2>1, <2>2
    <2>3. ASSUME NEW r \in Releases, release' = [release EXCEPT ![l] = r],
                 pc' = [pc EXCEPT ![l] = "update"]
          PROVE  IInv'
      BY <2>1, <2>3
    <2> QED BY <1>2, <2>2, <2>3 DEF GetBootstrap
  <1>u. ASSUME NEW l \in Launchers, UpdateStep(l) PROVE IInv'
    <2>1. pc' \in [Launchers -> {"off", "bootstrap", "update", "mark", "updating",
                                "patch", "write"}]
      BY <1>u DEF UpdateStep, CheckUpdate, MarkUpdate, EndUpdate, GoOn
    <2>2. CASE CheckUpdate(l)
      <3>1. upd' \in [Launchers -> BOOLEAN] BY <2>2 DEF CheckUpdate
      <3> QED BY <2>1, <2>2, <3>1 DEF CheckUpdate
    <2>3. CASE MarkUpdate(l)
      <3>1. ipv4' \in BOOLEAN
        <4>1. upd[l] \in BOOLEAN OBVIOUS
        <4>2. CASE ipv4' = upd[l] BY <4>1, <4>2, Zenon
        <4>3. CASE ipv4' = FALSE BY <4>3
        <4> QED BY <2>3, <4>2, <4>3 DEF MarkUpdate
      <3> QED BY <2>1, <2>3, <3>1 DEF MarkUpdate
    <2>4. CASE EndUpdate(l)
      <3>1. UNCHANGED <<launcher, window, read, saves>>
        BY <2>4 DEF EndUpdate
      <3>2. CASE UNCHANGED <<ipv4, config, installs, faults>>
        BY <2>1, <3>1, <3>2
      <3>3. ASSUME ipv4' = FALSE,
                   config' = config \/ config' = ShippedConfig,
                   installs' \in Nat, faults' \in Nat
            PROVE  IInv'
        <4>1. ipv4' \in BOOLEAN BY <3>3
        <4>2. config' \in Configs /\ config'.args = config'.env
          BY <3>3, ShippedTyped
        <4>3. installs' \in Nat /\ faults' \in Nat BY <3>3
        <4> QED BY <2>1, <3>1, <4>1, <4>2, <4>3
      <3>4. installs' \in Nat /\ faults' \in Nat
        BY <2>4 DEF EndUpdate
      <3> QED BY <2>4, <3>2, <3>3, <3>4 DEF EndUpdate
    <2> QED BY <1>u, <2>2, <2>3, <2>4 DEF UpdateStep
  <1>3. ASSUME NEW l \in Launchers, ReadConfig(l) PROVE IInv'
    BY <1>3, WritersAreBoth DEF ReadConfig
  <1>4. ASSUME NEW l \in Launchers, WriteConfig(l) PROVE IInv'
    <2>1. config' \in Configs /\ config'.args = config'.env
      BY <1>4, PatchedIsWhole DEF WriteConfig
    <2> QED BY <1>4, <2>1, ShippedTyped, WritersAreBoth DEF WriteConfig
  <1>5. ASSUME NEW f \in Frames, OpenFrame(f) \/ CloseFrame(f) PROVE IInv'
    BY <1>5 DEF OpenFrame, CloseFrame
  <1>6. ASSUME NEW f \in Frames, SaveSettings(f) PROVE IInv'
    <2>1. PICK on \in BOOLEAN :
            /\ box' = [box EXCEPT ![f] = on]
            /\ \/ ipv4' = on /\ UNCHANGED faults
               \/ ipv4' = FALSE /\ Fault
      BY <1>6 DEF SaveSettings
    <2>2. box' \in [Frames -> BOOLEAN] BY <2>1
    <2>3. ipv4' \in BOOLEAN
      <3>1. CASE ipv4' = on BY <3>1, Zenon
      <3>2. CASE ipv4' = FALSE BY <3>2
      <3> QED BY <2>1, <3>1, <3>2
    <2>4. faults' \in Nat BY <2>1
    <2> QED BY <1>6, <2>2, <2>3, <2>4 DEF SaveSettings
  <1>7. ASSUME NEW f \in Frames, ReadForFrame(f) PROVE IInv'
    BY <1>7, WritersAreBoth DEF ReadForFrame
  <1>8. ASSUME NEW f \in Frames, WriteForFrame(f) PROVE IInv'
    <2>1. config' \in Configs /\ config'.args = config'.env
      BY <1>8, FlippedIsWhole DEF WriteForFrame
    <2> QED BY <1>8, <2>1, ShippedTyped, WritersAreBoth DEF WriteForFrame
  <1>9. CASE UNCHANGED vars
    BY <1>9 DEF vars
  <1> QED
    BY <1>1, <1>2, <1>3, <1>4, <1>5, <1>6, <1>7, <1>8, <1>9, <1>u
    DEF Next, LauncherStep, FrameStep

(* Settings, copies and config.json keep their types.                        *)
THEOREM ConfigTypeCorrect == Spec => []TypeOK
  <1>1. IInv => TypeOK BY DEF IInv
  <1> QED BY InitIInv, NextIInv, <1>1, PTL DEF Spec

(* patch() (launcher) and patch (window): however many launchers of however  *)
(* many releases and windows overwrite each other's config.json, arguments   *)
(* and environment are of one bootstrap.                                     *)
THEOREM ArgsMatchEnvSafe == Spec => []ArgsMatchEnv
  <1>1. IInv => ArgsMatchEnv BY DEF IInv
  <1> QED BY InitIInv, NextIInv, <1>1, PTL DEF Spec
-----------------------------------------------------------------------------
(***************************************************************************)
(* How the file heals                                                      *)
(***************************************************************************)

(* No window is about to write, and no launcher has a stale setting that it  *)
(* will yet use.                                                             *)
Quiet ==
  /\ \A f \in Frames : frame[f] \in {"closed", "open"}
  /\ \A l \in Launchers : pc[l] # "off" => mem[l] = ipv4
  /\ \A l \in Launchers : pc[l] = "mark" => upd[l] = ipv4

(* settings.json is lost while it turned IPv4 on: saving the update attempt  *)
(* or deleting the application failed, or a new application was installed.   *)
Lost == ipv4 /\ ~ipv4' /\ (faults' = faults + 1 \/ config' = ShippedConfig)

(* What is left to do once it is quiet is done by the next patch.            *)
Heals ==
  Quiet /\ saves' = saves =>
    \/ /\ Quiet' /\ ipv4' = ipv4
       /\ config' = config \/ config'.flags = Flags(ipv4)
    \/ Lost

LEMMA QuietHeals == TypeOK /\ [Next]_vars => Heals
<1> DEFINE Healing ==
      /\ Quiet' /\ ipv4' = ipv4
      /\ config' = config \/ config'.flags = Flags(ipv4)
<1> SUFFICES ASSUME TypeOK, [Next]_vars, Quiet, saves' = saves
             PROVE  Healing \/ Lost
  BY DEF Heals
<1>0. /\ pc \in [Launchers -> {"off", "bootstrap", "update", "mark", "updating",
                              "patch", "write"}]
      /\ mem \in [Launchers -> BOOLEAN] /\ upd \in [Launchers -> BOOLEAN]
      /\ ipv4 \in BOOLEAN /\ saves \in Nat
      /\ frame \in [Frames -> {"closed", "open", "patch", "write"}]
  BY DEF TypeOK
<1>1. ASSUME NEW l \in Launchers,
             Start(l) \/ GetBootstrap(l) \/ CheckUpdate(l) \/ ReadConfig(l)
      PROVE  Healing
  BY <1>0, <1>1
  DEF Start, GetBootstrap, CheckUpdate, GoOn, ReadConfig, Quiet, launcher, window
<1>2. ASSUME NEW l \in Launchers, WriteConfig(l)
      PROVE  Healing
  <2>1. mem[l] = ipv4
    BY <1>2 DEF WriteConfig, Quiet
  <2>2. read[l] \in Configs
    BY WritersAreBoth DEF TypeOK
  <2>3. Patched(l).flags = Flags(ipv4)
    BY <2>1, <2>2 DEF Patched, Configs
  <2>4. Quiet' /\ ipv4' = ipv4
    BY <1>0, <1>2 DEF WriteConfig, Quiet, launcher, window
  <2> QED
    BY <1>2, <2>3, <2>4 DEF WriteConfig
<1>3. ASSUME NEW l \in Launchers, MarkUpdate(l)
      PROVE  Healing \/ Lost
  <2>1. upd[l] = ipv4 /\ UNCHANGED <<config, launcher, window>>
    BY <1>3 DEF MarkUpdate, Quiet
  <2>2. CASE ipv4' = ipv4
    <3>1. Quiet'
      BY <1>0, <1>3, <2>1, <2>2 DEF MarkUpdate, Quiet, launcher, window
    <3> QED BY <2>1, <2>2, <3>1
  <2>3. CASE ipv4' # ipv4
    <3>1. ipv4' = FALSE /\ faults' = faults + 1
      BY <1>3, <2>1, <2>3 DEF MarkUpdate, Fault
    <3> QED BY <1>0, <2>3, <3>1 DEF Lost
  <2> QED BY <2>2, <2>3
<1>4. ASSUME NEW l \in Launchers, EndUpdate(l)
      PROVE  Healing \/ Lost
  <2>1. UNCHANGED <<launcher, window>>
    BY <1>4 DEF EndUpdate
  <2>2. CASE ipv4' = ipv4
    <3>1. Quiet'
      BY <1>0, <1>4, <2>1, <2>2 DEF EndUpdate, GoOn, Quiet, launcher, window
    <3>2. CASE config' = config
      BY <2>2, <3>1, <3>2
    <3>3. CASE config' # config
      <4>1. ipv4' = FALSE /\ config' = ShippedConfig
        BY <1>4, <3>3 DEF EndUpdate
      <4>2. config'.flags = Flags(ipv4)
        BY <2>2, <4>1 DEF ShippedConfig, Flags
      <4> QED BY <2>2, <3>1, <4>2
    <3> QED BY <3>2, <3>3
  <2>3. CASE ipv4' # ipv4
    <3>1. ipv4' = FALSE /\ (faults' = faults + 1 \/ config' = ShippedConfig)
      BY <1>4, <2>3 DEF EndUpdate, Fault
    <3> QED BY <1>0, <2>3, <3>1 DEF Lost
  <2> QED BY <2>2, <2>3
<1>5. ASSUME NEW f \in Frames, OpenFrame(f) \/ CloseFrame(f)
      PROVE  Healing
  BY <1>0, <1>5 DEF OpenFrame, CloseFrame, Quiet, launcher, window
<1>6. ASSUME NEW f \in Frames PROVE ~SaveSettings(f) /\ ~FrameStep(f)
  BY <1>0 DEF SaveSettings, FrameStep, ReadForFrame, WriteForFrame, Quiet
<1>7. UNCHANGED vars => Healing
  BY DEF vars, Quiet, launcher, window
<1> QED
  BY <1>1, <1>2, <1>3, <1>4, <1>5, <1>6, <1>7 DEF Next, LauncherStep, UpdateStep

(* Why FlagConverges holds, and what keeps the flag right from then on: once *)
(* no window saves and no launcher has an earlier setting in hand, it stays  *)
(* so, and every change of config.json, by whichever launcher and on top of  *)
(* whatever copy, puts in the flag of the current setting.  What a           *)
(* self-update saves then is the setting that is there; only by losing       *)
(* settings.json can it end the quiet.                                       *)
THEOREM QuietStepsHeal == Spec => [][Heals]_vars
<1>1. IInv => TypeOK BY DEF IInv
<1>2. TypeOK /\ [Next]_vars => [Heals]_vars BY QuietHeals
<1> QED BY InitIInv, NextIInv, <1>1, <1>2, PTL DEF Spec

(* The flag that is right stays right, until settings.json is lost.          *)
Settled == Quiet /\ config.flags = Flags(ipv4)

THEOREM SettledStays == Spec => [][Settled /\ saves' = saves => Settled' \/ Lost]_vars
<1>1. Heals => (Settled /\ saves' = saves => Settled' \/ Lost)
  BY DEF Heals, Settled, Flags
<1>2. [Heals]_vars => [Settled /\ saves' = saves => Settled' \/ Lost]_vars
  BY <1>1
<1> QED BY QuietStepsHeal, <1>2, PTL
=============================================================================
