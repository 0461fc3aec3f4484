---------------------------- MODULE UpdaterProofs -----------------------------
(***************************************************************************)
(* Theorems about Updater, for any launchers and windows, any update lists *)
(* and versions, and whatever the bounds on failures.                      *)
(***************************************************************************)
EXTENDS Updater, VersionsProofs

(***************************************************************************)
(* The loop of findAvailableUpdate                                         *)
(***************************************************************************)

(* The recursive definition has a solution: if there were none on 0..k, for *)
(* the least such k, the one on 0..k-1 could be extended.                   *)
LEMMA NewestAmongDef ==
  ASSUME NEW list \in Seq(Update), NEW version \in Version
  PROVE  NewestAmong(list, version) =
           [i \in 0 .. Len(list) |->
              IF i = 0 THEN None
              ELSE Better(list[i], NewestAmong(list, version)[i - 1], version)]
  <1> DEFINE n == Len(list)
             Turn(g, i) == IF i = 0 THEN None ELSE Better(list[i], g[i - 1], version)
             Solves(g, k) == g = [i \in 0 .. k |-> Turn(g, i)]
             B == {k \in 0 .. n : ~ \E g : Solves(g, k)}
  <1>0. n \in Nat OBVIOUS
  <1>1. ASSUME B # {} PROVE FALSE
    <2>1. PICK k \in B : \A j \in B : k <= j
      <3>1. B \in SUBSET Nat OBVIOUS
      <3> HIDE DEF B
      <3> QED BY <1>1, <3>1, Least
    <2>2. CASE k = 0
      <3>1. Solves([i \in 0 .. 0 |-> None], 0) OBVIOUS
      <3> QED BY <2>1, <2>2, <3>1
    <2>3. CASE k # 0
      <3>1. k - 1 \in 0 .. n /\ k - 1 \notin B /\ k \in Nat
        <4> HIDE DEF Solves
        <4>1. k \in 0 .. n /\ k - 1 \in 0 .. n /\ ~(k <= k - 1) BY <1>0, <2>1, <2>3
        <4>2. k - 1 \notin B
          <5> HIDE DEF B
          <5> QED BY <2>1, <4>1
        <4> QED BY <4>1, <4>2
      <3>2. PICK g : Solves(g, k - 1) BY <3>1
      <3> DEFINE h == [i \in 0 .. k |-> IF i = k THEN Better(list[k], g[k - 1], version)
                                        ELSE g[i]]
      <3>3. ASSUME NEW i \in 0 .. k PROVE h[i] = Turn(h, i)
        <4>1. CASE i = k
          <5>1. h[k - 1] = g[k - 1] /\ h[k] = Better(list[k], g[k - 1], version) BY <3>1, <2>3
          <5> QED BY <4>1, <5>1, <2>3
        <4>2. CASE i # k /\ i = 0
          <5>1. h[i] = g[i] BY <4>2
          <5>2. g[i] = None BY <3>1, <3>2, <4>2, <2>3
          <5> QED BY <4>2, <5>1, <5>2
        <4>3. CASE i # k /\ i # 0
          <5>1. h[i] = g[i] /\ h[i - 1] = g[i - 1] BY <3>1, <4>3
          <5>2. g[i] = Better(list[i], g[i - 1], version) BY <3>1, <3>2, <4>3
          <5> QED BY <4>3, <5>1, <5>2
        <4> QED BY <4>1, <4>2, <4>3
      <3>4. Solves(h, k)
        <4>1. h = [i \in 0 .. k |-> h[i]] OBVIOUS
        <4> HIDE DEF h, Turn
        <4> QED BY <3>3, <4>1
      <3> QED BY <2>1, <3>4
    <2> QED BY <2>2, <2>3
  <1>2. PICK g : Solves(g, n)
    <2>1. n \in 0 .. n BY <1>0
    <2> QED BY <1>1, <2>1
  <1>3. NewestAmong(list, version) = CHOOSE f : Solves(f, n)
    BY DEF NewestAmong
  <1>4. Solves(NewestAmong(list, version), n)
    <2> HIDE DEF Solves, n
    <2> QED BY <1>2, <1>3
  <1> QED BY <1>4

(* What findAvailableUpdate has found after i turns is the newest of those  *)
(* among the first i updates that it may take; None if there are none.      *)
IsNewest(found, list, i, version) ==
  \/ found = None /\ \A j \in 1 .. i : ~Eligible(list[j], version)
  \/ /\ \E j \in 1 .. i : found = list[j]
     /\ Eligible(found, version)
     /\ \A j \in 1 .. i : Eligible(list[j], version) =>
          CompareVersion(list[j].version, found.version) <= 0

LEMMA NewestAmongIsNewest ==
  ASSUME NEW list \in Seq(Update), NEW version \in Version, NEW i \in 0 .. Len(list)
  PROVE  IsNewest(NewestAmong(list, version)[i], list, i, version)
  <1> DEFINE n == Len(list)
             f == NewestAmong(list, version)
             B == {k \in 0 .. n : ~IsNewest(f[k], list, k, version)}
  <1>0. n \in Nat /\ \A j \in 1 .. n : list[j] \in Update OBVIOUS
  <1>1. /\ f[0] = None
        /\ \A k \in 1 .. n : f[k] = Better(list[k], f[k - 1], version)
    <2>1. f = [k \in 0 .. n |-> IF k = 0 THEN None
                                ELSE Better(list[k], f[k - 1], version)]
      BY NewestAmongDef
    <2> HIDE DEF f
    <2> QED BY <1>0, <2>1
  <1> HIDE DEF f
  <1>2. ASSUME B # {} PROVE FALSE
    <2>1. PICK k \in B : \A j \in B : k <= j
      <3>1. B \in SUBSET Nat OBVIOUS
      <3> HIDE DEF B
      <3> QED BY <1>2, <3>1, Least
    <2>2. CASE k = 0
      BY <2>1, <2>2, <1>1 DEF IsNewest
    <2>3. CASE k # 0
      <3>1. k - 1 \in 0 .. n /\ k - 1 \notin B /\ k \in 1 .. n BY <1>0, <2>1, <2>3
      <3>2. IsNewest(f[k - 1], list, k - 1, version) BY <3>1
      <3>3. f[k] = Better(list[k], f[k - 1], version) BY <1>1, <3>1
      <3>4. CASE ~Eligible(list[k], version)
        <4>1. f[k] = f[k - 1] BY <3>3, <3>4 DEF Better
        <4>2. \A j \in 1 .. k : j = k \/ j \in 1 .. k - 1 BY <3>1
        <4>3. \A j \in 1 .. k - 1 : j \in 1 .. k BY <3>1
        <4>4. IsNewest(f[k], list, k, version)
          BY <3>2, <3>4, <4>1, <4>2, <4>3, Zenon DEF IsNewest
        <4> QED BY <2>1, <4>4
      <3>5. CASE Eligible(list[k], version)
        <4>0. /\ \A j \in 1 .. k : j = k \/ j \in 1 .. k - 1
              /\ \A j \in 1 .. k - 1 : j \in 1 .. k
              /\ \A j \in 1 .. k : list[j] \in Update /\ list[j].version \in Version
          BY <1>0, <3>1 DEF Update
        <4>1. CASE f[k - 1] = None
          <5>1. f[k] = list[k] BY <3>3, <3>5, <4>1 DEF Better
          <5>2. \A j \in 1 .. k - 1 : ~Eligible(list[j], version)
            <6>1. None \notin Update BY UpdaterAssumption
            <6> QED BY <3>2, <4>0, <4>1, <6>1 DEF IsNewest
          <5>3. CompareVersion(list[k].version, list[k].version) <= 0
            <6>1. list[k].version \in Version BY <4>0, <3>1
            <6>2. /\ CompareVersion(list[k].version, list[k].version) \in {-1, 0, 1}
                  /\ CompareVersion(list[k].version, list[k].version)
                       = -CompareVersion(list[k].version, list[k].version)
              BY <6>1, CompareAntisymmetric
            <6> QED BY <6>2
          <5>4. \A j \in 1 .. k : Eligible(list[j], version) =>
                  CompareVersion(list[j].version, list[k].version) <= 0
            BY <4>0, <5>2, <5>3
          <5>5. IsNewest(f[k], list, k, version)
            BY <3>1, <3>5, <5>1, <5>4 DEF IsNewest
          <5> QED BY <2>1, <5>5
        <4>2. CASE f[k - 1] # None /\ CompareVersion(list[k].version, f[k - 1].version) > 0
          <5>1. f[k] = list[k] BY <3>3, <3>5, <4>2 DEF Better
          <5>2. PICK j \in 1 .. k - 1 : f[k - 1] = list[j] BY <3>2, <4>2 DEF IsNewest
          <5>3. /\ list[k].version \in Version /\ f[k - 1].version \in Version
            BY <4>0, <3>1, <5>2
          <5>4. CompareVersion(f[k - 1].version, list[k].version) <= 0
            <6>1. CompareVersion(f[k - 1].version, list[k].version)
                    = -CompareVersion(list[k].version, f[k - 1].version)
              BY <5>3, CompareAntisymmetric
            <6>2. CompareVersion(list[k].version, f[k - 1].version) \in {-1, 0, 1}
              BY <5>3, CompareAntisymmetric
            <6> QED BY <4>2, <6>1, <6>2
          <5>5. CompareVersion(list[k].version, list[k].version) <= 0
            <6>1. /\ CompareVersion(list[k].version, list[k].version) \in {-1, 0, 1}
                  /\ CompareVersion(list[k].version, list[k].version)
                       = -CompareVersion(list[k].version, list[k].version)
              BY <5>3, CompareAntisymmetric
            <6> QED BY <6>1
          <5>6. ASSUME NEW m \in 1 .. k, Eligible(list[m], version)
                PROVE  CompareVersion(list[m].version, list[k].version) <= 0
            <6>1. CASE m = k BY <6>1, <5>5
            <6>2. CASE m \in 1 .. k - 1
              <7>1. CompareVersion(list[m].version, f[k - 1].version) <= 0
                BY <3>2, <4>2, <5>6, <6>2 DEF IsNewest
              <7>2. list[m].version \in Version BY <4>0
              <7> QED BY <5>3, <5>4, <7>1, <7>2, CompareTransitive
            <6> QED BY <4>0, <6>1, <6>2
          <5>7. IsNewest(f[k], list, k, version)
            BY <3>1, <3>5, <5>1, <5>6 DEF IsNewest
          <5> QED BY <2>1, <5>7
        <4>3. CASE f[k - 1] # None /\ ~(CompareVersion(list[k].version, f[k - 1].version) > 0)
          <5>1. f[k] = f[k - 1] BY <3>3, <3>5, <4>3 DEF Better
          <5>2. PICK j \in 1 .. k - 1 : f[k - 1] = list[j] BY <3>2, <4>3 DEF IsNewest
          <5>3. list[k].version \in Version /\ f[k - 1].version \in Version
            BY <4>0, <3>1, <5>2
          <5>4. CompareVersion(list[k].version, f[k - 1].version) <= 0
            <6>1. CompareVersion(list[k].version, f[k - 1].version) \in {-1, 0, 1}
              BY <5>3, CompareAntisymmetric
            <6> QED BY <4>3, <6>1
          <5>5. \A m \in 1 .. k : Eligible(list[m], version) =>
                  CompareVersion(list[m].version, f[k - 1].version) <= 0
            BY <3>2, <4>0, <4>3, <5>4 DEF IsNewest
          <5>6. Eligible(f[k - 1], version) BY <3>2, <4>3 DEF IsNewest
          <5>7. IsNewest(f[k], list, k, version)
            BY <4>0, <5>1, <5>2, <5>5, <5>6 DEF IsNewest
          <5> QED BY <2>1, <5>7
        <4> QED BY <4>1, <4>2, <4>3
      <3> QED BY <3>4, <3>5
    <2> QED BY <2>2, <2>3
  <1> QED BY <1>2 DEF f

LEMMA NewestUpdateIsNewest ==
  ASSUME NEW list \in Seq(Update), NEW version \in Version
  PROVE  /\ IsNewest(NewestUpdate(list, version), list, Len(list), version)
         /\ NewestUpdate(list, version) \in Update \cup {None}
  <1>1. Len(list) \in 0 .. Len(list) /\ \A j \in 1 .. Len(list) : list[j] \in Update
    OBVIOUS
  <1>2. IsNewest(NewestUpdate(list, version), list, Len(list), version)
    BY <1>1, NewestAmongIsNewest DEF NewestUpdate
  <1> QED BY <1>1, <1>2 DEF IsNewest

(***************************************************************************)
(* Types                                                                   *)
(***************************************************************************)

(* From the choice of an update on, that choice stands.                     *)
Upgrading == {"backoff", "mark", "download", "attach", "delete", "deleting", "copy",
              "copying", "relaunch"}

ChosenOK ==
  \A p \in Procs : pc[p] \in Upgrading =>
    newest[p] = NewestUpdate(feed[p], ver[p]) /\ newest[p] # None

TypeInv == TypeOK /\ ChosenOK

LEMMA SettingsTyped ==
  /\ Default \in Settings
  /\ \A s \in Settings : Older(s) \in Settings
  /\ \A s \in Settings, u \in Update :
       [s EXCEPT !.hash = u.hash, !.num = @ + 1, !.age = 0] \in Settings
  /\ \A s \in Settings, on \in BOOLEAN : [s EXCEPT !.noupdates = on] \in Settings
  <1>1. MaxAge \in Nat /\ 0 \in 0 .. MaxAge /\ MaxAge \in 0 .. MaxAge
    BY UpdaterAssumption
  <1>2. \A s \in Settings : Older(s) \in Settings
    <2> TAKE s \in Settings
    <2>1. (IF s.age < MaxAge THEN s.age + 1 ELSE s.age) \in 0 .. MaxAge
      BY <1>1 DEF Settings
    <2> QED BY <2>1 DEF Settings, Older
  <1>3. Default \in Settings BY <1>1 DEF Settings, Default
  <1>4. ASSUME NEW s \in Settings, NEW u \in Update
        PROVE  [s EXCEPT !.hash = u.hash, !.num = @ + 1, !.age = 0] \in Settings
    <2>1. u.hash \in Hashes \cup {None} BY DEF Update
    <2>2. \A r \in Settings, h \in Hashes \cup {None} : [r EXCEPT !.hash = h] \in Settings
      BY DEF Settings
    <2>3. \A r \in Settings, k \in Nat : [r EXCEPT !.num = k] \in Settings
      BY DEF Settings
    <2>4. \A r \in Settings, a \in 0 .. MaxAge : [r EXCEPT !.age = a] \in Settings
      BY DEF Settings
    <2>5. s.num + 1 \in Nat BY DEF Settings
    <2> DEFINE s1 == [s EXCEPT !.hash = u.hash]
               s2 == [s1 EXCEPT !.num = s.num + 1]
               s3 == [s2 EXCEPT !.age = 0]
    <2>6. s1 \in Settings BY <2>1, <2>2
    <2>7. s2 \in Settings BY <2>3, <2>5, <2>6
    <2>8. s3 \in Settings BY <1>1, <2>4, <2>7
    <2>9. s3 = [s EXCEPT !.hash = u.hash, !.num = @ + 1, !.age = 0]
      BY DEF Settings
    <2> QED BY <2>8, <2>9
  <1>5. ASSUME NEW s \in Settings, NEW on \in BOOLEAN
        PROVE  [s EXCEPT !.noupdates = on] \in Settings
    BY DEF Settings
  <1> QED BY <1>2, <1>3, <1>4, <1>5

LEMMA FeedsTyped == <<>> \in Seq(Update) /\ \A list \in Feeds : list \in Seq(Update)
  BY UpdaterAssumption

LEMMA InitTypeInv == Init => TypeInv
  <1> SUFFICES ASSUME Init PROVE TypeInv
    OBVIOUS
  <1>1. FirstVersion \in Version BY UpdaterAssumption
  <1>2. TypeOK
    BY <1>1, FeedsTyped, SettingsTyped DEF Init, TypeOK, Steps
  <1>3. ChosenOK
    BY DEF Init, ChosenOK, Upgrading
  <1> QED BY <1>2, <1>3 DEF TypeInv

LEMMA ChosenTyped ==
  ASSUME TypeInv, NEW p \in Procs, pc[p] \in Upgrading
  PROVE  newest[p] \in Update
  <1>1. feed[p] \in Seq(Update) /\ ver[p] \in Version BY DEF TypeInv, TypeOK
  <1> QED BY <1>1, NewestUpdateIsNewest DEF TypeInv, ChosenOK

LEMMA NextTypeOK == TypeInv /\ [Next]_vars => TypeOK'
  <1> SUFFICES ASSUME TypeInv, [Next]_vars PROVE TypeOK'
    OBVIOUS
  <1> USE DEF TypeInv, TypeOK, disk, self, work, window, budget, history, Goto
  <1>f. /\ Fault => faults' \in Nat /\ lateFaults' \in Nat /\ saveFaults' \in Nat
        /\ LateFault => faults' \in Nat /\ lateFaults' \in Nat /\ saveFaults' \in Nat
        /\ SaveFault => faults' \in Nat /\ lateFaults' \in Nat /\ saveFaults' \in Nat
    BY DEF Fault, LateFault, SaveFault
  <1>s. ASSUME NEW s \in Settings, Save(s)
        PROVE  /\ file' \in Settings /\ spoilt' \in [Procs -> BOOLEAN]
               /\ faults' \in Nat /\ lateFaults' \in Nat /\ saveFaults' \in Nat
    BY <1>s, <1>f, SettingsTyped DEF Save
  <1>g. SettingsMayGo \/ SettingsGo => file' \in Settings /\ lastMark' \in Settings
    BY SettingsTyped DEF SettingsMayGo, SettingsGo
  <1>1. ASSUME NEW p \in Procs, Start(p) PROVE TypeOK'
    <2>1. FirstVersion \in Version BY UpdaterAssumption
    <2>2. file.noupdates \in BOOLEAN BY DEF Settings
    <2>3. PICK jar \in BOOLEAN, cli \in BOOLEAN, list \in Feeds :
            /\ jar \/ app \notin {Gone, Partial}
            /\ installed' = [installed EXCEPT ![p] = ~jar]
            /\ ver' = [ver EXCEPT ![p] = IF jar THEN FirstVersion ELSE app]
            /\ noupdate' = [noupdate EXCEPT ![p] = (~jar /\ file.noupdates) \/ cli]
            /\ feed' = [feed EXCEPT ![p] = list]
      BY <1>1 DEF Start
    <2>4. (IF jar THEN FirstVersion ELSE app) \in Version BY <2>1, <2>3
    <2>5. ((~jar /\ file.noupdates) \/ cli) \in BOOLEAN /\ (~jar) \in BOOLEAN BY <2>2
    <2>6. ver' \in [Procs -> Version] BY <2>3, <2>4
    <2>7. noupdate' \in [Procs -> BOOLEAN] /\ installed' \in [Procs -> BOOLEAN] BY <2>3, <2>5
    <2>8. feed' \in [Procs -> Seq(Update)] BY <2>3, FeedsTyped
    <2> QED BY <1>1, <2>6, <2>7, <2>8 DEF Start, Steps
  <1>2. ASSUME NEW p \in Procs, CheckInstaller(p) PROVE TypeOK'
    BY <1>2 DEF CheckInstaller, Steps
  <1>3. ASSUME NEW p \in Procs, SkipUpdate(p) PROVE TypeOK'
    BY <1>3 DEF SkipUpdate, Steps
  <1>4. ASSUME NEW p \in Procs, FindUpdate(p) PROVE TypeOK'
    <2>1. NewestUpdate(feed[p], ver[p]) \in Update \cup {None}
      <3>1. feed[p] \in Seq(Update) /\ ver[p] \in Version OBVIOUS
      <3> QED BY <3>1, NewestUpdateIsNewest
    <2> QED BY <1>4, <2>1 DEF FindUpdate, Steps
  <1>5. ASSUME NEW p \in Procs, CheckBackoff(p) PROVE TypeOK'
    BY <1>5 DEF CheckBackoff, Steps
  <1>6. ASSUME NEW p \in Procs, Mark(p) PROVE TypeOK'
    <2>1. newest[p] \in Update BY <1>6, ChosenTyped DEF Mark, Upgrading
    <2> DEFINE marked(s) == [s EXCEPT !.hash = newest[p].hash, !.num = @ + 1, !.age = 0]
    <2>2. marked(mem[p]) \in Settings /\ marked(lastMark) \in Settings
      BY <2>1, SettingsTyped
    <2>3. /\ pc[p] = "mark" /\ Save(marked(mem[p])) /\ lastMark' = marked(lastMark)
          /\ pc' = [pc EXCEPT ![p] = "download"]
          /\ UNCHANGED <<app, self, newest, mem, window, best, chain>>
      BY <1>6 DEF Mark
    <2>4. /\ file' \in Settings /\ spoilt' \in [Procs -> BOOLEAN]
          /\ faults' \in Nat /\ lateFaults' \in Nat /\ saveFaults' \in Nat
      BY <1>s, <2>2, <2>3
    <2> QED BY <2>2, <2>3, <2>4 DEF Steps
  <1>7. ASSUME NEW p \in Procs, Download(p) PROVE TypeOK'
    BY <1>7, <1>f DEF Download, Steps
  <1>8. ASSUME NEW p \in Procs, Attach(p) PROVE TypeOK'
    BY <1>8, <1>f DEF Attach, Steps
  <1>9. ASSUME NEW p \in Procs, BeginDelete(p) PROVE TypeOK'
    <2>1. /\ file' \in Settings /\ lastMark' \in Settings
          /\ faults' \in Nat /\ lateFaults' \in Nat /\ saveFaults' \in Nat
      BY <1>9, <1>f, <1>g DEF BeginDelete
    <2>2. /\ app' \in Version \cup {Gone, Partial} /\ pc' \in [Procs -> Steps]
          /\ spoilt' \in [Procs -> BOOLEAN]
      BY <1>9 DEF BeginDelete, OthersCopySpoilt, Steps
    <2> QED BY <1>9, <2>1, <2>2 DEF BeginDelete
  <1>10. ASSUME NEW p \in Procs, EndDelete(p) PROVE TypeOK'
    <2>1. /\ file' \in Settings /\ lastMark' \in Settings
          /\ faults' \in Nat /\ lateFaults' \in Nat /\ saveFaults' \in Nat
      BY <1>10, <1>f, <1>g DEF EndDelete
    <2>2. /\ app' \in Version \cup {Gone, Partial} /\ pc' \in [Procs -> Steps]
          /\ spoilt' \in [Procs -> BOOLEAN]
      BY <1>10 DEF EndDelete, OthersCopySpoilt, Steps
    <2> QED BY <1>10, <2>1, <2>2 DEF EndDelete
  <1>11. ASSUME NEW p \in Procs, BeginCopy(p) PROVE TypeOK'
    BY <1>11, <1>f DEF BeginCopy, Steps
  <1>12. ASSUME NEW p \in Procs, EndCopy(p) PROVE TypeOK'
    <2>1. newest[p] \in Update BY <1>12, ChosenTyped DEF EndCopy, Upgrading
    <2>2. newest[p].version \in Version BY <2>1 DEF Update
    <2> QED BY <1>12, <1>f, <2>2 DEF EndCopy, Steps
  <1>13. ASSUME NEW p \in Procs, Relaunch(p) PROVE TypeOK'
    <2>1. file.noupdates \in BOOLEAN BY DEF Settings
    <2>2. faults' \in Nat /\ lateFaults' \in Nat /\ saveFaults' \in Nat
      BY <1>13, <1>f DEF Relaunch
    <2>3. CASE /\ app \notin {Gone, Partial}
               /\ upgrade' = [upgrade EXCEPT ![p] = TRUE]
               /\ ver' = [ver EXCEPT ![p] = app]
               /\ \E list \in Feeds : feed' = [feed EXCEPT ![p] = list]
               /\ noupdate' = [noupdate EXCEPT ![p] = file.noupdates]
               /\ chain' = [chain EXCEPT ![p] = @ + 1]
               /\ Goto(p, "check") /\ UNCHANGED budget
      <3>1. ver' \in [Procs -> Version] BY <2>3
      <3>2. feed' \in [Procs -> Seq(Update)] BY <2>3, FeedsTyped
      <3>3. noupdate' \in [Procs -> BOOLEAN] /\ upgrade' \in [Procs -> BOOLEAN] BY <2>1, <2>3
      <3>4. chain' \in [Procs -> Nat] /\ pc' \in [Procs -> Steps] BY <2>3 DEF Steps
      <3> QED BY <1>13, <2>2, <3>1, <3>2, <3>3, <3>4 DEF Relaunch
    <2>4. CASE Goto(p, "run") /\ UNCHANGED <<upgrade, ver, feed, noupdate, chain>>
      BY <1>13, <2>2, <2>4 DEF Relaunch, Steps
    <2> QED BY <1>13, <2>3, <2>4 DEF Relaunch
  <1>14. ASSUME NEW p \in Procs, Exit(p) \/ Kill(p) PROVE TypeOK'
    <2>1. faults' \in Nat /\ lateFaults' \in Nat /\ saveFaults' \in Nat
      BY <1>14, <1>f DEF Exit, Kill
    <2>2. FirstVersion \in Version BY UpdaterAssumption
    <2>3. Forget(p) BY <1>14 DEF Exit, Kill
    <2>4. feed' \in [Procs -> Seq(Update)] BY <2>3, FeedsTyped DEF Forget
    <2>5. mem' \in [Procs -> Settings] BY <2>3, SettingsTyped DEF Forget
    <2>6. ver' \in [Procs -> Version] BY <2>2, <2>3 DEF Forget
    <2>7. file' \in Settings /\ lastMark' \in Settings
      BY <1>14, <1>g DEF Exit, Kill
    <2> QED BY <2>1, <2>3, <2>4, <2>5, <2>6, <2>7 DEF Forget, Steps
  <1>15. ASSUME NEW f \in Frames, OpenFrame(f) \/ ToggleBox(f) PROVE TypeOK'
    BY <1>15 DEF OpenFrame, ToggleBox, Settings
  <1>16. ASSUME NEW f \in Frames, LoadToSave(f) PROVE TypeOK'
    BY <1>16, SettingsTyped DEF LoadToSave
  <1>17. ASSUME NEW f \in Frames, SaveFrame(f) PROVE TypeOK'
    <2>1. /\ file' \in Settings /\ spoilt' \in [Procs -> BOOLEAN]
          /\ faults' \in Nat /\ lateFaults' \in Nat /\ saveFaults' \in Nat
      BY <1>17, <1>s DEF SaveFrame
    <2> QED BY <1>17, <2>1, SettingsTyped DEF SaveFrame
  <1>18. ASSUME Tick PROVE TypeOK'
    BY <1>18, SettingsTyped DEF Tick
  <1>19. CASE UNCHANGED vars
    BY <1>19 DEF vars
  <1> QED
    BY <1>1, <1>2, <1>3, <1>4, <1>5, <1>6, <1>7, <1>8, <1>9, <1>10, <1>11, <1>12, <1>13,
       <1>14, <1>15, <1>16, <1>17, <1>18, <1>19 DEF Next, Step

LEMMA NextChosenOK == TypeInv /\ [Next]_vars => ChosenOK'
  <1> SUFFICES ASSUME TypeInv, [Next]_vars, NEW q \in Procs, pc'[q] \in Upgrading
               PROVE  newest'[q] = NewestUpdate(feed'[q], ver'[q]) /\ newest'[q] # None
    BY DEF ChosenOK
  <1>0. pc \in [Procs -> Steps] /\ newest \in [Procs -> Update \cup {None}]
        /\ feed \in [Procs -> Seq(Update)] /\ ver \in [Procs -> Version]
    BY DEF TypeInv, TypeOK
  <1>1. pc[q] \in Upgrading => newest[q] = NewestUpdate(feed[q], ver[q]) /\ newest[q] # None
    BY DEF TypeInv, ChosenOK
  <1> USE DEF disk, self, work, window, budget, history, Goto, Upgrading
  <1>2. ASSUME NEW p \in Procs, FindUpdate(p)
        PROVE  newest'[q] = NewestUpdate(feed'[q], ver'[q]) /\ newest'[q] # None
    BY <1>0, <1>1, <1>2 DEF FindUpdate
  <1>3. ASSUME NEW p \in Procs, Start(p) \/ Relaunch(p) \/ Exit(p) \/ Kill(p)
        PROVE  q # p /\ UNCHANGED <<pc[q], newest[q], feed[q], ver[q]>>
    BY <1>0, <1>3 DEF Start, Relaunch, Exit, Kill, Forget
  <1>4. ASSUME NEW p \in Procs, CheckInstaller(p) \/ SkipUpdate(p)
        PROVE  q # p /\ UNCHANGED <<pc[q], newest, feed, ver>>
    BY <1>0, <1>4 DEF CheckInstaller, SkipUpdate
  <1>5. ASSUME NEW p \in Procs, \/ CheckBackoff(p) \/ Mark(p) \/ Download(p) \/ Attach(p)
                                \/ BeginDelete(p)
        PROVE  pc[q] \in Upgrading /\ UNCHANGED <<newest, feed, ver>>
    BY <1>0, <1>5 DEF CheckBackoff, Mark, Download, Attach, BeginDelete
  <1>6. ASSUME NEW p \in Procs, EndDelete(p) \/ BeginCopy(p) \/ EndCopy(p)
        PROVE  pc[q] \in Upgrading /\ UNCHANGED <<newest, feed, ver>>
    BY <1>0, <1>6 DEF EndDelete, BeginCopy, EndCopy
  <1>7. ASSUME NEW f \in Frames, OpenFrame(f) \/ ToggleBox(f) \/ LoadToSave(f) \/ SaveFrame(f)
        PROVE  UNCHANGED <<pc, newest, feed, ver>>
    BY <1>7 DEF OpenFrame, ToggleBox, LoadToSave, SaveFrame
  <1>8. Tick \/ UNCHANGED vars => UNCHANGED <<pc, newest, feed, ver>>
    BY DEF Tick, vars
  <1> QED
    BY <1>1, <1>2, <1>3, <1>4, <1>5, <1>6, <1>7, <1>8 DEF Next, Step

(* Every variable of the updater keeps its type: versions stay versions,    *)
(* and what is installed is one, or nothing, or a part of one.              *)
THEOREM TypeCorrect == Spec => []TypeOK
  <1>1. Init => TypeInv BY InitTypeInv
  <1>2. TypeInv /\ [Next]_vars => TypeInv' BY NextTypeOK, NextChosenOK DEF TypeInv
  <1>3. TypeInv => TypeOK BY DEF TypeInv
  <1> QED BY <1>1, <1>2, <1>3, PTL DEF Spec

LEMMA TypeInvHolds == Spec => []TypeInv
  <1>1. TypeInv /\ [Next]_vars => TypeInv' BY NextTypeOK, NextChosenOK DEF TypeInv
  <1> QED BY InitTypeInv, <1>1, PTL DEF Spec

(***************************************************************************)
(* The choice                                                              *)
(***************************************************************************)

(* Rank is the order of compareVersion, on the versions there are.          *)
RankAgrees ==
  /\ FirstVersion \in DOMAIN Rank /\ DOMAIN Rank \subseteq Version
  /\ \A list \in Feeds : \A i \in DOMAIN list :
       list[i].version \in DOMAIN Rank /\ list[i].minimum \in DOMAIN Rank \cup {None}
  /\ \A v, w \in DOMAIN Rank : Rank[v] > Rank[w] <=> CompareVersion(v, w) > 0

Ranked ==
  /\ app \in DOMAIN Rank \cup {Gone, Partial} /\ best \in DOMAIN Rank
  /\ \A p \in Procs : ver[p] \in DOMAIN Rank /\ feed[p] \in Feeds \cup {<<>>}

LEMMA ChosenIsOffered ==
  ASSUME RankAgrees, Ranked, TypeInv, NEW p \in Procs, pc[p] \in Upgrading
  PROVE  /\ newest[p].version \in DOMAIN Rank
         /\ newest[p] \in Offers(p)
         /\ \A u \in Offers(p) : Rank[u.version] <= Rank[newest[p].version]
  <1> DEFINE list == feed[p]
             u0 == newest[p]
  <1>1. /\ list \in Seq(Update) /\ ver[p] \in Version /\ DOMAIN list = 1 .. Len(list)
        /\ Rank \in [DOMAIN Rank -> Nat]
    BY UpdaterAssumption DEF TypeInv, TypeOK
  <1>2. u0 # None /\ IsNewest(u0, list, Len(list), ver[p])
    BY <1>1, NewestUpdateIsNewest DEF TypeInv, ChosenOK
  <1>3. PICK k \in 1 .. Len(list) : u0 = list[k] BY <1>2 DEF IsNewest
  <1>4. list \in Feeds BY <1>1, <1>3 DEF Ranked
  <1>5. \A i \in 1 .. Len(list) :
          /\ list[i].version \in DOMAIN Rank
          /\ list[i].minimum \in DOMAIN Rank \cup {None}
    BY <1>1, <1>4 DEF RankAgrees
  <1>6. \A v, w \in DOMAIN Rank :
          /\ Rank[v] > Rank[w] <=> CompareVersion(v, w) > 0
          /\ Rank[v] >= Rank[w] <=> CompareVersion(v, w) >= 0
          /\ Rank[v] <= Rank[w] <=> CompareVersion(v, w) <= 0
          /\ Rank[v] \in Nat
    <2> TAKE v, w \in DOMAIN Rank
    <2>1. v \in Version /\ w \in Version BY DEF RankAgrees
    <2>2. CompareVersion(v, w) \in {-1, 0, 1} /\ CompareVersion(w, v) = -CompareVersion(v, w)
      BY <2>1, CompareAntisymmetric
    <2>3. /\ Rank[v] > Rank[w] <=> CompareVersion(v, w) > 0
          /\ Rank[w] > Rank[v] <=> CompareVersion(w, v) > 0
      BY DEF RankAgrees
    <2>4. Rank[v] \in Nat /\ Rank[w] \in Nat BY <1>1
    <2> QED BY <2>2, <2>3, <2>4
  <1>7. ver[p] \in DOMAIN Rank BY DEF Ranked
  <1>8. None \notin DOMAIN Rank BY UpdaterAssumption DEF RankAgrees
  <1>9. \A i \in 1 .. Len(list) : Eligible(list[i], ver[p]) <=> list[i] \in Offers(p)
    BY <1>1, <1>5, <1>6, <1>7 DEF Eligible, Offers
  <1>10. u0 \in Offers(p) BY <1>2, <1>3, <1>9 DEF IsNewest
  <1>11. ASSUME NEW u \in Offers(p) PROVE Rank[u.version] <= Rank[u0.version]
    <2>1. PICK i \in 1 .. Len(list) : u = list[i] BY <1>1 DEF Offers
    <2>2. CompareVersion(u.version, u0.version) <= 0
      BY <1>2, <1>9, <2>1 DEF IsNewest
    <2> QED BY <1>3, <1>5, <1>6, <2>1, <2>2
  <1> QED BY <1>3, <1>5, <1>10, <1>11

LEMMA RankedHolds == ASSUME RankAgrees PROVE Spec => []Ranked
  <1>1. Init => Ranked
    BY DEF RankAgrees, Init, Ranked
  <1>2. TypeInv /\ Ranked /\ [Next]_vars => Ranked'
    <2> SUFFICES ASSUME TypeInv, Ranked, [Next]_vars PROVE Ranked'
      OBVIOUS
    <2>0. ver \in [Procs -> Version] /\ feed \in [Procs -> Seq(Update)]
          /\ FirstVersion \in DOMAIN Rank
      BY DEF TypeInv, TypeOK, RankAgrees
    <2> USE DEF Ranked, disk, self, work, window, budget, history, Goto
    <2>1. ASSUME NEW p \in Procs, Start(p) PROVE Ranked'
      <3>1. PICK jar \in BOOLEAN, list \in Feeds :
              /\ jar \/ app \notin {Gone, Partial}
              /\ ver' = [ver EXCEPT ![p] = IF jar THEN FirstVersion ELSE app]
              /\ feed' = [feed EXCEPT ![p] = list]
        BY <2>1 DEF Start
      <3> QED BY <2>0, <2>1, <3>1 DEF Start
    <2>2. ASSUME NEW p \in Procs, Relaunch(p) PROVE Ranked'
      BY <2>0, <2>2 DEF Relaunch
    <2>3. ASSUME NEW p \in Procs, Exit(p) \/ Kill(p) PROVE Ranked'
      BY <2>0, <2>3 DEF Exit, Kill, Forget
    <2>4. ASSUME NEW p \in Procs, EndCopy(p) PROVE Ranked'
      <3>1. newest[p].version \in DOMAIN Rank
        BY <2>4, ChosenIsOffered DEF EndCopy, Upgrading
      <3> QED BY <2>0, <2>4, <3>1 DEF EndCopy
    <2>5. ASSUME NEW p \in Procs, BeginDelete(p) \/ EndDelete(p) \/ BeginCopy(p)
          PROVE  Ranked'
      BY <2>5 DEF BeginDelete, EndDelete, BeginCopy
    <2>6. ASSUME NEW p \in Procs, \/ CheckInstaller(p) \/ SkipUpdate(p) \/ FindUpdate(p)
                                  \/ CheckBackoff(p) \/ Mark(p) \/ Download(p) \/ Attach(p)
          PROVE  Ranked'
      BY <2>6 DEF CheckInstaller, SkipUpdate, FindUpdate, CheckBackoff, Mark, Download, Attach
    <2>7. ASSUME NEW f \in Frames,
                 OpenFrame(f) \/ ToggleBox(f) \/ LoadToSave(f) \/ SaveFrame(f)
          PROVE  Ranked'
      BY <2>7 DEF OpenFrame, ToggleBox, LoadToSave, SaveFrame
    <2>8. CASE Tick BY <2>8 DEF Tick
    <2>9. CASE UNCHANGED vars BY <2>9 DEF vars
    <2> QED
      BY <2>1, <2>2, <2>3, <2>4, <2>5, <2>6, <2>7, <2>8, <2>9 DEF Next, Step
  <1> QED BY <1>1, <1>2, TypeInvHolds, PTL DEF Spec

(* findAvailableUpdate: whatever the order of the list, and however many    *)
(* launchers there are, what a launcher goes on to install is an update it  *)
(* may take, and the newest of them; if Rank is the order of compareVersion. *)
THEOREM NewestChosenSafe == ASSUME RankAgrees PROVE Spec => []NewestChosen
  <1>1. TypeInv /\ Ranked => NewestChosen
    <2> SUFFICES ASSUME TypeInv, Ranked, NEW p \in Procs,
                        pc[p] \in Steps \ {"off", "check", "newest", "notInstalled", "run"}
                 PROVE  /\ newest[p] \in Offers(p)
                        /\ \A u \in Offers(p) : Rank[u.version] <= Rank[newest[p].version]
      BY DEF NewestChosen
    <2>1. pc[p] \in Upgrading BY DEF Steps, Upgrading
    <2> QED BY <2>1, ChosenIsOffered
  <1> QED BY <1>1, TypeInvHolds, RankedHolds, PTL

(***************************************************************************)
(* One upgrade per start                                                   *)
(***************************************************************************)

(* A launcher in the midst of an upgrade was not started by one.            *)
ChainOK ==
  \A p \in Procs :
    /\ chain[p] = IF upgrade[p] THEN 1 ELSE 0
    /\ pc[p] \in Upgrading => ~upgrade[p]

LEMMA NextChainOK == TypeInv /\ ChainOK /\ [Next]_vars => ChainOK'
  <1> SUFFICES ASSUME TypeInv, ChainOK, [Next]_vars, NEW q \in Procs
               PROVE  /\ chain'[q] = IF upgrade'[q] THEN 1 ELSE 0
                      /\ pc'[q] \in Upgrading => ~upgrade'[q]
    BY DEF ChainOK
  <1>0. /\ pc \in [Procs -> Steps] /\ upgrade \in [Procs -> BOOLEAN]
        /\ chain \in [Procs -> Nat]
    BY DEF TypeInv, TypeOK
  <1>1. /\ chain[q] = IF upgrade[q] THEN 1 ELSE 0
        /\ pc[q] \in Upgrading => ~upgrade[q]
    BY DEF ChainOK
  <1> DEFINE Same == UNCHANGED <<chain[q], upgrade[q]>>
             Kept == Same /\ (pc'[q] \in Upgrading => pc[q] \in Upgrading)
  <1> USE DEF disk, self, work, window, budget, history, Goto, Upgrading
  <1>2. ASSUME NEW p \in Procs, FindUpdate(p) PROVE Same /\ (pc'[q] \in Upgrading => ~upgrade[q])
    <2>1. CASE q # p BY <1>0, <1>1, <1>2, <2>1 DEF FindUpdate
    <2>2. CASE q = p
      <3>1. pc'[p] \in {"run", "backoff"} /\ (pc'[p] = "backoff" => ~upgrade[p]) /\ Same
        BY <1>0, <1>2 DEF FindUpdate
      <3> QED BY <2>2, <3>1
    <2> QED BY <2>1, <2>2
  <1>3. ASSUME NEW p \in Procs, Relaunch(p)
        PROVE  \/ Kept
               \/ upgrade'[q] = TRUE /\ chain'[q] = 1 /\ pc'[q] = "check"
    BY <1>0, <1>1, <1>3 DEF Relaunch
  <1>4. ASSUME NEW p \in Procs, Exit(p) \/ Kill(p)
        PROVE  \/ Kept
               \/ upgrade'[q] = FALSE /\ chain'[q] = 0
    BY <1>0, <1>1, <1>4 DEF Exit, Kill, Forget
  <1>5. ASSUME NEW p \in Procs, Start(p) \/ CheckInstaller(p) \/ SkipUpdate(p) PROVE Kept
    BY <1>0, <1>5 DEF Start, CheckInstaller, SkipUpdate
  <1>6. ASSUME NEW p \in Procs, \/ CheckBackoff(p) \/ Mark(p) \/ Download(p) \/ Attach(p)
                                \/ BeginDelete(p)
        PROVE  Kept
    BY <1>0, <1>6 DEF CheckBackoff, Mark, Download, Attach, BeginDelete
  <1>7. ASSUME NEW p \in Procs, EndDelete(p) \/ BeginCopy(p) \/ EndCopy(p) PROVE Kept
    BY <1>0, <1>7 DEF EndDelete, BeginCopy, EndCopy
  <1>8. ASSUME NEW f \in Frames, OpenFrame(f) \/ ToggleBox(f) \/ LoadToSave(f) \/ SaveFrame(f)
        PROVE  Kept
    BY <1>8 DEF OpenFrame, ToggleBox, LoadToSave, SaveFrame
  <1>9. Tick \/ UNCHANGED vars => Kept
    BY DEF Tick, vars
  <1>10. Kept => /\ chain'[q] = IF upgrade'[q] THEN 1 ELSE 0
                 /\ pc'[q] \in Upgrading => ~upgrade'[q]
    BY <1>1
  <1> QED
    BY <1>1, <1>2, <1>3, <1>4, <1>5, <1>6, <1>7, <1>8, <1>9, <1>10 DEF Next, Step

(* _UPGRADE ends every chain of upgrades: one start, one upgrade, however    *)
(* many launchers and windows there are.                                     *)
THEOREM OneUpgradePerStartSafe == Spec => []OneUpgradePerStart
  <1>1. Init => ChainOK BY DEF Init, ChainOK, Upgrading
  <1>2. ChainOK => OneUpgradePerStart BY DEF ChainOK, OneUpgradePerStart
  <1> QED BY <1>1, <1>2, TypeInvHolds, NextChainOK, PTL DEF Spec

(***************************************************************************)
(* A launcher that is alone                                                *)
(***************************************************************************)

Sole == \A p, q \in Procs : p = q

(* What is installed is the best version there was, and a launcher that     *)
(* looks for updates runs it: one from a bare jar does not look.            *)
BestOK ==
  /\ app \notin {Gone, Partial} => app = best
  /\ \A p \in Procs :
       \/ pc[p] = "check" /\ installed[p]
       \/ pc[p] = "newest"
       \/ pc[p] \in Upgrading \ {"relaunch"}
       => ver[p] = best

LEMMA UpdateIsNewer ==
  ASSUME RankAgrees, Ranked, TypeInv, BestOK, NEW p \in Procs, EndCopy(p)
  PROVE  /\ Rank[best'] >= Rank[best]
         /\ best' = best \/ app' = best'
  <1>0. Rank[best] \in Nat
    BY UpdaterAssumption DEF Ranked
  <1>1. CASE best' = best BY <1>0, <1>1
  <1>2. CASE app' = newest[p].version /\ best' = newest[p].version
    <2>1. pc[p] = "copying" BY DEF EndCopy
    <2>2. newest[p] \in Offers(p) /\ newest[p].version \in DOMAIN Rank
      BY <2>1, ChosenIsOffered DEF Upgrading
    <2>3. Rank[newest[p].version] > Rank[ver[p]] BY <2>2 DEF Offers
    <2>4. ver[p] = best BY <2>1 DEF BestOK, Upgrading
    <2>5. Rank[newest[p].version] \in Nat BY <2>2, UpdaterAssumption
    <2> QED BY <1>0, <1>2, <2>3, <2>4, <2>5
  <1> QED BY <1>1, <1>2 DEF EndCopy

LEMMA NextBestOK ==
  ASSUME Sole PROVE TypeInv /\ BestOK /\ [Next]_vars => BestOK'
  <1> SUFFICES ASSUME TypeInv, BestOK, [Next]_vars PROVE BestOK'
    OBVIOUS
  <1>0. /\ pc \in [Procs -> Steps] /\ ver \in [Procs -> Version]
        /\ installed \in [Procs -> BOOLEAN] /\ Gone # Partial
    BY UpdaterAssumption DEF TypeInv, TypeOK
  <1> USE DEF BestOK, disk, self, work, window, budget, history, Goto, Upgrading
  <1>1. ASSUME NEW p \in Procs, Start(p) PROVE BestOK'
    <2>1. PICK jar \in BOOLEAN :
            /\ jar \/ app \notin {Gone, Partial}
            /\ installed' = [installed EXCEPT ![p] = ~jar]
            /\ ver' = [ver EXCEPT ![p] = IF jar THEN FirstVersion ELSE app]
      BY <1>1 DEF Start
    <2>2. UNCHANGED <<app, best>> /\ pc' = [pc EXCEPT ![p] = "check"] BY <1>1 DEF Start
    <2> QED BY <1>0, <2>1, <2>2
  <1>2. ASSUME NEW p \in Procs, CheckInstaller(p) PROVE BestOK'
    BY <1>0, <1>2 DEF CheckInstaller, FromInstaller
  <1>3. ASSUME NEW p \in Procs, SkipUpdate(p) \/ FindUpdate(p) PROVE BestOK'
    BY <1>0, <1>3 DEF SkipUpdate, FindUpdate
  <1>4. ASSUME NEW p \in Procs, CheckBackoff(p) \/ Mark(p) \/ Download(p) \/ Attach(p)
        PROVE  BestOK'
    BY <1>0, <1>4 DEF CheckBackoff, Mark, Download, Attach
  <1>5. ASSUME NEW p \in Procs, BeginDelete(p) \/ EndDelete(p) \/ BeginCopy(p)
        PROVE  BestOK'
    <2>1. app' \in {app, Gone, Partial} /\ UNCHANGED <<best, ver, installed>>
      BY <1>5 DEF BeginDelete, EndDelete, BeginCopy
    <2>2. \/ pc' = [pc EXCEPT ![p] = "run"]
          \/ /\ pc[p] \in {"delete", "deleting", "copy"}
             /\ \E to \in {"deleting", "copy", "copying"} : pc' = [pc EXCEPT ![p] = to]
      BY <1>5 DEF BeginDelete, EndDelete, BeginCopy
    <2> QED BY <1>0, <2>1, <2>2
  <1>6. ASSUME NEW p \in Procs, EndCopy(p) PROVE BestOK'
    <2>1. \A r \in Procs : r = p BY DEF Sole
    <2>2. pc' \in {[pc EXCEPT ![p] = "relaunch"], [pc EXCEPT ![p] = "run"]}
      BY <1>6 DEF EndCopy
    <2>3. app' \notin {Gone, Partial} => app' = best' BY <1>6 DEF EndCopy
    <2> QED BY <1>0, <2>1, <2>2, <2>3
  <1>7. ASSUME NEW p \in Procs, Relaunch(p) PROVE BestOK'
    BY <1>0, <1>7 DEF Relaunch
  <1>8. ASSUME NEW p \in Procs, Exit(p) \/ Kill(p) PROVE BestOK'
    BY <1>0, <1>8 DEF Exit, Kill, Forget
  <1>9. ASSUME NEW f \in Frames, OpenFrame(f) \/ ToggleBox(f) \/ LoadToSave(f) \/ SaveFrame(f)
        PROVE  BestOK'
    BY <1>9 DEF OpenFrame, ToggleBox, LoadToSave, SaveFrame
  <1>10. CASE Tick BY <1>10 DEF Tick
  <1>11. CASE UNCHANGED vars BY <1>11 DEF vars
  <1> QED
    BY <1>1, <1>2, <1>3, <1>4, <1>5, <1>6, <1>7, <1>8, <1>9, <1>10, <1>11 DEF Next, Step

(* However updates, failures, kills and starts follow each other, the       *)
(* application of a launcher that is alone is never replaced by an older    *)
(* one: whatever the lists say, and whatever becomes of the settings.       *)
THEOREM NeverDowngradesSafe == ASSUME RankAgrees, Sole PROVE Spec => NeverDowngrades
  <1>1. Init => BestOK
    BY DEF Init, BestOK, Upgrading
  <1>2. ASSUME Ranked, TypeInv, BestOK, [Next]_vars PROVE Rank[best'] >= Rank[best]
    <2>0. Rank[best] \in Nat BY <1>2, UpdaterAssumption DEF Ranked
    <2>1. (\E p \in Procs : EndCopy(p)) \/ UNCHANGED best
      BY <1>2
      DEF Next, Step, Start, CheckInstaller, SkipUpdate, FindUpdate, CheckBackoff, Mark,
          Download, Attach, BeginDelete, EndDelete, BeginCopy, Relaunch, Exit, Kill, Forget,
          OpenFrame, ToggleBox, LoadToSave, SaveFrame, Tick, vars, history
    <2> QED BY <1>2, <2>0, <2>1, UpdateIsNewer
  <1>3. ASSUME Ranked, TypeInv, BestOK, [Next]_vars PROVE [Rank[best'] >= Rank[best]]_vars
    BY <1>2, <1>3
  <1> QED BY <1>1, <1>3, TypeInvHolds, RankedHolds, NextBestOK, PTL DEF Spec, NeverDowngrades

(***************************************************************************)
(* The backoff of a launcher that is alone with its settings file          *)
(***************************************************************************)

AloneWithFile == Sole /\ Frames = {} /\ MaxSaveFaults = 0

(* The file holds the last mark, and a launcher about to mark an attempt    *)
(* has it in memory and was let through by it.                              *)
MarkOK ==
  /\ file = lastMark
  /\ \A p \in Procs : pc[p] = "mark" => mem[p] = file /\ ~BackedOff(newest[p], file)

(* A launcher that may come to mark an attempt, or does, has been started   *)
(* from an application that is still whole.                                 *)
WholeOK ==
  \A p \in Procs :
    (pc[p] = "check" /\ installed[p]) \/ pc[p] \in {"newest", "backoff", "mark"} =>
      app \notin {Gone, Partial}

LEMMA NextWholeOK == ASSUME Sole PROVE TypeInv /\ WholeOK /\ [Next]_vars => WholeOK'
  <1> SUFFICES ASSUME TypeInv, WholeOK, [Next]_vars PROVE WholeOK'
    OBVIOUS
  <1>0. pc \in [Procs -> Steps] /\ installed \in [Procs -> BOOLEAN]
    BY DEF TypeInv, TypeOK
  <1> USE DEF WholeOK, disk, self, work, window, budget, history, Goto
  <1>1. ASSUME NEW p \in Procs, Start(p) PROVE WholeOK'
    BY <1>0, <1>1 DEF Start, Sole
  <1>2. ASSUME NEW p \in Procs, CheckInstaller(p) \/ SkipUpdate(p) \/ FindUpdate(p)
        PROVE  WholeOK'
    BY <1>0, <1>2 DEF CheckInstaller, FromInstaller, SkipUpdate, FindUpdate
  <1>3. ASSUME NEW p \in Procs, CheckBackoff(p) \/ Mark(p) \/ Download(p) \/ Attach(p)
        PROVE  WholeOK'
    BY <1>0, <1>3 DEF CheckBackoff, Mark, Download, Attach
  <1>4. ASSUME NEW p \in Procs, BeginDelete(p) \/ EndDelete(p) \/ BeginCopy(p) \/ EndCopy(p)
        PROVE  WholeOK'
    <2>1. \E to \in {"run", "deleting", "copy", "copying", "relaunch"} :
            pc' = [pc EXCEPT ![p] = to]
      BY <1>4 DEF BeginDelete, EndDelete, BeginCopy, EndCopy
    <2> QED BY <1>0, <2>1 DEF Sole
  <1>5. ASSUME NEW p \in Procs, Relaunch(p) PROVE WholeOK'
    BY <1>0, <1>5 DEF Relaunch, Sole
  <1>6. ASSUME NEW p \in Procs, Exit(p) \/ Kill(p) PROVE WholeOK'
    BY <1>0, <1>6 DEF Exit, Kill, Forget
  <1>7. ASSUME NEW f \in Frames, OpenFrame(f) \/ ToggleBox(f) \/ LoadToSave(f) \/ SaveFrame(f)
        PROVE  WholeOK'
    BY <1>7 DEF OpenFrame, ToggleBox, LoadToSave, SaveFrame
  <1>8. CASE Tick BY <1>8 DEF Tick
  <1>9. CASE UNCHANGED vars BY <1>9 DEF vars
  <1> QED
    BY <1>1, <1>2, <1>3, <1>4, <1>5, <1>6, <1>7, <1>8, <1>9 DEF Next, Step

LEMMA BackoffIsInt == \A num \in Nat : Backoff(num) \in Int
  <1>1. \A k \in 0 .. 9 : 2 ^ k \in Int BY SMT
  <1>2. \A num \in Nat : (IF num < 9 THEN num ELSE 9) \in 0 .. 9 OBVIOUS
  <1> QED BY <1>1, <1>2 DEF Backoff

(* Time opens the door and never closes it.                                 *)
LEMMA OlderLetsThrough ==
  ASSUME NEW s \in Settings, NEW u, ~BackedOff(u, s)
  PROVE  ~BackedOff(u, Older(s))
  <1>1. s.age \in Int /\ s.num \in Nat BY UpdaterAssumption DEF Settings
  <1>2. Backoff(s.num) \in Int BY <1>1, BackoffIsInt
  <1>3. Older(s).hash = s.hash /\ Older(s).num = s.num
        /\ Older(s).age \in {s.age, s.age + 1}
    BY DEF Older, Settings
  <1> QED BY <1>1, <1>2, <1>3 DEF BackedOff

LEMMA NextMarkOK ==
  ASSUME AloneWithFile PROVE TypeInv /\ WholeOK /\ MarkOK /\ [Next]_vars => MarkOK'
  <1> SUFFICES ASSUME TypeInv, WholeOK, MarkOK, [Next]_vars PROVE MarkOK'
    OBVIOUS
  <1>0. /\ pc \in [Procs -> Steps] /\ mem \in [Procs -> Settings]
        /\ newest \in [Procs -> Update \cup {None}]
        /\ file \in Settings /\ saveFaults \in Nat
    BY DEF TypeInv, TypeOK
  <1>s. ASSUME NEW s, Save(s), app \notin {Gone, Partial} PROVE file' = s
    BY <1>0, <1>s DEF Save, SaveFault, AloneWithFile
  <1> USE DEF MarkOK, disk, self, work, window, budget, history, Goto
  <1>1. ASSUME NEW p \in Procs, Start(p) \/ CheckInstaller(p) \/ SkipUpdate(p)
        PROVE  MarkOK'
    BY <1>0, <1>1 DEF Start, CheckInstaller, SkipUpdate
  <1>2. ASSUME NEW p \in Procs, FindUpdate(p) PROVE MarkOK'
    BY <1>0, <1>2 DEF FindUpdate
  <1>3. ASSUME NEW p \in Procs, CheckBackoff(p) PROVE MarkOK'
    <2>1. mem' = [mem EXCEPT ![p] = file] /\ UNCHANGED <<file, lastMark, newest>>
      BY <1>3 DEF CheckBackoff
    <2>2. \/ pc' = [pc EXCEPT ![p] = "run"]
          \/ pc' = [pc EXCEPT ![p] = "mark"] /\ ~BackedOff(newest[p], file)
      BY <1>3 DEF CheckBackoff
    <2> HIDE DEF disk, self, work, window, budget, history, Goto
    <2>3. ASSUME NEW r \in Procs, pc'[r] = "mark" PROVE mem'[r] = file /\ ~BackedOff(newest[r], file)
      BY <1>0, <2>1, <2>2, <2>3
    <2>4. \A r \in Procs : BackedOff(newest[r], file)' <=> BackedOff(newest[r], file)
      BY <2>1 DEF BackedOff
    <2> QED BY <2>1, <2>3, <2>4
  <1>4. ASSUME NEW p \in Procs, Mark(p) PROVE MarkOK'
    <2> DEFINE marked(s) == [s EXCEPT !.hash = newest[p].hash, !.num = @ + 1, !.age = 0]
    <2>1. pc[p] = "mark" /\ Save(marked(mem[p])) /\ lastMark' = marked(lastMark)
          /\ pc' = [pc EXCEPT ![p] = "download"]
      BY <1>4 DEF Mark
    <2>2. mem[p] = lastMark BY <2>1
    <2>3. file' = lastMark'
      <3>1. app \notin {Gone, Partial} BY <2>1 DEF WholeOK
      <3> QED BY <1>s, <2>1, <2>2, <3>1
    <2>4. \A r \in Procs : pc'[r] # "mark" BY <1>0, <2>1 DEF AloneWithFile, Sole
    <2> QED BY <2>3, <2>4
  <1>d. ASSUME NEW p \in Procs, BeginDelete(p) \/ EndDelete(p) PROVE MarkOK'
    <2>1. file' = lastMark' /\ \E to \in Steps \ {"mark"} : pc' = [pc EXCEPT ![p] = to]
      BY <1>d DEF BeginDelete, EndDelete, SettingsMayGo, SettingsGo, Steps
    <2>2. \A r \in Procs : pc'[r] # "mark" BY <1>0, <2>1 DEF AloneWithFile, Sole
    <2> QED BY <2>1, <2>2
  <1>5. ASSUME NEW p \in Procs, Download(p) \/ Attach(p) \/ BeginCopy(p) \/ EndCopy(p)
        PROVE  MarkOK'
    <2>1. UNCHANGED <<file, lastMark, mem, newest>> /\ \E to \in Steps \ {"mark"} :
            pc' = [pc EXCEPT ![p] = to]
      BY <1>5 DEF Download, Attach, BeginCopy, EndCopy, Steps
    <2> QED BY <1>0, <2>1 DEF BackedOff
  <1>6. ASSUME NEW p \in Procs, Relaunch(p) PROVE MarkOK'
    BY <1>0, <1>6 DEF Relaunch
  <1>7. ASSUME NEW p \in Procs, Exit(p) \/ Kill(p) PROVE MarkOK'
    <2>1. file' = lastMark' /\ pc' = [pc EXCEPT ![p] = "off"]
      BY <1>7 DEF Exit, Kill, Forget, SettingsMayGo, SettingsGo
    <2>2. \A r \in Procs : pc'[r] # "mark" BY <1>0, <2>1 DEF AloneWithFile, Sole
    <2> QED BY <2>1, <2>2
  <1>8. CASE Tick
    <2>1. file' = Older(file) /\ lastMark' = Older(lastMark)
          /\ mem' = [r \in Procs |-> Older(mem[r])] /\ UNCHANGED <<pc, newest>>
      BY <1>8 DEF Tick
    <2>2. ASSUME NEW r \in Procs, pc'[r] = "mark"
          PROVE  mem'[r] = file' /\ ~BackedOff(newest'[r], file')
      <3>1. mem[r] = file /\ ~BackedOff(newest[r], file) BY <2>1, <2>2
      <3>2. ~BackedOff(newest[r], Older(file)) BY <1>0, <3>1, OlderLetsThrough
      <3> QED BY <2>1, <3>1, <3>2
    <2> QED BY <2>1, <2>2 DEF BackedOff
  <1>9. CASE UNCHANGED vars BY <1>9 DEF vars, BackedOff
  <1> QED
    BY <1>1, <1>2, <1>3, <1>4, <1>d, <1>5, <1>6, <1>7, <1>8, <1>9
    DEF Next, Step, AloneWithFile

(* "Mark update attempt early": a launcher that is alone with its settings  *)
(* file waits 2^min(9, n) hours after n attempts at an update, through any  *)
(* failures, kills and restarts, until an update takes the file away with   *)
(* the old application.                                                     *)
THEOREM BackoffHeldSafe == ASSUME AloneWithFile PROVE Spec => BackoffHeld
  <1>1. Init => MarkOK /\ WholeOK
    BY DEF Init, MarkOK, WholeOK
  <1>2. TypeInv /\ MarkOK => [HoldsBackoff]_vars
    <2> SUFFICES ASSUME TypeInv, MarkOK, NEW p \in Procs, pc[p] = "mark"
                 PROVE  newest[p].hash # lastMark.hash \/ lastMark.age >= Backoff(lastMark.num)
      BY DEF HoldsBackoff
    <2>1. lastMark.age \in Int /\ Backoff(lastMark.num) \in Int
      BY BackoffIsInt, UpdaterAssumption DEF TypeInv, TypeOK, Settings
    <2> QED BY <2>1 DEF MarkOK, BackedOff
  <1>3. TypeInv /\ WholeOK /\ [Next]_vars => WholeOK'
    BY NextWholeOK DEF AloneWithFile
  <1> QED BY <1>1, <1>2, <1>3, TypeInvHolds, NextMarkOK, PTL DEF Spec, BackoffHeld
-----------------------------------------------------------------------------
(***************************************************************************)
(* The application of a launcher that is alone                             *)
(***************************************************************************)

(* Until something fails behind the point of no return, what is in the       *)
(* application folder is what the launcher that replaces it has got to.      *)
FolderOK ==
  lateFaults = 0 => \A p \in Procs :
    /\ app \in {Gone, Partial} => Late(p)
    /\ pc[p] = "deleting" => app = Partial
    /\ pc[p] = "copy" => app = Gone
    /\ pc[p] = "copying" => app = Partial
    /\ ~spoilt[p]
    /\ pc[p] = "relaunch" => app \notin {Gone, Partial}

LEMMA NextFolderOK ==
  ASSUME Sole, Frames = {} PROVE TypeInv /\ FolderOK /\ [Next]_vars => FolderOK'
<1> SUFFICES ASSUME TypeInv, FolderOK, [Next]_vars, lateFaults' = 0, NEW q \in Procs
             PROVE  /\ app' \in {Gone, Partial} => Late(q)'
                    /\ pc'[q] = "deleting" => app' = Partial
                    /\ pc'[q] = "copy" => app' = Gone
                    /\ pc'[q] = "copying" => app' = Partial
                    /\ ~spoilt'[q]
                    /\ pc'[q] = "relaunch" => app' \notin {Gone, Partial}
  BY DEF FolderOK
<1> DEFINE Fine == /\ app' \in {Gone, Partial} => Late(q)'
                   /\ pc'[q] = "deleting" => app' = Partial
                   /\ pc'[q] = "copy" => app' = Gone
                   /\ pc'[q] = "copying" => app' = Partial
                   /\ ~spoilt'[q]
                   /\ pc'[q] = "relaunch" => app' \notin {Gone, Partial}
<1>0. /\ pc \in [Procs -> Steps] /\ spoilt \in [Procs -> BOOLEAN] /\ lateFaults \in Nat
      /\ Gone # Partial /\ \A r \in Procs : r = q
  BY UpdaterAssumption DEF TypeInv, TypeOK, Sole
<1>1. ~LateFault
  BY <1>0 DEF LateFault
<1>2. ASSUME lateFaults = 0
      PROVE  /\ app \in {Gone, Partial} => Late(q)
             /\ pc[q] = "deleting" => app = Partial
             /\ pc[q] = "copy" => app = Gone
             /\ pc[q] = "copying" => app = Partial
             /\ ~spoilt[q]
             /\ pc[q] = "relaunch" => app \notin {Gone, Partial}
  BY <1>2 DEF FolderOK
<1> USE DEF disk, self, work, window, budget, history, Goto, Late
<1>3. ASSUME NEW p \in Procs, Start(p) \/ CheckInstaller(p) \/ SkipUpdate(p) \/ FindUpdate(p)
      PROVE  Fine
  <2>1. /\ lateFaults = 0 /\ UNCHANGED <<app, spoilt>> /\ p = q
        /\ pc[q] \in {"off", "check", "notInstalled", "newest"}
        /\ pc'[q] \in {"check", "newest", "notInstalled", "run", "backoff"}
    BY <1>0, <1>3 DEF Start, CheckInstaller, SkipUpdate, FindUpdate
  <2> QED
    BY <1>2, <2>1
<1>4. ASSUME NEW p \in Procs, CheckBackoff(p) \/ Mark(p) \/ Download(p) \/ Attach(p)
      PROVE  Fine
  <2>1. /\ lateFaults = 0 /\ UNCHANGED app /\ p = q
        /\ spoilt'[q] = spoilt[q]
        /\ pc[q] \in {"backoff", "mark", "download", "attach"}
        /\ pc'[q] \in {"run", "mark", "download", "attach", "delete"}
    BY <1>0, <1>4 DEF CheckBackoff, Mark, Download, Attach, Save, Fault, SaveFault
  <2> QED
    BY <1>2, <2>1
<1>5. ASSUME NEW p \in Procs, BeginDelete(p) PROVE Fine
  <2>1. lateFaults = 0 /\ p = q /\ pc[q] = "delete"
    BY <1>0, <1>1, <1>5 DEF BeginDelete
  <2>2. app # Gone /\ ~spoilt[q]
    BY <1>2, <2>1
  <2>3. app' = Partial /\ pc'[q] = "deleting" /\ ~spoilt'[q]
    BY <1>0, <1>1, <1>5, <2>1, <2>2 DEF BeginDelete, OthersCopySpoilt
  <2> QED
    BY <1>0, <2>3
<1>6. ASSUME NEW p \in Procs, EndDelete(p) PROVE Fine
  <2>1. p = q /\ pc[q] = "deleting" /\ lateFaults = 0
    BY <1>0, <1>1, <1>6 DEF EndDelete
  <2>2. app = Partial /\ ~spoilt[q] /\ \A r \in Procs : pc[r] # "copying"
    BY <1>0, <1>2, <2>1
  <2>3. app' = Gone /\ pc'[q] = "copy" /\ ~spoilt'[q]
    BY <1>0, <1>1, <1>6, <2>1, <2>2 DEF EndDelete
  <2> QED
    BY <1>0, <2>3
<1>7. ASSUME NEW p \in Procs, BeginCopy(p) PROVE Fine
  <2>1. p = q /\ pc[q] = "copy" /\ lateFaults = 0
    BY <1>0, <1>1, <1>7 DEF BeginCopy
  <2>2. app = Gone
    BY <1>2, <2>1
  <2>3. app' = Partial /\ pc'[q] = "copying" /\ ~spoilt'[q]
    BY <1>0, <1>1, <1>7, <2>1, <2>2 DEF BeginCopy
  <2> QED
    BY <1>0, <2>3
<1>8. ASSUME NEW p \in Procs, EndCopy(p) PROVE Fine
  <2>1. p = q /\ pc[q] = "copying" /\ lateFaults = 0
    BY <1>0, <1>1, <1>8 DEF EndCopy
  <2>2. ~spoilt[q]
    BY <1>2, <2>1
  <2>3. app' = newest[q].version /\ pc'[q] = "relaunch" /\ ~spoilt'[q]
    BY <1>0, <1>1, <1>8, <2>1, <2>2 DEF EndCopy
  <2>4. newest[q].version \in Version
    BY <2>1, ChosenTyped DEF Upgrading, Update
  <2>5. app' \notin {Gone, Partial}
    BY <2>3, <2>4, UpdaterAssumption
  <2> QED
    BY <2>3, <2>5
<1>9. ASSUME NEW p \in Procs, Relaunch(p) PROVE Fine
  <2>1. p = q /\ pc[q] = "relaunch" /\ lateFaults = 0 /\ UNCHANGED <<app, spoilt>>
    BY <1>0, <1>1, <1>9 DEF Relaunch
  <2>2. app \notin {Gone, Partial} /\ ~spoilt[q]
    BY <1>2, <2>1
  <2>3. pc'[q] \in {"check", "run"}
    BY <1>0, <1>9, <2>1 DEF Relaunch
  <2> QED
    BY <2>1, <2>2, <2>3
<1>10. ASSUME NEW p \in Procs, Exit(p) \/ Kill(p) PROVE Fine
  <2>1. /\ p = q /\ lateFaults = 0 /\ UNCHANGED app
        /\ ~Late(q) /\ pc'[q] = "off" /\ ~spoilt'[q]
    BY <1>0, <1>1, <1>10 DEF Exit, Kill, Forget, Fault
  <2> QED
    BY <1>2, <2>1
<1>12. Tick \/ UNCHANGED vars => lateFaults = 0 /\ UNCHANGED <<app, pc, spoilt>>
  BY DEF Tick, vars
<1>13. Tick \/ UNCHANGED vars => Fine
  BY <1>2, <1>12
<1> QED
  BY <1>3, <1>4, <1>5, <1>6, <1>7, <1>8, <1>9, <1>10, <1>13 DEF Next, Step

(* "Point of no return - remove old app and copy new": for a launcher that   *)
(* is alone, without a configuration window beside it, the application is    *)
(* only at risk where that point says, when deleting, copying or the new     *)
(* process fails.  Downloads, settings, kills before it and any number of    *)
(* updates do no harm; a second launcher does, without any failure.          *)
THEOREM AppSurvivesAlone ==
  ASSUME Sole, Procs # {}, Frames = {}
  PROVE  Spec => [](lateFaults = 0 => AppSurvives)
<1>1. Init => FolderOK
  <2>1. FirstVersion \notin {Gone, Partial}
    BY UpdaterAssumption
  <2> QED
    BY <2>1 DEF Init, FolderOK
<1>2. FolderOK => (lateFaults = 0 => AppSurvives)
  <2> SUFFICES ASSUME FolderOK, lateFaults = 0, app \in {Gone, Partial},
                      \A p \in Procs : pc[p] \in {"off", "run"}
               PROVE  FALSE
    BY DEF AppSurvives
  <2> QED
    BY DEF FolderOK, Late
<1> QED
  BY <1>1, <1>2, TypeInvHolds, NextFolderOK, PTL DEF Spec
=============================================================================
