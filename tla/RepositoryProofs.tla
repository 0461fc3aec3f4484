-------------------------- MODULE RepositoryProofs --------------------------
(***************************************************************************)
(* Theorems about Repository, for every set of launchers, of files and of  *)
(* bootstraps, and for any number of runs and faults.                      *)
(***************************************************************************)
EXTENDS Repository, TLAPS, SequenceTheorems

TypeInv == TypeOK /\ CursorOK /\ ChosenOK

(* What a launcher reads of the artifact it is at has the type it should.    *)
LEMMA CurTyped ==
  ASSUME TypeInv, NEW l \in Launchers, HasMore(l)
  PROVE  /\ pos[l] \in DOMAIN arts[l]
         /\ Cur(l) \in Artifact
         /\ Dest(l) \in Names
         /\ Cur(l).hash \in Contents
         /\ Cur(l).size \in Nat
         /\ Cur(l).diffs \in Seq(Diff)
         /\ chosen[l][pos[l]] \in 0..Len(Cur(l).diffs)
<1>1. pos[l] \in 1..Len(arts[l]) /\ arts[l] \in Seq(Artifact)
  BY DEF TypeInv, TypeOK, HasMore
<1>2. Cur(l) \in Artifact /\ pos[l] \in DOMAIN arts[l]
  BY <1>1 DEF Cur
<1>3. chosen[l][pos[l]] \in 0..Len(Cur(l).diffs)
  BY <1>2 DEF TypeInv, ChosenOK, Cur
<1> QED
  BY <1>2, <1>3 DEF Artifact, Dest, Contents

LEMMA CurDiffTyped ==
  ASSUME TypeInv, NEW l \in Launchers, HasMore(l), chosen[l][pos[l]] # 0
  PROVE  CurDiff(l) \in Diff /\ CurDiff(l).size \in Nat
<1>1. chosen[l][pos[l]] \in 1..Len(Cur(l).diffs) /\ Cur(l).diffs \in Seq(Diff)
  BY CurTyped
<1>2. CurDiff(l) \in Diff
  BY <1>1 DEF CurDiff
<1> QED
  BY <1>2 DEF Diff

LEMMA TypeInit == Init => TypeInv
<1> SUFFICES ASSUME Init PROVE TypeInv
  OBVIOUS
<1>1. TypeOK
  BY RepositoryAssumption DEF Init, TypeOK, Phases, Contents
<1>2. CursorOK
  BY DEF Init, CursorOK
<1>3. ChosenOK
  BY DEF Init, ChosenOK
<1> QED
  BY <1>1, <1>2, <1>3 DEF TypeInv

LEMMA TypeNext == TypeInv /\ [Next]_vars => TypeInv'
<1> SUFFICES ASSUME TypeInv, [Next]_vars PROVE TypeInv'
  OBVIOUS
<1> USE RepositoryAssumption
<1>u. CASE UNCHANGED vars
  BY <1>u DEF TypeInv, TypeOK, CursorOK, ChosenOK, HasMore, vars
<1>b. ASSUME NEW l \in Launchers, Begin(l) PROVE TypeInv'
  <2>1. PICK b \in Bootstraps, nd \in BOOLEAN :
          /\ arts' = [arts EXCEPT ![l] = b]
          /\ nodiff' = [nodiff EXCEPT ![l] = nd]
          /\ chosen' = [chosen EXCEPT ![l] = [k \in 1..Len(b) |-> 0]]
    BY <1>b DEF Begin
  <2>2. b \in Seq(Artifact) /\ Len(b) \in Nat
    OBVIOUS
  <2>3. [k \in 1..Len(b) |-> 0] \in Seq(Nat) /\ Len([k \in 1..Len(b) |-> 0]) = Len(b)
    BY <2>2
  <2>4. \A k \in DOMAIN b : Len(b[k].diffs) \in Nat
    BY <2>2 DEF Artifact
  <2>5. TypeOK'
    <3>1. unread' \in [Launchers -> SUBSET Nat]
      BY <1>b, {} \in SUBSET Nat DEF Begin, TypeInv, TypeOK
    <3>2. arts' \in [Launchers -> Seq(Artifact)] /\ nodiff' \in [Launchers -> BOOLEAN]
      BY <2>1, <2>2 DEF TypeInv, TypeOK
    <3>3. chosen' \in [Launchers -> Seq(Nat)]
      BY <2>1, <2>3 DEF TypeInv, TypeOK
    <3>4. toDownload' \in [Launchers -> SUBSET Nat]
      BY <1>b, {} \in SUBSET Nat DEF Begin, TypeInv, TypeOK
    <3>5. /\ total' \in [Launchers -> Int] /\ downloaded' \in [Launchers -> Nat]
          /\ runs' \in [Launchers -> Nat] /\ pc' \in [Launchers -> Phases]
      BY <1>b DEF Begin, Goto, TypeInv, TypeOK, Phases
    <3> QED
      BY <1>b, <3>1, <3>2, <3>3, <3>4, <3>5 DEF Begin, TypeInv, TypeOK
  <2>6. CursorOK'
    BY <1>b, <2>1, <2>2 DEF Begin, Goto, TypeInv, TypeOK, CursorOK, HasMore
  <2>7. ChosenOK'
    BY <1>b, <2>1, <2>2, <2>3, <2>4 DEF Begin, TypeInv, TypeOK, ChosenOK
  <2> QED
    BY <2>5, <2>6, <2>7 DEF TypeInv
<1>BootstrapFails. ASSUME NEW l \in Launchers, BootstrapFails(l) PROVE TypeInv'
  <2>2. TypeOK'
    BY <1>BootstrapFails DEF BootstrapFails, Goto, Advance, Rewind, Fault, plan, setup, TypeInv, TypeOK, Phases, Contents
  <2>3. CursorOK'
    BY <1>BootstrapFails DEF BootstrapFails, Goto, Advance, Rewind, Fault, plan, setup, TypeInv, TypeOK, Phases, Contents, CursorOK, HasMore
  <2>4. ChosenOK'
    BY <1>BootstrapFails DEF BootstrapFails, Goto, Advance, Rewind, Fault, plan, setup, TypeInv, TypeOK, Phases, Contents, ChosenOK, Cur
  <2> QED
    BY <2>2, <2>3, <2>4 DEF TypeInv
<1>CleanList. ASSUME NEW l \in Launchers, CleanList(l) PROVE TypeInv'
  <2>2. TypeOK'
    <3>1. stale' \in [Launchers -> SUBSET Names]
      <4>1. \E S \in SUBSET Names : stale' = [stale EXCEPT ![l] = S]
        BY <1>CleanList DEF CleanList
      <4> QED
        BY <4>1 DEF TypeInv, TypeOK
    <3>2. faults' \in Nat
      BY <1>CleanList DEF CleanList, TypeInv, TypeOK, Fault
    <3>3. pc' \in [Launchers -> Phases]
      BY <1>CleanList DEF CleanList, TypeInv, TypeOK, Goto, Phases
    <3> QED
      BY <1>CleanList, <3>1, <3>2, <3>3 DEF CleanList, plan, setup, TypeInv, TypeOK
  <2>3. CursorOK'
    BY <1>CleanList DEF CleanList, Goto, Advance, Rewind, Fault, plan, setup, TypeInv, TypeOK, Phases, Contents, CursorOK, HasMore
  <2>4. ChosenOK'
    BY <1>CleanList DEF CleanList, Goto, Advance, Rewind, Fault, plan, setup, TypeInv, TypeOK, Phases, Contents, ChosenOK, Cur
  <2> QED
    BY <2>2, <2>3, <2>4 DEF TypeInv
<1>CleanOne. ASSUME NEW l \in Launchers, CleanOne(l) PROVE TypeInv'
  <2>2. TypeOK'
    <3>1. repo' \in [Names -> Contents]
      BY <1>CleanOne DEF CleanOne, TypeInv, TypeOK, Contents, plan, setup
    <3>2. stale' \in [Launchers -> SUBSET Names]
      BY <1>CleanOne DEF CleanOne, TypeInv, TypeOK
    <3>3. faults' \in Nat
      BY <1>CleanOne DEF CleanOne, TypeInv, TypeOK, Fault
    <3> QED
      BY <1>CleanOne, <3>1, <3>2, <3>3 DEF CleanOne, plan, setup, TypeInv, TypeOK
  <2>3. CursorOK'
    BY <1>CleanOne DEF CleanOne, Goto, Advance, Rewind, Fault, plan, setup, TypeInv, TypeOK, Phases, Contents, CursorOK, HasMore
  <2>4. ChosenOK'
    BY <1>CleanOne DEF CleanOne, Goto, Advance, Rewind, Fault, plan, setup, TypeInv, TypeOK, Phases, Contents, ChosenOK, Cur
  <2> QED
    BY <2>2, <2>3, <2>4 DEF TypeInv
<1>CleanDone. ASSUME NEW l \in Launchers, CleanDone(l) PROVE TypeInv'
  <2>2. TypeOK'
    BY <1>CleanDone DEF CleanDone, Goto, Advance, Rewind, Fault, plan, setup, TypeInv, TypeOK, Phases, Contents
  <2>3. CursorOK'
    BY <1>CleanDone DEF CleanDone, Goto, Advance, Rewind, Fault, plan, setup, TypeInv, TypeOK, Phases, Contents, CursorOK, HasMore
  <2>4. ChosenOK'
    BY <1>CleanDone DEF CleanDone, Goto, Advance, Rewind, Fault, plan, setup, TypeInv, TypeOK, Phases, Contents, ChosenOK, Cur
  <2> QED
    BY <2>2, <2>3, <2>4 DEF TypeInv
<1>UpToDate. ASSUME NEW l \in Launchers, UpToDate(l) PROVE TypeInv'
  <2>2. TypeOK'
    BY <1>UpToDate DEF UpToDate, Goto, Advance, Rewind, Fault, plan, setup, TypeInv, TypeOK, Phases, Contents
  <2>3. CursorOK'
    BY <1>UpToDate DEF UpToDate, Goto, Advance, Rewind, Fault, plan, setup, TypeInv, TypeOK, Phases, Contents, CursorOK, HasMore
  <2>4. ChosenOK'
    BY <1>UpToDate DEF UpToDate, Goto, Advance, Rewind, Fault, plan, setup, TypeInv, TypeOK, Phases, Contents, ChosenOK, Cur
  <2> QED
    BY <2>2, <2>3, <2>4 DEF TypeInv
<1>OutOfDate. ASSUME NEW l \in Launchers, OutOfDate(l) PROVE TypeInv'
  <2>2. TypeOK'
    BY <1>OutOfDate DEF OutOfDate, Goto, Advance, Rewind, Fault, plan, setup, TypeInv, TypeOK, Phases, Contents
  <2>3. CursorOK'
    BY <1>OutOfDate DEF OutOfDate, Goto, Advance, Rewind, Fault, plan, setup, TypeInv, TypeOK, Phases, Contents, CursorOK, HasMore
  <2>4. ChosenOK'
    BY <1>OutOfDate DEF OutOfDate, Goto, Advance, Rewind, Fault, plan, setup, TypeInv, TypeOK, Phases, Contents, ChosenOK, Cur
  <2> QED
    BY <2>2, <2>3, <2>4 DEF TypeInv
<1>Unreadable. ASSUME NEW l \in Launchers, Unreadable(l) PROVE TypeInv'
  <2>2. TypeOK'
    <3>1. repo' \in [Names -> Contents]
      BY <1>Unreadable DEF Unreadable, TypeInv, TypeOK, Contents, plan, setup
    <3>2. dpos' \in [Launchers -> Nat \ {0}]
      BY <1>Unreadable DEF Unreadable, TypeInv, TypeOK
    <3>3. faults' \in Nat
      BY <1>Unreadable DEF Unreadable, TypeInv, TypeOK, Fault
    <3>4. pc' \in [Launchers -> Phases]
      BY <1>Unreadable DEF Unreadable, TypeInv, TypeOK, Goto, Phases
    <3>5. unread' \in [Launchers -> SUBSET Nat]
      BY <1>Unreadable DEF Unreadable, TypeInv, TypeOK
    <3> QED
      BY <1>Unreadable, <3>1, <3>2, <3>3, <3>4, <3>5 DEF Unreadable, plan, setup, TypeInv, TypeOK
  <2>3. CursorOK'
    BY <1>Unreadable DEF Unreadable, Goto, Advance, Rewind, Fault, plan, setup, TypeInv, TypeOK, Phases, Contents, CursorOK, HasMore
  <2>4. ChosenOK'
    BY <1>Unreadable DEF Unreadable, Goto, Advance, Rewind, Fault, plan, setup, TypeInv, TypeOK, Phases, Contents, ChosenOK, Cur
  <2> QED
    BY <2>2, <2>3, <2>4 DEF TypeInv
<1>ScanDiff. ASSUME NEW l \in Launchers, ScanDiff(l) PROVE TypeInv'
  <2>0. HasMore(l) /\ (pc[l] \in {"patch", "apply"} => chosen[l][pos[l]] # 0)
    BY <1>ScanDiff DEF ScanDiff, TypeInv, CursorOK
  <2>1. /\ Cur(l).size \in Nat /\ Cur(l).hash \in Contents /\ Dest(l) \in Names
        /\ chosen[l][pos[l]] # 0 => CurDiff(l).size \in Nat
        /\ chosen[l][pos[l]] \in 0..Len(Cur(l).diffs)
        /\ pos[l] \in DOMAIN arts[l]
        /\ Cur(l).diffs \in Seq(Diff)
    BY <2>0, CurTyped, CurDiffTyped
  <2>a. \/ chosen' = chosen
        \/ chosen' = [chosen EXCEPT ![l] = [chosen[l] EXCEPT ![pos[l]] = dpos[l]]]
    BY <1>ScanDiff DEF ScanDiff
  <2>b. /\ [chosen[l] EXCEPT ![pos[l]] = dpos[l]] \in Seq(Nat)
        /\ Len([chosen[l] EXCEPT ![pos[l]] = dpos[l]]) = Len(chosen[l])
    <3>1. chosen[l] \in Seq(Nat) /\ dpos[l] \in Nat /\ pos[l] \in 1..Len(chosen[l])
      BY <2>1 DEF TypeInv, TypeOK, ChosenOK
    <3> QED
      BY <3>1, ExceptSeq
  <2>2. TypeOK'
    <3>1. chosen' \in [Launchers -> Seq(Nat)]
      BY <2>a, <2>b DEF TypeInv, TypeOK
    <3>2. dpos' \in [Launchers -> Nat \ {0}]
      BY <1>ScanDiff, <2>0, <2>1 DEF ScanDiff, TypeInv, TypeOK
    <3>3. faults' \in Nat
      BY <1>ScanDiff, <2>0, <2>1 DEF ScanDiff, TypeInv, TypeOK, Fault
    <3> QED
      BY <1>ScanDiff, <2>0, <2>1, <3>1, <3>2, <3>3 DEF ScanDiff, plan, setup, TypeInv, TypeOK
  <2>3. CursorOK'
    BY <1>ScanDiff, <2>0, <2>1 DEF ScanDiff, Goto, Advance, Rewind, Fault, plan, setup, TypeInv, TypeOK, Phases, Contents, CursorOK, HasMore
  <2>4. ChosenOK'
    <3>1. dpos[l] \in 0..Len(arts[l][pos[l]].diffs) /\ arts' = arts
      BY <1>ScanDiff, <2>1 DEF ScanDiff, setup, Cur, TypeInv, TypeOK
    <3>2. CASE chosen' = chosen
      BY <3>1, <3>2 DEF TypeInv, ChosenOK
    <3>3. CASE chosen' = [chosen EXCEPT ![l] = [chosen[l] EXCEPT ![pos[l]] = dpos[l]]]
      <4>1. chosen \in [Launchers -> Seq(Nat)] /\ \A m \in Launchers : Len(chosen[m]) = Len(arts[m])
        BY DEF TypeInv, TypeOK, ChosenOK
      <4>2. \A m \in Launchers : Len(chosen'[m]) = Len(arts[m])
        BY <4>1, <3>3, <2>b
      <4>3. ASSUME NEW m \in Launchers, NEW k \in DOMAIN arts[m]
            PROVE  chosen'[m][k] \in 0..Len(arts[m][k].diffs)
        <5>1. k \in DOMAIN chosen[m] /\ chosen[m][k] \in 0..Len(arts[m][k].diffs)
          BY <4>1 DEF TypeInv, TypeOK, ChosenOK
        <5> QED
          BY <5>1, <4>1, <3>1, <3>3
      <4> QED
        BY <4>2, <4>3, <3>1 DEF ChosenOK
    <3> QED
      BY <2>a, <3>2, <3>3
  <2> QED
    BY <2>2, <2>3, <2>4 DEF TypeInv
<1>AddDownload. ASSUME NEW l \in Launchers, AddDownload(l) PROVE TypeInv'
  <2>0. HasMore(l) /\ (pc[l] \in {"patch", "apply"} => chosen[l][pos[l]] # 0)
    BY <1>AddDownload DEF AddDownload, TypeInv, CursorOK
  <2>1. /\ Cur(l).size \in Nat /\ Cur(l).hash \in Contents /\ Dest(l) \in Names
        /\ chosen[l][pos[l]] # 0 => CurDiff(l).size \in Nat
        /\ chosen[l][pos[l]] \in 0..Len(Cur(l).diffs)
        /\ pos[l] \in DOMAIN arts[l]
        /\ Cur(l).diffs \in Seq(Diff)
    BY <2>0, CurTyped, CurDiffTyped
  <2>2. TypeOK'
    <3>1. toDownload' \in [Launchers -> SUBSET Nat]
      BY <1>AddDownload, <2>0, <2>1 DEF AddDownload, TypeInv, TypeOK, plan
    <3>2. total' \in [Launchers -> Int]
      BY <1>AddDownload, <2>0, <2>1 DEF AddDownload, TypeInv, TypeOK, plan, DownloadSize
    <3>3. pos' \in [Launchers -> Nat \ {0}]
      BY <1>AddDownload, pos[l] + 1 \in Nat \ {0} DEF AddDownload, TypeInv, TypeOK, Advance
    <3>4. pc' \in [Launchers -> Phases]
      BY <1>AddDownload, <2>0, <2>1 DEF AddDownload, TypeInv, TypeOK, Goto, Phases
    <3> QED
      BY <1>AddDownload, <2>0, <2>1, <3>1, <3>2, <3>3, <3>4 DEF AddDownload, plan, setup, TypeInv, TypeOK
  <2>3. CursorOK'
    BY <1>AddDownload, <2>0, <2>1 DEF AddDownload, Goto, Advance, Rewind, Fault, plan, setup, TypeInv, TypeOK, Phases, Contents, DownloadSize, CursorOK, HasMore
  <2>4. ChosenOK'
    BY <1>AddDownload, <2>0, <2>1 DEF AddDownload, Goto, Advance, Rewind, Fault, plan, setup, TypeInv, TypeOK, Phases, Contents, DownloadSize, ChosenOK, Cur
  <2> QED
    BY <2>2, <2>3, <2>4 DEF TypeInv
<1>ScanDone. ASSUME NEW l \in Launchers, ScanDone(l) PROVE TypeInv'
  <2>2. TypeOK'
    BY <1>ScanDone DEF ScanDone, Goto, Advance, Rewind, Fault, plan, setup, TypeInv, TypeOK, Phases, Contents
  <2>3. CursorOK'
    BY <1>ScanDone DEF ScanDone, Goto, Advance, Rewind, Fault, plan, setup, TypeInv, TypeOK, Phases, Contents, CursorOK, HasMore
  <2>4. ChosenOK'
    BY <1>ScanDone DEF ScanDone, Goto, Advance, Rewind, Fault, plan, setup, TypeInv, TypeOK, Phases, Contents, ChosenOK, Cur
  <2> QED
    BY <2>2, <2>3, <2>4 DEF TypeInv
<1>Skip. ASSUME NEW l \in Launchers, Skip(l) PROVE TypeInv'
  <2>2. TypeOK'
    BY <1>Skip DEF Skip, Goto, Advance, Rewind, Fault, plan, setup, TypeInv, TypeOK, Phases, Contents
  <2>3. CursorOK'
    BY <1>Skip DEF Skip, Goto, Advance, Rewind, Fault, plan, setup, TypeInv, TypeOK, Phases, Contents, CursorOK, HasMore
  <2>4. ChosenOK'
    BY <1>Skip DEF Skip, Goto, Advance, Rewind, Fault, plan, setup, TypeInv, TypeOK, Phases, Contents, ChosenOK, Cur
  <2> QED
    BY <2>2, <2>3, <2>4 DEF TypeInv
<1>FetchDiff. ASSUME NEW l \in Launchers, FetchDiff(l) PROVE TypeInv'
  <2>0. HasMore(l) /\ (pc[l] \in {"patch", "apply"} => chosen[l][pos[l]] # 0)
    BY <1>FetchDiff DEF FetchDiff, TypeInv, CursorOK
  <2>1. /\ Cur(l).size \in Nat /\ Cur(l).hash \in Contents /\ Dest(l) \in Names
        /\ chosen[l][pos[l]] # 0 => CurDiff(l).size \in Nat
        /\ chosen[l][pos[l]] \in 0..Len(Cur(l).diffs)
        /\ pos[l] \in DOMAIN arts[l]
        /\ Cur(l).diffs \in Seq(Diff)
    BY <2>0, CurTyped, CurDiffTyped
  <2>c. CurDiff(l).size \in Nat
    BY <1>FetchDiff, <2>0, <2>1 DEF FetchDiff
  <2>2. TypeOK'
    <3>1. total' \in [Launchers -> Int]
      BY <1>FetchDiff, <2>0, <2>1 DEF FetchDiff, TypeInv, TypeOK, plan, GiveUpPatch
    <3>2. downloaded' \in [Launchers -> Nat]
      <4>1. \/ downloaded' = downloaded
            \/ downloaded' = [downloaded EXCEPT ![l] = downloaded[l] + CurDiff(l).size]
        BY <1>FetchDiff DEF FetchDiff
      <4>2. downloaded \in [Launchers -> Nat] /\ downloaded[l] + CurDiff(l).size \in Nat
        BY <2>c DEF TypeInv, TypeOK
      <4> QED
        BY <4>1, <4>2
    <3>3. pc' \in [Launchers -> Phases]
      BY <1>FetchDiff, <2>0, <2>1 DEF FetchDiff, TypeInv, TypeOK, Goto, Phases, GiveUpPatch
    <3>4. faults' \in Nat
      BY <1>FetchDiff, <2>0, <2>1 DEF FetchDiff, TypeInv, TypeOK, Fault
    <3> QED
      BY <1>FetchDiff, <2>0, <2>1, <3>1, <3>2, <3>3, <3>4 DEF FetchDiff, plan, setup, TypeInv, TypeOK
  <2>3. CursorOK'
    BY <1>FetchDiff, <2>0, <2>1 DEF FetchDiff, Goto, Advance, Rewind, Fault, plan, setup, TypeInv, TypeOK, Phases, Contents, GiveUpPatch, HasMore, CursorOK, HasMore
  <2>4. ChosenOK'
    BY <1>FetchDiff, <2>0, <2>1 DEF FetchDiff, Goto, Advance, Rewind, Fault, plan, setup, TypeInv, TypeOK, Phases, Contents, GiveUpPatch, HasMore, ChosenOK, Cur
  <2> QED
    BY <2>2, <2>3, <2>4 DEF TypeInv
<1>OpenPatch. ASSUME NEW l \in Launchers, OpenPatch(l) PROVE TypeInv'
  <2>0. HasMore(l) /\ (pc[l] \in {"patch", "apply"} => chosen[l][pos[l]] # 0)
    BY <1>OpenPatch DEF OpenPatch, TypeInv, CursorOK
  <2>1. /\ Cur(l).size \in Nat /\ Cur(l).hash \in Contents /\ Dest(l) \in Names
        /\ chosen[l][pos[l]] # 0 => CurDiff(l).size \in Nat
        /\ chosen[l][pos[l]] \in 0..Len(Cur(l).diffs)
        /\ pos[l] \in DOMAIN arts[l]
        /\ Cur(l).diffs \in Seq(Diff)
    BY <2>0, CurTyped, CurDiffTyped
  <2>c. CurDiff(l).size \in Nat
    BY <1>OpenPatch, <2>0, <2>1 DEF OpenPatch
  <2>2. TypeOK'
    <3>1. repo' \in [Names -> Contents]
      BY <1>OpenPatch, <2>0, <2>1 DEF OpenPatch, TypeInv, TypeOK, Contents, plan, setup, Truncate
    <3>2. truncated' \in [Launchers -> BOOLEAN]
      BY <1>OpenPatch, <2>0, <2>1 DEF OpenPatch, TypeInv, TypeOK, Truncate
    <3>3. total' \in [Launchers -> Int]
      <4>1. \/ total' = total
            \/ total' = [total EXCEPT ![l] = total[l] - CurDiff(l).size + Cur(l).size]
        BY <1>OpenPatch DEF OpenPatch, GiveUpPatch
      <4>2. /\ total \in [Launchers -> Int]
            /\ total[l] - CurDiff(l).size + Cur(l).size \in Int
        BY <2>c, <2>1 DEF TypeInv, TypeOK
      <4> QED
        BY <4>1, <4>2
    <3>4. pc' \in [Launchers -> Phases]
      BY <1>OpenPatch, <2>0, <2>1 DEF OpenPatch, TypeInv, TypeOK, Goto, Phases, GiveUpPatch
    <3>5. faults' \in Nat
      BY <1>OpenPatch, <2>0, <2>1 DEF OpenPatch, TypeInv, TypeOK, Fault
    <3> QED
      BY <1>OpenPatch, <2>0, <2>1, <3>1, <3>2, <3>3, <3>4, <3>5 DEF OpenPatch, plan, setup, TypeInv, TypeOK
  <2>3. CursorOK'
    BY <1>OpenPatch, <2>0, <2>1 DEF OpenPatch, Goto, Advance, Rewind, Fault, plan, setup, TypeInv, TypeOK, Phases, Contents, Truncate, GiveUpPatch, CursorOK, HasMore
  <2>4. ChosenOK'
    BY <1>OpenPatch, <2>0, <2>1 DEF OpenPatch, Goto, Advance, Rewind, Fault, plan, setup, TypeInv, TypeOK, Phases, Contents, Truncate, GiveUpPatch, ChosenOK, Cur
  <2> QED
    BY <2>2, <2>3, <2>4 DEF TypeInv
<1>ApplyPatch. ASSUME NEW l \in Launchers, ApplyPatch(l) PROVE TypeInv'
  <2>0. HasMore(l) /\ (pc[l] \in {"patch", "apply"} => chosen[l][pos[l]] # 0)
    BY <1>ApplyPatch DEF ApplyPatch, TypeInv, CursorOK
  <2>1. /\ Cur(l).size \in Nat /\ Cur(l).hash \in Contents /\ Dest(l) \in Names
        /\ chosen[l][pos[l]] # 0 => CurDiff(l).size \in Nat
        /\ chosen[l][pos[l]] \in 0..Len(Cur(l).diffs)
        /\ pos[l] \in DOMAIN arts[l]
        /\ Cur(l).diffs \in Seq(Diff)
    BY <2>0, CurTyped, CurDiffTyped
  <2>2. TypeOK'
    <3>1. repo' \in [Names -> Contents]
      BY <1>ApplyPatch, <2>0, <2>1 DEF ApplyPatch, TypeInv, TypeOK, Contents, plan, setup, WriteResults
    <3>2. pos' \in [Launchers -> Nat \ {0}]
      BY <1>ApplyPatch, <2>0, <2>1 DEF ApplyPatch, TypeInv, TypeOK, Advance
    <3>3. pc' \in [Launchers -> Phases]
      BY <1>ApplyPatch, <2>0, <2>1 DEF ApplyPatch, TypeInv, TypeOK, Goto, Phases
    <3> QED
      BY <1>ApplyPatch, <2>0, <2>1, <3>1, <3>2, <3>3 DEF ApplyPatch, plan, setup, TypeInv, TypeOK
  <2>3. CursorOK'
    BY <1>ApplyPatch, <2>0, <2>1 DEF ApplyPatch, Goto, Advance, Rewind, Fault, plan, setup, TypeInv, TypeOK, Phases, Contents, WriteResults, CursorOK, HasMore
  <2>4. ChosenOK'
    BY <1>ApplyPatch, <2>0, <2>1 DEF ApplyPatch, Goto, Advance, Rewind, Fault, plan, setup, TypeInv, TypeOK, Phases, Contents, WriteResults, ChosenOK, Cur
  <2> QED
    BY <2>2, <2>3, <2>4 DEF TypeInv
<1>PatchMismatch. ASSUME NEW l \in Launchers, PatchMismatch(l) PROVE TypeInv'
  <2>0. HasMore(l) /\ (pc[l] \in {"patch", "apply"} => chosen[l][pos[l]] # 0)
    BY <1>PatchMismatch DEF PatchMismatch, TypeInv, CursorOK
  <2>1. /\ Cur(l).size \in Nat /\ Cur(l).hash \in Contents /\ Dest(l) \in Names
        /\ chosen[l][pos[l]] # 0 => CurDiff(l).size \in Nat
        /\ chosen[l][pos[l]] \in 0..Len(Cur(l).diffs)
        /\ pos[l] \in DOMAIN arts[l]
        /\ Cur(l).diffs \in Seq(Diff)
    BY <2>0, CurTyped, CurDiffTyped
  <2>2. TypeOK'
    <3>1. repo' \in [Names -> Contents]
      BY <1>PatchMismatch, <2>0, <2>1 DEF PatchMismatch, TypeInv, TypeOK, Contents, plan, setup, Spoil
    <3>2. total' \in [Launchers -> Int]
      BY <1>PatchMismatch, <2>0, <2>1 DEF PatchMismatch, TypeInv, TypeOK, plan, GiveUpPatch
    <3>3. pc' \in [Launchers -> Phases]
      BY <1>PatchMismatch, <2>0, <2>1 DEF PatchMismatch, TypeInv, TypeOK, Goto, Phases, GiveUpPatch
    <3>4. faults' \in Nat
      BY <1>PatchMismatch, <2>0, <2>1 DEF PatchMismatch, TypeInv, TypeOK, Fault
    <3> QED
      BY <1>PatchMismatch, <2>0, <2>1, <3>1, <3>2, <3>3, <3>4 DEF PatchMismatch, plan, setup, TypeInv, TypeOK
  <2>3. CursorOK'
    BY <1>PatchMismatch, <2>0, <2>1 DEF PatchMismatch, Goto, Advance, Rewind, Fault, plan, setup, TypeInv, TypeOK, Phases, Contents, Spoil, GiveUpPatch, CursorOK, HasMore
  <2>4. ChosenOK'
    BY <1>PatchMismatch, <2>0, <2>1 DEF PatchMismatch, Goto, Advance, Rewind, Fault, plan, setup, TypeInv, TypeOK, Phases, Contents, Spoil, GiveUpPatch, ChosenOK, Cur
  <2> QED
    BY <2>2, <2>3, <2>4 DEF TypeInv
<1>OpenFull. ASSUME NEW l \in Launchers, OpenFull(l) PROVE TypeInv'
  <2>0. HasMore(l) /\ (pc[l] \in {"patch", "apply"} => chosen[l][pos[l]] # 0)
    BY <1>OpenFull DEF OpenFull, TypeInv, CursorOK
  <2>1. /\ Cur(l).size \in Nat /\ Cur(l).hash \in Contents /\ Dest(l) \in Names
        /\ chosen[l][pos[l]] # 0 => CurDiff(l).size \in Nat
        /\ chosen[l][pos[l]] \in 0..Len(Cur(l).diffs)
        /\ pos[l] \in DOMAIN arts[l]
        /\ Cur(l).diffs \in Seq(Diff)
    BY <2>0, CurTyped, CurDiffTyped
  <2>2. TypeOK'
    <3>1. repo' \in [Names -> Contents]
      BY <1>OpenFull, <2>0, <2>1 DEF OpenFull, TypeInv, TypeOK, Contents, plan, setup, Truncate
    <3>2. truncated' \in [Launchers -> BOOLEAN]
      BY <1>OpenFull, <2>0, <2>1 DEF OpenFull, TypeInv, TypeOK, Truncate
    <3>3. pc' \in [Launchers -> Phases]
      BY <1>OpenFull, <2>0, <2>1 DEF OpenFull, TypeInv, TypeOK, Goto, Phases
    <3>4. faults' \in Nat
      BY <1>OpenFull, <2>0, <2>1 DEF OpenFull, TypeInv, TypeOK, Fault
    <3> QED
      BY <1>OpenFull, <2>0, <2>1, <3>1, <3>2, <3>3, <3>4 DEF OpenFull, plan, setup, TypeInv, TypeOK
  <2>3. CursorOK'
    BY <1>OpenFull, <2>0, <2>1 DEF OpenFull, Goto, Advance, Rewind, Fault, plan, setup, TypeInv, TypeOK, Phases, Contents, Truncate, CursorOK, HasMore
  <2>4. ChosenOK'
    BY <1>OpenFull, <2>0, <2>1 DEF OpenFull, Goto, Advance, Rewind, Fault, plan, setup, TypeInv, TypeOK, Phases, Contents, Truncate, ChosenOK, Cur
  <2> QED
    BY <2>2, <2>3, <2>4 DEF TypeInv
<1>WriteFull. ASSUME NEW l \in Launchers, WriteFull(l) PROVE TypeInv'
  <2>0. HasMore(l) /\ (pc[l] \in {"patch", "apply"} => chosen[l][pos[l]] # 0)
    BY <1>WriteFull DEF WriteFull, TypeInv, CursorOK
  <2>1. /\ Cur(l).size \in Nat /\ Cur(l).hash \in Contents /\ Dest(l) \in Names
        /\ chosen[l][pos[l]] # 0 => CurDiff(l).size \in Nat
        /\ chosen[l][pos[l]] \in 0..Len(Cur(l).diffs)
        /\ pos[l] \in DOMAIN arts[l]
        /\ Cur(l).diffs \in Seq(Diff)
    BY <2>0, CurTyped, CurDiffTyped
  <2>2. TypeOK'
    <3>1. repo' \in [Names -> Contents]
      BY <1>WriteFull, <2>0, <2>1 DEF WriteFull, TypeInv, TypeOK, Contents, plan, setup, WriteResults
    <3>2. downloaded' \in [Launchers -> Nat]
      BY <1>WriteFull, <2>0, <2>1 DEF WriteFull, TypeInv, TypeOK, plan
    <3>3. pos' \in [Launchers -> Nat \ {0}]
      BY <1>WriteFull, <2>0, <2>1 DEF WriteFull, TypeInv, TypeOK, Advance
    <3>4. pc' \in [Launchers -> Phases]
      BY <1>WriteFull, <2>0, <2>1 DEF WriteFull, TypeInv, TypeOK, Goto, Phases
    <3> QED
      BY <1>WriteFull, <2>0, <2>1, <3>1, <3>2, <3>3, <3>4 DEF WriteFull, plan, setup, TypeInv, TypeOK
  <2>3. CursorOK'
    BY <1>WriteFull, <2>0, <2>1 DEF WriteFull, Goto, Advance, Rewind, Fault, plan, setup, TypeInv, TypeOK, Phases, Contents, WriteResults, CursorOK, HasMore
  <2>4. ChosenOK'
    BY <1>WriteFull, <2>0, <2>1 DEF WriteFull, Goto, Advance, Rewind, Fault, plan, setup, TypeInv, TypeOK, Phases, Contents, WriteResults, ChosenOK, Cur
  <2> QED
    BY <2>2, <2>3, <2>4 DEF TypeInv
<1>WriteWrong. ASSUME NEW l \in Launchers, WriteWrong(l) PROVE TypeInv'
  <2>0. HasMore(l) /\ (pc[l] \in {"patch", "apply"} => chosen[l][pos[l]] # 0)
    BY <1>WriteWrong DEF WriteWrong, TypeInv, CursorOK
  <2>1. /\ Cur(l).size \in Nat /\ Cur(l).hash \in Contents /\ Dest(l) \in Names
        /\ chosen[l][pos[l]] # 0 => CurDiff(l).size \in Nat
        /\ chosen[l][pos[l]] \in 0..Len(Cur(l).diffs)
        /\ pos[l] \in DOMAIN arts[l]
        /\ Cur(l).diffs \in Seq(Diff)
    BY <2>0, CurTyped, CurDiffTyped
  <2>2. TypeOK'
    <3>1. repo' \in [Names -> Contents]
      BY <1>WriteWrong, <2>0, <2>1 DEF WriteWrong, TypeInv, TypeOK, Contents, plan, setup, Spoil
    <3>2. pos' \in [Launchers -> Nat \ {0}]
      BY <1>WriteWrong, <2>0, <2>1 DEF WriteWrong, TypeInv, TypeOK, Advance
    <3>3. pc' \in [Launchers -> Phases]
      BY <1>WriteWrong, <2>0, <2>1 DEF WriteWrong, TypeInv, TypeOK, Goto, Phases
    <3>4. faults' \in Nat
      BY <1>WriteWrong, <2>0, <2>1 DEF WriteWrong, TypeInv, TypeOK, Fault
    <3> QED
      BY <1>WriteWrong, <2>0, <2>1, <3>1, <3>2, <3>3, <3>4 DEF WriteWrong, plan, setup, TypeInv, TypeOK
  <2>3. CursorOK'
    BY <1>WriteWrong, <2>0, <2>1 DEF WriteWrong, Goto, Advance, Rewind, Fault, plan, setup, TypeInv, TypeOK, Phases, Contents, Spoil, CursorOK, HasMore
  <2>4. ChosenOK'
    BY <1>WriteWrong, <2>0, <2>1 DEF WriteWrong, Goto, Advance, Rewind, Fault, plan, setup, TypeInv, TypeOK, Phases, Contents, Spoil, ChosenOK, Cur
  <2> QED
    BY <2>2, <2>3, <2>4 DEF TypeInv
<1>WriteFails. ASSUME NEW l \in Launchers, WriteFails(l) PROVE TypeInv'
  <2>0. HasMore(l) /\ (pc[l] \in {"patch", "apply"} => chosen[l][pos[l]] # 0)
    BY <1>WriteFails DEF WriteFails, TypeInv, CursorOK
  <2>1. /\ Cur(l).size \in Nat /\ Cur(l).hash \in Contents /\ Dest(l) \in Names
        /\ chosen[l][pos[l]] # 0 => CurDiff(l).size \in Nat
        /\ chosen[l][pos[l]] \in 0..Len(Cur(l).diffs)
        /\ pos[l] \in DOMAIN arts[l]
        /\ Cur(l).diffs \in Seq(Diff)
    BY <2>0, CurTyped, CurDiffTyped
  <2>2. TypeOK'
    <3>1. repo' \in [Names -> Contents]
      BY <1>WriteFails, <2>0, <2>1 DEF WriteFails, TypeInv, TypeOK, Contents, plan, setup, Spoil
    <3>2. pc' \in [Launchers -> Phases]
      BY <1>WriteFails, <2>0, <2>1 DEF WriteFails, TypeInv, TypeOK, Goto, Phases
    <3>3. faults' \in Nat
      BY <1>WriteFails, <2>0, <2>1 DEF WriteFails, TypeInv, TypeOK, Fault
    <3> QED
      BY <1>WriteFails, <2>0, <2>1, <3>1, <3>2, <3>3 DEF WriteFails, plan, setup, TypeInv, TypeOK
  <2>3. CursorOK'
    BY <1>WriteFails, <2>0, <2>1 DEF WriteFails, Goto, Advance, Rewind, Fault, plan, setup, TypeInv, TypeOK, Phases, Contents, Spoil, CursorOK, HasMore
  <2>4. ChosenOK'
    BY <1>WriteFails, <2>0, <2>1 DEF WriteFails, Goto, Advance, Rewind, Fault, plan, setup, TypeInv, TypeOK, Phases, Contents, Spoil, ChosenOK, Cur
  <2> QED
    BY <2>2, <2>3, <2>4 DEF TypeInv
<1>DownloadDone. ASSUME NEW l \in Launchers, DownloadDone(l) PROVE TypeInv'
  <2>2. TypeOK'
    BY <1>DownloadDone DEF DownloadDone, Goto, Advance, Rewind, Fault, plan, setup, TypeInv, TypeOK, Phases, Contents
  <2>3. CursorOK'
    BY <1>DownloadDone DEF DownloadDone, Goto, Advance, Rewind, Fault, plan, setup, TypeInv, TypeOK, Phases, Contents, CursorOK, HasMore
  <2>4. ChosenOK'
    BY <1>DownloadDone DEF DownloadDone, Goto, Advance, Rewind, Fault, plan, setup, TypeInv, TypeOK, Phases, Contents, ChosenOK, Cur
  <2> QED
    BY <2>2, <2>3, <2>4 DEF TypeInv
<1>VerifyOne. ASSUME NEW l \in Launchers, VerifyOne(l) PROVE TypeInv'
  <2>2. TypeOK'
    BY <1>VerifyOne DEF VerifyOne, Goto, Advance, Rewind, Fault, plan, setup, TypeInv, TypeOK, Phases, Contents
  <2>3. CursorOK'
    BY <1>VerifyOne DEF VerifyOne, Goto, Advance, Rewind, Fault, plan, setup, TypeInv, TypeOK, Phases, Contents, CursorOK, HasMore
  <2>4. ChosenOK'
    BY <1>VerifyOne DEF VerifyOne, Goto, Advance, Rewind, Fault, plan, setup, TypeInv, TypeOK, Phases, Contents, ChosenOK, Cur
  <2> QED
    BY <2>2, <2>3, <2>4 DEF TypeInv
<1>VerifyFails. ASSUME NEW l \in Launchers, VerifyFails(l) PROVE TypeInv'
  <2>2. TypeOK'
    <3>1. pc' \in [Launchers -> Phases] /\ faults' \in Nat
      BY <1>VerifyFails DEF VerifyFails, Goto, Fault, TypeInv, TypeOK, Phases
    <3> QED
      BY <1>VerifyFails, <3>1 DEF VerifyFails, plan, setup, TypeInv, TypeOK
  <2>3. CursorOK'
    BY <1>VerifyFails DEF VerifyFails, Goto, Advance, Rewind, Fault, plan, setup, TypeInv, TypeOK, Phases, Contents, CursorOK, HasMore
  <2>4. ChosenOK'
    BY <1>VerifyFails DEF VerifyFails, Goto, Advance, Rewind, Fault, plan, setup, TypeInv, TypeOK, Phases, Contents, ChosenOK, Cur
  <2> QED
    BY <2>2, <2>3, <2>4 DEF TypeInv
<1>VerifyDone. ASSUME NEW l \in Launchers, VerifyDone(l) PROVE TypeInv'
  <2>2. TypeOK'
    BY <1>VerifyDone DEF VerifyDone, Goto, Advance, Rewind, Fault, plan, setup, TypeInv, TypeOK, Phases, Contents
  <2>3. CursorOK'
    BY <1>VerifyDone DEF VerifyDone, Goto, Advance, Rewind, Fault, plan, setup, TypeInv, TypeOK, Phases, Contents, CursorOK, HasMore
  <2>4. ChosenOK'
    BY <1>VerifyDone DEF VerifyDone, Goto, Advance, Rewind, Fault, plan, setup, TypeInv, TypeOK, Phases, Contents, ChosenOK, Cur
  <2> QED
    BY <2>2, <2>3, <2>4 DEF TypeInv
<1>Launch. ASSUME NEW l \in Launchers, Launch(l) PROVE TypeInv'
  <2>2. TypeOK'
    BY <1>Launch DEF Launch, Goto, Advance, Rewind, Fault, plan, setup, TypeInv, TypeOK, Phases, Contents
  <2>3. CursorOK'
    BY <1>Launch DEF Launch, Goto, Advance, Rewind, Fault, plan, setup, TypeInv, TypeOK, Phases, Contents, CursorOK, HasMore
  <2>4. ChosenOK'
    BY <1>Launch DEF Launch, Goto, Advance, Rewind, Fault, plan, setup, TypeInv, TypeOK, Phases, Contents, ChosenOK, Cur
  <2> QED
    BY <2>2, <2>3, <2>4 DEF TypeInv
<1>Exit. ASSUME NEW l \in Launchers, Exit(l) PROVE TypeInv'
  <2>2. TypeOK'
    BY <1>Exit DEF Exit, Goto, Advance, Rewind, Fault, plan, setup, TypeInv, TypeOK, Phases, Contents, Forget
  <2>3. CursorOK'
    BY <1>Exit DEF Exit, Goto, Advance, Rewind, Fault, plan, setup, TypeInv, TypeOK, Phases, Contents, Forget, CursorOK, HasMore
  <2>4. ChosenOK'
    BY <1>Exit DEF Exit, Goto, Advance, Rewind, Fault, plan, setup, TypeInv, TypeOK, Phases, Contents, Forget, ChosenOK, Cur
  <2> QED
    BY <2>2, <2>3, <2>4 DEF TypeInv
<1>Kill. ASSUME NEW l \in Launchers, Kill(l) PROVE TypeInv'
  <2>2. TypeOK'
    BY <1>Kill DEF Kill, Goto, Advance, Rewind, Fault, plan, setup, TypeInv, TypeOK, Phases, Contents, Forget, Running
  <2>3. CursorOK'
    BY <1>Kill DEF Kill, Goto, Advance, Rewind, Fault, plan, setup, TypeInv, TypeOK, Phases, Contents, Forget, Running, CursorOK, HasMore
  <2>4. ChosenOK'
    BY <1>Kill DEF Kill, Goto, Advance, Rewind, Fault, plan, setup, TypeInv, TypeOK, Phases, Contents, Forget, Running, ChosenOK, Cur
  <2> QED
    BY <2>2, <2>3, <2>4 DEF TypeInv
<1> QED
  BY <1>u, <1>b, <1>BootstrapFails, <1>CleanList, <1>CleanOne, <1>CleanDone, <1>UpToDate, <1>OutOfDate, <1>Unreadable, <1>ScanDiff, <1>AddDownload, <1>ScanDone, <1>Skip, <1>FetchDiff, <1>OpenPatch, <1>ApplyPatch, <1>PatchMismatch, <1>OpenFull, <1>WriteFull, <1>WriteWrong, <1>WriteFails, <1>DownloadDone, <1>VerifyOne, <1>VerifyFails, <1>VerifyDone, <1>Launch, <1>Exit, <1>Kill DEF Next, Prepare
-----------------------------------------------------------------------------
(* At most one launcher process at a time.                                   *)
Sole == \A l, m \in Launchers : l = m

VerifiedInv == TypeInv /\ VerifiedPrefix /\ VerifiedLaunch

LEMMA VerifiedNext ==
  ASSUME Sole, VerifiedInv, [Next]_vars
  PROVE  VerifiedInv'
<1>1. TypeInv'
  BY TypeNext DEF VerifiedInv
<1>2. CASE UNCHANGED vars
  BY <1>1, <1>2 DEF VerifiedInv, VerifiedPrefix, VerifiedLaunch, vars
<1>3. ASSUME NEW l \in Launchers,
             pc'[l] \notin {"verify", "launch", "launched"}
      PROVE  VerifiedInv'
  BY <1>1, <1>3 DEF Sole, VerifiedInv, VerifiedPrefix, VerifiedLaunch
<1>4. ASSUME NEW l \in Launchers, DownloadDone(l)
      PROVE  VerifiedInv'
  <2>1. \A m \in Launchers : m = l
    BY DEF Sole
  <2>2. pc'[l] = "verify" /\ pos'[l] = 1
    BY <1>4 DEF DownloadDone, Goto, Rewind, VerifiedInv, TypeInv, TypeOK
  <2>3. arts' \in [Launchers -> Seq(Artifact)]
    BY <1>1 DEF TypeInv, TypeOK
  <2> QED
    BY <1>1, <2>1, <2>2, <2>3 DEF VerifiedInv, VerifiedPrefix, VerifiedLaunch
<1>5. ASSUME NEW l \in Launchers, VerifyOne(l)
      PROVE  VerifiedInv'
  <2>1. \A m \in Launchers : m = l
    BY DEF Sole
  <2>2. /\ pc[l] = "verify" /\ pc' = pc /\ arts' = arts /\ repo' = repo
        /\ repo[arts[l][pos[l]].name] = arts[l][pos[l]].hash
        /\ pos[l] \in Nat /\ pos'[l] = pos[l] + 1
    BY <1>5 DEF VerifyOne, Advance, setup, Dest, Cur, VerifiedInv, TypeInv, TypeOK
  <2>3. arts[l] \in Seq(Artifact)
    BY DEF VerifiedInv, TypeInv, TypeOK
  <2> QED
    BY <1>1, <2>1, <2>2, <2>3 DEF VerifiedInv, VerifiedPrefix, VerifiedLaunch
<1>6. ASSUME NEW l \in Launchers, VerifyDone(l)
      PROVE  VerifiedInv'
  <2>1. \A m \in Launchers : m = l
    BY DEF Sole
  <2>2. /\ pc[l] = "verify" /\ pc'[l] = "launch" /\ arts' = arts /\ repo' = repo
        /\ \A k \in DOMAIN arts[l] : k < pos[l]
    BY <1>6 DEF VerifyDone, Goto, setup, HasMore, VerifiedInv, TypeInv, TypeOK
  <2> QED
    BY <1>1, <2>1, <2>2 DEF VerifiedInv, VerifiedPrefix, VerifiedLaunch
<1>7. ASSUME NEW l \in Launchers, Launch(l)
      PROVE  VerifiedInv'
  <2>1. \A m \in Launchers : m = l
    BY DEF Sole
  <2>2. /\ pc[l] = "launch" /\ pc'[l] = "launched" /\ arts' = arts /\ repo' = repo
        /\ loaded'[l] = repo
    BY <1>7 DEF Launch, Goto, setup, VerifiedInv, TypeInv, TypeOK
  <2> QED
    BY <1>1, <2>1, <2>2 DEF VerifiedInv, VerifiedPrefix, VerifiedLaunch
<1>8. ASSUME NEW l \in Launchers, NEW phase \in Phases, Goto(l, phase),
             phase \notin {"verify", "launch", "launched"}
      PROVE  VerifiedInv'
  <2>1. pc'[l] = phase
    BY <1>8 DEF Goto, VerifiedInv, TypeInv, TypeOK
  <2> QED
    BY <1>3, <1>8, <2>1
<1>9. ASSUME NEW l \in Launchers,
             pc[l] \notin {"verify", "launch", "launched"}, pc' = pc
      PROVE  VerifiedInv'
  BY <1>3, <1>9
<1>10. ASSUME NEW l \in Launchers,
              Begin(l) \/ BootstrapFails(l) \/ CleanList(l) \/ CleanDone(l)
       PROVE  VerifiedInv'
  BY <1>8, <1>10 DEF Begin, BootstrapFails, CleanList, CleanDone, Phases
<1>11. ASSUME NEW l \in Launchers,
              CleanOne(l) \/ UpToDate(l) \/ ScanDiff(l) \/ Skip(l)
       PROVE  VerifiedInv'
  BY <1>9, <1>11 DEF CleanOne, UpToDate, ScanDiff, Skip
<1>12. ASSUME NEW l \in Launchers,
              OutOfDate(l) \/ Unreadable(l) \/ AddDownload(l) \/ ScanDone(l)
       PROVE  VerifiedInv'
  BY <1>8, <1>12 DEF OutOfDate, Unreadable, AddDownload, ScanDone, Phases
<1>13. ASSUME NEW l \in Launchers,
              FetchDiff(l) \/ OpenPatch(l) \/ ApplyPatch(l) \/ PatchMismatch(l)
       PROVE  VerifiedInv'
  BY <1>8, <1>13 DEF FetchDiff, OpenPatch, ApplyPatch, PatchMismatch,
                     GiveUpPatch, Phases
<1>14. ASSUME NEW l \in Launchers,
              OpenFull(l) \/ WriteFull(l) \/ WriteWrong(l) \/ WriteFails(l)
       PROVE  VerifiedInv'
  BY <1>8, <1>14 DEF OpenFull, WriteFull, WriteWrong, WriteFails, Phases
<1>15. ASSUME NEW l \in Launchers, VerifyFails(l) \/ Exit(l) \/ Kill(l)
       PROVE  VerifiedInv'
  BY <1>8, <1>15 DEF VerifyFails, Exit, Kill, Forget, Phases
<1> QED
  BY <1>2, <1>4, <1>5, <1>6, <1>7, <1>10, <1>11, <1>12, <1>13, <1>14, <1>15
  DEF Next, Prepare

(* Every value has its type, the loop index is inside the list while an      *)
(* artifact is handled, and a patch is only worked on where one was chosen:  *)
(* for any number of launchers.                                              *)
THEOREM TypeCorrect == Spec => [](TypeOK /\ CursorOK /\ ChosenOK)
<1>1. Init => TypeInv
  BY TypeInit
<1>2. TypeInv /\ [Next]_vars => TypeInv'
  BY TypeNext
<1>3. TypeInv => TypeOK /\ CursorOK /\ ChosenOK
  BY DEF TypeInv
<1> QED
  BY <1>1, <1>2, <1>3, PTL DEF Spec

(* A launcher that is alone never starts the client on a jar whose hash is   *)
(* not the one in the bootstrap (verifyJarHashes, then the launch).          *)
THEOREM VerifiedLaunchSafe == Sole => (Spec => []VerifiedLaunch)
<1> SUFFICES ASSUME Sole PROVE Spec => []VerifiedLaunch
  OBVIOUS
<1>1. Init => VerifiedInv
  BY TypeInit DEF Init, VerifiedInv, VerifiedPrefix, VerifiedLaunch
<1>2. VerifiedInv /\ [Next]_vars => VerifiedInv'
  BY VerifiedNext
<1>3. VerifiedInv => VerifiedLaunch
  BY DEF VerifiedInv
<1> QED
  BY <1>1, <1>2, <1>3, PTL DEF Spec
-----------------------------------------------------------------------------
(* No list the server hands out names a file twice.                          *)
DistinctLists ==
  \A b \in Bootstraps : \A j, k \in DOMAIN b : b[j].name = b[k].name => j = k

KeptInv == TypeInv /\ PendingBad /\ DistinctNames /\ StaleUnneeded

LEMMA DistinctNext ==
  ASSUME DistinctLists, TypeInv, DistinctNames, [Next]_vars
  PROVE  DistinctNames'
<1>1. CASE arts' = arts
  BY <1>1 DEF DistinctNames
<1>2. ASSUME NEW l \in Launchers, NEW b \in Bootstraps \cup {<<>>},
             arts' = [arts EXCEPT ![l] = b]
      PROVE  DistinctNames'
  BY <1>2 DEF DistinctLists, DistinctNames, TypeInv, TypeOK
<1>3. ASSUME NEW l \in Launchers, Begin(l) PROVE DistinctNames'
  BY <1>2, <1>3 DEF Begin
<1>4. ASSUME NEW l \in Launchers, Exit(l) \/ Kill(l) PROVE DistinctNames'
  BY <1>2, <1>4 DEF Exit, Kill, Forget
<1>5. ASSUME NEW l \in Launchers, BootstrapFails(l) \/ Launch(l) PROVE arts' = arts
  BY <1>5 DEF BootstrapFails, Launch, setup
<1>6. ASSUME NEW l \in Launchers, Prepare(l) PROVE arts' = arts
  BY <1>6 DEF Prepare, setup, CleanList, CleanOne, CleanDone, UpToDate, OutOfDate,
     Unreadable, ScanDiff, AddDownload, ScanDone, Skip, FetchDiff, OpenPatch,
     ApplyPatch, PatchMismatch, OpenFull, WriteFull, WriteWrong, WriteFails,
     DownloadDone, VerifyOne, VerifyFails, VerifyDone
<1> QED
  BY <1>1, <1>3, <1>4, <1>5, <1>6 DEF Next, vars

LEMMA StaleNext ==
  ASSUME Sole, TypeInv, StaleUnneeded, [Next]_vars
  PROVE  StaleUnneeded'
<1>1. CASE UNCHANGED vars
  BY <1>1 DEF StaleUnneeded, vars
<1>2. ASSUME NEW l \in Launchers, NEW phase \in Phases \ {"clean"}, Goto(l, phase)
      PROVE  StaleUnneeded'
  BY <1>2 DEF Sole, Goto, StaleUnneeded, TypeInv, TypeOK
<1>3. ASSUME NEW l \in Launchers, CleanList(l) PROVE StaleUnneeded'
  BY <1>3 DEF Sole, CleanList, setup, StaleUnneeded, TypeInv, TypeOK
<1>4. ASSUME NEW l \in Launchers, CleanOne(l) PROVE StaleUnneeded'
  BY <1>4 DEF Sole, CleanOne, setup, StaleUnneeded, TypeInv, TypeOK
<1>5. ASSUME NEW l \in Launchers,
             UpToDate(l) \/ ScanDiff(l) \/ Skip(l) \/ VerifyOne(l)
      PROVE  StaleUnneeded'
  <2>1. pc[l] # "clean" /\ pc' = pc
    BY <1>5 DEF UpToDate, ScanDiff, Skip, VerifyOne
  <2> QED
    BY <2>1 DEF Sole, StaleUnneeded
<1>6. ASSUME NEW l \in Launchers,
             Begin(l) \/ BootstrapFails(l) \/ Launch(l) \/ Exit(l) \/ Kill(l)
      PROVE  StaleUnneeded'
  BY <1>2, <1>6 DEF Begin, BootstrapFails, Launch, Exit, Kill, Forget, Phases
<1>7. ASSUME NEW l \in Launchers,
             \/ CleanDone(l) \/ OutOfDate(l) \/ Unreadable(l)
             \/ AddDownload(l) \/ ScanDone(l)
      PROVE  StaleUnneeded'
  BY <1>2, <1>7 DEF CleanDone, OutOfDate, Unreadable, AddDownload, ScanDone, Phases
<1>8. ASSUME NEW l \in Launchers,
             \/ FetchDiff(l) \/ OpenPatch(l) \/ ApplyPatch(l) \/ PatchMismatch(l)
             \/ OpenFull(l) \/ WriteFull(l) \/ WriteWrong(l) \/ WriteFails(l)
             \/ DownloadDone(l) \/ VerifyFails(l) \/ VerifyDone(l)
      PROVE  StaleUnneeded'
  BY <1>2, <1>8 DEF FetchDiff, OpenPatch, ApplyPatch, PatchMismatch, GiveUpPatch,
     OpenFull, WriteFull, WriteWrong, WriteFails, DownloadDone, VerifyFails,
     VerifyDone, Phases
<1> QED
  BY <1>1, <1>3, <1>4, <1>5, <1>6, <1>7, <1>8 DEF Next, Prepare

(* A step changes at most one file: one that clean may delete, the file of   *)
(* the artifact at hand, or one that could not be read.                      *)
LEMMA RepoStep ==
  ASSUME TypeInv, NEW l \in Launchers,
         Begin(l) \/ BootstrapFails(l) \/ Prepare(l) \/ Launch(l) \/ Exit(l) \/ Kill(l)
  PROVE  \/ repo' = repo
         \/ /\ pc[l] = "clean"
            /\ \E n \in stale[l] : repo' = [repo EXCEPT ![n] = Absent]
         \/ /\ pc[l] = "scan" /\ HasMore(l) /\ pc'[l] = "diffs"
            /\ pos[l] \in unread'[l]
            /\ \E c \in Contents : repo' = [repo EXCEPT ![Dest(l)] = c]
         \/ /\ pc[l] \in {"get", "patch", "full"} /\ HasMore(l)
            /\ pos[l] \in toDownload[l] \/ pc[l] # "get"
            /\ unread' = unread
            /\ repo' = [repo EXCEPT ![Dest(l)] = Garbage]
         \/ /\ pc[l] \in {"apply", "write"} /\ HasMore(l)
            /\ unread' = unread
            /\ \E c \in Contents : repo' = [repo EXCEPT ![Dest(l)] = c]
<1>1. CASE Begin(l) \/ BootstrapFails(l) \/ Launch(l) \/ Exit(l) \/ Kill(l)
  BY <1>1 DEF Begin, BootstrapFails, Launch, Exit, Kill, Forget
<1>2. CASE CleanOne(l)
  BY <1>2 DEF CleanOne
<1>3. CASE Unreadable(l)
  <2>1. pc'[l] = "diffs" /\ Absent \in Contents /\ pos[l] \in unread'[l]
    BY <1>3 DEF Unreadable, Goto, TypeInv, TypeOK, Contents
  <2> QED
    BY <1>3, <2>1 DEF Unreadable
<1>4. CASE OpenPatch(l) \/ OpenFull(l)
  BY <1>4 DEF OpenPatch, OpenFull, Truncate, setup, TypeInv, CursorOK
<1>5. CASE ApplyPatch(l) \/ PatchMismatch(l) \/ WriteFull(l) \/ WriteWrong(l)
           \/ WriteFails(l)
  <2>1. pc[l] \in {"apply", "write"}
    BY <1>5 DEF ApplyPatch, PatchMismatch, WriteFull, WriteWrong, WriteFails
  <2>2. HasMore(l)
    BY <2>1 DEF TypeInv, CursorOK
  <2>3. Cur(l).hash \in Contents /\ repo[Dest(l)] \in Contents /\ Garbage \in Contents
    BY <2>2, CurTyped DEF TypeInv, TypeOK, Contents
  <2>4. \E c \in Contents : repo' = [repo EXCEPT ![Dest(l)] = c]
    BY <1>5, <2>3 DEF ApplyPatch, PatchMismatch, WriteFull, WriteWrong, WriteFails,
                      WriteResults, Spoil
  <2>5. unread' = unread
    BY <1>5 DEF ApplyPatch, PatchMismatch, WriteFull, WriteWrong, WriteFails, setup
  <2> QED
    BY <2>1, <2>2, <2>4, <2>5
<1>6. CASE \/ CleanList(l) \/ CleanDone(l) \/ UpToDate(l) \/ OutOfDate(l)
           \/ ScanDiff(l) \/ AddDownload(l) \/ ScanDone(l) \/ Skip(l)
           \/ FetchDiff(l) \/ DownloadDone(l) \/ VerifyOne(l) \/ VerifyFails(l)
           \/ VerifyDone(l)
  BY <1>6 DEF CleanList, CleanDone, UpToDate, OutOfDate, ScanDiff, AddDownload,
     ScanDone, Skip, FetchDiff, DownloadDone, VerifyOne, VerifyFails, VerifyDone
<1> QED
  BY <1>1, <1>2, <1>3, <1>4, <1>5, <1>6 DEF Prepare

(* What is still to be downloaded stays out of date or unread.               *)
LEMMA PendingNext ==
  ASSUME Sole, KeptInv, [Next]_vars
  PROVE  PendingBad'
<1> USE RepositoryAssumption
<1>0. TypeInv /\ TypeInv' /\ PendingBad /\ DistinctNames
  BY TypeNext DEF KeptInv
<1>1. CASE UNCHANGED vars
  BY <1>0, <1>1 DEF PendingBad, Pending, vars
<1>2. ASSUME NEW l \in Launchers, NEW phase \in {"idle", "failed", "verify", "launch", "launched"},
             Goto(l, phase)
      PROVE  PendingBad'
  <2>1. pc'[l] = phase
    BY <1>0, <1>2 DEF Goto, TypeInv, TypeOK
  <2>2. Pending(l)' = {}
    BY <2>1 DEF Pending
  <2> QED
    BY <2>1, <2>2 DEF Sole, PendingBad
<1>3. ASSUME NEW l \in Launchers,
             \/ BootstrapFails(l) \/ WriteFails(l) \/ DownloadDone(l) \/ VerifyFails(l)
             \/ VerifyDone(l) \/ Launch(l) \/ Exit(l) \/ Kill(l)
      PROVE  PendingBad'
  BY <1>2, <1>3 DEF BootstrapFails, WriteFails, DownloadDone, VerifyFails, VerifyDone,
                    Launch, Exit, Kill, Forget
<1>4. ASSUME NEW l \in Launchers, VerifyOne(l) PROVE PendingBad'
  BY <1>0, <1>4 DEF Sole, VerifyOne, PendingBad, Pending
<1>5. ASSUME NEW l \in Launchers, Begin(l) PROVE PendingBad'
  BY <1>0, <1>5 DEF Sole, Begin, Goto, PendingBad, Pending, TypeInv, TypeOK
<1>6. ASSUME NEW l \in Launchers, CleanList(l) \/ CleanOne(l) \/ CleanDone(l)
      PROVE  PendingBad'
  BY <1>0, <1>6 DEF Sole, CleanList, CleanOne, CleanDone, Goto, plan, PendingBad,
                    Pending, TypeInv, TypeOK
<1>h. \A l \in Launchers : \A k \in DOMAIN arts[l] : arts[l][k].hash \in Hashes
  <2>1. \A l \in Launchers : arts[l] \in Seq(Artifact)
    BY <1>0 DEF TypeInv, TypeOK
  <2>2. \A l \in Launchers : \A k \in DOMAIN arts[l] : arts[l][k] \in Artifact
    BY <2>1
  <2> QED
    BY <2>2 DEF Artifact
<1>k. ASSUME NEW l \in Launchers, arts' = arts, repo' = repo, unread' = unread,
             Pending(l)' \subseteq Pending(l), pc'[l] \notin {"list", "clean"},
             pc'[l] \in {"patch", "apply", "full", "write"} => pos'[l] \in toDownload'[l]
      PROVE  PendingBad'
  BY <1>0, <1>k DEF Sole, PendingBad
<1>w. ASSUME NEW l \in Launchers, NEW c, arts' = arts, HasMore(l),
             repo' = [repo EXCEPT ![Dest(l)] = c],
             unread[l] \subseteq unread'[l],
             c \in {Absent, Garbage, repo[Dest(l)]} \/ pos[l] \notin Pending(l)',
             Pending(l)' \subseteq Pending(l) \cup {pos[l]},
             pos[l] \in Pending(l)' =>
               c \in {Absent, Garbage} \/ pos[l] \in Pending(l) \cup unread'[l],
             pc'[l] \notin {"list", "clean"},
             pc'[l] \in {"patch", "apply", "full", "write"} => pos'[l] \in toDownload'[l]
      PROVE  PendingBad'
  <2>1. pos[l] \in DOMAIN arts[l] /\ Dest(l) = arts[l][pos[l]].name
    BY <1>0, <1>w, CurTyped DEF Dest, Cur
  <2>2. ASSUME NEW k \in Pending(l)'
        PROVE  /\ k \in DOMAIN arts[l]
               /\ repo'[arts[l][k].name] # arts[l][k].hash \/ k \in unread'[l]
    <3>1. k \in DOMAIN arts[l]
      BY <1>0, <1>w, <2>1, <2>2 DEF PendingBad
    <3>2. CASE k = pos[l]
      <4>1. c # arts[l][k].hash \/ k \in unread'[l]
        BY <1>0, <1>h, <1>w, <2>1, <2>2, <3>2 DEF PendingBad
      <4> QED
        <5>1. Dest(l) \in DOMAIN repo /\ Dest(l) = arts[l][k].name
          BY <1>0, <1>w, <2>1, <3>2, CurTyped DEF TypeInv, TypeOK
        <5>2. repo'[Dest(l)] = c
          BY <1>w, <5>1
        <5> QED
          BY <3>1, <4>1, <5>1, <5>2
    <3>3. CASE k # pos[l]
      <4>1. arts[l][k].name # Dest(l)
        BY <1>0, <2>1, <3>1, <3>3 DEF DistinctNames
      <4>2. k \in Pending(l)
        BY <1>w, <2>2, <3>3
      <4> QED
        BY <1>0, <1>w, <3>1, <4>1, <4>2 DEF PendingBad
    <3> QED
      BY <3>1, <3>2, <3>3
  <2> QED
    BY <1>0, <1>w, <2>2 DEF Sole, PendingBad
<1>7. ASSUME NEW l \in Launchers, UpToDate(l) \/ ScanDiff(l) \/ Skip(l)
      PROVE  PendingBad'
  <2>1. /\ pc' = pc /\ toDownload' = toDownload /\ arts' = arts /\ repo' = repo
        /\ pc[l] = "diffs" => pos' = pos
        /\ pos[l] \in Nat /\ pos'[l] \in {pos[l], pos[l] + 1}
        /\ pc[l] \in {"scan", "diffs", "get"} /\ unread' = unread
    BY <1>0, <1>7 DEF UpToDate, ScanDiff, Skip, Advance, plan, setup, TypeInv, TypeOK
  <2>2. toDownload[l] \subseteq Nat
    BY <1>0 DEF TypeInv, TypeOK
  <2> QED
    BY <1>k, <2>1, <2>2 DEF Pending
<1>8. ASSUME NEW l \in Launchers, OutOfDate(l) PROVE PendingBad'
  BY <1>0, <1>8 DEF Sole, OutOfDate, Goto, HasMore, Dest, Cur, plan, setup, PendingBad,
                    Pending, TypeInv, TypeOK
<1>9. ASSUME NEW l \in Launchers, Unreadable(l) PROVE PendingBad'
  <2>1. /\ pc[l] = "scan" /\ pc'[l] = "diffs" /\ pos' = pos /\ arts' = arts
        /\ toDownload' = toDownload /\ HasMore(l)
        /\ repo' \in {repo, [repo EXCEPT ![Dest(l)] = Absent]}
        /\ unread[l] \subseteq unread'[l] /\ pos[l] \in unread'[l]
    BY <1>0, <1>9 DEF Unreadable, Goto, plan, TypeInv, TypeOK
  <2>2. \E c \in {Absent, repo[Dest(l)]} : repo' = [repo EXCEPT ![Dest(l)] = c]
    BY <1>0, <2>1 DEF TypeInv, TypeOK
  <2> QED
    BY <1>w, <2>1, <2>2 DEF Pending
<1>10. ASSUME NEW l \in Launchers, AddDownload(l) PROVE PendingBad'
  <2>1. /\ pc[l] = "diffs" /\ pc'[l] = "scan" /\ arts' = arts /\ repo' = repo
        /\ toDownload'[l] = toDownload[l] \cup {pos[l]} /\ unread' = unread
    BY <1>0, <1>10 DEF AddDownload, Goto, setup, TypeInv, TypeOK
  <2> QED
    BY <1>k, <2>1 DEF Pending
<1>s. ASSUME NEW l \in Launchers, ScanDone(l) PROVE PendingBad'
  <2>1. /\ pc[l] = "scan" /\ pc'[l] = "get" /\ arts' = arts /\ repo' = repo
        /\ toDownload'[l] = toDownload[l] /\ unread' = unread
    BY <1>0, <1>s DEF ScanDone, Goto, setup, plan, TypeInv, TypeOK
  <2> QED
    BY <1>k, <2>1 DEF Pending
<1>11. ASSUME NEW l \in Launchers, FetchDiff(l) PROVE PendingBad'
  BY <1>0, <1>11 DEF Sole, FetchDiff, GiveUpPatch, Goto, plan, setup,
                     PendingBad, Pending, TypeInv, TypeOK
<1>12. ASSUME NEW l \in Launchers, OpenPatch(l) \/ OpenFull(l) PROVE PendingBad'
  <2>1. /\ pc[l] \in {"get", "patch", "full"} /\ HasMore(l)
        /\ pos[l] \in toDownload[l]
        /\ pos' = pos /\ arts' = arts /\ toDownload' = toDownload
        /\ pc'[l] \in {"apply", "full", "write", "failed"} /\ unread' = unread
    BY <1>0, <1>12 DEF OpenPatch, OpenFull, GiveUpPatch, Goto, plan, setup, PendingBad,
                       TypeInv, TypeOK, CursorOK
  <2>2. Pending(l)' \subseteq Pending(l) /\ pos[l] \in Pending(l)
    BY <1>0, <2>1 DEF Pending, TypeInv, TypeOK
  <2>3. repo' = repo \/ repo' = [repo EXCEPT ![Dest(l)] = Garbage]
    BY <1>12 DEF OpenPatch, OpenFull, Truncate
  <2>4. CASE repo' = repo
    BY <1>k, <2>1, <2>2, <2>4
  <2> QED
    BY <1>w, <2>1, <2>2, <2>3, <2>4
<1>14. ASSUME NEW l \in Launchers, PatchMismatch(l) PROVE PendingBad'
  <2>1. /\ pc[l] = "apply" /\ HasMore(l) /\ pos[l] \in toDownload[l]
        /\ pos' = pos /\ arts' = arts /\ toDownload' = toDownload
        /\ pc'[l] = "full" /\ unread' = unread
    BY <1>0, <1>14 DEF PatchMismatch, GiveUpPatch, Goto, setup, PendingBad,
                       TypeInv, TypeOK, CursorOK
  <2>2. Pending(l)' \subseteq Pending(l) /\ pos[l] \in Pending(l)
    BY <1>0, <2>1 DEF Pending, TypeInv, TypeOK
  <2>3. PICK c \in {repo[Dest(l)], Garbage} : repo' = [repo EXCEPT ![Dest(l)] = c]
    BY <1>14 DEF PatchMismatch, Spoil
  <2> QED
    BY <1>w, <2>1, <2>2, <2>3
<1>15. ASSUME NEW l \in Launchers, ApplyPatch(l) \/ WriteFull(l) \/ WriteWrong(l)
       PROVE  PendingBad'
  <2>1. /\ pc[l] \in {"apply", "write"} /\ HasMore(l) /\ pos[l] \in toDownload[l]
        /\ pos[l] \in Nat /\ pos'[l] = pos[l] + 1 /\ arts' = arts
        /\ toDownload' = toDownload /\ toDownload[l] \subseteq Nat
        /\ pc'[l] = "get" /\ unread' = unread
    BY <1>0, <1>15 DEF ApplyPatch, WriteFull, WriteWrong, Goto, Advance, plan, setup,
                       PendingBad, TypeInv, TypeOK, CursorOK
  <2>2. Pending(l)' \subseteq Pending(l) /\ pos[l] \notin Pending(l)'
    BY <2>1 DEF Pending
  <2>3. \E c : repo' = [repo EXCEPT ![Dest(l)] = c]
    BY <1>15 DEF ApplyPatch, WriteFull, WriteWrong, Spoil
  <2> QED
    BY <1>w, <2>1, <2>2, <2>3
<1> QED
  BY <1>1, <1>3, <1>4, <1>5, <1>6, <1>7, <1>8, <1>9, <1>10, <1>s, <1>11, <1>12,
     <1>14, <1>15 DEF Next, Prepare

LEMMA KeptStep ==
  ASSUME Sole, KeptInv, [Next]_vars
  PROVE  KeepsGoodFiles \/ UNCHANGED vars
<1>1. SUFFICES ASSUME NEW l \in Launchers, NEW k \in DOMAIN arts[l],
                      \/ Begin(l) \/ BootstrapFails(l) \/ Prepare(l) \/ Launch(l)
                      \/ Exit(l) \/ Kill(l),
                      repo[arts[l][k].name] = arts[l][k].hash,
                      repo'[arts[l][k].name] # repo[arts[l][k].name]
               PROVE  k \in unread'[l]
  BY DEF Sole, Next, KeepsGoodFiles
<1> DEFINE n == arts[l][k].name
<1>2. TypeInv /\ PendingBad /\ DistinctNames /\ StaleUnneeded
  BY DEF KeptInv
<1>3. CASE pc[l] = "clean" /\ \E f \in stale[l] : repo' = [repo EXCEPT ![f] = Absent]
  <2>1. n \in Needed(arts[l])
    BY DEF Needed
  <2>2. n \notin stale[l]
    BY <1>2, <1>3, <2>1 DEF StaleUnneeded
  <2> QED
    BY <1>1, <1>3, <2>2
<1>4. CASE /\ HasMore(l) /\ \E c : repo' = [repo EXCEPT ![Dest(l)] = c]
           /\ pos[l] \in unread'[l] \/ (pos[l] \in Pending(l) /\ unread' = unread)
  <2>1. CASE k = pos[l]
    BY <1>1, <1>2, <1>4, <2>1 DEF PendingBad
  <2>2. CASE k # pos[l]
    <3>1. n # Dest(l)
      BY <1>2, <1>4, <2>2, CurTyped DEF DistinctNames, Dest, Cur
    <3> QED
      BY <1>1, <1>4, <3>1
  <2> QED
    BY <2>1, <2>2
<1>5. pc[l] \in {"get", "patch", "apply", "full", "write"} /\ pos[l] \in toDownload[l]
        => pos[l] \in Pending(l)
  BY <1>2 DEF Pending, TypeInv, TypeOK
<1>6. pc[l] \in {"patch", "apply", "full", "write"} => pos[l] \in toDownload[l]
  BY <1>2 DEF PendingBad
<1> QED
  BY <1>1, <1>2, <1>3, <1>4, <1>5, <1>6, RepoStep

(* A launcher that is alone never touches a jar that already is what its     *)
(* bootstrap wants: not in clean, not by a patch or a download of another    *)
(* jar, not after its own patch; unless hash() could not read it in this run. *)
THEOREM GoodFilesKeptSafe == Sole /\ DistinctLists => (Spec => GoodFilesKept)
<1> SUFFICES ASSUME Sole, DistinctLists PROVE Spec => GoodFilesKept
  OBVIOUS
<1>1. Init => KeptInv
  BY TypeInit DEF Init, KeptInv, PendingBad, Pending, DistinctNames, StaleUnneeded
<1>2. KeptInv /\ [Next]_vars => KeptInv'
  BY TypeNext, PendingNext, DistinctNext, StaleNext DEF KeptInv
<1>3. KeptInv /\ [Next]_vars => [KeepsGoodFiles]_vars
  BY KeptStep
<1> QED
  BY <1>1, <1>2, <1>3, PTL DEF Spec, GoodFilesKept

LEMMA BaseStep ==
  ASSUME Sole, TypeInv, StaleUnneeded, [Next]_vars
  PROVE  KeepsBases \/ UNCHANGED vars
<1>1. SUFFICES ASSUME NEW l \in Launchers, NEW k \in DOMAIN arts[l],
                      NEW i \in DOMAIN arts[l][k].diffs,
                      \/ Begin(l) \/ BootstrapFails(l) \/ Prepare(l) \/ Launch(l)
                      \/ Exit(l) \/ Kill(l),
                      \A j \in DOMAIN arts[l] : arts[l][j].name # arts[l][k].diffs[i].from
               PROVE  repo'[arts[l][k].diffs[i].from] = repo[arts[l][k].diffs[i].from]
  BY DEF Sole, Next, KeepsBases
<1>2. arts[l][k].diffs[i].from \in Needed(arts[l])
  BY DEF Needed
<1>3. HasMore(l) => Dest(l) # arts[l][k].diffs[i].from
  BY <1>1, CurTyped DEF Dest, Cur
<1>4. pc[l] = "clean" => arts[l][k].diffs[i].from \notin stale[l]
  BY <1>2 DEF StaleUnneeded
<1>5. CASE repo' = repo
  BY <1>5
<1>6. CASE pc[l] = "clean" /\ \E n \in stale[l] : repo' = [repo EXCEPT ![n] = Absent]
  BY <1>4, <1>6
<1>7. CASE HasMore(l) /\ \E c : repo' = [repo EXCEPT ![Dest(l)] = c]
  BY <1>3, <1>7
<1> QED
  <2>1. \/ repo' = repo
        \/ pc[l] = "clean" /\ \E n \in stale[l] : repo' = [repo EXCEPT ![n] = Absent]
        \/ HasMore(l) /\ \E c : repo' = [repo EXCEPT ![Dest(l)] = c]
    BY <1>1, RepoStep
  <2> QED
    BY <1>5, <1>6, <1>7, <2>1

(* An old file that a diff of its bootstrap starts from survives the run of  *)
(* a launcher that is alone, unless it is the file of an artifact itself:    *)
(* clean() keeps it, and no patch or download writes it.                     *)
THEOREM BasesKeptSafe == Sole => (Spec => BasesKept)
<1> SUFFICES ASSUME Sole PROVE Spec => BasesKept
  OBVIOUS
<1> DEFINE Inv == TypeInv /\ StaleUnneeded
<1>1. Init => Inv
  BY TypeInit DEF Init, StaleUnneeded
<1>2. Inv /\ [Next]_vars => Inv'
  BY TypeNext, StaleNext
<1>3. Inv /\ [Next]_vars => [KeepsBases]_vars
  BY BaseStep
<1> QED
  BY <1>1, <1>2, <1>3, PTL DEF Spec, BasesKept
-----------------------------------------------------------------------------
(* The phase of every launcher, and the files it could not read, as           *)
(* VerifiedLauncher sees them.                                               *)
phaseBar == [l \in Launchers |-> PhaseOf(pc[l])]
doubtedBar == [l \in Launchers |-> {arts[l][k].name : k \in unread[l]}]

LEMMA PhaseGoto ==
  ASSUME TypeInv, NEW l \in Launchers, NEW p, Goto(l, p)
  PROVE  phaseBar' = [phaseBar EXCEPT ![l] = PhaseOf(p)]
BY DEF Goto, phaseBar, TypeInv, TypeOK

(* A step of the bookkeeping: nothing that is promised changes.              *)
LEMMA BookkeepingStep ==
  ASSUME TypeInv, NEW l \in Launchers, NEW p,
         pc' = pc \/ (Goto(l, p) /\ PhaseOf(p) = PhaseOf(pc[l])),
         UNCHANGED <<repo, arts, unread, loaded>>
  PROVE  UNCHANGED Promise!vars
<1>1. phaseBar' = phaseBar
  BY PhaseGoto DEF phaseBar
<1>2. doubtedBar' = doubtedBar
  BY DEF doubtedBar
<1> QED
  BY <1>1, <1>2 DEF Promise!vars, phaseBar, doubtedBar

(* A step of one launcher that keeps its list and what it could not read.    *)
LEMMA SameDoubts ==
  ASSUME UNCHANGED <<arts, unread>>
  PROVE  doubtedBar' = doubtedBar
BY DEF doubtedBar

LEMMA PromiseStep ==
  ASSUME Sole, KeptInv, VerifiedPrefix, [Next]_vars
  PROVE  Promise!Next \/ UNCHANGED Promise!vars
<1>0. TypeInv /\ PendingBad
  BY DEF KeptInv
<1>1. CASE UNCHANGED vars
  BY <1>1, SameDoubts DEF vars, Promise!vars, doubtedBar
<1>2. ASSUME NEW l \in Launchers,
             \/ Begin(l) \/ BootstrapFails(l) \/ Prepare(l) \/ Launch(l)
             \/ Exit(l) \/ Kill(l)
      PROVE  Promise!Next \/ UNCHANGED Promise!vars
  <2>p. phaseBar[l] = PhaseOf(pc[l]) /\ pc[l] \in Phases
    BY <1>0 DEF phaseBar, TypeInv, TypeOK
  <2>1. CASE Begin(l)
    <3>1. phaseBar' = [phaseBar EXCEPT ![l] = "removing"] /\ phaseBar[l] = "closed"
      BY <1>0, <2>1, <2>p, PhaseGoto DEF Begin, PhaseOf
    <3>2. doubtedBar' = [doubtedBar EXCEPT ![l] = {}]
      <4>1. \A m \in Launchers \ {l} : arts'[m] = arts[m] /\ unread'[m] = unread[m]
        BY <1>0, <2>1 DEF Begin, TypeInv, TypeOK
      <4>2. unread'[l] = {}
        BY <1>0, <2>1 DEF Begin, TypeInv, TypeOK
      <4> QED
        BY <4>1, <4>2 DEF doubtedBar
    <3>3. Promise!Open(l)
      BY <2>1, <3>1, <3>2 DEF Begin, Promise!Open, Promise!Goto, phaseBar, doubtedBar
    <3> QED
      BY <3>3 DEF Promise!Next
  <2>2. CASE BootstrapFails(l) \/ VerifyFails(l)
    <3>1. phaseBar' = [phaseBar EXCEPT ![l] = "refused"]
          /\ phaseBar[l] \in {"closed", "ready"}
      BY <1>0, <2>2, <2>p, PhaseGoto DEF BootstrapFails, VerifyFails, PhaseOf
    <3>2. UNCHANGED <<repo, arts, unread, loaded>>
      BY <2>2 DEF BootstrapFails, VerifyFails, setup
    <3>3. Promise!Refuse(l)
      BY <3>1, <3>2, SameDoubts DEF Promise!Refuse, Promise!Preparing, Promise!Goto,
                                    phaseBar, doubtedBar
    <3> QED
      BY <3>3 DEF Promise!Next
  <2>3. CASE CleanOne(l)
    <3>1. phaseBar' = phaseBar /\ phaseBar[l] = "removing"
      BY <2>p, <2>3 DEF CleanOne, phaseBar, PhaseOf
    <3>2. repo' = repo \/ \E n \in Names : repo' = [repo EXCEPT ![n] = Absent]
      BY <1>0, <2>3 DEF CleanOne, TypeInv, TypeOK
    <3>3. UNCHANGED <<arts, unread, loaded>>
      BY <2>3 DEF CleanOne, setup
    <3>4. CASE repo' = repo
      BY <3>1, <3>3, <3>4, SameDoubts DEF Promise!vars, phaseBar, doubtedBar
    <3>5. CASE \E n \in Names : repo' = [repo EXCEPT ![n] = Absent]
      <4>1. Promise!Remove(l)
        BY <3>1, <3>3, <3>5, SameDoubts DEF Promise!Remove, phaseBar, doubtedBar
      <4> QED
        BY <4>1 DEF Promise!Next
    <3> QED
      BY <3>2, <3>4, <3>5
  <2>u. CASE Unreadable(l)
    <3>1. phaseBar' = phaseBar /\ phaseBar[l] = "removing"
      <4>1. phaseBar' = [phaseBar EXCEPT ![l] = "removing"]
        BY <1>0, <2>u, PhaseGoto DEF Unreadable, PhaseOf
      <4> QED
        BY <2>p, <2>u, <4>1 DEF Unreadable, phaseBar, PhaseOf
    <3>2. Dest(l) \in Names /\ Dest(l) = arts[l][pos[l]].name
      BY <1>0, <2>u, CurTyped DEF Unreadable, Dest, Cur
    <3>3. doubtedBar' = [doubtedBar EXCEPT ![l] = @ \cup {Dest(l)}]
      <4>1. /\ unread' = [unread EXCEPT ![l] = @ \cup {pos[l]}] /\ arts' = arts
            /\ unread \in [Launchers -> SUBSET Nat]
        BY <1>0, <2>u DEF Unreadable, TypeInv, TypeOK
      <4> QED
        BY <3>2, <4>1 DEF doubtedBar
    <3>4. Promise!Doubt(l)
      BY <2>u, <3>1, <3>2, <3>3 DEF Unreadable, Promise!Doubt, phaseBar, doubtedBar
    <3> QED
      BY <3>4 DEF Promise!Next
  <2>4. CASE ScanDone(l) \/ DownloadDone(l)
    <3>1. \/ /\ phaseBar[l] = "removing"
             /\ phaseBar' = [phaseBar EXCEPT ![l] = "mending"]
          \/ /\ phaseBar[l] = "mending"
             /\ phaseBar' = [phaseBar EXCEPT ![l] = "ready"]
      BY <1>0, <2>4, <2>p, PhaseGoto DEF ScanDone, DownloadDone, PhaseOf
    <3>2. UNCHANGED <<repo, arts, unread, loaded>>
      BY <2>4 DEF ScanDone, DownloadDone, setup
    <3>3. Promise!MoveOn(l)
      BY <3>1, <3>2, SameDoubts DEF Promise!MoveOn, Promise!Goto, phaseBar, doubtedBar
    <3> QED
      BY <3>3 DEF Promise!Next
  <2>5. CASE OpenPatch(l) \/ ApplyPatch(l) \/ PatchMismatch(l) \/ OpenFull(l)
             \/ WriteFull(l) \/ WriteWrong(l) \/ WriteFails(l)
    <3>1. /\ phaseBar[l] = "mending"
          /\ \E p \in {"mending", "refused"} : phaseBar' = [phaseBar EXCEPT ![l] = p]
      BY <1>0, <2>5, <2>p, PhaseGoto
      DEF OpenPatch, ApplyPatch, PatchMismatch, GiveUpPatch, OpenFull, WriteFull,
          WriteWrong, WriteFails, PhaseOf
    <3>2. UNCHANGED <<arts, unread, loaded>>
      BY <2>5 DEF OpenPatch, ApplyPatch, PatchMismatch, OpenFull, WriteFull,
                  WriteWrong, WriteFails, setup
    <3>3. HasMore(l) /\ pos[l] \in toDownload[l]
      BY <1>0, <2>5 DEF OpenPatch, ApplyPatch, PatchMismatch, OpenFull, WriteFull,
                        WriteWrong, WriteFails, PendingBad, TypeInv, CursorOK
    <3>4. Promise!Wrong(arts[l], Dest(l)) \/ Dest(l) \in doubtedBar[l]
      <4>1. pos[l] \in Pending(l)
        BY <1>0, <2>5, <3>3 DEF OpenPatch, ApplyPatch, PatchMismatch, OpenFull, WriteFull,
                    WriteWrong, WriteFails, Pending, TypeInv, TypeOK
      <4> QED
        BY <1>0, <4>1 DEF PendingBad, Promise!Wrong, Dest, Cur, doubtedBar
    <3>5. repo' = repo \/ \E c \in Contents : repo' = [repo EXCEPT ![Dest(l)] = c]
      <4>1. Garbage \in Contents
        BY DEF Contents
      <4> QED
        BY <1>2, <2>5, <3>3, <4>1, <1>0, RepoStep
        DEF OpenPatch, ApplyPatch, PatchMismatch, OpenFull, WriteFull,
            WriteWrong, WriteFails
    <3>6. CASE \E c \in Contents : repo' = [repo EXCEPT ![Dest(l)] = c]
      <4>1. Dest(l) \in Names
        BY <1>0, <3>3, CurTyped
      <4>2. Promise!Mend(l)
        BY <3>1, <3>2, <3>4, <3>6, <4>1, SameDoubts
        DEF Promise!Mend, Promise!Goto, phaseBar, doubtedBar
      <4> QED
        BY <4>2 DEF Promise!Next
    <3>7. CASE repo' = repo
      <4>1. CASE phaseBar' = [phaseBar EXCEPT ![l] = "refused"]
        <5>1. Promise!Refuse(l)
          BY <3>1, <3>2, <3>7, <4>1, SameDoubts
          DEF Promise!Refuse, Promise!Preparing, Promise!Goto, phaseBar, doubtedBar
        <5> QED
          BY <5>1 DEF Promise!Next
      <4>2. CASE phaseBar' = [phaseBar EXCEPT ![l] = "mending"]
        <5>1. phaseBar' = phaseBar
          BY <3>1, <4>2 DEF phaseBar
        <5> QED
          BY <3>2, <3>7, <5>1, SameDoubts DEF Promise!vars, phaseBar, doubtedBar
      <4> QED
        BY <3>1, <4>1, <4>2
    <3> QED
      BY <3>5, <3>6, <3>7
  <2>6. CASE Launch(l)
    <3>1. phaseBar[l] = "ready" /\ phaseBar' = [phaseBar EXCEPT ![l] = "running"]
      BY <1>0, <2>6, <2>p, PhaseGoto DEF Launch, PhaseOf
    <3>2. Promise!Complete(arts[l])
      BY <2>6 DEF Launch, VerifiedPrefix, Promise!Complete
    <3>3. UNCHANGED <<repo, arts, unread>> /\ loaded' = [loaded EXCEPT ![l] = repo]
      BY <2>6 DEF Launch, setup
    <3>4. Promise!Start(l)
      BY <3>1, <3>2, <3>3, SameDoubts
      DEF Promise!Start, Promise!Goto, phaseBar, doubtedBar
    <3> QED
      BY <3>4 DEF Promise!Next
  <2>7. CASE Exit(l) \/ Kill(l)
    <3>1. phaseBar[l] # "closed" /\ phaseBar' = [phaseBar EXCEPT ![l] = "closed"]
      BY <1>0, <2>7, <2>p, PhaseGoto DEF Exit, Kill, Forget, PhaseOf, Running, Phases
    <3>2. doubtedBar' = [doubtedBar EXCEPT ![l] = {}]
      <4>1. \A m \in Launchers \ {l} : arts'[m] = arts[m] /\ unread'[m] = unread[m]
        BY <1>0, <2>7 DEF Exit, Kill, Forget, TypeInv, TypeOK
      <4>2. unread'[l] = {}
        BY <1>0, <2>7 DEF Exit, Kill, Forget, TypeInv, TypeOK
      <4> QED
        BY <4>1, <4>2 DEF doubtedBar
    <3>3. Promise!Close(l)
      BY <2>7, <3>1, <3>2
      DEF Exit, Kill, Forget, Promise!Close, Promise!Goto, phaseBar, doubtedBar
    <3> QED
      BY <3>3 DEF Promise!Next
  <2>8. CASE UpToDate(l) \/ ScanDiff(l) \/ Skip(l) \/ VerifyOne(l)
    BY <1>0, <2>8, BookkeepingStep DEF UpToDate, ScanDiff, Skip, VerifyOne, setup
  <2>9. CASE CleanList(l) \/ CleanDone(l) \/ OutOfDate(l) \/ AddDownload(l)
             \/ FetchDiff(l) \/ VerifyDone(l)
    <3>1. /\ UNCHANGED <<repo, arts, unread, loaded>>
          /\ \E p : Goto(l, p) /\ PhaseOf(p) = PhaseOf(pc[l])
      BY <2>9 DEF CleanList, CleanDone, OutOfDate, AddDownload, FetchDiff, GiveUpPatch,
                  VerifyDone, setup, PhaseOf
    <3> QED
      BY <1>0, <3>1, BookkeepingStep
  <2> QED
    BY <1>2, <2>1, <2>2, <2>3, <2>u, <2>4, <2>5, <2>6, <2>7, <2>8, <2>9 DEF Prepare
<1> QED
  BY <1>1, <1>2 DEF Next

(* Every behaviour of a launcher that is alone is one that VerifiedLauncher   *)
(* allows: through clean, both loops of download, verifyJarHashes and any     *)
(* failure or kill it only removes, then only mends what is wrong or could    *)
(* not be read, then leaves the repository alone, and starts the client on a complete release.  *)
THEOREM PromiseKept == Sole /\ DistinctLists => (Spec => KeepsPromise)
<1> SUFFICES ASSUME Sole, DistinctLists PROVE Spec => KeepsPromise
  OBVIOUS
<1> DEFINE Inv == KeptInv /\ VerifiedInv
<1>1. Init => Inv
  BY TypeInit DEF Init, KeptInv, PendingBad, Pending, DistinctNames, StaleUnneeded,
                  VerifiedInv, VerifiedPrefix, VerifiedLaunch
<1>2. Inv /\ [Next]_vars => Inv'
  BY TypeNext, PendingNext, DistinctNext, StaleNext, VerifiedNext DEF KeptInv, VerifiedInv
<1>3. Init => Promise!Init
  <2>1. Init => doubtedBar = [l \in Launchers |-> {}]
    BY DEF Init, doubtedBar
  <2> QED
    BY <2>1 DEF Init, Promise!Init, PhaseOf, doubtedBar
<1>4. Inv /\ [Next]_vars => [Promise!Next]_(Promise!vars)
  BY PromiseStep DEF VerifiedInv
<1> QED
  BY <1>1, <1>2, <1>3, <1>4, PTL DEF Spec, KeepsPromise, Promise!Spec
-----------------------------------------------------------------------------
(* The arithmetic of the progress bar, on the values of one launcher: its    *)
(* artifacts as, the set ds of those to download, the diffs ch chosen.       *)

(* What the first loop adds to the total for artifact k.                     *)
Planned(as, ds, ch, k) ==
  IF k \notin ds THEN 0
  ELSE IF ch[k] = 0 THEN as[k].size ELSE as[k].diffs[ch[k]].size

(* P sums up the plan for the first n artifacts.                             *)
SumsTo(P, as, ds, ch, n) ==
  /\ P \in [Nat -> Int] /\ P[0] = 0
  /\ \A k \in 1 .. n : P[k] = P[k - 1] + Planned(as, ds, ch, k)

(* The part of the plan behind a launcher in the second loop: once its diff  *)
(* is downloaded, or given up, an artifact is only owed what it takes whole. *)
Behind(P, phase, as, p) ==
  CASE phase = "get"                -> P[p - 1]
    [] phase \in {"patch", "apply"} -> P[p]
    [] OTHER                        -> P[p] - as[p].size

InScan == {"scan", "diffs"}
InGet == {"get", "patch", "apply", "full", "write"}

(* The total is the plan made so far, later the plan and what was added when *)
(* patches were given up; what is missing from it is still ahead.            *)
OnPlan(phase, as, ds, ch, p, tot, dl) ==
  /\ phase \in {"list", "clean"} => tot = 0 /\ dl = 0 /\ ds = {}
  /\ phase \in InScan =>
       /\ dl = 0 /\ ds \subseteq 1 .. (p - 1) /\ p <= Len(as) + 1
       /\ \E P : SumsTo(P, as, ds, ch, p - 1) /\ tot = P[p - 1]
  /\ phase \in InGet =>
       /\ p <= Len(as) + 1
       /\ \E P : /\ SumsTo(P, as, ds, ch, Len(as))
                 /\ tot - dl <= P[Len(as)] - Behind(P, phase, as, p)
  /\ phase = "verify" => dl >= tot

Progress(l) ==
  OnPlan(pc[l], arts[l], toDownload[l], chosen[l], pos[l], total[l], downloaded[l])

ProgressInv == TypeInv /\ (faults = 0 => \A l \in Launchers : Progress(l))

LEMMA PlannedTyped ==
  ASSUME TypeInv, NEW l \in Launchers, NEW k \in 1 .. Len(arts[l])
  PROVE  Planned(arts[l], toDownload[l], chosen[l], k) \in Nat
<1>1. arts[l] \in Seq(Artifact) /\ chosen[l][k] \in 0 .. Len(arts[l][k].diffs)
  BY DEF TypeInv, TypeOK, ChosenOK
<1>2. arts[l][k] \in Artifact
  BY <1>1
<1>3. arts[l][k].size \in Nat /\ arts[l][k].diffs \in Seq(Diff)
  BY <1>2 DEF Artifact
<1>4. chosen[l][k] # 0 => arts[l][k].diffs[chosen[l][k]] \in Diff
  BY <1>1, <1>3
<1> QED
  BY <1>3, <1>4 DEF Planned, Diff

(* The plan for one artifact more.                                           *)
LEMMA PlanOneMore ==
  ASSUME NEW as, NEW ds, NEW ch, NEW p \in Nat \ {0}, NEW P,
         SumsTo(P, as, ds, ch, p - 1),
         Planned(as, ds, ch, p) \in Int
  PROVE  \E Q : SumsTo(Q, as, ds, ch, p) /\ Q[p] = P[p - 1] + Planned(as, ds, ch, p)
<1>0. PICK size \in Int : size = Planned(as, ds, ch, p)
  OBVIOUS
<1> DEFINE Q == [P EXCEPT ![p] = P[p - 1] + size]
<1>1. Q \in [Nat -> Int] /\ Q[0] = 0 /\ Q[p] = P[p - 1] + size /\ Q[p - 1] = P[p - 1]
  BY DEF SumsTo
<1>2. ASSUME NEW k \in 1 .. p
      PROVE  Q[k] = Q[k - 1] + Planned(as, ds, ch, k)
  <2>1. CASE k = p
    BY <1>0, <1>1, <2>1
  <2>2. CASE k # p
    <3>1. k \in 1 .. (p - 1) /\ Q[k] = P[k] /\ Q[k - 1] = P[k - 1]
      BY <2>2 DEF SumsTo
    <3> QED
      BY <3>1 DEF SumsTo
  <2> QED
    BY <2>1, <2>2
<1> QED
  BY <1>0, <1>1, <1>2 DEF SumsTo

(* A diff is downloaded; a patch is given up for the whole artifact.         *)
LEMMA PaidArithmetic ==
  ASSUME NEW t \in Int, NEW dl \in Int, NEW all \in Int, NEW behind \in Int, NEW d \in Int,
         t - dl <= all - behind
  PROVE  t - (dl + d) <= all - (behind + d)
OBVIOUS

LEMMA GiveUpArithmetic ==
  ASSUME NEW t \in Int, NEW dl \in Int, NEW all \in Int, NEW behind \in Int,
         NEW c \in Int, NEW d \in Int, d >= 0,
         t - dl <= all - behind
  PROVE  (t - d + c) - dl <= all - (behind - c)
OBVIOUS

(* Every step of any launcher keeps every launcher on its plan.              *)
LEMMA ProgressStep ==
  ASSUME TypeInv, [Next]_vars, faults = 0, \A m \in Launchers : Progress(m), faults' = 0,
         NEW m \in Launchers
  PROVE  Progress(m)'
<1>0. /\ pc \in [Launchers -> Phases] /\ arts \in [Launchers -> Seq(Artifact)]
      /\ toDownload \in [Launchers -> SUBSET Nat] /\ chosen \in [Launchers -> Seq(Nat)]
      /\ pos \in [Launchers -> Nat \ {0}] /\ total \in [Launchers -> Int]
      /\ downloaded \in [Launchers -> Nat] /\ Len(arts[m]) \in Nat
  BY DEF TypeInv, TypeOK
<1>1. ~Fault
  BY DEF Fault
<1> DEFINE Kept == UNCHANGED <<pc[m], arts[m], toDownload[m], chosen[m], pos[m], total[m],
                               downloaded[m]>>
<1>2. Kept => Progress(m)'
  BY DEF Progress
<1>3. Progress(m)
  OBVIOUS
<1> USE DEF Goto, Advance, Rewind, plan, setup
<1>others. ASSUME NEW l \in Launchers, l # m,
                  \/ Begin(l) \/ BootstrapFails(l) \/ Prepare(l) \/ Launch(l)
                  \/ Exit(l) \/ Kill(l)
           PROVE  Kept
  <2>1. CASE Begin(l) \/ Launch(l)
    BY <1>0, <1>others, <2>1 DEF Begin, Launch
  <2>2. CASE CleanList(l) \/ CleanOne(l) \/ CleanDone(l) \/ UpToDate(l) \/ OutOfDate(l)
    BY <1>0, <1>others, <2>2 DEF CleanList, CleanOne, CleanDone, UpToDate, OutOfDate
  <2>3. CASE ScanDiff(l) \/ AddDownload(l) \/ ScanDone(l) \/ Skip(l)
    BY <1>0, <1>others, <2>3 DEF ScanDiff, AddDownload, ScanDone, Skip
  <2>4. CASE FetchDiff(l) \/ OpenPatch(l) \/ ApplyPatch(l) \/ PatchMismatch(l)
    BY <1>0, <1>others, <2>4 DEF FetchDiff, OpenPatch, ApplyPatch, PatchMismatch, GiveUpPatch
  <2>5. CASE OpenFull(l) \/ WriteFull(l) \/ DownloadDone(l) \/ VerifyOne(l) \/ VerifyDone(l)
    BY <1>0, <1>others, <2>5 DEF OpenFull, WriteFull, DownloadDone, VerifyOne, VerifyDone
  <2>6. CASE VerifyFails(l) \/ Exit(l)
    BY <1>0, <1>others, <2>6 DEF VerifyFails, Exit, Forget
  <2>7. CASE BootstrapFails(l) \/ Unreadable(l) \/ WriteWrong(l) \/ WriteFails(l) \/ Kill(l)
    BY <1>1, <2>7 DEF BootstrapFails, Unreadable, WriteWrong, WriteFails, Kill
  <2> QED
    BY <1>others, <2>1, <2>2, <2>3, <2>4, <2>5, <2>6, <2>7 DEF Prepare
<1>Begin. CASE Begin(m)
  <2>1. /\ pc'[m] = "list" /\ total'[m] = 0 /\ downloaded'[m] = 0 /\ toDownload'[m] = {}
    BY <1>0, <1>Begin DEF Begin
  <2> QED
    BY <2>1 DEF Progress, OnPlan, InScan, InGet
<1>over. ASSUME pc'[m] \in {"idle", "launch", "launched", "failed"}
         PROVE  Progress(m)'
  BY <1>over DEF Progress, OnPlan, InScan, InGet
<1>CleanList. CASE CleanList(m) \/ CleanOne(m)
  <2>1. /\ pc[m] \in {"list", "clean"} /\ pc'[m] = "clean"
        /\ UNCHANGED <<arts[m], toDownload[m], chosen[m], pos[m], total[m], downloaded[m]>>
    BY <1>0, <1>CleanList DEF CleanList, CleanOne
  <2> QED
    BY <1>3, <2>1 DEF Progress, OnPlan, InScan, InGet
<1>CleanDone. CASE CleanDone(m)
  <2>1. /\ pc[m] = "clean" /\ pc'[m] = "scan" /\ pos'[m] = 1
        /\ UNCHANGED <<arts[m], toDownload[m], chosen[m], total[m], downloaded[m]>>
    BY <1>0, <1>CleanDone DEF CleanDone
  <2>2. total[m] = 0 /\ downloaded[m] = 0 /\ toDownload[m] = {}
    BY <1>3, <2>1 DEF Progress, OnPlan
  <2> DEFINE Z == [k \in Nat |-> 0]
  <2>3. SumsTo(Z, arts[m], toDownload[m], chosen[m], 0) /\ Z[0] = 0
    BY DEF SumsTo
  <2> QED
    BY <1>0, <2>1, <2>2, <2>3 DEF Progress, OnPlan, InScan, InGet
<1>UpToDate. CASE UpToDate(m)
  <2>1. /\ pc[m] = "scan" /\ pc'[m] = "scan" /\ pos'[m] = pos[m] + 1 /\ pos[m] <= Len(arts[m])
        /\ UNCHANGED <<arts[m], toDownload[m], chosen[m], total[m], downloaded[m]>>
    BY <1>0, <1>UpToDate DEF UpToDate, HasMore
  <2>2. PICK P : /\ SumsTo(P, arts[m], toDownload[m], chosen[m], pos[m] - 1)
                 /\ total[m] = P[pos[m] - 1]
    BY <1>3, <2>1 DEF Progress, OnPlan, InScan
  <2>3. downloaded[m] = 0 /\ toDownload[m] \subseteq 1 .. (pos[m] - 1)
    BY <1>3, <2>1 DEF Progress, OnPlan, InScan
  <2>4. Planned(arts[m], toDownload[m], chosen[m], pos[m]) = 0
    BY <1>0, <2>3 DEF Planned
  <2>5. \E Q : /\ SumsTo(Q, arts[m], toDownload[m], chosen[m], pos[m])
               /\ Q[pos[m]] = P[pos[m] - 1] + 0
    <3>1. pos[m] \in Nat \ {0}
      BY <1>0
    <3> QED
      BY <2>2, <2>4, <3>1, PlanOneMore
  <2>6. P[pos[m] - 1] \in Int
    BY <1>0, <2>2 DEF SumsTo
  <2>7. toDownload[m] \subseteq 1 .. (pos'[m] - 1) /\ pos'[m] <= Len(arts[m]) + 1
        /\ pos'[m] - 1 = pos[m]
    BY <1>0, <2>1, <2>3
  <2> QED
    BY <2>1, <2>2, <2>3, <2>5, <2>6, <2>7 DEF Progress, OnPlan, InScan, InGet
<1>OutOfDate. CASE OutOfDate(m)
  <2>1. /\ pc[m] = "scan" /\ pc'[m] = "diffs"
        /\ UNCHANGED <<arts[m], toDownload[m], chosen[m], pos[m], total[m], downloaded[m]>>
    BY <1>0, <1>OutOfDate DEF OutOfDate
  <2> QED
    BY <1>3, <2>1 DEF Progress, OnPlan, InScan, InGet
<1>ScanDiff. CASE ScanDiff(m)
  <2>1. /\ pc[m] = "diffs" /\ pc'[m] = "diffs" /\ \A k \in 1 .. (pos[m] - 1) : chosen'[m][k] = chosen[m][k]
        /\ UNCHANGED <<arts[m], toDownload[m], pos[m], total[m], downloaded[m]>>
    BY <1>0, <1>ScanDiff DEF ScanDiff
  <2>2. \A P : SumsTo(P, arts[m], toDownload[m], chosen[m], pos[m] - 1)
                => SumsTo(P, arts[m], toDownload[m], chosen'[m], pos[m] - 1)
    BY <2>1 DEF SumsTo, Planned
  <2> QED
    BY <1>3, <2>1, <2>2 DEF Progress, OnPlan, InScan, InGet
<1>AddDownload. CASE AddDownload(m)
  <2> DEFINE es == toDownload[m] \cup {pos[m]}
  <2>1. /\ pc[m] = "diffs" /\ pc'[m] = "scan" /\ pos'[m] = pos[m] + 1
        /\ toDownload'[m] = es /\ total'[m] = total[m] + DownloadSize(m)
        /\ UNCHANGED <<arts[m], chosen[m], downloaded[m]>>
    BY <1>0, <1>AddDownload DEF AddDownload
  <2>2. PICK P : /\ SumsTo(P, arts[m], toDownload[m], chosen[m], pos[m] - 1)
                 /\ total[m] = P[pos[m] - 1]
    BY <1>3, <2>1 DEF Progress, OnPlan, InScan
  <2>3. downloaded[m] = 0 /\ toDownload[m] \subseteq 1 .. (pos[m] - 1) /\ HasMore(m)
    BY <1>3, <2>1 DEF Progress, OnPlan, InScan, TypeInv, CursorOK
  <2>4. DownloadSize(m) \in Int
    BY <2>3, CurTyped, CurDiffTyped DEF DownloadSize
  <2>5. Planned(arts[m], es, chosen[m], pos[m]) = DownloadSize(m)
    BY DEF Planned, DownloadSize, Cur, CurDiff
  <2>6. \E Q : /\ SumsTo(Q, arts[m], es, chosen[m], pos[m])
               /\ Q[pos[m]] = P[pos[m] - 1] + DownloadSize(m)
    <3>1. SumsTo(P, arts[m], es, chosen[m], pos[m] - 1)
      <4>1. \A k \in 1 .. (pos[m] - 1) : k # pos[m] /\ (k \in toDownload[m] <=> k \in es)
        BY <1>0
      <4> HIDE DEF es
      <4>2. \A k \in 1 .. (pos[m] - 1) :
              Planned(arts[m], toDownload[m], chosen[m], k) = Planned(arts[m], es, chosen[m], k)
        BY <4>1 DEF Planned
      <4> QED
        BY <2>2, <4>2 DEF SumsTo
    <3>2. pos[m] \in Nat \ {0}
      BY <1>0
    <3> HIDE DEF es
    <3> QED
      BY <2>4, <2>5, <3>1, <3>2, PlanOneMore
  <2>7. es \subseteq 1 .. (pos'[m] - 1) /\ pos'[m] <= Len(arts[m]) + 1
        /\ pos'[m] - 1 = pos[m]
    BY <1>0, <2>1, <2>3 DEF HasMore
  <2> HIDE DEF es
  <2> QED
    BY <2>1, <2>2, <2>3, <2>6, <2>7 DEF Progress, OnPlan, InScan, InGet
<1>ScanDone. CASE ScanDone(m)
  <2>1. /\ pc[m] = "scan" /\ pc'[m] = "get" /\ pos'[m] = 1 /\ ~HasMore(m)
        /\ UNCHANGED <<arts[m], toDownload[m], chosen[m], total[m], downloaded[m]>>
    BY <1>0, <1>ScanDone DEF ScanDone
  <2>2. PICK P : /\ SumsTo(P, arts[m], toDownload[m], chosen[m], pos[m] - 1)
                 /\ total[m] = P[pos[m] - 1]
    BY <1>3, <2>1 DEF Progress, OnPlan, InScan
  <2>3. downloaded[m] = 0 /\ pos[m] - 1 = Len(arts[m])
    BY <1>0, <1>3, <2>1 DEF Progress, OnPlan, InScan, HasMore
  <2>4. total[m] - downloaded[m] <= P[Len(arts[m])] - P[1 - 1]
    BY <1>0, <2>2, <2>3 DEF SumsTo
  <2> QED
    BY <1>0, <2>1, <2>2, <2>3, <2>4 DEF Progress, OnPlan, InScan, InGet, Behind

<1>typed. \A k \in 1 .. Len(arts[m]) :
            Planned(arts[m], toDownload[m], chosen[m], k) \in Nat
  BY PlannedTyped
<1> DEFINE n == Len(arts[m])
           p == pos[m]
           Owed(P) == /\ SumsTo(P, arts[m], toDownload[m], chosen[m], n)
                      /\ total[m] - downloaded[m] <= P[n] - Behind(P, pc[m], arts[m], p)
                      /\ P[n] \in Int /\ P[p - 1] \in Int
                      /\ HasMore(m) =>
                           /\ P[p] \in Int
                           /\ P[p] = P[p - 1] + Planned(arts[m], toDownload[m], chosen[m], p)
<1>get. ASSUME pc[m] \in InGet
        PROVE  p <= n + 1 /\ \E P : Owed(P)
  <2>1. PICK P : /\ SumsTo(P, arts[m], toDownload[m], chosen[m], n)
                 /\ total[m] - downloaded[m] <= P[n] - Behind(P, pc[m], arts[m], p)
    BY <1>3, <1>get DEF Progress, OnPlan
  <2>2. p <= n + 1
    BY <1>3, <1>get DEF Progress, OnPlan
  <2>3. P[n] \in Int /\ P[p - 1] \in Int /\ P[p] \in Int
    BY <1>0, <2>1 DEF SumsTo
  <2>4. HasMore(m) => p \in 1 .. n
    BY <1>0 DEF HasMore
  <2> QED
    BY <2>1, <2>2, <2>3, <2>4 DEF SumsTo
<1>int. total[m] \in Int /\ downloaded[m] \in Int /\ n \in Nat /\ p \in Nat \ {0}
  BY <1>0
(* It is enough that the plan stays and that what is owed covers the rest.   *)
<1>goes. ASSUME pc'[m] \in InGet, pos'[m] <= Len(arts[m]) + 1,
                UNCHANGED <<arts[m], toDownload[m], chosen[m]>>,
                \E P : /\ SumsTo(P, arts[m], toDownload[m], chosen[m], Len(arts[m]))
                       /\ total'[m] - downloaded'[m]
                            <= P[Len(arts[m])] - Behind(P, pc'[m], arts[m], pos'[m])
         PROVE  Progress(m)'
  BY <1>goes DEF Progress, OnPlan, InScan, InGet
<1>Skip. CASE Skip(m)
  <2>1. /\ pc[m] = "get" /\ pc'[m] = "get" /\ pos'[m] = p + 1 /\ HasMore(m)
        /\ p \notin toDownload[m]
        /\ UNCHANGED <<arts[m], toDownload[m], chosen[m], total[m], downloaded[m]>>
    BY <1>0, <1>Skip DEF Skip
  <2>2. Planned(arts[m], toDownload[m], chosen[m], p) = 0
    BY <2>1 DEF Planned
  <2>3. p <= n /\ pos'[m] - 1 = p
    BY <1>0, <2>1 DEF HasMore
  <2>4. PICK P : Owed(P)
    BY <1>get, <2>1 DEF InGet
  <2>5. Behind(P, pc[m], arts[m], p) = P[p - 1] /\ Behind(P, pc'[m], arts[m], pos'[m]) = P[p]
    BY <2>1, <2>3 DEF Behind
  <2>6. total'[m] - downloaded'[m] <= P[n] - Behind(P, pc'[m], arts[m], pos'[m])
    BY <1>int, <2>1, <2>2, <2>4, <2>5
  <2> QED
    BY <1>goes, <1>int, <2>1, <2>3, <2>4, <2>6 DEF InGet
<1>cur. ASSUME HasMore(m)
        PROVE  /\ Cur(m).size \in Int /\ Cur(m).size = arts[m][p].size /\ p <= n + 1
               /\ p \in toDownload[m] =>
                    Planned(arts[m], toDownload[m], chosen[m], p)
                      = IF chosen[m][p] = 0 THEN Cur(m).size ELSE CurDiff(m).size
               /\ chosen[m][p] # 0 => CurDiff(m).size \in Int /\ CurDiff(m).size >= 0
  BY <1>0, <1>cur, CurTyped, CurDiffTyped DEF HasMore, Cur, CurDiff, Planned
<1>FetchDiff. CASE FetchDiff(m)
  <2>1. /\ pc[m] = "get" /\ pc'[m] = "patch" /\ HasMore(m)
        /\ p \in toDownload[m] /\ chosen[m][p] # 0
        /\ downloaded'[m] = downloaded[m] + CurDiff(m).size
        /\ UNCHANGED <<arts[m], toDownload[m], chosen[m], pos[m], total[m]>>
    BY <1>0, <1>1, <1>FetchDiff DEF FetchDiff
  <2>2. PICK P : Owed(P)
    BY <1>get, <2>1 DEF InGet
  <2>3. Behind(P, pc[m], arts[m], p) = P[p - 1] /\ Behind(P, pc'[m], arts[m], pos'[m]) = P[p]
    BY <2>1 DEF Behind
  <2>4. P[p] = P[p - 1] + CurDiff(m).size /\ CurDiff(m).size \in Int
    BY <1>cur, <2>1, <2>2
  <2>5. P[n] \in Int /\ P[p - 1] \in Int /\ total[m] - downloaded[m] <= P[n] - P[p - 1]
    BY <2>2, <2>3
  <2>6. total'[m] - downloaded'[m] <= P[n] - Behind(P, pc'[m], arts[m], pos'[m])
    <3> HIDE DEF n, p, Owed
    <3>1. total[m] - (downloaded[m] + CurDiff(m).size) <= P[n] - (P[p - 1] + CurDiff(m).size)
      BY <1>int, <2>4, <2>5, PaidArithmetic
    <3> QED
      BY <2>1, <2>3, <2>4, <3>1
  <2> QED
    BY <1>goes, <1>cur, <2>1, <2>2, <2>6 DEF InGet
<1>OpenPatch. CASE OpenPatch(m)
  <2>1. /\ pc[m] = "patch" /\ pc'[m] = "apply"
        /\ UNCHANGED <<arts[m], toDownload[m], chosen[m], pos[m], total[m], downloaded[m]>>
    BY <1>0, <1>1, <1>OpenPatch DEF OpenPatch
  <2> QED
    BY <1>3, <2>1 DEF Progress, OnPlan, InScan, InGet, Behind
<1>ApplyPatch. CASE ApplyPatch(m)
  <2>1. /\ pc[m] = "apply" /\ pc'[m] = "get" /\ pos'[m] = pos[m] + 1
        /\ UNCHANGED <<arts[m], toDownload[m], chosen[m], total[m], downloaded[m]>>
    BY <1>0, <1>ApplyPatch DEF ApplyPatch
  <2>2. HasMore(m)
    BY <2>1 DEF TypeInv, CursorOK
  <2>3. pos'[m] - 1 = pos[m] /\ pos'[m] <= Len(arts[m]) + 1
    BY <1>0, <2>1, <2>2 DEF HasMore
  <2> QED
    BY <1>3, <2>1, <2>3 DEF Progress, OnPlan, InScan, InGet, Behind
<1>PatchMismatch. CASE PatchMismatch(m)
  <2>1. /\ pc[m] = "apply" /\ pc'[m] = "full"
        /\ total'[m] = total[m] - CurDiff(m).size + Cur(m).size
        /\ UNCHANGED <<arts[m], toDownload[m], chosen[m], pos[m], downloaded[m]>>
    BY <1>0, <1>PatchMismatch DEF PatchMismatch, GiveUpPatch
  <2>2. HasMore(m) /\ chosen[m][p] # 0
    BY <2>1 DEF TypeInv, CursorOK
  <2>3. PICK P : Owed(P)
    BY <1>get, <2>1 DEF InGet
  <2>4. /\ Behind(P, pc[m], arts[m], p) = P[p]
        /\ Behind(P, pc'[m], arts[m], pos'[m]) = P[p] - Cur(m).size
    BY <1>cur, <2>1, <2>2 DEF Behind
  <2>5. CurDiff(m).size \in Int /\ CurDiff(m).size >= 0 /\ Cur(m).size \in Int
    BY <1>cur, <2>2
  <2>6. P[p] \in Int /\ P[n] \in Int /\ total[m] - downloaded[m] <= P[n] - P[p]
    BY <2>2, <2>3, <2>4
  <2>9. total'[m] - downloaded'[m] <= P[n] - (P[p] - Cur(m).size)
    <3> HIDE DEF n, p, Owed
    <3>1. (total[m] - CurDiff(m).size + Cur(m).size) - downloaded[m]
            <= P[n] - (P[p] - Cur(m).size)
      BY <1>int, <2>5, <2>6, GiveUpArithmetic
    <3> QED
      BY <2>1, <3>1
  <2> QED
    BY <1>goes, <1>cur, <2>1, <2>2, <2>3, <2>4, <2>9 DEF InGet
<1>OpenFull. CASE OpenFull(m)
  <2>1. /\ pc'[m] = "write"
        /\ UNCHANGED <<arts[m], toDownload[m], chosen[m], pos[m], total[m], downloaded[m]>>
    BY <1>0, <1>1, <1>OpenFull DEF OpenFull
  <2>2. CASE pc[m] = "full"
    BY <1>3, <2>1, <2>2 DEF Progress, OnPlan, InScan, InGet, Behind
  <2>3. CASE /\ pc[m] = "get" /\ HasMore(m)
             /\ pos[m] \in toDownload[m] /\ chosen[m][pos[m]] = 0
    <3>1. PICK P : Owed(P)
      BY <1>get, <2>3 DEF InGet
    <3>2. /\ Behind(P, pc[m], arts[m], p) = P[p - 1]
          /\ Behind(P, pc'[m], arts[m], pos'[m]) = P[p] - Cur(m).size
      BY <1>cur, <2>1, <2>3 DEF Behind
    <3>3. P[p] = P[p - 1] + Cur(m).size /\ Cur(m).size \in Int
      BY <1>cur, <2>3, <3>1
    <3>4. total'[m] - downloaded'[m] <= P[n] - Behind(P, pc'[m], arts[m], pos'[m])
      BY <1>int, <2>1, <3>1, <3>2, <3>3
    <3> QED
      BY <1>goes, <1>cur, <2>1, <2>3, <3>1, <3>4 DEF InGet
  <2> QED
    BY <1>OpenFull, <2>2, <2>3 DEF OpenFull
<1>WriteFull. CASE WriteFull(m)
  <2>1. /\ pc[m] = "write" /\ pc'[m] = "get" /\ pos'[m] = p + 1
        /\ downloaded'[m] = downloaded[m] + Cur(m).size
        /\ UNCHANGED <<arts[m], toDownload[m], chosen[m], total[m]>>
    BY <1>0, <1>WriteFull DEF WriteFull
  <2>2. HasMore(m)
    BY <2>1 DEF TypeInv, CursorOK
  <2>3. PICK P : Owed(P)
    BY <1>get, <2>1 DEF InGet
  <2>4. pos'[m] - 1 = p /\ pos'[m] <= n + 1
    BY <1>0, <2>1, <2>2 DEF HasMore
  <2>5. /\ Behind(P, pc[m], arts[m], p) = P[p] - Cur(m).size
        /\ Behind(P, pc'[m], arts[m], pos'[m]) = P[p]
    BY <1>cur, <2>1, <2>2, <2>4 DEF Behind
  <2>6. /\ P[p] \in Int /\ P[n] \in Int /\ Cur(m).size \in Int
        /\ total[m] - downloaded[m] <= P[n] - (P[p] - Cur(m).size)
    BY <1>cur, <2>2, <2>3, <2>5
  <2>7. total'[m] - downloaded'[m] <= P[n] - P[p]
    BY <1>int, <2>1, <2>6
  <2> QED
    BY <1>goes, <2>1, <2>3, <2>4, <2>5, <2>7 DEF InGet
<1>DownloadDone. CASE DownloadDone(m)
  <2>1. /\ pc[m] = "get" /\ pc'[m] = "verify" /\ ~HasMore(m)
        /\ UNCHANGED <<arts[m], toDownload[m], chosen[m], total[m], downloaded[m]>>
    BY <1>0, <1>DownloadDone DEF DownloadDone
  <2>2. p - 1 = n
    BY <1>0, <1>get, <2>1 DEF HasMore, InGet
  <2>3. PICK P : Owed(P)
    BY <1>get, <2>1 DEF InGet
  <2>4. Behind(P, pc[m], arts[m], p) = P[n]
    BY <2>1, <2>2 DEF Behind
  <2>5. downloaded[m] >= total[m]
    BY <1>int, <2>3, <2>4
  <2> QED
    BY <2>1, <2>5 DEF Progress, OnPlan, InScan, InGet
<1>VerifyOne. CASE VerifyOne(m)
  <2>1. pc[m] = "verify" /\ pc'[m] = "verify" /\ UNCHANGED <<total[m], downloaded[m]>>
    BY <1>0, <1>VerifyOne DEF VerifyOne
  <2> QED
    BY <1>3, <2>1 DEF Progress, OnPlan, InScan, InGet
<1>end. CASE VerifyFails(m) \/ VerifyDone(m) \/ Launch(m) \/ Exit(m)
  <2>1. pc'[m] \in {"idle", "launch", "launched", "failed"}
    BY <1>0, <1>end DEF VerifyFails, VerifyDone, Launch, Exit, Forget
  <2> QED
    BY <1>over, <2>1
<1>fault. ~(\/ BootstrapFails(m) \/ Unreadable(m) \/ WriteWrong(m) \/ WriteFails(m)
            \/ Kill(m))
  BY <1>1 DEF BootstrapFails, Unreadable, WriteWrong, WriteFails, Kill
<1>stutter. UNCHANGED vars => Kept
  BY DEF vars
<1>m. CASE Begin(m) \/ BootstrapFails(m) \/ Prepare(m) \/ Launch(m) \/ Exit(m) \/ Kill(m)
  BY <1>m, <1>Begin, <1>CleanList, <1>CleanDone, <1>UpToDate, <1>OutOfDate, <1>ScanDiff,
     <1>AddDownload, <1>ScanDone, <1>Skip, <1>FetchDiff, <1>OpenPatch, <1>ApplyPatch,
     <1>PatchMismatch, <1>OpenFull, <1>WriteFull, <1>DownloadDone, <1>VerifyOne, <1>end,
     <1>fault
  DEF Prepare
<1> QED
  BY <1>2, <1>others, <1>stutter, <1>m DEF Next

(* "Adjust the download size for the difference": if nothing fails, what was *)
(* downloaded adds up to at least the total, for any artifacts and sizes,    *)
(* and any number of launchers at work on the same files.                    *)
THEOREM ProgressCompleteSafe == Spec => []ProgressComplete
<1>1. Init => ProgressInv
  BY TypeInit DEF Init, ProgressInv, Progress, OnPlan, InScan, InGet
<1>2. ASSUME ProgressInv, [Next]_vars PROVE ProgressInv'
  <2>1. TypeInv'
    BY <1>2, TypeNext DEF ProgressInv
  <2>2. faults \in Nat /\ faults' \in {faults, faults + 1}
    <3>1. faults \in Nat
      BY <1>2 DEF ProgressInv, TypeInv, TypeOK
    <3> QED
      BY <1>2, <3>1
      DEF Next, Prepare, Begin, BootstrapFails, CleanList, CleanOne, CleanDone, UpToDate,
          OutOfDate, Unreadable, ScanDiff, AddDownload, ScanDone, Skip, FetchDiff, OpenPatch,
          ApplyPatch, PatchMismatch, OpenFull, WriteFull, WriteWrong, WriteFails,
          DownloadDone, VerifyOne, VerifyFails, VerifyDone, Launch, Exit, Kill, Fault, vars
  <2>3. ASSUME faults' = 0, NEW m \in Launchers PROVE Progress(m)'
    BY <1>2, <2>2, <2>3, ProgressStep DEF ProgressInv
  <2> QED
    BY <2>1, <2>3 DEF ProgressInv
<1>3. ProgressInv => ProgressComplete
  BY DEF ProgressInv, ProgressComplete, Progress, OnPlan
<1> QED
  BY <1>1, <1>2, <1>3, PTL DEF Spec

-----------------------------------------------------------------------------
(* Launchers side by side that all get the same bootstrap.                   *)
OneBootstrap == \A b, c \in Bootstraps : b = c

ListsOffered ==
  \A l \in Launchers :
    /\ arts[l] \in Bootstraps \cup {<<>>}
    /\ pc[l] \in Running => arts[l] \in Bootstraps

(* This launcher will leave file n as it should be: it has the last word in  *)
(* it, or has given up patching it and is about to download it whole.        *)
Mends(m, n) ==
  /\ Dest(m) = n
  /\ (Writing(m) /\ ~truncated[m]) \/ pc[m] = "full"

Settled(n, h) == repo[n] = h \/ \E m \in Launchers : Mends(m, n)

(* What was verified is as it was, or somebody at work on it will mend it.   *)
Due(l, k) == (pc[l] = "verify" /\ k < pos[l]) \/ pc[l] \in {"launch", "launched"}

VerifiedSettled ==
  \A l \in Launchers : \A k \in DOMAIN arts[l] :
    Due(l, k) => Settled(arts[l][k].name, arts[l][k].hash)

SharedInv ==
  /\ TypeInv /\ DistinctNames /\ StaleUnneeded /\ ListsOffered
  /\ faults = 0 => VerifiedSettled

Act(l) == Begin(l) \/ BootstrapFails(l) \/ Prepare(l) \/ Launch(l) \/ Exit(l) \/ Kill(l)

(* What a launcher does leaves the memory of the others alone.               *)
LEMMA OthersKept ==
  ASSUME TypeInv, NEW l \in Launchers, NEW m \in Launchers, m # l, Act(l)
  PROVE  UNCHANGED <<pc[m], arts[m], pos[m], stale[m]>>
<1>0. /\ pc \in [Launchers -> Phases] /\ arts \in [Launchers -> Seq(Artifact)]
      /\ pos \in [Launchers -> Nat \ {0}] /\ stale \in [Launchers -> SUBSET Names]
  BY DEF TypeInv, TypeOK
<1> USE DEF Goto, Advance, Rewind, plan, setup
<1>1. CASE Begin(l) \/ BootstrapFails(l) \/ Launch(l)
  BY <1>0, <1>1 DEF Begin, BootstrapFails, Launch
<1>2. CASE Exit(l) \/ Kill(l)
  BY <1>0, <1>2 DEF Exit, Kill, Forget
<1>3. CASE CleanList(l) \/ CleanOne(l) \/ CleanDone(l) \/ UpToDate(l) \/ OutOfDate(l)
           \/ Unreadable(l)
  BY <1>0, <1>3 DEF CleanList, CleanOne, CleanDone, UpToDate, OutOfDate, Unreadable
<1>4. CASE ScanDiff(l) \/ AddDownload(l) \/ ScanDone(l) \/ Skip(l) \/ FetchDiff(l)
  BY <1>0, <1>4 DEF ScanDiff, AddDownload, ScanDone, Skip, FetchDiff, GiveUpPatch
<1>5. CASE OpenPatch(l) \/ ApplyPatch(l) \/ PatchMismatch(l) \/ OpenFull(l)
  BY <1>0, <1>5 DEF OpenPatch, ApplyPatch, PatchMismatch, OpenFull, GiveUpPatch
<1>6. CASE WriteFull(l) \/ WriteWrong(l) \/ WriteFails(l) \/ DownloadDone(l)
           \/ VerifyOne(l) \/ VerifyFails(l) \/ VerifyDone(l)
  BY <1>0, <1>6 DEF WriteFull, WriteWrong, WriteFails, DownloadDone, VerifyOne, VerifyFails,
     VerifyDone
<1> QED
  BY <1>1, <1>2, <1>3, <1>4, <1>5, <1>6 DEF Act, Prepare

LEMMA StaleAlways ==
  ASSUME TypeInv, StaleUnneeded, [Next]_vars
  PROVE  StaleUnneeded'
<1> SUFFICES ASSUME NEW m \in Launchers, pc'[m] = "clean"
             PROVE  stale'[m] \cap Needed(arts'[m]) = {}
  BY DEF StaleUnneeded, Needed
<1>0. pc \in [Launchers -> Phases] /\ stale \in [Launchers -> SUBSET Names]
  BY DEF TypeInv, TypeOK
<1>1. CASE UNCHANGED vars
  BY <1>1 DEF StaleUnneeded, vars, Needed
<1>2. ASSUME NEW l \in Launchers, l # m, Act(l) PROVE stale'[m] \cap Needed(arts'[m]) = {}
  <2>1. UNCHANGED <<pc[m], arts[m], pos[m], stale[m]>>
    BY <1>2, OthersKept
  <2> QED
    BY <2>1 DEF StaleUnneeded
<1>3. CASE Act(m)
  <2>1. CASE CleanList(m)
    <3>1. stale'[m] \subseteq Names \ Needed(arts[m]) /\ arts'[m] = arts[m]
      BY <1>0, <2>1 DEF CleanList, setup
    <3> QED
      BY <3>1
  <2>2. CASE CleanOne(m)
    <3>1. pc[m] = "clean" /\ stale'[m] \subseteq stale[m] /\ arts'[m] = arts[m]
      BY <1>0, <2>2 DEF CleanOne, setup
    <3> QED
      BY <3>1 DEF StaleUnneeded
  <2>3. CASE CleanDone(m) \/ Begin(m) \/ BootstrapFails(m) \/ Launch(m) \/ Exit(m) \/ Kill(m)
    BY <1>0, <2>3 DEF CleanDone, Begin, BootstrapFails, Launch, Exit, Kill, Forget, Goto
  <2>4. CASE UpToDate(m) \/ OutOfDate(m) \/ Unreadable(m) \/ ScanDiff(m) \/ AddDownload(m)
             \/ ScanDone(m) \/ Skip(m) \/ FetchDiff(m)
    BY <1>0, <2>4 DEF UpToDate, OutOfDate, Unreadable, ScanDiff, AddDownload, ScanDone,
       Skip, FetchDiff, GiveUpPatch, Goto
  <2>5. CASE OpenPatch(m) \/ ApplyPatch(m) \/ PatchMismatch(m) \/ OpenFull(m) \/ WriteFull(m)
             \/ WriteWrong(m) \/ WriteFails(m) \/ DownloadDone(m)
    BY <1>0, <2>5 DEF OpenPatch, ApplyPatch, PatchMismatch, OpenFull, WriteFull, WriteWrong,
       WriteFails, DownloadDone, GiveUpPatch, Goto
  <2>6. CASE VerifyOne(m) \/ VerifyFails(m) \/ VerifyDone(m)
    BY <1>0, <2>6 DEF VerifyOne, VerifyFails, VerifyDone, Goto
  <2> QED
    BY <1>3, <2>1, <2>2, <2>3, <2>4, <2>5, <2>6 DEF Act, Prepare
<1> QED
  BY <1>1, <1>2, <1>3 DEF Next, Act

LEMMA ListsNext ==
  ASSUME TypeInv, ListsOffered, [Next]_vars
  PROVE  ListsOffered'
<1> SUFFICES ASSUME NEW m \in Launchers
             PROVE  /\ arts'[m] \in Bootstraps \cup {<<>>}
                    /\ pc'[m] \in Running => arts'[m] \in Bootstraps
  BY DEF ListsOffered
<1>0. pc \in [Launchers -> Phases] /\ arts \in [Launchers -> Seq(Artifact)]
  BY DEF TypeInv, TypeOK
<1>1. /\ arts[m] \in Bootstraps \cup {<<>>}
      /\ pc[m] \in Running => arts[m] \in Bootstraps
  BY DEF ListsOffered
<1>2. CASE UNCHANGED vars
  BY <1>1, <1>2 DEF vars
<1>3. ASSUME NEW l \in Launchers, l # m, Act(l) PROVE UNCHANGED <<pc[m], arts[m]>>
  BY <1>3, OthersKept
<1>4. CASE Begin(m)
  BY <1>0, <1>4 DEF Begin
<1>5. CASE Exit(m) \/ Kill(m)
  BY <1>0, <1>5 DEF Exit, Kill, Forget, Goto, Running
<1>6. CASE BootstrapFails(m) \/ Launch(m)
  <2>1. arts'[m] = arts[m] /\ pc'[m] \in {"failed", "launched"}
    BY <1>0, <1>6 DEF BootstrapFails, Launch, setup, Goto
  <2> QED
    BY <1>1, <2>1 DEF Running
<1>7. CASE Prepare(m)
  <2>1. arts' = arts
    BY <1>7 DEF Prepare, setup, CleanList, CleanOne, CleanDone, UpToDate, OutOfDate,
       Unreadable, ScanDiff, AddDownload, ScanDone, Skip, FetchDiff, OpenPatch,
       ApplyPatch, PatchMismatch, OpenFull, WriteFull, WriteWrong, WriteFails,
       DownloadDone, VerifyOne, VerifyFails, VerifyDone
  <2>2. pc[m] \in {"list", "clean", "scan", "diffs", "get", "patch", "apply", "full", "write",
                   "verify"}
    BY <1>7 DEF Prepare, CleanList, CleanOne, CleanDone, UpToDate, OutOfDate,
       Unreadable, ScanDiff, AddDownload, ScanDone, Skip, FetchDiff, OpenPatch,
       ApplyPatch, PatchMismatch, OpenFull, WriteFull, WriteWrong, WriteFails,
       DownloadDone, VerifyOne, VerifyFails, VerifyDone
  <2> QED
    BY <1>1, <2>1, <2>2 DEF Running, Phases
<1> QED
  BY <1>1, <1>2, <1>3, <1>4, <1>5, <1>6, <1>7 DEF Next, Act

(* Everybody who writes a file of the list writes what the list asks for.    *)
LEMMA SameHash ==
  ASSUME OneBootstrap, TypeInv, DistinctNames, ListsOffered,
         NEW b \in Bootstraps, NEW k \in DOMAIN b,
         NEW m \in Launchers, HasMore(m), Dest(m) = b[k].name
  PROVE  Cur(m).hash = b[k].hash
<1>1. pos[m] \in DOMAIN arts[m]
  BY CurTyped
<1>2. arts[m] # <<>>
  BY <1>1
<1>3. arts[m] = b
  BY <1>2 DEF ListsOffered, OneBootstrap
<1>4. pos[m] = k
  BY <1>1, <1>3 DEF DistinctNames, Dest, Cur
<1> QED
  BY <1>3, <1>4 DEF Cur

(* No step, of whomever, unsettles a file of the list, if nothing fails.     *)
LEMMA SettledStep ==
  ASSUME OneBootstrap, TypeInv, DistinctNames, StaleUnneeded, ListsOffered, ~Fault,
         NEW b \in Bootstraps, NEW k \in DOMAIN b,
         NEW l \in Launchers, Act(l), Settled(b[k].name, b[k].hash)
  PROVE  Settled(b[k].name, b[k].hash)'
<1> DEFINE n == b[k].name
           h == b[k].hash
<1>0. /\ pc \in [Launchers -> Phases] /\ arts \in [Launchers -> Seq(Artifact)]
      /\ pos \in [Launchers -> Nat \ {0}] /\ truncated \in [Launchers -> BOOLEAN]
      /\ repo \in [Names -> Contents]
  BY DEF TypeInv, TypeOK
<1>1. n \in Names
  <2>1. b \in Seq(Artifact)
    BY RepositoryAssumption
  <2>2. b[k] \in Artifact
    BY <2>1
  <2> QED
    BY <2>2 DEF Artifact
<1>2. \A m \in Launchers : HasMore(m) /\ Dest(m) = n => Cur(m).hash = h
  BY SameHash
<1>3. \A m \in Launchers : m # l => UNCHANGED <<pc[m], arts[m], pos[m]>>
  BY OthersKept
<1>4. Settled(n, h)
  OBVIOUS
<1>5. ASSUME repo'[n] = repo[n],
             \A m \in Launchers : m # l /\ Dest(m) = n => truncated'[m] = truncated[m],
             ~Mends(l, n) \/ Mends(l, n)'
      PROVE  Settled(n, h)'
  <2>1. \A m \in Launchers : m # l /\ Mends(m, n) => Mends(m, n)'
    BY <1>3, <1>5 DEF Mends, Dest, Cur, Writing
  <2> QED
    BY <1>4, <1>5, <2>1 DEF Settled
<1>6. ASSUME Mends(l, n)' PROVE Settled(n, h)'
  BY <1>6 DEF Settled
<1>quiet. ASSUME repo' = repo, UNCHANGED truncated \/ Forget(l),
                 pc[l] \notin {"apply", "write", "full"}
          PROVE  Settled(n, h)'
  <2>1. \A m \in Launchers : m # l => truncated'[m] = truncated[m]
    BY <1>0, <1>quiet DEF Forget
  <2>2. ~Mends(l, n)
    BY <1>quiet DEF Mends, Writing
  <2> QED
    BY <1>5, <1>quiet, <2>1, <2>2
<1>fault. ~(\/ BootstrapFails(l) \/ Unreadable(l) \/ WriteWrong(l) \/ WriteFails(l) \/ Kill(l))
  BY DEF BootstrapFails, Unreadable, WriteWrong, WriteFails, Kill
<1>7. CASE Begin(l) \/ Launch(l) \/ Exit(l)
  BY <1>7, <1>quiet DEF Begin, Launch, Exit, Forget
<1>8. CASE CleanList(l) \/ CleanDone(l) \/ UpToDate(l) \/ OutOfDate(l) \/ ScanDiff(l)
           \/ AddDownload(l) \/ ScanDone(l) \/ Skip(l) \/ FetchDiff(l) \/ DownloadDone(l)
           \/ VerifyOne(l) \/ VerifyFails(l) \/ VerifyDone(l)
  BY <1>8, <1>quiet DEF CleanList, CleanDone, UpToDate, OutOfDate, ScanDiff, AddDownload,
     ScanDone, Skip, FetchDiff, DownloadDone, VerifyOne, VerifyFails, VerifyDone
<1>9. CASE CleanOne(l)
  <2>1. PICK s \in stale[l] : repo' = [repo EXCEPT ![s] = Absent]
    BY <1>9 DEF CleanOne
  <2>2. pc[l] = "clean" /\ truncated' = truncated
    BY <1>9 DEF CleanOne
  <2>3. arts[l] = b
    BY <2>2 DEF ListsOffered, OneBootstrap, Running, Phases
  <2>4. n \in Needed(arts[l])
    BY <2>3 DEF Needed
  <2>5. s # n
    BY <2>2, <2>4 DEF StaleUnneeded
  <2>6. repo'[n] = repo[n]
    BY <1>0, <2>1, <2>5
  <2>7. ~Mends(l, n)
    BY <2>2 DEF Mends, Writing
  <2> QED
    BY <1>5, <2>2, <2>6, <2>7
<1>10. ASSUME Truncate(l), UNCHANGED <<pos, arts>>, pc' = [pc EXCEPT ![l] = "apply"]
                                               \/ pc' = [pc EXCEPT ![l] = "write"]
       PROVE  Settled(n, h)'
  <2>1. /\ Dest(l)' = Dest(l) /\ Writing(l)' /\ ~truncated'[l]
        /\ repo' = [repo EXCEPT ![Dest(l)] = Garbage]
    BY <1>0, <1>10 DEF Truncate, Dest, Cur, Writing
  <2>2. CASE Dest(l) = n
    <3>1. Mends(l, n)'
      BY <2>1, <2>2 DEF Mends
    <3> QED
      BY <1>6, <3>1
  <2>3. CASE Dest(l) # n
    <3>1. repo'[n] = repo[n]
      BY <1>0, <2>1, <2>3
    <3>2. \A m \in Launchers : m # l /\ Dest(m) = n => truncated'[m] = truncated[m]
      BY <1>0, <1>10, <2>3 DEF Truncate
    <3>3. ~Mends(l, n)
      BY <2>3 DEF Mends
    <3> QED
      BY <1>5, <3>1, <3>2, <3>3
  <2> QED
    BY <2>2, <2>3
<1>11. CASE OpenPatch(l) \/ OpenFull(l)
  BY <1>10, <1>11 DEF OpenPatch, OpenFull, Goto, setup
<1>12. CASE ApplyPatch(l) \/ WriteFull(l)
  <2>1. PICK c \in WriteResults(l, Cur(l).hash) : repo' = [repo EXCEPT ![Dest(l)] = c]
    BY <1>12 DEF ApplyPatch, WriteFull
  <2>2. Writing(l) /\ truncated' = truncated
    BY <1>12 DEF ApplyPatch, WriteFull, Writing
  <2>3. CASE Dest(l) # n
    <3>1. repo'[n] = repo[n]
      BY <1>0, <2>1, <2>3
    <3>2. ~Mends(l, n)
      BY <2>3 DEF Mends
    <3> QED
      BY <1>5, <2>2, <3>1, <3>2
  <2>4. CASE Dest(l) = n
    <3>1. HasMore(l) /\ Cur(l).hash = h
      BY <1>2, <2>2, <2>4 DEF Writing, TypeInv, CursorOK
    <3>2. repo'[n] = c
      BY <1>0, <1>1, <2>1, <2>4
    <3>3. \A m \in Launchers : Writing(m) /\ Dest(m) = n => Cur(m).hash = h
      BY <1>2 DEF Writing, TypeInv, CursorOK
    <3>4. ~Rival(l)
      BY <2>4, <3>1, <3>3 DEF Rival
    <3>5. CASE repo[n] = h \/ ~truncated[l]
      <4>1. c = h
        BY <2>1, <2>4, <3>1, <3>4, <3>5 DEF WriteResults
      <4> QED
        BY <3>2, <4>1 DEF Settled
    <3>6. CASE repo[n] # h /\ truncated[l]
      <4>1. PICK m \in Launchers : Mends(m, n)
        BY <1>4, <3>6 DEF Settled
      <4>2. m # l
        BY <2>2, <3>6, <4>1 DEF Mends, Writing
      <4>3. Mends(m, n)'
        BY <1>3, <2>2, <4>1, <4>2 DEF Mends, Dest, Cur, Writing
      <4> QED
        BY <4>3 DEF Settled
    <3> QED
      BY <3>5, <3>6
  <2> QED
    BY <2>3, <2>4
<1>13. CASE PatchMismatch(l)
  <2>1. /\ pc'[l] = "full" /\ Dest(l)' = Dest(l) /\ truncated' = truncated
        /\ \E c \in {repo[Dest(l)], Garbage} : repo' = [repo EXCEPT ![Dest(l)] = c]
    BY <1>0, <1>13 DEF PatchMismatch, GiveUpPatch, Goto, Spoil, Dest, Cur, setup
  <2>2. CASE Dest(l) = n
    <3>1. Mends(l, n)'
      BY <2>1, <2>2 DEF Mends
    <3> QED
      BY <1>6, <3>1
  <2>3. CASE Dest(l) # n
    <3>1. repo'[n] = repo[n]
      BY <1>0, <2>1, <2>3
    <3>2. ~Mends(l, n)
      BY <2>3 DEF Mends
    <3> QED
      BY <1>5, <2>1, <3>1, <3>2
  <2> QED
    BY <2>2, <2>3
<1> QED
  BY <1>fault, <1>7, <1>8, <1>9, <1>11, <1>12, <1>13 DEF Act, Prepare

LEMMA SharedNext ==
  ASSUME OneBootstrap, DistinctLists, SharedInv, [Next]_vars
  PROVE  SharedInv'
<1>1. TypeInv' /\ DistinctNames' /\ StaleUnneeded' /\ ListsOffered'
  BY TypeNext, DistinctNext, StaleAlways, ListsNext DEF SharedInv
<1>2. CASE UNCHANGED vars
  <2>1. faults' = 0 => VerifiedSettled'
    BY <1>2 DEF SharedInv, VerifiedSettled, Due, Settled, Mends, Dest, Cur, Writing, vars
  <2> QED
    BY <1>1, <2>1 DEF SharedInv
<1>3. ASSUME NEW l \in Launchers, Act(l), faults' = 0,
             NEW m \in Launchers, NEW k \in DOMAIN arts'[m], Due(m, k)'
      PROVE  Settled(arts[m][k].name, arts[m][k].hash)'
  <2>0. /\ pc \in [Launchers -> Phases] /\ arts \in [Launchers -> Seq(Artifact)]
        /\ pos \in [Launchers -> Nat \ {0}] /\ faults \in Nat
    BY DEF SharedInv, TypeInv, TypeOK
  <2>1. ~Fault
    BY <1>3, <2>0 DEF Fault
  <2>2. faults = 0
    BY <1>3, <2>0, <2>1 DEF Act, Prepare, Begin, BootstrapFails, CleanList, CleanOne,
       CleanDone, UpToDate, OutOfDate, Unreadable, ScanDiff, AddDownload, ScanDone, Skip,
       FetchDiff, OpenPatch, ApplyPatch, PatchMismatch, OpenFull, WriteFull, WriteWrong,
       WriteFails, DownloadDone, VerifyOne, VerifyFails, VerifyDone, Launch, Exit, Kill
  <2>3. VerifiedSettled
    BY <2>2 DEF SharedInv
  <2>4. arts'[m] = arts[m] /\ Settled(arts[m][k].name, arts[m][k].hash)
    <3>1. CASE m # l
      <4>1. UNCHANGED <<pc[m], arts[m], pos[m]>>
        BY <1>3, <3>1, OthersKept DEF SharedInv
      <4> QED
        BY <1>3, <2>3, <4>1 DEF VerifiedSettled, Due
    <3>2. CASE m = l /\ VerifyOne(l)
      <4>1. /\ pc[m] = "verify" /\ pos'[m] = pos[m] + 1 /\ arts' = arts /\ pc' = pc
            /\ repo[arts[m][pos[m]].name] = arts[m][pos[m]].hash
        BY <2>0, <3>2 DEF VerifyOne, Advance, setup, Dest, Cur
      <4>2. k \in Nat /\ (k < pos[m] \/ k = pos[m])
        BY <1>3, <2>0, <4>1 DEF Due
      <4>3. CASE k < pos[m]
        BY <1>3, <2>3, <4>1, <4>3 DEF VerifiedSettled, Due
      <4>4. CASE k = pos[m]
        BY <4>1, <4>4 DEF Settled
      <4> QED
        BY <4>1, <4>2, <4>3, <4>4
    <3>3. CASE m = l /\ VerifyDone(l)
      <4>1. pc[m] = "verify" /\ arts' = arts /\ ~HasMore(m)
        BY <3>3 DEF VerifyDone, setup
      <4>2. k < pos[m]
        BY <1>3, <2>0, <4>1 DEF HasMore
      <4> QED
        BY <1>3, <2>3, <4>1, <4>2 DEF VerifiedSettled, Due
    <3>4. CASE m = l /\ Launch(l)
      <4>1. pc[m] = "launch" /\ arts' = arts
        BY <3>4 DEF Launch, setup
      <4> QED
        BY <1>3, <2>3, <4>1 DEF VerifiedSettled, Due
    <3>5. CASE m = l /\ DownloadDone(l)
      <4>1. pc'[m] = "verify" /\ pos'[m] = 1
        BY <2>0, <3>5 DEF DownloadDone, Goto, Rewind
      <4>2. arts' \in [Launchers -> Seq(Artifact)]
        BY <1>1 DEF TypeInv, TypeOK
      <4> QED
        BY <1>3, <4>1, <4>2 DEF Due
    <3>6. CASE m = l /\ (CleanList(l) \/ CleanOne(l) \/ CleanDone(l) \/ UpToDate(l)
                         \/ OutOfDate(l) \/ Unreadable(l) \/ ScanDiff(l) \/ AddDownload(l)
                         \/ ScanDone(l) \/ Skip(l) \/ FetchDiff(l) \/ Begin(l))
      <4>1. pc'[m] \notin {"verify", "launch", "launched"}
        BY <2>0, <3>6 DEF CleanList, CleanOne, CleanDone, UpToDate, OutOfDate, Unreadable,
           ScanDiff, AddDownload, ScanDone, Skip, FetchDiff, GiveUpPatch, Begin, Goto
      <4> QED
        BY <1>3, <4>1 DEF Due
    <3>7. CASE m = l /\ (OpenPatch(l) \/ ApplyPatch(l) \/ PatchMismatch(l) \/ OpenFull(l)
                         \/ WriteFull(l) \/ WriteWrong(l) \/ WriteFails(l) \/ VerifyFails(l)
                         \/ Exit(l) \/ Kill(l) \/ BootstrapFails(l))
      <4>1. pc'[m] \notin {"verify", "launch", "launched"}
        BY <2>0, <3>7 DEF OpenPatch, ApplyPatch, PatchMismatch, OpenFull, WriteFull,
           WriteWrong, WriteFails, VerifyFails, Exit, Kill, Forget, BootstrapFails,
           GiveUpPatch, Goto
      <4> QED
        BY <1>3, <4>1 DEF Due
    <3> QED
      BY <1>3, <3>1, <3>2, <3>3, <3>4, <3>5, <3>6, <3>7 DEF Act, Prepare
  <2>5. arts[m] \in Bootstraps
    BY <1>3, <2>4 DEF SharedInv, ListsOffered
  <2> QED
    BY <1>3, <2>1, <2>4, <2>5, SettledStep DEF SharedInv
<1>4. ASSUME NEW l \in Launchers, Act(l) PROVE SharedInv'
  BY <1>1, <1>3, <1>4 DEF SharedInv, VerifiedSettled
<1> QED
  BY <1>2, <1>4 DEF Next, Act

(* However many launchers run side by side on the same bootstrap and open,   *)
(* truncate and patch the same files: if nothing fails, then once all are    *)
(* done the jars under every client that was started are the verified ones.  *)
THEOREM ConcurrentRunsConvergeSafe ==
  OneBootstrap /\ DistinctLists => (Spec => []ConcurrentRunsConverge)
<1> SUFFICES ASSUME OneBootstrap, DistinctLists PROVE Spec => []ConcurrentRunsConverge
  OBVIOUS
<1>1. Init => SharedInv
  BY TypeInit
  DEF Init, SharedInv, DistinctNames, StaleUnneeded, ListsOffered, VerifiedSettled, Due,
      Running
<1>2. SharedInv /\ [Next]_vars => SharedInv'
  BY SharedNext
<1>3. SharedInv => ConcurrentRunsConverge
  <2> SUFFICES ASSUME SharedInv, faults = 0, \A m \in Launchers : pc[m] \notin Running,
                      NEW l \in Launchers, pc[l] = "launched", NEW k \in DOMAIN arts[l]
               PROVE  repo[arts[l][k].name] = arts[l][k].hash
    BY DEF ConcurrentRunsConverge
  <2>1. Settled(arts[l][k].name, arts[l][k].hash)
    BY DEF SharedInv, VerifiedSettled, Due
  <2>2. \A m \in Launchers : ~Mends(m, arts[l][k].name)
    BY DEF Mends, Writing, Running, Phases
  <2> QED
    BY <2>1, <2>2 DEF Settled
<1> QED
  BY <1>1, <1>2, <1>3, PTL DEF Spec
-----------------------------------------------------------------------------
(* The artifacts that a run is through with.                                 *)
Dealt(l, k) ==
  \/ pc[l] \in {"scan", "diffs"} /\ k < pos[l] /\ k \notin toDownload[l]
  \/ pc[l] \in {"get", "patch", "apply", "full", "write"}
     /\ (k < pos[l] \/ k \notin toDownload[l])
  \/ pc[l] \in {"verify", "launch"}

DealtRight ==
  \A l \in Launchers : \A k \in DOMAIN arts[l] :
    Dealt(l, k) => repo[arts[l][k].name] = arts[l][k].hash

NotTruncated == \A l \in Launchers : ~truncated[l]

AllRead == \A l \in Launchers : unread[l] = {}

UndisturbedInv ==
  /\ KeptInv /\ NotTruncated
  /\ faults = 0 => AllRead /\ DealtRight /\ UndisturbedRunSucceeds

LEMMA KeptNext == ASSUME Sole, DistinctLists, KeptInv, [Next]_vars PROVE KeptInv'
  BY TypeNext, PendingNext, DistinctNext, StaleNext DEF KeptInv

(* Alone, nobody truncates the file that is being written.                   *)
LEMMA NotTruncatedNext ==
  ASSUME Sole, TypeInv, NotTruncated, [Next]_vars
  PROVE  NotTruncated'
<1>0. truncated \in [Launchers -> BOOLEAN]
  BY DEF TypeInv, TypeOK
<1>1. CASE truncated' = truncated
  BY <1>1 DEF NotTruncated
<1>2. ASSUME NEW l \in Launchers, Truncate(l) \/ Forget(l) PROVE NotTruncated'
  BY <1>0, <1>2 DEF Sole, Truncate, Forget, NotTruncated
<1>3. ASSUME NEW l \in Launchers, Exit(l) \/ Kill(l) \/ OpenPatch(l) \/ OpenFull(l)
      PROVE  NotTruncated'
  BY <1>1, <1>2, <1>3 DEF Exit, Kill, OpenPatch, OpenFull
<1>4. ASSUME NEW l \in Launchers, Begin(l) \/ BootstrapFails(l) \/ Launch(l)
      PROVE  truncated' = truncated
  BY <1>4 DEF Begin, BootstrapFails, Launch
<1>5. ASSUME NEW l \in Launchers, Prepare(l), ~OpenPatch(l), ~OpenFull(l)
      PROVE  truncated' = truncated
  BY <1>5 DEF Prepare, CleanList, CleanOne, CleanDone, UpToDate, OutOfDate,
     Unreadable, ScanDiff, AddDownload, ScanDone, Skip, FetchDiff,
     ApplyPatch, PatchMismatch, WriteFull, WriteWrong, WriteFails,
     DownloadDone, VerifyOne, VerifyFails, VerifyDone
<1> QED
  BY <1>1, <1>3, <1>4, <1>5 DEF Next, vars

(* A step after which nothing has failed yet is not one of the failures.     *)
LEMMA NothingFailed ==
  ASSUME TypeInv, NEW l \in Launchers, Act(l), faults' = 0
  PROVE  faults = 0 /\ ~Fault
<1>0. faults \in Nat
  BY DEF TypeInv, TypeOK
<1>1. ~Fault
  BY <1>0 DEF Fault
<1> QED
  BY <1>1 DEF Act, Prepare, Begin, BootstrapFails, CleanList, CleanOne,
     CleanDone, UpToDate, OutOfDate, Unreadable, ScanDiff, AddDownload, ScanDone, Skip,
     FetchDiff, OpenPatch, ApplyPatch, PatchMismatch, OpenFull, WriteFull, WriteWrong,
     WriteFails, DownloadDone, VerifyOne, VerifyFails, VerifyDone, Launch, Exit, Kill

(* Only a failure leaves a file unread.                                      *)
LEMMA AllReadNext ==
  ASSUME TypeInv, NEW l \in Launchers, Act(l), ~Fault, AllRead
  PROVE  AllRead'
<1>0. unread \in [Launchers -> SUBSET Nat]
  BY DEF TypeInv, TypeOK
<1>1. CASE unread' = unread
  BY <1>1 DEF AllRead
<1>2. CASE unread' = [unread EXCEPT ![l] = {}]
  BY <1>0, <1>2 DEF AllRead
<1>3. ~Unreadable(l)
  BY DEF Unreadable
<1> QED
  BY <1>1, <1>2, <1>3 DEF Act, Prepare, Begin, BootstrapFails, CleanList, CleanOne,
     CleanDone, UpToDate, OutOfDate, ScanDiff, AddDownload, ScanDone, Skip, FetchDiff,
     OpenPatch, ApplyPatch, PatchMismatch, OpenFull, WriteFull, WriteWrong, WriteFails,
     DownloadDone, VerifyOne, VerifyFails, VerifyDone, Launch, Exit, Kill, Forget, setup

(* What a run was through with before a step stays right.                    *)
LEMMA StaysRight ==
  ASSUME Sole, KeptInv, AllRead, NEW l \in Launchers, Act(l), ~Fault, DealtRight,
         NEW k \in DOMAIN arts[l], Dealt(l, k)
  PROVE  repo'[arts[l][k].name] = arts[l][k].hash
<1>1. repo[arts[l][k].name] = arts[l][k].hash
  BY DEF DealtRight
<1>2. CASE UNCHANGED vars
  BY <1>1, <1>2 DEF vars
<1>3. CASE KeepsGoodFiles
  <2>1. pc[l] \in Running
    BY DEF Dealt, Running, Phases
  <2>2. AllRead'
    BY AllReadNext DEF KeptInv
  <2> QED
    BY <1>1, <1>3, <2>1, <2>2 DEF KeepsGoodFiles, AllRead
<1> QED
  <2>1. [Next]_vars
    BY DEF Next, Act
  <2> QED
    BY <1>2, <1>3, <2>1, KeptStep

(* What a step finishes, it leaves right.                                    *)
LEMMA FinishedRight ==
  ASSUME Sole, KeptInv, NotTruncated, NEW l \in Launchers, Act(l), ~Fault,
         NEW k \in DOMAIN arts'[l], Dealt(l, k)', ~Dealt(l, k) \/ arts'[l] # arts[l]
  PROVE  repo'[arts'[l][k].name] = arts'[l][k].hash
<1>0. /\ pc \in [Launchers -> Phases] /\ pos \in [Launchers -> Nat \ {0}]
      /\ toDownload \in [Launchers -> SUBSET Nat]
      /\ repo \in [Names -> Contents] /\ arts' \in [Launchers -> Seq(Artifact)]
      /\ k \in Nat \ {0}
  <2>1. TypeInv /\ TypeInv'
    BY TypeNext DEF KeptInv, Next, Act
  <2>2. arts' \in [Launchers -> Seq(Artifact)]
    BY <2>1 DEF TypeInv, TypeOK
  <2>3. DOMAIN arts'[l] = 1..Len(arts'[l])
    BY <2>2
  <2>4. k \in Nat \ {0}
    BY <2>2, <2>3
  <2> QED
    BY <2>1, <2>2, <2>4 DEF TypeInv, TypeOK
<1>1. ~(\/ BootstrapFails(l) \/ Unreadable(l) \/ WriteWrong(l) \/ WriteFails(l) \/ Kill(l))
  BY DEF BootstrapFails, Unreadable, WriteWrong, WriteFails, Kill
<1>2. CASE pc'[l] \in {"idle", "list", "clean", "launched", "failed"}
  BY <1>2 DEF Dealt
<1>3. CASE Begin(l) \/ CleanList(l) \/ CleanOne(l) \/ VerifyFails(l) \/ Launch(l) \/ Exit(l)
  BY <1>0, <1>2, <1>3 DEF Begin, CleanList, CleanOne, VerifyFails, Launch, Exit, Forget, Goto
<1>4. CASE CleanDone(l)
  BY <1>0, <1>4 DEF CleanDone, Goto, Rewind, Dealt
<1>5. CASE UpToDate(l)
  <2>1. /\ pc[l] = "scan" /\ pc' = pc /\ pos'[l] = pos[l] + 1 /\ UNCHANGED <<repo, arts, toDownload>>
        /\ repo[arts[l][pos[l]].name] = arts[l][pos[l]].hash
    BY <1>0, <1>5 DEF UpToDate, Advance, plan, setup, Dest, Cur
  <2>2. k = pos[l]
    BY <1>0, <2>1 DEF Dealt
  <2> QED
    BY <2>1, <2>2
<1>6. CASE OutOfDate(l) \/ ScanDiff(l)
  <2>1. /\ pc[l] \in {"scan", "diffs"} /\ pc'[l] = "diffs"
        /\ UNCHANGED <<pos, arts, toDownload>>
    BY <1>0, <1>6 DEF OutOfDate, ScanDiff, Goto, plan, setup
  <2> QED
    BY <2>1 DEF Dealt
<1>7. CASE AddDownload(l)
  <2>1. /\ pc[l] = "diffs" /\ pc'[l] = "scan" /\ pos'[l] = pos[l] + 1 /\ arts' = arts
        /\ toDownload'[l] = toDownload[l] \cup {pos[l]}
    BY <1>0, <1>7 DEF AddDownload, Goto, Advance, setup
  <2> QED
    BY <1>0, <2>1 DEF Dealt
<1>8. CASE ScanDone(l)
  <2>1. /\ pc[l] = "scan" /\ pc'[l] = "get" /\ pos'[l] = 1 /\ UNCHANGED <<arts, toDownload>>
        /\ ~HasMore(l)
    BY <1>0, <1>8 DEF ScanDone, Goto, Rewind, plan, setup
  <2>2. k < pos[l]
    BY <1>0, <2>1 DEF HasMore
  <2> QED
    BY <1>0, <2>1, <2>2 DEF Dealt
<1>9. CASE Skip(l)
  <2>1. /\ pc[l] = "get" /\ pc' = pc /\ pos'[l] = pos[l] + 1 /\ UNCHANGED <<arts, toDownload>>
        /\ pos[l] \notin toDownload[l]
    BY <1>0, <1>9 DEF Skip, Advance, plan, setup
  <2> QED
    BY <1>0, <2>1 DEF Dealt
<1>10. CASE FetchDiff(l) \/ OpenPatch(l) \/ PatchMismatch(l) \/ OpenFull(l)
  <2>1. /\ pc[l] \in {"get", "patch", "apply", "full"}
        /\ pc'[l] \in {"patch", "apply", "full", "write"}
        /\ UNCHANGED <<pos, arts, toDownload>>
    BY <1>0, <1>10 DEF FetchDiff, OpenPatch, PatchMismatch, OpenFull, GiveUpPatch, Goto,
       plan, setup, Fault
  <2> QED
    BY <2>1 DEF Dealt
<1>11. CASE ApplyPatch(l) \/ WriteFull(l)
  <2>1. /\ pc[l] \in {"apply", "write"} /\ pc'[l] = "get" /\ pos'[l] = pos[l] + 1
        /\ UNCHANGED <<arts, toDownload>>
        /\ \E c \in WriteResults(l, Cur(l).hash) : repo' = [repo EXCEPT ![Dest(l)] = c]
    BY <1>0, <1>11 DEF ApplyPatch, WriteFull, Goto, Advance, plan, setup
  <2>2. HasMore(l)
    BY <2>1 DEF KeptInv, TypeInv, CursorOK
  <2>3. WriteResults(l, Cur(l).hash) = {Cur(l).hash}
    BY DEF WriteResults, Rival, Sole, NotTruncated
  <2>4. Dest(l) \in Names
    BY <2>2, CurTyped DEF KeptInv
  <2>5. repo'[Dest(l)] = Cur(l).hash
    BY <1>0, <2>1, <2>3, <2>4
  <2>6. k = pos[l]
    BY <1>0, <2>1 DEF Dealt
  <2> QED
    BY <2>1, <2>5, <2>6 DEF Dest, Cur
<1>12. CASE DownloadDone(l)
  <2>1. pc[l] = "get" /\ arts' = arts /\ ~HasMore(l)
    BY <1>12 DEF DownloadDone, setup
  <2>2. k < pos[l]
    BY <1>0, <2>1 DEF HasMore
  <2> QED
    BY <2>1, <2>2 DEF Dealt
<1>13. CASE VerifyOne(l) \/ VerifyDone(l)
  BY <1>13 DEF VerifyOne, VerifyDone, setup, Dealt
<1> QED
  BY <1>1, <1>3, <1>4, <1>5, <1>6, <1>7, <1>8, <1>9, <1>10, <1>11, <1>12, <1>13
  DEF Act, Prepare

LEMMA UndisturbedNext ==
  ASSUME Sole, DistinctLists, UndisturbedInv, [Next]_vars
  PROVE  UndisturbedInv'
<1>1. KeptInv /\ KeptInv' /\ TypeInv /\ NotTruncated /\ NotTruncated'
  BY KeptNext, NotTruncatedNext DEF UndisturbedInv, KeptInv
<1>2. CASE UNCHANGED vars
  BY <1>1, <1>2 DEF UndisturbedInv, AllRead, DealtRight, Dealt, UndisturbedRunSucceeds, vars
<1>3. ASSUME NEW l \in Launchers, Act(l), faults' = 0
      PROVE  AllRead' /\ DealtRight' /\ UndisturbedRunSucceeds'
  <2>0. pc \in [Launchers -> Phases] /\ pos \in [Launchers -> Nat \ {0}]
    BY <1>1 DEF TypeInv, TypeOK
  <2>1. faults = 0 /\ ~Fault
    BY <1>1, <1>3, NothingFailed
  <2>2. AllRead /\ DealtRight /\ UndisturbedRunSucceeds
    BY <2>1 DEF UndisturbedInv
  <2>r. AllRead'
    BY <1>1, <1>3, <2>1, <2>2, AllReadNext
  <2>3. DealtRight'
    <3>1. SUFFICES ASSUME NEW k \in DOMAIN arts'[l], Dealt(l, k)'
                   PROVE  repo'[arts'[l][k].name] = arts'[l][k].hash
      BY DEF Sole, DealtRight
    <3>2. CASE Dealt(l, k) /\ arts'[l] = arts[l]
      BY <1>1, <1>3, <2>1, <2>2, <3>1, <3>2, StaysRight
    <3>3. CASE ~Dealt(l, k) \/ arts'[l] # arts[l]
      BY <1>1, <1>3, <2>1, <3>1, <3>3, FinishedRight
    <3> QED
      BY <3>2, <3>3
  <2>4. pc[l] # "failed"
    BY <2>1, <2>2 DEF UndisturbedRunSucceeds
  <2>5. ~VerifyFails(l)
    <3>1. SUFFICES ASSUME VerifyFails(l) PROVE FALSE
      OBVIOUS
    <3>2. pc[l] = "verify" /\ HasMore(l) /\ repo[Dest(l)] # Cur(l).hash
      BY <2>1, <3>1 DEF VerifyFails
    <3>3. Dealt(l, pos[l])
      BY <3>2 DEF Dealt
    <3>4. pos[l] \in DOMAIN arts[l]
      BY <1>1, <3>2, CurTyped
    <3> QED
      BY <2>2, <3>2, <3>3, <3>4 DEF DealtRight, Dest, Cur
  <2>6. pc'[l] # "failed"
    <3>1. CASE Begin(l) \/ CleanList(l) \/ CleanOne(l) \/ CleanDone(l) \/ Launch(l) \/ Exit(l)
      BY <2>0, <2>4, <3>1 DEF Begin, CleanList, CleanOne, CleanDone, Launch, Exit, Forget, Goto
    <3>2. CASE UpToDate(l) \/ OutOfDate(l) \/ ScanDiff(l) \/ AddDownload(l) \/ ScanDone(l)
               \/ Skip(l) \/ FetchDiff(l)
      BY <2>0, <2>4, <3>2 DEF UpToDate, OutOfDate, ScanDiff, AddDownload, ScanDone, Skip,
         FetchDiff, GiveUpPatch, Goto
    <3>3. CASE OpenPatch(l) \/ ApplyPatch(l) \/ PatchMismatch(l) \/ OpenFull(l) \/ WriteFull(l)
      BY <2>0, <2>1, <3>3 DEF OpenPatch, ApplyPatch, PatchMismatch, OpenFull, WriteFull,
         GiveUpPatch, Goto
    <3>4. CASE DownloadDone(l) \/ VerifyOne(l) \/ VerifyDone(l)
      BY <2>0, <2>4, <3>4 DEF DownloadDone, VerifyOne, VerifyDone, Goto
    <3>5. ~(\/ BootstrapFails(l) \/ Unreadable(l) \/ WriteWrong(l) \/ WriteFails(l) \/ Kill(l))
      BY <2>1 DEF BootstrapFails, Unreadable, WriteWrong, WriteFails, Kill
    <3> QED
      BY <1>3, <2>5, <3>1, <3>2, <3>3, <3>4, <3>5 DEF Act, Prepare
  <2>7. UndisturbedRunSucceeds'
    BY <2>6 DEF Sole, UndisturbedRunSucceeds
  <2> QED
    BY <2>r, <2>3, <2>7
<1> QED
  BY <1>1, <1>2, <1>3 DEF UndisturbedInv, Next, Act

(* A launcher that is alone and meets no failure is never refused: whatever  *)
(* earlier runs left in REPO_DIR, whichever diffs fit, and even where a patch *)
(* destroys the file it starts from, verifyJarHashes finds every jar right.  *)
(* The safety half of RecoversAndLaunches, for every repository and list.    *)
THEOREM UndisturbedRunSucceedsSafe ==
  Sole /\ DistinctLists => (Spec => []UndisturbedRunSucceeds)
<1> SUFFICES ASSUME Sole, DistinctLists PROVE Spec => []UndisturbedRunSucceeds
  OBVIOUS
<1>1. Init => UndisturbedInv
  <2> SUFFICES ASSUME Init PROVE UndisturbedInv
    OBVIOUS
  <2>1. KeptInv
    BY TypeInit DEF Init, KeptInv, PendingBad, Pending, DistinctNames, StaleUnneeded
  <2> QED
    BY <2>1 DEF Init, UndisturbedInv, NotTruncated, AllRead, DealtRight, Dealt, UndisturbedRunSucceeds
<1>2. UndisturbedInv /\ [Next]_vars => UndisturbedInv'
  BY UndisturbedNext
<1>3. UndisturbedInv => UndisturbedRunSucceeds
  BY DEF UndisturbedInv, UndisturbedRunSucceeds
<1> QED
  BY <1>1, <1>2, <1>3, PTL DEF Spec
=============================================================================
