---------------------------- MODULE DllHooksProofs ----------------------------
(***************************************************************************)
(* Theorems about DllHooks: for any number of hooks, however they share    *)
(* targets and pages, for any number of threads that call the functions    *)
(* meanwhile, and for a failure at any step.                               *)
(***************************************************************************)
EXTENDS DllHooks, TLAPS, SequenceTheorems

OpHooks == {ops[i].hook : i \in DOMAIN ops}

Distinct == \A i, j \in DOMAIN ops : ops[i].hook = ops[j].hook => i = j

(* no jump is written by halves, except by the operation at pos *)
NoHalf ==
  \A t \in Targets : code[t] = "half" =>
    pc = "jump" /\ pos \in DOMAIN ops /\ t = TargetOf[ops[pos].hook]

(* a jump is one of its target's hooks, and has a trampoline *)
Sound ==
  /\ \A t \in Targets : code[t] \in Hooks => code[t] \in used /\ TargetOf[code[t]] = t
  /\ \A h \in Hooks : ptr[h] = "tramp" => h \in used
  /\ used # {} => region # "none"

Stable == Full \/ Clean

(***************************************************************************)
(* The permission of a page: what it was before the transaction is kept by *)
(* the oldest operation on it; the others keep that it was made writable.  *)
(***************************************************************************)
Rest(p) == IF p \in stuck THEN "rwx" ELSE "rx"

OldestOn(p, i) == \A j \in DOMAIN ops : Page(ops[j].hook) = p => j <= i

OldestKeeps ==
  \A p \in Pages :
    /\ (\A i \in DOMAIN ops : Page(ops[i].hook) # p) => perm[p] = Rest(p)
    /\ \A i \in DOMAIN ops : Page(ops[i].hook) = p =>
         /\ perm[p] = "rwx"
         /\ OldestOn(p, i) => ops[i].perm = Rest(p)
         /\ ~OldestOn(p, i) => ops[i].perm = "rwx"

Idle == ops = <<>> /\ (region = "rwx" <=> "region" \in stuck)

(* what holds while DllMain is at pc, on its way in and on its way out *)
Before ==
  /\ pc = "unloaded" => ~removing /\ Clean /\ Idle
  /\ pc = "begin"    => (IF removing THEN Stable ELSE Clean) /\ Idle

Listing ==
  pc = "list" =>
    /\ pos \in 1 .. Len(HookList) + 1
    /\ Distinct
    /\ \A h \in OpHooks : \E i \in 1 .. pos - 1 : h = HookList[i]
    /\ ~removing =>
         /\ used = OpHooks /\ OpHooks \subseteq Exported
         /\ \A t \in Targets : code[t] = "orig"
         /\ \A h \in Hooks : ptr[h] # "tramp"
         /\ ~error => \A i \in 1 .. pos - 1 : exported[HookList[i]] => HookList[i] \in OpHooks
    /\ removing =>
         /\ Stable /\ OpHooks \subseteq used
         /\ ~error => \A i \in 1 .. pos - 1 :
                        ptr[HookList[i]] # "null" => HookList[i] \in OpHooks

Writing ==
  pc \in {"write", "jump", "pointer"} =>
    /\ ~error /\ Distinct /\ used = OpHooks
    /\ pos \in 1 .. Len(ops) + 1
    /\ pc # "write" => pos \in DOMAIN ops /\ ~removing
    /\ ~removing =>
         /\ used = Exported
         /\ \A i \in 1 .. pos - 1 : /\ ptr[ops[i].hook] = "tramp"
                                    /\ code[TargetOf[ops[i].hook]] \in Exported
         /\ pc = "pointer" => code[TargetOf[ops[pos].hook]] \in Exported
    /\ removing => \A i \in 1 .. pos - 1 : /\ ptr[ops[i].hook] # "tramp"
                                           /\ code[TargetOf[ops[i].hook]] = "orig"

Finishing ==
  /\ pc = "finish" =>
       /\ ~error /\ Distinct
       /\ ~removing => Full
       /\ removing => /\ used = OpHooks
                      /\ \A t \in Targets : code[t] = "orig"
                      /\ \A h \in Hooks : ptr[h] # "tramp"
  /\ pc = "abort" =>
       /\ error /\ Distinct
       /\ removing => Stable
       /\ ~removing => /\ used = OpHooks
                       /\ \A t \in Targets : code[t] = "orig"
                       /\ \A h \in Hooks : ptr[h] # "tramp"

After ==
  /\ pc = "attached" => ~removing /\ Full /\ Idle
  /\ pc = "failed"   => ~removing /\ Clean /\ Idle
  /\ pc = "gone"     => removing /\ (Clean \/ (error /\ Full)) /\ Idle

(* A call that is on its way is one of a function; in a hook, of a hook.     *)
CallsTyped ==
  \A c \in Callers :
    /\ call[c].at \in {"call", "prologue", "body"} => call[c].fn \in Targets
    /\ call[c].at \in {"hook", "allowed"} => call[c].hook \in Hooks
IInv == /\ TypeOK /\ CallsTyped /\ OldestKeeps
        /\ NoHalf /\ Sound
        /\ Before /\ Listing /\ Writing /\ Finishing /\ After

-----------------------------------------------------------------------------
(***************************************************************************)
(* The list of operations: what pushing and popping do to its members.     *)
(***************************************************************************)
LEMMA Pushed ==
  ASSUME NEW s \in Seq(Operations), NEW o \in Operations
  PROVE  /\ <<o>> \o s \in Seq(Operations)
         /\ Len(<<o>> \o s) = Len(s) + 1
         /\ DOMAIN (<<o>> \o s) = 1 .. Len(s) + 1
         /\ DOMAIN s = 1 .. Len(s)
         /\ (<<o>> \o s)[1] = o
         /\ \A i \in 1 .. Len(s) : (<<o>> \o s)[i + 1] = s[i]
         /\ \A i \in 2 .. Len(s) + 1 : (<<o>> \o s)[i] = s[i - 1] /\ i - 1 \in DOMAIN s
<1>1. <<o>> \in Seq(Operations) /\ Len(<<o>>) = 1 /\ <<o>>[1] = o
  OBVIOUS
<1>2. Len(s) \in Nat /\ DOMAIN s = 1 .. Len(s)
  BY LenProperties
<1> DEFINE n == <<o>> \o s
<1>3. /\ n \in Seq(Operations) /\ Len(n) = 1 + Len(s)
      /\ \A i \in 1 .. 1 + Len(s) : n[i] = IF i <= 1 THEN <<o>>[i] ELSE s[i - 1]
  BY <1>1, ConcatProperties
<1>4. DOMAIN n = 1 .. Len(n)
  BY <1>3, LenProperties
<1> HIDE DEF n
<1>5. n[1] = o
  BY <1>1, <1>2, <1>3
<1>6. \A i \in 1 .. Len(s) : n[i + 1] = s[i]
  BY <1>2, <1>3
<1>7. \A i \in 2 .. Len(s) + 1 : n[i] = s[i - 1] /\ i - 1 \in DOMAIN s
  BY <1>2, <1>3
<1>8. Len(n) = Len(s) + 1 /\ DOMAIN n = 1 .. Len(s) + 1
  BY <1>2, <1>3, <1>4
<1> QED
  BY <1>2, <1>3, <1>5, <1>6, <1>7, <1>8 DEF n

LEMMA Popped ==
  ASSUME NEW s \in Seq(Operations), s # <<>>
  PROVE  /\ Head(s) = s[1] /\ s[1] \in Operations
         /\ Tail(s) \in Seq(Operations)
         /\ Len(s) \in Nat \ {0}
         /\ Len(Tail(s)) = Len(s) - 1
         /\ DOMAIN s = 1 .. Len(s) /\ DOMAIN Tail(s) = 1 .. Len(s) - 1
         /\ \A i \in 1 .. Len(s) - 1 : Tail(s)[i] = s[i + 1]
<1>1. Len(s) \in Nat \ {0} /\ DOMAIN s = 1 .. Len(s)
  BY EmptySeq, LenProperties
<1>2. Head(s) = s[1] /\ s[1] \in Operations
  BY <1>1, ElementOfSeq
<1>3. /\ Tail(s) \in Seq(Operations) /\ Len(Tail(s)) = Len(s) - 1
      /\ \A i \in 1 .. Len(Tail(s)) : Tail(s)[i] = s[i + 1]
  BY HeadTailProperties
<1>4. DOMAIN Tail(s) = 1 .. Len(Tail(s))
  BY <1>3, LenProperties
<1> QED
  BY <1>1, <1>2, <1>3, <1>4

(***************************************************************************)
(* A hook is scheduled: the permission it keeps is the one its page has.   *)
(***************************************************************************)
LEMMA ScheduleKeepsOldest ==
  ASSUME TypeOK, OldestKeeps, NEW h \in Hooks, Schedule(h), UNCHANGED stuck
  PROVE  OldestKeeps' /\ ops' \in Seq(Operations) /\ perm' \in [Pages -> {"rx", "rwx"}]
<1> DEFINE o == [hook |-> h, perm |-> perm[Page(h)]]
<1>1. Page(h) \in Pages /\ o \in Operations /\ o.hook = h /\ o.perm = perm[Page(h)]
  BY TargetsAssumption DEF Page, Operations, TypeOK
<1>2. ops \in Seq(Operations) /\ ops' = <<o>> \o ops
  BY DEF TypeOK, Schedule
<1> HIDE DEF o
<1>3. /\ ops' \in Seq(Operations) /\ DOMAIN ops' = 1 .. Len(ops) + 1
      /\ DOMAIN ops = 1 .. Len(ops) /\ ops'[1] = o /\ Len(ops) \in Nat
      /\ \A i \in 1 .. Len(ops) : ops'[i + 1] = ops[i]
      /\ \A i \in 2 .. Len(ops) + 1 : ops'[i] = ops[i - 1] /\ i - 1 \in DOMAIN ops
  BY <1>1, <1>2, Pushed, LenProperties
<1>4. /\ perm' \in [Pages -> {"rx", "rwx"}] /\ perm'[Page(h)] = "rwx"
      /\ \A p \in Pages : p # Page(h) => perm'[p] = perm[p]
  BY <1>1 DEF TypeOK, Schedule
<1>r. \A p \in Pages : Rest(p)' = Rest(p)
  BY DEF Rest
<1>s. \A i \in DOMAIN ops : i + 1 \in DOMAIN ops' /\ ops'[i + 1] = ops[i] /\ i \in Nat
  BY <1>3
<1>5. ASSUME NEW p \in Pages, \A i \in DOMAIN ops' : Page(ops'[i].hook) # p
      PROVE  perm'[p] = Rest(p)'
  <2>1. Page(h) # p
    BY <1>1, <1>3, <1>5
  <2>2. \A i \in DOMAIN ops : Page(ops[i].hook) # p
    BY <1>s, <1>5
  <2> QED
    BY <2>1, <2>2, <1>4, <1>r DEF OldestKeeps
<1>6. ASSUME NEW p \in Pages, NEW i \in DOMAIN ops', Page(ops'[i].hook) = p
      PROVE  /\ perm'[p] = "rwx"
             /\ OldestOn(p, i)' => ops'[i].perm = Rest(p)'
             /\ ~OldestOn(p, i)' => ops'[i].perm = "rwx"
  <2>1. CASE i = 1
    <3>1. p = Page(h) /\ ops'[i].perm = perm[p]
      BY <1>1, <1>3, <1>6, <2>1
    <3>2. CASE \E j \in DOMAIN ops : Page(ops[j].hook) = p
      <4>1. PICK j \in DOMAIN ops : Page(ops[j].hook) = p
        BY <3>2
      <4>2. perm[p] = "rwx"
        BY <4>1 DEF OldestKeeps
      <4>3. j + 1 \in DOMAIN ops' /\ Page(ops'[j + 1].hook) = p /\ ~(j + 1 <= i)
        BY <1>s, <2>1, <4>1, <1>3
      <4>4. ~OldestOn(p, i)'
        BY <4>3 DEF OldestOn, Page
      <4> QED
        BY <3>1, <4>2, <4>4, <1>4
    <3>3. CASE \A j \in DOMAIN ops : Page(ops[j].hook) # p
      <4>1. perm[p] = Rest(p)
        BY <3>3 DEF OldestKeeps
      <4>2. OldestOn(p, i)'
        <5> SUFFICES ASSUME NEW j \in DOMAIN ops', Page(ops'[j].hook) = p PROVE j <= i
          BY DEF OldestOn, Page
        <5>1. CASE j = 1
          BY <5>1, <2>1
        <5>2. CASE j # 1
          BY <1>3, <3>3, <5>2
        <5> QED
          BY <5>1, <5>2
      <4> QED
        BY <3>1, <4>1, <4>2, <1>4, <1>r
    <3> QED
      BY <3>2, <3>3
  <2>2. CASE i # 1
    <3>1. i - 1 \in DOMAIN ops /\ ops'[i] = ops[i - 1] /\ i \in Nat
      BY <1>3, <2>2
    <3>2. /\ perm[p] = "rwx"
          /\ OldestOn(p, i - 1) => ops[i - 1].perm = Rest(p)
          /\ ~OldestOn(p, i - 1) => ops[i - 1].perm = "rwx"
      BY <1>6, <3>1 DEF OldestKeeps
    <3>3. OldestOn(p, i)' => OldestOn(p, i - 1)
      <4> SUFFICES ASSUME OldestOn(p, i)', NEW j \in DOMAIN ops, Page(ops[j].hook) = p
                   PROVE  j <= i - 1
        BY DEF OldestOn
      <4>1. j + 1 \in DOMAIN ops' /\ Page(ops'[j + 1].hook) = p /\ j \in Nat
        BY <1>s
      <4>2. j + 1 <= i
        BY <4>1 DEF OldestOn, Page
      <4> QED
        BY <4>1, <4>2, <3>1
    <3>4. OldestOn(p, i - 1) => OldestOn(p, i)'
      <4> SUFFICES ASSUME OldestOn(p, i - 1), NEW j \in DOMAIN ops', Page(ops'[j].hook) = p
                   PROVE  j <= i
        BY DEF OldestOn, Page
      <4>1. CASE j = 1
        BY <4>1, <1>3, <2>2
      <4>2. CASE j # 1
        <5>1. j - 1 \in DOMAIN ops /\ ops'[j] = ops[j - 1] /\ j \in Nat
          BY <1>3, <4>2
        <5>2. j - 1 <= i - 1
          BY <5>1 DEF OldestOn
        <5> QED
          BY <5>1, <5>2, <3>1
      <4> QED
        BY <4>1, <4>2
    <3>5. perm'[p] = "rwx"
      BY <3>2, <1>1, <1>4
    <3> QED
      BY <3>1, <3>2, <3>3, <3>4, <3>5, <1>r
  <2> QED
    BY <2>1, <2>2
<1>7. \A i : Page(ops'[i].hook) = Page(ops[i].hook)'
  BY DEF Page
<1> QED
  BY <1>3, <1>4, <1>5, <1>6, <1>7 DEF OldestKeeps

(***************************************************************************)
(* The newest operation is closed: its page gets its permission back, or   *)
(* stays writable and is stuck.                                            *)
(***************************************************************************)
LEMMA CloseKeepsOldest ==
  ASSUME TypeOK, OldestKeeps, Close
  PROVE  /\ OldestKeeps' /\ ops' \in Seq(Operations) /\ perm' \in [Pages -> {"rx", "rwx"}]
         /\ stuck' \subseteq Pages \cup {"region"}
<1>1. /\ Head(ops) = ops[1] /\ ops[1] \in Operations
      /\ ops' = Tail(ops) /\ ops' \in Seq(Operations) /\ Len(ops) \in Nat \ {0}
      /\ DOMAIN ops = 1 .. Len(ops) /\ DOMAIN ops' = 1 .. Len(ops) - 1
      /\ \A i \in 1 .. Len(ops) - 1 : ops'[i] = ops[i + 1]
  BY Popped DEF TypeOK, Close
<1>q. PICK q \in Pages : q = Page(ops[1].hook)
  BY <1>1, TargetsAssumption DEF Page, Operations
<1>2. /\ ops[1].perm \in {"rx", "rwx"} /\ 1 \in DOMAIN ops
      /\ perm \in [Pages -> {"rx", "rwx"}] /\ stuck \subseteq Pages \cup {"region"}
      /\ \/ perm' = [perm EXCEPT ![q] = ops[1].perm] /\ stuck' = stuck
         \/ ops[1].perm # perm[q] /\ stuck' = stuck \cup {q} /\ perm' = perm
  BY <1>1, <1>q DEF Operations, Close, Restore, TypeOK
<1>3. perm' \in [Pages -> {"rx", "rwx"}] /\ stuck' \subseteq Pages \cup {"region"}
  BY <1>2
<1>4. \A i \in DOMAIN ops' : i + 1 \in DOMAIN ops /\ ops'[i] = ops[i + 1] /\ i \in Nat
  BY <1>1
<1>5. \A i \in DOMAIN ops : i = 1 \/ (i - 1 \in DOMAIN ops' /\ ops'[i - 1] = ops[i] /\ i \in Nat)
  BY <1>1
(* what the newest operation kept, and what its page is now *)
<1>6. /\ perm[q] = "rwx"
      /\ OldestOn(q, 1) => ops[1].perm = Rest(q)
      /\ ~OldestOn(q, 1) => ops[1].perm = "rwx"
  BY <1>2, <1>q DEF OldestKeeps
<1>7. /\ \A p \in Pages : p # q => perm'[p] = perm[p] /\ Rest(p)' = Rest(p)
      /\ OldestOn(q, 1) => perm'[q] = Rest(q)'
      /\ ~OldestOn(q, 1) => perm'[q] = "rwx" /\ Rest(q)' = Rest(q)
  <2>1. CASE perm' = [perm EXCEPT ![q] = ops[1].perm] /\ stuck' = stuck
    BY <2>1, <1>2, <1>6 DEF Rest
  <2>2. CASE ops[1].perm # perm[q] /\ stuck' = stuck \cup {q} /\ perm' = perm
    <3>1. OldestOn(q, 1)
      BY <2>2, <1>6
    <3> QED
      BY <2>2, <3>1, <1>2, <1>6 DEF Rest
  <2> QED
    BY <1>2, <2>1, <2>2
<1>8. ASSUME NEW p \in Pages, \A i \in DOMAIN ops' : Page(ops'[i].hook) # p
      PROVE  perm'[p] = Rest(p)'
  <2>1. ASSUME NEW i \in DOMAIN ops, i # 1 PROVE Page(ops[i].hook) # p
    BY <1>5, <1>8, <2>1
  <2>2. CASE q = p
    <3>1. OldestOn(q, 1)
      BY <2>1, <2>2, <1>1 DEF OldestOn
    <3> QED
      BY <3>1, <2>2, <1>7
  <2>3. CASE q # p
    <3>1. perm[p] = Rest(p)
      BY <2>1, <2>3, <1>q DEF OldestKeeps
    <3> QED
      BY <3>1, <1>7, <2>3
  <2> QED
    BY <2>2, <2>3
<1>9. ASSUME NEW p \in Pages, NEW i \in DOMAIN ops', Page(ops'[i].hook) = p
      PROVE  /\ perm'[p] = "rwx"
             /\ OldestOn(p, i)' => ops'[i].perm = Rest(p)'
             /\ ~OldestOn(p, i)' => ops'[i].perm = "rwx"
  <2>1. i + 1 \in DOMAIN ops /\ ops'[i] = ops[i + 1] /\ i \in Nat /\ ~(i + 1 <= 1)
    BY <1>1
  <2>2. ~OldestOn(p, 1)
    BY <2>1, <1>9 DEF OldestOn
  <2>3. /\ perm[p] = "rwx"
        /\ OldestOn(p, i + 1) => ops[i + 1].perm = Rest(p)
        /\ ~OldestOn(p, i + 1) => ops[i + 1].perm = "rwx"
    BY <1>9, <2>1 DEF OldestKeeps
  <2>4. perm'[p] = "rwx" /\ Rest(p)' = Rest(p)
    BY <2>2, <2>3, <1>7
  <2>5. OldestOn(p, i)' => OldestOn(p, i + 1)
    <3> SUFFICES ASSUME OldestOn(p, i)', NEW j \in DOMAIN ops, Page(ops[j].hook) = p
                 PROVE  j <= i + 1
      BY DEF OldestOn
    <3>1. CASE j = 1
      BY <3>1, <2>1
    <3>2. CASE j # 1
      <4>1. j - 1 \in DOMAIN ops' /\ Page(ops'[j - 1].hook) = p /\ j \in Nat
        BY <1>5, <3>2
      <4>2. j - 1 <= i
        BY <4>1 DEF OldestOn, Page
      <4> QED
        BY <4>1, <4>2, <2>1
    <3> QED
      BY <3>1, <3>2
  <2>6. OldestOn(p, i + 1) => OldestOn(p, i)'
    <3> SUFFICES ASSUME OldestOn(p, i + 1), NEW j \in DOMAIN ops', Page(ops'[j].hook) = p
                 PROVE  j <= i
      BY DEF OldestOn, Page
    <3>1. j + 1 \in DOMAIN ops /\ Page(ops[j + 1].hook) = p /\ j \in Nat
      BY <1>4
    <3>2. j + 1 <= i + 1
      BY <3>1 DEF OldestOn
    <3> QED
      BY <3>1, <3>2, <2>1
  <2> QED
    BY <2>1, <2>3, <2>4, <2>5, <2>6
<1>10. \A i : Page(ops'[i].hook) = Page(ops[i].hook)'
  BY DEF Page
<1> QED
  BY <1>1, <1>3, <1>8, <1>9, <1>10 DEF OldestKeeps

-----------------------------------------------------------------------------
CallType ==
  [at : {"idle", "call", "prologue", "hook", "allowed", "body", "loaded", "refused",
         "torn", "dead"},
   fn : Targets \cup {"none"}, hook : Hooks \cup {"none"}, dll : Dlls \cup {"none"},
   safe : BOOLEAN]

LEMMA InitIInv == Init => IInv
<1> SUFFICES ASSUME Init PROVE IInv
  OBVIOUS
<1>1. ops \in Seq(Operations) /\ DOMAIN ops = {} /\ removing = FALSE
  BY EmptySeq DEF Init
<1>2. TypeOK
  <2>1. NoCall \in CallType
    BY DEF NoCall, CallType
  <2>2. call \in [Callers -> CallType]
    BY <2>1 DEF Init
  <2>3. setter \in 0 .. Len(DllList) + 1
    BY ListsAssumption, LenProperties DEF Init
  <2> QED
    BY <1>1, <2>2, <2>3 DEF Init, TypeOK, CallType
<1>3. OldestKeeps
  BY <1>1 DEF OldestKeeps, Rest, Init
<1>4. NoHalf /\ Sound
  BY NamesAssumption DEF NoHalf, Sound, Init
<1>5. Before /\ Listing /\ Writing /\ Finishing /\ After
  BY DEF Before, Listing, Writing, Finishing, After, Clean, Idle, Init
<1>6. CallsTyped
  BY DEF CallsTyped, Init, NoCall
<1> QED
  BY <1>2, <1>3, <1>4, <1>5, <1>6 DEF IInv

(***************************************************************************)
(* A step of a caller, of setBlacklistedDlls or outside the system touches *)
(* neither the transaction nor the memory.                                 *)
(***************************************************************************)
Quiet == UNCHANGED <<exported, transaction, memory>>

LEMMA QuietKeeps ==
  ASSUME IInv, Quiet, TypeOK', CallsTyped'
  PROVE  IInv'
<1> USE DEF Quiet, transaction, memory
<1>1. OldestKeeps' /\ NoHalf' /\ Sound'
  BY DEF IInv, OldestKeeps, OldestOn, Rest, NoHalf, Sound, Page
<1>2. Stable' = Stable /\ Clean' = Clean /\ Full' = Full /\ OpHooks' = OpHooks
        /\ Idle' = Idle /\ Distinct' = Distinct /\ Exported' = Exported
  BY DEF Stable, Clean, Full, OpHooks, Idle, Distinct, Exported
<1>3. Before' /\ Listing' /\ Writing'
  BY <1>2 DEF IInv, Before, Listing, Writing
<1>4. Finishing' /\ After'
  BY <1>2 DEF IInv, Finishing, After
<1> QED
  BY <1>1, <1>3, <1>4 DEF IInv

LEMMA ListTyping ==
  ASSUME TypeOK, LockList \/ AddName
  PROVE  TypeOK'
<1>1. Len(DllList) \in Nat /\ DOMAIN DllList = 1 .. Len(DllList)
        /\ \A i \in DOMAIN DllList : DllList[i] \in Dlls
  BY ListsAssumption, LenProperties, ElementOfSeq
<1>2. CASE LockList
  BY <1>1, <1>2 DEF TypeOK, LockList, transaction, memory
<1>3. CASE AddName
  <2>1. setter' = setter + 1 /\ setter \in 1 .. Len(DllList)
    BY <1>1, <1>3 DEF AddName
  <2>2. narrow' \subseteq Dlls /\ wide' \subseteq Dlls /\ missed' \subseteq Dlls
    BY <1>1, <1>3 DEF TypeOK, AddName
  <2> QED
    BY <1>1, <1>3, <2>1, <2>2 DEF TypeOK, AddName, transaction, memory
<1> QED
  BY <1>2, <1>3

LEMMA GoTyping ==
  ASSUME TypeOK, NEW c \in Callers, NEW new \in CallType, Go(c, new)
  PROVE  TypeOK'
  BY DEF TypeOK, Go, CallType, transaction, memory, lists

LEMMA CallerStep ==
  ASSUME IInv, NEW c \in Callers, CallLoader(c) \/ Step(c)
  PROVE  IInv'
<1> USE DEF CallType
<1>1. /\ call[c] \in CallType /\ call \in [Callers -> CallType]
      /\ call[c].at \in {"call", "prologue", "body"} => call[c].fn \in Targets
      /\ call[c].at \in {"hook", "allowed"} => call[c].hook \in Hooks
  BY DEF IInv, TypeOK, CallsTyped
<1>2. SUFFICES ASSUME NEW new \in CallType, Go(c, new),
                      new.at \in {"call", "prologue", "body"} => new.fn \in Targets,
                      new.at \in {"hook", "allowed"} => new.hook \in Hooks
               PROVE  IInv'
  <2>1. CASE CallLoader(c)
    <3>1. PICK h \in Exported, d \in Dlls :
            Go(c, [at |-> "call", fn |-> TargetOf[h], hook |-> "none", dll |-> d,
                   safe |-> pc = "attached" /\ setter = Len(DllList) + 1])
      BY <2>1 DEF CallLoader
    <3>2. TargetOf[h] \in Targets
      BY TargetsAssumption DEF Exported
    <3> QED
      BY <1>2, <3>1, <3>2
  <2>2. CASE Enter(c)
    <3>1. code[call[c].fn] \in {"orig", "half"} \cup Hooks
      BY <1>1, <2>2 DEF Enter, IInv, TypeOK
    <3>2. CASE code[call[c].fn] = "orig"
      BY <1>1, <1>2, <2>2, <3>2 DEF Enter
    <3>3. CASE code[call[c].fn] = "half"
      BY <1>1, <1>2, <2>2, <3>3 DEF Enter
    <3>4. CASE code[call[c].fn] \in Hooks
      <4>1. code[call[c].fn] # "orig" /\ code[call[c].fn] # "half"
        BY <3>4, NamesAssumption
      <4>2. Go(c, [call[c] EXCEPT !.at = "hook", !.hook = code[call[c].fn]])
        BY <2>2, <4>1 DEF Enter
      <4> QED
        BY <1>1, <1>2, <3>4, <4>2
    <3> QED
      BY <3>1, <3>2, <3>3, <3>4
  <2>3. CASE Proceed(c)
    BY <1>1, <1>2, <2>3 DEF Proceed
  <2>4. CASE Check(c)
    <3>1. PICK a \in {"refused", "allowed"} : Go(c, [call[c] EXCEPT !.at = a])
      BY <2>4 DEF Check
    <3> QED
      BY <1>1, <1>2, <2>4, <3>1 DEF Check
  <2>5. CASE CallReal(c)
    <3>1. TargetOf[call[c].hook] \in Targets
      BY <1>1, <2>5, TargetsAssumption DEF CallReal
    <3>2. PICK a \in {"body", "call"} :
            Go(c, [call[c] EXCEPT !.fn = TargetOf[call[c].hook], !.at = a])
      BY <2>5 DEF CallReal
    <3> QED
      BY <1>1, <1>2, <3>1, <3>2
  <2>6. CASE CallInner(c)
    <3>1. Inner[call[c].fn] \in Targets
      BY <1>1, <2>6, ListsAssumption DEF CallInner
    <3> QED
      BY <1>1, <1>2, <2>6, <3>1 DEF CallInner
  <2>7. CASE LoadDll(c)
    BY <1>1, <1>2, <2>7 DEF LoadDll
  <2> QED
    BY <2>1, <2>2, <2>3, <2>4, <2>5, <2>6, <2>7 DEF Step
<1>3. TypeOK'
  BY <1>2, GoTyping DEF IInv
<1>4. CallsTyped'
  BY <1>1, <1>2 DEF Go, CallsTyped, IInv
<1>5. Quiet
  BY <1>2 DEF Go, Quiet
<1> QED
  BY <1>3, <1>4, <1>5, QuietKeeps

LEMMA ListStep ==
  ASSUME IInv, LockList \/ AddName
  PROVE  IInv'
<1>1. TypeOK'
  BY ListTyping DEF IInv
<1>2. call' = call /\ Quiet
  BY DEF LockList, AddName, Quiet, memory, transaction
<1>3. CallsTyped'
  BY <1>2 DEF CallsTyped, IInv
<1> QED
  BY <1>1, <1>2, <1>3, QuietKeeps

LEMMA Stuttering ==
  ASSUME IInv, UNCHANGED vars
  PROVE  IInv'
<1>1. Quiet /\ call' = call /\ UNCHANGED lists
  BY DEF vars, Quiet
<1>2. TypeOK'
  BY <1>1 DEF IInv, TypeOK, Quiet, transaction, memory, lists
<1>3. CallsTyped'
  BY <1>1 DEF CallsTyped, IInv
<1> QED
  BY <1>1, <1>2, <1>3, QuietKeeps

-----------------------------------------------------------------------------
(***************************************************************************)
(* The steps of DllMain.                                                   *)
(***************************************************************************)
LEMMA ListOfHooks ==
  /\ Len(HookList) \in Nat /\ DOMAIN HookList = 1 .. Len(HookList)
  /\ \A i \in 1 .. Len(HookList) : HookList[i] \in Hooks
  /\ \A h \in Hooks : \E i \in 1 .. Len(HookList) : h = HookList[i]
  /\ \A i, j \in 1 .. Len(HookList) : HookList[i] = HookList[j] => i = j
<1>1. HookList \in Seq(Hooks) /\ Range(HookList) = Hooks
  BY HooksAssumption
<1>2. Len(HookList) \in Nat /\ DOMAIN HookList = 1 .. Len(HookList)
  BY <1>1, LenProperties
<1>3. \A i \in 1 .. Len(HookList) : HookList[i] \in Hooks
  BY <1>1, ElementOfSeq
<1>4. \A h \in Hooks : \E i \in 1 .. Len(HookList) : h = HookList[i]
  BY <1>1, <1>2 DEF Range
<1> QED
  BY <1>2, <1>3, <1>4, HooksAssumption

LEMMA Operating ==
  ASSUME TypeOK
  PROVE  /\ Len(ops) \in Nat /\ DOMAIN ops = 1 .. Len(ops)
         /\ \A i \in DOMAIN ops : ops[i].hook \in Hooks /\ ops[i].hook \in OpHooks
         /\ OpHooks \subseteq Hooks
<1>1. ops \in Seq(Operations)
  BY DEF TypeOK
<1>2. Len(ops) \in Nat /\ DOMAIN ops = 1 .. Len(ops)
  BY <1>1, LenProperties
<1>3. \A i \in DOMAIN ops : ops[i] \in Operations
  BY <1>1, <1>2, ElementOfSeq
<1> QED
  BY <1>2, <1>3 DEF OpHooks, Operations

LEMMA Framed ==
  /\ UNCHANGED <<ptr, code, used, exported>> =>
        Full' = Full /\ Clean' = Clean /\ Stable' = Stable
  /\ UNCHANGED exported => Exported' = Exported
  /\ UNCHANGED ops => OpHooks' = OpHooks /\ Distinct' = Distinct
  /\ UNCHANGED <<ops, perm, stuck>> => OldestKeeps' = OldestKeeps
  /\ UNCHANGED call => CallsTyped' = CallsTyped
  BY DEF Full, Clean, Stable, Exported, OpHooks, Distinct, OldestKeeps, OldestOn, Rest,
         CallsTyped, Page

LEMMA LoadStep == ASSUME IInv, Load PROVE IInv'
<1> USE DEF Load, memory, lists
<1>1. TypeOK' /\ CallsTyped' /\ OldestKeeps'
  BY Framed DEF IInv, TypeOK
<1>2. NoHalf' /\ Sound'
  BY DEF IInv, NoHalf, Sound
<1>3. Before' /\ After'
  BY Framed DEF IInv, Before, After, Idle
<1>4. Listing' /\ Writing' /\ Finishing'
  BY DEF Listing, Writing, Finishing
<1> QED
  BY <1>1, <1>2, <1>3, <1>4 DEF IInv

LEMMA UnloadStep == ASSUME IInv, Unload PROVE IInv'
<1> USE DEF Unload, memory, lists
<1>1. TypeOK'
  <2>1. [NoCall EXCEPT !.at = "dead"] \in CallType
    BY DEF NoCall, CallType
  <2>2. call' \in [Callers -> CallType]
    BY <2>1
  <2> QED
    BY <2>2 DEF IInv, TypeOK, CallType
<1>2. CallsTyped'
  BY DEF CallsTyped, NoCall
<1>3. OldestKeeps' /\ NoHalf' /\ Sound'
  BY Framed DEF IInv, NoHalf, Sound
<1>4. Before' /\ After'
  BY Framed DEF IInv, Before, After, Idle, Stable
<1>5. Listing' /\ Writing' /\ Finishing'
  BY DEF Listing, Writing, Finishing
<1> QED
  BY <1>1, <1>2, <1>3, <1>4, <1>5 DEF IInv

LEMMA BeginStep == ASSUME IInv, Begin PROVE IInv'
<1> USE DEF Begin, lists
<1>1. ops = <<>> /\ pc' = "list" /\ UNCHANGED <<ops, stuck>>
  BY DEF IInv, Before, Idle
<1>2. TypeOK' /\ CallsTyped' /\ OldestKeeps'
  BY <1>1, Framed DEF IInv, TypeOK
<1>3. NoHalf' /\ Sound'
  BY DEF IInv, NoHalf, Sound
<1>4. Listing'
  <2>1. OpHooks' = {} /\ Distinct'
    BY <1>1, EmptySeq DEF OpHooks, Distinct
  <2>2. pos' \in 1 .. Len(HookList) + 1 /\ 1 .. pos' - 1 = {}
    BY ListOfHooks
  <2>3. ~removing' => used' = {} /\ (\A t \in Targets : code'[t] = "orig")
                        /\ (\A h \in Hooks : ptr'[h] # "tramp")
    BY DEF IInv, Before, Clean
  <2>4. removing' => Stable'
    BY Framed DEF IInv, Before
  <2> QED
    BY <2>1, <2>2, <2>3, <2>4 DEF Listing
<1>5. Before' /\ After' /\ Writing' /\ Finishing'
  BY <1>1 DEF Before, After, Writing, Finishing
<1> QED
  BY <1>2, <1>3, <1>4, <1>5 DEF IInv

(***************************************************************************)
(* What scheduling the hook at pos does to the list of operations.         *)
(***************************************************************************)
LEMMA ScheduledHooks ==
  ASSUME IInv, NEW h \in Hooks, AtHook(h), Schedule(h), UNCHANGED stuck
  PROVE  /\ OpHooks' = OpHooks \cup {h} /\ h \notin OpHooks
         /\ Distinct' /\ OldestKeeps'
         /\ ops' \in Seq(Operations) /\ perm' \in [Pages -> {"rx", "rwx"}]
<1> DEFINE o == [hook |-> h, perm |-> perm[Page(h)]]
<1>1. TypeOK /\ pc = "list" /\ pos \in 1 .. Len(HookList) /\ h = HookList[pos]
        /\ Distinct /\ \A g \in OpHooks : \E i \in 1 .. pos - 1 : g = HookList[i]
  BY ListOfHooks DEF IInv, AtHook, Listing
<1>2. h \notin OpHooks
  <2>1. ASSUME NEW i \in 1 .. pos - 1, h = HookList[i] PROVE FALSE
    <3>1. i \in 1 .. Len(HookList) /\ i # pos
      BY <1>1, ListOfHooks
    <3> QED
      BY <1>1, <2>1, <3>1, ListOfHooks
  <2> QED
    BY <1>1, <2>1
<1>3. o \in Operations /\ o.hook = h
  BY <1>1, TargetsAssumption DEF Page, Operations, TypeOK
<1>4. ops \in Seq(Operations) /\ ops' = <<o>> \o ops
  BY <1>1 DEF TypeOK, Schedule
<1> HIDE DEF o
<1>5. /\ DOMAIN ops' = 1 .. Len(ops) + 1 /\ DOMAIN ops = 1 .. Len(ops) /\ Len(ops) \in Nat
      /\ ops'[1] = o
      /\ \A i \in 1 .. Len(ops) : ops'[i + 1] = ops[i]
      /\ \A i \in 2 .. Len(ops) + 1 : ops'[i] = ops[i - 1] /\ i - 1 \in DOMAIN ops
  BY <1>3, <1>4, Pushed, LenProperties
<1>6. OpHooks' = OpHooks \cup {h}
  <2>1. ASSUME NEW i \in DOMAIN ops' PROVE ops'[i].hook \in OpHooks \cup {h}
    <3>1. CASE i = 1
      BY <3>1, <1>3, <1>5
    <3>2. CASE i # 1
      <4>1. i - 1 \in DOMAIN ops /\ ops'[i] = ops[i - 1]
        BY <3>2, <1>5
      <4> QED
        BY <4>1 DEF OpHooks
    <3> QED
      BY <3>1, <3>2
  <2>2. h \in OpHooks'
    <3>1. 1 \in DOMAIN ops' /\ ops'[1].hook = h
      BY <1>3, <1>5
    <3> QED
      BY <3>1 DEF OpHooks
  <2>3. ASSUME NEW i \in DOMAIN ops PROVE ops[i].hook \in OpHooks'
    <3>1. i + 1 \in DOMAIN ops' /\ ops'[i + 1] = ops[i]
      BY <1>5
    <3> QED
      BY <3>1 DEF OpHooks
  <2> QED
    BY <2>1, <2>2, <2>3 DEF OpHooks
<1>7. Distinct'
  <2>1. \A i \in DOMAIN ops' : i = 1 \/ (i - 1 \in DOMAIN ops /\ ops'[i] = ops[i - 1])
    BY <1>5
  <2>2. \A i \in DOMAIN ops' : i # 1 => ops'[i].hook \in OpHooks
    BY <2>1 DEF OpHooks
  <2> SUFFICES ASSUME NEW i \in DOMAIN ops', NEW j \in DOMAIN ops', ops'[i].hook = ops'[j].hook
               PROVE  i = j
    BY DEF Distinct
  <2>3. CASE i = 1 \/ j = 1
    BY <2>2, <2>3, <1>2, <1>3, <1>5
  <2>4. CASE i # 1 /\ j # 1
    <3>1. i - 1 = j - 1
      BY <2>1, <2>4, <1>1 DEF Distinct
    <3> QED
      BY <3>1, <1>5
  <2> QED
    BY <2>3, <2>4
<1> QED
  BY <1>1, <1>2, <1>6, <1>7, ScheduleKeepsOldest DEF IInv

(* a jump is only half written between WriteOpcode and WriteJump *)
LEMMA NoHalfYet ==
  ASSUME IInv, pc # "jump"
  PROVE  \A t \in Targets : code[t] \in {"orig"} \cup Hooks
  BY DEF IInv, NoHalf, TypeOK

LEMMA AttachStep == ASSUME IInv, NEW h \in Hooks, Attach(h) PROVE IInv'
<1> USE DEF Attach, NextHook, lists
<1>1. /\ pc = "list" /\ pc' = "list" /\ pos' = pos + 1 /\ pos \in 1 .. Len(HookList)
      /\ h = HookList[pos] /\ exported[h] /\ ~removing /\ ~removing'
      /\ exported' = exported /\ code' = code /\ stuck' = stuck
      /\ ptr' = [ptr EXCEPT ![h] = "target"]
  BY ListOfHooks DEF AtHook
<1>2. CASE error \/ error'
  <2>1. CASE UNCHANGED <<ops, perm, used>>
    <3>1. error' /\ region' \in {region, "rwx"}
      BY <1>2, <2>1, <1>1, ScheduledHooks
    <3>2. TypeOK' /\ CallsTyped' /\ OldestKeeps'
      BY <1>1, <2>1, <3>1, Framed DEF IInv, TypeOK
    <3>3. \A g \in Hooks : ptr'[g] # "tramp"
      BY <1>1 DEF IInv, Listing, TypeOK
    <3>4. NoHalf' /\ Sound'
      BY <1>1, <2>1, <3>1, <3>3 DEF IInv, NoHalf, Sound
    <3>5. Listing'
      <4>1. OpHooks' = OpHooks /\ Distinct' /\ Exported' = Exported
        BY <1>1, <2>1, Framed DEF IInv, Listing
      <4>2. \A g \in OpHooks : \E i \in 1 .. pos : g = HookList[i]
        BY <1>1, ListOfHooks DEF IInv, Listing
      <4> QED
        BY <1>1, <2>1, <3>1, <3>3, <4>1, <4>2, ListOfHooks DEF IInv, Listing
    <3>6. Before' /\ Writing' /\ Finishing' /\ After'
      BY <1>1 DEF Before, Writing, Finishing, After
    <3> QED
      BY <3>2, <3>4, <3>5, <3>6 DEF IInv
  <2>2. CASE ~UNCHANGED <<ops, perm, used>>
    BY <1>2, <2>2
  <2> QED
    BY <2>1, <2>2
<1>3. CASE ~error /\ ~error'
  <2>1. Schedule(h) /\ used' = used \cup {h} /\ region' = "rwx"
    BY <1>3 DEF IInv, TypeOK
  <2>2. /\ OpHooks' = OpHooks \cup {h} /\ h \notin OpHooks
        /\ Distinct' /\ OldestKeeps'
        /\ ops' \in Seq(Operations) /\ perm' \in [Pages -> {"rx", "rwx"}]
    BY <1>1, <2>1, ScheduledHooks
  <2>3. TypeOK' /\ CallsTyped'
    BY <1>1, <1>3, <2>1, <2>2, Framed DEF IInv, TypeOK
  <2>4. \A g \in Hooks : ptr'[g] # "tramp"
    BY <1>1 DEF IInv, Listing, TypeOK
  <2>5. NoHalf' /\ Sound'
    BY <1>1, <2>1, <2>4 DEF IInv, NoHalf, Sound
  <2>6. Listing'
    <3>1. Exported' = Exported /\ h \in Exported
      BY <1>1, Framed DEF Exported
    <3>2. \A g \in OpHooks' : \E i \in 1 .. pos' - 1 : g = HookList[i]
      BY <1>1, <2>2, ListOfHooks DEF IInv, Listing
    <3>3. \A i \in 1 .. pos' - 1 : exported[HookList[i]] => HookList[i] \in OpHooks'
      <4>1. ASSUME NEW i \in 1 .. pos' - 1 PROVE i \in 1 .. pos - 1 \/ i = pos
        BY <1>1
      <4> QED
        BY <4>1, <1>1, <1>3, <2>2 DEF IInv, Listing
    <3> QED
      BY <1>1, <1>3, <2>1, <2>2, <2>4, <3>1, <3>2, <3>3, ListOfHooks DEF IInv, Listing
  <2>7. Before' /\ Writing' /\ Finishing' /\ After'
    BY <1>1 DEF Before, Writing, Finishing, After
  <2> QED
    BY <2>2, <2>3, <2>5, <2>6, <2>7 DEF IInv
<1> QED
  BY <1>2, <1>3

LEMMA DetachStep == ASSUME IInv, NEW h \in Hooks, Detach(h) PROVE IInv'
<1> USE DEF Detach, NextHook, lists
<1>1. /\ pc = "list" /\ pc' = "list" /\ pos' = pos + 1 /\ pos \in 1 .. Len(HookList)
      /\ h = HookList[pos] /\ removing /\ removing'
      /\ UNCHANGED <<exported, code, ptr, used, region, stuck>>
  BY ListOfHooks DEF AtHook
<1>2. Stable' /\ Sound' /\ NoHalf' /\ CallsTyped'
  BY <1>1, Framed DEF IInv, Listing, Sound, NoHalf
<1>3. Before' /\ Writing' /\ Finishing' /\ After'
  BY <1>1 DEF Before, Writing, Finishing, After
<1>4. CASE UNCHANGED <<ops, perm>>
  <2>1. error'
    BY <1>1, <1>4, ScheduledHooks, Framed
  <2>2. TypeOK' /\ OldestKeeps'
    BY <1>1, <1>4, <2>1, Framed DEF IInv, TypeOK
  <2>3. Listing'
    <3>1. OpHooks' = OpHooks /\ Distinct'
      BY <1>1, <1>4, Framed DEF IInv, Listing
    <3>2. \A g \in OpHooks : \E i \in 1 .. pos : g = HookList[i]
      BY <1>1, ListOfHooks DEF IInv, Listing
    <3> QED
      BY <1>1, <1>2, <2>1, <3>1, <3>2, ListOfHooks DEF IInv, Listing
  <2> QED
    BY <1>2, <1>3, <2>2, <2>3 DEF IInv
<1>5. CASE ~UNCHANGED <<ops, perm>>
  <2>1. Schedule(h) /\ ~error /\ ~error' /\ ptr[h] = "tramp"
    BY <1>5
  <2>2. /\ OpHooks' = OpHooks \cup {h} /\ h \notin OpHooks
        /\ Distinct' /\ OldestKeeps'
        /\ ops' \in Seq(Operations) /\ perm' \in [Pages -> {"rx", "rwx"}]
    BY <1>1, <2>1, ScheduledHooks DEF Detach
  <2>3. TypeOK'
    BY <1>1, <2>1, <2>2 DEF IInv, TypeOK
  <2>4. Listing'
    <3>1. OpHooks' \subseteq used'
      BY <1>1, <2>1, <2>2 DEF IInv, Listing, Sound
    <3>2. \A g \in OpHooks' : \E i \in 1 .. pos' - 1 : g = HookList[i]
      BY <1>1, <2>2, ListOfHooks DEF IInv, Listing
    <3>3. \A i \in 1 .. pos' - 1 : ptr'[HookList[i]] # "null" => HookList[i] \in OpHooks'
      <4>1. ASSUME NEW i \in 1 .. pos' - 1 PROVE i \in 1 .. pos - 1 \/ i = pos
        BY <1>1
      <4> QED
        BY <4>1, <1>1, <2>1, <2>2 DEF IInv, Listing
    <3> QED
      BY <1>1, <1>2, <2>1, <2>2, <3>1, <3>2, <3>3, ListOfHooks DEF Listing
  <2> QED
    BY <1>2, <1>3, <2>2, <2>3, <2>4 DEF IInv
<1> QED
  BY <1>4, <1>5

LEMMA SkipStep == ASSUME IInv, NEW h \in Hooks, SkipHook(h) PROVE IInv'
<1> USE DEF SkipHook, NextHook, lists, memory
<1>1. /\ pc = "list" /\ pc' = "list" /\ pos' = pos + 1 /\ pos \in 1 .. Len(HookList)
      /\ h = HookList[pos]
      /\ UNCHANGED <<exported, code, ptr, used, region, stuck, ops, perm, removing, error>>
  BY ListOfHooks DEF AtHook
<1>2. Stable' = Stable /\ Sound' /\ NoHalf' /\ CallsTyped' /\ OldestKeeps' /\ TypeOK'
  BY <1>1, Framed DEF IInv, Sound, NoHalf, TypeOK
<1>3. Before' /\ Writing' /\ Finishing' /\ After'
  BY <1>1 DEF Before, Writing, Finishing, After
<1>4. Listing'
  <2>1. OpHooks' = OpHooks /\ Distinct' /\ Exported' = Exported
    BY <1>1, Framed DEF IInv, Listing
  <2>2. \A g \in OpHooks : \E i \in 1 .. pos : g = HookList[i]
    BY <1>1, ListOfHooks DEF IInv, Listing
  <2>3. \A i \in 1 .. pos' - 1 : i \in 1 .. pos - 1 \/ i = pos
    BY <1>1
  <2>4. IF removing THEN ptr[h] = "null" ELSE ~exported[h]
    OBVIOUS
  <2> QED
    BY <1>1, <1>2, <2>1, <2>2, <2>3, <2>4, ListOfHooks DEF IInv, Listing
<1> QED
  BY <1>2, <1>3, <1>4 DEF IInv

LEMMA CommitStep == ASSUME IInv, Commit PROVE IInv'
<1> USE DEF Commit, lists, memory
<1>1. /\ pc = "list" /\ pos = Len(HookList) + 1 /\ pos' = 1 /\ 1 .. pos' - 1 = {}
      /\ UNCHANGED <<exported, code, ptr, used, region, stuck, ops, perm, removing, error>>
      /\ pc' = IF error THEN "abort" ELSE "write"
  OBVIOUS
<1>2. /\ Stable' = Stable /\ Full' = Full /\ Clean' = Clean /\ Exported' = Exported
      /\ OpHooks' = OpHooks /\ Distinct' = Distinct
  BY <1>1, Framed
<1>3. Sound' /\ NoHalf' /\ CallsTyped' /\ OldestKeeps' /\ TypeOK'
  BY <1>1, Framed DEF IInv, Sound, NoHalf, TypeOK
<1>4. Before' /\ Listing' /\ After'
  BY <1>1 DEF Before, Listing, After
<1>5. Finishing'
  BY <1>1, <1>2 DEF IInv, Listing, Finishing
<1>6. ASSUME ~error PROVE used = OpHooks /\ (~removing => used = Exported)
  <2>1. \A h \in Hooks : \E i \in 1 .. pos - 1 : h = HookList[i]
    BY <1>1, ListOfHooks
  <2>2. CASE ~removing
    <3>1. Exported \subseteq OpHooks
      BY <1>1, <1>6, <2>1, <2>2 DEF Exported, IInv, Listing
    <3> QED
      BY <3>1, <1>1, <2>2 DEF IInv, Listing
  <2>3. CASE removing
    <3>1. OpHooks \subseteq used /\ Stable
      BY <1>1, <2>3 DEF IInv, Listing
    <3>2. CASE Clean
      BY <3>1, <3>2, <2>3 DEF Clean
    <3>3. CASE Full
      <4>1. \A h \in used : h \in Hooks /\ ptr[h] # "null"
        BY <3>3 DEF Full, Exported
      <4>2. used \subseteq OpHooks
        BY <4>1, <1>1, <1>6, <2>1, <2>3 DEF IInv, Listing
      <4> QED
        BY <4>2, <3>1, <2>3
    <3> QED
      BY <3>1, <3>2, <3>3 DEF Stable
  <2> QED
    BY <2>2, <2>3
<1>7. Writing'
  <2>1. pos' \in 1 .. Len(ops') + 1
    BY <1>1, Operating DEF IInv
  <2> QED
    BY <1>1, <1>2, <1>6, <2>1 DEF IInv, Listing, Writing
<1> QED
  BY <1>3, <1>4, <1>5, <1>7 DEF IInv

LEMMA WriteOpcodeStep == ASSUME IInv, NEW h \in Hooks, WriteOpcode(h) PROVE IInv'
<1> USE DEF WriteOpcode, lists
<1>1. /\ pc = "write" /\ pc' = "jump" /\ ~removing /\ pos \in DOMAIN ops /\ h = ops[pos].hook
      /\ code' = [code EXCEPT ![TargetOf[h]] = IF @ = "orig" THEN "half" ELSE @]
      /\ UNCHANGED <<pos, exported, ptr, used, region, stuck, ops, perm, removing, error>>
  BY DEF AtOp
<1>2. OpHooks' = OpHooks /\ Distinct' = Distinct /\ Exported' = Exported
  BY <1>1, Framed
<1>3. \A t \in Targets : \/ code'[t] = code[t] /\ code[t] \in {"orig"} \cup Hooks
                         \/ code'[t] = "half" /\ code[t] = "orig" /\ t = TargetOf[h]
  BY <1>1, NoHalfYet, TargetsAssumption DEF IInv, TypeOK
<1>4. TypeOK'
  <2>1. call' \in [Callers -> CallType]
    <3>1. call \in [Callers -> CallType]
      BY DEF IInv, TypeOK, CallType
    <3>2. \A c \in Callers : [call[c] EXCEPT !.at = "torn"] \in CallType
      BY <3>1 DEF CallType
    <3> QED
      BY <3>1, <3>2 DEF Tear
  <2>2. code' \in [Targets -> {"orig", "half"} \cup Hooks]
    BY <1>1, TargetsAssumption DEF IInv, TypeOK
  <2> QED
    BY <1>1, <2>1, <2>2 DEF IInv, TypeOK, CallType
<1>5. CallsTyped'
  <2>1. \A c \in Callers : call'[c] = call[c] \/ call'[c].at = "torn"
    BY DEF Tear, IInv, TypeOK
  <2> QED
    BY <2>1 DEF CallsTyped, IInv
<1>6. OldestKeeps'
  BY <1>1, Framed DEF IInv
<1>7. NoHalf'
  BY <1>1, <1>3, NamesAssumption DEF NoHalf
<1>8. Sound'
  BY <1>1, <1>3, NamesAssumption DEF IInv, Sound
<1>9. Writing'
  <2>1. /\ ~error /\ Distinct /\ used = OpHooks /\ used = Exported
        /\ pos \in 1 .. Len(ops) + 1
        /\ \A i \in 1 .. pos - 1 : /\ ptr[ops[i].hook] = "tramp"
                                   /\ code[TargetOf[ops[i].hook]] \in Exported
    BY <1>1 DEF IInv, Writing
  <2>2. ASSUME NEW i \in 1 .. pos - 1
        PROVE  ptr'[ops'[i].hook] = "tramp" /\ code'[TargetOf[ops'[i].hook]] \in Exported'
    <3>1. i \in DOMAIN ops /\ ops[i].hook \in Hooks
      BY <2>1, Operating DEF IInv
    <3>2. TargetOf[ops[i].hook] \in Targets
      BY <3>1, TargetsAssumption
    <3>3. code[TargetOf[ops[i].hook]] # "orig"
      BY <2>1, NamesAssumption DEF Exported
    <3> QED
      BY <1>1, <1>2, <1>3, <2>1, <3>2, <3>3
  <2> QED
    BY <1>1, <1>2, <2>1, <2>2 DEF Writing
<1>10. Before' /\ Listing' /\ Finishing' /\ After'
  BY <1>1 DEF Before, Listing, Finishing, After
<1> QED
  BY <1>4, <1>5, <1>6, <1>7, <1>8, <1>9, <1>10 DEF IInv

LEMMA WriteJumpStep == ASSUME IInv, NEW h \in Hooks, WriteJump(h) PROVE IInv'
<1> USE DEF WriteJump, lists
<1>1. /\ pc = "jump" /\ pc' = "pointer" /\ pos \in DOMAIN ops /\ h = ops[pos].hook
      /\ code' = [code EXCEPT ![TargetOf[h]] = h]
      /\ UNCHANGED <<pos, exported, ptr, used, region, stuck, ops, perm, removing, error>>
  BY DEF AtOp
<1>2. OpHooks' = OpHooks /\ Distinct' = Distinct /\ Exported' = Exported
  BY <1>1, Framed
<1>3. /\ ~error /\ Distinct /\ used = OpHooks /\ used = Exported /\ ~removing
      /\ pos \in 1 .. Len(ops) + 1
      /\ \A i \in 1 .. pos - 1 : /\ ptr[ops[i].hook] = "tramp"
                                 /\ code[TargetOf[ops[i].hook]] \in Exported
  BY <1>1 DEF IInv, Writing
<1>4. h \in used /\ TargetOf[h] \in Targets
  BY <1>1, <1>3, Operating, TargetsAssumption DEF IInv
<1>5. \A t \in Targets : IF t = TargetOf[h] THEN code'[t] = h ELSE code'[t] = code[t]
  BY <1>1 DEF IInv, TypeOK
<1>6. TypeOK' /\ CallsTyped' /\ OldestKeeps'
  BY <1>1, Framed DEF IInv, TypeOK
<1>7. NoHalf'
  BY <1>1, <1>5, NamesAssumption DEF IInv, NoHalf
<1>8. Sound'
  BY <1>1, <1>4, <1>5 DEF IInv, Sound
<1>9. Writing'
  <2>1. ASSUME NEW i \in 1 .. pos - 1 PROVE code'[TargetOf[ops[i].hook]] \in Exported
    <3>1. i \in DOMAIN ops /\ ops[i].hook \in Hooks
      BY <1>3, Operating DEF IInv
    <3>2. TargetOf[ops[i].hook] \in Targets
      BY <3>1, TargetsAssumption
    <3> QED
      BY <3>2, <1>3, <1>4, <1>5
  <2>2. code'[TargetOf[ops[pos].hook]] \in Exported
    BY <1>1, <1>3, <1>4, <1>5
  <2> QED
    BY <1>1, <1>2, <1>3, <2>1, <2>2 DEF Writing
<1>10. Before' /\ Listing' /\ Finishing' /\ After'
  BY <1>1 DEF Before, Listing, Finishing, After
<1> QED
  BY <1>6, <1>7, <1>8, <1>9, <1>10 DEF IInv

LEMMA WritePointerStep == ASSUME IInv, NEW h \in Hooks, WritePointer(h) PROVE IInv'
<1> USE DEF WritePointer, lists
<1>1. /\ pc = "pointer" /\ pc' = "write" /\ pos \in DOMAIN ops /\ h = ops[pos].hook
      /\ pos' = pos + 1 /\ ptr' = [ptr EXCEPT ![h] = "tramp"]
      /\ UNCHANGED <<exported, code, used, region, stuck, ops, perm, removing, error>>
  BY DEF AtOp
<1>2. OpHooks' = OpHooks /\ Distinct' = Distinct /\ Exported' = Exported
  BY <1>1, Framed
<1>3. /\ ~error /\ Distinct /\ used = OpHooks /\ used = Exported /\ ~removing
      /\ pos \in 1 .. Len(ops) + 1
      /\ \A i \in 1 .. pos - 1 : /\ ptr[ops[i].hook] = "tramp"
                                 /\ code[TargetOf[ops[i].hook]] \in Exported
      /\ code[TargetOf[ops[pos].hook]] \in Exported
  BY <1>1 DEF IInv, Writing
<1>4. h \in used /\ DOMAIN ops = 1 .. Len(ops) /\ Len(ops) \in Nat
  BY <1>1, <1>3, Operating DEF IInv
<1>5. \A g \in Hooks : IF g = h THEN ptr'[g] = "tramp" ELSE ptr'[g] = ptr[g]
  BY <1>1 DEF IInv, TypeOK
<1>6. TypeOK' /\ CallsTyped' /\ OldestKeeps'
  BY <1>1, Framed DEF IInv, TypeOK
<1>7. NoHalf' /\ Sound'
  BY <1>1, <1>4, <1>5 DEF IInv, NoHalf, Sound
<1>8. Writing'
  <2>1. ASSUME NEW i \in 1 .. pos
        PROVE  ptr'[ops[i].hook] = "tramp" /\ code[TargetOf[ops[i].hook]] \in Exported
    <3>1. i \in DOMAIN ops /\ ops[i].hook \in Hooks
      BY <1>1, <1>4, Operating DEF IInv
    <3>2. i \in 1 .. pos - 1 \/ i = pos
      BY <1>3
    <3> QED
      BY <1>1, <1>3, <1>5, <3>1, <3>2
  <2>2. pos' \in 1 .. Len(ops) + 1 /\ pos' - 1 = pos
    BY <1>1, <1>4
  <2> QED
    BY <1>1, <1>2, <1>3, <2>1, <2>2 DEF Writing
<1>9. Before' /\ Listing' /\ Finishing' /\ After'
  BY <1>1 DEF Before, Listing, Finishing, After
<1> QED
  BY <1>6, <1>7, <1>8, <1>9 DEF IInv

LEMMA RestoreCodeStep == ASSUME IInv, NEW h \in Hooks, RestoreCode(h) PROVE IInv'
<1> USE DEF RestoreCode, lists
<1>1. /\ pc = "write" /\ pc' = "write" /\ pos \in DOMAIN ops /\ h = ops[pos].hook
      /\ removing /\ pos' = pos + 1
      /\ code' = [code EXCEPT ![TargetOf[h]] = "orig"] /\ ptr' = [ptr EXCEPT ![h] = "target"]
      /\ UNCHANGED <<exported, used, region, stuck, ops, perm, removing, error>>
  BY DEF AtOp
<1>2. OpHooks' = OpHooks /\ Distinct' = Distinct /\ Exported' = Exported
  BY <1>1, Framed
<1>3. /\ ~error /\ Distinct /\ used = OpHooks /\ pos \in 1 .. Len(ops) + 1
      /\ \A i \in 1 .. pos - 1 : /\ ptr[ops[i].hook] # "tramp"
                                 /\ code[TargetOf[ops[i].hook]] = "orig"
  BY <1>1 DEF IInv, Writing
<1>4. DOMAIN ops = 1 .. Len(ops) /\ Len(ops) \in Nat
  BY Operating DEF IInv
<1>5. /\ \A g \in Hooks : IF g = h THEN ptr'[g] = "target" ELSE ptr'[g] = ptr[g]
      /\ \A t \in Targets : IF t = TargetOf[h] THEN code'[t] = "orig" ELSE code'[t] = code[t]
  BY <1>1 DEF IInv, TypeOK
<1>6. TypeOK' /\ CallsTyped' /\ OldestKeeps'
  <2>1. code' \in [Targets -> {"orig", "half"} \cup Hooks]
    BY <1>1 DEF IInv, TypeOK
  <2>2. ptr' \in [Hooks -> {"null", "target", "tramp"}]
    BY <1>1 DEF IInv, TypeOK
  <2>3. pos' \in Nat
    BY <1>1 DEF IInv, TypeOK
  <2> QED
    BY <1>1, <2>1, <2>2, <2>3, Framed DEF IInv, TypeOK
<1>7. NoHalf' /\ Sound'
  BY <1>1, <1>5, NamesAssumption DEF IInv, NoHalf, Sound
<1>8. Writing'
  <2>1. ASSUME NEW i \in 1 .. pos
        PROVE  ptr'[ops[i].hook] # "tramp" /\ code'[TargetOf[ops[i].hook]] = "orig"
    <3>1. i \in DOMAIN ops /\ ops[i].hook \in Hooks
      BY <1>1, <1>4, Operating DEF IInv
    <3>2. i \in 1 .. pos - 1 \/ i = pos
      BY <1>3
    <3>3. TargetOf[ops[i].hook] \in Targets
      BY <3>1, TargetsAssumption
    <3> QED
      BY <1>1, <1>3, <1>5, <3>1, <3>2, <3>3
  <2>2. pos' \in 1 .. Len(ops) + 1 /\ pos' - 1 = pos
    BY <1>1, <1>4
  <2> QED
    BY <1>1, <1>2, <1>3, <2>1, <2>2 DEF Writing
<1>9. Before' /\ Listing' /\ Finishing' /\ After'
  BY <1>1 DEF Before, Listing, Finishing, After
<1> QED
  BY <1>6, <1>7, <1>8, <1>9 DEF IInv

LEMMA WrittenStep == ASSUME IInv, Written PROVE IInv'
<1> USE DEF Written, lists, memory
<1>1. /\ pc = "write" /\ pc' = "finish" /\ pos - 1 = Len(ops) /\ ~error
      /\ UNCHANGED <<pos, exported, code, ptr, used, region, stuck, ops, perm, removing, error>>
  BY Operating DEF IInv, Writing
<1>2. /\ Stable' = Stable /\ Full' = Full /\ Clean' = Clean /\ Exported' = Exported
      /\ OpHooks' = OpHooks /\ Distinct' = Distinct
  BY <1>1, Framed
<1>3. Sound' /\ NoHalf' /\ CallsTyped' /\ OldestKeeps' /\ TypeOK'
  BY <1>1, Framed DEF IInv, Sound, NoHalf, TypeOK
<1>4. Distinct /\ used = OpHooks
  BY <1>1 DEF IInv, Writing
<1>5. \A h \in OpHooks : \E i \in 1 .. pos - 1 : h = ops[i].hook
  BY <1>1, Operating DEF IInv, OpHooks
<1>6. ASSUME ~removing PROVE Full
  BY <1>1, <1>4, <1>5, <1>6 DEF IInv, Writing, Full
<1>7. ASSUME removing
      PROVE  (\A t \in Targets : code[t] = "orig") /\ (\A h \in Hooks : ptr[h] # "tramp")
  <2>1. \A h \in OpHooks : ptr[h] # "tramp" /\ code[TargetOf[h]] = "orig"
    BY <1>1, <1>5, <1>7 DEF IInv, Writing
  <2>2. ASSUME NEW t \in Targets PROVE code[t] = "orig"
    <3>1. code[t] \in Hooks => code[t] \in OpHooks /\ TargetOf[code[t]] = t
      BY <1>4 DEF IInv, Sound
    <3>2. code[t] \in {"orig"} \cup Hooks
      BY <1>1, NoHalfYet
    <3> QED
      BY <2>1, <3>1, <3>2
  <2>3. \A h \in Hooks : ptr[h] # "tramp"
    BY <1>4, <2>1 DEF IInv, Sound
  <2> QED
    BY <2>2, <2>3
<1>8. Finishing'
  BY <1>1, <1>2, <1>4, <1>6, <1>7 DEF Finishing
<1>9. Before' /\ Listing' /\ Writing' /\ After'
  BY <1>1 DEF Before, Listing, Writing, After
<1> QED
  BY <1>3, <1>8, <1>9 DEF IInv

LEMMA CloseStep == ASSUME IInv, Close PROVE IInv'
<1> USE DEF lists
<1> DEFINE h == ops[1].hook
<1>1. /\ Head(ops) = ops[1] /\ ops' = Tail(ops) /\ Len(ops) \in Nat \ {0}
      /\ DOMAIN ops = 1 .. Len(ops) /\ DOMAIN ops' = 1 .. Len(ops) - 1
      /\ \A i \in 1 .. Len(ops) - 1 : ops'[i] = ops[i + 1]
  BY Popped DEF IInv, TypeOK, Close
<1>2. /\ OldestKeeps' /\ ops' \in Seq(Operations) /\ perm' \in [Pages -> {"rx", "rwx"}]
      /\ stuck' \subseteq Pages \cup {"region"}
  BY CloseKeepsOldest DEF IInv
<1>3. /\ pc \in {"finish", "abort"} /\ pc' = pc
      /\ used' = IF (pc = "finish" /\ removing) \/ (pc = "abort" /\ ~removing)
                 THEN used \ {h} ELSE used
      /\ UNCHANGED <<pos, removing, error, exported, ptr, code, region, lists, call>>
  BY <1>1 DEF Close, Freed, IInv, TypeOK
<1>4. Distinct
  BY <1>3 DEF IInv, Finishing
<1>5. OpHooks' = OpHooks \ {h} /\ Distinct'
  <2>1. \A i \in DOMAIN ops' : i + 1 \in DOMAIN ops /\ ops'[i] = ops[i + 1] /\ i + 1 # 1
    BY <1>1
  <2>2. \A i \in DOMAIN ops : i = 1 \/ (i - 1 \in DOMAIN ops' /\ ops'[i - 1] = ops[i])
    BY <1>1
  <2>3. 1 \in DOMAIN ops
    BY <1>1
  <2>4. OpHooks' \subseteq OpHooks \ {h}
    BY <1>4, <2>1, <2>3 DEF OpHooks, Distinct
  <2>5. OpHooks \ {h} \subseteq OpHooks'
    BY <2>2 DEF OpHooks
  <2>6. ASSUME NEW i \in DOMAIN ops', NEW j \in DOMAIN ops', ops'[i].hook = ops'[j].hook
        PROVE  i = j
    <3>1. i + 1 = j + 1
      BY <1>4, <2>1, <2>6 DEF Distinct
    <3> QED
      BY <3>1, <1>1
  <2> QED
    BY <2>4, <2>5, <2>6 DEF Distinct
<1> HIDE DEF h
<1>6. TypeOK' /\ CallsTyped'
  BY <1>2, <1>3, Framed DEF IInv, TypeOK
<1>7. CASE used' = used
  <2>1. /\ Stable' = Stable /\ Full' = Full /\ ~(pc = "finish" /\ removing)
        /\ ~(pc = "abort" /\ ~removing)
    <3>1. CASE (pc = "finish" /\ removing) \/ (pc = "abort" /\ ~removing)
      <4>1. h \in OpHooks /\ used = OpHooks
        BY <1>1, <1>3, <3>1 DEF h, OpHooks, IInv, Finishing
      <4> QED
        BY <4>1, <3>1, <1>3, <1>7
    <3>2. CASE ~((pc = "finish" /\ removing) \/ (pc = "abort" /\ ~removing))
      BY <3>2, <1>3, <1>7, Framed
    <3> QED
      BY <3>1, <3>2
  <2>2. NoHalf' /\ Sound'
    BY <1>3, <1>7 DEF IInv, NoHalf, Sound
  <2>3. Finishing'
    BY <1>3, <1>5, <2>1 DEF IInv, Finishing
  <2> QED
    BY <1>2, <1>3, <1>6, <2>2, <2>3 DEF IInv, Before, Listing, Writing, After
<1>8. CASE used' # used
  <2>1. /\ (pc = "finish" /\ removing) \/ (pc = "abort" /\ ~removing)
        /\ used' = used \ {h} /\ used = OpHooks
        /\ \A t \in Targets : code[t] = "orig"
        /\ \A g \in Hooks : ptr[g] # "tramp"
    BY <1>3, <1>8 DEF IInv, Finishing
  <2>2. NoHalf' /\ Sound'
    BY <1>3, <2>1, NamesAssumption DEF IInv, NoHalf, Sound
  <2>3. Finishing'
    BY <1>3, <1>5, <2>1 DEF IInv, Finishing
  <2> QED
    BY <1>2, <1>3, <1>6, <2>2, <2>3 DEF IInv, Before, Listing, Writing, After
<1> QED
  BY <1>7, <1>8

LEMMA ClosedStep == ASSUME IInv, Closed PROVE IInv'
<1> USE DEF Closed, lists
<1>1. /\ pc \in {"finish", "abort"} /\ ops = <<>>
      /\ UNCHANGED <<pos, exported, code, ptr, used, ops, perm, removing, error, call, lists>>
      /\ region' \in {"none", "rx", region} /\ (region = "none" => region' = "none")
      /\ stuck' = (stuck \ {"region"}) \cup IF region' = "rwx" THEN {"region"} ELSE {}
      /\ pc' = IF removing THEN "gone" ELSE IF pc = "finish" THEN "attached" ELSE "failed"
  OBVIOUS
<1>2. OpHooks = {}
  BY <1>1, EmptySeq DEF OpHooks
<1>3. Stable' = Stable /\ Full' = Full /\ Clean' = Clean
  BY <1>1, Framed
<1>4. Idle'
  BY <1>1 DEF Idle
<1>5. TypeOK' /\ CallsTyped'
  BY <1>1, Framed DEF IInv, TypeOK
<1>9. OldestKeeps'
  <2>1. \A p \in Pages : Rest(p)' = Rest(p)
    BY <1>1, NamesAssumption DEF Rest
  <2> QED
    BY <1>1, <2>1 DEF IInv, OldestKeeps, OldestOn, Page
<1>6. NoHalf' /\ Sound'
  BY <1>1 DEF IInv, NoHalf, Sound
<1>7. After'
  <2>1. (pc = "finish" /\ removing) \/ (pc = "abort" /\ ~removing) => Clean
    BY <1>2 DEF IInv, Finishing, Clean
  <2> QED
    BY <1>1, <1>3, <1>4, <2>1 DEF IInv, Finishing, After, Stable
<1>8. Before' /\ Listing' /\ Writing' /\ Finishing'
  BY <1>1 DEF Before, Listing, Writing, Finishing
<1> QED
  BY <1>5, <1>6, <1>7, <1>8, <1>9 DEF IInv

-----------------------------------------------------------------------------
LEMMA Invariance == Spec => []IInv
<1>1. Init => IInv
  BY InitIInv
<1>2. IInv /\ [Next]_vars => IInv'
  <2> SUFFICES ASSUME IInv, [Next]_vars PROVE IInv'
    OBVIOUS
  <2>1. CASE Load
    BY <2>1, LoadStep
  <2>2. CASE Unload
    BY <2>2, UnloadStep
  <2>3. CASE Begin
    BY <2>3, BeginStep
  <2>4. CASE Commit
    BY <2>4, CommitStep
  <2>5. CASE Written
    BY <2>5, WrittenStep
  <2>6. CASE Close
    BY <2>6, CloseStep
  <2>7. CASE Closed
    BY <2>7, ClosedStep
  <2>8. ASSUME NEW h \in Hooks, Attach(h) \/ Detach(h) \/ SkipHook(h) PROVE IInv'
    BY <2>8, AttachStep, DetachStep, SkipStep
  <2>9. ASSUME NEW h \in Hooks,
               WriteOpcode(h) \/ WriteJump(h) \/ WritePointer(h) \/ RestoreCode(h)
        PROVE  IInv'
    BY <2>9, WriteOpcodeStep, WriteJumpStep, WritePointerStep, RestoreCodeStep
  <2>10. CASE LockList \/ AddName
    BY <2>10, ListStep
  <2>11. ASSUME NEW c \in Callers, CallLoader(c) \/ Step(c) PROVE IInv'
    BY <2>11, CallerStep
  <2>12. CASE UNCHANGED vars
    BY <2>12, Stuttering
  <2> QED
    BY <2>1, <2>2, <2>3, <2>4, <2>5, <2>6, <2>7, <2>8, <2>9, <2>10, <2>11, <2>12
       DEF Next, DllMain
<1> QED
  BY <1>1, <1>2, PTL DEF Spec

(***************************************************************************)
(* Every variable of the hooks keeps its type.                             *)
(***************************************************************************)
THEOREM TypeCorrect == Spec => []TypeOK
<1>1. IInv => TypeOK
  BY DEF IInv
<1> QED
  BY <1>1, Invariance, PTL

(***************************************************************************)
(* However many hooks there are, however they share targets and pages, and *)
(* whichever of them cannot be attached or removed: once the transaction   *)
(* is over a page of code, or the trampolines, are writable if and only if *)
(* a VirtualProtect that should have ended that has failed                 *)
(* (detours.cpp:1213, 1618, 1904).                                         *)
(***************************************************************************)
THEOREM PagesRestoredSafe == Spec => []PagesRestored
<1>1. IInv => PagesRestored
  <2> SUFFICES ASSUME IInv, ~InTransaction PROVE PagesRestored
    BY DEF PagesRestored
  <2>1. Idle
    BY DEF IInv, TypeOK, InTransaction, Before, After
  <2>2. \A p \in Pages : perm[p] = Rest(p)
    BY <2>1, EmptySeq DEF IInv, OldestKeeps, Idle
  <2> QED
    BY <2>1, <2>2 DEF Idle, PagesRestored, Rest
<1> QED
  BY <1>1, Invariance, PTL

(***************************************************************************)
(* At every step of attaching and removing, a jump and a pointer lead to   *)
(* something that exists, and no trampoline is lost.                       *)
(***************************************************************************)
THEOREM NoDanglingJumpSafe == Spec => []NoDanglingJump
<1>1. IInv => NoDanglingJump
  <2> SUFFICES ASSUME IInv PROVE NoDanglingJump
    OBVIOUS
  <2>1. ASSUME ~InTransaction PROVE Stable
    BY <2>1 DEF IInv, TypeOK, InTransaction, Before, After, Stable
  <2>2. Stable => \A h \in used : ptr[h] = "tramp"
    BY DEF Stable, Full, Clean
  <2> QED
    BY <2>1, <2>2 DEF IInv, Sound, NoDanglingJump
<1> QED
  BY <1>1, Invariance, PTL

(***************************************************************************)
(* The transaction of DllMain hooks everything or nothing, and removes     *)
(* everything or, failing, nothing.                                        *)
(***************************************************************************)
THEOREM AllOrNothingSafe == Spec => []AllOrNothing
<1>1. IInv => AllOrNothing
  BY DEF IInv, After, AllOrNothing
<1> QED
  BY <1>1, Invariance, PTL

-----------------------------------------------------------------------------
Listed == Range(DllList) \ missed
Hooked == {TargetOf[h] : h \in Exported}

(* The names the setter is past are in both lists, if they are not missed.   *)
PutOnList ==
  \A i \in DOMAIN DllList : i < setter => DllList[i] \in missed \/ DllList[i] \in narrow \cap wide

(***************************************************************************)
(* A call that began in safety runs while the hooks are attached and the   *)
(* list is set.  Until a hook has checked its DLL it is only on its way    *)
(* into a function that is hooked; behind the hook it may go anywhere.     *)
(***************************************************************************)
Guarded ==
  \A c \in Callers : call[c].safe =>
    /\ pc = "attached" /\ setter = Len(DllList) + 1
    /\ call[c].at \in {"prologue", "allowed", "body", "loaded"} => call[c].dll \notin Listed
    /\ call[c].at = "call" => call[c].fn \in Hooked \/ call[c].dll \notin Listed

BlackInv == PutOnList /\ Guarded

(* Once all names are on it, a list refuses every listed DLL.                *)
LEMMA ListComplete ==
  ASSUME PutOnList, setter = Len(DllList) + 1
  PROVE  Listed \subseteq narrow \cap wide
<1>1. DOMAIN DllList = 1 .. Len(DllList) /\ Len(DllList) \in Nat
  BY ListsAssumption, LenProperties
<1>2. \A i \in DOMAIN DllList : i < setter
  BY <1>1
<1>3. Range(DllList) = {DllList[i] : i \in DOMAIN DllList}
  BY DEF Range
<1> QED
  BY <1>2, <1>3 DEF PutOnList, Listed

LEMMA GuardedByCaller ==
  ASSUME IInv, BlackInv, NEW c \in Callers, CallLoader(c) \/ Step(c)
  PROVE  BlackInv'
<1> USE DEF CallType
<1>1. /\ call[c] \in CallType /\ call \in [Callers -> CallType]
      /\ call[c].at \in {"call", "prologue", "body"} => call[c].fn \in Targets
      /\ call[c].at \in {"hook", "allowed"} => call[c].hook \in Hooks
  BY DEF IInv, TypeOK, CallsTyped
<1> DEFINE Fine(k) ==
      k.safe =>
        /\ pc = "attached" /\ setter = Len(DllList) + 1
        /\ k.at \in {"prologue", "allowed", "body", "loaded"} => k.dll \notin Listed
        /\ k.at = "call" => k.fn \in Hooked \/ k.dll \notin Listed
<1>2. SUFFICES ASSUME NEW new, Go(c, new), Fine(new) PROVE BlackInv'
  <2>0. Fine(call[c])
    BY DEF BlackInv, Guarded
  <2>1. CASE CallLoader(c)
    <3>1. PICK h \in Exported, d \in Dlls :
            Go(c, [at |-> "call", fn |-> TargetOf[h], hook |-> "none", dll |-> d,
                   safe |-> pc = "attached" /\ setter = Len(DllList) + 1])
      BY <2>1 DEF CallLoader
    <3>2. TargetOf[h] \in Hooked
      BY DEF Hooked
    <3> QED
      BY <1>2, <3>1, <3>2
  <2>2. CASE Enter(c)
    <3>1. ASSUME call[c].safe, call[c].dll \in Listed
          PROVE  Go(c, [call[c] EXCEPT !.at = "hook", !.hook = code[call[c].fn]])
      <4>1. PICK h \in Exported : call[c].fn = TargetOf[h]
        BY <2>0, <2>2, <3>1 DEF Enter, Hooked
      <4>2. code[call[c].fn] \in Hooks
        BY <2>0, <3>1, <4>1 DEF IInv, After, Full, Exported
      <4>3. code[call[c].fn] # "orig" /\ code[call[c].fn] # "half"
        BY <4>2, NamesAssumption
      <4> QED
        BY <2>2, <4>3 DEF Enter
    <3>2. CASE call[c].safe /\ call[c].dll \in Listed
      BY <1>1, <1>2, <2>0, <3>1, <3>2
    <3>3. CASE ~(call[c].safe /\ call[c].dll \in Listed)
      <4>1. CASE code[call[c].fn] = "orig"
        BY <1>1, <1>2, <2>0, <2>2, <3>3, <4>1 DEF Enter
      <4>2. CASE code[call[c].fn] = "half"
        BY <1>1, <1>2, <2>0, <2>2, <3>3, <4>2 DEF Enter
      <4>3. CASE code[call[c].fn] \notin {"orig", "half"}
        <5>1. Go(c, [call[c] EXCEPT !.at = "hook", !.hook = code[call[c].fn]])
          BY <2>2, <4>3 DEF Enter
        <5> QED
          BY <1>1, <1>2, <2>0, <3>3, <5>1
      <4> QED
        BY <4>1, <4>2, <4>3
    <3> QED
      BY <3>2, <3>3
  <2>3. CASE Proceed(c)
    BY <1>1, <1>2, <2>0, <2>3 DEF Proceed
  <2>4. CASE Check(c)
    <3>1. call[c].safe /\ call[c].dll \in Listed => Go(c, [call[c] EXCEPT !.at = "refused"])
      <4>1. call[c].safe => Listed \subseteq narrow \cap wide
        BY <2>0, ListComplete DEF BlackInv
      <4> QED
        BY <2>4, <4>1 DEF Check
    <3>2. PICK a \in {"refused", "allowed"} : Go(c, [call[c] EXCEPT !.at = a])
      BY <2>4 DEF Check
    <3>3. CASE call[c].safe /\ call[c].dll \in Listed
      BY <1>1, <1>2, <2>0, <3>1, <3>3
    <3>4. CASE ~(call[c].safe /\ call[c].dll \in Listed)
      BY <1>1, <1>2, <2>0, <3>2, <3>4
    <3> QED
      BY <3>3, <3>4
  <2>5. CASE CallReal(c)
    <3>1. PICK a \in {"body", "call"} :
            Go(c, [call[c] EXCEPT !.fn = TargetOf[call[c].hook], !.at = a])
      BY <2>5 DEF CallReal
    <3> QED
      BY <1>1, <1>2, <2>0, <2>5, <3>1 DEF CallReal
  <2>6. CASE CallInner(c)
    BY <1>1, <1>2, <2>0, <2>6 DEF CallInner
  <2>7. CASE LoadDll(c)
    BY <1>1, <1>2, <2>0, <2>7 DEF LoadDll
  <2> QED
    BY <2>1, <2>2, <2>3, <2>4, <2>5, <2>6, <2>7 DEF Step
<1>3. /\ UNCHANGED <<pc, setter, narrow, wide, missed, exported>>
      /\ Listed' = Listed /\ Hooked' = Hooked
  BY <1>2 DEF Go, transaction, lists, Listed, Hooked, Exported
<1>4. PutOnList'
  BY <1>3 DEF BlackInv, PutOnList
<1>5. \A d \in Callers : call'[d] = IF d = c THEN new ELSE call[d]
  BY <1>1, <1>2 DEF Go
<1>6. Guarded'
  BY <1>2, <1>3, <1>5 DEF BlackInv, Guarded
<1> QED
  BY <1>4, <1>6 DEF BlackInv

(* While names are added no call is safe yet.                                *)
LEMMA GuardedByList ==
  ASSUME IInv, BlackInv, LockList \/ AddName
  PROVE  BlackInv'
<1>1. Len(DllList) \in Nat /\ DOMAIN DllList = 1 .. Len(DllList)
  BY ListsAssumption, LenProperties
<1>2. call' = call /\ setter \in Nat /\ setter # Len(DllList) + 1
  BY <1>1 DEF LockList, AddName
<1>3. Guarded'
  BY <1>2 DEF BlackInv, Guarded
<1>4. CASE LockList
  <2>1. setter' = 1
    BY <1>4 DEF LockList
  <2> QED
    BY <1>1, <1>3, <2>1 DEF BlackInv, PutOnList
<1>5. CASE AddName
  <2>1. setter' = setter + 1 /\ setter \in DOMAIN DllList
    BY <1>5 DEF AddName
  <2>2. /\ missed \subseteq missed' /\ narrow \subseteq narrow' /\ wide \subseteq wide'
        /\ DllList[setter] \in missed' \/ DllList[setter] \in narrow' \cap wide'
    BY <1>5 DEF AddName
  <2>3. \A i \in DOMAIN DllList : i < setter' => i < setter \/ i = setter
    BY <1>1, <2>1
  <2>4. PutOnList'
    BY <2>2, <2>3 DEF BlackInv, PutOnList
  <2> QED
    BY <1>3, <2>4 DEF BlackInv
<1> QED
  BY <1>4, <1>5

(* DllMain works before the hooks are attached, or after other threads ended.*)
LEMMA GuardedByDllMain ==
  ASSUME IInv, BlackInv, DllMain \/ Unload
  PROVE  BlackInv'
<1>1. UNCHANGED <<exported, lists>>
  BY DEF DllMain, Unload, Load, Begin, Commit, Written, Close, Closed, Attach, Detach,
     SkipHook, WriteOpcode, WriteJump, WritePointer, RestoreCode, NextHook
<1>2. PutOnList'
  BY <1>1 DEF BlackInv, PutOnList, lists
<1>3. \A c \in Callers : ~call'[c].safe
  <2>1. CASE Unload
    BY <2>1 DEF Unload, NoCall
  <2>2. CASE DllMain
    <3>1. pc # "attached"
      BY <2>2 DEF DllMain, Load, Begin, Commit, Written, Close, Closed, Attach, Detach,
         SkipHook, AtHook, WriteOpcode, WriteJump, WritePointer, RestoreCode
    <3>2. \A c \in Callers : ~call[c].safe
      BY <3>1 DEF BlackInv, Guarded
    <3>3. call' = call \/ \E t \in Targets : Tear(t)
      BY <2>2, TargetsAssumption
         DEF DllMain, Load, Begin, Commit, Written, Close, Closed, Attach, Detach,
         SkipHook, NextHook, WriteOpcode, WriteJump, WritePointer, RestoreCode
    <3>4. \A c \in Callers : call[c] \in CallType
      BY DEF IInv, TypeOK, CallType
    <3> QED
      BY <3>2, <3>3, <3>4 DEF Tear, CallType
  <2> QED
    BY <2>1, <2>2
<1> QED
  BY <1>2, <1>3 DEF BlackInv, Guarded

(***************************************************************************)
(* Whatever functions are there and however they call each other, for any  *)
(* number of threads: a listed DLL is refused to every call that begins    *)
(* once the hooks are attached and the list is set (main.cpp:188).         *)
(***************************************************************************)
THEOREM BlacklistHoldsSafe == Spec => []BlacklistHolds
<1>1. Init => BlackInv
  BY LenProperties, ListsAssumption DEF Init, BlackInv, PutOnList, Guarded, NoCall
<1>2. IInv /\ BlackInv /\ [Next]_vars => BlackInv'
  <2> SUFFICES ASSUME IInv, BlackInv, [Next]_vars PROVE BlackInv'
    OBVIOUS
  <2>1. ASSUME NEW c \in Callers, CallLoader(c) \/ Step(c) PROVE BlackInv'
    BY <2>1, GuardedByCaller
  <2>2. CASE UNCHANGED vars
    BY <2>2 DEF vars, transaction, lists, BlackInv, PutOnList, Guarded, Listed, Hooked, Exported
  <2> QED
    BY <2>1, <2>2, GuardedByList, GuardedByDllMain DEF Next
<1>3. BlackInv => BlacklistHolds
  BY DEF BlackInv, Guarded, BlacklistHolds, Listed
<1> QED
  BY <1>1, <1>2, <1>3, Invariance, PTL DEF Spec
-----------------------------------------------------------------------------
(***************************************************************************)
(* Calls that pass                                                         *)
(***************************************************************************)

(* A thread that is in a hook is in one that was there to be attached; and   *)
(* none is anywhere while DLL_PROCESS_DETACH removes them.                   *)
InHooks ==
  /\ \A c \in Callers : call[c].at \in {"hook", "allowed"} => call[c].hook \in Exported
  /\ removing => \A c \in Callers : call[c].at = "dead"

(* A jump leads to a hook that is there.                                     *)
LEMMA JumpsToExported ==
  ASSUME IInv, ~removing, NEW t \in Targets, code[t] \in Hooks
  PROVE  code[t] \in Exported
<1>0. /\ code[t] \in used /\ code[t] # "orig"
      /\ Before /\ Listing /\ Writing /\ Finishing /\ After /\ TypeOK
  BY NamesAssumption DEF IInv, Sound
<1>1. ~Clean
  BY <1>0 DEF Clean
<1>2. pc \notin {"unloaded", "begin", "failed", "gone"}
  BY <1>0, <1>1 DEF Before, After
<1>3. pc \notin {"list", "abort"}
  BY <1>0 DEF Listing, Finishing
<1>4. used = Exported
  BY <1>0, <1>2, <1>3 DEF TypeOK, Writing, Finishing, After, Full
<1> QED
  BY <1>0, <1>4

LEMMA NextInHooks == IInv /\ InHooks /\ [Next]_vars => InHooks'
<1> SUFFICES ASSUME IInv, InHooks, [Next]_vars PROVE InHooks'
  OBVIOUS
<1>0. /\ call \in [Callers ->
           [at : {"idle", "call", "prologue", "hook", "allowed", "body", "loaded", "refused",
                  "torn", "dead"},
            fn : Targets \cup {"none"}, hook : Hooks \cup {"none"}, dll : Dlls \cup {"none"},
            safe : BOOLEAN]]
      /\ code \in [Targets -> {"orig", "half"} \cup Hooks]
      /\ CallsTyped
  BY DEF IInv, TypeOK
<1>1. CASE Unload
  BY <1>1 DEF Unload, NoCall, InHooks, Exported
<1>2. CASE /\ UNCHANGED <<exported, removing>> /\ ~removing
           /\ \A c \in Callers : call'[c] \in {call[c], [call[c] EXCEPT !.at = "torn"]}
  <2>1. \A c \in Callers : call'[c].at \in {"hook", "allowed"} => call'[c] = call[c]
    BY <1>0, <1>2
  <2> QED
    BY <1>2, <2>1 DEF InHooks, Exported
<1>3. ASSUME NEW h \in Hooks, WriteOpcode(h)
      PROVE  /\ UNCHANGED <<exported, removing>> /\ ~removing
             /\ \A c \in Callers : call'[c] \in {call[c], [call[c] EXCEPT !.at = "torn"]}
  BY <1>3 DEF WriteOpcode, Tear
<1>4. ASSUME \/ Load \/ Begin \/ Commit \/ Written \/ Close \/ Closed
             \/ LockList \/ AddName \/ UNCHANGED vars
      PROVE  UNCHANGED <<exported, removing, call>>
  BY <1>4 DEF Load, Begin, Commit, Written, Close, Closed, LockList, AddName, vars,
              transaction, memory, lists
<1>5. ASSUME NEW h \in Hooks, \/ Attach(h) \/ Detach(h) \/ SkipHook(h)
                              \/ WriteJump(h) \/ WritePointer(h) \/ RestoreCode(h)
      PROVE  UNCHANGED <<exported, removing, call>>
  BY <1>5 DEF Attach, Detach, SkipHook, NextHook, WriteJump, WritePointer, RestoreCode
<1>6. ASSUME NEW c \in Callers, CallLoader(c) \/ Step(c) PROVE InHooks'
  <2>1. UNCHANGED <<exported, removing>> /\ call[c].at # "dead"
    BY <1>6 DEF CallLoader, Step, Enter, Proceed, Check, CallReal, CallInner, LoadDll, Go,
                transaction
  <2>2. ~removing
    BY <2>1 DEF InHooks
  <2>3. PICK new : call' = [call EXCEPT ![c] = new]
    BY <1>6 DEF CallLoader, Step, Enter, Proceed, Check, CallReal, CallInner, LoadDll, Go
  <2>4. call'[c].at \in {"hook", "allowed"} => call'[c].hook \in Exported
    <3>1. CASE Enter(c)
      <4>1. call[c].at = "call" /\ call[c].fn \in Targets
        BY <1>0, <3>1 DEF Enter, CallsTyped
      <4>2. CASE code[call[c].fn] \in {"orig", "half"}
        <5>1. call'[c].at \in {"prologue", "torn"}
          BY <1>0, <3>1, <4>2 DEF Enter, Go
        <5> QED
          BY <5>1
      <4>3. CASE code[call[c].fn] \in Hooks
        <5>1. call'[c] = [call[c] EXCEPT !.at = "hook", !.hook = code[call[c].fn]]
          BY <1>0, <3>1, <4>3, NamesAssumption DEF Enter, Go
        <5>2. call'[c].hook = code[call[c].fn]
          BY <1>0, <5>1
        <5> QED
          BY <2>2, <4>1, <4>3, <5>2, JumpsToExported
      <4> QED
        BY <1>0, <4>1, <4>2, <4>3
    <3>2. CASE Check(c)
      BY <1>0, <3>2 DEF Check, Go, InHooks
    <3>3. CASE CallLoader(c)
      BY <1>0, <3>3 DEF CallLoader, Go
    <3>4. CASE Proceed(c) \/ CallReal(c) \/ CallInner(c) \/ LoadDll(c)
      BY <1>0, <3>4 DEF Proceed, CallReal, CallInner, LoadDll, Go
    <3> QED
      BY <1>6, <3>1, <3>2, <3>3, <3>4 DEF Step
  <2>5. \A b \in Callers : b # c => call'[b] = call[b]
    BY <1>0, <2>3
  <2> QED
    BY <2>1, <2>2, <2>4, <2>5 DEF InHooks, Exported
<1>7. UNCHANGED <<exported, removing, call>> => InHooks'
  BY DEF InHooks, Exported
<1> QED
  BY <1>1, <1>2, <1>3, <1>4, <1>5, <1>6, <1>7 DEF Next, DllMain

(***************************************************************************)
(* Once the hooks are attached a call meets no half-written jump, and a    *)
(* hook that lets it through leads past itself, into the function: what    *)
(* the hook does before its pointer is set (detours.cpp:1751, 1753), to    *)
(* call itself again, it does not do any more.  This is why CallsEnd holds *)
(* for calls that run after the transaction.                               *)
(***************************************************************************)
Passes ==
  pc = "attached" => \A c \in Callers :
    /\ call'[c].at = "torn" => call[c].at = "torn"
    /\ call[c].at = "allowed" => call'[c].at \in {"allowed", "body", "dead"}

LEMMA AttachedPasses == IInv /\ InHooks /\ [Next]_vars => [Passes]_vars
<1> SUFFICES ASSUME IInv, InHooks, [Next]_vars, pc = "attached", NEW c \in Callers
             PROVE  /\ call'[c].at = "torn" => call[c].at = "torn"
                    /\ call[c].at = "allowed" => call'[c].at \in {"allowed", "body", "dead"}
  BY DEF Passes
<1>0. /\ call \in [Callers ->
           [at : {"idle", "call", "prologue", "hook", "allowed", "body", "loaded", "refused",
                  "torn", "dead"},
            fn : Targets \cup {"none"}, hook : Hooks \cup {"none"}, dll : Dlls \cup {"none"},
            safe : BOOLEAN]]
      /\ code \in [Targets -> {"orig", "half"} \cup Hooks]
      /\ \A t \in Targets : code[t] # "half"
      /\ CallsTyped /\ Full
  BY DEF IInv, TypeOK, NoHalf, After
<1>1. CASE Unload
  BY <1>1 DEF Unload, NoCall
<1>2. CASE \/ LockList \/ AddName \/ UNCHANGED vars
  BY <1>2 DEF LockList, AddName, vars
<1>3. ASSUME DllMain PROVE FALSE
  BY <1>3 DEF DllMain, Load, Begin, Commit, Written, Close, Closed, Attach, Detach, SkipHook,
              AtHook, WriteOpcode, WriteJump, WritePointer, RestoreCode
<1>4. ASSUME NEW b \in Callers, CallLoader(b) \/ Step(b), b # c
      PROVE  call'[c] = call[c]
  BY <1>0, <1>4 DEF CallLoader, Step, Enter, Proceed, Check, CallReal, CallInner, LoadDll, Go
<1>5. CASE Enter(c)
  <2>1. call[c].at = "call" /\ code[call[c].fn] # "half"
    BY <1>0, <1>5 DEF Enter, CallsTyped
  <2>2. call'[c].at # "torn"
    BY <1>0, <1>5, <2>1 DEF Enter, Go
  <2> QED
    BY <2>1, <2>2
<1>6. CASE CallReal(c)
  <2>1. call[c].at = "allowed" /\ call[c].hook \in Exported
    BY <1>6 DEF CallReal, InHooks
  <2>2. ptr[call[c].hook] = "tramp"
    BY <1>0, <2>1 DEF Full
  <2>3. call'[c].at = "body"
    BY <1>0, <1>6, <2>2 DEF CallReal, Go
  <2> QED
    BY <2>3
<1>7. CASE CallLoader(c)
  BY <1>0, <1>7 DEF CallLoader, Go
<1>8. CASE Check(c)
  BY <1>0, <1>8 DEF Check, Go
<1>9. CASE Proceed(c) \/ CallInner(c) \/ LoadDll(c)
  BY <1>0, <1>9 DEF Proceed, CallInner, LoadDll, Go
<1> QED
  BY <1>1, <1>2, <1>3, <1>4, <1>5, <1>6, <1>7, <1>8, <1>9 DEF Next, Step

THEOREM CallsPassWhenAttached == Spec => [][Passes]_vars
<1>1. Init => InHooks
  BY DEF Init, InHooks, NoCall
<1>2. Spec => Init /\ [][Next]_vars
  BY DEF Spec
<1> QED
  BY <1>1, <1>2, Invariance, NextInHooks, AttachedPasses, PTL
=============================================================================
