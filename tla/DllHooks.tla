------------------------------- MODULE DllHooks -------------------------------
(***************************************************************************)
(* liblauncher on Windows: DllMain hooks the functions that load DLLs, in  *)
(* one transaction of the Detours library, and unhooks them when the       *)
(* process ends.  Meanwhile other threads call these functions, and the    *)
(* launcher sets the list of DLLs that the hooks refuse.                   *)
(*                                                                         *)
(* A hook is a pair of a function pointer, such as K32LoadLibraryA, and    *)
(* the function it is detoured to.  The code of a loader function (its     *)
(* target) is "orig", "half" while the jump is being written over its      *)
(* first bytes, or the hook the jump leads to.  Several hooks may share a  *)
(* target, and several targets a page.                                     *)
(***************************************************************************)
EXTENDS Naturals, Sequences, SequencesExt

CONSTANTS
  Hooks,      \* the hooks,
  HookList,   \* in the order in which DllMain attaches and detaches them
  Targets,
  TargetOf,   \* where DetourCodeFromPointer leads from the function
  Pages,
  PageOf,     \* of a target
  Narrow,     \* the hooks for LoadLibraryA and LoadLibraryExA
  Inner,      \* Windows: the loader function a target calls, or "none"
  Callers,    \* threads that load DLLs
  Dlls,
  DllList     \* runelite.launcher.blacklistedDlls

ASSUME HooksAssumption   ==
  /\ HookList \in Seq(Hooks) /\ Range(HookList) = Hooks
  /\ \A i, j \in DOMAIN HookList : HookList[i] = HookList[j] => i = j
ASSUME TargetsAssumption == TargetOf \in [Hooks -> Targets] /\ PageOf \in [Targets -> Pages]
ASSUME ListsAssumption   ==
  /\ Narrow \subseteq Hooks /\ DllList \in Seq(Dlls)
  /\ Inner \in [Targets -> Targets \cup {"none"}]
ASSUME NamesAssumption   ==
  Hooks \cap {"orig", "half"} = {} /\ "none" \notin Targets /\ "region" \notin Pages

VARIABLES
  \* DllMain and the transaction
  pc, pos,
  removing,   \* DLL_PROCESS_DETACH
  exported,   \* hooks whose function GetProcAddress finds
  ops,        \* s_pPendingOperations, the newest first
  error,      \* s_nPendingError # NO_ERROR
  \* memory
  ptr,        \* the function pointers: "null", "target" or "tramp"
  code, perm, \* of targets, of pages
  used,       \* hooks that have a trampoline
  region,     \* the memory region of the trampolines: "none", "rx" or "rwx"
  stuck,      \* history: the pages, and "region", that could not be made read-only again
  \* the blacklist
  setter,     \* setBlacklistedDlls: how far it is
  narrow, wide, missed,
  \* the callers
  call

transaction == <<pc, pos, removing, ops, error>>
memory      == <<ptr, code, perm, used, region, stuck>>
lists       == <<setter, narrow, wide, missed>>
vars        == <<exported, transaction, memory, lists, call>>

Page(h)       == PageOf[TargetOf[h]]
Exported      == {h \in Hooks : exported[h]}
InTransaction == pc \in {"list", "write", "jump", "pointer", "finish", "abort"}
Locked        == setter \in 1 .. Len(DllList)  \* dllMutex, exclusively

Operations == [hook : Hooks, perm : {"rx", "rwx"}]
NoCall     == [at |-> "idle", fn |-> "none", hook |-> "none", dll |-> "none", safe |-> FALSE]

TypeOK ==
  /\ pc \in {"unloaded", "begin", "list", "write", "jump", "pointer", "finish", "abort",
             "attached", "failed", "gone"}
  /\ pos \in Nat
  /\ removing \in BOOLEAN /\ error \in BOOLEAN /\ exported \in [Hooks -> BOOLEAN]
  /\ ops \in Seq(Operations)
  /\ ptr \in [Hooks -> {"null", "target", "tramp"}]
  /\ code \in [Targets -> {"orig", "half"} \cup Hooks]
  /\ perm \in [Pages -> {"rx", "rwx"}]
  /\ used \subseteq Hooks /\ region \in {"none", "rx", "rwx"}
  /\ stuck \subseteq Pages \cup {"region"}
  /\ setter \in 0 .. Len(DllList) + 1
  /\ narrow \subseteq Dlls /\ wide \subseteq Dlls /\ missed \subseteq Dlls
  /\ call \in [Callers ->
       [at : {"idle", "call", "prologue", "hook", "allowed", "body", "loaded", "refused",
              "torn", "dead"},
        fn : Targets \cup {"none"}, hook : Hooks \cup {"none"}, dll : Dlls \cup {"none"},
        safe : BOOLEAN]]

Init ==
  /\ pc = "unloaded" /\ pos = 0 /\ removing = FALSE /\ ops = <<>> /\ error = FALSE
  /\ exported \in [Hooks -> BOOLEAN]
  /\ ptr = [h \in Hooks |-> "null"]
  /\ code = [t \in Targets |-> "orig"] /\ perm = [p \in Pages |-> "rx"]
  /\ used = {} /\ region = "none" /\ stuck = {}
  /\ setter = 0 /\ narrow = {} /\ wide = {} /\ missed = {}
  /\ call = [c \in Callers |-> NoCall]

-----------------------------------------------------------------------------
(***************************************************************************)
(* DLL_PROCESS_ATTACH: DllMain finds its two modules, or leaves without a  *)
(* transaction.                                                            *)
(***************************************************************************)
Load ==
  /\ pc = "unloaded" /\ pc' \in {"begin", "failed"}
  /\ UNCHANGED <<pos, removing, ops, error, exported, memory, lists, call>>

(* DLL_PROCESS_DETACH: all other threads have been ended by then *)
Unload ==
  /\ pc \in {"attached", "failed"} /\ pc' = "begin"
  /\ removing' = TRUE
  /\ call' = [c \in Callers |-> [NoCall EXCEPT !.at = "dead"]]
  /\ UNCHANGED <<pos, ops, error, exported, memory, lists>>

(***************************************************************************)
(* DetourTransactionBegin: makes a region that exists writable.  Failing   *)
(* that it reports an error and keeps the transaction open.                *)
(***************************************************************************)
Begin ==
  /\ pc = "begin" /\ pc' = "list" /\ pos' = 1 /\ ops' = <<>>
  /\ \/ error' = FALSE /\ region' = IF region = "none" THEN "none" ELSE "rwx"
     \/ region # "none" /\ error' = TRUE /\ UNCHANGED region
  /\ UNCHANGED <<removing, exported, ptr, code, perm, used, stuck, lists, call>>

AtHook(h) == pc = "list" /\ pos \in DOMAIN HookList /\ h = HookList[pos]
NextHook  == pos' = pos + 1 /\ UNCHANGED <<pc, removing, exported, code, stuck, lists, call>>

(* VirtualProtect(PAGE_EXECUTE_READWRITE), with the old permission kept *)
Schedule(h) ==
  /\ ops' = <<[hook |-> h, perm |-> perm[Page(h)]]>> \o ops
  /\ perm' = [perm EXCEPT ![Page(h)] = "rwx"]

(* mutant: an attach that fails is no error of the transaction *)
AttachQuietly(h) ==
  /\ ~removing /\ AtHook(h) /\ exported[h]
  /\ ptr' = [ptr EXCEPT ![h] = "target"]
  /\ \/ Schedule(h) /\ used' = used \cup {h} /\ region' = "rwx"
     \/ region' \in {region, "rwx"} /\ UNCHANGED <<ops, perm, used>>
  /\ UNCHANGED error
  /\ NextHook

(***************************************************************************)
(* LoadAndAttach: GetProcAddress, then DetourAttachEx, which does nothing  *)
(* once there was an error.  It takes a trampoline, from a new region if   *)
(* there is none, and gives it back if the code is too short or cannot be  *)
(* made writable.                                                          *)
(***************************************************************************)
Attach(h) ==
  /\ ~removing /\ AtHook(h) /\ exported[h]
  /\ ptr' = [ptr EXCEPT ![h] = "target"]
  /\ \/ error /\ UNCHANGED <<ops, error, perm, used, region>>
     \/ /\ ~error /\ Schedule(h)
        /\ used' = used \cup {h} /\ region' = "rwx"
        /\ UNCHANGED error
     \/ /\ ~error /\ error' = TRUE
        /\ region' \in {region, "rwx"}
        /\ UNCHANGED <<ops, perm, used>>
  /\ NextHook

(***************************************************************************)
(* Detach: DetourDetach refuses a pointer that does not lead to a          *)
(* trampoline of this detour, which is what is left after a failed attach. *)
(***************************************************************************)
Detach(h) ==
  /\ removing /\ AtHook(h) /\ ptr[h] # "null"
  /\ \/ error /\ UNCHANGED <<ops, error, perm>>
     \/ ~error /\ ptr[h] = "tramp" /\ Schedule(h) /\ UNCHANGED error
     \/ ~error /\ error' = TRUE /\ UNCHANGED <<ops, perm>>
  /\ UNCHANGED <<ptr, used, region>>
  /\ NextHook

(* GetProcAddress found nothing *)
SkipHook(h) ==
  /\ AtHook(h) /\ IF removing THEN ptr[h] = "null" ELSE ~exported[h]
  /\ UNCHANGED <<ops, error, memory>>
  /\ NextHook

-----------------------------------------------------------------------------
(***************************************************************************)
(* DetourTransactionCommit: after an error abort, otherwise insert or      *)
(* remove each jump, the newest operation first.                           *)
(***************************************************************************)
Commit ==
  /\ pc = "list" /\ pos = Len(HookList) + 1
  /\ pc' = IF error THEN "abort" ELSE "write"
  /\ pos' = 1
  /\ UNCHANGED <<removing, ops, error, exported, memory, lists, call>>

(* a thread that is past the first byte executes what is written over it *)
Tear(t) ==
  call' = [c \in Callers |-> IF call[c].at = "prologue" /\ call[c].fn = t
                             THEN [call[c] EXCEPT !.at = "torn"] ELSE call[c]]

AtOp(h) == pos \in DOMAIN ops /\ h = ops[pos].hook

(* detour_gen_jmp_immediate writes the opcode of the jump ... *)
WriteOpcode(h) ==
  /\ pc = "write" /\ ~removing /\ AtOp(h) /\ pc' = "jump"
  /\ code' = [code EXCEPT ![TargetOf[h]] = IF @ = "orig" THEN "half" ELSE @]
  /\ Tear(TargetOf[h])
  /\ UNCHANGED <<pos, removing, ops, error, exported, ptr, perm, used, region, stuck, lists>>

(* ... and then where it leads *)
WriteJump(h) ==
  /\ pc = "jump" /\ AtOp(h) /\ pc' = "pointer"
  /\ code' = [code EXCEPT ![TargetOf[h]] = h]
  /\ UNCHANGED <<pos, removing, ops, error, exported, ptr, perm, used, region, stuck, lists, call>>

(* mutant: the pointer is not set *)
PointerKept(h) ==
  /\ pc = "pointer" /\ AtOp(h) /\ pc' = "write" /\ pos' = pos + 1
  /\ UNCHANGED <<removing, ops, error, exported, memory, lists, call>>

(* only now does the pointer lead to the trampoline *)
WritePointer(h) ==
  /\ pc = "pointer" /\ AtOp(h) /\ pc' = "write" /\ pos' = pos + 1
  /\ ptr' = [ptr EXCEPT ![h] = "tramp"]
  /\ UNCHANGED <<removing, ops, error, exported, code, perm, used, region, stuck, lists, call>>

RestoreCode(h) ==
  /\ pc = "write" /\ removing /\ AtOp(h) /\ pos' = pos + 1
  /\ code' = [code EXCEPT ![TargetOf[h]] = "orig"]
  /\ ptr'  = [ptr EXCEPT ![h] = "target"]
  /\ UNCHANGED <<pc, removing, ops, error, exported, perm, used, region, stuck, lists, call>>

Written ==
  /\ pc = "write" /\ pos = Len(ops) + 1 /\ pc' = "finish"
  /\ UNCHANGED <<pos, removing, ops, error, exported, memory, lists, call>>

(***************************************************************************)
(* VirtualProtect with the permission that was kept.  "We don't care if    *)
(* this fails, because the code is still accessible."                      *)
(***************************************************************************)
Restore(o) ==
  \/ perm' = [perm EXCEPT ![Page(o.hook)] = o.perm] /\ UNCHANGED stuck
  \/ /\ o.perm # perm[Page(o.hook)]
     /\ stuck' = stuck \cup {Page(o.hook)} /\ UNCHANGED perm

(* what was removed, or not attached, no longer needs its trampoline *)
Freed(o) == IF (pc = "finish") = removing THEN {o.hook} ELSE {}

(* mutant: the permissions are given back in the order they were taken *)
CloseOldestFirst ==
  /\ pc \in {"finish", "abort"} /\ ops # <<>>
  /\ Restore(Last(ops)) /\ used' = used \ Freed(Last(ops))
  /\ ops' = Front(ops)
  /\ UNCHANGED <<pc, pos, removing, error, exported, ptr, code, region, lists, call>>

(* mutant: every operation frees its trampoline *)
CloseFreesAll ==
  /\ pc \in {"finish", "abort"} /\ ops # <<>>
  /\ Restore(Head(ops)) /\ used' = used \ {Head(ops).hook}
  /\ ops' = Tail(ops)
  /\ UNCHANGED <<pc, pos, removing, error, exported, ptr, code, region, lists, call>>

(***************************************************************************)
(* The end of both DetourTransactionCommit and DetourTransactionAbort:     *)
(* give each page its old permission, the newest operation first, and free *)
(* trampolines.                                                            *)
(***************************************************************************)
Close ==
  /\ pc \in {"finish", "abort"} /\ ops # <<>>
  /\ Restore(Head(ops)) /\ used' = used \ Freed(Head(ops))
  /\ ops' = Tail(ops)
  /\ UNCHANGED <<pc, pos, removing, error, exported, ptr, code, region, lists, call>>

(* an empty region is released after a commit; what is left becomes runnable *)
(* only, or stays as it was: that VirtualProtect may fail as well            *)
Closed ==
  /\ pc \in {"finish", "abort"} /\ ops = <<>>
  /\ \E r \in IF region = "none" \/ (pc = "finish" /\ removing /\ used = {})
             THEN {"none"} ELSE {"rx", region} :
       /\ region' = r
       /\ stuck' = (stuck \ {"region"}) \cup IF r = "rwx" THEN {"region"} ELSE {}
  /\ pc' = IF removing THEN "gone" ELSE IF pc = "finish" THEN "attached" ELSE "failed"
  /\ UNCHANGED <<pos, removing, ops, error, exported, ptr, code, perm, used, lists, call>>

DllMain ==
  \/ Load \/ Begin \/ Commit \/ Written \/ Close \/ Closed
  \/ \E h \in Hooks : \/ Attach(h) \/ Detach(h) \/ SkipHook(h)
                      \/ WriteOpcode(h) \/ WriteJump(h) \/ WritePointer(h) \/ RestoreCode(h)

-----------------------------------------------------------------------------
(***************************************************************************)
(* initDllBlacklist, after the library is loaded: setBlacklistedDlls takes *)
(* the lock, clears the narrow list and adds each name to both.  A name    *)
(* the JVM has no memory to convert is left out of one of them.            *)
(***************************************************************************)
LockList ==
  /\ setter = 0 /\ pc \in {"attached", "failed"}
  /\ setter' = 1 /\ narrow' = {}
  /\ UNCHANGED <<wide, missed, exported, transaction, memory, call>>

(* mutant: names are added to the narrow list alone *)
AddNameNarrow ==
  /\ setter \in DOMAIN DllList /\ ~removing
  /\ narrow' = narrow \cup {DllList[setter]}
  /\ setter' = setter + 1
  /\ UNCHANGED <<wide, missed, exported, transaction, memory, call>>

AddName ==
  /\ setter \in DOMAIN DllList /\ ~removing
  /\ LET d == DllList[setter] IN
       \/ narrow' = narrow \cup {d} /\ wide' = wide \cup {d} /\ UNCHANGED missed
       \/ /\ missed' = missed \cup {d}
          /\ \/ narrow' = narrow \cup {d} /\ UNCHANGED wide
             \/ wide' = wide \cup {d} /\ UNCHANGED narrow
             \/ UNCHANGED <<narrow, wide>>
  /\ setter' = setter + 1
  /\ UNCHANGED <<exported, transaction, memory, call>>

-----------------------------------------------------------------------------
(* a caller goes on to .at, in the function .fn *)
Go(c, new) ==
  /\ call' = [call EXCEPT ![c] = new]
  /\ UNCHANGED <<exported, transaction, memory, lists>>

(***************************************************************************)
(* A thread calls one of the loader functions.  .safe: when it does so the *)
(* hooks are attached and the list is set.                                 *)
(***************************************************************************)
CallLoader(c) ==
  /\ call[c].at \in {"idle", "loaded", "refused"}
  /\ \E h \in Exported, d \in Dlls :
       Go(c, [at |-> "call", fn |-> TargetOf[h], hook |-> "none", dll |-> d,
              safe |-> pc = "attached" /\ setter = Len(DllList) + 1])

(* the first instruction: of the function, of a jump, or of half a jump *)
Enter(c) ==
  /\ call[c].at = "call"
  /\ LET there == code[call[c].fn] IN
       Go(c, CASE there = "orig" -> [call[c] EXCEPT !.at = "prologue"]
               [] there = "half" -> [call[c] EXCEPT !.at = "torn"]
               [] OTHER          -> [call[c] EXCEPT !.at = "hook", !.hook = there])

Proceed(c) ==
  /\ call[c].at = "prologue"
  /\ Go(c, [call[c] EXCEPT !.at = "body"])

(* isBlacklistedDll, under the shared lock, in the list of the hook's kind *)
Check(c) ==
  /\ call[c].at = "hook" /\ ~Locked
  /\ LET list == IF call[c].hook \in Narrow THEN narrow ELSE wide IN
       Go(c, [call[c] EXCEPT !.at = IF call[c].dll \in list THEN "refused" ELSE "allowed"])

(* mutant: the hook calls the function it is itself *)
CallHook(c) ==
  /\ call[c].at = "allowed"
  /\ Go(c, [call[c] EXCEPT !.fn = call[c].hook, !.at = "call"])

(* the hook calls its pointer, which may still lead to the target *)
CallReal(c) ==
  /\ call[c].at = "allowed"
  /\ LET h == call[c].hook IN
       Go(c, [call[c] EXCEPT !.fn = TargetOf[h],
                             !.at = IF ptr[h] = "tramp" THEN "body" ELSE "call"])

(* the rest of the function: calls another one, or loads the DLL *)
CallInner(c) ==
  /\ call[c].at = "body" /\ Inner[call[c].fn] # "none"
  /\ Go(c, [call[c] EXCEPT !.at = "call", !.fn = Inner[call[c].fn]])

(* Windows holds the loader lock while DllMain runs *)
LoadDll(c) ==
  /\ call[c].at = "body" /\ Inner[call[c].fn] = "none"
  /\ ~InTransaction /\ pc # "begin"
  /\ Go(c, [call[c] EXCEPT !.at = "loaded"])

Step(c) == Enter(c) \/ Proceed(c) \/ Check(c) \/ CallReal(c) \/ CallInner(c) \/ LoadDll(c)

Next == DllMain \/ Unload \/ LockList \/ AddName
          \/ \E c \in Callers : CallLoader(c) \/ Step(c)

(* DllMain, a thread inside a call and the one that holds the lock go on *)
Fairness == WF_vars(DllMain) /\ WF_vars(AddName) /\ \A c \in Callers : WF_vars(Step(c))

Spec == Init /\ [][Next]_vars /\ Fairness

-----------------------------------------------------------------------------
(***************************************************************************)
(* However many hooks share a target or a page, and wherever the           *)
(* transaction fails: once it is over, what is left writable of the code   *)
(* and the trampolines is what Windows itself refused to give back         *)
(* (detours.cpp:1213, 1618, 1904, whose results are dropped), and a page   *)
(* that was left so once is left so for good.                              *)
(***************************************************************************)
PagesRestored ==
  ~InTransaction => /\ \A p \in Pages : perm[p] = "rwx" <=> p \in stuck
                    /\ region = "rwx" <=> "region" \in stuck

(***************************************************************************)
(* At every moment, also between the writes of a transaction: a jump leads *)
(* to a hook whose trampoline exists, and so does a pointer to a           *)
(* trampoline.  And what has a trampoline is on its way in or attached:    *)
(* none is lost.                                                           *)
(***************************************************************************)
NoDanglingJump ==
  /\ \A t \in Targets : code[t] \in Hooks => code[t] \in used
  /\ \A h \in Hooks : ptr[h] = "tramp" => h \in used
  /\ ~InTransaction /\ used # {} =>
       region # "none" /\ \A h \in used : ptr[h] = "tramp"

Full ==
  /\ used = Exported
  /\ \A h \in Exported : ptr[h] = "tramp" /\ code[TargetOf[h]] \in Exported

Clean ==
  /\ used = {}
  /\ \A t \in Targets : code[t] = "orig"
  /\ \A h \in Hooks : ptr[h] # "tramp"

(***************************************************************************)
(* A transaction hooks everything that is there or nothing: one hook that  *)
(* cannot be attached leaves every function as it was, and a DLL that is   *)
(* unloaded leaves no jump behind, unless its removal failed as a whole.   *)
(***************************************************************************)
AllOrNothing ==
  /\ pc = "attached" => Full
  /\ pc = "failed" => Clean
  /\ pc = "gone" => Clean \/ (error /\ Full)

(***************************************************************************)
(* A DLL on the list is refused to every call that begins once the hooks   *)
(* are attached and the list is set, by whichever of the functions and     *)
(* through however many of them it goes; unless the JVM could not convert  *)
(* its name.  A DLL is on the list if its file name is there in exactly    *)
(* that spelling (main.cpp:33).                                            *)
(***************************************************************************)
BlacklistHolds ==
  \A c \in Callers :
    call[c].at = "loaded" /\ call[c].safe => call[c].dll \notin Range(DllList) \ missed

(***************************************************************************)
(* Every call ends, although the hook calls itself as long as its pointer  *)
(* is not set (detours.cpp:1751, 1753) and waits while the list is being   *)
(* set; unless the thread was torn or the process ended.                   *)
(***************************************************************************)
CallsEnd ==
  \A c \in Callers :
    call[c].at = "call" ~> call[c].at \in {"loaded", "refused", "torn", "dead"}
=============================================================================
