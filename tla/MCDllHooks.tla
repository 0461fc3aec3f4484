------------------------------ MODULE MCDllHooks ------------------------------
(***************************************************************************)
(* DllHooks for TLC.  The kernel32 functions LoadLibraryA and LoadLibraryW *)
(* lead to the ones of kernelbase: the first has a body of its own that    *)
(* calls the other, the second is an import jump, which Detours follows,   *)
(* so that both hooks share a target.  In kernelbase the narrow function   *)
(* calls the wide one, on the same page.                                   *)
(***************************************************************************)
EXTENDS DllHooks

MCHooks    == {"K32A", "K32W", "KBA", "KBW"}
MCHookList == <<"K32A", "K32W", "KBA", "KBW">>
MCTargets  == {"k32a", "kba", "kbw"}
MCTargetOf == [K32A |-> "k32a", K32W |-> "kbw", KBA |-> "kba", KBW |-> "kbw"]
MCPages    == {"k32", "kb"}
MCPageOf   == [k32a |-> "k32", kba |-> "kb", kbw |-> "kb"]
MCNarrow   == {"K32A", "KBA"}
MCInner    == [k32a |-> "kba", kba |-> "kbw", kbw |-> "none"]
MCDlls     == {"bad", "worse", "good"}
MCDllList  == <<"bad", "worse">>
=============================================================================
