SPECIFICATION Spec
CONSTANTS
  Hooks <- MCHooks
  HookList <- MCHookList
  Targets <- MCTargets
  TargetOf <- MCTargetOf
  Pages <- MCPages
  PageOf <- MCPageOf
  Narrow <- MCNarrow
  Inner <- MCInner
  Callers = {c1}
  Dlls <- MCDlls
  DllList <- MCDllList
INVARIANTS
  TypeOK
  PagesRestored
  NoDanglingJump
  AllOrNothing
  BlacklistHolds
PROPERTY CallsEnd
CHECK_DEADLOCK FALSE
