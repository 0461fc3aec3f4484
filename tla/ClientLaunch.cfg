SPECIFICATION Spec
CONSTANTS
  Lines <- MCLines
  Places <- MCPlaces
INVARIANTS
  TypeOK
  ClientArgsAsTyped
  JvmArgsReachTheirJvm
  LineJudged
PROPERTY GoodLineStarts
CHECK_DEADLOCK FALSE
