SPECIFICATION Spec
CONSTANTS
  Lines <- OneWord
  Places <- MCPlaces
PROPERTY ForkStarts
CHECK_DEADLOCK FALSE
