SPECIFICATION FairSpec
INVARIANTS
  TypeOK
  OneDialog
  FatalMeansFatal
  StageFindsSplash
  NothingForgotten
PROPERTIES
  FailureShown
  SplashGoes
CHECK_DEADLOCK FALSE
