SPECIFICATION FairSpec
CONSTANTS
  Launchers = {a}
  client1 = client1
  client2 = client2
  lib = lib
  c1 = c1
  c2 = c2
  l1 = l1
  l2 = l2
  Names <- MCNames
  Hashes <- MCHashes
  InitialRepos <- MCInitialRepos
  Absent = Absent
  Garbage = Garbage
  Bootstraps <- BothReleases
  MaxRuns = 4
  MaxFaults = 3
INVARIANTS
  TypeOK
  VerifiedLaunch
  ProgressComplete
  UndisturbedRunSucceeds
PROPERTIES
  GoodFilesKept
  BasesKept
  KeepsPromise
  RecoversAndLaunches
CHECK_DEADLOCK FALSE
