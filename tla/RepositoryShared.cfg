SPECIFICATION Spec
CONSTANTS
  Launchers = {a, b}
  client1 = client1
  client2 = client2
  lib = lib
  c1 = c1
  c2 = c2
  l1 = l1
  l2 = l2
  Names <- MCNames
  Hashes <- MCHashes
  InitialRepos <- MCInitialRepos
  Absent = Absent
  Garbage = Garbage
  Bootstraps <- OnlyRelease2
  MaxRuns = 1
  MaxFaults = 0
INVARIANTS
  ConcurrentRunsConverge
CHECK_DEADLOCK FALSE
