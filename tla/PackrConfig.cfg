SPECIFICATION FairSpec
CONSTANTS
  Launchers = {l}
  Frames = {f}
  r1 = r1
  r2 = r2
  bare = bare
  Releases <- MCReleases
  ArgsOf <- MCArgsOf
  Shipped = Shipped
  Updates = TRUE
  MaxSaves = 3
  MaxInstalls = 1
  MaxFaults = 1
INVARIANTS
  TypeOK
  ArgsMatchEnv
PROPERTIES
  FlagConverges
