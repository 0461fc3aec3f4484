SPECIFICATION Spec
CONSTANTS
  p = p
  q = q
  Procs = {p, q}
  Frames = {}
  Os = "MacOS"
  h0 = h0
  h2 = h2
  h3 = h3
  h4 = h4
  hx = hx
  Hashes <- MCHashes
  Feeds <- OnlySecond
  None = None
  Gone = Gone
  Partial = Partial
  MaxInt = 20
  FirstVersion <- V1Nine
  Rank <- MCRank
  MaxFaults = 0
  MaxLateFaults = 0
  MaxSaveFaults = 0
  MaxAge = 2
INVARIANTS
  AppSurvives
