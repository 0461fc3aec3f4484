SPECIFICATION Spec
CONSTANTS
  p = p
  q = q
  Procs = {p}
  Frames = {f}
  Os = "MacOS"
  h0 = h0
  h2 = h2
  h3 = h3
  h4 = h4
  hx = hx
  Hashes <- MCHashes
  Feeds <- MCFeeds
  None = None
  Gone = Gone
  Partial = Partial
  MaxInt = 20
  FirstVersion <- V1Nine
  Rank <- MCRank
  MaxFaults = 1
  MaxLateFaults = 1
  MaxSaveFaults = 1
  MaxAge = 2
INVARIANTS
  TypeOK
  NewestChosen
  OneUpgradePerStart
PROPERTIES
  NeverDowngrades
