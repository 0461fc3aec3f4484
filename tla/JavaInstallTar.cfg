SPECIFICATION Spec
CONSTANTS
  LastJre = 2
  ZipArchives = FALSE
  Downgrades = FALSE
  MaxFaults = 0
  MaxReadFaults = 0
INVARIANTS
  TrustedIsWhole
