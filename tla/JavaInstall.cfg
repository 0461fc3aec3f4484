SPECIFICATION FairSpec
CONSTANTS
  LastJre = 3
  ZipArchives = TRUE
  Downgrades = FALSE
  MaxFaults = 4
  MaxReadFaults = 1
INVARIANTS
  TypeOK
  ReadableIsWhole
  HashAfterUnzip
PROPERTIES
  EventuallyWhole
