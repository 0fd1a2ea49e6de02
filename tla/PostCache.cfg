SPECIFICATION FairSpec
CONSTANTS
  Servers = {s1}
  Readers = {g1, g2}
  Deleters = {d1}
  FalsePositive = TRUE
  MaxVersion = 2
  MaxLost = 1
  MaxCrash = 1
INVARIANTS
  TypeOK
  OnlyOvertakenFills
  BloomComplete
PROPERTIES
  DeletedStaysGone
  CreatedIsFound
