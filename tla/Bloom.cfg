SPECIFICATION BloomSpec
CONSTANTS
  Items = {1, 2, 3, 4}
  Adders = {a1, a2}
  M = 24
  K = 3
  WordSize = 8
  Hash1 <- MCHash1
  Hash2 <- MCHash2
INVARIANTS
  NoFalseNegative
  OnlyTheirBits
