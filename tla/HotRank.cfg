SPECIFICATION HotSpec
CONSTANTS
  Posts = {1, 2}
  u1 = u1
  Viewers = {u1}
  Likes <- MCLikes
  Guest = guest
  Handlers = {h1}
  Readers = {r1}
  Weights = {1, 2}
  Limit = 1
  Window = 4
  BucketTTL = 1
  ResultTTL = 1
  MaxLate = 1
  MaxHeat = 2
INVARIANTS
  HotTypeOK
  OwnLikes
  HotIsRecent
PROPERTIES
  RankIsEarned
