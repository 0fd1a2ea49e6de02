SPECIFICATION Spec
CONSTANTS
  Users = {u1, u2}
  Posts = {p1}
  Requests = {r1, r2}
  Entries = {"absent", "present"}
  HeatWeight <- MCHeatWeight
  MaxEvents = 4
  MaxHeat = 2
SYMMETRY Symmetry
INVARIANTS
  LikeLedger
  CommentNeverOver
  LikeIdOrder
  HeatEarned
