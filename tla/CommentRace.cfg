SPECIFICATION Spec
CONSTANTS
  Users = {u1}
  Posts = {p1}
  Requests = {r1, r2}
  Entries = {"absent", "present"}
  HeatWeight <- MCHeatWeight
  MaxEvents = 3
  MaxHeat = 2
INVARIANTS
  CommentLedger
