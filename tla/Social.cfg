SPECIFICATION FairSpec
CONSTANTS
  Users = {u1, u2}
  Requests = {r1, r2}
INVARIANTS
  Degrees
  StaleUserCovered
PROPERTIES
  RequestsEnd
