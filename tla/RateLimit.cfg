SPECIFICATION Spec
CONSTANTS
  Handlers = {r1, r2}
  RateIPPerMin = 3
  RateUserPerMin = 0
  DefaultIP = 2
  DefaultUser = 2
  Minute = 2
  KeyTTL = 3
  MaxLate = 1
  MaxTime = 3
  MaxAsked = 4
  MaxAgain = 1
SYMMETRY Symmetry
INVARIANTS
  MinuteBound
  CountIsEarned
  SlidingBound
  RefusedForCause
CHECK_DEADLOCK FALSE
