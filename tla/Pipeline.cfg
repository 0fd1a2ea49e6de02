SPECIFICATION FairSpec
CONSTANTS
  Users = {u1}
  Posts = {p1}
  Requests = {r1}
  HeatWeight <- MCHeatWeight
  MaxEvents = 2
  MaxHeat = 0
  Servers = {s1}
  Workers = {w1}
  BatchSize = 2
  Prefetch = 1
  ConfirmBuffer = 1
  Limit <- WorkerFaults
  MaxFaults = 1
INVARIANTS
  LikeCountNonNegative
  QuiescentCounts
PROPERTIES
  ImplementsCountService
  EventuallySettled
