SPECIFICATION Spec
CONSTANTS
  post1 = post1
  Posts = {post1}
  Servers = {s1}
  Workers = {w1}
  Events <- TwoEvents
  BatchSize = 2
  Prefetch = 2
  ConfirmBuffer = 1
  Limit <- TimeoutCrash
  MaxFaults = 2
INVARIANTS
  NeverLost
