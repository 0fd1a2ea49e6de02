SPECIFICATION Spec
CONSTANTS
  post1 = post1
  Posts = {post1}
  Servers = {s1}
  Workers = {w1, w2}
  Events <- OneEvent
  BatchSize = 2
  Prefetch = 2
  ConfirmBuffer = 1
  Limit <- AnyFault
  MaxFaults = 2
SYMMETRY Symmetry
INVARIANTS
  TypeOK
  ExactlyOnce
  NoLoss
  StaleCovered
  ConfirmsOwed
