SPECIFICATION FairSpec
CONSTANTS
  q1 = q1
  q2 = q2
  QP <- TwoQPs
  MaxSends = 1
  MaxReceives = 0
  RqDepth = 0
  MaxCompletions = 2
  Word = 256
  ToDeadFails = TRUE
  NetFails = FALSE
INVARIANTS DeletedOnce
PROPERTIES DeadDestroyed StopReturns
