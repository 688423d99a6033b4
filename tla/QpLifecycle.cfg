SPECIFICATION Spec
CONSTANTS
  q1 = q1
  q2 = q2
  QP <- TwoQPs
  MaxSends = 1
  MaxReceives = 1
  RqDepth = 1
  MaxCompletions = 2
  Word = 256
  ToDeadFails = FALSE
  NetFails = TRUE
SYMMETRY Symmetric
INVARIANTS NoDanglingConn BuffersReturned
