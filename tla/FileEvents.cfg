SPECIFICATION Spec
CONSTANTS
  c1 = c1
  c2 = c2
  NULL = NULL
  Callback <- TwoCallbacks
  Fd = {1, 2}
  InitNevent = 2
SYMMETRY CallbackSymmetry
INVARIANTS TableMatchesEpoll CallbacksAlive EdgesKept
