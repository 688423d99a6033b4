SPECIFICATION Spec
CONSTANTS
  Chunk = {c1, c2, c3}
  RqLen = 2
  Srq = FALSE
  MaxBytes = 2
  MaxMsgs = 4
INVARIANTS RxOwnership StreamInOrder
