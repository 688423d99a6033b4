SPECIFICATION FairSpec
CONSTANTS
  t1 = t1
  t2 = t2
  h1 = h1
  a1 = a1
  Thread <- TwoThreads
  Handler <- OneHandler
  Heap = {a1}
  MaxCalls = 2
  MaxNested = 1
  PipeSize = 2
  MayStop = TRUE
INVARIANTS NoLostWakeup SubmitSound
PROPERTIES CallsServed 
