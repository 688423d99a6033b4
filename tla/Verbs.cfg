SPECIFICATION FairSpec
CONSTANTS
    Worker = {w1, w2}
    Sock = {s1, s2}
    NumDevices = 2
    RecvLen = 2
    Limits = {0, 1, 2, 3}
    RetryAbove = 1
    Hugepage = TRUE
    TxNum = 1
    BufSize = 2
    Word = 8
    MaxFails = 1
INVARIANTS ObjectsSound PoolAccounted SendsWhatWasWritten
 
