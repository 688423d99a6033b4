SPECIFICATION FairSpec
CONSTANTS
    Thread = {t1, t2}
    Logger = {l1, l2}
    Idx = {"avg", "num"}
    Type <- MCType
    Amount = {1}
    Word = 4
    MaxCalls = 3
    MaxBuilt = 2
    Nobody = Nobody
INVARIANTS ReadIsSnapshot CollectionSound HistogramCounts
PROPERTY CallsReturn
