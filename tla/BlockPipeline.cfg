SPECIFICATION FairSpec
CONSTANTS
    NumBlocks = 2
    Prefetch = 2
    TxCache = {TRUE, FALSE}
    MaxMishaps = 1
    MaxFulls = 1
INVARIANTS
    BlockAccounted
    TraceAccounted
PROPERTIES
    AllIndexed
CHECK_DEADLOCK FALSE
