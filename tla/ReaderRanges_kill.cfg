SPECIFICATION Spec
CONSTANTS
    Start = 1
    HeadBlock = 6
    BatchSize = 2
    MaxReaders = 2
    Ships <- MCEarlyShip
    MaxCrashes = 0
    MaxPauses = 0
    MaxNacks = 0
INVARIANTS
    FinishedMeansPublished
CHECK_DEADLOCK FALSE
