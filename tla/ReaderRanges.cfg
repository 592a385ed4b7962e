SPECIFICATION FairSpec
CONSTANTS
    Start = 1
    HeadBlock = 6
    BatchSize = 2
    MaxReaders = 2
    Ships <- MCShips
    MaxCrashes = 1
    MaxPauses = 1
    MaxNacks = 1
INVARIANTS
    NoSharedBlock
    NothingPastHead
    NoBlockForgotten
PROPERTIES
    BackfillEnds
CHECK_DEADLOCK FALSE
