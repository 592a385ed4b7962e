SPECIFICATION FairSpec
CONSTANTS
    Rows = {r1}
    NumQueues = {1, 2}
    Prefetch = 2
    MaxLoad = 5
    MaxMishaps = 1
INVARIANTS
    RowsFollowChain
    AnsweredWorkerIsQuiet
PROPERTIES
    WorkersResume
CHECK_DEADLOCK FALSE
