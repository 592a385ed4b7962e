SPECIFICATION Spec
CONSTANTS
    m1 = m1
    m2 = m2
    m3 = m3
    m4 = m4
    Msgs <- MCMsgs
    Queue <- MCQueue
    DocOf <- OwnDoc
    IdsMatch = {TRUE}
    Prefetches = {2}
    MaxFailures = 1
    MaxRejects = 0
    MaxLosses = 0
    MaxCrashes = 0
    MaxMishaps = 1
INVARIANTS
    NothingLost
CHECK_DEADLOCK FALSE
