SPECIFICATION WritersSpec
CONSTANTS
    m1 = m1
    m2 = m2
    m3 = m3
    m4 = m4
    Msgs <- MCMsgs
    Queue <- MCQueue
    DocOf <- OwnDoc
    IdsMatch = {TRUE, FALSE}
    Prefetches = {2, 3}
    MaxFailures = 1
    MaxRejects = 1
    MaxLosses = 1
    MaxCrashes = 1
    MaxMishaps = 2
    Fork = 2
    MaxHead = 4
    MaxInFlight = 2
    MaxLib = 2
    MaxSwitches = 2
    MaxFailedCalls = 1
    Passes = {p1, p2}
    PartitionSize = 2
    RetentionSettings <- MCRetention
    QuietBlocks <- MCQuietBlocks
    MaxAgeBlocks = 2
    ChainLength = 5
    MaxLag = 1
    MaxDeleteErrors = 1
INVARIANTS
    LossBounded
    NoForkForgotten
    KeepsCanonicalOnce
    MapFollowsChain
    RetainedKept
PROPERTIES
    ContractKept
    IngestorWrites
    ForksCleaned
CHECK_DEADLOCK FALSE
