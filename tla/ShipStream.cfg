SPECIFICATION FairSpec
CONSTANTS
    Roles = {TRUE, FALSE}
    First = 1
    Last = 5
    FirstOnShip = 2
    Bares = {{}, {3}}
    Prefetch = 2
    MaxDrops = 2
    MaxMqDrops = 1
INVARIANTS
    NoGap
PROPERTIES
    RangeCompletes
    LiveCatchesUp
CHECK_DEADLOCK FALSE
