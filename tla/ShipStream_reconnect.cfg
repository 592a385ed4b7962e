SPECIFICATION Spec
CONSTANTS
    Roles = {FALSE}
    First = 2
    Last = 5
    FirstOnShip = 1
    Bares = {{}}
    Prefetch = 2
    MaxDrops = 1
    MaxMqDrops = 0
INVARIANTS
    CompletedMeansPublished
CHECK_DEADLOCK FALSE
