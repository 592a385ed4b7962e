SPECIFICATION ForkSpec
CONSTANTS
    Fork = 2
    MaxHead = 4
    MaxInFlight = 2
    MaxLib = 1
    MaxSwitches = 2
    MaxFailedCalls = 0
    Passes = {p1, p2}
INVARIANTS
    KeepsCanonical
CHECK_DEADLOCK FALSE
