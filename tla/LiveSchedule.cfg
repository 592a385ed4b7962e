SPECIFICATION Spec
CONSTANTS
    Producers = 4
    PerRound = 2
    MaxBlocks = 10
    MaxMissed = 2
    MaxSteps = 6
INVARIANT RoundMissedOnce
CHECK_DEADLOCK FALSE
