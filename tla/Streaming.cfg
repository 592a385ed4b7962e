SPECIFICATION FairSpec
CONSTANTS
    MaxSockets = 2
    MaxRequests = 2
    MaxLosses = 1
INVARIANTS
    AnsweredIsServed
PROPERTIES
    RequestsAnswered
CHECK_DEADLOCK FALSE
