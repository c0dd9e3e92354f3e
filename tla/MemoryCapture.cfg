SPECIFICATION LiveSpec
CONSTANTS
    MaxCall = 2
    MaxEvent = 3
    MaxBatch = 1
    MaxWaiting = 2
    Scenarios <- MCScenarios
INVARIANTS
    Inv
    NothingLost
PROPERTIES
    Reported
CHECK_DEADLOCK FALSE
