CONSTANTS
    n1 = n1
    n2 = n2
    Nobody = Nobody
    d1 = d1
    Numbers <- MCNumbers
    Dials <- MCDials
    Target <- MCTarget
    MaxOverlap = 1
    MaxConnections = 1
    Scenarios <- MCScenarios
SPECIFICATION FairSpec
INVARIANTS
    Inv
    AgreesWhenQuiet
PROPERTIES
    PendingCleared
    EndingEnds
\* Calls and requests are bounded: the system may stop.
CHECK_DEADLOCK FALSE
