SPECIFICATION LiveSpec
CONSTANTS
    a1 = a1
    a2 = a2
    n1 = n1
    Nobody = Nobody
    Attempts = {a1, a2}
    Number <- Calls1
    Before <- Before1
    Callers = {n1}
    MaxCalls = 2
    MaxRestarts = 1
\* Calls are bounded: the system may stop.
CHECK_DEADLOCK FALSE
INVARIANTS
    Inv
PROPERTIES
    ReceiptsKept
    OutcomeArrives
