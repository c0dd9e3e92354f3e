SPECIFICATION Spec
CONSTANTS
    r = r
    c = c
    Keys = {r, c}
    Root = r
    Tries <- RootThrice
    Delays = 1
    Scenarios <- Requests
\* Requests are bounded: the system may stop.
CHECK_DEADLOCK FALSE
INVARIANTS
    Inv
    DecisionIsFinal

    
    
