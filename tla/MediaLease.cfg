SPECIFICATION LiveSpec
CONSTANTS
    r1 = r1
    r2 = r2
    gemini = gemini
    hermes = hermes
    Requests = {r1, r2}
    Owners = {gemini, hermes}
    MaxCalls = 2
\* Calls and requests are bounded: the system may stop.
CHECK_DEADLOCK FALSE
INVARIANTS
    Inv
    StateAgrees
PROPERTIES
    AbandonedReclaimed
    RequestsAnswered
