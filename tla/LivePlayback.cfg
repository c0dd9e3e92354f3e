SPECIFICATION LiveSpec
CONSTANTS
    v = v
    w = w
    x = x
    Sessions = {v, w}
    Listener = v
    MaxTransports = 2
    MaxGen = 2
    MaxSessions = 8
    Packet = 2
    TargetFrames = 3
    MaxFrames = 4
    Prebuffer = 2
    QueueFrames = 3
    Scenarios <- Small
\* The work is bounded: the system may stop.
CHECK_DEADLOCK FALSE
INVARIANTS
    Inv
PROPERTIES
    LinkKept
    HeardInOrder
    ComesToRest
