CONSTANTS
    Commands = {c1, c2}
    NoCommand = NoCommand
    Wants = {c1, c2}
    Needs = {c2}
    MaxUrcs = 1
SPECIFICATION FairSpec
INVARIANTS
    TypeOK
    TerminalAttribution
    LinesKept
PROPERTIES
    CallsReturn
    UrcsDelivered
CHECK_DEADLOCK FALSE
