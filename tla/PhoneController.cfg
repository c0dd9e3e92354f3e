SPECIFICATION LiveSpec
CONSTANTS
    owner = owner
    guest = guest
    spam = spam
    Numbers = {owner, guest, spam}
    Unknown = Unknown
    Recipient = guest
    Refused = {spam}
    TTL = 3
    Margin = 1
    Scenarios <- Small
\* Calls are bounded: the system may stop.
CHECK_DEADLOCK FALSE
INVARIANTS
    Inv
PROPERTIES
    NotReopened
    AuthorityEnds
    WrongCallerEnds
