SPECIFICATION LiveSpec
CONSTANTS
    MaxTask = 2
    Limit = 2
    Corrections <- MCCorrections
    Scenarios <- MCScenarios
INVARIANTS
    Inv
PROPERTIES
    EndedStays
    Settles
CHECK_DEADLOCK FALSE
