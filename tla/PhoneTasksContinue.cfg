SPECIFICATION Spec
CONSTANTS
    MaxTask = 2
    Limit = 2
    Corrections <- MCCorrections
    Scenarios <- MCScenarios
PROPERTIES
    ContinuationKept
CHECK_DEADLOCK FALSE
