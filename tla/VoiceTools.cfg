SPECIFICATION LiveSpec
CONSTANTS
    ask = ask
    change = change
    Starters <- MCStarters
    Stoppers <- MCStoppers
    Ids <- MCIds
    Tool <- MCTool
    Scenarios <- MCScenarios
    StartTries = 2
    MaxTries = 3
    MaxEra = 4
    MaxDraining = 2
INVARIANTS
    Inv
PROPERTIES
    RunsOnce
    Settles
CHECK_DEADLOCK FALSE
