SPECIFICATION Spec
CONSTANTS
    D = 3
    BudgetPercent = 25
    ExactMatchMax = 6
    Streams <- MCStreams
    Sizes <- MCSizes
    WindowEdges = 1
    Growing = FALSE
    MaxStaleness = 2
    FirstSize = 4
    LastSize = 5
    Events = 4
INVARIANT
    EveryEventIngestedOnce
