SPECIFICATION LoopSpec
CONSTANTS
    Cap = 12
    High = 9
    Low = 7
    Usable = 11
    HostBudget = 2
    BufferBudget = 0
    HostCap = 20
    Demands <- MCDemands
    Hints <- MCHints
    StreamLength = 4
    MaxDrain = 40
    Negligible = 1
INVARIANTS
    BytesConserved
PROPERTIES
    TickIsBounded
    DrainProgress
    RunDrains
