CONSTANTS
    D = 3
    Coarsest = 3
    ManyVertices = 6
    UbPercent = 103
    InputGraphs <- MCInputGraphs
    SN = 4
    SD = 3
    EdgeLists <- MCEdgeLists
    Params <- MCParams
    WeightLists <- MCWeightLists
INIT Init
NEXT Next
INVARIANTS
    CoarseningIsFaithful
    StreamsStayInCapacity
PROPERTIES
    CutOnlyFalls
    CapacitiesAreRestored
    SharedPartIsReused
CHECK_DEADLOCK FALSE
