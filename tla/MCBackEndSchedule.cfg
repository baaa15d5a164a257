SPECIFICATION MCSpec
CONSTANTS
    D = 2
    Layers = 2
    BytesPerFeat = 4
    BytesPerEdge = 12
    ReserveBuffers = 1
    CpuRate = 1
    Capacities = {30, 100, 160, 250}
    Rates = {1, 2}
    NodeCounts = {1, 3, 4, 5}
    EdgeCounts = {0, 1, 3}
    Windows = {1, 4}
    Vertices = {1, 2, 3}
    Sizes = {1, 2, 4}
INVARIANTS
    PeakHeld
    StreamsIffReserved
    FewestRowsSpilled
    SplitBracketsBalance
CHECK_DEADLOCK FALSE
