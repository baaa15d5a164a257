SPECIFICATION MCSpec
CONSTANTS
    Vertices = {0, 1, 2}
    Snapshots = {0, 1}
    D = 2
    Weights = {0, 1, 3}
    Caps = {0, 1, 4}
    MaxEdges = 4
    Homes <- MCHomes
INVARIANTS
    LoadsExactWithinCap
    LocalOptimum
    NoWorseThanCorners
    SupraPlanFits
    FoldKeepsWholeTimelines
PROPERTIES
    RefineDescends
