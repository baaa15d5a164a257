SPECIFICATION MCSpec
CONSTANTS
    Vertices = {0, 1, 2, 3, 4, 5, 6, 7, 8}
    Empty = Empty
    MinCapacity = 4
INVARIANTS
    EarIsLatestSharedEvent
PROPERTIES
    ImplementsPythonLoop
    Terminates
CHECK_DEADLOCK FALSE
