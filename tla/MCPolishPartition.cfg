SPECIFICATION Spec
CONSTANTS
    N = 5
    D = 3
    Vwgt <- MCVwgt
    Ewgt <- MCEwgt
    Cap <- MCCap
    Graphs <- MCGraphs
    Alphas = {0, 2}
    Slack = 50
INVARIANTS
    CountersExact
    KwayLocalOptimum
PROPERTIES
    EveryMoveDescends
    StragglerShrinks
