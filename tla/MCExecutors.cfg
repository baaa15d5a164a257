CONSTANTS
    N = 3
    F = 2
    Ranks = 3
    IntraRate = 4
    InterRate = 1
    Unwritten <- MCUnwritten
    MachineOf <- MCMachineOf
    Bandwidth <- MCBandwidth
    Jobs <- MCJobs
SPECIFICATION Spec
INVARIANT HaloIsExact
PROPERTIES
    ExecutorsImplementLayers
    EveryJobReturns
CHECK_DEADLOCK FALSE
