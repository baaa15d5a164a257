SPECIFICATION TierSpec
CONSTANTS
    ResidentSnapshots = 2
    StreamedSnapshots = 6
INVARIANTS
    NoOverwriteInFlight
    KernelReadsSettledSlot
PROPERTIES
    EpochCompletes
    ImplementsSequential
