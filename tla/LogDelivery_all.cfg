SPECIFICATION FairSpec
CONSTANTS
    MaxLine = 4
    BatchMax = 2
    WalMax = 2
    DrainMax = 2
    FaultKinds = {"sample", "defer", "stale", "insert", "append", "crash"}
    MaxFaults = 3
INVARIANTS
    LossOnlyKnown
    OutageIsSurvived
PROPERTIES
    ShownStays
    PauseEnds
CHECK_DEADLOCK FALSE
