SPECIFICATION Spec
CONSTANTS
    MaxRequests = 2
    Faults = {"cp", "worker", "call", "crash"}
    MaxFaults = 1
INVARIANTS
    TypeOK
    DeletedIsGone
    ReasonOwned
PROPERTIES
    NoLateStart
CHECK_DEADLOCK FALSE
