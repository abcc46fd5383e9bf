SPECIFICATION FairSpec
CONSTANTS
    MaxRequests = 1
    Faults = {"cp", "worker", "call", "crash"}
    MaxFaults = 1
PROPERTY
    Converges
CHECK_DEADLOCK FALSE
