SPECIFICATION Spec
CONSTANTS
    MaxRequests = 2
    Faults = {}
    MaxFaults = 0
INVARIANT DamagedMustBeRebuilt
CHECK_DEADLOCK FALSE
