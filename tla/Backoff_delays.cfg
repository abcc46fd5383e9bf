SPECIFICATION Spec
CONSTANTS
    MaxFastCrashes = 5
    MaxCrashes = 40
INVARIANT DelayDoubles
CHECK_DEADLOCK FALSE
