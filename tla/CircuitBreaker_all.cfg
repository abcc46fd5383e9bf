SPECIFICATION FairSpec
CONSTANTS
    s1 = s1
    e1 = e1
    Starters = {s1}
    Editors = {e1}
    Threshold = 1
    Faults = {"frame", "file"}
    MaxCrashes = 1
    MaxFrames = 1
    MaxEvents = 3
INVARIANTS
    TypeOK
    
    FileFollows
PROPERTY BreakReachesWrapper
CHECK_DEADLOCK FALSE
