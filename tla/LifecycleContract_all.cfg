SPECIFICATION FairSpec
CONSTANTS
    Ops = {o1, o2}
    Editors = {e1}
    MaxRequests = 3
    MaxEdits = 1
INVARIANTS
    TypeOK
    OneJava
    HealthyIsRecorded
PROPERTIES
    WorkerContract
    StartsFromCurrentConfig
    CrashIsNoticed
    OperationsEnd
CHECK_DEADLOCK FALSE
