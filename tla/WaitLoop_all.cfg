SPECIFICATION FairSpec
CONSTANTS
    Modes = {"direct", "docker"}
    MaxRequests = 2
    MaxProcs = 3
    MaxEdits = 1
    MaxBreaks = 1
    MaxAdrift = 1
INVARIANTS
    TypeOK
    HealthyIsRecorded
PROPERTIES
    WorkerContract
    KillIsNoCrash
    WakeRespectsStop
    BrokenRestartsNothing
    CrashIsNoticed
    OperationsEnd
CHECK_DEADLOCK FALSE
