SPECIFICATION FairSpec
CONSTANTS
    Handlers = {h1, h2}
    Launcher = launcher
    AutoRestart = TRUE
    MaxFastCrashes = 2
    MaxLaunch = 3
    MaxFrames = 2
INVARIANTS
    TypeOK
    OrphanOnlyByLateLaunch
PROPERTIES
    SupervisorContract
    CrashLoopGivesUp
    StopEndsWrapper
    DisabledWrapperEnds
CHECK_DEADLOCK FALSE
