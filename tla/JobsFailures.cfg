CONSTANTS
    NJobs = 2
    Options <- MixedFiles
    exitall = TRUE
    BusyStates = {3, 4, 7}
    UINT_MAX = 7
    MayFail = TRUE
    MayNotStart = TRUE
    MayCrash = TRUE
    MayInterrupt = TRUE
SPECIFICATION Spec
INVARIANTS NrRunningExact EndIsTold
PROPERTIES LifeCycle
CHECK_DEADLOCK FALSE
