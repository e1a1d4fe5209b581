CONSTANTS
    NJobs = 3
    Options <- TwoGroupFiles
    exitall = TRUE
    BusyStates = {4}
    UINT_MAX = 7
    MayFail = FALSE
    MayNotStart = FALSE
    MayCrash = FALSE
    MayInterrupt = FALSE
SPECIFICATION Spec
PROPERTIES ExitallEndsTheRest
CHECK_DEADLOCK FALSE
