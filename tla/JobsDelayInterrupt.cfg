CONSTANTS
    NJobs = 2
    Options <- DelayFiles
    exitall = FALSE
    BusyStates = {4}
    UINT_MAX = 7
    MayFail = FALSE
    MayNotStart = FALSE
    MayCrash = FALSE
    MayInterrupt = TRUE
SPECIFICATION FairSpec
PROPERTIES Finishes
CHECK_DEADLOCK FALSE
