CONSTANTS
    NJobs = 3
    Options <- AllFiles
    exitall = FALSE
    BusyStates = {4}
    UINT_MAX = 7
    MayFail = FALSE
    MayNotStart = FALSE
    MayCrash = FALSE
    MayInterrupt = FALSE
SPECIFICATION CaseSpec
INVARIANTS TodoExact
PROPERTIES StonewallWaits Finishes
CHECK_DEADLOCK FALSE
