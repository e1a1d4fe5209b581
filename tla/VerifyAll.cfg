CONSTANTS
    u1 = u1
    u2 = u2
    t1 = t1
    t2 = t2
    NoOne = NoOne
    IoUs <- TwoIoUs
    VerifyThreads <- TwoThreads
    NReads = 2
    iodepth_low = 1
    Engines <- BothEngines
    MayBusy = TRUE
    MayFail = TRUE
    MayMiscompare = TRUE
    continue_on_error = FALSE
    verify_fatal = FALSE
SPECIFICATION FairSpec
INVARIANTS IoUsExact
PROPERTIES HandedIsTaken FreeArrives
CHECK_DEADLOCK FALSE
