CONSTANTS
    Lockers = {l1, l2, l3, l4}
    Posters = {}
    Waiters = {}
    InitValue = 1
    NoThread = NoThread
    EarlyTimeouts = FALSE
    l1 = l1
    l2 = l2
    l3 = l3
    p1 = p1
    p2 = p2
    p3 = p3
    w = w
SPECIFICATION AllSpec
INVARIANTS MutualExclusion NoLostWakeup RwSound
PROPERTIES PostsAreTaken RwServed
CHECK_DEADLOCK FALSE
