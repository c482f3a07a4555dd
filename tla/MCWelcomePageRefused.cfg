SPECIFICATION FairSpec
CONSTANTS
    t1 = t1
    t2 = t2
    Threads <- MCThreads
    ApplyMayFail = FALSE
PROPERTIES
    PendingSettles
CHECK_DEADLOCK FALSE
