SPECIFICATION FairHostSpec
CONSTANTS
    t1 = t1
    t2 = t2
    b1 = b1
    NoClient = NoClient
    ClosedEnd = ClosedEnd
    Threads = {t1, t2}
    Brokers = {b1}
    MayCrash = TRUE
    MaxSnapshots = 2
    Iterations = 2
    ApplyMayFail = TRUE
INVARIANTS
    HostTypeOK
    SingleFlight
    StatusTruthful
PROPERTIES
    OnlyStaleGoesBack
    LateAnswerIgnored
    RefreshReported
    Reconnects
CHECK_DEADLOCK FALSE
