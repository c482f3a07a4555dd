SPECIFICATION FairSpec
CONSTANTS
    b1 = b1
    b2 = b2
    c1 = c1
    c2 = c2
    NoClient = NoClient
    ClosedEnd = ClosedEnd
    Brokers = {b1}
    Clients = {c1, c2}
    Mute = {}
    Holders = {c2}
    MayCrash = FALSE
    MaxSnapshots = 1
PROPERTIES
    EndpointReturns
CHECK_DEADLOCK FALSE
