SPECIFICATION FairSpec
CONSTANTS
    b1 = b1
    b2 = b2
    c1 = c1
    c2 = c2
    NoClient = NoClient
    ClosedEnd = ClosedEnd
    Brokers = {b1, b2}
    Clients = {c1, c2}
    Mute = {c1, c2}
    Holders = {c1, c2}
    MayCrash = TRUE
    MaxSnapshots = 2
INVARIANTS
    TypeOK
    OneEndpoint
    AnswersItsRequest
    FreshIsNew
PROPERTIES
    ServiceSpec
    EndpointUnlessHeld
CHECK_DEADLOCK FALSE
