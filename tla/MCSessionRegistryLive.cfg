\* One session on two streams, with the fairness of the goroutines.
SPECIFICATION FairSpec
CONSTANTS
    Sessions = {s1}
    Streams = {a, b}
    Pushers = {p}
    NoSession = NoSession
    NoConn = NoConn
    NoThread = NoThread
    LeaseRenewal = TRUE
    UpCap = 1
    DownCap = 1
PROPERTIES
    BrokenStreamUnrouted
    ImplementsRouteTable
    StableStreamGetsRoute
