\* A frame of an old stream that is handled after the Edge has reconnected.
SPECIFICATION Spec
CONSTANTS
    Sessions = {s1}
    Streams = {a, b}
    Pushers = {p}
    NoSession = NoSession
    NoConn = NoConn
    NoThread = NoThread
    LeaseRenewal = FALSE
    UpCap = 1
    DownCap = 1
INVARIANTS
    LiveSessionKeepsRoute
