\* Two streams that carry the frames of two sessions, one Push at a time.
SPECIFICATION Spec
CONSTANTS
    Sessions = {s1, s2}
    Streams = {a, b}
    Pushers = {p}
    NoSession = NoSession
    NoConn = NoConn
    NoThread = NoThread
    LeaseRenewal = TRUE
    UpCap = 1
    DownCap = 1
SYMMETRY Symmetry
INVARIANTS
    NoZombieRoute
    UnroutedOnlyAfterTakeover
    NoCrossRouting
    SendsSerialized
    WaitsOnlyForItsEdge
