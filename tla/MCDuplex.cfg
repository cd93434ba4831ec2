\* Received is read by a goroutine that does not send.
CONSTANTS
    w = w
    r = r
    p = p
    h = h
    Senders = {w}
    Reader = r
    Handler = h
    Pushers = {p}
    Frames = {"beat", "event"}
    Beat = "beat"
    NoThread = NoThread
    NoFrame = NoFrame
    Open = Open
    EOF = EOF
    Cut = Cut
    Window = 1
    RecvCap = 1
    MaxDown = 5
SPECIFICATION DuplexFairSpec
INVARIANTS SlackSuffices NoCircle
PROPERTIES RecvNeverFreezes CallsReturn CommandsAreRead
