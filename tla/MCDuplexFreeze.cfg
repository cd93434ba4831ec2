\* One goroutine sends and reads; the cloud sends one message more than queues and recvLoop hold.
CONSTANTS
    w = w
    r = r
    p = p
    h = h
    Senders = {w}
    Reader = w
    Handler = h
    Pushers = {p}
    Frames = {"beat", "event"}
    Beat = "beat"
    NoThread = NoThread
    NoFrame = NoFrame
    Open = Open
    EOF = EOF
    Cut = Cut
    Window = 2
    RecvCap = 2
    MaxDown = 6
SPECIFICATION DuplexFairSpec
PROPERTY RecvNeverFreezes
