\* Two senders and a reader, two messages in flight and two in the channel.
CONSTANTS
    w1 = w1
    w2 = w2
    r = r
    Senders = {w1, w2}
    Reader = r
    Frames = {"event"}
    NoThread = NoThread
    NoFrame = NoFrame
    Open = Open
    EOF = EOF
    Cut = Cut
    Window = 2
    RecvCap = 2
    MaxDown = 6
SPECIFICATION FairSpec
INVARIANT ErrTellsTheEnd
PROPERTIES EndIsSeen SendsEnd ImplementsEndingFifo
