\* Lines appended to the file by one write each, or to standard input by any.
\* The system may stop: main has returned.
CONSTANTS
    s1 = s1
    Modes = {"tail", "stdin"}
    Split = {"stdin"}
    Sessions = {s1}
    Quit = Quit
    Junk = Junk
    NoSession = NoSession
    OldText = 2
    MaxText = 6
    ChanCap = 1
CHECK_DEADLOCK FALSE
SPECIFICATION FairSpec
INVARIANTS NewLinesWhole AnnouncedIsRouted
PROPERTY TextIsExecuted
