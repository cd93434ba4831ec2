\* Two handlers whose messages mix two sessions; inboxes of one.
\* The system may stop: every handler has delivered MaxFrames messages.
SPECIFICATION FairMetricsSpec
CONSTANTS
    Sessions = {s1, s2}
    Handlers = {h1, h2}
    NoMsg = NoMsg
    InboxCap = 1
    MaxFrames = 2
CHECK_DEADLOCK FALSE
INVARIANTS
    OneForwarder
    Conservation
    InOrder
    EveryDropReported
    TotalWasTrue
PROPERTIES
    DeliverReturns
    AcceptedIsConsumed
    ImplementsLossyFifos
