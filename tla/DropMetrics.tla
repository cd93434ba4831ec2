----------------------------- MODULE DropMetrics -----------------------------
(***************************************************************************)
(* Reception together with a reader of its metric, TotalDropped            *)
(* (src/internal/server/cloudlink.go), which adds the counters of all      *)
(* inboxes while it holds s.mu.  deliver needs s.mu to find its inbox, but *)
(* not to count a drop: the counters go on moving under the sum.           *)
(***************************************************************************)
EXTENDS Reception

VARIABLES
    summing,    \* TotalDropped is in its loop, and holds s.mu
    left,       \* the inboxes that the loop has not come to
    total,      \* its local total
    floor       \* history: the number of drops when the loop began

reader == <<summing, left, total, floor>>
allVars == <<vars, reader>>

MetricsInit ==
    /\ Init
    /\ summing = FALSE
    /\ left = {}
    /\ total = 0
    /\ floor = 0

(* Mutant: total outlives the call. *)
Zero_Kept == total
Zero == 0

TotalDropped ==
    /\ ~summing
    /\ summing' = TRUE
    /\ left' = inboxes
    /\ total' = Zero
    /\ floor' = Cardinality(lost)
    /\ UNCHANGED vars

(* One turn of the loop, in the map's order, which is any. *)
Add(s) ==
    /\ s \in left
    /\ left' = left \ {s}
    /\ total' = total + dropped[s]
    /\ UNCHANGED <<vars, summing, floor>>

Return ==
    /\ summing
    /\ left = {}
    /\ summing' = FALSE
    /\ UNCHANGED <<vars, left, total, floor>>

Reader == TotalDropped \/ Return \/ \E s \in Sessions : Add(s)

(* What Reception does, where it takes s.mu and where it does not. *)
NeedsMu == Received \/ \E h \in Handlers, s \in Sessions : Lookup(h, s)
NeedsNoMu ==
    \/ \E h \in Handlers : Deliver(h)
    \/ \E s \in Sessions : Take(s) \/ PutSome(s)
    \/ Consume

MetricsNext ==
    \/ Reader
    \/ ~summing /\ NeedsMu /\ UNCHANGED reader
    \/ NeedsNoMu /\ UNCHANGED reader

MetricsSpec == MetricsInit /\ [][MetricsNext]_allVars

(* The handlers run; nothing is assumed of forwarders, consumer and reader *)
(* of the metric.                                                          *)
FairMetricsSpec == MetricsSpec /\ \A h \in Handlers : WF_vars(Deliver(h))

-----------------------------------------------------------------------------
(* What TotalDropped returns is a total that there was while it ran: it is *)
(* between the numbers of drops at the call and at the return, and that    *)
(* number took every value between them, because each drop adds one.       *)
TotalWasTrue ==
    summing /\ left = {} => floor <= total /\ total <= Cardinality(lost)

=============================================================================
