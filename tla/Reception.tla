------------------------------ MODULE Reception ------------------------------
(***************************************************************************)
(* Reception of edge->cloud messages (src/internal/server/cloudlink.go):   *)
(* one bounded inbox per session_id, filled by the Connect handlers        *)
(* through deliver, and the lazy fan-in of all inboxes into the channel    *)
(* that Received returns, by one forwarder goroutine per inbox.            *)
(*                                                                         *)
(* A handler is one goroutine per stream and calls deliver for one message *)
(* after another; messages of one session may come from several handlers   *)
(* (an Edge that has reconnected, a frame with the empty session_id).      *)
(* deliver takes s.mu to find the inbox and offers the message after the   *)
(* unlock; the saturation hook runs later still, in the handler.           *)
(***************************************************************************)
EXTENDS Naturals, Sequences, FiniteSets, SequencesExt

CONSTANTS
    Sessions,   \* session_ids, the empty one included
    Handlers,   \* Connect handlers
    NoMsg,      \* the local msg when deliver is not running
    InboxCap,   \* inboxCap: capacity of each inbox and of the common channel
    MaxFrames   \* bound: messages each handler delivers

ASSUME ReceptionConstants == InboxCap \in Nat \ {0} /\ MaxFrames \in Nat

(* A message, known by the handler that received it and its order there. *)
Message == [from : Handlers, seq : 1..MaxFrames, session : Sessions]

VARIABLES
    sent,        \* sent[h]: how many messages handler h has received so far
    pc, msg, n,  \* deliver's label and locals in each handler
    inboxes,     \* the session_ids that have an inbox
    ch,          \* ch[s]: the inbox's channel
    dropped,     \* dropped[s]: the inbox's counter of drops
    fanin,       \* fanin, and with it out # nil
    forwarders,  \* forwarders[s]: goroutines forward(ib) that were started
    hand,        \* hand[s]: messages taken by a forwarder, not yet in out
    out,         \* the common channel
    consumed,    \* history: what the consumer of Received has read, in order
    lost,        \* history: the messages that were dropped
    reported     \* history: reported[s]: the counts the hook was called with

deliverVars == <<sent, pc, msg, n>>
inboxVars == <<inboxes, ch, dropped>>
faninVars == <<fanin, forwarders, hand, out>>
history == <<consumed, lost, reported>>
vars == <<deliverVars, inboxVars, faninVars, history>>

TypeOK ==
    /\ sent \in [Handlers -> Nat]
    /\ pc \in [Handlers -> {"recv", "offer", "hook"}]
    /\ msg \in [Handlers -> Message \cup {NoMsg}]
    /\ \A h \in Handlers : pc[h] # "recv" => msg[h] \in Message
    /\ n \in [Handlers -> Nat]
    /\ inboxes \subseteq Sessions
    /\ ch \in [Sessions -> Seq(Message)]
    /\ \A s \in Sessions : Len(ch[s]) <= InboxCap
    /\ dropped \in [Sessions -> Nat]
    /\ fanin \in BOOLEAN
    /\ forwarders \in [Sessions -> Nat]
    /\ hand \in [Sessions -> Seq(Message)]
    /\ out \in Seq(Message) /\ Len(out) <= InboxCap
    /\ consumed \in Seq(Message)
    /\ lost \subseteq Message
    /\ reported \in [Sessions -> SUBSET Nat]

Init ==
    /\ sent = [h \in Handlers |-> 0]
    /\ pc = [h \in Handlers |-> "recv"]
    /\ msg = [h \in Handlers |-> NoMsg]
    /\ n = [h \in Handlers |-> 0]
    /\ inboxes = {}
    /\ ch = [s \in Sessions |-> <<>>]
    /\ dropped = [s \in Sessions |-> 0]
    /\ fanin = FALSE
    /\ forwarders = [s \in Sessions |-> 0]
    /\ hand = [s \in Sessions |-> <<>>]
    /\ out = <<>>
    /\ consumed = <<>>
    /\ lost = {}
    /\ reported = [s \in Sessions |-> {}]

-----------------------------------------------------------------------------
(* deliver, in handler h.                                                  *)

(* go forward(ib), for the inboxes that this step starts it for. *)
Start(S) == forwarders' = [s \in Sessions |->
                             forwarders[s] + (IF s \in S THEN 1 ELSE 0)]

(* The inbox that deliver has just made gets its forwarder if the fan-in   *)
(* runs already.  Mutants: never; even when the inbox was there.           *)
NewForwarder_Never(s) == {}
NewForwarder_Always(s) == IF fanin THEN {s} ELSE {}
NewForwarder(s) == IF fanin /\ s \notin inboxes THEN {s} ELSE {}

(* Recv returned a message; deliver gets or makes its inbox under s.mu.    *)
Lookup(h, s) ==
    /\ pc[h] = "recv"
    /\ sent[h] < MaxFrames
    /\ sent' = [sent EXCEPT ![h] = @ + 1]
    /\ msg' = [msg EXCEPT ![h] = [from |-> h, seq |-> sent[h] + 1, session |-> s]]
    /\ pc' = [pc EXCEPT ![h] = "offer"]
    /\ inboxes' = inboxes \cup {s}
    /\ Start(NewForwarder(s))
    /\ UNCHANGED <<n, ch, dropped, fanin, hand, out, history>>

(* Mutant of HasRoom: the room of all inboxes. *)
HasRoom_Shared(s) == \A t \in Sessions : Len(ch[t]) < InboxCap
HasRoom(s) == Len(ch[s]) < InboxCap

(* The non-blocking send: the message goes into the inbox if it has room.  *)
Accept(h) ==
    /\ pc[h] = "offer"
    /\ HasRoom(msg[h].session)
    /\ ch' = [ch EXCEPT ![msg[h].session] = Append(@, msg[h])]
    /\ pc' = [pc EXCEPT ![h] = "recv"]
    /\ msg' = [msg EXCEPT ![h] = NoMsg]
    /\ UNCHANGED <<sent, n, inboxes, dropped, faninVars, history>>

(* Otherwise it is dropped and counted, atomically with the count's value. *)
Drop_Never(h) == FALSE      \* mutant of Drop: deliver waits for room
Drop(h) ==
    /\ pc[h] = "offer"
    /\ ~HasRoom(msg[h].session)
    /\ dropped' = [dropped EXCEPT ![msg[h].session] = @ + 1]
    /\ n' = [n EXCEPT ![h] = dropped[msg[h].session] + 1]
    /\ lost' = lost \cup {msg[h]}
    /\ pc' = [pc EXCEPT ![h] = "hook"]
    /\ UNCHANGED <<sent, msg, inboxes, ch, faninVars, consumed, reported>>

(* The value given to the hook.  Mutant: the counter is loaded again. *)
HookArg_Reloaded(h) == dropped[msg[h].session]
HookArg(h) == n[h]

(* hook(sessionID, n), if there is one. *)
Hook(h) ==
    /\ pc[h] = "hook"
    /\ reported' = [reported EXCEPT ![msg[h].session] = @ \cup {HookArg(h)}]
    /\ pc' = [pc EXCEPT ![h] = "recv"]
    /\ msg' = [msg EXCEPT ![h] = NoMsg]
    /\ n' = [n EXCEPT ![h] = 0]
    /\ UNCHANGED <<sent, inboxVars, faninVars, consumed, lost>>

Deliver(h) == Accept(h) \/ Drop(h) \/ Hook(h)

-----------------------------------------------------------------------------
(* The fan-in.                                                             *)

(* Mutant of the inboxes that Received finds: it starts none for them. *)
Existing_Forgotten == {}
Existing == inboxes

(* The first call of Received; the later ones only return out. *)
Received ==
    /\ ~fanin
    /\ fanin' = TRUE
    /\ Start(Existing)
    /\ UNCHANGED <<deliverVars, inboxVars, hand, out, history>>

(* A forwarder of s that holds nothing takes the next message. *)
Take(s) ==
    /\ Len(hand[s]) < forwarders[s]
    /\ ch[s] # <<>>
    /\ hand' = [hand EXCEPT ![s] = Append(@, Head(ch[s]))]
    /\ ch' = [ch EXCEPT ![s] = Tail(@)]
    /\ UNCHANGED <<deliverVars, inboxes, dropped, fanin, forwarders, out, history>>

(* Mutant of Put: the forwarder does not wait for room, and loses it. *)
Put_Loses(s, i) ==
    /\ out' = IF Len(out) < InboxCap THEN Append(out, hand[s][i]) ELSE out
    /\ hand' = [hand EXCEPT ![s] = RemoveAt(@, i)]
    /\ UNCHANGED <<deliverVars, inboxVars, fanin, forwarders, history>>

(* The forwarder that holds hand[s][i] sends it to out, when there is room. *)
Put(s, i) ==
    /\ Len(out) < InboxCap
    /\ out' = Append(out, hand[s][i])
    /\ hand' = [hand EXCEPT ![s] = RemoveAt(@, i)]
    /\ UNCHANGED <<deliverVars, inboxVars, fanin, forwarders, history>>

PutSome(s) == \E i \in 1..Len(hand[s]) : Put(s, i)

(* The consumer of Received: the platform, or the demo. *)
Consume ==
    /\ out # <<>>
    /\ consumed' = Append(consumed, Head(out))
    /\ out' = Tail(out)
    /\ UNCHANGED <<deliverVars, inboxVars, fanin, forwarders, hand, lost, reported>>

Next ==
    \/ \E h \in Handlers : Deliver(h) \/ \E s \in Sessions : Lookup(h, s)
    \/ \E s \in Sessions : Take(s) \/ PutSome(s)
    \/ Received
    \/ Consume

Spec == Init /\ [][Next]_vars

(* For a reader: everybody else runs too, Received is called and its       *)
(* channel is read.  A sender blocked on a channel waits in a FIFO queue:  *)
(* a forwarder that can put again and again does.                          *)
Reading ==
    /\ \A s \in Sessions : WF_vars(Take(s)) /\ SF_vars(PutSome(s))
    /\ WF_vars(Received) /\ WF_vars(Consume)

-----------------------------------------------------------------------------
(* Properties.                                                             *)

(* An inbox has one forwarder from the first call of Received on, and none *)
(* before, whether the inbox or the fan-in came first: a second one would  *)
(* reorder a session, a missing one would never empty its inbox.           *)
OneForwarder ==
    \A s \in Sessions :
        forwarders[s] = IF fanin /\ s \in inboxes THEN 1 ELSE 0

(* Nothing is lost or doubled on the way: each message that a handler has  *)
(* received is in one place and there once, dropped ones included, those   *)
(* that wait are with their own session, and the counters of drops account *)
(* for the dropped ones.                                                   *)
Offered == {msg[h] : h \in {g \in Handlers : pc[g] = "offer"}}
InInboxes == UNION {ToSet(ch[s]) : s \in Sessions}
InHands == UNION {ToSet(hand[s]) : s \in Sessions}
Places == <<Offered, InInboxes, InHands, ToSet(out), ToSet(consumed), lost>>
Everywhere == UNION {Places[i] : i \in 1..6}
Conservation ==
    /\ \A i, j \in 1..6 : i # j => Places[i] \cap Places[j] = {}
    /\ IsInjective(out) /\ IsInjective(consumed)
    /\ \A s \in Sessions :
          /\ IsInjective(ch[s]) /\ IsInjective(hand[s])
          /\ \A x \in ToSet(ch[s]) \cup ToSet(hand[s]) : x.session = s
          /\ dropped[s] = Cardinality({x \in lost : x.session = s})
    /\ \A h \in Handlers, k \in 1..MaxFrames :
          Cardinality({x \in Everywhere : x.from = h /\ x.seq = k})
              = IF k <= sent[h] THEN 1 ELSE 0

(* Messages of one stream and one session are read in the order in which   *)
(* they were received, gaps only where one was dropped.                    *)
Before(x, y) == x.from = y.from /\ x.session = y.session => x.seq < y.seq
Sorted(q) == \A i, j \in 1..Len(q) : i < j => Before(q[i], q[j])
InOrder == Sorted(consumed)

(* The hook is called with each value of the counter once, in whatever     *)
(* order, though several handlers drop messages of the same session.       *)
Pending(s) == {h \in Handlers : pc[h] = "hook" /\ msg[h].session = s}
EveryDropReported ==
    \A s \in Sessions :
        /\ reported[s] \cup {n[h] : h \in Pending(s)} = 1..dropped[s]
        /\ \A h \in Pending(s) : n[h] \notin reported[s]

(* deliver never blocks the handler's Recv loop, with no help from the     *)
(* forwarders or from the consumer (H2).                                   *)
DeliverReturns == \A h \in Handlers : pc[h] = "offer" ~> pc[h] = "recv"

(* What was accepted is read in the end if there is a reader: no session   *)
(* is starved by another in the common channel, and an inbox filled before *)
(* Received was called is not forgotten.                                   *)
AcceptedIsConsumed ==
    Reading => \A h \in Handlers, k \in 1..MaxFrames, s \in Sessions :
        LET m == [from |-> h, seq |-> k, session |-> s]
        IN  m \in ToSet(ch[s]) ~> m \in ToSet(consumed)

(* Each session is a lossy FIFO of its own, up to the common channel. *)
Queued(s) == hand[s] \o ch[s]
Fifo == INSTANCE LossyFifos WITH
            Items <- Message, Cap <- InboxCap,
            queue <- [s \in Sessions |-> Queued(s)],
            merged <- out, losses <- dropped
ImplementsLossyFifos == Fifo!Spec

=============================================================================
