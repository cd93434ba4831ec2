--------------------------- MODULE ReceptionProofs ---------------------------
(***************************************************************************)
(* Proofs about Reception, and about the reader of its metric, for any     *)
(* sets of sessions and handlers, any capacity and any number of messages. *)
(***************************************************************************)
EXTENDS DropMetrics, SequenceTheorems, FiniteSetTheorems, TLAPS

(* Every element of a place is older than every element of another one. *)
Precedes(S, T) == \A x \in S, y \in T : Before(x, y)

-----------------------------------------------------------------------------
(* The three operations on channels: what they do to the elements and to   *)
(* the order.                                                              *)

LEMMA AppendSorted ==
  ASSUME NEW q \in Seq(Message), NEW m \in Message
  PROVE  /\ Append(q, m) \in Seq(Message)
         /\ Len(Append(q, m)) = Len(q) + 1
         /\ ToSet(Append(q, m)) = ToSet(q) \cup {m}
         /\ Sorted(q) /\ Precedes(ToSet(q), {m}) => Sorted(Append(q, m))
<1>1. /\ Append(q, m) \in Seq(Message)
      /\ Len(Append(q, m)) = Len(q) + 1
      /\ \A i \in 1..Len(q) : Append(q, m)[i] = q[i]
      /\ Append(q, m)[Len(q) + 1] = m
      /\ DOMAIN q = 1..Len(q)
      /\ DOMAIN Append(q, m) = 1..(Len(q) + 1)
  BY AppendProperties
<1>2. ToSet(Append(q, m)) = ToSet(q) \cup {m}
  BY <1>1 DEF ToSet
<1>3. ASSUME Sorted(q), Precedes(ToSet(q), {m})
      PROVE  Sorted(Append(q, m))
  BY <1>1, <1>3 DEF Sorted, Precedes, ToSet
<1> QED
  BY <1>1, <1>2, <1>3

LEMMA TailSorted ==
  ASSUME NEW q \in Seq(Message), q # <<>>
  PROVE  /\ Head(q) \in Message
         /\ Tail(q) \in Seq(Message)
         /\ Len(Tail(q)) = Len(q) - 1
         /\ ToSet(q) = {Head(q)} \cup ToSet(Tail(q))
         /\ Sorted(q) => Sorted(Tail(q)) /\ Precedes({Head(q)}, ToSet(Tail(q)))
<1>1. /\ Head(q) \in Message /\ Head(q) = q[1]
      /\ Tail(q) \in Seq(Message)
      /\ Len(Tail(q)) = Len(q) - 1
      /\ \A i \in 1..(Len(q) - 1) : Tail(q)[i] = q[i + 1]
      /\ DOMAIN q = 1..Len(q)
      /\ DOMAIN Tail(q) = 1..(Len(q) - 1)
      /\ Len(q) \in Nat \ {0}
  BY HeadTailProperties
<1>2. ToSet(q) = {Head(q)} \cup ToSet(Tail(q))
  <2>1. ASSUME NEW i \in 1..Len(q), i # 1
        PROVE  i - 1 \in 1..(Len(q) - 1) /\ q[i] = Tail(q)[i - 1]
    <3>1. i - 1 \in 1..(Len(q) - 1) /\ (i - 1) + 1 = i
      BY <1>1, <2>1
    <3>2. Tail(q)[i - 1] = q[(i - 1) + 1]
      BY <1>1, <3>1
    <3> QED
      BY <3>1, <3>2
  <2>2. \A i \in 1..(Len(q) - 1) : i + 1 \in 1..Len(q)
    BY <1>1
  <2>3. ASSUME NEW x \in ToSet(q) PROVE x \in {Head(q)} \cup ToSet(Tail(q))
    <3>1. PICK i \in 1..Len(q) : x = q[i]
      BY <1>1 DEF ToSet
    <3>2. CASE i = 1
      BY <1>1, <3>1, <3>2
    <3>3. CASE i # 1
      BY <1>1, <2>1, <3>1, <3>3 DEF ToSet
    <3> QED
      BY <3>2, <3>3
  <2>4. Head(q) \in ToSet(q)
    BY <1>1 DEF ToSet
  <2>5. ToSet(Tail(q)) \subseteq ToSet(q)
    BY <1>1, <2>2 DEF ToSet
  <2> QED
    BY <2>3, <2>4, <2>5
<1>3. ASSUME Sorted(q) PROVE Sorted(Tail(q)) /\ Precedes({Head(q)}, ToSet(Tail(q)))
  BY <1>1, <1>3 DEF Sorted, Precedes, ToSet
<1> QED
  BY <1>1, <1>2, <1>3

(* A forwarder holds one message: sending it empties its hand. *)
LEMMA HandEmptied ==
  ASSUME NEW q \in Seq(Message), Len(q) <= 1, NEW i \in 1..Len(q)
  PROVE  /\ q[i] \in Message
         /\ ToSet(q) = {q[i]}
         /\ RemoveAt(q, i) = <<>>
<1>1. Len(q) = 1 /\ i = 1
  <2>1. Len(q) \in Nat
    BY LenProperties
  <2>2. \A k \in Nat : k <= 1 => \A j \in 1..k : k = 1 /\ j = 1
    OBVIOUS
  <2> QED
    BY <2>1, <2>2
<1>2. SubSeq(q, 1, 0) = <<>> /\ SubSeq(q, 2, 1) = <<>>
  BY SubSeqProperties
<1>3. RemoveAt(q, i) = <<>>
  BY <1>1, <1>2 DEF RemoveAt
<1> QED
  BY <1>1, <1>3 DEF ToSet

-----------------------------------------------------------------------------
(* Types.                                                                  *)

LEMMA TypeInit == Init => TypeOK
<1> SUFFICES ASSUME Init PROVE TypeOK
  OBVIOUS
<1>1. <<>> \in Seq(Message) /\ Len(<<>>) = 0
  BY EmptySeq
<1>2. /\ ch \in [Sessions -> Seq(Message)] /\ \A s \in Sessions : Len(ch[s]) <= InboxCap
      /\ hand \in [Sessions -> Seq(Message)]
      /\ out \in Seq(Message) /\ Len(out) <= InboxCap /\ consumed \in Seq(Message)
  BY <1>1, ReceptionConstants DEF Init
<1>3. /\ pc \in [Handlers -> {"recv", "offer", "hook"}]
      /\ \A h \in Handlers : pc[h] # "recv" => msg[h] \in Message
      /\ msg \in [Handlers -> Message \cup {NoMsg}]
  BY DEF Init
<1> QED
  BY <1>2, <1>3 DEF Init, TypeOK

LEMMA TypeNext == TypeOK /\ [Next]_vars => TypeOK'
<1> SUFFICES ASSUME TypeOK, [Next]_vars PROVE TypeOK'
  OBVIOUS
<1> USE ReceptionConstants DEF TypeOK
<1>1. ASSUME NEW h \in Handlers, NEW s \in Sessions, Lookup(h, s) PROVE TypeOK'
  <2>1. [from |-> h, seq |-> sent[h] + 1, session |-> s] \in Message
    BY <1>1 DEF Lookup, Message
  <2>2. forwarders' \in [Sessions -> Nat]
    <3>1. forwarders \in [Sessions -> Nat]
      OBVIOUS
    <3> HIDE DEF TypeOK
    <3> QED
      BY <1>1, <3>1 DEF Lookup, Start
  <2>3. /\ sent' \in [Handlers -> Nat]
        /\ pc' \in [Handlers -> {"recv", "offer", "hook"}]
        /\ inboxes' \subseteq Sessions
    BY <1>1 DEF Lookup
  <2>4. /\ msg' \in [Handlers -> Message \cup {NoMsg}]
        /\ \A g \in Handlers : pc'[g] # "recv" => msg'[g] \in Message
    BY <1>1, <2>1 DEF Lookup
  <2>5. UNCHANGED <<n, ch, dropped, fanin, hand, out, consumed, lost, reported>>
    BY <1>1 DEF Lookup, history
  <2> QED
    BY <2>2, <2>3, <2>4, <2>5
<1>2. ASSUME NEW h \in Handlers, Accept(h) PROVE TypeOK'
  <2>1. msg[h] \in Message /\ msg[h].session \in Sessions
    BY <1>2 DEF Accept, Message
  <2>2. /\ Append(ch[msg[h].session], msg[h]) \in Seq(Message)
        /\ Len(Append(ch[msg[h].session], msg[h])) <= InboxCap
    BY <1>2, <2>1, AppendSorted DEF Accept, HasRoom
  <2> QED
    BY <1>2, <2>1, <2>2 DEF Accept, faninVars, history
<1>3. ASSUME NEW h \in Handlers, Drop(h) PROVE TypeOK'
  <2>1. msg[h] \in Message /\ msg[h].session \in Sessions
    BY <1>3 DEF Drop, Message
  <2>2. /\ dropped' \in [Sessions -> Nat]
        /\ n' \in [Handlers -> Nat]
    BY <1>3, <2>1 DEF Drop
  <2>3. /\ pc' \in [Handlers -> {"recv", "offer", "hook"}]
        /\ \A g \in Handlers : pc'[g] # "recv" => msg[g] \in Message
        /\ lost' \subseteq Message
    BY <1>3, <2>1 DEF Drop
  <2>4. UNCHANGED <<sent, msg, inboxes, ch, fanin, forwarders, hand, out, consumed, reported>>
    BY <1>3 DEF Drop, faninVars
  <2> QED
    BY <2>2, <2>3, <2>4
<1>4. ASSUME NEW h \in Handlers, Hook(h) PROVE TypeOK'
  <2>1. msg[h] \in Message /\ msg[h].session \in Sessions
    BY <1>4 DEF Hook, Message
  <2>2. reported' \in [Sessions -> SUBSET Nat]
    BY <1>4, <2>1 DEF Hook, HookArg
  <2> QED
    BY <1>4, <2>2 DEF Hook, inboxVars, faninVars
<1>5. ASSUME Received PROVE TypeOK'
  BY <1>5 DEF Received, Start, deliverVars, inboxVars, history
<1>6. ASSUME NEW s \in Sessions, Take(s) PROVE TypeOK'
  <2>1. /\ Head(ch[s]) \in Message /\ Tail(ch[s]) \in Seq(Message)
        /\ Len(Tail(ch[s])) <= InboxCap
    BY <1>6, TailSorted DEF Take
  <2>2. Append(hand[s], Head(ch[s])) \in Seq(Message)
    BY <2>1, AppendProperties
  <2> QED
    BY <1>6, <2>1, <2>2 DEF Take, deliverVars, history
<1>7. ASSUME NEW s \in Sessions, NEW i \in 1..Len(hand[s]), Put(s, i) PROVE TypeOK'
  <2>1. hand[s][i] \in Message /\ RemoveAt(hand[s], i) \in Seq(Message)
    BY SubSeqProperties, ConcatProperties DEF RemoveAt
  <2>2. /\ Append(out, hand[s][i]) \in Seq(Message)
        /\ Len(Append(out, hand[s][i])) <= InboxCap
    BY <1>7, <2>1, AppendSorted DEF Put
  <2> QED
    BY <1>7, <2>1, <2>2 DEF Put, deliverVars, inboxVars, history
<1>8. ASSUME Consume PROVE TypeOK'
  <2>1. /\ Head(out) \in Message /\ Tail(out) \in Seq(Message)
        /\ Len(Tail(out)) <= InboxCap
    BY <1>8, TailSorted DEF Consume
  <2>2. Append(consumed, Head(out)) \in Seq(Message)
    BY <2>1, AppendProperties
  <2> QED
    BY <1>8, <2>1, <2>2 DEF Consume, deliverVars, inboxVars
<1>9. CASE UNCHANGED vars
  BY <1>9 DEF vars, deliverVars, inboxVars, faninVars, history
<1> QED
  BY <1>1, <1>2, <1>3, <1>4, <1>5, <1>6, <1>7, <1>8, <1>9
     DEF Next, Deliver, PutSome

(* Every variable keeps its type, and no channel exceeds its capacity. *)
THEOREM TypeCorrect == Spec => []TypeOK
  BY TypeInit, TypeNext, PTL DEF Spec

-----------------------------------------------------------------------------
(* One forwarder per inbox.                                                *)

HandOK == \A s \in Sessions : Len(hand[s]) <= forwarders[s]
Forwarding == OneForwarder /\ HandOK

(* A bound that grows still holds. *)
LEMMA Widen == \A k, a \in Nat : \A b \in {a, a + 1} : k <= a => k <= b
  OBVIOUS

LEMMA ForwardingNext == TypeOK /\ Forwarding /\ [Next]_vars => Forwarding'
<1> SUFFICES ASSUME TypeOK, Forwarding, [Next]_vars PROVE Forwarding'
  OBVIOUS
<1> USE DEF TypeOK, Forwarding, OneForwarder, HandOK
<1>1. ASSUME NEW h \in Handlers, NEW s \in Sessions, Lookup(h, s) PROVE Forwarding'
  <2>1. \A t \in Sessions :
           /\ forwarders'[t] = forwarders[t]
                   + (IF t = s /\ fanin /\ s \notin inboxes THEN 1 ELSE 0)
           /\ t \in inboxes' <=> t = s \/ t \in inboxes
           /\ forwarders[t] \in Nat /\ Len(hand[t]) \in Nat
    BY <1>1, LenProperties DEF Lookup, Start, NewForwarder
  <2>2. UNCHANGED <<fanin, hand>>
    BY <1>1 DEF Lookup
  <2>3. OneForwarder'
    BY <2>1, <2>2
  <2>4. ASSUME NEW t \in Sessions PROVE Len(hand[t]) <= forwarders'[t]
    <3>1. /\ Len(hand[t]) \in Nat /\ forwarders[t] \in Nat
          /\ Len(hand[t]) <= forwarders[t]
          /\ forwarders'[t] \in {forwarders[t], forwarders[t] + 1}
      BY <2>1
    <3> QED
      BY <3>1, Widen
  <2> QED
    BY <2>2, <2>3, <2>4
<1>2. ASSUME Received PROVE Forwarding'
  <2>1. /\ ~fanin /\ fanin' /\ UNCHANGED <<inboxes, hand>>
        /\ \A t \in Sessions :
             /\ forwarders[t] = 0
             /\ forwarders'[t] = IF t \in inboxes THEN 1 ELSE 0
    BY <1>2 DEF Received, Start, Existing, inboxVars
  <2>2. ASSUME NEW t \in Sessions PROVE Len(hand[t]) <= forwarders'[t]
    <3>1. /\ Len(hand[t]) \in Nat /\ forwarders[t] \in Nat
          /\ Len(hand[t]) <= forwarders[t]
          /\ forwarders'[t] \in {forwarders[t], forwarders[t] + 1}
      BY <2>1, LenProperties
    <3> QED
      BY <3>1, Widen
  <2> QED
    BY <2>1, <2>2
<1>3. ASSUME NEW s \in Sessions, Take(s) PROVE Forwarding'
  <2>1. Len(Append(hand[s], Head(ch[s]))) = Len(hand[s]) + 1
    BY <1>3, TailSorted, AppendProperties DEF Take
  <2> QED
    BY <1>3, <2>1 DEF Take
<1>4. ASSUME NEW s \in Sessions, NEW i \in 1..Len(hand[s]), Put(s, i)
      PROVE  Forwarding'
  <2>1. Len(hand[s]) <= 1
    <3>1. Len(hand[s]) \in Nat /\ forwarders[s] \in {0, 1}
      BY LenProperties
    <3> QED
      BY <3>1
  <2>2. RemoveAt(hand[s], i) = <<>>
    BY <2>1, HandEmptied
  <2> QED
    BY <1>4, <2>2 DEF Put, inboxVars
<1>5. ASSUME UNCHANGED <<fanin, inboxes, forwarders, hand>> PROVE Forwarding'
  BY <1>5
<1>6. ASSUME NEW h \in Handlers, Deliver(h)
      PROVE  UNCHANGED <<fanin, inboxes, forwarders, hand>>
  BY <1>6 DEF Deliver, Accept, Drop, Hook, faninVars, inboxVars
<1>7. ASSUME Consume \/ UNCHANGED vars
      PROVE  UNCHANGED <<fanin, inboxes, forwarders, hand>>
  BY <1>7 DEF Consume, vars, faninVars, inboxVars
<1> HIDE DEF Forwarding
<1> QED
  BY <1>1, <1>2, <1>3, <1>4, <1>5, <1>6, <1>7 DEF Next, PutSome

LEMMA ForwardingInv == Spec => []Forwarding
<1>1. Init => Forwarding
  BY EmptySeq DEF Init, Forwarding, OneForwarder, HandOK
<1> QED
  BY <1>1, ForwardingNext, TypeCorrect, PTL DEF Spec

(* deliver and Received start between them exactly one forwarder per inbox *)
(* whichever comes first.                                                  *)
THEOREM ExactlyOneForwarder == Spec => []OneForwarder
  BY ForwardingInv, PTL DEF Forwarding

-----------------------------------------------------------------------------
(* Order.  What has been read is older than what is in out, that is older  *)
(* than what a forwarder holds, and that is older than what is in the      *)
(* inbox -- for the messages of one stream and one session.                *)

Passed == ToSet(consumed) \cup ToSet(out)
Waiting(s) == ToSet(ch[s]) \cup ToSet(hand[s])

Layers ==
    /\ Sorted(consumed) /\ Sorted(out)
    /\ Precedes(ToSet(consumed), ToSet(out))
    /\ \A s \in Sessions : /\ Sorted(ch[s])
                            /\ Precedes(Passed, Waiting(s))
                            /\ Precedes(ToSet(hand[s]), ToSet(ch[s]))

(* A session's messages are in its own inbox and in its forwarder's hand.  *)
Home == \A s \in Sessions : \A x \in Waiting(s) : x.session = s

(* A message that a handler still offers is newer than all it has queued.  *)
Limit(h) == IF pc[h] = "offer" THEN sent[h] - 1 ELSE sent[h]
Old(x) == x.seq <= Limit(x.from)
Latest(h) == pc[h] = "offer" => msg[h].from = h /\ msg[h].seq = sent[h]
Recent ==
    /\ \A h \in Handlers : Latest(h)
    /\ \A x \in Passed : Old(x)
    /\ \A s \in Sessions : \A x \in Waiting(s) : Old(x)

Order == Layers /\ Home /\ Recent

LEMMA Typed ==
  ASSUME TypeOK
  PROVE  /\ Passed \subseteq Message
         /\ \A s \in Sessions : Waiting(s) \subseteq Message
         /\ \A x \in Message : /\ x.from \in Handlers
                               /\ x.seq \in Int
                               /\ x.session \in Sessions
         /\ \A h \in Handlers : /\ Limit(h) \in Int
                                /\ sent[h] \in Int
                                /\ pc[h] = "offer" => msg[h] \in Message
<1>1. \A q \in Seq(Message) : ToSet(q) \subseteq Message
  BY DEF ToSet
<1>2. \A x \in Message : x.from \in Handlers /\ x.seq \in Int /\ x.session \in Sessions
  BY ReceptionConstants DEF Message
<1>3. \A h \in Handlers : Limit(h) \in Int
  BY DEF TypeOK, Limit
<1> QED
  BY <1>1, <1>2, <1>3 DEF TypeOK, Passed, Waiting

LEMMA Aging ==
  ASSUME TypeOK, TypeOK', \A h \in Handlers : Limit(h) <= Limit(h)',
         NEW x \in Message, Old(x)
  PROVE  Old(x)'
<1>1. x.seq \in Int /\ x.from \in Handlers /\ Limit(x.from) \in Int
  BY Typed
<1>2. Limit(x.from)' \in Int
  BY <1>1 DEF TypeOK, Limit
<1> QED
  BY <1>1, <1>2 DEF Old

(* A handler only goes on, and offers only what it received last.          *)
LEMMA HandlersGoOn ==
  ASSUME TypeOK, TypeOK', Order, [Next]_vars
  PROVE  \A g \in Handlers : Limit(g) <= Limit(g)' /\ Latest(g)'
<1> SUFFICES ASSUME NEW g \in Handlers PROVE Limit(g) <= Limit(g)' /\ Latest(g)'
  OBVIOUS
<1>1. Latest(g) /\ sent[g] \in Int /\ Limit(g) \in Int
  BY Typed DEF Order, Recent
<1>2. ASSUME UNCHANGED <<sent[g], pc[g], msg[g]>>
      PROVE  Limit(g) <= Limit(g)' /\ Latest(g)'
  <2>1. Limit(g)' = Limit(g) /\ Latest(g)'
    BY <1>1, <1>2 DEF Limit, Latest
  <2> QED
    BY <1>1, <2>1
<1>3. ASSUME NEW h \in Handlers, NEW s \in Sessions, Lookup(h, s)
      PROVE  Limit(g) <= Limit(g)' /\ Latest(g)'
  <2>1. CASE g = h
    <3>1. /\ pc[g] = "recv" /\ pc'[g] = "offer" /\ sent'[g] = sent[g] + 1
          /\ msg'[g] = [from |-> g, seq |-> sent[g] + 1, session |-> s]
      BY <1>3, <2>1 DEF Lookup, TypeOK
    <3> QED
      BY <1>1, <3>1 DEF Limit, Latest
  <2>2. CASE g # h
    BY <1>2, <1>3, <2>2 DEF Lookup, TypeOK
  <2> QED
    BY <2>1, <2>2
<1>4. ASSUME NEW h \in Handlers, Deliver(h)
      PROVE  Limit(g) <= Limit(g)' /\ Latest(g)'
  <2>1. CASE g = h
    <3>1. pc'[g] # "offer" /\ sent'[g] = sent[g]
      BY <1>4, <2>1 DEF Deliver, Accept, Drop, Hook, TypeOK
    <3> QED
      BY <1>1, <3>1 DEF Limit, Latest
  <2>2. CASE g # h
    BY <1>2, <1>4, <2>2 DEF Deliver, Accept, Drop, Hook, TypeOK
  <2> QED
    BY <2>1, <2>2
<1>5. ASSUME UNCHANGED deliverVars
      PROVE  Limit(g) <= Limit(g)' /\ Latest(g)'
  BY <1>2, <1>5 DEF deliverVars
<1> QED
  BY <1>3, <1>4, <1>5 DEF Next, PutSome, Take, Put, Received, Consume, vars

(* What was queued stays old; a step has to show it of what it queues.     *)
LEMMA RecentNext ==
  ASSUME TypeOK, TypeOK', Order, [Next]_vars, NEW new,
         \A x \in new : Old(x)',
         Passed' \subseteq Passed \cup UNION {Waiting(s) : s \in Sessions},
         \A s \in Sessions : Waiting(s)' \subseteq Waiting(s) \cup new
  PROVE  Recent'
<1>1. \A h \in Handlers : Limit(h) <= Limit(h)' /\ Latest(h)'
  BY HandlersGoOn
<1>2. \A x \in Passed : Old(x)'
  BY <1>1, Aging, Typed DEF Order, Recent
<1>3. \A s \in Sessions : \A x \in Waiting(s) : Old(x)'
  BY <1>1, Aging, Typed DEF Order, Recent
<1>4. \A x \in Passed' : Old(x)'
  BY <1>2, <1>3
<1>5. \A s \in Sessions : \A x \in Waiting(s)' : Old(x)'
  BY <1>3
<1> QED
  BY <1>1, <1>4, <1>5 DEF Recent

(* A step that moves no message.                                           *)
LEMMA OrderKept ==
  ASSUME TypeOK, TypeOK', Order, [Next]_vars, UNCHANGED <<consumed, out, hand, ch>>
  PROVE  Order'
<1>1. Layers' /\ Home'
  BY DEF Order, Layers, Home, Passed, Waiting
<1>2. Passed' = Passed /\ \A s \in Sessions : Waiting(s)' = Waiting(s)
  BY DEF Passed, Waiting
<1>3. Recent'
  <2> PICK new : new = {}
    OBVIOUS
  <2> QED
    BY <1>2, RecentNext
<1> QED
  BY <1>1, <1>3 DEF Order

LEMMA OrderAccept ==
  ASSUME TypeOK, TypeOK', Order, [Next]_vars, NEW h \in Handlers, Accept(h)
  PROVE  Order'
<1>0. pc[h] = "offer" /\ msg[h] \in Message /\ msg[h].session \in Sessions
  BY Typed DEF Accept
<1> PICK m \in Message : m = msg[h]
  BY <1>0
<1> PICK s \in Sessions : s = m.session
  BY <1>0
<1>1. pc[h] = "offer" /\ m \in Message /\ s \in Sessions
  BY <1>0
<1>2. m.from = h /\ m.seq = sent[h] /\ sent[h] \in Int
  BY <1>1, Typed DEF Order, Recent, Latest
<1>3. /\ ch' = [ch EXCEPT ![s] = Append(ch[s], m)]
      /\ UNCHANGED <<hand, out, consumed>>
      /\ Limit(h)' = sent[h]
  BY DEF Accept, faninVars, history, TypeOK, Limit
<1>4. /\ ToSet(ch'[s]) = ToSet(ch[s]) \cup {m}
      /\ \A t \in Sessions : t # s => ch'[t] = ch[t]
      /\ Sorted(ch[s]) /\ Precedes(ToSet(ch[s]), {m}) => Sorted(ch'[s])
  BY <1>1, <1>3, AppendSorted DEF TypeOK
<1>5. \A x \in Message : Old(x) => Before(x, m)
  <2> SUFFICES ASSUME NEW x \in Message, Old(x), x.from = h
               PROVE  x.seq < m.seq
    BY <1>2 DEF Before
  <2>1. Limit(h) = sent[h] - 1 /\ x.seq \in Int /\ x.seq <= Limit(h)
    BY <1>1, Typed DEF Limit, Old
  <2> QED
    BY <1>2, <2>1
<1>6. Precedes(Passed \cup Waiting(s), {m})
  BY <1>1, <1>5, Typed DEF Order, Recent, Precedes
<1>7. Passed' = Passed /\ Waiting(s)' = Waiting(s) \cup {m}
      /\ \A t \in Sessions : t # s => Waiting(t)' = Waiting(t)
  BY <1>3, <1>4 DEF Passed, Waiting
<1>8. Layers'
  <2>1. Sorted(ch'[s])
    BY <1>1, <1>4, <1>6 DEF Order, Layers, Precedes, Waiting
  <2>2. Precedes(Passed', Waiting(s)')
    BY <1>1, <1>6, <1>7 DEF Order, Layers, Precedes
  <2>3. Precedes(ToSet(hand'[s]), ToSet(ch'[s]))
    BY <1>1, <1>3, <1>4, <1>6 DEF Order, Layers, Precedes, Waiting
  <2>4. \A t \in Sessions : t # s => /\ Sorted(ch'[t])
                                     /\ Precedes(Passed', Waiting(t)')
                                     /\ Precedes(ToSet(hand'[t]), ToSet(ch'[t]))
    BY <1>3, <1>4, <1>7 DEF Order, Layers
  <2>5. /\ Sorted(consumed') /\ Sorted(out')
        /\ Precedes(ToSet(consumed'), ToSet(out'))
    BY <1>3 DEF Order, Layers
  <2> QED
    BY <2>1, <2>2, <2>3, <2>4, <2>5 DEF Layers
<1>9. Home'
  BY <1>1, <1>7 DEF Order, Home
<1>10. Recent'
  <2>1. Old(m)'
    BY <1>2, <1>3 DEF Old
  <2> PICK new : new = {m}
    OBVIOUS
  <2>2. \A x \in new : Old(x)'
    BY <2>1
  <2>3. \A t \in Sessions : Waiting(t)' \subseteq Waiting(t) \cup new
    BY <1>7
  <2> QED
    BY <1>7, <2>2, <2>3, RecentNext
<1> QED
  BY <1>8, <1>9, <1>10 DEF Order

LEMMA OrderTake ==
  ASSUME TypeOK, TypeOK', Order, [Next]_vars, NEW s \in Sessions, Take(s)
  PROVE  Order'
<1> PICK x \in Message : x = Head(ch[s])
  BY TailSorted DEF Take, TypeOK
<1>1. /\ ToSet(hand'[s]) = ToSet(hand[s]) \cup {x}
      /\ ToSet(ch[s]) = {x} \cup ToSet(ch'[s])
      /\ Sorted(ch[s]) => Sorted(ch'[s]) /\ Precedes({x}, ToSet(ch'[s]))
  BY AppendSorted, TailSorted DEF Take, TypeOK
<1>2. /\ UNCHANGED <<out, consumed>>
      /\ \A t \in Sessions : t # s => ch'[t] = ch[t] /\ hand'[t] = hand[t]
  BY DEF Take, TypeOK, history
<1>3. Passed' = Passed /\ \A t \in Sessions : Waiting(t)' = Waiting(t)
  BY <1>1, <1>2 DEF Passed, Waiting
<1>4. Layers'
  <2>1. Sorted(ch'[s]) /\ Precedes(ToSet(hand'[s]), ToSet(ch'[s]))
    BY <1>1 DEF Order, Layers, Precedes
  <2>2. \A t \in Sessions : Sorted(ch'[t]) /\ Precedes(ToSet(hand'[t]), ToSet(ch'[t]))
    BY <1>2, <2>1 DEF Order, Layers
  <2> QED
    BY <1>2, <1>3, <2>2 DEF Order, Layers
<1>5. Home'
  BY <1>3 DEF Order, Home
<1>6. Recent'
  <2> PICK new : new = {}
    OBVIOUS
  <2> QED
    BY <1>3, RecentNext
<1> QED
  BY <1>4, <1>5, <1>6 DEF Order

(* Two sessions have no order between them, so the new message in out may  *)
(* be younger or older than what the other inboxes hold.                   *)
LEMMA OrderPut ==
  ASSUME TypeOK, TypeOK', Forwarding, Order, [Next]_vars,
         NEW s \in Sessions, NEW i \in 1..Len(hand[s]), Put(s, i)
  PROVE  Order'
<1>1. Len(hand[s]) <= 1
  <2>1. Len(hand[s]) \in Nat /\ Len(hand[s]) <= forwarders[s] /\ forwarders[s] \in {0, 1}
    BY LenProperties DEF TypeOK, Forwarding, OneForwarder, HandOK
  <2> QED
    BY <2>1
<1>2. /\ hand[s][i] \in Message /\ ToSet(hand[s]) = {hand[s][i]}
      /\ RemoveAt(hand[s], i) = <<>>
  BY <1>1, HandEmptied DEF TypeOK
<1> PICK x \in Message : x = hand[s][i]
  BY <1>2
<1>3. /\ UNCHANGED <<consumed, ch>>
      /\ \A t \in Sessions : t # s => hand'[t] = hand[t]
      /\ hand'[s] = <<>>
  BY <1>2 DEF Put, inboxVars, history, TypeOK
<1>4. /\ ToSet(out') = ToSet(out) \cup {x}
      /\ Sorted(out) /\ Precedes(ToSet(out), {x}) => Sorted(out')
  BY AppendSorted DEF Put, TypeOK
<1>5. ToSet(hand[s]) = {x} /\ ToSet(hand'[s]) = {} /\ x \in Waiting(s)
  BY <1>2, <1>3 DEF ToSet, Waiting
<1>6. /\ Passed' = Passed \cup {x}
      /\ \A t \in Sessions : Waiting(t)' \subseteq Waiting(t)
      /\ Waiting(s)' = ToSet(ch[s])
  BY <1>3, <1>4, <1>5 DEF Passed, Waiting
<1>7. Precedes(Passed, {x})
  BY <1>5 DEF Order, Layers, Precedes
<1>8. \A t \in Sessions : Precedes({x}, Waiting(t)')
  <2>1. Precedes({x}, Waiting(s)')
    BY <1>5, <1>6 DEF Order, Layers
  <2>2. ASSUME NEW t \in Sessions, t # s, NEW y \in Waiting(t)' PROVE Before(x, y)
    <3>1. x.session = s /\ y.session = t
      BY <1>5, <1>6, <2>2 DEF Order, Home
    <3> QED
      BY <2>2, <3>1 DEF Before
  <2> QED
    BY <2>1, <2>2 DEF Precedes
<1>9. Layers'
  <2>1. /\ Sorted(consumed') /\ Sorted(out')
        /\ Precedes(ToSet(consumed'), ToSet(out'))
    BY <1>3, <1>4, <1>7 DEF Order, Layers, Precedes, Passed
  <2>2. ASSUME NEW t \in Sessions
        PROVE  /\ Sorted(ch'[t])
               /\ Precedes(Passed', Waiting(t)')
               /\ Precedes(ToSet(hand'[t]), ToSet(ch'[t]))
    <3>1. Sorted(ch'[t]) /\ Precedes(Passed', Waiting(t)')
      BY <1>3, <1>6, <1>8 DEF Order, Layers, Precedes
    <3>2. Precedes(ToSet(hand'[t]), ToSet(ch'[t]))
      BY <1>3, <1>5 DEF Order, Layers, Precedes
    <3> QED
      BY <3>1, <3>2
  <2> QED
    BY <2>1, <2>2 DEF Layers
<1>10. Home'
  BY <1>6 DEF Order, Home
<1>11. Recent'
  <2> PICK new : new = {}
    OBVIOUS
  <2>1. Passed' \subseteq Passed \cup UNION {Waiting(t) : t \in Sessions}
    BY <1>5, <1>6
  <2>2. \A y \in new : Old(y)'
    OBVIOUS
  <2>3. \A t \in Sessions : Waiting(t)' \subseteq Waiting(t) \cup new
    BY <1>6
  <2> QED
    BY <2>1, <2>2, <2>3, RecentNext
<1> QED
  BY <1>9, <1>10, <1>11 DEF Order

LEMMA OrderConsume ==
  ASSUME TypeOK, TypeOK', Order, [Next]_vars, Consume
  PROVE  Order'
<1> PICK x \in Message : x = Head(out)
  BY TailSorted DEF Consume, TypeOK
<1>1. /\ ToSet(out) = {x} \cup ToSet(out')
      /\ Sorted(out) => Sorted(out') /\ Precedes({x}, ToSet(out'))
      /\ ToSet(consumed') = ToSet(consumed) \cup {x}
      /\ Sorted(consumed) /\ Precedes(ToSet(consumed), {x}) => Sorted(consumed')
  BY AppendSorted, TailSorted DEF Consume, TypeOK
<1>2. UNCHANGED <<hand, ch>>
  BY DEF Consume, inboxVars
<1>3. Passed' = Passed /\ \A t \in Sessions : Waiting(t)' = Waiting(t)
  BY <1>1, <1>2 DEF Passed, Waiting
<1>4. Layers'
  <2>1. /\ Sorted(consumed') /\ Sorted(out')
        /\ Precedes(ToSet(consumed'), ToSet(out'))
    BY <1>1 DEF Order, Layers, Precedes
  <2> QED
    BY <1>2, <1>3, <2>1 DEF Order, Layers
<1>5. Home'
  BY <1>3 DEF Order, Home
<1>6. Recent'
  <2> PICK new : new = {}
    OBVIOUS
  <2> QED
    BY <1>3, RecentNext
<1> QED
  BY <1>4, <1>5, <1>6 DEF Order

LEMMA OrderNext ==
  TypeOK /\ TypeOK' /\ Forwarding /\ Order /\ [Next]_vars => Order'
<1> SUFFICES ASSUME TypeOK, TypeOK', Forwarding, Order, [Next]_vars PROVE Order'
  OBVIOUS
<1>1. ASSUME NEW h \in Handlers, Accept(h) PROVE Order'
  BY <1>1, OrderAccept
<1>2. ASSUME NEW s \in Sessions, Take(s) \/ PutSome(s) PROVE Order'
  BY <1>2, OrderTake, OrderPut DEF PutSome
<1>3. ASSUME Consume PROVE Order'
  BY <1>3, OrderConsume
<1>4. ASSUME UNCHANGED <<consumed, out, hand, ch>> PROVE Order'
  BY <1>4, OrderKept
<1>5. ASSUME NEW h \in Handlers,
             Drop(h) \/ Hook(h) \/ \E s \in Sessions : Lookup(h, s)
      PROVE  UNCHANGED <<consumed, out, hand, ch>>
  BY <1>5 DEF Drop, Hook, Lookup, inboxVars, faninVars, history
<1>6. ASSUME Received \/ UNCHANGED vars
      PROVE  UNCHANGED <<consumed, out, hand, ch>>
  BY <1>6 DEF Received, vars, inboxVars, faninVars, history
<1> QED
  BY <1>1, <1>2, <1>3, <1>4, <1>5, <1>6 DEF Next, Deliver

LEMMA OrderInit == Init => Order
<1> SUFFICES ASSUME Init PROVE Order
  OBVIOUS
<1>1. ToSet(<<>>) = {} /\ Sorted(<<>>)
  BY EmptySeq DEF ToSet, Sorted
<1>2. Passed = {} /\ \A s \in Sessions : Waiting(s) = {}
  BY <1>1 DEF Init, Passed, Waiting
<1>3. Layers
  BY <1>1, <1>2 DEF Init, Layers, Precedes
<1> QED
  BY <1>2, <1>3 DEF Init, Order, Home, Recent, Latest

(* The consumer of Received reads the messages of one stream and session   *)
(* in the order in which the handler received them.                        *)
THEOREM ReadInOrder == Spec => []InOrder
<1>1. Order => InOrder
  BY DEF Order, Layers, InOrder
<1> QED
  BY <1>1, OrderInit, OrderNext, TypeCorrect, ForwardingInv, PTL DEF Spec

-----------------------------------------------------------------------------
(* Drops.  A handler that is about to call the hook holds a count of its   *)
(* own: that is what lets every count be reported.                         *)

PendingOf(h, s) == pc[h] = "hook" /\ msg[h].session = s
Counts == \A s \in Sessions : \A g, h \in Handlers :
              PendingOf(g, s) /\ PendingOf(h, s) /\ n[g] = n[h] => g = h

(* EveryDropReported, member by member. *)
Reported ==
    \A s \in Sessions :
        /\ \A k \in Nat : k \in 1..dropped[s]
                <=> k \in reported[s] \/ \E h \in Handlers : PendingOf(h, s) /\ n[h] = k
        /\ \A h \in Handlers : PendingOf(h, s) => n[h] \notin reported[s]

LEMMA ReportedSuffices == TypeOK => (Reported <=> EveryDropReported)
<1> SUFFICES ASSUME TypeOK PROVE Reported <=> EveryDropReported
  OBVIOUS
<1>1. \A s \in Sessions : \A h \in Handlers : h \in Pending(s) <=> PendingOf(h, s)
  BY DEF Pending, PendingOf
<1>2. \A s \in Sessions : /\ reported[s] \subseteq Nat /\ dropped[s] \in Nat
                        /\ \A h \in Pending(s) : h \in Handlers /\ n[h] \in Nat
  BY DEF TypeOK, Pending
<1> QED
  BY <1>1, <1>2 DEF Reported, EveryDropReported

LEMMA ReportedDrop ==
  ASSUME TypeOK, Reported, Counts, NEW h \in Handlers, Drop(h)
  PROVE  Reported' /\ Counts'
<1>1. PICK r \in Sessions : r = msg[h].session
  BY DEF TypeOK, Drop, Message
<1>2. /\ dropped[r] \in Nat /\ dropped'[r] = dropped[r] + 1
      /\ \A s \in Sessions \ {r} : dropped'[s] = dropped[s]
      /\ n'[h] = dropped[r] + 1 /\ \A g \in Handlers \ {h} : n'[g] = n[g]
      /\ pc[h] = "offer" /\ pc'[h] = "hook" /\ \A g \in Handlers \ {h} : pc'[g] = pc[g]
      /\ msg' = msg /\ reported' = reported
  BY <1>1 DEF TypeOK, Drop
<1>3. \A s \in Sessions : \A g \in Handlers :
         PendingOf(g, s)' <=> PendingOf(g, s) \/ (g = h /\ s = r)
  BY <1>1, <1>2 DEF PendingOf
<1>4. \A s \in Sessions : \A g \in Handlers :
         PendingOf(g, s) => g # h /\ n'[g] = n[g] /\ n[g] \in 1..dropped[s]
  <2>1. \A g \in Handlers : n[g] \in Nat
    BY DEF TypeOK
  <2>2. \A s \in Sessions : \A g \in Handlers : PendingOf(g, s) => n[g] \in 1..dropped[s]
    BY <2>1 DEF Reported
  <2> QED
    BY <1>2, <2>2 DEF PendingOf
<1>5. dropped[r] + 1 \notin 1..dropped[r] /\ dropped[r] + 1 \in Nat
      /\ \A k \in Nat : k \in 1..dropped[r] + 1 <=> k \in 1..dropped[r] \/ k = dropped[r] + 1
  BY <1>2
<1>6. Counts'
  BY <1>1, <1>2, <1>3, <1>4, <1>5 DEF Counts
<1>7. ASSUME NEW s \in Sessions, s # r
      PROVE  /\ \A k \in Nat : k \in 1..dropped'[s]
                 <=> k \in reported'[s] \/ \E g \in Handlers : PendingOf(g, s)' /\ n'[g] = k
             /\ \A g \in Handlers : PendingOf(g, s)' => n'[g] \notin reported'[s]
  <2>1. \A g \in Handlers : PendingOf(g, s)' <=> PendingOf(g, s)
    BY <1>3, <1>7
  <2>2. \A g \in Handlers : PendingOf(g, s) => n'[g] = n[g]
    BY <1>4
  <2>3. dropped'[s] = dropped[s] /\ reported'[s] = reported[s]
    BY <1>2, <1>7
  <2> QED
    BY <2>1, <2>2, <2>3 DEF Reported
<1>8. /\ \A k \in Nat : k \in 1..dropped'[r]
             <=> k \in reported'[r] \/ \E g \in Handlers : PendingOf(g, r)' /\ n'[g] = k
      /\ \A g \in Handlers : PendingOf(g, r)' => n'[g] \notin reported'[r]
  <2>1. \A k \in Nat : k \in 1..dropped[r]
             <=> k \in reported[r] \/ \E g \in Handlers : PendingOf(g, r) /\ n[g] = k
    BY <1>1 DEF Reported
  <2>2. \A g \in Handlers : PendingOf(g, r) => n[g] \notin reported[r]
    BY <1>1 DEF Reported
  <2>3. dropped[r] + 1 \notin reported[r]
    BY <1>5, <2>1
  <2>4. \A k \in Nat : (\E g \in Handlers : PendingOf(g, r)' /\ n'[g] = k)
             <=> k = dropped[r] + 1 \/ \E g \in Handlers : PendingOf(g, r) /\ n[g] = k
    BY <1>1, <1>2, <1>3, <1>4
  <2>5. \A g \in Handlers : PendingOf(g, r)' => n'[g] \notin reported'[r]
    BY <1>1, <1>2, <1>3, <1>4, <2>2, <2>3
  <2>6. dropped'[r] = dropped[r] + 1 /\ reported'[r] = reported[r]
    BY <1>2
  <2>7. \A k \in Nat : k \in 1..dropped'[r]
             <=> k \in reported'[r] \/ \E g \in Handlers : PendingOf(g, r)' /\ n'[g] = k
    BY <1>5, <2>1, <2>4, <2>6
  <2> QED
    BY <2>5, <2>7
<1>9. Reported'
  <2>1. ASSUME NEW s \in Sessions
        PROVE  /\ \A k \in Nat : k \in 1..dropped'[s]
                    <=> k \in reported'[s] \/ \E g \in Handlers : PendingOf(g, s)' /\ n'[g] = k
               /\ \A g \in Handlers : PendingOf(g, s)' => n'[g] \notin reported'[s]
    <3>1. CASE s = r
      BY <1>8, <3>1
    <3>2. CASE s # r
      BY <1>7, <3>2
    <3> QED
      BY <3>1, <3>2
  <2> QED
    BY <2>1 DEF Reported
<1> QED
  BY <1>6, <1>9

LEMMA ReportedHook ==
  ASSUME TypeOK, Reported, Counts, NEW h \in Handlers, Hook(h)
  PROVE  Reported' /\ Counts'
<1> DEFINE r == msg[h].session
<1>1. r \in Sessions /\ PendingOf(h, r) /\ n[h] \in Nat
  BY DEF TypeOK, Hook, Message, PendingOf
<1>2. /\ reported'[r] = reported[r] \cup {n[h]}
      /\ \A s \in Sessions \ {r} : reported'[s] = reported[s]
      /\ dropped' = dropped
      /\ pc'[h] = "recv"
      /\ \A g \in Handlers \ {h} : pc'[g] = pc[g] /\ msg'[g] = msg[g] /\ n'[g] = n[g]
  BY <1>1 DEF TypeOK, Hook, HookArg, inboxVars
<1>3. \A s \in Sessions : \A g \in Handlers :
         PendingOf(g, s)' <=> PendingOf(g, s) /\ g # h
  BY <1>2 DEF PendingOf
<1>4. \A s \in Sessions : PendingOf(h, s) => s = r
  BY DEF PendingOf
<1>5. Counts'
  BY <1>2, <1>3 DEF Counts
<1>6. ASSUME NEW s \in Sessions
      PROVE  /\ \A k \in Nat : k \in 1..dropped'[s]
                 <=> k \in reported'[s] \/ \E g \in Handlers : PendingOf(g, s)' /\ n'[g] = k
             /\ \A g \in Handlers : PendingOf(g, s)' => n'[g] \notin reported'[s]
  <2>1. /\ \A k \in Nat : k \in 1..dropped[s]
             <=> k \in reported[s] \/ \E g \in Handlers : PendingOf(g, s) /\ n[g] = k
        /\ \A g \in Handlers : PendingOf(g, s) => n[g] \notin reported[s]
    BY DEF Reported
  <2>2. \A g \in Handlers : PendingOf(g, s)' => PendingOf(g, s) /\ g # h /\ n'[g] = n[g]
    BY <1>2, <1>3
  <2>3. \A g \in Handlers : PendingOf(g, s) /\ g # h => PendingOf(g, s)' /\ n'[g] = n[g]
    BY <1>2, <1>3
  <2>4. CASE s = r
    <3>1. \A g \in Handlers : PendingOf(g, r) /\ g # h => n[g] # n[h]
      BY <1>1 DEF Counts
    <3>2. reported'[s] = reported[s] \cup {n[h]} /\ dropped'[s] = dropped[s]
      BY <1>2, <2>4
    <3>3. \A k \in Nat : (\E g \in Handlers : PendingOf(g, s) /\ n[g] = k)
             <=> k = n[h] \/ \E g \in Handlers : PendingOf(g, s)' /\ n'[g] = k
      BY <1>1, <2>2, <2>3, <2>4
    <3> QED
      BY <2>1, <2>2, <2>4, <3>1, <3>2, <3>3
  <2>5. CASE s # r
    <3>1. reported'[s] = reported[s] /\ dropped'[s] = dropped[s]
      BY <1>2, <2>5
    <3>2. \A g \in Handlers : PendingOf(g, s)' <=> PendingOf(g, s)
      BY <1>3, <1>4, <2>5
    <3>3. \A g \in Handlers : PendingOf(g, s) => n'[g] = n[g]
      BY <2>2, <3>2
    <3> QED
      BY <2>1, <3>1, <3>2, <3>3
  <2> QED
    BY <2>4, <2>5
<1>7. Reported'
  BY <1>6 DEF Reported
<1> QED
  BY <1>5, <1>7

(* A step that moves no handler into or out of its hook. *)
LEMMA ReportedKept ==
  ASSUME Reported, Counts, UNCHANGED <<n, dropped, reported>>,
         \A h \in Handlers : /\ pc'[h] = "hook" <=> pc[h] = "hook"
                             /\ pc[h] = "hook" => msg'[h] = msg[h]
  PROVE  Reported' /\ Counts'
<1>1. ASSUME NEW s \in Sessions, NEW h \in Handlers
      PROVE  PendingOf(h, s)' <=> PendingOf(h, s)
  BY DEF PendingOf
<1>2. Counts'
  BY <1>1 DEF Counts
<1>3. Reported'
  BY <1>1 DEF Reported
<1> QED
  BY <1>2, <1>3

LEMMA ReportedNext ==
  TypeOK /\ Reported /\ Counts /\ [Next]_vars => Reported' /\ Counts'
<1> SUFFICES ASSUME TypeOK, Reported, Counts, [Next]_vars PROVE Reported' /\ Counts'
  OBVIOUS
<1>1. ASSUME NEW h \in Handlers, NEW s \in Sessions, Lookup(h, s)
      PROVE  Reported' /\ Counts'
  <2>1. UNCHANGED <<n, dropped, reported>>
    BY <1>1 DEF Lookup, history
  <2>2. \A g \in Handlers : /\ pc'[g] = "hook" <=> pc[g] = "hook"
                            /\ pc[g] = "hook" => msg'[g] = msg[g]
    BY <1>1 DEF Lookup, TypeOK
  <2> QED
    BY <2>1, <2>2, ReportedKept
<1>2. ASSUME NEW h \in Handlers, Accept(h) PROVE Reported' /\ Counts'
  <2>1. UNCHANGED <<n, dropped, reported>>
    BY <1>2 DEF Accept, history
  <2>2. \A g \in Handlers : /\ pc'[g] = "hook" <=> pc[g] = "hook"
                            /\ pc[g] = "hook" => msg'[g] = msg[g]
    BY <1>2 DEF Accept, TypeOK
  <2> QED
    BY <2>1, <2>2, ReportedKept
<1>3. ASSUME NEW s \in Sessions, Take(s) \/ PutSome(s) PROVE Reported' /\ Counts'
  <2>1. UNCHANGED <<n, dropped, reported, pc, msg>>
    BY <1>3 DEF Take, PutSome, Put, deliverVars, inboxVars, history
  <2> QED
    BY <2>1, ReportedKept
<1>4. ASSUME Received \/ Consume \/ UNCHANGED vars PROVE Reported' /\ Counts'
  <2>1. UNCHANGED <<n, dropped, reported, pc, msg>>
    BY <1>4 DEF Received, Consume, vars, deliverVars, inboxVars, history
  <2> QED
    BY <2>1, ReportedKept
<1> QED
  BY <1>1, <1>2, <1>3, <1>4, ReportedDrop, ReportedHook DEF Next, Deliver

(* Every drop is reported to the hook once, with its own count, however    *)
(* many handlers drop messages of the session at the same time.            *)
THEOREM DropsReported == Spec => []EveryDropReported
<1>1. Init => Reported /\ Counts
  BY DEF Init, Reported, Counts, PendingOf
<1> QED
  BY <1>1, ReportedNext, ReportedSuffices, TypeCorrect, PTL DEF Spec

-----------------------------------------------------------------------------
(* Conservation.  That the places which keep an order share no message,    *)
(* and none twice, is in Order already.  What is left are the dropped      *)
(* messages, and that no message was made up or forgotten.                 *)

Kept == Passed \cup UNION {Waiting(s) : s \in Sessions}
All == Kept \cup Offered \cup lost
Is(x, h, k) == x.from = h /\ x.seq = k

LostApart == \A x \in lost : Old(x) /\ x \notin Kept
DropsCounted ==
    /\ IsFiniteSet(lost)
    /\ \A s \in Sessions : dropped[s] = Cardinality({x \in lost : x.session = s})
EachOnce ==
    /\ \A x, y \in All : Is(x, y.from, y.seq) => x = y
    /\ \A x \in All : x.seq <= sent[x.from]
    /\ \A h \in Handlers : \A k \in 1..sent[h] : \E x \in All : Is(x, h, k)

Account == LostApart /\ DropsCounted /\ EachOnce

LEMMA AllTyped == ASSUME TypeOK PROVE All \subseteq Message /\ Offered \subseteq Message
  BY Typed DEF All, Kept, Offered, TypeOK

(* A step that loses nothing and counts nothing, and moves messages within *)
(* the places where they wait.                                             *)
LEMMA AccountKept ==
  ASSUME TypeOK, TypeOK', Order, [Next]_vars, Account,
         UNCHANGED <<sent, lost, dropped>>, All' = All, Kept' \cap lost = {}
  PROVE  Account'
<1>1. \A x \in lost : Old(x)'
  BY HandlersGoOn, Aging DEF Account, LostApart, TypeOK
<1>2. LostApart'
  BY <1>1 DEF LostApart
<1>3. DropsCounted'
  BY DEF Account, DropsCounted
<1>4. EachOnce'
  BY DEF Account, EachOnce
<1> QED
  BY <1>2, <1>3, <1>4 DEF Account

(* What a handler offers is newer than all that waits, passed or was lost. *)
LEMMA OfferedIsNew ==
  ASSUME TypeOK, Order, Account, NEW h \in Handlers, pc[h] = "offer"
  PROVE  /\ msg[h] \in Offered /\ msg[h] \notin Kept /\ msg[h] \notin lost
         /\ \A g \in Handlers : pc[g] = "offer" /\ msg[g] = msg[h] => g = h
<1>1. /\ msg[h].from = h /\ msg[h].seq = sent[h] /\ sent[h] \in Int
      /\ Limit(h) = sent[h] - 1
  BY Typed DEF Order, Recent, Latest, Limit
<1>2. ~Old(msg[h])
  BY <1>1 DEF Old
<1>3. \A x \in Kept : Old(x)
  BY DEF Kept, Order, Recent
<1>4. \A g \in Handlers : pc[g] = "offer" => msg[g].from = g
  BY DEF Order, Recent, Latest
<1> QED
  BY <1>1, <1>2, <1>3, <1>4 DEF Account, LostApart, Offered

LEMMA AccountLookup ==
  ASSUME TypeOK, TypeOK', Order, [Next]_vars, Account,
         NEW h \in Handlers, NEW s \in Sessions, Lookup(h, s)
  PROVE  Account'
<1> PICK m \in Message : m = [from |-> h, seq |-> sent[h] + 1, session |-> s]
  BY DEF Lookup, Message, TypeOK
<1>1. /\ m.from = h /\ m.seq = sent[h] + 1 /\ sent[h] \in Nat
      /\ pc[h] # "offer" /\ pc'[h] = "offer" /\ msg'[h] = m
      /\ sent'[h] = sent[h] + 1
      /\ \A g \in Handlers \ {h} : pc'[g] = pc[g] /\ msg'[g] = msg[g] /\ sent'[g] = sent[g]
      /\ UNCHANGED <<ch, hand, out, consumed, lost, dropped>>
  BY DEF Lookup, TypeOK, history
<1>2. Offered' = Offered \cup {m}
  BY <1>1 DEF Offered
<1>3. Kept' = Kept /\ All' = All \cup {m}
  BY <1>1, <1>2 DEF Kept, Passed, Waiting, All
<1>4. LostApart'
  <2>1. \A x \in lost : Old(x)'
    BY HandlersGoOn, Aging DEF Account, LostApart, TypeOK
  <2> QED
    BY <1>1, <1>3, <2>1 DEF Account, LostApart
<1>5. DropsCounted'
  BY <1>1 DEF Account, DropsCounted
<1>6. EachOnce'
  <2>1. \A x \in All : /\ x \in Message /\ x.from \in Handlers /\ x.seq \in Int
                       /\ sent[x.from] \in Int /\ x.seq <= sent[x.from]
    BY AllTyped, Typed DEF Account, EachOnce
  <2>2. \A g \in Handlers : sent[g] \in Int /\ sent'[g] \in Int /\ sent[g] <= sent'[g]
    <3>1. \A g \in Handlers : sent[g] \in Int /\ sent'[g] \in {sent[g], sent[g] + 1}
      BY <1>1 DEF TypeOK
    <3> QED
      BY <3>1
  <2>3. \A x \in All : x.seq <= sent'[x.from] /\ ~Is(x, m.from, m.seq)
    BY <1>1, <2>1, <2>2 DEF Is
  <2>4. ASSUME NEW g \in Handlers, NEW k \in 1..sent'[g]
        PROVE  \E x \in All' : Is(x, g, k)
    <3>1. CASE k \in 1..sent[g]
      BY <1>3, <3>1 DEF Account, EachOnce
    <3>2. CASE k \notin 1..sent[g]
      <4>1. g = h
        BY <1>1, <2>4, <3>2
      <4>2. k = sent[h] + 1
        BY <1>1, <2>4, <3>2, <4>1
      <4> QED
        BY <1>1, <1>3, <4>1, <4>2 DEF Is
    <3> QED
      BY <3>1, <3>2
  <2>5. \A x, y \in All' : Is(x, y.from, y.seq) => x = y
    <3>1. \A x \in All : ~Is(m, x.from, x.seq)
      BY <2>3 DEF Is
    <3> QED
      BY <1>3, <2>3, <3>1 DEF Account, EachOnce
  <2>6. \A x \in All' : x.seq <= sent'[x.from]
    BY <1>1, <1>3, <2>3
  <2> QED
    BY <2>4, <2>5, <2>6 DEF EachOnce
<1> QED
  BY <1>4, <1>5, <1>6 DEF Account

LEMMA AccountAccept ==
  ASSUME TypeOK, TypeOK', Order, [Next]_vars, Account, NEW h \in Handlers, Accept(h)
  PROVE  Account'
<1>0. pc[h] = "offer" /\ msg[h] \in Message /\ msg[h].session \in Sessions
  BY Typed DEF Accept
<1> PICK m \in Message : m = msg[h]
  BY <1>0
<1> PICK s \in Sessions : s = m.session
  BY <1>0
<1>1. /\ ch' = [ch EXCEPT ![s] = Append(ch[s], m)]
      /\ pc'[h] = "recv" /\ \A g \in Handlers \ {h} : pc'[g] = pc[g] /\ msg'[g] = msg[g]
      /\ UNCHANGED <<sent, hand, out, consumed, lost, dropped>>
  BY DEF Accept, faninVars, history, TypeOK
<1>2. m \in Offered /\ m \notin lost
      /\ \A g \in Handlers : pc[g] = "offer" /\ msg[g] = m => g = h
  BY <1>0, OfferedIsNew
<1>3. Offered' = Offered \ {m}
  BY <1>0, <1>1, <1>2 DEF Offered
<1>4. Kept' = Kept \cup {m}
  <2>1. ToSet(ch'[s]) = ToSet(ch[s]) \cup {m} /\ \A t \in Sessions : t # s => ch'[t] = ch[t]
    BY <1>1, AppendSorted DEF TypeOK
  <2>2. Passed' = Passed /\ Waiting(s)' = Waiting(s) \cup {m}
        /\ \A t \in Sessions : t # s => Waiting(t)' = Waiting(t)
    BY <1>1, <2>1 DEF Passed, Waiting
  <2> QED
    BY <2>2 DEF Kept
<1>5. All' = All /\ Kept' \cap lost = {}
  BY <1>1, <1>2, <1>3, <1>4 DEF All, Account, LostApart
<1> QED
  BY <1>1, <1>5, AccountKept

LEMMA AccountDrop ==
  ASSUME TypeOK, TypeOK', Order, [Next]_vars, Account, NEW h \in Handlers, Drop(h)
  PROVE  Account'
<1>0. pc[h] = "offer" /\ msg[h] \in Message /\ msg[h].session \in Sessions
  BY Typed DEF Drop
<1> PICK m \in Message : m = msg[h]
  BY <1>0
<1> PICK s \in Sessions : s = m.session
  BY <1>0
<1>1. /\ dropped'[s] = dropped[s] + 1
      /\ \A t \in Sessions : t # s => dropped'[t] = dropped[t]
      /\ lost' = lost \cup {m}
      /\ pc'[h] = "hook" /\ \A g \in Handlers \ {h} : pc'[g] = pc[g]
      /\ UNCHANGED <<sent, msg, ch, hand, out, consumed>>
  BY DEF Drop, faninVars, TypeOK
<1>2. m \in Offered /\ m \notin lost /\ m \notin Kept
      /\ \A g \in Handlers : pc[g] = "offer" /\ msg[g] = m => g = h
  BY <1>0, OfferedIsNew
<1>3. Offered' = Offered \ {m}
  BY <1>0, <1>1, <1>2 DEF Offered
<1>4. Kept' = Kept /\ All' = All
  BY <1>1, <1>2, <1>3 DEF Kept, Passed, Waiting, All
<1>5. LostApart'
  <2>1. Old(m)'
    <3>1. m.from = h /\ m.seq = sent[h] /\ sent[h] \in Int
      BY <1>0, Typed DEF Order, Recent, Latest
    <3>2. Limit(h)' = sent[h]
      BY <1>1 DEF Limit
    <3> QED
      BY <3>1, <3>2 DEF Old
  <2>2. \A x \in lost : Old(x)'
    BY HandlersGoOn, Aging DEF Account, LostApart, TypeOK
  <2> QED
    BY <1>1, <1>2, <1>4, <2>1, <2>2 DEF Account, LostApart
<1>6. DropsCounted'
  <2>1. IsFiniteSet(lost')
    BY <1>1, FS_AddElement DEF Account, DropsCounted
  <2>2. ASSUME NEW t \in Sessions
        PROVE  dropped'[t] = Cardinality({x \in lost' : x.session = t})
    <3> DEFINE L == {x \in lost : x.session = t}
               M == {x \in lost' : x.session = t}
    <3>1. IsFiniteSet(L) /\ dropped[t] = Cardinality(L)
      BY FS_Subset DEF Account, DropsCounted
    <3>2. CASE t = s
      <4>1. M = L \cup {m} /\ m \notin L
        BY <1>1, <1>2, <3>2
      <4>2. Cardinality(M) = Cardinality(L) + 1
        BY <3>1, <4>1, FS_AddElement
      <4> QED
        BY <1>1, <3>1, <3>2, <4>2
    <3>3. CASE t # s
      <4>1. M = L
        BY <1>1, <3>3
      <4> QED
        BY <1>1, <3>1, <3>3, <4>1
    <3> QED
      BY <3>2, <3>3
  <2> QED
    BY <2>1, <2>2 DEF DropsCounted
<1>7. EachOnce'
  BY <1>1, <1>4 DEF Account, EachOnce
<1> QED
  BY <1>5, <1>6, <1>7 DEF Account

(* The other steps move messages from one waiting place to the next.       *)
LEMMA AccountMoves ==
  ASSUME TypeOK, TypeOK', Order, [Next]_vars, Account,
         UNCHANGED <<sent, lost, dropped, pc, msg>>, Kept' = Kept
  PROVE  Account'
<1>1. All' = All
  BY DEF All, Offered
<1>2. Kept' \cap lost = {}
  BY DEF Account, LostApart
<1> QED
  BY <1>1, <1>2, AccountKept

LEMMA AccountNext ==
  TypeOK /\ TypeOK' /\ Forwarding /\ Order /\ Account /\ [Next]_vars => Account'
<1> SUFFICES ASSUME TypeOK, TypeOK', Forwarding, Order, Account, [Next]_vars
             PROVE  Account'
  OBVIOUS
<1>1. ASSUME NEW h \in Handlers, Hook(h) PROVE Account'
  <2>1. /\ pc[h] # "offer" /\ pc'[h] # "offer"
        /\ \A g \in Handlers \ {h} : pc'[g] = pc[g] /\ msg'[g] = msg[g]
        /\ UNCHANGED <<sent, lost, dropped, ch, hand, out, consumed>>
    BY <1>1 DEF Hook, inboxVars, faninVars, TypeOK
  <2>2. Offered' = Offered /\ Kept' = Kept
    BY <2>1 DEF Offered, Kept, Passed, Waiting
  <2>3. All' = All
    BY <2>1, <2>2 DEF All
  <2>4. Kept' \cap lost = {}
    BY <2>2 DEF Account, LostApart
  <2> QED
    BY <2>1, <2>3, <2>4, AccountKept
<1>2. ASSUME NEW s \in Sessions, Take(s) PROVE Account'
  <2> PICK x \in Message : x = Head(ch[s])
    BY <1>2, TailSorted DEF Take, TypeOK
  <2>1. /\ ToSet(hand'[s]) = ToSet(hand[s]) \cup {x}
        /\ ToSet(ch[s]) = {x} \cup ToSet(ch'[s])
    BY <1>2, AppendSorted, TailSorted DEF Take, TypeOK
  <2>2. /\ UNCHANGED <<out, consumed, sent, lost, dropped, pc, msg>>
        /\ \A t \in Sessions : t # s => ch'[t] = ch[t] /\ hand'[t] = hand[t]
    BY <1>2 DEF Take, TypeOK, history, deliverVars
  <2>3. Passed' = Passed /\ \A t \in Sessions : Waiting(t)' = Waiting(t)
    BY <2>1, <2>2 DEF Passed, Waiting
  <2>4. Kept' = Kept
    BY <2>3 DEF Kept
  <2> QED
    BY <2>2, <2>4, AccountMoves
<1>3. ASSUME NEW s \in Sessions, NEW i \in 1..Len(hand[s]), Put(s, i)
      PROVE  Account'
  <2>1. Len(hand[s]) <= 1
    <3>1. /\ Len(hand[s]) \in Nat /\ Len(hand[s]) <= forwarders[s]
          /\ forwarders[s] \in {0, 1}
      BY LenProperties DEF TypeOK, Forwarding, OneForwarder, HandOK
    <3> QED
      BY <3>1
  <2>2. /\ hand[s][i] \in Message /\ ToSet(hand[s]) = {hand[s][i]}
        /\ RemoveAt(hand[s], i) = <<>>
    BY <2>1, HandEmptied DEF TypeOK
  <2> PICK x \in Message : x = hand[s][i]
    BY <2>2
  <2>3. /\ UNCHANGED <<consumed, ch, sent, lost, dropped, pc, msg>>
        /\ \A t \in Sessions : t # s => hand'[t] = hand[t]
        /\ hand'[s] = <<>>
    BY <1>3, <2>2 DEF Put, inboxVars, history, deliverVars, TypeOK
  <2>4. ToSet(out') = ToSet(out) \cup {x}
    BY <1>3, AppendSorted DEF Put, TypeOK
  <2>5. ToSet(hand[s]) = {x} /\ ToSet(hand'[s]) = {}
    <3>1. ToSet(<<>>) = {}
      BY EmptySeq DEF ToSet
    <3> QED
      BY <2>2, <2>3, <3>1
  <2>6. /\ Passed' = Passed \cup {x}
        /\ \A t \in Sessions : t # s => Waiting(t)' = Waiting(t)
        /\ Waiting(s) = Waiting(s)' \cup {x}
    BY <2>3, <2>4, <2>5 DEF Passed, Waiting
  <2>7. Kept' = Kept
    BY <2>6 DEF Kept
  <2> QED
    BY <2>3, <2>7, AccountMoves
<1>4. ASSUME Consume PROVE Account'
  <2> PICK x \in Message : x = Head(out)
    BY <1>4, TailSorted DEF Consume, TypeOK
  <2>1. /\ ToSet(out) = {x} \cup ToSet(out')
        /\ ToSet(consumed') = ToSet(consumed) \cup {x}
        /\ UNCHANGED <<hand, ch, sent, lost, dropped, pc, msg>>
    BY <1>4, AppendSorted, TailSorted DEF Consume, TypeOK, deliverVars, inboxVars
  <2>2. Kept' = Kept
    BY <2>1 DEF Kept, Passed, Waiting
  <2> QED
    BY <2>1, <2>2, AccountMoves
<1>5. ASSUME Received \/ UNCHANGED vars PROVE Account'
  <2>1. UNCHANGED <<sent, lost, dropped, pc, msg, ch, hand, out, consumed>>
    BY <1>5 DEF Received, vars, deliverVars, inboxVars, faninVars, history
  <2>2. Kept' = Kept
    BY <2>1 DEF Kept, Passed, Waiting
  <2> QED
    BY <2>1, <2>2, AccountMoves
<1> QED
  BY <1>1, <1>2, <1>3, <1>4, <1>5, AccountLookup, AccountAccept, AccountDrop
     DEF Next, Deliver, PutSome

LEMMA AccountInit == Init => Account
<1> SUFFICES ASSUME Init PROVE Account
  OBVIOUS
<1>1. ToSet(<<>>) = {}
  BY EmptySeq DEF ToSet
<1>2. Kept = {} /\ Offered = {} /\ lost = {}
  BY <1>1 DEF Init, Kept, Passed, Waiting, Offered
<1>3. \A s \in Sessions : dropped[s] = Cardinality({x \in lost : x.session = s})
  <2>1. \A s \in Sessions : {x \in lost : x.session = s} = {}
    BY <1>2
  <2> QED
    BY <2>1, FS_EmptySet DEF Init
<1>4. EachOnce
  BY <1>2 DEF Init, EachOnce, All
<1> QED
  BY <1>2, <1>3, <1>4, FS_EmptySet DEF Account, LostApart, DropsCounted

LEMMA Accounted == Spec => [](TypeOK /\ Forwarding /\ Order /\ Account)
  BY TypeCorrect, ForwardingInv, OrderInit, OrderNext, AccountInit, AccountNext, PTL
     DEF Spec

(* A place that is sorted has no message twice, and two places of which    *)
(* one precedes the other have none in common.                             *)
LEMMA SortedApart ==
  /\ \A q \in Seq(Message) : Sorted(q) => IsInjective(q)
  /\ \A S, T \in SUBSET Message : Precedes(S, T) => S \cap T = {}
<1>1. \A x, y \in Message : x.seq \in Int /\ (x = y => ~Before(x, y))
  BY ReceptionConstants DEF Message, Before
<1>2. ASSUME NEW q \in Seq(Message), Sorted(q), NEW i \in DOMAIN q, NEW j \in DOMAIN q,
             q[i] = q[j]
      PROVE  i = j
  <2>1. i \in 1..Len(q) /\ j \in 1..Len(q) /\ q[i] \in Message /\ q[j] \in Message
    BY LenProperties, ElementOfSeq
  <2>2. ~(i < j) /\ ~(j < i)
    BY <1>1, <1>2, <2>1 DEF Sorted
  <2> QED
    BY <2>1, <2>2
<1>3. \A S, T \in SUBSET Message : Precedes(S, T) => S \cap T = {}
  BY <1>1 DEF Precedes
<1> QED
  BY <1>2, <1>3 DEF IsInjective

LEMMA WaitingPlaces ==
  /\ \A x : x \in InInboxes <=> \E s \in Sessions : x \in ToSet(ch[s])
  /\ \A x : x \in InHands <=> \E s \in Sessions : x \in ToSet(hand[s])
  /\ Kept = ToSet(consumed) \cup ToSet(out) \cup InInboxes \cup InHands
<1>1. \A x : x \in InInboxes <=> \E s \in Sessions : x \in ToSet(ch[s])
  BY DEF InInboxes
<1>2. \A x : x \in InHands <=> \E s \in Sessions : x \in ToSet(hand[s])
  BY DEF InHands
<1>3. \A x : x \in UNION {Waiting(s) : s \in Sessions}
               <=> \E s \in Sessions : x \in ToSet(ch[s]) \/ x \in ToSet(hand[s])
  BY DEF Waiting
<1>4. \A x : x \in Kept <=> \/ x \in ToSet(consumed) \/ x \in ToSet(out)
                            \/ x \in UNION {Waiting(s) : s \in Sessions}
  BY DEF Kept, Passed
<1>5. \A x : x \in Kept <=> \/ x \in ToSet(consumed) \/ x \in ToSet(out)
                            \/ x \in InInboxes \/ x \in InHands
  BY <1>1, <1>2, <1>3, <1>4
<1> QED
  BY <1>1, <1>2, <1>5

LEMMA Apart ==
  ASSUME TypeOK, Order, Account
  PROVE  /\ ToSet(consumed) \cap ToSet(out) = {}
         /\ Passed \cap InInboxes = {} /\ Passed \cap InHands = {}
         /\ InInboxes \cap InHands = {}
         /\ Offered \cap Kept = {} /\ Offered \cap lost = {} /\ Kept \cap lost = {}
<1>1. Passed \subseteq Message /\ \A s \in Sessions : Waiting(s) \subseteq Message
  BY Typed
<1>2. ToSet(consumed) \cap ToSet(out) = {}
  BY <1>1, SortedApart DEF Order, Layers, Passed
<1>3. \A s \in Sessions : Passed \cap Waiting(s) = {}
  BY <1>1, SortedApart DEF Order, Layers
<1>4. Passed \cap InInboxes = {} /\ Passed \cap InHands = {}
  BY <1>3, WaitingPlaces DEF Waiting
<1>5. ASSUME NEW s \in Sessions, NEW t \in Sessions PROVE ToSet(ch[s]) \cap ToSet(hand[t]) = {}
  <2>1. CASE s = t
    BY <1>1, <2>1, SortedApart DEF Order, Layers, Waiting
  <2>2. CASE s # t
    BY <2>2 DEF Order, Home, Waiting
  <2> QED
    BY <2>1, <2>2
<1>6. InInboxes \cap InHands = {}
  BY <1>5, WaitingPlaces
<1>7. Offered \cap Kept = {} /\ Offered \cap lost = {}
  BY OfferedIsNew DEF Offered
<1>8. Kept \cap lost = {}
  BY DEF Account, LostApart
<1> QED
  BY <1>2, <1>4, <1>6, <1>7, <1>8

LEMMA Conserved ==
  ASSUME TypeOK, Forwarding, Order, Account
  PROVE  Conservation
<1>0. /\ Places[1] = Offered /\ Places[2] = InInboxes /\ Places[3] = InHands
      /\ Places[4] = ToSet(out) /\ Places[5] = ToSet(consumed) /\ Places[6] = lost
      /\ \A i \in 1..6 : i = 1 \/ i = 2 \/ i = 3 \/ i = 4 \/ i = 5 \/ i = 6
  BY DEF Places
<1>1. Everywhere = All
  <2>1. \A x : x \in Everywhere <=> \E i \in 1..6 : x \in Places[i]
    BY DEF Everywhere
  <2>2. \A x : x \in Everywhere <=> \/ x \in Offered \/ x \in InInboxes \/ x \in InHands
                                    \/ x \in ToSet(out) \/ x \in ToSet(consumed) \/ x \in lost
    BY <1>0, <2>1
  <2> QED
    BY <2>2, WaitingPlaces DEF All
<1>2. \A i, j \in 1..6 : i # j => Places[i] \cap Places[j] = {}
  <2>1. /\ Offered \cap InInboxes = {} /\ Offered \cap InHands = {}
        /\ Offered \cap ToSet(out) = {} /\ Offered \cap ToSet(consumed) = {}
        /\ InInboxes \cap lost = {} /\ InHands \cap lost = {}
        /\ ToSet(out) \cap lost = {} /\ ToSet(consumed) \cap lost = {}
    BY Apart, WaitingPlaces
  <2>2. /\ InInboxes \cap ToSet(out) = {} /\ InInboxes \cap ToSet(consumed) = {}
        /\ InHands \cap ToSet(out) = {} /\ InHands \cap ToSet(consumed) = {}
    BY Apart DEF Passed
  <2>3. /\ Offered \cap lost = {} /\ InInboxes \cap InHands = {}
        /\ ToSet(out) \cap ToSet(consumed) = {}
    BY Apart
  <2> QED
    BY <1>0, <2>1, <2>2, <2>3
<1>3. IsInjective(out) /\ IsInjective(consumed) /\ \A s \in Sessions : IsInjective(ch[s])
  BY SortedApart DEF Order, Layers, TypeOK
<1>4. ASSUME NEW s \in Sessions PROVE IsInjective(hand[s])
  <2>1. Len(hand[s]) <= 1 /\ DOMAIN hand[s] = 1..Len(hand[s]) /\ Len(hand[s]) \in Nat
    <3>1. /\ Len(hand[s]) \in Nat /\ Len(hand[s]) <= forwarders[s]
          /\ forwarders[s] \in {0, 1} /\ DOMAIN hand[s] = 1..Len(hand[s])
      BY LenProperties DEF TypeOK, Forwarding, OneForwarder, HandOK
    <3> QED
      BY <3>1
  <2>2. \A i, j \in DOMAIN hand[s] : i = j
    BY <2>1
  <2> QED
    BY <2>2 DEF IsInjective
<1>5. \A s \in Sessions : /\ \A x \in ToSet(ch[s]) \cup ToSet(hand[s]) : x.session = s
                        /\ dropped[s] = Cardinality({x \in lost : x.session = s})
  BY DEF Order, Home, Waiting, Account, DropsCounted
<1>6. ASSUME NEW h \in Handlers, NEW k \in 1..MaxFrames
      PROVE  Cardinality({x \in Everywhere : x.from = h /\ x.seq = k})
                = IF k <= sent[h] THEN 1 ELSE 0
  <2> DEFINE S == {x \in All : x.from = h /\ x.seq = k}
  <2>0. sent[h] \in Nat /\ k \in Nat \ {0}
    BY ReceptionConstants DEF TypeOK
  <2>1. CASE k <= sent[h]
    <3>1. PICK x \in All : Is(x, h, k)
      BY <2>0, <2>1 DEF Account, EachOnce
    <3>2. S = {x}
      BY <3>1 DEF Account, EachOnce, Is
    <3>3. Cardinality(S) = 1
      BY <3>2, FS_Singleton
    <3> QED
      BY <1>1, <2>1, <3>3
  <2>2. CASE ~(k <= sent[h])
    <3>1. S = {}
      BY <2>2 DEF Account, EachOnce
    <3>2. Cardinality(S) = 0
      BY <3>1, FS_EmptySet
    <3> QED
      BY <1>1, <2>2, <3>2
  <2> QED
    BY <2>1, <2>2
<1> QED
  BY <1>2, <1>3, <1>4, <1>5, <1>6 DEF Conservation

(* Each message that a handler has received is in one place, once: with    *)
(* the handler, in the inbox of its session, with that inbox's forwarder,  *)
(* in the common channel, read, or dropped and counted.                    *)
THEOREM NothingLost == Spec => []Conservation
  BY Accounted, Conserved, PTL

-----------------------------------------------------------------------------
(* The reader of the metric.  What it has added up are the drops of the    *)
(* inboxes that it has come to; those of the moment of the call are among  *)
(* them, or in inboxes still to come.                                      *)

InboxKnown ==
    /\ \A h \in Handlers : pc[h] = "offer" => msg[h].session \in inboxes
    /\ \A x \in lost : x.session \in inboxes

Summed ==
    summing =>
        \E atCall, added \in SUBSET lost :
            /\ Cardinality(atCall) = floor /\ Cardinality(added) = total
            /\ \A x \in atCall : x \in added \/ x.session \in left
            /\ \A x \in added : x.session \notin left

(* The steps of MetricsNext are steps of Reception, or leave it alone.     *)
LEMMA MetricsStep == [MetricsNext]_allVars => [Next]_vars
  BY DEF MetricsNext, Reader, TotalDropped, Add, Return, NeedsMu, NeedsNoMu, allVars, Next

(* The reader of the metric disturbs nothing: all that is proved of        *)
(* Reception holds with it.                                                *)
THEOREM KeepsToReception == MetricsSpec => Spec
<1>1. MetricsSpec => MetricsInit /\ [][MetricsNext]_allVars
  BY DEF MetricsSpec
<1>2. MetricsInit => Init
  BY DEF MetricsInit
<1> QED
  BY <1>1, <1>2, MetricsStep, PTL DEF Spec

LEMMA InboxKnownNext ==
  TypeOK /\ InboxKnown /\ [Next]_vars => InboxKnown'
<1> SUFFICES ASSUME TypeOK, InboxKnown, [Next]_vars PROVE InboxKnown'
  OBVIOUS
<1>1. ASSUME NEW h \in Handlers, NEW s \in Sessions, Lookup(h, s) PROVE InboxKnown'
  <2>1. /\ inboxes' = inboxes \cup {s} /\ lost' = lost
        /\ msg'[h].session = s
        /\ \A g \in Handlers \ {h} : pc'[g] = pc[g] /\ msg'[g] = msg[g]
    BY <1>1 DEF Lookup, TypeOK, history
  <2> QED
    BY <2>1 DEF InboxKnown
<1>2. ASSUME NEW h \in Handlers, Deliver(h) PROVE InboxKnown'
  <2>1. /\ inboxes' = inboxes /\ pc'[h] # "offer"
        /\ \A g \in Handlers \ {h} : pc'[g] = pc[g] /\ msg'[g] = msg[g]
        /\ lost' = lost \/ (pc[h] = "offer" /\ lost' = lost \cup {msg[h]})
    BY <1>2 DEF Deliver, Accept, Drop, Hook, TypeOK, inboxVars, history
  <2> QED
    BY <2>1 DEF InboxKnown
<1>3. ASSUME UNCHANGED <<inboxes, pc, msg, lost>> PROVE InboxKnown'
  BY <1>3 DEF InboxKnown
<1>4. ASSUME \/ \E s \in Sessions : Take(s) \/ PutSome(s)
             \/ Received \/ Consume \/ UNCHANGED vars
      PROVE  UNCHANGED <<inboxes, pc, msg, lost>>
  BY <1>4 DEF Take, PutSome, Put, Received, Consume, vars, deliverVars, inboxVars, history
<1> QED
  BY <1>1, <1>2, <1>3, <1>4 DEF Next

LEMMA InboxKnownInv == Spec => []InboxKnown
<1>1. Init => InboxKnown
  BY DEF Init, InboxKnown
<1> QED
  BY <1>1, InboxKnownNext, TypeCorrect, PTL DEF Spec

(* Drops are never taken back. *)
LEMMA LostGrows == ASSUME [Next]_vars PROVE lost \subseteq lost'
  BY DEF Next, Deliver, Accept, Drop, Hook, Lookup, Take, PutSome, Put, Received, Consume,
         vars, history

LEMMA SummedNext ==
  Account /\ InboxKnown /\ Summed /\ [MetricsNext]_allVars => Summed'
<1> SUFFICES ASSUME Account, InboxKnown, Summed, [MetricsNext]_allVars PROVE Summed'
  OBVIOUS
<1>1. CASE TotalDropped
  <2>1. /\ lost' = lost /\ left' = inboxes
        /\ floor' = Cardinality(lost) /\ total' = 0
    BY <1>1 DEF TotalDropped, Zero, vars, history
  <2>2. Cardinality({}) = 0
    BY FS_EmptySet
  <2>3. /\ lost \in SUBSET lost' /\ {} \in SUBSET lost'
        /\ \A x \in lost : x \in {} \/ x.session \in left'
    BY <2>1 DEF InboxKnown
  <2> QED
    BY <2>1, <2>2, <2>3 DEF Summed
<1>2. ASSUME NEW s \in Sessions, Add(s) PROVE Summed'
  <2> SUFFICES ASSUME summing
               PROVE  \E atCall, added \in SUBSET lost' :
                        /\ Cardinality(atCall) = floor' /\ Cardinality(added) = total'
                        /\ \A x \in atCall : x \in added \/ x.session \in left'
                        /\ \A x \in added : x.session \notin left'
    BY <1>2 DEF Add, Summed
  <2>1. PICK A, B \in SUBSET lost :
          /\ Cardinality(A) = floor /\ Cardinality(B) = total
          /\ \A x \in A : x \in B \/ x.session \in left
          /\ \A x \in B : x.session \notin left
    BY DEF Summed
  <2>2. /\ s \in left /\ left' = left \ {s} /\ total' = total + dropped[s]
        /\ floor' = floor /\ lost' = lost
    BY <1>2 DEF Add, vars, history
  <2> DEFINE L == {x \in lost : x.session = s}
  <2>3. /\ IsFiniteSet(L) /\ IsFiniteSet(B) /\ Cardinality(L) = dropped[s]
        /\ B \cap L = {}
    BY <2>1, <2>2, FS_Subset DEF Account, DropsCounted
  <2>4. Cardinality(B \cup L) = Cardinality(B) + Cardinality(L)
    <3>1. Cardinality(B \cap L) = 0 /\ Cardinality(B) \in Nat /\ Cardinality(L) \in Nat
      BY <2>3, FS_EmptySet, FS_CardinalityType
    <3>2. Cardinality(B \cup L) = Cardinality(B) + Cardinality(L) - Cardinality(B \cap L)
      BY <2>3, FS_Union
    <3> QED
      BY <3>1, <3>2
  <2>5. Cardinality(B \cup L) = total'
    BY <2>1, <2>2, <2>3, <2>4
  <2>6. \A x \in A : x \in B \cup L \/ x.session \in left'
    BY <2>1, <2>2
  <2>7. \A x \in B \cup L : x.session \notin left'
    BY <2>1, <2>2
  <2>8. A \in SUBSET lost' /\ B \cup L \in SUBSET lost'
    BY <2>2
  <2> QED
    BY <2>1, <2>2, <2>5, <2>6, <2>7, <2>8
<1>3. CASE Return
  BY <1>3 DEF Return, Summed
<1>4. ASSUME UNCHANGED reader, [Next]_vars PROVE Summed'
  <2>1. lost \subseteq lost'
    BY <1>4, LostGrows
  <2>2. UNCHANGED <<summing, left, total, floor>>
    BY <1>4 DEF reader
  <2> SUFFICES ASSUME summing
               PROVE  \E atCall, added \in SUBSET lost' :
                        /\ Cardinality(atCall) = floor /\ Cardinality(added) = total
                        /\ \A x \in atCall : x \in added \/ x.session \in left
                        /\ \A x \in added : x.session \notin left
    BY <2>2 DEF Summed
  <2> QED
    BY <2>1 DEF Summed
<1>5. Reader \/ UNCHANGED reader
  BY DEF MetricsNext, allVars
<1> QED
  BY <1>1, <1>2, <1>3, <1>4, <1>5, MetricsStep DEF Reader

(* The sum that TotalDropped returns lies between the number of drops at   *)
(* its call and the number at its return, although the counters grow while *)
(* it adds them.                                                           *)
THEOREM TotalIsTrue == MetricsSpec => []TotalWasTrue
<1>1. MetricsInit => Summed
  BY DEF MetricsInit, Summed
<1>2. MetricsSpec => MetricsInit /\ [][MetricsNext]_allVars
  BY DEF MetricsSpec
<1>3. Account /\ Summed => TotalWasTrue
  <2> SUFFICES ASSUME Account, Summed, summing, left = {}
               PROVE  floor <= total /\ total <= Cardinality(lost)
    BY DEF TotalWasTrue
  <2>1. PICK A, B \in SUBSET lost :
          /\ Cardinality(A) = floor /\ Cardinality(B) = total
          /\ \A x \in A : x \in B \/ x.session \in left
    BY DEF Summed
  <2>2. A \in SUBSET B /\ IsFiniteSet(B) /\ IsFiniteSet(lost)
    BY <2>1, FS_Subset DEF Account, DropsCounted
  <2>3. Cardinality(A) <= Cardinality(B) /\ Cardinality(B) <= Cardinality(lost)
    BY <2>2, FS_Subset
  <2> QED
    BY <2>1, <2>3
<1> QED
  BY <1>1, <1>2, <1>3, SummedNext, KeepsToReception, Accounted, InboxKnownInv, PTL

-----------------------------------------------------------------------------
(* The abstract queues.  A message enters its session's queue when it goes *)
(* into the inbox, and stays in it when the forwarder takes it.            *)

LEMMA AppendToQueue ==
  ASSUME NEW p \in Seq(Message), NEW q \in Seq(Message), NEW x \in Message
  PROVE  p \o Append(q, x) = Append(p \o q, x)
<1>1. <<x>> \in Seq(Message)
  OBVIOUS
<1>2. Append(q, x) = q \o <<x>> /\ Append(p \o q, x) = (p \o q) \o <<x>>
  BY AppendIsConcat, ConcatProperties
<1> QED
  BY <1>1, <1>2, ConcatAssociative

LEMMA QueueOps ==
  ASSUME NEW p \in Seq(Message), NEW q \in Seq(Message), NEW x \in Message
  PROVE  /\ q # <<>> => Append(p, Head(q)) \o Tail(q) = p \o q
         /\ <<x>> \o q # <<>> /\ Head(<<x>> \o q) = x /\ Tail(<<x>> \o q) = q
         /\ <<>> \o q = q
<1>1. ASSUME NEW y \in Message PROVE <<y>> \in Seq(Message) /\ Len(<<y>>) = 1 /\ <<y>>[1] = y
  OBVIOUS
<1>2. ASSUME NEW y \in Message
      PROVE  <<y>> \o q # <<>> /\ Head(<<y>> \o q) = y /\ Tail(<<y>> \o q) = q
  <2> DEFINE r == <<y>> \o q
  <2>1. /\ r \in Seq(Message) /\ Len(r) = 1 + Len(q) /\ Len(q) \in Nat
        /\ \A i \in 1..(1 + Len(q)) : r[i] = IF i <= 1 THEN <<y>>[i] ELSE q[i - 1]
    BY <1>1, ConcatProperties, LenProperties
  <2>2. r # <<>>
    BY <2>1, EmptySeq
  <2> HIDE DEF r
  <2>3. r[1] = y /\ \A i \in 1..Len(q) : r[i + 1] = q[i]
    BY <1>1, <2>1
  <2>4. Head(r) = y
    BY <2>1, <2>2, <2>3
  <2>5. /\ Tail(r) \in Seq(Message) /\ Len(Tail(r)) = Len(q)
        /\ \A i \in 1..Len(q) : Tail(r)[i] = r[i + 1]
    BY <2>1, <2>2, HeadTailProperties
  <2>6. Tail(r) = q
    BY <2>3, <2>5, SeqEqual
  <2> QED
    BY <2>2, <2>4, <2>6 DEF r
<1>3. ASSUME q # <<>> PROVE Append(p, Head(q)) \o Tail(q) = p \o q
  <2>1. Head(q) \in Message /\ Tail(q) \in Seq(Message) /\ Head(q) = q[1]
        /\ Len(q) \in Nat \ {0} /\ Len(Tail(q)) = Len(q) - 1
        /\ \A i \in 1..(Len(q) - 1) : Tail(q)[i] = q[i + 1]
    BY <1>3, HeadTailProperties, LenProperties, EmptySeq
  <2>2. Append(p, Head(q)) = p \o <<Head(q)>>
    BY <2>1, AppendIsConcat
  <2>3. <<Head(q)>> \o Tail(q) = q
    <3> DEFINE r == <<Head(q)>> \o Tail(q)
    <3>1. /\ r \in Seq(Message) /\ Len(r) = 1 + Len(Tail(q))
          /\ \A i \in 1..(1 + Len(Tail(q))) :
                r[i] = IF i <= 1 THEN <<Head(q)>>[i] ELSE Tail(q)[i - 1]
      BY <1>1, <2>1, ConcatProperties
    <3> HIDE DEF r
    <3>2. Len(r) = Len(q)
      BY <2>1, <3>1
    <3>3. ASSUME NEW i \in 1..Len(q) PROVE r[i] = q[i]
      <4>1. CASE i = 1
        BY <1>1, <2>1, <3>1, <4>1
      <4>2. CASE i # 1
        <5>1. /\ i \in 1..(1 + Len(Tail(q))) /\ ~(i <= 1)
              /\ i - 1 \in 1..(Len(q) - 1) /\ (i - 1) + 1 = i
          BY <2>1, <4>2
        <5>2. r[i] = Tail(q)[i - 1]
          BY <3>1, <5>1
        <5>3. Tail(q)[i - 1] = q[(i - 1) + 1]
          BY <2>1, <5>1
        <5> QED
          BY <5>1, <5>2, <5>3
      <4> QED
        BY <4>1, <4>2
    <3>4. r = q
      BY <3>1, <3>2, <3>3, SeqEqual
    <3> QED
      BY <3>4 DEF r
  <2>4. (p \o <<Head(q)>>) \o Tail(q) = p \o (<<Head(q)>> \o Tail(q))
    BY <1>1, <2>1, ConcatAssociative
  <2> QED
    BY <2>2, <2>3, <2>4
<1> QED
  BY <1>2, <1>3, ConcatEmptySeq

(* A step that changes no queue but that of s. *)
LEMMA QueueChanges ==
  ASSUME NEW s \in Sessions, NEW r,
         \A t \in Sessions : t # s => ch'[t] = ch[t] /\ hand'[t] = hand[t],
         Queued(s)' = r
  PROVE  [t \in Sessions |-> Queued(t)]' = [[t \in Sessions |-> Queued(t)] EXCEPT ![s] = r]
BY DEF Queued

LEMMA QueuesKept ==
  ASSUME UNCHANGED <<hand, ch, out, dropped>>
  PROVE  UNCHANGED Fifo!vars
BY DEF Fifo!vars, Queued

LEMMA FifoAccept ==
  ASSUME TypeOK, NEW h \in Handlers, Accept(h)
  PROVE  Fifo!Next
<1>1. msg[h] \in Message /\ msg[h].session \in Sessions
  BY DEF Accept, TypeOK, Message
<1> PICK m \in Message : m = msg[h]
  BY <1>1
<1> PICK s \in Sessions : s = m.session
  BY <1>1
<1>2. /\ ch'[s] = Append(ch[s], m) /\ \A t \in Sessions : t # s => ch'[t] = ch[t]
      /\ hand' = hand /\ out' = out /\ dropped' = dropped
      /\ ch[s] \in Seq(Message) /\ hand[s] \in Seq(Message)
  BY DEF Accept, TypeOK, faninVars
<1>3. Queued(s)' = Append(Queued(s), m)
  <2>1. hand[s] \o Append(ch[s], m) = Append(hand[s] \o ch[s], m)
    BY <1>2, AppendToQueue
  <2> QED
    BY <1>2, <2>1 DEF Queued
<1>4. Fifo!Enqueue(s, m)
  <2>1. [u \in Sessions |-> Queued(u)]'
          = [[u \in Sessions |-> Queued(u)] EXCEPT ![s] = Append(Queued(s), m)]
    <3>1. \A t \in Sessions : t # s => ch'[t] = ch[t] /\ hand'[t] = hand[t]
      BY <1>2
    <3> HIDE DEF Queued
    <3> QED
      BY <3>1, <1>3, QueueChanges
  <2>2. [u \in Sessions |-> Queued(u)][s] = Queued(s)
    OBVIOUS
  <2> QED
    BY <1>2, <2>1, <2>2 DEF Fifo!Enqueue
<1> QED
  BY <1>4 DEF Fifo!Next

(* deliver refuses only what finds its own session's inbox full. *)
LEMMA FifoDrop ==
  ASSUME TypeOK, NEW h \in Handlers, Drop(h)
  PROVE  Fifo!Next
<1>1. msg[h] \in Message /\ msg[h].session \in Sessions
  BY DEF Drop, TypeOK, Message
<1> PICK s \in Sessions : s = msg[h].session
  BY <1>1
<1>2. /\ dropped' = [dropped EXCEPT ![s] = @ + 1] /\ UNCHANGED <<hand, ch, out>>
      /\ ~(Len(ch[s]) < InboxCap)
      /\ ch[s] \in Seq(Message) /\ hand[s] \in Seq(Message)
  BY DEF Drop, TypeOK, faninVars, HasRoom
<1>3. Len(Queued(s)) >= InboxCap
  <2>1. /\ Len(Queued(s)) = Len(hand[s]) + Len(ch[s])
        /\ Len(hand[s]) \in Nat /\ Len(ch[s]) \in Nat
    BY <1>2, ConcatProperties, LenProperties DEF Queued
  <2>2. \A a, b, c \in Nat : ~(b < c) => a + b >= c
    OBVIOUS
  <2> QED
    BY <1>2, <2>1, <2>2, ReceptionConstants
<1>4. [t \in Sessions |-> Queued(t)]' = [t \in Sessions |-> Queued(t)]
  BY <1>2 DEF Queued
<1>5. Fifo!Refuse(s)
  BY <1>2, <1>3, <1>4 DEF Fifo!Refuse
<1> QED
  BY <1>5 DEF Fifo!Next

LEMMA FifoTake ==
  ASSUME TypeOK, NEW s \in Sessions, Take(s)
  PROVE  UNCHANGED Fifo!vars
<1> PICK x \in Message : x = Head(ch[s])
  BY TailSorted DEF Take, TypeOK
<1>1. /\ ch'[s] = Tail(ch[s]) /\ hand'[s] = Append(hand[s], Head(ch[s])) /\ ch[s] # <<>>
      /\ \A t \in Sessions : t # s => ch'[t] = ch[t] /\ hand'[t] = hand[t]
      /\ out' = out /\ dropped' = dropped
      /\ ch[s] \in Seq(Message) /\ hand[s] \in Seq(Message)
  BY DEF Take, TypeOK
<1>2. Queued(s)' = Queued(s)
  <2>1. Append(hand[s], Head(ch[s])) \o Tail(ch[s]) = hand[s] \o ch[s]
    BY <1>1, QueueOps
  <2> QED
    BY <1>1, <2>1 DEF Queued
<1>3. [t \in Sessions |-> Queued(t)]' = [t \in Sessions |-> Queued(t)]
  <2>1. \A t \in Sessions : Queued(t)' = Queued(t)
    BY <1>1, <1>2 DEF Queued
  <2> QED
    BY <2>1
<1> QED
  BY <1>1, <1>3 DEF Fifo!vars

LEMMA FifoPut ==
  ASSUME TypeOK, Forwarding, NEW s \in Sessions, NEW i \in 1..Len(hand[s]), Put(s, i)
  PROVE  Fifo!Next
<1>1. /\ hand[s] \in Seq(Message) /\ ch[s] \in Seq(Message)
      /\ Len(hand[s]) <= 1 /\ Len(hand[s]) = 1 /\ i = 1
  <2>1. /\ Len(hand[s]) \in Nat /\ Len(hand[s]) <= forwarders[s] /\ forwarders[s] \in {0, 1}
    BY LenProperties DEF TypeOK, Forwarding, OneForwarder, HandOK
  <2>2. \A k \in Nat : k <= 1 => \A j \in 1..k : k = 1 /\ j = 1
    OBVIOUS
  <2>3. Len(hand[s]) <= 1
    BY <2>1
  <2> QED
    BY <2>1, <2>2, <2>3 DEF TypeOK
<1>2. hand[s][i] \in Message /\ RemoveAt(hand[s], i) = <<>>
  BY <1>1, HandEmptied
<1> PICK x \in Message : x = hand[s][i]
  BY <1>2
<1>3. hand[s] = <<x>>
  <2>1. <<x>> \in Seq(Message) /\ Len(<<x>>) = 1 /\ <<x>>[1] = x
    OBVIOUS
  <2>2. \A j \in 1..Len(hand[s]) : hand[s][j] = <<x>>[j]
    BY <1>1, <2>1
  <2> QED
    BY <1>1, <2>1, <2>2, SeqEqual
<1>4. /\ hand'[s] = <<>> /\ out' = Append(out, x)
      /\ ch' = ch /\ \A t \in Sessions : t # s => hand'[t] = hand[t]
      /\ dropped' = dropped
  BY <1>2 DEF Put, inboxVars, TypeOK
<1>5. /\ Queued(s) # <<>> /\ Head(Queued(s)) = x /\ Tail(Queued(s)) = ch[s]
      /\ Queued(s)' = ch[s]
  BY <1>1, <1>3, <1>4, QueueOps DEF Queued
<1>6. Fifo!Merge(s)
  BY <1>4, <1>5, QueueChanges DEF Fifo!Merge
<1> QED
  BY <1>6 DEF Fifo!Next

LEMMA FifoStep == TypeOK /\ Forwarding /\ [Next]_vars => [Fifo!Next]_(Fifo!vars)
<1> SUFFICES ASSUME TypeOK, Forwarding, [Next]_vars
             PROVE  Fifo!Next \/ UNCHANGED Fifo!vars
  OBVIOUS
<1>1. ASSUME NEW h \in Handlers, Hook(h) \/ \E s \in Sessions : Lookup(h, s)
      PROVE  UNCHANGED Fifo!vars
  <2>1. UNCHANGED <<hand, ch, out, dropped>>
    BY <1>1 DEF Hook, Lookup, inboxVars, faninVars
  <2> QED
    BY <2>1, QueuesKept
<1>2. ASSUME Received \/ UNCHANGED vars PROVE UNCHANGED Fifo!vars
  <2>1. UNCHANGED <<hand, ch, out, dropped>>
    BY <1>2 DEF Received, vars, inboxVars, faninVars
  <2> QED
    BY <2>1, QueuesKept
<1>3. ASSUME Consume PROVE Fifo!Next
  <2>1. out # <<>> /\ out' = Tail(out) /\ UNCHANGED <<hand, ch, dropped>>
    BY <1>3 DEF Consume, inboxVars
  <2>2. [t \in Sessions |-> Queued(t)]' = [t \in Sessions |-> Queued(t)]
    BY <2>1 DEF Queued
  <2>3. Fifo!Read
    BY <2>1, <2>2 DEF Fifo!Read
  <2> QED
    BY <2>3 DEF Fifo!Next
<1> QED
  BY <1>1, <1>2, <1>3, FifoAccept, FifoDrop, FifoTake, FifoPut DEF Next, Deliver, PutSome

(* Each session has a FIFO queue of its own, made of its inbox and of what *)
(* its forwarder holds, that refuses a message only while it is full       *)
(* itself, whatever the other sessions do.                                 *)
THEOREM LossyFifosImplemented == Spec => ImplementsLossyFifos
<1>1. Init => Fifo!Init
  BY QueueOps, EmptySeq DEF Init, Fifo!Init, Queued
<1> QED
  BY <1>1, FifoStep, TypeCorrect, ForwardingInv, PTL
     DEF Spec, ImplementsLossyFifos, Fifo!Spec

=============================================================================
