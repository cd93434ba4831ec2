------------------------ MODULE SessionRegistryProofs ------------------------
(***************************************************************************)
(* Proofs about SessionRegistry, for any sets of sessions, streams and     *)
(* pushers and any capacity of the streams.                                *)
(***************************************************************************)
EXTENDS SessionRegistry, SequenceTheorems, TLAPS

USE DEF Threads, Free, AfterRecv, Ended, Noted, Taken, Doomed

-----------------------------------------------------------------------------
(* Types, and what the local variables hold at each label.                 *)

(* A goroutine inside conn.send works on a conn, for a session that was    *)
(* recorded in that conn's `mine'; a handler works on its own conn.        *)
LocalsOK ==
    /\ \A st \in Streams :
         /\ peer[st] = "none" => pc[st] = "unborn"
         /\ pc[st] = "unborn" => mine[st] = {}
         /\ pc[st] # "unborn" => conn[st] = st
         /\ pc[st] = "register" => sid[st] \in Sessions
         /\ pc[st] \in {"renew", "lock", "send"} => sid[st] \in mine[st]
    /\ \A p \in Pushers :
         pc[p] \in {"lock", "send"} =>
            conn[p] \in Streams /\ sid[p] \in mine[conn[p]]

(* The converse of deregister: what the map holds is in the `mine' of the  *)
(* conn it points to, and that conn's handler has not returned.            *)
RouteOwned ==
    \A s \in Sessions :
        sessions[s] # NoConn => /\ s \in mine[sessions[s]]
                                /\ Alive(sessions[s])

LockHeld == \A t \in Threads : pc[t] = "send" => sendMu[conn[t]] = t

IInv == TypeOK /\ LocalsOK /\ RouteOwned

LEMMA InitIInv == Init => IInv
<1> SUFFICES ASSUME Init PROVE IInv
  OBVIOUS
<1>1. TypeOK
  BY ConstantsAssumption DEF Init, TypeOK, HandlerPC, PusherPC
<1>2. LocalsOK /\ RouteOwned
  BY ConstantsAssumption DEF Init, LocalsOK, RouteOwned
<1> QED
  BY <1>1, <1>2 DEF IInv

(* Appending to a queue keeps its type. *)
LEMMA AppendType ==
  ASSUME NEW S, NEW q \in [Streams -> Seq(S)], NEW st \in Streams, NEW e \in S
  PROVE  [q EXCEPT ![st] = Append(@, e)] \in [Streams -> Seq(S)]
  BY AppendProperties

(* Taking the first element of a queue keeps its type. *)
LEMMA TailType ==
  ASSUME NEW S, NEW q \in [Streams -> Seq(S)], NEW st \in Streams,
         q[st] # <<>>
  PROVE  /\ [q EXCEPT ![st] = Tail(@)] \in [Streams -> Seq(S)]
         /\ Head(q[st]) \in S
  BY HeadTailProperties

(* So does emptying one. *)
LEMMA EmptyType ==
  ASSUME NEW S, NEW q \in [Streams -> Seq(S)], NEW st \in Streams
  PROVE  [q EXCEPT ![st] = <<>>] \in [Streams -> Seq(S)]
  BY EmptySeq

(* conn.send by a goroutine that is inside it keeps the queues typed.      *)
LEMMA SendType ==
  ASSUME IInv, NEW t \in Threads, pc[t] = "send",
         SendAccepted(t) \/ SendRefused(t)
  PROVE  /\ conn[t] \in Streams
         /\ sid[t] \in mine[conn[t]]
         /\ sid[t] \in Sessions
         /\ down' \in [Streams -> Seq(Sessions)]
<1>1. conn[t] \in Streams /\ sid[t] \in mine[conn[t]]
  BY DEF IInv, LocalsOK
<1>2. sid[t] \in Sessions
  BY <1>1 DEF IInv, TypeOK
<1>3. [down EXCEPT ![conn[t]] = Append(@, sid[t])] \in [Streams -> Seq(Sessions)]
  BY <1>1, <1>2, AppendType DEF IInv, TypeOK
<1>4. down' \in [Streams -> Seq(Sessions)]
  BY <1>3 DEF IInv, TypeOK, SendAccepted, SendRefused
<1> QED
  BY <1>1, <1>2, <1>4

LEMMA NextIInv == IInv /\ [Next]_vars => IInv'
<1> SUFFICES ASSUME IInv, [Next]_vars PROVE IInv'
  OBVIOUS
<1> USE ConstantsAssumption DEF IInv, TypeOK, GoTo, Alive, HandlerPC, PusherPC
<1>1. ASSUME NEW st \in Streams, Open(st) PROVE IInv'
  BY <1>1 DEF Open, LocalsOK, RouteOwned
<1>2. ASSUME NEW st \in Streams, NEW s \in Sessions \cup {NoSession},
             EdgeSend(st, s)
      PROVE  IInv'
  <2>1. up' \in [Streams -> Seq(Sessions \cup {NoSession})]
    BY <1>2, AppendType DEF EdgeSend
  <2> QED
    BY <1>2, <2>1 DEF EdgeSend, LocalsOK, RouteOwned
<1>3. ASSUME NEW st \in Streams, EdgeRecv(st) PROVE IInv'
  <2>1. down' \in [Streams -> Seq(Sessions)]
    BY <1>3, TailType DEF EdgeRecv
  <2> QED
    BY <1>3, <2>1 DEF EdgeRecv, LocalsOK, RouteOwned
<1>4. ASSUME NEW st \in Streams, EdgeClose(st) \/ Break(st) PROVE IInv'
  <2>1. CASE EdgeClose(st)
    BY <2>1 DEF EdgeClose, LocalsOK, RouteOwned
  <2>2. CASE Break(st)
    <3>1. down' \in [Streams -> Seq(Sessions)]
      BY <2>2, EmptyType DEF Break
    <3> QED
      BY <2>2, <3>1 DEF Break, LocalsOK, RouteOwned
  <2> QED
    BY <1>4, <2>1, <2>2
<1>5. ASSUME NEW t \in Threads, LockSend(t) PROVE IInv'
  <2>1. conn[t] \in Streams
    <3>1. t \in Streams => conn[t] = t
      BY <1>5 DEF LockSend, LocalsOK
    <3>2. t \in Pushers => conn[t] \in Streams
      BY <1>5 DEF LockSend, LocalsOK
    <3> QED
      BY <3>1, <3>2
  <2>2. TypeOK'
    BY <1>5, <2>1 DEF LockSend
  <2>3. LocalsOK'
    <3>1. CASE t \in Streams
      BY <1>5, <3>1 DEF LockSend, LocalsOK
    <3>2. CASE t \in Pushers
      BY <1>5, <3>2 DEF LockSend, LocalsOK
    <3> QED
      BY <3>1, <3>2
  <2>4. RouteOwned'
    BY <1>5 DEF LockSend, RouteOwned
  <2> QED
    BY <2>2, <2>3, <2>4
<1>6. ASSUME NEW st \in Streams, RecvFrame(st) PROVE IInv'
  <2>1. /\ up' \in [Streams -> Seq(Sessions \cup {NoSession})]
        /\ Head(up[st]) \in Sessions \cup {NoSession}
    BY <1>6, TailType DEF RecvFrame
  <2> QED
    BY <1>6, <2>1 DEF RecvFrame, LocalsOK, RouteOwned
<1>7. ASSUME NEW st \in Streams, RecvEnd(st) PROVE IInv'
  <2>1. up' \in [Streams -> Seq(Sessions \cup {NoSession})]
    BY <1>7, EmptyType DEF RecvEnd
  <2> QED
    BY <1>7, <2>1 DEF RecvEnd, LocalsOK, RouteOwned
<1>8. ASSUME NEW st \in Streams, Register(st) PROVE IInv'
  <2>1. sid[st] \in Sessions /\ conn[st] = st /\ pc[st] = "register"
    BY <1>8 DEF Register, LocalsOK
  <2>2. TypeOK'
    BY <1>8, <2>1 DEF Register
  <2>3. LocalsOK'
    BY <1>8, <2>1 DEF Register, LocalsOK
  <2>4. RouteOwned'
    BY <1>8, <2>1 DEF Register, RouteOwned
  <2> QED
    BY <2>2, <2>3, <2>4
<1>9. ASSUME NEW st \in Streams, SkipRenewal(st) \/ RenewLease(st) PROVE IInv'
  <2>1. CASE SkipRenewal(st)
    BY <2>1 DEF SkipRenewal, LocalsOK, RouteOwned
  <2>2. CASE RenewLease(st)
    BY <2>2 DEF RenewLease, LocalsOK, RouteOwned
  <2> QED
    BY <1>9, <2>1, <2>2
<1>10. ASSUME NEW st \in Streams, SendLease(st) PROVE IInv'
  <2>1. conn[st] = st /\ down' \in [Streams -> Seq(Sessions)]
    BY <1>10, SendType DEF SendLease, LocalsOK
  <2>2. TypeOK'
    <3>1. /\ sendMu' \in [Streams -> Threads \cup {NoThread}]
          /\ UNCHANGED <<sessions, mine, conn, sid, peer, up>>
      BY <1>10, <2>1 DEF SendLease, Unlock
    <3>2. /\ pc' \in [Threads -> HandlerPC \cup PusherPC]
          /\ \A s2 \in Streams : pc'[s2] \in HandlerPC
          /\ \A p \in Pushers : pc'[p] \in PusherPC
      BY <1>10 DEF SendLease
    <3> QED
      BY <2>1, <3>1, <3>2
  <2>3. LocalsOK' /\ RouteOwned'
    BY <1>10 DEF SendLease, LocalsOK, RouteOwned
  <2> QED
    BY <2>2, <2>3
<1>11. ASSUME NEW st \in Streams, Deliver(st) PROVE IInv'
  BY <1>11 DEF Deliver, LocalsOK, RouteOwned
<1>12. ASSUME NEW st \in Streams, Deregister(st) PROVE IInv'
  BY <1>12 DEF Deregister, LocalsOK, RouteOwned
<1>13. ASSUME NEW p \in Pushers, NEW s \in Sessions,
              PushLookup(p, s) \/ PushUnknown(p, s)
       PROVE  IInv'
  <2>1. CASE PushLookup(p, s)
    <3>1. sessions[s] \in Streams /\ s \in mine[sessions[s]]
      BY <2>1 DEF PushLookup, RouteOwned
    <3>2. TypeOK'
      BY <2>1, <3>1 DEF PushLookup
    <3>3. LocalsOK' /\ RouteOwned'
      BY <2>1, <3>1 DEF PushLookup, LocalsOK, RouteOwned
    <3> QED
      BY <3>2, <3>3
  <2>2. CASE PushUnknown(p, s)
    BY <2>2 DEF PushUnknown, LocalsOK, RouteOwned
  <2> QED
    BY <1>13, <2>1, <2>2
<1>14. ASSUME NEW p \in Pushers, PushSend(p) PROVE IInv'
  <2>1. conn[p] \in Streams /\ down' \in [Streams -> Seq(Sessions)]
    BY <1>14, SendType DEF PushSend, LocalsOK
  <2>2. PICK label \in {"idle", "failed"} : pc' = [pc EXCEPT ![p] = label]
    BY <1>14 DEF PushSend
  <2>3. pc' \in [Threads -> HandlerPC \cup PusherPC]
    BY <2>2
  <2>4. TypeOK'
    <3>1. sendMu' \in [Streams -> Threads \cup {NoThread}]
      BY <1>14 DEF PushSend, Unlock
    <3>2. /\ \A st \in Streams : pc'[st] \in HandlerPC
          /\ \A q \in Pushers : pc'[q] \in PusherPC
      BY <2>2
    <3> QED
      BY <1>14, <2>1, <2>3, <3>1, <3>2 DEF PushSend
  <2>5. LocalsOK' /\ RouteOwned'
    BY <1>14, <2>2 DEF PushSend, LocalsOK, RouteOwned
  <2> QED
    BY <2>4, <2>5
<1>15. CASE UNCHANGED vars
  BY <1>15 DEF vars, LocalsOK, RouteOwned
<1> QED
  BY <1>1, <1>2, <1>3, <1>4, <1>5, <1>6, <1>7, <1>8, <1>9, <1>10, <1>11,
     <1>12, <1>13, <1>14, <1>15 DEF Next, Edge, Handler, Pusher

(* The locals and the map are as IInv says in every reachable state. *)
LEMMA Inductive == Spec => []IInv
  BY InitIInv, NextIInv, PTL DEF Spec

(* Every variable keeps its type. *)
THEOREM TypeCorrect == Spec => []TypeOK
  BY Inductive, PTL DEF IInv

(* H1: the map never points to a conn whose handler has returned, whatever *)
(* the interleaving of register, deregister and the cut of the streams.    *)
THEOREM NoZombie == Spec => []NoZombieRoute
<1>1. IInv => NoZombieRoute
  BY DEF IInv, RouteOwned, NoZombieRoute
<1> QED
  BY <1>1, Inductive, PTL

-----------------------------------------------------------------------------
(* Steps, seen from the map, from `mine' and from the set of ended conns.  *)

(* The map, the sets `mine' and the set of live handlers change in Open,   *)
(* Register and Deregister only.                                           *)
Unmoved == /\ UNCHANGED <<sessions, mine>>
           /\ \A st \in Streams :
                 /\ pc[st] = "returned" <=> pc'[st] = "returned"
                 /\ Alive(st)' <=> Alive(st)

LEMMA MapSteps ==
  ASSUME IInv, [Next]_vars
  PROVE  \/ Unmoved
         \/ \E st \in Streams : Open(st) \/ Register(st) \/ Deregister(st)
<1> USE ConstantsAssumption
    DEF IInv, TypeOK, GoTo, HandlerPC, PusherPC, Alive, Unmoved
<1> DEFINE Quiet(t, from, to) ==
             /\ UNCHANGED <<sessions, mine>>
             /\ pc[t] \in from
             /\ \E label \in to : pc' = [pc EXCEPT ![t] = label]
<1> DEFINE Running == {"recv", "register", "renew", "lock", "send", "deliver"}
<1>2. ASSUME NEW st \in Streams,
             \/ RecvFrame(st) \/ RecvEnd(st) \/ SkipRenewal(st)
             \/ RenewLease(st) \/ SendLease(st) \/ Deliver(st) \/ LockSend(st)
      PROVE  Quiet(st, Running, Running \cup {"deregister"})
  <2>1. CASE RecvFrame(st)
    BY <2>1 DEF RecvFrame
  <2>2. CASE RecvEnd(st) \/ Deliver(st)
    BY <2>2 DEF RecvEnd, Deliver
  <2>3. CASE SkipRenewal(st) \/ RenewLease(st)
    BY <2>3 DEF SkipRenewal, RenewLease
  <2>4. CASE SendLease(st) \/ LockSend(st)
    BY <2>4 DEF SendLease, LockSend
  <2> QED
    BY <1>2, <2>1, <2>2, <2>3, <2>4
<1>3. ASSUME NEW p \in Pushers,
             \/ LockSend(p) \/ PushSend(p)
             \/ \E s \in Sessions : PushLookup(p, s) \/ PushUnknown(p, s)
      PROVE  Quiet(p, PusherPC, PusherPC)
  BY <1>3 DEF LockSend, PushSend, PushLookup, PushUnknown
<1>4. ASSUME \/ \E st \in Streams : Quiet(st, Running, Running \cup {"deregister"})
             \/ \E p \in Pushers : Quiet(p, PusherPC, PusherPC)
      PROVE  Unmoved
  BY <1>4
<1>5. ASSUME \/ UNCHANGED <<sessions, mine, pc>>
             \/ UNCHANGED vars
      PROVE  Unmoved
  BY <1>5 DEF vars
<1>6. ASSUME NEW st \in Streams,
             \/ EdgeRecv(st) \/ EdgeClose(st) \/ Break(st)
             \/ \E s \in Sessions \cup {NoSession} : EdgeSend(st, s)
      PROVE  UNCHANGED <<sessions, mine, pc>>
  BY <1>6 DEF EdgeRecv, EdgeClose, Break, EdgeSend
<1> HIDE DEF Quiet, Running, IInv, TypeOK, Alive, Unmoved
<1> QED
  BY <1>2, <1>3, <1>4, <1>5, <1>6 DEF Next, Edge, Handler, Pusher

(* What Open, Register and Deregister do, in the terms of the map. *)
LEMMA OpenEffect ==
  ASSUME IInv, NEW st \in Streams, Open(st)
  PROVE  /\ UNCHANGED <<sessions, mine>>
         /\ pc[st] = "unborn" /\ pc' = [pc EXCEPT ![st] = "recv"]
         /\ mine[st] = {}
  BY DEF IInv, LocalsOK, Open, GoTo

LEMMA RegisterEffect ==
  ASSUME IInv, NEW st \in Streams, Register(st)
  PROVE  /\ sid[st] \in Sessions
         /\ sessions' = [sessions EXCEPT ![sid[st]] = st]
         /\ mine' = [mine EXCEPT ![st] = @ \cup {sid[st]}]
         /\ pc[st] = "register" /\ pc' = [pc EXCEPT ![st] = "renew"]
  BY DEF IInv, LocalsOK, Register, GoTo

LEMMA DeregisterEffect ==
  ASSUME IInv, NEW st \in Streams, Deregister(st)
  PROVE  /\ sessions' = [s \in Sessions |->
                            IF sessions[s] = st THEN NoConn ELSE sessions[s]]
         /\ UNCHANGED mine
         /\ pc[st] = "deregister" /\ pc' = [pc EXCEPT ![st] = "returned"]
<1>1. conn[st] = st /\ st # NoConn
  BY ConstantsAssumption DEF IInv, LocalsOK, Deregister
<1>2. \A s \in Sessions : sessions[s] = st => s \in mine[st]
  BY <1>1 DEF IInv, RouteOwned
<1> QED
  BY <1>1, <1>2 DEF Deregister, GoTo

-----------------------------------------------------------------------------
(* H1, the other half: a live stream misses the route of a session it has  *)
(* served only after a stream that took the session over has ended.        *)
THEOREM UnroutedAfterTakeover == Spec => []UnroutedOnlyAfterTakeover
<1>1. Init => UnroutedOnlyAfterTakeover
  BY DEF Init, UnroutedOnlyAfterTakeover
<1>2. IInv /\ UnroutedOnlyAfterTakeover /\ [Next]_vars
        => UnroutedOnlyAfterTakeover'
  <2> SUFFICES ASSUME IInv, UnroutedOnlyAfterTakeover, [Next]_vars,
                      NEW st \in Streams, NEW s \in mine'[st],
                      Alive(st)', sessions'[s] = NoConn
               PROVE  \E other \in Streams \ {st} :
                         pc'[other] = "returned" /\ s \in mine'[other]
    BY DEF UnroutedOnlyAfterTakeover
  <2> USE ConstantsAssumption DEF IInv, TypeOK
  <2>1. CASE Unmoved
    BY <2>1 DEF Unmoved, UnroutedOnlyAfterTakeover
  <2>4. ASSUME NEW c \in Streams, Open(c)
        PROVE  \E other \in Streams \ {st} :
                  pc'[other] = "returned" /\ s \in mine'[other]
    <3>1. st # c /\ Alive(st) /\ s \in mine[st] /\ sessions[s] = NoConn
      BY <2>4, OpenEffect DEF Alive
    <3>2. PICK other \in Streams \ {st} : pc[other] = "returned" /\ s \in mine[other]
      BY <3>1 DEF UnroutedOnlyAfterTakeover
    <3> QED
      BY <2>4, <3>2, OpenEffect
  <2>2. ASSUME NEW c \in Streams, Register(c)
        PROVE  \E other \in Streams \ {st} :
                  pc'[other] = "returned" /\ s \in mine'[other]
    <3>0. /\ sid[c] \in Sessions
          /\ sessions' = [sessions EXCEPT ![sid[c]] = c]
          /\ mine' = [mine EXCEPT ![c] = @ \cup {sid[c]}]
          /\ pc[c] = "register" /\ pc' = [pc EXCEPT ![c] = "renew"]
      BY <2>2, RegisterEffect
    <3>1. s # sid[c] /\ s \in mine[st] /\ sessions[s] = NoConn /\ Alive(st)
      <4>1. s # sid[c]
        BY <3>0
      <4>2. s \in mine[st] /\ s \in Sessions
        BY <3>0, <4>1
      <4> QED
        BY <3>0, <4>1, <4>2 DEF Alive
    <3>2. PICK other \in Streams \ {st} : pc[other] = "returned" /\ s \in mine[other]
      BY <3>1 DEF UnroutedOnlyAfterTakeover
    <3> QED
      BY <3>0, <3>2
  <2>3. ASSUME NEW c \in Streams, Deregister(c)
        PROVE  \E other \in Streams \ {st} :
                  pc'[other] = "returned" /\ s \in mine'[other]
    <3>1. st # c /\ Alive(st) /\ s \in mine[st] /\ s \in Sessions
      BY <2>3, DeregisterEffect DEF Alive
    <3>2. CASE sessions[s] = c
      <4>1. s \in mine[c]
        BY <3>1, <3>2 DEF RouteOwned
      <4> QED
        BY <2>3, <3>1, <4>1, DeregisterEffect
    <3>3. CASE sessions[s] = NoConn
      <4>1. PICK other \in Streams \ {st} :
                    pc[other] = "returned" /\ s \in mine[other]
        BY <3>1, <3>3 DEF UnroutedOnlyAfterTakeover
      <4> QED
        BY <2>3, <4>1, DeregisterEffect
    <3> QED
      BY <2>3, <3>1, <3>2, <3>3, DeregisterEffect
  <2> QED
    BY <2>1, <2>2, <2>3, <2>4, MapSteps
<1> QED
  BY <1>1, <1>2, Inductive, PTL DEF Spec

-----------------------------------------------------------------------------
(* An entry of the map leaves only with the conn it points to, and changes *)
(* only to a conn that is alive.                                           *)
THEOREM RoutesEnd == Spec => RoutesEndWithTheirConn
<1> DEFINE Step == \A s \in Sessions :
          sessions'[s] # sessions[s] =>
             IF sessions'[s] = NoConn THEN pc'[sessions[s]] = "returned"
                                      ELSE Alive(sessions'[s])
<1>1. IInv /\ [Next]_vars => [Step]_vars
  <2> SUFFICES ASSUME IInv, [Next]_vars, NEW s \in Sessions,
                      sessions'[s] # sessions[s]
               PROVE  IF sessions'[s] = NoConn THEN pc'[sessions[s]] = "returned"
                                               ELSE Alive(sessions'[s])
    OBVIOUS
  <2> USE ConstantsAssumption DEF IInv, TypeOK, Alive
  <2>1. ASSUME NEW c \in Streams, Register(c)
        PROVE  sessions'[s] = c /\ Alive(c) /\ c # NoConn
    BY <2>1, RegisterEffect
  <2>2. ASSUME NEW c \in Streams, Deregister(c)
        PROVE  sessions'[s] = NoConn /\ pc'[sessions[s]] = "returned"
    BY <2>2, DeregisterEffect
  <2> QED
    BY <2>1, <2>2, OpenEffect, MapSteps DEF Unmoved
<1> QED
  BY <1>1, Inductive, PTL DEF Spec, RoutesEndWithTheirConn

-----------------------------------------------------------------------------
(* sendMu serializes stream.Send.                                          *)

LEMMA LockHeldNext == IInv /\ LockHeld /\ [Next]_vars => LockHeld'
<1> SUFFICES ASSUME IInv, LockHeld, [Next]_vars PROVE LockHeld'
  OBVIOUS
<1> USE ConstantsAssumption
    DEF IInv, TypeOK, GoTo, LockHeld, HandlerPC, PusherPC
<1>1. ASSUME NEW t \in Threads, LockSend(t) PROVE LockHeld'
  BY <1>1 DEF LockSend, LocalsOK
<1>2. ASSUME NEW st \in Streams, SendLease(st) PROVE LockHeld'
  BY <1>2 DEF SendLease, Unlock, LocalsOK
<1>3. ASSUME NEW p \in Pushers, PushSend(p) PROVE LockHeld'
  <2>1. PICK label \in {"idle", "failed"} : pc' = [pc EXCEPT ![p] = label]
    BY <1>3 DEF PushSend
  <2> QED
    BY <1>3, <2>1 DEF PushSend, Unlock, LocalsOK
<1>4. ASSUME NEW st \in Streams,
             \/ RecvFrame(st) \/ RecvEnd(st) \/ Register(st) \/ SkipRenewal(st)
             \/ RenewLease(st) \/ Deliver(st) \/ Deregister(st)
      PROVE  LockHeld'
  BY <1>4 DEF RecvFrame, RecvEnd, Register, SkipRenewal, RenewLease, Deliver,
              Deregister
<1>5. ASSUME NEW p \in Pushers, NEW s \in Sessions,
             PushLookup(p, s) \/ PushUnknown(p, s)
      PROVE  LockHeld'
  <2>1. CASE PushLookup(p, s)
    <3>1. /\ UNCHANGED sendMu
          /\ \A t \in Threads : pc'[t] = "send" => t # p /\ pc[t] = "send"
          /\ \A t \in Threads \ {p} : conn'[t] = conn[t]
      BY <2>1 DEF PushLookup
    <3> QED
      BY <3>1
  <2>2. CASE PushUnknown(p, s)
    BY <2>2 DEF PushUnknown
  <2> QED
    BY <1>5, <2>1, <2>2
<1>6. ASSUME NEW st \in Streams,
             \/ Open(st) \/ EdgeRecv(st) \/ EdgeClose(st) \/ Break(st)
             \/ \E s \in Sessions \cup {NoSession} : EdgeSend(st, s)
      PROVE  LockHeld'
  BY <1>6 DEF Open, EdgeRecv, EdgeClose, Break, EdgeSend
<1>7. CASE UNCHANGED vars
  BY <1>7 DEF vars
<1> QED
  BY <1>1, <1>2, <1>3, <1>4, <1>5, <1>6, <1>7 DEF Next, Edge, Handler, Pusher

(* At most one goroutine is inside the Send of a conn, though handlers and *)
(* any number of Push callers use it.                                      *)
THEOREM SendMutex == Spec => []SendsSerialized
<1>1. Init => LockHeld
  BY DEF Init, LockHeld
<1>2. IInv /\ LockHeld => SendsSerialized
  BY DEF IInv, TypeOK, LocalsOK, LockHeld, SendsSerialized
<1> QED
  BY <1>1, <1>2, LockHeldNext, Inductive, PTL DEF Spec

(* The converse: a sendMu that is taken is held by a goroutine inside the  *)
(* Send of that conn.                                                      *)
HeldBySender ==
    \A st \in Streams : sendMu[st] # NoThread =>
        /\ sendMu[st] \in Threads
        /\ pc[sendMu[st]] = "send" /\ conn[sendMu[st]] = st

(* A step of t that is not about the mutex, while t is not inside Send. *)
LEMMA HeldByOthers ==
  ASSUME IInv, HeldBySender, NEW t \in Threads, pc[t] # "send", UNCHANGED sendMu,
         \A u \in Threads \ {t} : pc'[u] = pc[u] /\ conn'[u] = conn[u]
  PROVE  HeldBySender'
<1> SUFFICES ASSUME NEW st \in Streams, sendMu[st] # NoThread
             PROVE  /\ sendMu[st] \in Threads
                    /\ pc'[sendMu[st]] = "send" /\ conn'[sendMu[st]] = st
  BY DEF HeldBySender
<1>1. sendMu[st] \in Threads /\ pc[sendMu[st]] = "send" /\ conn[sendMu[st]] = st
  BY DEF HeldBySender
<1>2. sendMu[st] # t
  BY <1>1
<1> QED
  BY <1>1, <1>2

LEMMA HeldBySenderNext == IInv /\ HeldBySender /\ [Next]_vars => HeldBySender'
<1> SUFFICES ASSUME IInv, HeldBySender, [Next]_vars PROVE HeldBySender'
  OBVIOUS
<1> USE ConstantsAssumption DEF IInv, TypeOK, GoTo, HandlerPC, PusherPC
<1>1. ASSUME NEW t \in Threads, LockSend(t) PROVE HeldBySender'
  <2>1. conn[t] \in Streams
    <3>1. t \in Streams => conn[t] = t
      BY <1>1 DEF LockSend, LocalsOK
    <3>2. t \in Pushers => conn[t] \in Streams
      BY <1>1 DEF LockSend, LocalsOK
    <3> QED
      BY <3>1, <3>2
  <2>2. /\ sendMu' = [sendMu EXCEPT ![conn[t]] = t] /\ UNCHANGED conn
        /\ pc' = [pc EXCEPT ![t] = "send"] /\ pc[t] = "lock"
    BY <1>1 DEF LockSend
  <2> SUFFICES ASSUME NEW st \in Streams, sendMu'[st] # NoThread
               PROVE  /\ sendMu'[st] \in Threads
                      /\ pc'[sendMu'[st]] = "send" /\ conn'[sendMu'[st]] = st
    BY DEF HeldBySender
  <2>3. CASE st = conn[t]
    BY <2>1, <2>2, <2>3
  <2>4. CASE st # conn[t]
    <3>1. sendMu'[st] = sendMu[st]
      BY <2>1, <2>2, <2>4
    <3>2. sendMu[st] \in Threads /\ pc[sendMu[st]] = "send" /\ conn[sendMu[st]] = st
      BY <3>1 DEF HeldBySender
    <3>3. pc'[sendMu[st]] = "send" /\ conn'[sendMu[st]] = st
      BY <2>2, <3>2
    <3> QED
      BY <3>1, <3>2, <3>3
  <2> QED
    BY <2>3, <2>4
<1>2. ASSUME NEW t \in Threads, conn[t] \in Streams, Unlock(t),
             \A u \in Threads \ {t} : pc'[u] = pc[u] /\ conn'[u] = conn[u]
      PROVE  HeldBySender'
  <2> SUFFICES ASSUME NEW st \in Streams, sendMu'[st] # NoThread
               PROVE  /\ sendMu'[st] \in Threads
                      /\ pc'[sendMu'[st]] = "send" /\ conn'[sendMu'[st]] = st
    BY DEF HeldBySender
  <2>1. st # conn[t] /\ sendMu'[st] = sendMu[st]
    BY <1>2 DEF Unlock
  <2>2. sendMu[st] \in Threads /\ pc[sendMu[st]] = "send" /\ conn[sendMu[st]] = st
    BY <2>1 DEF HeldBySender
  <2>3. sendMu[st] # t
    BY <2>1, <2>2
  <2>4. pc'[sendMu[st]] = "send" /\ conn'[sendMu[st]] = st
    BY <1>2, <2>2, <2>3
  <2> QED
    BY <2>1, <2>2, <2>4
<1>3. ASSUME NEW st \in Streams, SendLease(st) PROVE HeldBySender'
  <2>1. conn[st] = st
    BY <1>3 DEF SendLease, LocalsOK
  <2>2. Unlock(st) /\ \A u \in Threads \ {st} : pc'[u] = pc[u] /\ conn'[u] = conn[u]
    BY <1>3 DEF SendLease
  <2> HIDE DEF IInv, TypeOK
  <2> QED
    BY <1>2, <2>1, <2>2
<1>4. ASSUME NEW p \in Pushers, PushSend(p) PROVE HeldBySender'
  <2>1. conn[p] \in Streams
    BY <1>4 DEF PushSend, LocalsOK
  <2>2. Unlock(p) /\ \A u \in Threads \ {p} : pc'[u] = pc[u] /\ conn'[u] = conn[u]
    BY <1>4 DEF PushSend
  <2> HIDE DEF IInv, TypeOK
  <2> QED
    BY <1>2, <2>1, <2>2
<1>5. ASSUME NEW st \in Streams,
             \/ RecvFrame(st) \/ RecvEnd(st) \/ Register(st) \/ SkipRenewal(st)
             \/ RenewLease(st) \/ Deliver(st) \/ Deregister(st) \/ Open(st)
      PROVE  HeldBySender'
  <2>1. /\ pc[st] # "send" /\ UNCHANGED sendMu
        /\ \A u \in Threads \ {st} : pc'[u] = pc[u] /\ conn'[u] = conn[u]
    BY <1>5 DEF RecvFrame, RecvEnd, Register, SkipRenewal, RenewLease, Deliver,
                Deregister, Open, LocalsOK
  <2> HIDE DEF IInv
  <2> QED
    BY <2>1, HeldByOthers
<1>6. ASSUME NEW p \in Pushers, NEW s \in Sessions,
             PushLookup(p, s) \/ PushUnknown(p, s)
      PROVE  HeldBySender'
  <2>1. /\ pc[p] # "send" /\ UNCHANGED sendMu
        /\ \A u \in Threads \ {p} : pc'[u] = pc[u] /\ conn'[u] = conn[u]
    BY <1>6 DEF PushLookup, PushUnknown
  <2> HIDE DEF IInv
  <2> QED
    BY <2>1, HeldByOthers
<1>7. ASSUME NEW st \in Streams,
             \/ EdgeRecv(st) \/ EdgeClose(st) \/ Break(st)
             \/ \E s \in Sessions \cup {NoSession} : EdgeSend(st, s)
      PROVE  HeldBySender'
  BY <1>7 DEF EdgeRecv, EdgeClose, Break, EdgeSend, HeldBySender
<1>8. CASE UNCHANGED vars
  BY <1>8 DEF vars, HeldBySender
<1> QED
  BY <1>1, <1>3, <1>4, <1>5, <1>6, <1>7, <1>8 DEF Next, Edge, Handler, Pusher

(* A goroutine inside conn.send, with any number of others before it,      *)
(* waits for the Edge of that conn and for nothing else.                   *)
THEOREM WaitsForTheEdge == Spec => []WaitsOnlyForItsEdge
<1>1. Init => HeldBySender
  BY ConstantsAssumption DEF Init, HeldBySender
<1>2. IInv /\ HeldBySender => WaitsOnlyForItsEdge
  <2> SUFFICES ASSUME IInv, HeldBySender, NEW t \in Threads, pc[t] \in {"lock", "send"},
                      sendMu[conn[t]] # NoThread, ~EdgeIsBehind(conn[t])
               PROVE  \E u \in Threads :
                         /\ sendMu[conn[t]] = u
                         /\ pc[u] = "send" /\ conn[u] = conn[t] /\ SendReturns(u)
    BY DEF WaitsOnlyForItsEdge
  <2> DEFINE st == conn[t]
  <2>1. st \in Streams /\ mine[st] # {}
    BY DEF IInv, LocalsOK
  <2>2. peer[st] \in {"open", "closed", "broken"} /\ Len(down[st]) \in Nat
    BY <2>1 DEF IInv, TypeOK, LocalsOK
  <2>3. sendMu[st] \in Threads /\ pc[sendMu[st]] = "send" /\ conn[sendMu[st]] = st
    BY <2>1 DEF HeldBySender
  <2>4. peer[st] = "broken" \/ Len(down[st]) < DownCap
    BY <2>2, ConstantsAssumption DEF EdgeIsBehind
  <2>5. SendReturns(sendMu[st])
    BY <2>3, <2>4 DEF SendReturns
  <2> QED
    BY <2>3, <2>5
<1> QED
  BY <1>1, <1>2, HeldBySenderNext, Inductive, PTL DEF Spec

-----------------------------------------------------------------------------
(* What is sent to a stream is for sessions that were seen on it.          *)

LEMMA AcceptedElements ==
  ASSUME IInv, NoCrossRouting, NEW t \in Threads, pc[t] = "send",
         SendAccepted(t) \/ SendRefused(t), UNCHANGED mine
  PROVE  NoCrossRouting'
<1>1. conn[t] \in Streams /\ sid[t] \in mine[conn[t]] /\ sid[t] \in Sessions
  BY SendType
<1>2. CASE UNCHANGED down
  BY <1>2 DEF NoCrossRouting
<1>3. CASE down' = [down EXCEPT ![conn[t]] = Append(@, sid[t])]
  <2>1. \A i \in 1..Len(Append(down[conn[t]], sid[t])) :
           Append(down[conn[t]], sid[t])[i] \in mine[conn[t]]
    <3>1. down[conn[t]] \in Seq(Sessions)
      BY <1>1 DEF IInv, TypeOK
    <3> QED
      BY <1>1, <3>1, AppendProperties DEF NoCrossRouting
  <2> QED
    BY <1>1, <1>3, <2>1 DEF IInv, TypeOK, NoCrossRouting
<1> QED
  BY <1>2, <1>3 DEF SendAccepted, SendRefused

LEMMA CrossRoutingNext ==
  IInv /\ NoCrossRouting /\ [Next]_vars => NoCrossRouting'
<1> SUFFICES ASSUME IInv, NoCrossRouting, [Next]_vars PROVE NoCrossRouting'
  OBVIOUS
<1> USE DEF IInv, TypeOK
<1>1. ASSUME NEW st \in Streams, EdgeRecv(st) PROVE NoCrossRouting'
  <2>1. \A i \in 1..Len(Tail(down[st])) : Tail(down[st])[i] \in mine[st]
    <3>1. down[st] \in Seq(Sessions) /\ down[st] # <<>>
      BY <1>1 DEF EdgeRecv
    <3> QED
      BY <3>1, HeadTailProperties DEF NoCrossRouting
  <2> QED
    BY <1>1, <2>1 DEF EdgeRecv, NoCrossRouting
<1>2. ASSUME NEW st \in Streams, Break(st) PROVE NoCrossRouting'
  BY <1>2 DEF Break, NoCrossRouting
<1>3. ASSUME NEW st \in Streams, SendLease(st) PROVE NoCrossRouting'
  BY <1>3, AcceptedElements DEF SendLease
<1>4. ASSUME NEW p \in Pushers, PushSend(p) PROVE NoCrossRouting'
  BY <1>4, AcceptedElements DEF PushSend
<1>5. ASSUME NEW st \in Streams, Register(st) PROVE NoCrossRouting'
  <2>1. UNCHANGED down /\ \A x \in Streams : mine[x] \subseteq mine'[x]
    BY <1>5 DEF Register
  <2> QED
    BY <2>1 DEF NoCrossRouting
<1>6. ASSUME UNCHANGED <<down, mine>> PROVE NoCrossRouting'
  BY <1>6 DEF NoCrossRouting
<1>7. ASSUME NEW st \in Streams,
             \/ Open(st) \/ EdgeClose(st) \/ RecvFrame(st) \/ RecvEnd(st)
             \/ SkipRenewal(st) \/ RenewLease(st) \/ Deliver(st) \/ Deregister(st)
             \/ \E s \in Sessions \cup {NoSession} : EdgeSend(st, s)
      PROVE  UNCHANGED <<down, mine>>
  BY <1>7 DEF Open, EdgeClose, RecvFrame, RecvEnd, SkipRenewal, RenewLease,
              Deliver, Deregister, EdgeSend
<1>8. ASSUME NEW t \in Threads,
             \/ LockSend(t)
             \/ \E s \in Sessions : PushLookup(t, s) \/ PushUnknown(t, s)
             \/ UNCHANGED vars
      PROVE  UNCHANGED <<down, mine>>
  BY <1>8 DEF LockSend, PushLookup, PushUnknown, vars
<1>9. CASE UNCHANGED vars
  BY <1>9, <1>6 DEF vars
<1> HIDE DEF IInv, TypeOK
<1> QED
  BY <1>1, <1>2, <1>3, <1>4, <1>5, <1>6, <1>7, <1>8, <1>9
     DEF Next, Edge, Handler, Pusher

(* A Push, even one whose conn was looked up long ago, and a renewal reach *)
(* only streams on which the Edge has spoken for that session.             *)
THEOREM NoCross == Spec => []NoCrossRouting
<1>1. Init => NoCrossRouting
  BY DEF Init, NoCrossRouting
<1> QED
  BY <1>1, CrossRoutingNext, Inductive, PTL DEF Spec

-----------------------------------------------------------------------------
(* The handlers and their conditional delete implement the routing table   *)
(* in which a conn and all its routes end in one step.                     *)
THEOREM Refinement == Spec => ImplementsRouteTable
<1> DEFINE LiveConns == {st \in Streams : Alive(st)}
<1>1. Init => Table!Init
  BY DEF Init, Table!Init, Alive
<1>2. IInv /\ [Next]_vars => [Table!Next]_(Table!vars)
  <2> SUFFICES ASSUME IInv, [Next]_vars PROVE [Table!Next]_(Table!vars)
    OBVIOUS
  <2>1. ASSUME NEW st \in Streams, Register(st) PROVE Table!Next
    <3>1. sid[st] \in Sessions /\ sessions' = [sessions EXCEPT ![sid[st]] = st]
      BY <2>1, RegisterEffect
    <3>2. st \in LiveConns /\ LiveConns' = LiveConns
      BY <2>1, RegisterEffect DEF Alive, IInv, TypeOK
    <3>3. Table!Claim(sid[st], st)
      BY <3>1, <3>2 DEF Table!Claim
    <3> QED
      BY <3>1, <3>3 DEF Table!Next
  <2>2. ASSUME NEW st \in Streams, Deregister(st) PROVE Table!Next
    <3>1. st \in LiveConns /\ LiveConns' = LiveConns \ {st}
      BY <2>2, DeregisterEffect DEF Alive, IInv, TypeOK
    <3>2. Table!Retire(st)
      BY <2>2, <3>1, DeregisterEffect DEF Table!Retire
    <3> QED
      BY <3>2 DEF Table!Next
  <2>3. ASSUME NEW st \in Streams, Open(st) PROVE Table!Next
    <3>1. st \notin LiveConns /\ LiveConns' = LiveConns \cup {st}
      BY <2>3, OpenEffect DEF Alive, IInv, TypeOK
    <3>2. Table!Open(st)
      BY <2>3, <3>1, OpenEffect DEF Table!Open
    <3> QED
      BY <3>2 DEF Table!Next
  <2>4. CASE Unmoved
    BY <2>4 DEF Unmoved, Table!vars
  <2> QED
    BY <2>1, <2>2, <2>3, <2>4, MapSteps
<1> QED
  BY <1>1, <1>2, Inductive, PTL DEF Spec, ImplementsRouteTable, Table!Spec

=============================================================================
