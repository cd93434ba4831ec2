--------------------------- MODULE SessionRegistry ---------------------------
(***************************************************************************)
(* The live half of the cloud's gRPC service                               *)
(* (src/internal/server/cloudlink.go): the map session_id -> conn, the     *)
(* Connect handlers that fill and clear it, and the callers of             *)
(* Push/PushLease that read it.                                            *)
(*                                                                         *)
(* Threads.  Every stream has one handler goroutine (named by its stream); *)
(* every pusher is a goroutine of the platform that calls Push or          *)
(* PushLease.  A step is what a goroutine does between two points where    *)
(* another one can be seen: s.mu is held only inside a step, conn.sendMu   *)
(* is held across stream.Send, which can block, and is a variable.         *)
(*                                                                         *)
(* The handler's call of deliver never waits and touches the inboxes only: *)
(* here it is a step of the handler, and Reception says what it does.      *)
(*                                                                         *)
(* gRPC is external.  `up' and `down' are the two directions of a stream:  *)
(* FIFO, with room for UpCap and DownCap messages (flow control).          *)
(***************************************************************************)
EXTENDS Naturals, Sequences

CONSTANTS
    Sessions,      \* non-empty session_ids
    Streams,       \* Connect streams; also the names of conns and of handlers
    Pushers,       \* goroutines that call Push or PushLease
    NoSession,     \* the empty session_id
    NoConn,        \* no entry in the map; a local variable not yet assigned
    NoThread,      \* an unlocked mutex
    LeaseRenewal,  \* whether a LeaseIssuer is injected (WithLeaseRenewal)
    UpCap,         \* bound: frames in flight edge->cloud per stream
    DownCap        \* bound: messages in flight cloud->edge per stream

Threads == Streams \cup Pushers

ASSUME ConstantsAssumption ==
    /\ Streams \cap Pushers = {}
    /\ NoSession \notin Sessions
    /\ NoConn \notin Streams
    /\ NoThread \notin Threads
    /\ LeaseRenewal \in BOOLEAN
    /\ UpCap \in Nat \ {0}
    /\ DownCap \in Nat \ {0}

VARIABLES
    sessions,      \* cloudlinkService.sessions
    mine,          \* mine[st]: the local set of session_ids of st's handler
    sendMu,        \* sendMu[st]: who holds the sendMu of st's conn
    pc,            \* where each goroutine stands
    conn,          \* conn[t]: the local variable c of Connect and of Push
    sid,           \* sid[t]: the local sid of Connect, the argument of Push
    peer,          \* peer[st]: the Edge's end of the stream
    up,            \* up[st]: session_ids of the frames the Edge has sent
    down           \* down[st]: session_ids of the messages sent to the Edge

vars == <<sessions, mine, sendMu, pc, conn, sid, peer, up, down>>

HandlerPC == {"unborn", "recv", "register", "renew", "lock", "send",
              "deliver", "deregister", "returned"}
PusherPC  == {"idle", "lock", "send", "failed"}

(* A handler is alive from the start of Connect until its defer has run. *)
Alive(st) == pc[st] \notin {"unborn", "returned"}

TypeOK ==
    /\ sessions \in [Sessions -> Streams \cup {NoConn}]
    /\ mine \in [Streams -> SUBSET Sessions]
    /\ sendMu \in [Streams -> Threads \cup {NoThread}]
    /\ pc \in [Threads -> HandlerPC \cup PusherPC]
    /\ \A st \in Streams : pc[st] \in HandlerPC
    /\ \A p \in Pushers : pc[p] \in PusherPC
    /\ conn \in [Threads -> Streams \cup {NoConn}]
    /\ sid \in [Threads -> Sessions \cup {NoSession}]
    /\ peer \in [Streams -> {"none", "open", "closed", "broken"}]
    /\ up \in [Streams -> Seq(Sessions \cup {NoSession})]
    /\ down \in [Streams -> Seq(Sessions)]

Init ==
    /\ sessions = [s \in Sessions |-> NoConn]
    /\ mine = [st \in Streams |-> {}]
    /\ sendMu = [st \in Streams |-> NoThread]
    /\ pc = [t \in Threads |-> IF t \in Streams THEN "unborn" ELSE "idle"]
    /\ conn = [t \in Threads |-> NoConn]
    /\ sid = [t \in Threads |-> NoSession]
    /\ peer = [st \in Streams |-> "none"]
    /\ up = [st \in Streams |-> <<>>]
    /\ down = [st \in Streams |-> <<>>]

GoTo(t, label) == pc' = [pc EXCEPT ![t] = label]

-----------------------------------------------------------------------------
(* The Edge and the network: external.                                     *)

(* The Edge dials; the gRPC server starts Connect, which makes its conn.   *)
Open(st) ==
    /\ peer[st] = "none"
    /\ peer' = [peer EXCEPT ![st] = "open"]
    /\ conn' = [conn EXCEPT ![st] = st]
    /\ GoTo(st, "recv")
    /\ UNCHANGED <<sessions, mine, sendMu, sid, up, down>>

(* The Edge sends a frame; one stream carries frames of several sessions   *)
(* and frames with no session_id.                                          *)
EdgeSend(st, s) ==
    /\ peer[st] = "open"
    /\ Len(up[st]) < UpCap
    /\ up' = [up EXCEPT ![st] = Append(@, s)]
    /\ UNCHANGED <<sessions, mine, sendMu, pc, conn, sid, peer, down>>

EdgeRecv(st) ==
    /\ peer[st] \in {"open", "closed"}
    /\ down[st] # <<>>
    /\ down' = [down EXCEPT ![st] = Tail(@)]
    /\ UNCHANGED <<sessions, mine, sendMu, pc, conn, sid, peer, up>>

(* An orderly half-close: the server will read io.EOF after the frames.    *)
EdgeClose(st) ==
    /\ peer[st] = "open"
    /\ peer' = [peer EXCEPT ![st] = "closed"]
    /\ UNCHANGED <<sessions, mine, sendMu, pc, conn, sid, up, down>>

(* The stream is cut (process death, network, keepalive, cancelled         *)
(* context): what was on its way to the Edge is lost.                      *)
Break(st) ==
    /\ peer[st] \in {"open", "closed"}
    /\ peer' = [peer EXCEPT ![st] = "broken"]
    /\ down' = [down EXCEPT ![st] = <<>>]
    /\ UNCHANGED <<sessions, mine, sendMu, pc, conn, sid, up>>

-----------------------------------------------------------------------------
(* conn.send, called by thread t: lock sendMu, stream.Send, unlock.        *)

Free_Always(st) == TRUE     \* mutant of Free: sends are not serialized
Free(st) == sendMu[st] = NoThread

LockSend(t) ==
    /\ pc[t] = "lock"
    /\ Free(conn[t])
    /\ sendMu' = [sendMu EXCEPT ![conn[t]] = t]
    /\ GoTo(t, "send")
    /\ UNCHANGED <<sessions, mine, conn, sid, peer, up, down>>

(* stream.Send waits for flow control and accepts the message; on a stream *)
(* that was cut it may still accept one, which is lost.                    *)
SendAccepted(t) ==
    /\ pc[conn[t]] # "returned"
    /\ \/ /\ peer[conn[t]] = "broken"
          /\ UNCHANGED down
       \/ /\ peer[conn[t]] # "broken"
          /\ Len(down[conn[t]]) < DownCap
          /\ down' = [down EXCEPT ![conn[t]] = Append(@, sid[t])]

(* stream.Send fails once the stream was cut or its handler has returned.  *)
SendRefused(t) ==
    /\ peer[conn[t]] = "broken" \/ pc[conn[t]] = "returned"
    /\ UNCHANGED down

(* The deferred Unlock.  Mutant: not after an error of stream.Send. *)
Unlock_OnSuccess(t) ==
    sendMu' = [sendMu EXCEPT ![conn[t]] = IF peer[conn[t]] = "broken" THEN t ELSE NoThread]
Unlock(t) == sendMu' = [sendMu EXCEPT ![conn[t]] = NoThread]

-----------------------------------------------------------------------------
(* Connect: the handler of stream st.                                      *)

(* A frame with no session_id is neither registered nor renewed. *)
AfterRecv(s) == IF s = NoSession THEN "deliver" ELSE "register"

RecvFrame(st) ==
    /\ pc[st] = "recv"
    /\ up[st] # <<>>
    /\ up' = [up EXCEPT ![st] = Tail(@)]
    /\ sid' = [sid EXCEPT ![st] = Head(up[st])]
    /\ GoTo(st, AfterRecv(Head(up[st])))
    /\ UNCHANGED <<sessions, mine, sendMu, conn, peer, down>>

(* Recv returns io.EOF after the last frame, or an error as soon as the    *)
(* stream is cut: gRPC may or may not hand over the frames it had buffered. *)
Ended_OnlyEOF(st) == peer[st] = "closed" /\ up[st] = <<>>  \* mutant of Ended
Ended(st) == peer[st] = "broken" \/ (peer[st] = "closed" /\ up[st] = <<>>)

RecvEnd(st) ==
    /\ pc[st] = "recv"
    /\ Ended(st)
    /\ up' = [up EXCEPT ![st] = <<>>]
    /\ GoTo(st, "deregister")
    /\ UNCHANGED <<sessions, mine, sendMu, conn, sid, peer, down>>

(* register(sid, c) on EVERY frame, then mine[sid].  Mutants: a session    *)
(* that had a route is not noted; only its first frame is registered.      *)
Noted_OnlyNew(st) ==
    mine[st] \cup (IF sessions[sid[st]] = NoConn THEN {sid[st]} ELSE {})
Noted(st) == mine[st] \cup {sid[st]}

Taken_OnlyOnce(st) ==
    IF sid[st] \in mine[st] THEN sessions[sid[st]] ELSE conn[st]
Taken(st) == conn[st]

Register(st) ==
    /\ pc[st] = "register"
    /\ sessions' = [sessions EXCEPT ![sid[st]] = Taken(st)]
    /\ mine' = [mine EXCEPT ![st] = Noted(st)]
    /\ GoTo(st, "renew")
    /\ UNCHANGED <<sendMu, conn, sid, peer, up, down>>

(* maybeRenewLease gives up: no issuer, not a Heartbeat, or Issue failed.  *)
SkipRenewal(st) ==
    /\ pc[st] = "renew"
    /\ GoTo(st, "deliver")
    /\ UNCHANGED <<sessions, mine, sendMu, conn, sid, peer, up, down>>

(* maybeRenewLease issued a lease and calls send on its own conn.          *)
RenewLease(st) ==
    /\ pc[st] = "renew"
    /\ LeaseRenewal
    /\ GoTo(st, "lock")
    /\ UNCHANGED <<sessions, mine, sendMu, conn, sid, peer, up, down>>

(* ... and ignores whether the send succeeded.                             *)
SendLease(st) ==
    /\ pc[st] = "send"
    /\ SendAccepted(st) \/ SendRefused(st)
    /\ Unlock(st)
    /\ GoTo(st, "deliver")
    /\ UNCHANGED <<sessions, mine, conn, sid, peer, up>>

(* The inboxes are Reception's; the handler goes round its loop.           *)
Deliver(st) ==
    /\ pc[st] = "deliver"
    /\ sid' = [sid EXCEPT ![st] = NoSession]
    /\ GoTo(st, "recv")
    /\ UNCHANGED <<sessions, mine, sendMu, conn, peer, up, down>>

(* deregister(c, mine): only the entries that still point to this conn.    *)
(* Mutant: every entry of the map. *)
Doomed_Everything(st) == Sessions
Doomed(st) == {s \in mine[st] : sessions[s] = conn[st]}

Deregister(st) ==
    /\ pc[st] = "deregister"
    /\ sessions' = [s \in Sessions |->
                      IF s \in Doomed(st) THEN NoConn ELSE sessions[s]]
    /\ GoTo(st, "returned")
    /\ UNCHANGED <<mine, sendMu, conn, sid, peer, up, down>>

Handler(st) ==
    \/ RecvFrame(st) \/ RecvEnd(st) \/ Register(st)
    \/ SkipRenewal(st) \/ RenewLease(st) \/ LockSend(st) \/ SendLease(st)
    \/ Deliver(st) \/ Deregister(st)

-----------------------------------------------------------------------------
(* Push (and PushLease, which wraps it), called by pusher p for session s. *)

PushLookup(p, s) ==
    /\ pc[p] \in {"idle", "failed"}
    /\ sessions[s] # NoConn
    /\ sid' = [sid EXCEPT ![p] = s]
    /\ conn' = [conn EXCEPT ![p] = sessions[s]]
    /\ GoTo(p, "lock")
    /\ UNCHANGED <<sessions, mine, sendMu, peer, up, down>>

PushUnknown(p, s) ==
    /\ pc[p] \in {"idle", "failed"}
    /\ sessions[s] = NoConn
    /\ GoTo(p, "failed")
    /\ UNCHANGED <<sessions, mine, sendMu, conn, sid, peer, up, down>>

(* s.mu is no longer held: the send goes to the conn that was looked up.   *)
PushSend(p) ==
    /\ pc[p] = "send"
    /\ \/ SendAccepted(p) /\ GoTo(p, "idle")
       \/ SendRefused(p) /\ GoTo(p, "failed")
    /\ Unlock(p)
    /\ conn' = [conn EXCEPT ![p] = NoConn]
    /\ sid' = [sid EXCEPT ![p] = NoSession]
    /\ UNCHANGED <<sessions, mine, peer, up>>

Pusher(p) == \/ LockSend(p) \/ PushSend(p)
             \/ \E s \in Sessions : PushLookup(p, s) \/ PushUnknown(p, s)

Edge(st) == \/ Open(st) \/ EdgeRecv(st) \/ EdgeClose(st) \/ Break(st)
            \/ \E s \in Sessions \cup {NoSession} : EdgeSend(st, s)

Next == \/ \E st \in Streams : Edge(st) \/ Handler(st)
        \/ \E p \in Pushers : Pusher(p)

(* Goroutines that can run do run; sync.Mutex in starvation mode hands the *)
(* lock to the waiter, so a lock that is free again and again is taken.    *)
(* Nothing is assumed of the Edge, nor of the platform's calls of Push.    *)
Fairness ==
    /\ \A st \in Streams : WF_vars(Handler(st)) /\ SF_vars(LockSend(st))
    /\ \A p \in Pushers : WF_vars(PushSend(p)) /\ SF_vars(LockSend(p))

Spec == Init /\ [][Next]_vars
FairSpec == Spec /\ Fairness

(* An Edge that beats (maybeRenewLease counts on "el próximo heartbeat",   *)
(* cloudlink.go:185-186) and reads: while a stream is open it sends frames *)
(* of each session and takes what arrives.                                 *)
EdgeFairness ==
    \A st \in Streams : /\ WF_vars(EdgeRecv(st))
                        /\ \A s \in Sessions : SF_vars(EdgeSend(st, s))

-----------------------------------------------------------------------------
(* Properties.                                                             *)

(* H1, no zombie route: the map never points to a stream whose handler has *)
(* returned, so Push/PushLease never look up a dead stream.  It needs the  *)
(* handler's `mine' to hold every session the conn was ever registered     *)
(* under: the deferred deregister clears nothing else.                     *)
NoZombieRoute ==
    \A s \in Sessions : sessions[s] # NoConn => Alive(sessions[s])

(* A live session is without a route only when it has moved between        *)
(* streams: some other stream that also served it has ended.  Nothing that *)
(* happens to a stream alone, and no failed Push, takes the route away.    *)
UnroutedOnlyAfterTakeover ==
    \A st \in Streams : \A s \in mine[st] :
        Alive(st) /\ sessions[s] = NoConn
            => \E other \in Streams \ {st} :
                  pc[other] = "returned" /\ s \in mine[other]

(* A command or lease for session s is only ever in a stream on which the  *)
(* Edge spoke for s, however stale the conn that Push looked up.           *)
NoCrossRouting ==
    \A st \in Streams : \A i \in 1..Len(down[st]) : down[st][i] \in mine[st]

(* stream.Send is not safe for concurrent use: at most one goroutine is    *)
(* inside the Send of a conn, be it a handler's renewal or a Push.         *)
SendsSerialized ==
    \A t, u \in Threads :
        t # u /\ pc[t] = "send" /\ pc[u] = "send" => conn[t] # conn[u]

(* Whoever is inside conn.send, the handler of a stream included, waits    *)
(* for nothing but the Edge at the other end of that conn: no lock         *)
(* outlives its Send, and no other stream or session has a part in it.     *)
EdgeIsBehind(st) == peer[st] \in {"open", "closed"} /\ Len(down[st]) >= DownCap
SendReturns(t) ==
    \/ peer[conn[t]] = "broken" \/ pc[conn[t]] = "returned"
    \/ Len(down[conn[t]]) < DownCap
WaitsOnlyForItsEdge ==
    \A t \in Threads : pc[t] \in {"lock", "send"} =>
        \/ Free(conn[t])
        \/ EdgeIsBehind(conn[t])
        \/ \E u \in Threads : /\ sendMu[conn[t]] = u
                              /\ pc[u] = "send" /\ conn[u] = conn[t] /\ SendReturns(u)

(* An entry of the map disappears only because the conn it pointed to      *)
(* ended, and changes only to a conn that is alive (deregister's           *)
(* comparison, cloudlink.go:229).                                          *)
RoutesEndWithTheirConn ==
    [][\A s \in Sessions :
          sessions'[s] # sessions[s] =>
             IF sessions'[s] = NoConn THEN pc'[sessions[s]] = "returned"
                                      ELSE Alive(sessions'[s])]_vars

(* A stream that is cut loses all its routes in the end, even when its     *)
(* handler, or a Push that holds its sendMu, is inside a blocked Send.     *)
BrokenStreamUnrouted ==
    \A st \in Streams :
        peer[st] = "broken" ~> /\ pc[st] = "returned"
                               /\ \A s \in Sessions : sessions[s] # st

(* The route heals: when one stream stays open, the others have ended and  *)
(* the Edge goes on beating, it ends up with the route of every session it *)
(* beats for, even if a late frame of an old stream had stolen it.         *)
StableStreamGetsRoute ==
    EdgeFairness => \A st \in Streams, s \in Sessions :
        <>[](peer[st] = "open" /\ \A other \in Streams \ {st} : peer[other] # "open")
            => <>[](sessions[s] = st)

(* What deregister's comment says (cloudlink.go:221-224): an older stream  *)
(* that ends never leaves a live session without a route.                  *)
LiveSessionKeepsRoute ==
    \A st \in Streams : \A s \in mine[st] : Alive(st) => sessions[s] # NoConn

(* The abstract routing table, and the live handlers as its connections.   *)
Table == INSTANCE RouteTable WITH
            route <- sessions,
            live  <- {st \in Streams : Alive(st)}
ImplementsRouteTable == Table!Spec

=============================================================================
