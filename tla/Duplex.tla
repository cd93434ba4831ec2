-------------------------------- MODULE Duplex --------------------------------
(***************************************************************************)
(* One stream with both its ends: the Edge's client (EdgeClient) and, in   *)
(* place of the free environment there, the cloud's handler with its       *)
(* renewals and the callers of Push                                        *)
(* (src/internal/server/cloudlink.go).  Every queue between the two ends   *)
(* is bounded and every send waits, except deliver, which never does       *)
(* (checked in Reception) and is no step here; nor are register and        *)
(* deregister, which only hold s.mu (SessionRegistry).                     *)
(*                                                                         *)
(* The question is who may end up waiting for whom.                        *)
(***************************************************************************)
EXTENDS EdgeClient, FiniteSets

CONSTANTS
    Handler,    \* the goroutine of Connect
    Pushers,    \* goroutines that call Push for a session of this stream
    Beat        \* the Heartbeat, the kind of frame that renews a lease

Callers == Pushers \cup {Handler}

ASSUME DuplexConstants ==
    /\ Handler \notin Pushers /\ NoThread \notin Callers /\ Beat \in Frames
    /\ IsFiniteSet(Pushers)

VARIABLES
    cmu,    \* who holds the sendMu of the cloud's conn
    cpc     \* label of each goroutine of the cloud

cloudVars == <<cmu, cpc>>
vars == <<edgeVars, cloudVars>>

DuplexTypeOK ==
    /\ TypeOK
    /\ cmu \in Callers \cup {NoThread}
    /\ cpc \in [Callers -> {"recv", "renew", "idle", "lock", "send", "returned"}]

DuplexInit ==
    /\ Init
    /\ cmu = NoThread
    /\ cpc = [t \in Callers |-> IF t = Handler THEN "recv" ELSE "idle"]

CloudGoTo(t, label) == cpc' = [cpc EXCEPT ![t] = label]

(* Bound: no more than MaxDown messages are sent or about to be. *)
Sending == {t \in Callers : cpc[t] \in {"lock", "send"}}
MayAnswer == sent + Cardinality(Sending) < MaxDown

-----------------------------------------------------------------------------
(* Connect.                                                                *)

(* Recv returned a frame.  Of register, maybeRenewLease and deliver only a *)
(* renewal can wait.                                                       *)
HandlerRecv ==
    /\ cpc[Handler] = "recv"
    /\ CloudRecv
    /\ CloudGoTo(Handler, IF Head(up) = Beat THEN "renew" ELSE "recv")
    /\ UNCHANGED cmu

(* No lease issuer, or Issue failed. *)
SkipRenewal ==
    /\ cpc[Handler] = "renew"
    /\ CloudGoTo(Handler, "recv")
    /\ UNCHANGED <<edgeVars, cmu>>

Renew ==
    /\ cpc[Handler] = "renew"
    /\ MayAnswer
    /\ CloudGoTo(Handler, "lock")
    /\ UNCHANGED <<edgeVars, cmu>>

HandlerReturns ==
    /\ cpc[Handler] = "recv"
    /\ ended # Open
    /\ CloudGoTo(Handler, "returned")
    /\ UNCHANGED <<edgeVars, cmu>>

-----------------------------------------------------------------------------
(* Push and conn.send.                                                     *)

Push(p) ==
    /\ cpc[p] = "idle"
    /\ MayAnswer
    /\ CloudGoTo(p, "lock")
    /\ UNCHANGED <<edgeVars, cmu>>

CloudLock(t) ==
    /\ cpc[t] = "lock"
    /\ cmu = NoThread
    /\ cmu' = t
    /\ CloudGoTo(t, "send")
    /\ UNCHANGED edgeVars

(* The deferred Unlock.  Mutant: not after an error of stream.Send. *)
CloudUnlocked_OnSuccess == IF ended = Open THEN NoThread ELSE cmu
CloudUnlocked == NoThread

(* stream.Send waits for flow control, or fails on a stream that ended. *)
CloudSends(t) ==
    /\ cpc[t] = "send"
    /\ \/ Accept /\ UNCHANGED <<loopVars, sendVars, appVars>>
       \/ ended # Open /\ UNCHANGED edgeVars
    /\ cmu' = CloudUnlocked
    /\ CloudGoTo(t, IF t = Handler THEN "recv" ELSE "idle")

HandlerStep == HandlerRecv \/ SkipRenewal \/ Renew \/ HandlerReturns
Cloud == HandlerStep \/ (\E p \in Pushers : Push(p))
                     \/ \E t \in Callers : CloudLock(t) \/ CloudSends(t)

(* The client has no half-close and the handler returns only when Recv has *)
(* failed: between these two ends a stream is always cut.                  *)
DuplexNext == Cloud \/ ((Edge \/ End(Cut)) /\ UNCHANGED cloudVars)

DuplexSpec == DuplexInit /\ [][DuplexNext]_vars

(* The goroutines of both ends run, and waiters get their mutex.  Whether  *)
(* anything is pushed, sent or cut is open.                                *)
DuplexFairness ==
    /\ WF_vars(HandlerStep)
    /\ \A t \in Callers : SF_vars(CloudLock(t)) /\ WF_vars(CloudSends(t))
    /\ WF_vars(RecvLoop /\ UNCHANGED cloudVars)
    /\ \A t \in Senders : /\ SF_vars(LockSend(t) /\ UNCHANGED cloudVars)
                          /\ WF_vars(SendMsg(t) /\ UNCHANGED cloudVars)
    /\ WF_vars((Read \/ SeeEnd) /\ UNCHANGED cloudVars)

DuplexFairSpec == DuplexSpec /\ DuplexFairness

-----------------------------------------------------------------------------
(* Properties.                                                             *)

(* "El Recv de esta sesión nunca se congela por un consumidor lento u otra *)
(* sesión" (cloudlink.go:175-176): the handler comes back to its Recv.     *)
RecvNeverFreezes ==
    cpc[Handler] \notin {"recv", "returned"}
        ~> cpc[Handler] \in {"recv", "returned"}

(* How much slack there is: while what the application has not read, the   *)
(* messages about to be sent included, fits in the two queues and          *)
(* recvLoop's hand, no send of the cloud waits for the application.        *)
Stuck == loop = "put" /\ ~Room /\ Len(down) = Window
Unread == sent + Cardinality(Sending) - Len(read)
SlackSuffices ==
    ended = Open /\ Sending # {} /\ Unread <= Window + RecvCap + 1 => ~Stuck

(* With a reader of its own nobody waits in a circle.  A send of the cloud *)
(* finds the lock free, or its holder can go on, or the Edge can take a    *)
(* message off the way.  A Send of the Edge finds the same, or the handler *)
(* can take a frame off the way, or what the handler waits for can go on.  *)
CloudGoesOn ==
    \/ cmu = NoThread
    \/ \E t \in Callers : cpc[t] = "send" /\ (ended # Open \/ Len(down) < Window)
    \/ loop = "recv" /\ down # <<>>
    \/ loop = "put" /\ (Room \/ (Reading /\ received # <<>>))
EdgeGoesOn ==
    \/ sendMu = NoThread
    \/ \E t \in Senders : pc[t] = "send" /\ (ended # Open \/ Len(up) < Window)
    \/ cpc[Handler] = "recv" /\ ended = Open /\ up # <<>>
    \/ cpc[Handler] = "renew"
    \/ cpc[Handler] \in {"lock", "send"} /\ CloudGoesOn
NoCircle == Reader \notin Senders => CloudGoesOn /\ EdgeGoesOn

(* Every call of Send on the Edge and of Push on the cloud returns. *)
CallsReturn ==
    /\ \A t \in Senders : pc[t] # "idle" ~> pc[t] = "idle"
    /\ \A p \in Pushers : cpc[p] # "idle" ~> cpc[p] = "idle"

(* What the cloud has sent is read, unless the stream is cut before. *)
CommandsAreRead ==
    \A k \in 1..MaxDown : sent >= k ~> Len(read) >= k \/ ended # Open

=============================================================================
