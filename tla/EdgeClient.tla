------------------------------ MODULE EdgeClient ------------------------------
(***************************************************************************)
(* The Edge's end of a stream (src/client/client.go): the goroutine        *)
(* recvLoop, which moves what the stream yields into the channel received  *)
(* and ends by noting the cause and closing the channel; Send, serialized  *)
(* by sendMu; and the application, which reads the channel until it is     *)
(* closed and then asks Err.                                               *)
(*                                                                         *)
(* The stream is gRPC's and external: two FIFO directions with room for    *)
(* Window messages each (flow control), which the cloud ends in order      *)
(* (EOF) or which is cut (network, keepalive, cancelled context).          *)
(***************************************************************************)
EXTENDS Naturals, Sequences

CONSTANTS
    Senders,    \* goroutines of the application that call Send
    Reader,     \* the goroutine that reads Received: one of Senders, or not
    Frames,     \* kinds of edge->cloud message
    NoThread,   \* an unlocked mutex
    NoFrame,    \* the argument of Send outside of it
    Open, EOF, Cut,  \* how the stream stands; Open is also the nil error
    Window,     \* bound: messages in flight in each direction
    RecvCap,    \* capacity of received
    MaxDown     \* bound: messages the cloud sends

ASSUME EdgeClientConstants ==
    /\ NoThread \notin Senders /\ NoFrame \notin Frames
    /\ EOF # Open /\ Cut # Open /\ EOF # Cut
    /\ Window \in Nat \ {0} /\ RecvCap \in Nat \ {0} /\ MaxDown \in Nat

VARIABLES
    ended,             \* how the stream stands
    up, down,          \* its two directions
    sent,              \* how many messages the cloud has sent: their numbers
    loop, msg, cause,  \* recvLoop's label and its locals msg and err
    lastErr,           \* the cause of the end, for Err
    received, closed,  \* the channel
    sendMu, pc, frame, \* Send: mutex, label and argument of each sender
    read, told         \* history: what the application got, and from Err

streamVars == <<ended, up, down, sent>>
loopVars == <<loop, msg, cause, lastErr, received, closed>>
sendVars == <<sendMu, pc, frame>>
appVars == <<read, told>>
edgeVars == <<streamVars, loopVars, sendVars, appVars>>

Ends == {EOF, Cut}

TypeOK ==
    /\ ended \in Ends \cup {Open}
    /\ up \in Seq(Frames) /\ down \in Seq(Nat)
    /\ Len(up) <= Window /\ Len(down) <= Window
    /\ sent \in Nat
    /\ loop \in {"recv", "put", "fail", "close", "done"}
    /\ msg \in Nat
    /\ cause \in Ends \cup {Open} /\ lastErr \in Ends \cup {Open}
    /\ received \in Seq(Nat) /\ Len(received) <= RecvCap
    /\ closed \in BOOLEAN
    /\ sendMu \in Senders \cup {NoThread}
    /\ pc \in [Senders -> {"idle", "lock", "send"}]
    /\ frame \in [Senders -> Frames \cup {NoFrame}]
    /\ \A t \in Senders : pc[t] # "idle" => frame[t] \in Frames
    /\ read \in Seq(Nat)
    /\ told \in Ends \cup {Open}

(* New has opened the stream, made the channel and started recvLoop. *)
Init ==
    /\ ended = Open /\ up = <<>> /\ down = <<>> /\ sent = 0
    /\ loop = "recv" /\ msg = 0 /\ cause = Open
    /\ lastErr = Open
    /\ received = <<>> /\ closed = FALSE
    /\ sendMu = NoThread
    /\ pc = [t \in Senders |-> "idle"]
    /\ frame = [t \in Senders |-> NoFrame]
    /\ read = <<>> /\ told = Open

-----------------------------------------------------------------------------
(* The cloud and the network.                                              *)

(* What stream.Send of the cloud does with its next message.               *)
Accept ==
    /\ ended = Open
    /\ Len(down) < Window
    /\ sent' = sent + 1
    /\ down' = Append(down, sent + 1)
    /\ UNCHANGED <<ended, up>>

CloudSend == sent < MaxDown /\ Accept /\ UNCHANGED <<loopVars, sendVars, appVars>>

(* Frames that came before an end may still reach the cloud's Recv. *)
CloudRecv ==
    /\ up # <<>>
    /\ up' = Tail(up)
    /\ UNCHANGED <<ended, down, sent, loopVars, sendVars, appVars>>

End(how) ==
    /\ ended = Open
    /\ ended' = how
    /\ UNCHANGED <<up, down, sent, loopVars, sendVars, appVars>>

-----------------------------------------------------------------------------
(* recvLoop.                                                               *)

RecvMsg ==
    /\ loop = "recv"
    /\ down # <<>>
    /\ msg' = Head(down)
    /\ down' = Tail(down)
    /\ loop' = "put"
    /\ UNCHANGED <<ended, up, sent, cause, lastErr, received, closed>>

(* Mutant of Room: one place too few. *)
Room_OneLess == Len(received) + 1 < RecvCap
Room == Len(received) < RecvCap

(* c.received <- msg waits for room.  Mutant: it drops, as deliver does.   *)
Put_Drops ==
    /\ loop = "put"
    /\ received' = IF Room THEN Append(received, msg)
                            ELSE received
    /\ loop' = "recv"
    /\ UNCHANGED <<streamVars, msg, cause, lastErr, closed>>
Put ==
    /\ loop = "put"
    /\ Room
    /\ received' = Append(received, msg)
    /\ loop' = "recv"
    /\ UNCHANGED <<streamVars, msg, cause, lastErr, closed>>

(* The stream yields an orderly end after its last message; a cut may or   *)
(* may not let the messages through that had arrived.                      *)
Yielded == ended = Cut \/ (ended = EOF /\ down = <<>>)

(* Where an error of Recv leads.  Mutants: the cause is not noted; the     *)
(* loop goes on as if the next Recv could do better.                       *)
OnErr_Close == "close"
OnErr_Retry == "recv"
OnErr == "fail"

RecvErr ==
    /\ loop = "recv"
    /\ Yielded
    /\ cause' = ended
    /\ down' = <<>>
    /\ loop' = OnErr
    /\ UNCHANGED <<ended, up, sent, msg, lastErr, received, closed>>

(* lastErr = err, under errMu. *)
SetErr ==
    /\ loop = "fail"
    /\ lastErr' = cause
    /\ loop' = "close"
    /\ UNCHANGED <<streamVars, msg, cause, received, closed>>

(* The deferred close(c.received). *)
CloseReceived ==
    /\ loop = "close"
    /\ closed' = TRUE
    /\ loop' = "done"
    /\ UNCHANGED <<streamVars, msg, cause, lastErr, received>>

RecvLoop ==
    /\ RecvMsg \/ Put \/ RecvErr \/ SetErr \/ CloseReceived
    /\ UNCHANGED <<sendVars, appVars>>

-----------------------------------------------------------------------------
(* Send, by goroutine t.                                                   *)

GoTo(t, label) == pc' = [pc EXCEPT ![t] = label]

CallSend(t, f) ==
    /\ pc[t] = "idle"
    /\ GoTo(t, "lock")
    /\ frame' = [frame EXCEPT ![t] = f]
    /\ UNCHANGED <<streamVars, loopVars, sendMu, appVars>>

Free == sendMu = NoThread

LockSend(t) ==
    /\ pc[t] = "lock"
    /\ Free
    /\ sendMu' = t
    /\ GoTo(t, "send")
    /\ UNCHANGED <<streamVars, loopVars, frame, appVars>>

(* Send returns stream.Send's error.  Mutant: it tries again instead. *)
AfterSend_Retry == IF ended = Open THEN "idle" ELSE "lock"
AfterSend == "idle"

(* stream.Send waits for flow control; once the stream has ended it fails, *)
(* or still takes a message that is lost.                                  *)
SendMsg(t) ==
    /\ pc[t] = "send"
    /\ \/ ended = Open /\ Len(up) < Window /\ up' = Append(up, frame[t])
       \/ ended # Open /\ UNCHANGED up
    /\ sendMu' = NoThread
    /\ GoTo(t, AfterSend)
    /\ frame' = [frame EXCEPT ![t] = NoFrame]
    /\ UNCHANGED <<ended, down, sent, loopVars, appVars>>

Send(t) == LockSend(t) \/ SendMsg(t) \/ \E f \in Frames : CallSend(t, f)

-----------------------------------------------------------------------------
(* The application: for msg := range c.Received(), then c.Err().           *)

(* A goroutine that is inside Send is not reading. *)
Reading == Reader \in Senders => pc[Reader] = "idle"

Read ==
    /\ Reading
    /\ received # <<>>
    /\ read' = Append(read, Head(received))
    /\ received' = Tail(received)
    /\ UNCHANGED <<streamVars, loop, msg, cause, lastErr, closed, sendVars, told>>

(* The channel is empty and closed: the loop is left and Err is called. *)
SeeEnd ==
    /\ Reading
    /\ received = <<>> /\ closed /\ told = Open
    /\ told' = lastErr
    /\ UNCHANGED <<streamVars, loopVars, sendVars, read>>

Edge == RecvLoop \/ Read \/ SeeEnd \/ \E t \in Senders : Send(t)

Next == Edge \/ CloudSend \/ CloudRecv \/ \E how \in Ends : End(how)

Spec == Init /\ [][Next]_edgeVars

(* recvLoop and what is inside Send run; a waiter gets sendMu in the end.  *)
(* When the application calls Send, and whether it reads, is its affair.   *)
EdgeFairness ==
    /\ WF_edgeVars(RecvLoop)
    /\ \A t \in Senders : SF_edgeVars(LockSend(t)) /\ WF_edgeVars(SendMsg(t))
ReaderFairness == WF_edgeVars(Read) /\ WF_edgeVars(SeeEnd)

FairSpec == Spec /\ EdgeFairness /\ ReaderFairness

-----------------------------------------------------------------------------
(* Properties.                                                             *)

(* Err is nil while the stream lives, and a reader that has seen the close *)
(* finds the cause there, the one the stream ended with (H5).              *)
ErrTellsTheEnd ==
    /\ closed => lastErr # Open
    /\ lastErr # Open => lastErr = ended

(* The application reads the cloud's messages in order and with no gap;    *)
(* one that is told of an orderly end has them all.                        *)
NothingMissing ==
    /\ \A i \in 1..Len(read) : read[i] = i
    /\ told = EOF => Len(read) = sent

(* stream.Send is not safe for concurrent use. *)
SendsSerialized ==
    \A t, u \in Senders : pc[t] = "send" /\ pc[u] = "send" => t = u

(* When the stream has ended, a reader that goes on is told so, and every  *)
(* Send that waited for flow control returns.                              *)
EndIsSeen == ended # Open ~> told = ended /\ loop = "done"
SendsEnd == \A t \in Senders : ended # Open /\ pc[t] # "idle" ~> pc[t] = "idle"

(* Received is a FIFO that ends with its cause. *)
Held == IF loop = "put" THEN 1 ELSE 0
Kept == Len(read) + Len(received) + Held + Len(down)
Fifo == INSTANCE EndingFifo WITH kept <- Kept, end <- ended, over <- told
ImplementsEndingFifo == Fifo!Spec

=============================================================================
