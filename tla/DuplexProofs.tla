----------------------------- MODULE DuplexProofs -----------------------------
(***************************************************************************)
(* Proofs about the Edge's client, over any stream and then over the one   *)
(* whose other end is the cloud: for any number of senders and pushers,    *)
(* any flow control windows, any capacity of the channel and any number of *)
(* messages.                                                               *)
(***************************************************************************)
EXTENDS Duplex, FiniteSetTheorems, TLAPS

USE EdgeClientConstants

-----------------------------------------------------------------------------
(* EdgeClient.                                                             *)

(* How far recvLoop has come with the end of the stream. *)
Ending ==
    /\ cause = (IF loop \in {"recv", "put"} THEN Open ELSE ended)
    /\ loop \notin {"recv", "put"} => ended # Open /\ down = <<>>
    /\ lastErr = (IF loop \in {"close", "done"} THEN cause ELSE Open)
    /\ closed = (loop = "done")
    /\ told # Open => closed /\ told = cause /\ received = <<>>

(* The messages that were read, that are in the channel, in recvLoop's     *)
(* hand and on the stream are numbered through; all of them are there      *)
(* unless a cut has been noticed.                                          *)
Numbered ==
    /\ \A i \in 1..Len(read) : read[i] = i
    /\ \A i \in 1..Len(received) : received[i] = Len(read) + i
    /\ loop = "put" => msg = Len(read) + Len(received) + 1
    /\ \A i \in 1..Len(down) : down[i] = Len(read) + Len(received) + Held + i
    /\ cause # Cut => Kept = sent

Locked == \A t \in Senders : pc[t] = "send" => sendMu = t

IInv == TypeOK /\ Ending /\ Numbered /\ Locked

-----------------------------------------------------------------------------
LEMMA KeptTyped ==
  ASSUME TypeOK
  PROVE  /\ Len(read) \in Nat /\ Len(received) \in Nat /\ Len(down) \in Nat
         /\ Held \in {0, 1} /\ Kept \in Nat
  BY DEF TypeOK, Held, Kept

LEMMA IInit == Init => IInv
<1> SUFFICES ASSUME Init PROVE IInv
  OBVIOUS
<1>1. TypeOK
  <2>1. /\ pc \in [Senders -> {"idle", "lock", "send"}]
        /\ frame \in [Senders -> Frames \cup {NoFrame}]
        /\ \A t \in Senders : pc[t] = "idle"
    BY DEF Init
  <2>2. /\ up \in Seq(Frames) /\ down \in Seq(Nat)
        /\ Len(up) <= Window /\ Len(down) <= Window
    BY DEF Init
  <2>3. /\ received \in Seq(Nat) /\ Len(received) <= RecvCap
        /\ read \in Seq(Nat)
    BY DEF Init
  <2>4. sent \in Nat /\ msg \in Nat
    BY DEF Init
  <2> QED
    BY <2>1, <2>2, <2>3, <2>4 DEF Init, TypeOK
<1>2. Ending /\ Locked
  BY DEF Init, Ending, Locked
<1>3. Numbered
  BY DEF Init, Numbered, Held, Kept
<1> QED
  BY <1>1, <1>2, <1>3 DEF IInv

LEMMA AcceptTyped ==
  ASSUME TypeOK, Accept
  PROVE  /\ sent' = sent + 1 /\ sent' \in Nat
         /\ down' \in Seq(Nat) /\ Len(down') = Len(down) + 1 /\ Len(down') <= Window
         /\ \A i \in 1..Len(down) : down'[i] = down[i]
         /\ down'[Len(down) + 1] = sent + 1
  BY DEF TypeOK, Accept

(* A message that the cloud's stream.Send accepts, whoever sends it. *)
LEMMA AcceptKeeps ==
  ASSUME IInv, Accept, UNCHANGED <<loopVars, sendVars, appVars>>
  PROVE  IInv'
<1> USE DEF loopVars, sendVars, appVars
<1>1. TypeOK'
  BY AcceptTyped DEF IInv, TypeOK, Accept, Ends
<1>2. Ending'
  BY DEF IInv, Ending, Accept
<1>3. Numbered'
  <2>1. ended = Open /\ loop \in {"recv", "put"} /\ cause # Cut
    BY DEF IInv, TypeOK, Ending, Accept
  <2>2. Kept = sent /\ Held \in {0, 1}
    BY <2>1 DEF IInv, Numbered, Held
  <2>3. Held' = Held
    BY DEF Held
  <2>4. /\ Len(read) \in Nat /\ Len(received) \in Nat /\ Len(down) \in Nat
        /\ Len(down') = Len(down) + 1 /\ sent' = sent + 1 /\ sent \in Nat
    BY KeptTyped, AcceptTyped DEF IInv, TypeOK
  <2>5. Kept' = sent'
    BY <2>2, <2>3, <2>4 DEF Kept
  <2>6. \A i \in 1..Len(down') : down'[i] = Len(read) + Len(received) + Held + i
    <3>1. down'[Len(down) + 1] = Len(read) + Len(received) + Held + (Len(down) + 1)
      BY <2>2, <2>4, AcceptTyped DEF IInv, Kept
    <3>2. \A i \in 1..Len(down) : down'[i] = Len(read) + Len(received) + Held + i
      BY AcceptTyped DEF IInv, Numbered
    <3> QED
      BY <2>4, <3>1, <3>2
  <2> QED
    BY <2>1, <2>3, <2>5, <2>6 DEF IInv, Numbered
<1>4. Locked'
  BY DEF IInv, Locked
<1> QED
  BY <1>1, <1>2, <1>3, <1>4 DEF IInv

LEMMA CloudKeeps ==
  ASSUME IInv, CloudRecv \/ \E how \in Ends : End(how)
  PROVE  IInv'
<1> USE DEF loopVars, sendVars, appVars
<1>1. TypeOK'
  <2>1. CASE CloudRecv
    <3>1. up' \in Seq(Frames) /\ Len(up') <= Window
      BY <2>1 DEF IInv, TypeOK, CloudRecv
    <3> QED
      BY <2>1, <3>1 DEF IInv, TypeOK, CloudRecv
  <2>2. CASE \E how \in Ends : End(how)
    BY <2>2 DEF IInv, TypeOK, End
  <2> QED
    BY <2>1, <2>2
<1>2. Ending'
  BY DEF IInv, Ending, CloudRecv, End, Ends
<1>3. Numbered' /\ Locked'
  BY DEF IInv, Numbered, Locked, Held, Kept, CloudRecv, End
<1> QED
  BY <1>1, <1>2, <1>3 DEF IInv

LEMMA RecvMsgKeeps ==
  ASSUME IInv, RecvMsg, UNCHANGED <<sendVars, appVars>>
  PROVE  IInv'
<1> USE DEF sendVars, appVars
<1>1. /\ down' \in Seq(Nat) /\ Len(down') = Len(down) - 1 /\ Len(down) > 0
      /\ msg' = down[1] /\ msg' \in Nat
      /\ \A i \in 1..Len(down') : down'[i] = down[i + 1]
  BY DEF IInv, TypeOK, RecvMsg
<1>2. TypeOK'
  BY <1>1 DEF IInv, TypeOK, RecvMsg, Ends
<1>3. Ending'
  BY DEF IInv, Ending, RecvMsg
<1>4. Numbered'
  <2>1. Held = 0 /\ Held' = 1
    BY DEF RecvMsg, Held
  <2>2. Len(read) \in Nat /\ Len(received) \in Nat /\ Len(down) \in Nat
    BY KeptTyped DEF IInv
  <2>3. UNCHANGED <<read, received, sent, cause>>
    BY DEF RecvMsg
  <2>4. msg' = Len(read) + Len(received) + 1
    <3>1. 1 \in 1..Len(down)
      BY <1>1, <2>2
    <3>2. down[1] = Len(read) + Len(received) + Held + 1
      BY <3>1 DEF IInv, Numbered
    <3> QED
      BY <1>1, <2>1, <2>2, <3>2
  <2>5. \A i \in 1..Len(down') : down'[i] = Len(read) + Len(received) + 1 + i
    <3> SUFFICES ASSUME NEW i \in 1..Len(down')
                 PROVE  down'[i] = Len(read) + Len(received) + 1 + i
      OBVIOUS
    <3>1. i + 1 \in 1..Len(down) /\ down'[i] = down[i + 1]
      BY <1>1, <2>2
    <3>2. down[i + 1] = Len(read) + Len(received) + Held + (i + 1)
      BY <3>1 DEF IInv, Numbered
    <3> QED
      BY <2>1, <2>2, <3>1, <3>2
  <2>6. Kept' = Kept
    BY <1>1, <2>1, <2>2, <2>3 DEF Kept
  <2> QED
    BY <2>1, <2>3, <2>4, <2>5, <2>6 DEF IInv, Numbered
<1>5. Locked'
  BY DEF IInv, Locked, RecvMsg
<1> QED
  BY <1>2, <1>3, <1>4, <1>5 DEF IInv

LEMMA PutKeeps ==
  ASSUME IInv, Put, UNCHANGED <<sendVars, appVars>>
  PROVE  IInv'
<1> USE DEF sendVars, appVars
<1>1. /\ received' \in Seq(Nat) /\ Len(received') = Len(received) + 1
      /\ Len(received') <= RecvCap
      /\ \A i \in 1..Len(received) : received'[i] = received[i]
      /\ received'[Len(received) + 1] = msg
  BY DEF IInv, TypeOK, Put, Room
<1>2. TypeOK'
  BY <1>1 DEF IInv, TypeOK, Put, streamVars, Ends
<1>3. Ending'
  BY DEF IInv, Ending, Put, streamVars
<1>4. Numbered'
  <2>1. Held = 1 /\ Held' = 0
    BY DEF Put, Held
  <2>2. Len(read) \in Nat /\ Len(received) \in Nat /\ Len(down) \in Nat
    BY KeptTyped DEF IInv
  <2>3. UNCHANGED <<read, down, sent, cause>> /\ loop = "put" /\ loop' = "recv"
    BY DEF Put, streamVars
  <2>4. \A i \in 1..Len(received') : received'[i] = Len(read) + i
    <3>1. received'[Len(received) + 1] = Len(read) + (Len(received) + 1)
      BY <1>1, <2>2, <2>3 DEF IInv, Numbered
    <3>2. \A i \in 1..Len(received) : received'[i] = Len(read) + i
      BY <1>1 DEF IInv, Numbered
    <3>3. \A i \in 1..Len(received') : i \in 1..Len(received) \/ i = Len(received) + 1
      BY <1>1, <2>2
    <3> QED
      BY <3>1, <3>2, <3>3
  <2>5. Kept' = Kept
    BY <1>1, <2>1, <2>2, <2>3 DEF Kept
  <2>6. \A i \in 1..Len(down) :
            down[i] = Len(read) + Len(received') + Held' + i
    <3>1. Len(read) + Len(received') + Held' = Len(read) + Len(received) + Held
      BY <1>1, <2>1, <2>2
    <3> QED
      BY <3>1 DEF IInv, Numbered
  <2> QED
    BY <2>3, <2>4, <2>5, <2>6 DEF IInv, Numbered
<1>5. Locked'
  BY DEF IInv, Locked, Put, streamVars
<1> QED
  BY <1>2, <1>3, <1>4, <1>5 DEF IInv

LEMMA EndKeeps ==
  ASSUME IInv, RecvErr \/ SetErr \/ CloseReceived, UNCHANGED <<sendVars, appVars>>
  PROVE  IInv'
<1> USE DEF sendVars, appVars, streamVars, OnErr, Yielded
<1>1. TypeOK'
  <2>1. CASE RecvErr
    <3>1. cause' \in Ends \cup {Open} /\ down' \in Seq(Nat) /\ Len(down') <= Window
      BY <2>1 DEF IInv, TypeOK, RecvErr
    <3> QED
      BY <2>1, <3>1 DEF IInv, TypeOK, RecvErr
  <2>2. CASE SetErr \/ CloseReceived
    BY <2>2 DEF IInv, TypeOK, SetErr, CloseReceived
  <2> QED
    BY <2>1, <2>2
<1>2. Ending'
  BY DEF IInv, TypeOK, Ending, RecvErr, SetErr, CloseReceived
<1>3. Numbered'
  <2>1. CASE RecvErr
    <3>1. /\ Held = 0 /\ Held' = 0 /\ down' = <<>> /\ cause = Open /\ loop' = "fail"
          /\ UNCHANGED <<read, received, sent>>
      BY <2>1 DEF RecvErr, Held, IInv, Ending
    <3>2. cause' # Cut => down' = down
      BY <2>1 DEF RecvErr
    <3>3. cause' # Cut => Kept' = sent'
      BY <3>1, <3>2 DEF IInv, Numbered, Kept
    <3>4. \A i \in 1..Len(down') :
              down'[i] = Len(read') + Len(received') + Held' + i
      BY <3>1
    <3> QED
      BY <3>1, <3>3, <3>4 DEF IInv, Numbered
  <2>2. CASE SetErr \/ CloseReceived
    BY <2>2 DEF IInv, Numbered, Held, Kept, SetErr, CloseReceived
  <2> QED
    BY <2>1, <2>2
<1>4. Locked'
  BY DEF IInv, Locked, RecvErr, SetErr, CloseReceived
<1> QED
  BY <1>1, <1>2, <1>3, <1>4 DEF IInv

LEMMA SendKeeps ==
  ASSUME IInv, NEW t \in Senders, Send(t)
  PROVE  IInv'
<1> USE DEF appVars, loopVars, streamVars, GoTo
<1>1. TypeOK'
  <2>1. CASE LockSend(t)
    BY <2>1 DEF IInv, TypeOK, LockSend
  <2>2. CASE SendMsg(t)
    <3>0. frame[t] \in Frames /\ up \in Seq(Frames) /\ Len(up) <= Window
      BY <2>2 DEF IInv, TypeOK, SendMsg
    <3>1. up' \in Seq(Frames) /\ Len(up') <= Window
      BY <2>2, <3>0 DEF SendMsg
    <3>2. /\ pc' = [pc EXCEPT ![t] = "idle"] /\ frame' = [frame EXCEPT ![t] = NoFrame]
          /\ sendMu' = NoThread
      BY <2>2 DEF SendMsg, AfterSend
    <3> QED
      BY <2>2, <3>1, <3>2 DEF IInv, TypeOK, SendMsg
  <2>3. CASE \E f \in Frames : CallSend(t, f)
    BY <2>3 DEF IInv, TypeOK, CallSend, sendVars, Ends
  <2> QED
    BY <2>1, <2>2, <2>3 DEF Send
<1>2. Ending' /\ Numbered'
  <2>1. UNCHANGED <<ended, down, sent, loop, msg, cause, lastErr, received, closed, read, told>>
    BY DEF Send, LockSend, SendMsg, CallSend
  <2> QED
    BY <2>1 DEF IInv, Ending, Numbered, Held, Kept
<1>3. Locked'
  <2>0. pc \in [Senders -> {"idle", "lock", "send"}]
    BY DEF IInv, TypeOK
  <2>1. CASE LockSend(t)
    BY <2>0, <2>1 DEF IInv, Locked, LockSend, Free
  <2>2. CASE SendMsg(t)
    BY <2>0, <2>2 DEF IInv, Locked, SendMsg, AfterSend
  <2>3. CASE \E f \in Frames : CallSend(t, f)
    BY <2>0, <2>3 DEF IInv, Locked, CallSend
  <2> QED
    BY <2>1, <2>2, <2>3 DEF Send
<1> QED
  BY <1>1, <1>2, <1>3 DEF IInv

LEMMA ReadKeeps ==
  ASSUME IInv, Read
  PROVE  IInv'
<1> USE DEF streamVars, sendVars
<1>1. /\ received' \in Seq(Nat) /\ Len(received') = Len(received) - 1
      /\ Len(received) > 0
      /\ \A i \in 1..Len(received') : received'[i] = received[i + 1]
      /\ read' \in Seq(Nat) /\ Len(read') = Len(read) + 1
      /\ \A i \in 1..Len(read) : read'[i] = read[i]
      /\ read'[Len(read) + 1] = received[1]
  BY DEF IInv, TypeOK, Read
<1>2. TypeOK'
  BY <1>1 DEF IInv, TypeOK, Read, Ends
<1>3. Ending'
  BY DEF IInv, Ending, Read
<1>4. Numbered'
  <2>1. Held' = Held /\ Held \in {0, 1}
    BY DEF Read, Held
  <2>2. Len(read) \in Nat /\ Len(received) \in Nat /\ Len(down) \in Nat
    BY KeptTyped DEF IInv
  <2>3. \A i \in 1..Len(read') : i \in 1..Len(read) \/ i = Len(read) + 1
    BY <1>1, <2>2
  <2>4. /\ \A i \in 1..Len(read) : read[i] = i
        /\ \A i \in 1..Len(received) : received[i] = Len(read) + i
    BY DEF IInv, Numbered
  <2>5. \A i \in 1..Len(read') : read'[i] = i
    <3>1. 1 \in 1..Len(received)
      BY <1>1, <2>2
    <3>2. read'[Len(read) + 1] = Len(read) + 1
      BY <1>1, <2>4, <3>1
    <3> QED
      BY <1>1, <2>3, <2>4, <3>2
  <2>6. \A i \in 1..Len(received') : received'[i] = Len(read') + i
    BY <1>1, <2>2, <2>4
  <2>7. UNCHANGED <<loop, msg, down, cause, sent>>
    BY DEF Read
  <2> QED
    BY <1>1, <2>1, <2>2, <2>5, <2>6, <2>7 DEF IInv, Numbered, Kept
<1>5. Locked'
  BY DEF IInv, Locked, Read
<1> QED
  BY <1>2, <1>3, <1>4, <1>5 DEF IInv

LEMMA SeeEndKeeps ==
  ASSUME IInv, SeeEnd
  PROVE  IInv'
<1> USE DEF streamVars, sendVars, loopVars
<1>1. TypeOK'
  BY DEF IInv, TypeOK, SeeEnd, Ends
<1>2. Ending' /\ Numbered' /\ Locked'
  BY DEF IInv, Ending, Numbered, Locked, Held, Kept, SeeEnd
<1> QED
  BY <1>1, <1>2 DEF IInv

LEMMA Step == IInv /\ [Next]_edgeVars => IInv'
<1> SUFFICES ASSUME IInv, [Next]_edgeVars PROVE IInv'
  OBVIOUS
<1>1. CASE RecvLoop
  BY <1>1, RecvMsgKeeps, PutKeeps, EndKeeps DEF RecvLoop
<1>2. CASE Read \/ SeeEnd
  BY <1>2, ReadKeeps, SeeEndKeeps
<1>3. CASE \E t \in Senders : Send(t)
  BY <1>3, SendKeeps
<1>4. CASE CloudSend
  BY <1>4, AcceptKeeps DEF CloudSend
<1>5. CASE CloudRecv \/ \E how \in Ends : End(how)
  BY <1>5, CloudKeeps
<1>6. CASE UNCHANGED edgeVars
  BY <1>6 DEF IInv, TypeOK, Ending, Numbered, Locked, Held, Kept, edgeVars,
              streamVars, loopVars, sendVars, appVars
<1> QED
  BY <1>1, <1>2, <1>3, <1>4, <1>5, <1>6 DEF Next, Edge

LEMMA Inductive == Spec => []IInv
  BY IInit, Step, PTL DEF Spec

-----------------------------------------------------------------------------
(* Every variable keeps its type, and no queue exceeds its capacity. *)
THEOREM TypeCorrect == Spec => []TypeOK
<1>1. IInv => TypeOK
  BY DEF IInv
<1> QED
  BY Inductive, <1>1, PTL

(* Err is nil on a live stream, and the cause of the end once Received is  *)
(* closed.                                                                 *)
THEOREM CauseBeforeClose == Spec => []ErrTellsTheEnd
<1>1. IInv => ErrTellsTheEnd
  BY DEF IInv, Ending, ErrTellsTheEnd
<1> QED
  BY Inductive, <1>1, PTL

(* The application reads every message in order; an orderly end is only    *)
(* told when all were read.                                                *)
THEOREM ReadsEverything == Spec => []NothingMissing
<1>1. IInv => NothingMissing
  <2> SUFFICES ASSUME IInv, told = EOF PROVE Len(read) = sent
    BY DEF NothingMissing, IInv, Numbered
  <2>1. received = <<>> /\ down = <<>> /\ loop = "done" /\ cause = EOF
    BY DEF IInv, Ending
  <2>2. Kept = sent /\ Held = 0
    BY <2>1 DEF IInv, Numbered, Held
  <2> QED
    BY <2>1, <2>2 DEF Kept, IInv, TypeOK
<1> QED
  BY Inductive, <1>1, PTL

(* stream.Send never runs twice at a time. *)
THEOREM SendMutex == Spec => []SendsSerialized
<1>1. IInv => SendsSerialized
  BY DEF IInv, Locked, SendsSerialized
<1> QED
  BY Inductive, <1>1, PTL

-----------------------------------------------------------------------------
(* The refinement. *)

LEMMA FifoInit == Init => Fifo!Init
  BY DEF Init, Fifo!Init, Kept, Held

LEMMA AcceptPuts ==
  ASSUME IInv, Accept, UNCHANGED <<loopVars, sendVars, appVars>>
  PROVE  Fifo!Put
  BY KeptTyped, AcceptTyped DEF IInv, Accept, Fifo!Put, Kept, Held, loopVars, appVars

LEMMA ReadTakes ==
  ASSUME IInv, Read
  PROVE  Fifo!Take
<1>1. Len(received) > 0 /\ received[1] = Len(read) + 1
      /\ Len(received') = Len(received) - 1 /\ Len(read') = Len(read) + 1
      /\ read' = Append(read, received[1])
  BY DEF IInv, TypeOK, Numbered, Read
<1>2. Kept' = Kept
  BY <1>1, KeptTyped DEF IInv, Read, Kept, Held, streamVars
<1> QED
  BY <1>1, <1>2, KeptTyped DEF IInv, Read, Fifo!Take, Kept, streamVars

LEMMA SeeEndTells ==
  ASSUME IInv, SeeEnd
  PROVE  Fifo!TellEnd
<1>1. /\ received = <<>> /\ down = <<>> /\ loop = "done" /\ told = Open
      /\ ended # Open /\ told' = ended
  BY DEF IInv, Ending, SeeEnd
<1>2. Kept = Len(read) /\ Kept' = Kept
  BY <1>1, KeptTyped DEF IInv, Kept, Held, SeeEnd, streamVars, loopVars
<1> QED
  BY <1>1, <1>2 DEF SeeEnd, Fifo!TellEnd, streamVars

(* recvLoop moves messages on; on a cut it may throw away the last ones. *)
LEMMA LoopLosesAtMost ==
  ASSUME IInv, RecvLoop
  PROVE  Fifo!Lose \/ UNCHANGED Fifo!vars
<1> USE DEF sendVars, appVars, streamVars
<1>1. UNCHANGED <<sent, read, ended, told>>
  BY DEF RecvLoop, RecvMsg, Put, RecvErr, SetErr, CloseReceived
<1>2. CASE RecvMsg
  <2>1. Len(down') = Len(down) - 1 /\ Len(down) > 0
    BY <1>2 DEF IInv, TypeOK, RecvMsg
  <2>2. Kept' = Kept
    BY <1>1, <1>2, <2>1, KeptTyped DEF IInv, RecvMsg, Kept, Held
  <2> QED
    BY <1>1, <2>2 DEF Fifo!vars
<1>3. CASE Put
  <2>1. Len(received') = Len(received) + 1
    BY <1>3 DEF IInv, TypeOK, Put
  <2>2. Kept' = Kept
    BY <1>1, <1>3, <2>1, KeptTyped DEF IInv, Put, Kept, Held
  <2> QED
    BY <1>1, <2>2 DEF Fifo!vars
<1>4. CASE RecvErr
  <2>1. down' = <<>> /\ Len(down') = 0 /\ Held = 0 /\ Held' = 0 /\ received' = received
    BY <1>4 DEF RecvErr, Held, OnErr
  <2>2. Kept' = Len(read) + Len(received) /\ Kept = Len(read) + Len(received) + Len(down)
    BY <1>1, <2>1, KeptTyped DEF IInv, Kept
  <2>3. ended = Cut \/ Kept' = Kept
    BY <1>4, <2>2, KeptTyped DEF IInv, RecvErr, Yielded
  <2>4. Kept' \in Len(read)..Kept
    BY <2>2, KeptTyped DEF IInv
  <2> QED
    BY <1>1, <2>3, <2>4 DEF Fifo!Lose, Fifo!vars
<1>5. CASE SetErr \/ CloseReceived
  <2>1. Kept' = Kept
    BY <1>1, <1>5 DEF SetErr, CloseReceived, Kept, Held
  <2> QED
    BY <1>1, <2>1 DEF Fifo!vars
<1> QED
  BY <1>2, <1>3, <1>4, <1>5 DEF RecvLoop

LEMMA OthersStutter ==
  ASSUME IInv, CloudRecv \/ (\E t \in Senders : Send(t)) \/ UNCHANGED edgeVars
  PROVE  UNCHANGED Fifo!vars
<1>1. UNCHANGED <<ended, down, sent, loop, received, read, told>>
  BY DEF CloudRecv, Send, LockSend, SendMsg, CallSend, edgeVars, streamVars,
         loopVars, sendVars, appVars
<1> QED
  BY <1>1 DEF Fifo!vars, Kept, Held

LEMMA EndEnds ==
  ASSUME \E how \in Ends : End(how)
  PROVE  Fifo!End
  BY DEF End, Ends, Fifo!End, Kept, Held, loopVars, appVars

LEMMA FifoStep == IInv /\ [Next]_edgeVars => [Fifo!Next]_(Fifo!vars)
<1> SUFFICES ASSUME IInv, [Next]_edgeVars PROVE Fifo!Next \/ UNCHANGED Fifo!vars
  OBVIOUS
<1>1. CASE RecvLoop
  BY <1>1, LoopLosesAtMost DEF Fifo!Next
<1>2. CASE Read
  BY <1>2, ReadTakes DEF Fifo!Next
<1>3. CASE SeeEnd
  BY <1>3, SeeEndTells DEF Fifo!Next
<1>4. CASE CloudSend
  BY <1>4, AcceptPuts DEF CloudSend, Fifo!Next
<1>5. CASE \E how \in Ends : End(how)
  BY <1>5, EndEnds DEF Fifo!Next
<1>6. CASE CloudRecv \/ (\E t \in Senders : Send(t)) \/ UNCHANGED edgeVars
  BY <1>6, OthersStutter
<1> QED
  BY <1>1, <1>2, <1>3, <1>4, <1>5, <1>6 DEF Next, Edge

(* The client is a FIFO of the cloud's messages that ends with its cause. *)
THEOREM EndingFifoImplemented == Spec => ImplementsEndingFifo
<1>1. Spec => Fifo!Init
  BY FifoInit DEF Spec
<1> QED
  BY <1>1, Inductive, FifoStep, PTL DEF Spec, ImplementsEndingFifo, Fifo!Spec

-----------------------------------------------------------------------------
(* Duplex.                                                                 *)

USE DuplexConstants

(* The part of DuplexTypeOK that is the cloud's. *)
CloudTyped ==
    /\ cmu \in Callers \cup {NoThread}
    /\ cpc \in [Callers -> {"recv", "renew", "idle", "lock", "send", "returned"}]

Budget == sent + Cardinality(Sending) <= MaxDown

DInv == CloudTyped /\ Budget

LEMMA SendingFinite ==
  IsFiniteSet(Sending) /\ Cardinality(Sending) \in Nat
<1>1. IsFiniteSet(Callers)
  BY FS_AddElement DEF Callers
<1>2. Sending \subseteq Callers
  BY DEF Sending
<1> QED
  BY <1>1, <1>2, FS_Subset, FS_CardinalityType

(* How a goroutine of the cloud that goes on changes the set of senders. *)
LEMMA SendingMoves ==
  ASSUME CloudTyped, NEW t \in Callers, NEW label, CloudGoTo(t, label)
  PROVE  Sending' = IF label \in {"lock", "send"} THEN Sending \cup {t}
                                                  ELSE Sending \ {t}
<1>1. \A u \in Callers : cpc'[u] = IF u = t THEN label ELSE cpc[u]
  BY DEF CloudGoTo, CloudTyped
<1>2. \A u \in Callers : u \in Sending' <=> cpc'[u] \in {"lock", "send"}
  BY DEF Sending
<1>3. \A u \in Callers : u \in Sending <=> cpc[u] \in {"lock", "send"}
  BY DEF Sending
<1>4. Sending \subseteq Callers /\ Sending' \subseteq Callers
  BY DEF Sending
<1> QED
  BY <1>1, <1>2, <1>3, <1>4

LEMMA HandlerIsCaller == Handler \in Callers /\ Pushers \subseteq Callers
  BY DEF Callers

-----------------------------------------------------------------------------
(* Every step of the cloud keeps to the labels and to the bound, and is    *)
(* one that EdgeClient reckons with.                                       *)

CloudStepOK == DInv' /\ (CloudSend \/ CloudRecv \/ UNCHANGED edgeVars)

LEMMA DInit == DuplexInit => DInv
<1> SUFFICES ASSUME DuplexInit PROVE DInv
  OBVIOUS
<1>1. CloudTyped
  BY DEF DuplexInit, CloudTyped
<1>2. Sending = {}
  BY DEF DuplexInit, Sending
<1> QED
  BY <1>1, <1>2, FS_EmptySet DEF DInv, Budget, DuplexInit, Init

LEMMA HandlerSteps ==
  ASSUME DInv, TypeOK, HandlerRecv \/ SkipRenewal \/ HandlerReturns
  PROVE  CloudStepOK
<1>1. PICK label \in {"recv", "renew", "returned"} : CloudGoTo(Handler, label)
  BY DEF HandlerRecv, SkipRenewal, HandlerReturns
<1>2. CloudRecv \/ UNCHANGED edgeVars
  BY DEF HandlerRecv, SkipRenewal, HandlerReturns
<1>3. cmu' = cmu /\ sent' = sent
  BY DEF HandlerRecv, SkipRenewal, HandlerReturns, CloudRecv, edgeVars, streamVars
<1>4. CloudTyped'
  BY <1>1, <1>3, HandlerIsCaller DEF DInv, CloudTyped, CloudGoTo
<1>5. Handler \notin Sending
  BY DEF HandlerRecv, SkipRenewal, HandlerReturns, Sending
<1>6. Sending' = Sending
  BY <1>1, <1>5, SendingMoves, HandlerIsCaller DEF DInv
<1> QED
  BY <1>2, <1>3, <1>4, <1>6 DEF CloudStepOK, DInv, Budget

LEMMA StartsToSend ==
  ASSUME DInv, TypeOK, Renew \/ \E p \in Pushers : Push(p)
  PROVE  CloudStepOK
<1>1. PICK t \in Callers : CloudGoTo(t, "lock") /\ MayAnswer /\ UNCHANGED <<edgeVars, cmu>>
  BY HandlerIsCaller DEF Renew, Push
<1>2. CloudTyped'
  BY <1>1 DEF DInv, CloudTyped, CloudGoTo
<1>3. Sending' = Sending \cup {t} /\ sent' = sent
  BY <1>1, SendingMoves DEF DInv, edgeVars, streamVars
<1>4. Cardinality(Sending') <= Cardinality(Sending) + 1 /\ Cardinality(Sending') \in Nat
  <2>1. Cardinality(Sending \cup {t}) = IF t \in Sending THEN Cardinality(Sending)
                                                       ELSE Cardinality(Sending) + 1
    BY SendingFinite, FS_AddElement
  <2>2. Cardinality(Sending') = Cardinality(Sending \cup {t})
    BY <1>3
  <2> QED
    BY <2>1, <2>2, SendingFinite
<1>5. Budget'
  BY <1>1, <1>3, <1>4, SendingFinite DEF MayAnswer, Budget, TypeOK
<1> QED
  BY <1>1, <1>2, <1>5 DEF CloudStepOK, DInv

LEMMA Locks ==
  ASSUME DInv, TypeOK, NEW t \in Callers, CloudLock(t)
  PROVE  CloudStepOK
<1>1. CloudGoTo(t, "send") /\ cpc[t] = "lock" /\ cmu' = t /\ UNCHANGED edgeVars
  BY DEF CloudLock
<1>2. CloudTyped'
  BY <1>1 DEF DInv, CloudTyped, CloudGoTo
<1>3. t \in Sending
  BY <1>1 DEF Sending
<1>4. Sending' = Sending /\ sent' = sent
  BY <1>1, <1>3, SendingMoves DEF DInv, edgeVars, streamVars
<1> QED
  BY <1>1, <1>2, <1>4 DEF CloudStepOK, DInv, Budget

LEMMA Sends ==
  ASSUME DInv, TypeOK, NEW t \in Callers, CloudSends(t)
  PROVE  CloudStepOK
<1>1. PICK label \in {"recv", "idle"} : CloudGoTo(t, label)
  BY DEF CloudSends
<1>2. cpc[t] = "send" /\ cmu' = NoThread
  BY DEF CloudSends, CloudUnlocked
<1>3. CloudTyped'
  BY <1>1, <1>2 DEF DInv, CloudTyped, CloudGoTo
<1>4. t \in Sending
  BY <1>2 DEF Sending
<1>5. Sending' = Sending \ {t}
  BY <1>1, SendingMoves DEF DInv
<1>6. Cardinality(Sending') = Cardinality(Sending) - 1 /\ Cardinality(Sending') \in Nat
  BY <1>4, <1>5, SendingFinite, FS_RemoveElement, FS_CardinalityType
<1>7. CASE Accept /\ UNCHANGED <<loopVars, sendVars, appVars>>
  <2>1. sent' = sent + 1 /\ sent \in Nat
    BY <1>7 DEF Accept, TypeOK
  <2>2. sent < MaxDown /\ Budget'
    BY <1>6, <2>1, SendingFinite DEF DInv, Budget
  <2> QED
    BY <1>3, <1>7, <2>2 DEF CloudStepOK, DInv, CloudSend
<1>8. CASE UNCHANGED edgeVars
  <2>1. sent' = sent /\ sent \in Nat
    BY <1>8 DEF edgeVars, streamVars, TypeOK
  <2> QED
    BY <1>3, <1>6, <1>8, <2>1, SendingFinite DEF CloudStepOK, DInv, Budget
<1> QED
  BY <1>7, <1>8 DEF CloudSends

LEMMA EdgeSteps ==
  ASSUME DInv, TypeOK, (Edge \/ End(Cut)) /\ UNCHANGED cloudVars
  PROVE  DInv'
<1>1. UNCHANGED <<cmu, cpc>>
  BY DEF cloudVars
<1>2. Sending' = Sending
  BY <1>1 DEF Sending
<1>3. sent' = sent
  BY DEF Edge, RecvLoop, RecvMsg, Put, RecvErr, SetErr, CloseReceived, Read,
         SeeEnd, Send, CallSend, LockSend, SendMsg, End, streamVars
<1> QED
  BY <1>1, <1>2, <1>3 DEF DInv, CloudTyped, Budget

LEMMA DStep == DInv /\ TypeOK /\ [DuplexNext]_vars => DInv' /\ [Next]_edgeVars
<1> SUFFICES ASSUME DInv, TypeOK, [DuplexNext]_vars
             PROVE  DInv' /\ [Next]_edgeVars
  OBVIOUS
<1>1. CASE Cloud
  <2>1. CloudStepOK
    BY <1>1, HandlerSteps, StartsToSend, Locks, Sends DEF Cloud, HandlerStep
  <2> QED
    BY <2>1 DEF CloudStepOK, Next
<1>2. CASE (Edge \/ End(Cut)) /\ UNCHANGED cloudVars
  BY <1>2, EdgeSteps DEF Next, Ends
<1>3. CASE UNCHANGED vars
  <2>1. UNCHANGED edgeVars /\ UNCHANGED <<cmu, cpc>>
    BY <1>3 DEF vars, cloudVars
  <2>2. Sending' = Sending /\ sent' = sent
    BY <2>1 DEF Sending, edgeVars, streamVars
  <2> QED
    BY <2>1, <2>2 DEF DInv, CloudTyped, Budget
<1> QED
  BY <1>1, <1>2, <1>3 DEF DuplexNext

-----------------------------------------------------------------------------
LEMMA DuplexInductive == DuplexSpec => [](DInv /\ IInv)
<1>1. DuplexInit => DInv /\ IInv
  BY DInit, IInit DEF DuplexInit
<1>2. IInv => TypeOK
  BY DEF IInv
<1>3. DInv /\ IInv /\ [DuplexNext]_vars => DInv' /\ IInv'
  BY <1>2, DStep, Step
<1> QED
  BY <1>1, <1>3, PTL DEF DuplexSpec

(* The cloud's handler, its renewals and the callers of Push are one of    *)
(* the environments that EdgeClient reckons with: what is proved of the    *)
(* client holds of the two ends together.                                  *)
THEOREM KeepsToClient == DuplexSpec => Spec
<1>1. DuplexInit => Init
  BY DEF DuplexInit
<1>2. DInv /\ IInv /\ [DuplexNext]_vars => [Next]_edgeVars
  BY DStep DEF IInv
<1> QED
  BY <1>1, <1>2, DuplexInductive, PTL DEF DuplexSpec, Spec

(* The labels and the mutex of the cloud, and everything of the client,    *)
(* keep their types.                                                       *)
THEOREM DuplexTypeCorrect == DuplexSpec => []DuplexTypeOK
<1>1. DInv /\ IInv => DuplexTypeOK
  BY DEF DInv, IInv, CloudTyped, DuplexTypeOK
<1> QED
  BY <1>1, DuplexInductive, PTL

(* While no more than Window + RecvCap + 1 messages are unread, those the  *)
(* cloud is about to send included, the cloud never waits for the          *)
(* application to read: the queues and recvLoop's hand hold them all.      *)
THEOREM SlackIsEnough == DuplexSpec => []SlackSuffices
<1>1. DInv /\ IInv => SlackSuffices
  <2> SUFFICES ASSUME DInv, IInv, ended = Open, Sending # {}, Stuck,
                      Unread <= Window + RecvCap + 1
               PROVE  FALSE
    BY DEF SlackSuffices
  <2>1. Cardinality(Sending) \in Nat /\ Cardinality(Sending) # 0
    BY SendingFinite, FS_EmptySet
  <2>2. /\ Len(read) \in Nat /\ Len(received) \in Nat /\ Len(down) = Window
        /\ sent \in Nat
    BY KeptTyped DEF IInv, Stuck, TypeOK
  <2>3. Len(received) >= RecvCap /\ Held = 1
    BY <2>2 DEF Stuck, Room, Held
  <2>4. Kept = sent
    BY DEF IInv, Ending, Numbered, Stuck
  <2>5. sent - Len(read) >= RecvCap + 1 + Window
    BY <2>2, <2>3, <2>4 DEF Kept
  <2> QED
    BY <2>1, <2>2, <2>5 DEF Unread
<1> QED
  BY <1>1, DuplexInductive, PTL

-----------------------------------------------------------------------------
(* Who holds the two mutexes, and when the handler is gone.                *)
EdgeHeld == sendMu # NoThread => sendMu \in Senders /\ pc[sendMu] = "send"
CloudHeld ==
    /\ cmu # NoThread => cmu \in Callers /\ cpc[cmu] = "send"
    /\ cpc[Handler] # "idle"
    /\ cpc[Handler] = "returned" => ended # Open

LEMMA EdgeHeldStep == IInv /\ EdgeHeld /\ [Next]_edgeVars => EdgeHeld'
<1> SUFFICES ASSUME IInv, EdgeHeld, [Next]_edgeVars PROVE EdgeHeld'
  OBVIOUS
<1>0. pc \in [Senders -> {"idle", "lock", "send"}]
  BY DEF IInv, TypeOK
<1>1. ASSUME NEW t \in Senders, LockSend(t) PROVE EdgeHeld'
  BY <1>0, <1>1 DEF LockSend, GoTo, EdgeHeld
<1>2. ASSUME NEW t \in Senders, SendMsg(t) PROVE EdgeHeld'
  BY <1>2 DEF SendMsg, EdgeHeld
<1>3. ASSUME NEW t \in Senders, NEW f \in Frames, CallSend(t, f) PROVE EdgeHeld'
  <2>1. /\ sendMu' = sendMu /\ pc[t] = "idle"
        /\ \A u \in Senders \ {t} : pc'[u] = pc[u]
    BY <1>0, <1>3 DEF CallSend, GoTo
  <2> QED
    BY <2>1 DEF EdgeHeld
<1>4. CASE UNCHANGED sendVars
  BY <1>4 DEF EdgeHeld, sendVars
<1>5. RecvLoop \/ Read \/ SeeEnd \/ CloudSend \/ CloudRecv \/ (\E how \in Ends : End(how))
        \/ UNCHANGED edgeVars
      => UNCHANGED sendVars
  BY DEF RecvLoop, Read, SeeEnd, CloudSend, CloudRecv, End, edgeVars
<1> QED
  BY <1>1, <1>2, <1>3, <1>4, <1>5 DEF Next, Edge, Send

LEMMA CloudHeldStep ==
  DInv /\ IInv /\ CloudHeld /\ [DuplexNext]_vars => CloudHeld'
<1> SUFFICES ASSUME DInv, IInv, CloudHeld, [DuplexNext]_vars PROVE CloudHeld'
  OBVIOUS
<1>0. /\ cpc \in [Callers -> {"recv", "renew", "idle", "lock", "send", "returned"}]
      /\ Handler \in Callers /\ Pushers \subseteq Callers /\ Handler \notin Pushers
      /\ NoThread \notin Callers
  BY HandlerIsCaller DEF DInv, CloudTyped
<1>1. ended # Open => ended' = ended
  <2>1. [Next]_edgeVars
    BY DStep DEF IInv
  <2> QED
    BY <2>1 DEF Next, Edge, RecvLoop, RecvMsg, Put, RecvErr, SetErr, CloseReceived,
                Read, SeeEnd, Send, CallSend, LockSend, SendMsg, CloudSend, Accept,
                CloudRecv, End, edgeVars, streamVars
<1>2. ASSUME NEW t \in Callers, NEW label, CloudGoTo(t, label), cmu' = cmu,
             cpc[t] # "send", t = Handler => label # "idle",
             t = Handler /\ label = "returned" => ended # Open
      PROVE  CloudHeld'
  <2>1. cpc'[t] = label /\ \A u \in Callers \ {t} : cpc'[u] = cpc[u]
    BY <1>0, <1>2 DEF CloudGoTo
  <2>2. cmu' # NoThread => cmu' \in Callers /\ cpc'[cmu'] = "send"
    BY <1>2, <2>1 DEF CloudHeld
  <2>3. cpc'[Handler] # "idle"
    BY <1>0, <1>2, <2>1 DEF CloudHeld
  <2>4. cpc'[Handler] = "returned" => ended' # Open
    BY <1>0, <1>1, <1>2, <2>1 DEF CloudHeld
  <2> QED
    BY <2>2, <2>3, <2>4 DEF CloudHeld
<1>3. CASE HandlerStep
  <2>1. PICK label \in {"recv", "renew", "lock", "returned"} :
           CloudGoTo(Handler, label) /\ (label = "returned" => ended # Open)
    BY <1>3 DEF HandlerStep, HandlerRecv, SkipRenewal, Renew, HandlerReturns
  <2>2. cmu' = cmu /\ cpc[Handler] # "send"
    BY <1>3 DEF HandlerStep, HandlerRecv, SkipRenewal, Renew, HandlerReturns
  <2> QED
    BY <1>0, <1>2, <2>1, <2>2
<1>4. ASSUME NEW p \in Pushers, Push(p) PROVE CloudHeld'
  <2>1. p \in Callers /\ p # Handler
    BY <1>0
  <2>2. CloudGoTo(p, "lock") /\ cmu' = cmu /\ cpc[p] # "send"
    BY <1>4 DEF Push
  <2> QED
    BY <1>2, <2>1, <2>2
<1>5. ASSUME NEW t \in Callers, CloudLock(t) PROVE CloudHeld'
  <2>1. cmu' = t /\ cpc' = [cpc EXCEPT ![t] = "send"]
    BY <1>5 DEF CloudLock, CloudGoTo
  <2>2. cpc'[t] = "send" /\ \A u \in Callers \ {t} : cpc'[u] = cpc[u]
    BY <1>0, <2>1
  <2> QED
    BY <1>0, <1>1, <2>1, <2>2 DEF CloudHeld
<1>6. ASSUME NEW t \in Callers, CloudSends(t) PROVE CloudHeld'
  <2>1. /\ cmu' = NoThread
        /\ cpc' = [cpc EXCEPT ![t] = IF t = Handler THEN "recv" ELSE "idle"]
    BY <1>6 DEF CloudSends, CloudUnlocked, CloudGoTo
  <2>2. cpc'[Handler] = (IF t = Handler THEN "recv" ELSE cpc[Handler])
    BY <1>0, <2>1
  <2> QED
    BY <1>1, <2>1, <2>2 DEF CloudHeld
<1>7. CASE UNCHANGED cloudVars
  BY <1>1, <1>7 DEF CloudHeld, cloudVars
<1> QED
  BY <1>3, <1>4, <1>5, <1>6, <1>7 DEF DuplexNext, Cloud, vars

LEMMA HeldInductive == DuplexSpec => [](DInv /\ IInv /\ EdgeHeld /\ CloudHeld)
<1>1. DuplexInit => EdgeHeld /\ CloudHeld
  BY HandlerIsCaller DEF DuplexInit, Init, EdgeHeld, CloudHeld
<1>2. DInv /\ IInv /\ [DuplexNext]_vars => [Next]_edgeVars
  BY DStep DEF IInv
<1> QED
  BY <1>1, <1>2, EdgeHeldStep, CloudHeldStep, DuplexInductive, PTL DEF DuplexSpec

(* If Received has a goroutine of its own, nobody waits in a circle,       *)
(* however many goroutines send at either end and however small the        *)
(* windows and the channel are: what a call waits for can go on.           *)
THEOREM NobodyWaitsInACircle == DuplexSpec => []NoCircle
<1>1. ASSUME DInv, IInv, EdgeHeld, CloudHeld, Reader \notin Senders
      PROVE  CloudGoesOn /\ EdgeGoesOn
  <2>0. /\ Len(down) \in Nat /\ Len(up) \in Nat /\ Len(received) \in Nat
        /\ Len(down) = 0 <=> down = <<>>
        /\ Len(up) = 0 <=> up = <<>>
        /\ Len(received) = 0 <=> received = <<>>
        /\ loop \in {"recv", "put", "fail", "close", "done"}
    BY <1>1 DEF IInv, TypeOK
  <2>1. CloudGoesOn
    <3>1. CASE cmu = NoThread
      BY <3>1 DEF CloudGoesOn
    <3>2. CASE cmu # NoThread /\ (ended # Open \/ Len(down) < Window)
      BY <1>1, <3>2 DEF CloudGoesOn, CloudHeld
    <3>3. CASE ended = Open /\ Len(down) >= Window
      <4>1. down # <<>>
        BY <2>0, <3>3
      <4>2. loop \in {"recv", "put"}
        BY <1>1, <2>0, <3>3 DEF IInv, Ending
      <4>3. loop = "put" => Room \/ (Reading /\ received # <<>>)
        BY <1>1, <2>0 DEF Room, Reading
      <4> QED
        BY <4>1, <4>2, <4>3 DEF CloudGoesOn
    <3> QED
      BY <2>0, <3>1, <3>2, <3>3
  <2>2. EdgeGoesOn
    <3>1. CASE sendMu = NoThread
      BY <3>1 DEF EdgeGoesOn
    <3>2. CASE sendMu # NoThread /\ (ended # Open \/ Len(up) < Window)
      BY <1>1, <3>2 DEF EdgeGoesOn, EdgeHeld
    <3>3. CASE ended = Open /\ Len(up) >= Window
      <4>1. up # <<>>
        BY <2>0, <3>3
      <4>2. cpc[Handler] \in {"recv", "renew", "lock", "send"}
        BY <1>1, <3>3, HandlerIsCaller DEF DInv, CloudTyped, CloudHeld
      <4> QED
        BY <2>1, <3>3, <4>1, <4>2 DEF EdgeGoesOn
    <3> QED
      BY <2>0, <3>1, <3>2, <3>3
  <2> QED
    BY <2>1, <2>2
<1>2. DInv /\ IInv /\ EdgeHeld /\ CloudHeld => NoCircle
  BY <1>1 DEF NoCircle
<1> QED
  BY <1>2, HeldInductive, PTL

=============================================================================
