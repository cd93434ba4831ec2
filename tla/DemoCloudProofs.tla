---------------------------- MODULE DemoCloudProofs ----------------------------
(***************************************************************************)
(* Proofs about DemoCloud, for files and inputs of any length.             *)
(***************************************************************************)
EXTENDS DemoCloud, SequenceTheorems, TLAPS

USE DemoCloudConstants

LastRead == IF executed = <<>> THEN start ELSE executed[Len(executed)][2]

Counted ==
    /\ mode \in Modes /\ closed \in BOOLEAN
    /\ start \in Nat /\ taken \in Nat /\ filled \in Nat /\ size \in Nat
    /\ taken <= filled /\ filled <= size
    /\ executed \in Seq(Nat \X Nat)

(* What has been handed over ends where a line does. *)
AtLineEnd ==
    /\ closed => mode = "stdin"
    /\ start % 2 = 0 /\ (mode = "tail" => size % 2 = 0)
    /\ taken = LastRead
    /\ taken % 2 = 0 \/ (closed /\ taken = size)

IInv == Counted /\ AtLineEnd /\ NewLinesWhole

LEMMA NextEven ==
  ASSUME Counted, taken % 2 = 0, Newlines # {}
  PROVE  NextLine = taken + 2 /\ taken + 2 <= filled
<1>1. PICK p \in taken + 1..filled : p % 2 = 0
  BY DEF Newlines
<1>2. p \in Nat /\ p # taken + 1
  <2>1. taken \in Nat /\ filled \in Nat
    BY DEF Counted
  <2>2. (taken + 1) % 2 = 1
    BY <2>1
  <2> QED
    BY <1>1, <2>1, <2>2
<1>3. taken + 2 <= filled
  BY <1>1, <1>2 DEF Counted
<1>4. taken + 2 \in Newlines
  BY <1>3 DEF Newlines, Counted
<1>5. \A q \in Newlines : q \in Nat /\ taken + 2 <= q
  BY DEF Newlines, Counted
<1>6. \E x \in Newlines : \A y \in Newlines : x <= y
  BY <1>4, <1>5
<1>7. Min(Newlines) \in Newlines /\ \A y \in Newlines : Min(Newlines) <= y
  BY <1>6 DEF Min
<1>8. Min(Newlines) = taken + 2
  <2>1. Min(Newlines) \in Nat /\ taken + 2 <= Min(Newlines)
    BY <1>5, <1>7
  <2>2. Min(Newlines) <= taken + 2
    BY <1>4, <1>7
  <2>3. taken \in Nat
    BY DEF Counted
  <2> QED
    BY <2>1, <2>2, <2>3
<1> QED
  BY <1>3, <1>8 DEF NextLine

LEMMA NextOdd == ASSUME NEW n \in Nat, n % 2 = 0 PROVE (n + 1) % 2 = 1 /\ (n + 2) % 2 = 0
  OBVIOUS

(* A line that is executed extends what has been executed. *)
LEMMA ExecKeeps ==
  ASSUME IInv, UNCHANGED <<mode, start, textVars>>,
         NEW first \in Nat, NEW last \in Nat, Exec(first, last),
         first = taken + 1, taken % 2 = 0, last <= filled,
         last = first + 1 \/ (closed /\ last = first /\ last = size)
  PROVE  IInv'
<1> USE DEF textVars
<1>1. /\ executed' \in Seq(Nat \X Nat) /\ Len(executed') = Len(executed) + 1
      /\ \A i \in 1..Len(executed) : executed'[i] = executed[i]
      /\ executed'[Len(executed) + 1] = <<first, last>>
      /\ Len(executed) \in Nat
  <2>1. executed \in Seq(Nat \X Nat) /\ <<first, last>> \in Nat \X Nat
    BY DEF IInv, Counted
  <2>2. executed' = Append(executed, <<first, last>>)
    BY DEF Exec
  <2> QED
    BY <2>1, <2>2
<1>2. taken' = last /\ filled' = filled
  BY DEF Exec
<1>3. Counted /\ AtLineEnd /\ NewLinesWhole
  BY DEF IInv
<1>4. Counted'
  <2>1. last <= filled /\ filled <= size /\ size' = size
    BY <1>3 DEF Counted
  <2> QED
    BY <1>1, <1>2, <1>3, <2>1 DEF Counted
<1>5. LastRead' = last
  <2>1. executed' # <<>> /\ executed'[Len(executed')][2] = last
    BY <1>1
  <2> QED
    BY <2>1 DEF LastRead
<1>6. AtLineEnd'
  <2>1. last % 2 = 0 \/ (closed /\ last = size)
    BY <1>3 DEF Counted
  <2> QED
    BY <1>2, <1>3, <1>5, <2>1 DEF AtLineEnd
<1>7. /\ closed' = closed /\ size' = size /\ start' = start
      /\ DOMAIN executed = 1..Len(executed)
      /\ DOMAIN executed' = 1..Len(executed) + 1
  BY <1>1, <1>3 DEF Counted, textVars
<1>8. NewLinesWhole'
  <2> SUFFICES ASSUME NEW i \in 1..Len(executed) + 1
               PROVE  /\ executed'[i][1] = 1 + IF i = 1 THEN start ELSE executed'[i - 1][2]
                      /\ executed'[i][1] % 2 = 1
                      /\ \/ executed'[i][2] = executed'[i][1] + 1
                         \/ closed /\ executed'[i][2] = executed'[i][1] /\ executed'[i][2] = size
    BY <1>7 DEF NewLinesWhole
  <2>1. CASE i \in 1..Len(executed)
    <3>0. i # 1 => i - 1 \in 1..Len(executed)
      BY <1>1, <2>1
    <3>1. executed'[i] = executed[i] /\ (i # 1 => executed'[i - 1] = executed[i - 1])
      BY <1>1, <2>1, <3>0
    <3>2. /\ executed[i][1] = 1 + IF i = 1 THEN start ELSE executed[i - 1][2]
          /\ executed[i][1] % 2 = 1
          /\ \/ executed[i][2] = executed[i][1] + 1
             \/ closed /\ executed[i][2] = executed[i][1] /\ executed[i][2] = size
      BY <1>3, <1>7, <2>1 DEF NewLinesWhole
    <3> QED
      BY <3>1, <3>2
  <2>2. CASE i = Len(executed) + 1
    <3>1. executed'[i][1] = first /\ executed'[i][2] = last
      BY <1>1, <2>2
    <3>2. taken = IF i = 1 THEN start ELSE executed'[i - 1][2]
      <4>1. CASE executed = <<>>
        BY <1>3, <2>2, <4>1 DEF AtLineEnd, LastRead
      <4>2. CASE executed # <<>>
        <5>1. Len(executed) \in 1..Len(executed)
          BY <1>1, <1>3, <4>2 DEF Counted
        <5>2. executed'[Len(executed)] = executed[Len(executed)] /\ i # 1
              /\ i - 1 = Len(executed)
          BY <1>1, <2>2, <5>1
        <5> QED
          BY <1>3, <4>2, <5>2 DEF AtLineEnd, LastRead
      <4> QED
        BY <4>1, <4>2
    <3>3. first % 2 = 1 /\ first = 1 + taken
      BY <1>3, NextOdd DEF Counted
    <3> QED
      BY <3>1, <3>2, <3>3
  <2>3. i \in 1..Len(executed) \/ i = Len(executed) + 1
    BY <1>1
  <2> QED
    BY <2>1, <2>2, <2>3
<1> QED
  BY <1>4, <1>6, <1>8 DEF IInv

(* A step that reads no line. *)
LEMMA NoLine ==
  ASSUME IInv, UNCHANGED <<mode, start, taken, executed>>,
         filled' \in Nat, size' \in Nat, taken <= filled', filled' <= size',
         closed' \in BOOLEAN, closed' => mode = "stdin", mode = "tail" => size' % 2 = 0,
         closed => closed' /\ size' = size
  PROVE  IInv'
<1>1. Counted'
  BY DEF IInv, Counted
<1>2. AtLineEnd'
  BY DEF IInv, AtLineEnd, LastRead
<1>3. NewLinesWhole'
  BY DEF IInv, NewLinesWhole
<1> QED
  BY <1>1, <1>2, <1>3 DEF IInv

LEMMA LinesInit == ASSUME "tail" \notin Split PROVE Init => IInv
<1> SUFFICES ASSUME Init PROVE IInv
  OBVIOUS
<1>1. size \in Nat /\ start = size /\ mode \in Modes
      /\ (size = 0 \/ (mode = "tail" /\ size % 2 = 0))
  BY DEF Init
<1>2. size % 2 = 0
  BY <1>1
<1>3. executed = <<>> /\ taken = size /\ filled = size /\ closed = FALSE
  BY DEF Init, Origin
<1>4. Counted
  <2>1. executed \in Seq(Nat \X Nat)
    BY <1>3
  <2>2. start \in Nat /\ taken \in Nat /\ filled \in Nat /\ taken <= filled /\ filled <= size
    BY <1>1, <1>3
  <2>3. closed \in BOOLEAN
    BY <1>3
  <2> QED
    BY <1>1, <2>1, <2>2, <2>3 DEF Counted
<1>5. AtLineEnd
  BY <1>1, <1>2, <1>3 DEF AtLineEnd, LastRead
<1>6. NewLinesWhole
  BY <1>3 DEF NewLinesWhole
<1> QED
  BY <1>4, <1>5, <1>6 DEF IInv

LEMMA LinesNext == ASSUME "tail" \notin Split PROVE IInv /\ [Next]_vars => IInv'
<1> SUFFICES ASSUME IInv, [Next]_vars PROVE IInv'
  OBVIOUS
<1> USE DEF textVars, readVars, serverVars
<1>0. /\ Counted /\ (closed => mode = "stdin") /\ (mode = "tail" => size % 2 = 0)
      /\ taken % 2 = 0 \/ (closed /\ taken = size)
  BY DEF IInv, AtLineEnd
<1>1. CASE Write
  <2>1. UNCHANGED <<mode, start, filled, taken, executed>>
    BY <1>1 DEF Write, WriteLine, WriteHead, WriteTail, Close
  <2>2. /\ closed' \in BOOLEAN /\ (closed' => mode = "stdin")
        /\ closed => closed' /\ size' = size
        /\ size' \in Nat /\ filled <= size'
        /\ mode = "tail" => size' % 2 = 0
    <3>1. CASE Close
      BY <1>0, <3>1 DEF Close, Counted
    <3>2. CASE WriteTail
      BY <1>0, <3>2 DEF WriteTail, Counted
    <3>3. CASE \E c \in Commands : WriteLine(c)
      BY <1>0, <3>3, NextOdd DEF WriteLine, Counted
    <3>4. CASE \E c \in Commands : WriteHead(c)
      BY <1>0, <3>4 DEF WriteHead, Counted
    <3> QED
      BY <1>1, <3>1, <3>2, <3>3, <3>4 DEF Write
  <2> QED
    BY <1>0, <2>1, <2>2, NoLine DEF Counted
<1>2. CASE ReadLine
  <2>0. PICK p \in taken + 1..filled : TRUE
    BY <1>2 DEF ReadLine, Newlines
  <2>1. taken % 2 = 0
    BY <1>0, <2>0 DEF Counted
  <2>2. NextLine = taken + 2 /\ taken + 2 <= filled
    BY <1>0, <1>2, <2>1, NextEven DEF ReadLine
  <2>3. Exec(taken + 1, taken + 2) /\ UNCHANGED <<mode, start, textVars>>
    BY <1>2, <2>2 DEF ReadLine
  <2> QED
    BY <1>0, <2>1, <2>2, <2>3, ExecKeeps DEF Counted
<1>3. CASE Fill
  <2>1. filled' \in filled + 1..size /\ UNCHANGED <<mode, start, textVars, taken, executed>>
    BY <1>3 DEF Fill
  <2>2. filled' \in Nat /\ taken <= filled' /\ filled' <= size
    BY <1>0, <2>1 DEF Counted
  <2> QED
    BY <1>0, <2>1, <2>2, NoLine DEF Counted
<1>4. CASE AtEOF
  <2>1. taken = filled
    <3>1. filled % 2 = 0 /\ Newlines = {}
      BY <1>0, <1>4 DEF AtEOF
    <3>2. taken < filled => filled \in Newlines
      BY <1>0, <3>1 DEF Newlines, Counted
    <3> QED
      BY <1>0, <3>1, <3>2 DEF Counted
  <2>2. UNCHANGED <<mode, start, textVars, filled, taken, executed>>
    BY <1>4, <2>1 DEF AtEOF
  <2> QED
    BY <1>0, <2>2, NoLine DEF Counted
<1>5. CASE AtClose
  <2>1. CASE LastLine
    <3>1. closed /\ filled = size /\ taken < filled /\ Newlines = {}
          /\ Exec(taken + 1, filled) /\ UNCHANGED <<mode, start, textVars>>
      BY <1>5, <2>1 DEF AtClose, LastLine
    <3>2. taken % 2 = 0
      BY <1>0, <3>1 DEF Counted
    <3>3. filled = taken + 1
      <4>1. taken + 2 <= filled => taken + 2 \in Newlines
        BY <1>0, <3>2 DEF Newlines, Counted
      <4> QED
        BY <1>0, <3>1, <4>1 DEF Counted
    <3> QED
      BY <1>0, <3>1, <3>2, <3>3, ExecKeeps DEF Counted
  <2>2. CASE ~LastLine
    BY <1>0, <1>5, <2>2, NoLine DEF AtClose, Counted
  <2> QED
    BY <2>1, <2>2
<1>6. CASE PushReturns \/ Server \/ UNCHANGED vars
  <2>1. UNCHANGED <<mode, start, textVars, filled, taken, executed>>
    BY <1>6 DEF PushReturns, Server, vars
  <2> QED
    BY <1>0, <2>1, NoLine DEF Counted
<1> QED
  BY <1>1, <1>2, <1>3, <1>4, <1>5, <1>6 DEF Next, Main

(* Commands are executed line by line, whole, in order and once, however   *)
(* long the input and however it is buffered, as long as lines are         *)
(* appended to the file by one write each.                                 *)
THEOREM LinesAreWhole ==
  ASSUME "tail" \notin Split PROVE Spec => []NewLinesWhole
<1>1. IInv => NewLinesWhole
  BY DEF IInv
<1> QED
  BY <1>1, LinesInit, LinesNext, PTL DEF Spec

-----------------------------------------------------------------------------
(* What is on its way to logIncoming is routed, until a stream ends.       *)
OnItsWay ==
    /\ queue \in Seq(Sessions)
    /\ \/ ended
       \/ /\ seen \subseteq routed
          /\ \A i \in 1..Len(queue) : queue[i] \in routed
          /\ hot = NoSession \/ hot \in routed
    /\ hot \in Sessions \cup {NoSession}

LEMMA ServerKeeps ==
  ASSUME OnItsWay, Deliver \/ StreamEnds \/ Announce \/ \E s \in Sessions : Frame(s)
  PROVE  OnItsWay'
<1>1. CASE Deliver
  <2>1. hot \in Sessions /\ (ended \/ hot \in routed)
    BY <1>1 DEF OnItsWay, Deliver
  <2>2. /\ queue' \in Seq(Sessions)
        /\ \A i \in 1..Len(queue') :
              (i \in 1..Len(queue) /\ queue'[i] = queue[i]) \/ queue'[i] = hot
    BY <1>1, <2>1 DEF OnItsWay, Deliver
  <2> QED
    BY <1>1, <2>1, <2>2 DEF OnItsWay, Deliver
<1>2. CASE StreamEnds
  BY <1>2 DEF OnItsWay, StreamEnds
<1>3. CASE Announce
  <2>1. /\ queue' \in Seq(Sessions) /\ Head(queue) = queue[1] /\ 1 \in 1..Len(queue)
        /\ \A i \in 1..Len(queue') : i + 1 \in 1..Len(queue) /\ queue'[i] = queue[i + 1]
    BY <1>3 DEF OnItsWay, Announce
  <2>2. UNCHANGED <<routed, hot, ended>> /\ seen' = seen \cup {queue[1]}
    BY <1>3, <2>1 DEF Announce
  <2>3. CASE ended
    BY <2>1, <2>2, <2>3 DEF OnItsWay
  <2>4. CASE ~ended
    <3>1. queue[1] \in routed /\ \A i \in 1..Len(queue') : queue'[i] \in routed
      BY <2>1, <2>4 DEF OnItsWay
    <3> QED
      BY <2>1, <2>2, <3>1 DEF OnItsWay
  <2> QED
    BY <2>3, <2>4
<1>4. CASE \E s \in Sessions : Frame(s)
  BY <1>4 DEF OnItsWay, Frame, Known
<1> QED
  BY <1>1, <1>2, <1>3, <1>4

(* Who has been told of a session can push to it until a stream ends: the  *)
(* route is there before the message is handed on.                         *)
THEOREM RoutedBeforeAnnounced == Spec => []AnnouncedIsRouted
<1>1. Init => OnItsWay
  BY DEF Init, OnItsWay
<1>2. OnItsWay /\ [Next]_vars => OnItsWay'
  <2> SUFFICES ASSUME OnItsWay, [Next]_vars PROVE OnItsWay'
    OBVIOUS
  <2>1. CASE Server
    BY <2>1, ServerKeeps DEF Server
  <2>2. CASE Write \/ Main \/ UNCHANGED vars
    <3>1. UNCHANGED serverVars
      BY <2>2 DEF Write, WriteLine, WriteHead, WriteTail, Close, Main, ReadLine,
                  Fill, AtEOF, AtClose, PushReturns, vars
    <3> QED
      BY <3>1 DEF OnItsWay, serverVars
  <2> QED
    BY <2>1, <2>2 DEF Next
<1>3. OnItsWay => AnnouncedIsRouted
  BY DEF OnItsWay, AnnouncedIsRouted
<1> QED
  BY <1>1, <1>2, <1>3, PTL DEF Spec

-----------------------------------------------------------------------------
(* Types, however lines are written: text is read in the order in which it *)
(* was written, and no end of a line lies outside of what was read.        *)
InReach ==
    /\ mode \in Modes /\ closed \in BOOLEAN /\ doing \in {"read", "push", "stopped"}
    /\ start \in 0..OldText /\ taken \in Nat /\ filled \in Nat /\ size \in 0..MaxText
    /\ start <= taken /\ taken <= filled /\ filled <= size
    /\ executed \in Seq((0..size) \X (0..size))

Written ==
    /\ command \in Seq(Commands)
    /\ size \in Nat
    /\ Len(command) = (size + 1) \div 2

ServerTyped ==
    /\ routed \subseteq Sessions /\ hot \in Sessions \cup {NoSession}
    /\ queue \in Seq(Sessions) /\ Len(queue) <= ChanCap
    /\ seen \subseteq Sessions /\ ended \in BOOLEAN

(* The first newline ahead, wherever the reader stands. *)
LEMMA NewlineAhead ==
  ASSUME taken \in Nat, filled \in Nat, Newlines # {}
  PROVE  NextLine \in taken + 1..filled
<1>1. PICK p \in taken + 1..filled : p % 2 = 0
  BY DEF Newlines
<1>2. \A q \in Newlines : q \in taken + 1..filled /\ q % 2 = 0
  BY DEF Newlines
<1>3. \E x \in Newlines : \A y \in Newlines : x <= y
  <2>1. CASE taken % 2 = 0
    <3>1. p # taken + 1
      BY <1>1, <2>1
    <3>2. taken + 2 \in Newlines
      BY <1>1, <2>1, <3>1 DEF Newlines
    <3>3. \A q \in Newlines : taken + 2 <= q
      BY <1>2, <2>1
    <3> QED
      BY <3>2, <3>3
  <2>2. CASE taken % 2 = 1
    <3>1. taken + 1 \in Newlines
      BY <1>1, <2>2 DEF Newlines
    <3> QED
      BY <1>2, <3>1
  <2> QED
    BY <2>1, <2>2
<1>4. Min(Newlines) \in Newlines
  BY <1>3 DEF Min
<1> QED
  BY <1>2, <1>4 DEF NextLine

LEMMA ExecInReach ==
  ASSUME InReach, UNCHANGED <<mode, start, size, closed>>,
         NEW first \in Nat, NEW last \in Nat, Exec(first, last),
         first = taken + 1, first <= last, last <= filled
  PROVE  InReach'
<1>1. doing' \in {"read", "push", "stopped"}
  BY DEF Exec
<1>2. executed' \in Seq((0..size) \X (0..size))
  <2>1. first \in 0..size /\ last \in 0..size
    BY DEF InReach
  <2>2. <<first, last>> \in (0..size) \X (0..size)
    BY <2>1
  <2> QED
    BY <2>2 DEF InReach, Exec
<1>3. taken' = last /\ filled' = filled
  BY DEF Exec
<1> QED
  BY <1>1, <1>2, <1>3 DEF InReach

(* More text, or more of it in the buffer, and nothing executed. *)
LEMMA StillInReach ==
  ASSUME InReach, UNCHANGED <<mode, start, executed>>,
         closed' \in BOOLEAN, doing' \in {"read", "push", "stopped"},
         size' \in Nat, size <= size', size' <= MaxText,
         filled' \in Nat, taken' \in Nat,
         taken <= taken', taken' <= filled', filled' <= size'
  PROVE  InReach'
<1>1. (0..size) \X (0..size) \subseteq (0..size') \X (0..size')
  BY DEF InReach
<1>2. executed' \in Seq((0..size') \X (0..size'))
  BY <1>1, SeqMonotonic DEF InReach
<1> QED
  BY <1>2 DEF InReach

LEMMA Halves ==
  /\ \A n \in Nat : n % 2 = 0 => /\ (n + 2 + 1) \div 2 = (n + 1) \div 2 + 1
                                 /\ (n + 1 + 1) \div 2 = (n + 1) \div 2 + 1
  /\ \A n \in Nat : n % 2 = 1 => (n + 1 + 1) \div 2 = (n + 1) \div 2
  /\ \A n \in Nat : (n + 1) \div 2 \in Nat
  /\ \A n \in Nat : n \div 2 \in Nat
OBVIOUS

LEMMA TypesInit == Init => InReach /\ Written /\ ServerTyped
<1> SUFFICES ASSUME Init PROVE InReach /\ Written /\ ServerTyped
  OBVIOUS
<1>1. size \in 0..OldText /\ mode \in Modes
  BY DEF Init
<1>2. start = size /\ filled = size /\ taken = size /\ executed = <<>>
  BY DEF Init, Origin
<1>3. closed \in BOOLEAN /\ doing \in {"read", "push", "stopped"}
  BY DEF Init
<1>4. executed \in Seq((0..size) \X (0..size))
  BY <1>2
<1>5. InReach
  BY <1>1, <1>2, <1>3, <1>4 DEF InReach
<1>6. Written
  <2>0. command \in [1..(size + 1) \div 2 -> {Junk}] /\ (size + 1) \div 2 \in Nat
    BY <1>1, Halves DEF Init
  <2>1. command \in Seq({Junk}) /\ Len(command) = (size + 1) \div 2
    BY <2>0
  <2>2. {Junk} \subseteq Commands
    BY DEF Commands
  <2>3. command \in Seq(Commands)
    BY <2>1, <2>2, SeqMonotonic
  <2>4. size \in Nat
    BY <1>1
  <2> QED
    BY <2>1, <2>3, <2>4 DEF Written
<1>7. ServerTyped
  <2>1. /\ routed = {} /\ hot = NoSession /\ queue = <<>>
        /\ seen = {} /\ ended = FALSE
    BY DEF Init
  <2>2. queue \in Seq(Sessions) /\ Len(queue) = 0 /\ 0 <= ChanCap
    BY <2>1
  <2> QED
    BY <2>1, <2>2 DEF ServerTyped
<1> QED
  BY <1>5, <1>6, <1>7

LEMMA WriteTypes == ASSUME InReach, Written, Write PROVE InReach' /\ Written'
<1>1. CASE Close
  <2>1. InReach'
    BY <1>1, StillInReach DEF Close, InReach, readVars
  <2> QED
    BY <1>1, <2>1 DEF Close, Written
<1>2. CASE WriteTail
  <2>1. size' = size + 1 /\ size' <= MaxText /\ size \in Nat
    BY <1>2 DEF WriteTail, InReach
  <2>2. InReach'
    BY <1>2, <2>1, StillInReach DEF WriteTail, InReach, readVars
  <2>3. Written'
    BY <1>2, <2>1, Halves DEF WriteTail, Written
  <2> QED
    BY <2>2, <2>3
<1>3. ASSUME NEW c \in Commands, WriteLine(c) \/ WriteHead(c) PROVE InReach' /\ Written'
  <2>0. size \in Nat /\ filled \in Nat /\ taken \in Nat /\ taken <= filled /\ filled <= size
        /\ closed \in BOOLEAN /\ doing \in {"read", "push", "stopped"}
    BY DEF InReach
  <2>1. /\ size % 2 = 0 /\ size + 2 <= MaxText
        /\ size' = size + 2 \/ size' = size + 1
        /\ command' = Append(command, c)
        /\ UNCHANGED <<mode, start, closed, filled, taken, doing, executed>>
    <3>1. CASE WriteLine(c)
      BY <3>1 DEF WriteLine, readVars
    <3>2. CASE WriteHead(c)
      BY <3>2 DEF WriteHead, readVars
    <3> QED
      BY <1>3, <3>1, <3>2
  <2>2. InReach'
    <3>1. size' \in Nat /\ size <= size' /\ size' <= MaxText /\ filled <= size'
      BY <2>0, <2>1
    <3> QED
      BY <2>0, <2>1, <3>1, StillInReach
  <2>3. command' \in Seq(Commands) /\ Len(command') = Len(command) + 1
    BY <2>1 DEF Written
  <2>4. (size' + 1) \div 2 = (size + 1) \div 2 + 1 /\ size' \in Nat
    BY <2>0, <2>1, Halves
  <2>5. Written'
    BY <2>3, <2>4 DEF Written
  <2> QED
    BY <2>2, <2>5
<1> QED
  BY <1>1, <1>2, <1>3 DEF Write

LEMMA MainTypes == ASSUME InReach, Main PROVE InReach'
<1> USE DEF textVars
<1>0. taken \in Nat /\ filled \in Nat /\ size \in Nat /\ filled <= size /\ taken <= filled
  BY DEF InReach
<1>1. CASE ReadLine
  <2>1. NextLine \in taken + 1..filled
    BY <1>0, <1>1, NewlineAhead DEF ReadLine
  <2>2. Exec(taken + 1, NextLine) /\ UNCHANGED <<mode, start, size, closed>>
    BY <1>1 DEF ReadLine
  <2> QED
    BY <1>0, <2>1, <2>2, ExecInReach
<1>2. CASE Fill
  BY <1>0, <1>2, StillInReach DEF Fill, InReach
<1>3. CASE AtEOF
  BY <1>0, <1>3, StillInReach DEF AtEOF, InReach
<1>4. CASE AtClose
  <2>1. CASE LastLine
    <3>1. Exec(taken + 1, filled) /\ UNCHANGED <<mode, start, size, closed>> /\ taken < filled
      BY <1>4, <2>1 DEF AtClose, LastLine
    <3> QED
      BY <1>0, <3>1, ExecInReach
  <2>2. CASE ~LastLine
    BY <1>0, <1>4, <2>2, StillInReach DEF AtClose, InReach
  <2> QED
    BY <2>1, <2>2
<1>5. CASE PushReturns
  BY <1>0, <1>5, StillInReach DEF PushReturns, InReach
<1> QED
  BY <1>1, <1>2, <1>3, <1>4, <1>5 DEF Main

LEMMA ServerTypes ==
  ASSUME ServerTyped, Deliver \/ StreamEnds \/ Announce \/ \E s \in Sessions : Frame(s)
  PROVE  ServerTyped'
<1>1. CASE Deliver
  <2>1. hot \in Sessions
    BY <1>1 DEF Deliver, ServerTyped
  <2>2. queue' \in Seq(Sessions) /\ Len(queue') <= ChanCap
    BY <1>1, <2>1 DEF Deliver, ServerTyped
  <2> QED
    BY <1>1, <2>2 DEF Deliver, ServerTyped
<1>2. CASE StreamEnds
  BY <1>2 DEF StreamEnds, ServerTyped
<1>3. CASE Announce
  <2>1. queue' \in Seq(Sessions) /\ Len(queue') <= ChanCap /\ Head(queue) \in Sessions
    BY <1>3 DEF Announce, ServerTyped
  <2> QED
    BY <1>3, <2>1 DEF Announce, ServerTyped
<1>4. CASE \E s \in Sessions : Frame(s)
  BY <1>4 DEF Frame, Known, ServerTyped
<1> QED
  BY <1>1, <1>2, <1>3, <1>4

(* The demo keeps its types: what is handed over was read, what is read    *)
(* was written, and the common channel keeps to its capacity, whether or   *)
(* not lines are written in one piece.                                     *)
THEOREM TypeCorrect == Spec => []TypeOK
<1> DEFINE Typed == InReach /\ Written /\ ServerTyped
<1>1. Init => Typed
  BY TypesInit
<1>2. Typed /\ [Next]_vars => Typed'
  <2> SUFFICES ASSUME InReach, Written, ServerTyped, [Next]_vars
               PROVE  InReach' /\ Written' /\ ServerTyped'
    OBVIOUS
  <2>1. CASE Write
    <3>1. UNCHANGED serverVars
      BY <2>1 DEF Write, WriteLine, WriteHead, WriteTail, Close
    <3>2. ServerTyped'
      BY <3>1 DEF serverVars, ServerTyped
    <3> QED
      BY <2>1, <3>2, WriteTypes
  <2>2. CASE Main
    <3>1. UNCHANGED <<size, command, routed, hot, queue, seen, ended>>
      BY <2>2 DEF Main, ReadLine, Fill, AtEOF, AtClose, PushReturns, textVars, serverVars
    <3>2. Written' /\ ServerTyped'
      BY <3>1 DEF Written, ServerTyped
    <3> QED
      BY <2>2, <3>2, MainTypes
  <2>3. CASE Server
    <3>1. UNCHANGED <<mode, start, size, closed, command, filled, taken, doing, executed>>
      BY <2>3 DEF Server, textVars, readVars
    <3>2. InReach' /\ Written'
      BY <3>1 DEF InReach, Written
    <3> QED
      BY <2>3, <3>2, ServerTypes DEF Server
  <2>4. CASE UNCHANGED vars
    BY <2>4 DEF vars, textVars, readVars, serverVars, InReach, Written, ServerTyped
  <2> QED
    BY <2>1, <2>2, <2>3, <2>4 DEF Next
<1>3. Typed => TypeOK
  <2> SUFFICES ASSUME InReach, Written, ServerTyped PROVE TypeOK
    OBVIOUS
  <2>1. \A i \in (start \div 2) + 1..(size + 1) \div 2 : command[i] \in Commands
    <3>1. start \div 2 \in Nat
      BY Halves DEF InReach
    <3> QED
      BY <3>1 DEF Written
  <2> QED
    BY <2>1 DEF InReach, ServerTyped, TypeOK
<1> QED
  BY <1>1, <1>2, <1>3, PTL DEF Spec

=============================================================================
