------------------------------ MODULE DemoCloud ------------------------------
(***************************************************************************)
(* The demo cloud (src/cmd/democloud/main.go): the main goroutine reads    *)
(* commands from standard input or follows a file that somebody appends    *)
(* to, and pushes orders to the Edge; logIncoming reads what the Edge      *)
(* sends and announces each session at its first message.                  *)
(*                                                                         *)
(* Text is counted in halves of lines: a line is an odd piece and the even *)
(* piece after it, which ends with the newline.  Of the server only the    *)
(* routes, the common channel and the order of Connect's steps are kept.   *)
(***************************************************************************)
EXTENDS Integers, Sequences, FiniteSetsExt

CONSTANTS
    Modes,      \* how main may be started: subset of {"tail", "stdin"}
    Split,      \* the modes in which a line may be written by two writes
    Sessions,   \* session_ids; such a command is a send or a ping to it
    Quit, Junk, \* the other commands: quit or exit; unknown, empty or short
    NoSession,  \* no frame is between register and deliver
    OldText,    \* bound: halves of lines in the file before the start
    MaxText,    \* bound: halves of lines in all
    ChanCap     \* bound: messages between deliver and logIncoming

Commands == Sessions \cup {Quit, Junk}

ASSUME DemoCloudConstants ==
    /\ Modes \subseteq {"tail", "stdin"}
    /\ NoSession \notin Sessions
    /\ Quit \notin Sessions /\ Junk \notin Sessions \cup {Quit}
    /\ MaxText \in Nat /\ OldText \in 0..MaxText /\ ChanCap \in Nat \ {0}

VARIABLES
    mode, start,     \* how the commands are read, and from where
    size, closed,    \* pieces written; whether standard input has ended
    command,         \* what each line says
    filled, taken,   \* pieces that bufio has read, and has handed over
    doing,           \* the main goroutine: "read", "push" or "stopped"
    executed,        \* history: first and last piece of each command line
    routed, hot,     \* the routes; the frame that Connect is handling
    queue, seen,     \* what logIncoming has yet to read; the sessions announced
    ended            \* whether a stream has ever ended

textVars == <<size, closed, command>>
readVars == <<filled, taken, doing, executed>>
serverVars == <<routed, hot, queue, seen, ended>>
vars == <<mode, start, textVars, readVars, serverVars>>

TypeOK ==
    /\ mode \in Modes /\ start \in 0..OldText /\ closed \in BOOLEAN
    /\ start <= taken /\ taken <= filled /\ filled <= size /\ size <= MaxText
    /\ \A i \in (start \div 2) + 1..(size + 1) \div 2 : command[i] \in Commands
    /\ doing \in {"read", "push", "stopped"}
    /\ executed \in Seq((0..size) \X (0..size))
    /\ routed \subseteq Sessions /\ hot \in Sessions \cup {NoSession}
    /\ queue \in Seq(Sessions) /\ Len(queue) <= ChanCap
    /\ seen \subseteq Sessions /\ ended \in BOOLEAN

(* tailCommands seeks to the end of the file. *)
Origin(old) == old

Init ==
    /\ mode \in Modes
    /\ size \in {n \in 0..OldText : \/ n = 0
                                    \/ mode = "tail" /\ (n % 2 = 0 \/ mode \in Split)}
    /\ command \in [1..(size + 1) \div 2 -> {Junk}]
    /\ start = size /\ closed = FALSE
    /\ filled = Origin(size) /\ taken = Origin(size)
    /\ doing = "read" /\ executed = <<>>
    /\ routed = {} /\ hot = NoSession /\ queue = <<>> /\ seen = {} /\ ended = FALSE

-----------------------------------------------------------------------------
(* Whoever writes the commands.                                            *)

WriteLine(c) ==
    /\ ~closed /\ size % 2 = 0 /\ size + 2 <= MaxText
    /\ size' = size + 2 /\ command' = Append(command, c)
    /\ UNCHANGED <<mode, start, closed, readVars, serverVars>>

WriteHead(c) ==
    /\ mode \in Split
    /\ ~closed /\ size % 2 = 0 /\ size + 2 <= MaxText
    /\ size' = size + 1 /\ command' = Append(command, c)
    /\ UNCHANGED <<mode, start, closed, readVars, serverVars>>

WriteTail ==
    /\ ~closed /\ size % 2 = 1 /\ size < MaxText
    /\ size' = size + 1
    /\ UNCHANGED <<mode, start, closed, command, readVars, serverVars>>

Close ==
    /\ mode = "stdin" /\ ~closed
    /\ closed' = TRUE
    /\ UNCHANGED <<mode, start, size, command, readVars, serverVars>>

Write == Close \/ WriteTail \/ \E c \in Commands : WriteLine(c) \/ WriteHead(c)

-----------------------------------------------------------------------------
(* execCommand, for the line of the pieces first to last.                  *)

(* Half a line may read as any command. *)
Says(first, last) ==
    IF last = first + 1 /\ last % 2 = 0 THEN {command[last \div 2]} ELSE Commands

Exec(first, last) ==
    /\ executed' = Append(executed, <<first, last>>)
    /\ taken' = last
    /\ \E c \in Says(first, last) :
         doing' = CASE c = Quit -> "stopped"
                    [] c \in routed -> "push"    \* else Push fails at once
                    [] OTHER -> "read"
    /\ UNCHANGED filled

(* stream.Send accepts the order, or the stream has ended. *)
PushReturns ==
    /\ doing = "push"
    /\ doing' = "read"
    /\ UNCHANGED <<mode, start, textVars, filled, taken, executed, serverVars>>

-----------------------------------------------------------------------------
(* ReadString of tailCommands, and the Scanner of readCommands.            *)

Newlines == {p \in taken + 1..filled : p % 2 = 0}

(* Where the next line ends.  Mutant: all that is in the buffer is a line. *)
NextLine_Last == Max(Newlines)
NextLine == Min(Newlines)

ReadLine ==
    /\ doing = "read"
    /\ Newlines # {}
    /\ Exec(taken + 1, NextLine)
    /\ UNCHANGED <<mode, start, textVars, serverVars>>

(* The buffer takes what there is, or as much of it as it has room for. *)
Fill ==
    /\ doing = "read"
    /\ Newlines = {}
    /\ filled' \in filled + 1..size
    /\ UNCHANGED <<mode, start, textVars, taken, doing, executed, serverVars>>

(* At the end of the file ReadString returns the piece it has, without its *)
(* newline and with an error, and the loop goes on without the piece.      *)
AtEOF ==
    /\ mode = "tail" /\ doing = "read"
    /\ Newlines = {} /\ filled = size
    /\ taken' = filled
    /\ UNCHANGED <<mode, start, textVars, filled, doing, executed, serverVars>>

(* At the end of standard input Scan still gives the piece it has, and     *)
(* then nothing: main returns.  Mutant: only whole lines are given.        *)
LastLine_Whole == FALSE
LastLine == taken < filled

AtClose ==
    /\ closed /\ doing = "read"
    /\ Newlines = {} /\ filled = size
    /\ IF LastLine THEN Exec(taken + 1, filled)
                   ELSE doing' = "stopped" /\ UNCHANGED <<filled, taken, executed>>
    /\ UNCHANGED <<mode, start, textVars, serverVars>>

Main == ReadLine \/ Fill \/ AtEOF \/ AtClose \/ PushReturns

-----------------------------------------------------------------------------
(* The server, until main returns, and logIncoming.                        *)

(* Mutant: register comes after deliver. *)
Known_Later(s) == IF s \in seen THEN routed \cup {s} ELSE routed
Known(s) == routed \cup {s}

Frame(s) ==
    /\ hot = NoSession
    /\ routed' = Known(s) /\ hot' = s
    /\ UNCHANGED <<queue, seen, ended>>

Deliver ==
    /\ hot # NoSession
    /\ queue' = IF Len(queue) < ChanCap THEN Append(queue, hot) ELSE queue
    /\ hot' = NoSession
    /\ UNCHANGED <<routed, seen, ended>>

StreamEnds ==
    /\ hot = NoSession
    /\ routed' = {} /\ ended' = TRUE
    /\ UNCHANGED <<hot, queue, seen>>

Announce ==
    /\ queue # <<>>
    /\ seen' = seen \cup {Head(queue)}
    /\ queue' = Tail(queue)
    /\ UNCHANGED <<routed, hot, ended>>

Server ==
    /\ doing # "stopped"
    /\ Deliver \/ StreamEnds \/ Announce \/ \E s \in Sessions : Frame(s)
    /\ UNCHANGED <<mode, start, textVars, readVars>>

Next == Write \/ Main \/ Server

Spec == Init /\ [][Next]_vars

(* The main goroutine runs, and the Edge reads, so that a Push returns. *)
FairSpec == Spec /\ WF_vars(Main)

-----------------------------------------------------------------------------
(* Properties.                                                             *)

(* "Ejecuta cada línea NUEVA apendida (ignora el contenido previo)"        *)
(* (main.go:92-93): what is executed are the lines written since the       *)
(* start, in order, each whole and none left out or repeated; only an      *)
(* ended standard input may leave a last line without its newline.         *)
NewLinesWhole ==
    \A i \in DOMAIN executed :
      LET first == executed[i][1]  last == executed[i][2] IN
        /\ first = 1 + IF i = 1 THEN start ELSE executed[i - 1][2]
        /\ first % 2 = 1
        /\ last = first + 1 \/ (closed /\ last = first /\ last = size)

(* Whoever has been told that a session is registered can push to it as    *)
(* long as no stream ends.                                                 *)
AnnouncedIsRouted == ended \/ seen \subseteq routed

(* What is written before standard input ends, or to the file, is executed *)
(* up to the last piece, unless a command stops the demo.                  *)
TextIsExecuted ==
    \A n \in 1..MaxText :
       size >= n /\ n > start /\ (n % 2 = 0 \/ closed)
         ~> \/ \E i \in DOMAIN executed : executed[i][2] >= n
            \/ \E i \in DOMAIN executed : Quit \in Says(executed[i][1], executed[i][2])

=============================================================================
