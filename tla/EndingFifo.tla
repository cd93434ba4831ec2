------------------------------ MODULE EndingFifo ------------------------------
(***************************************************************************)
(* What the Edge's client promises to the application that reads Received: *)
(* the messages of the cloud in order, with nothing left out, and then the *)
(* end, with its cause.  Messages are numbered in the order in which the   *)
(* cloud sends them.  Only a stream that was cut loses messages, only the  *)
(* last ones, and never one that the application has read.                 *)
(***************************************************************************)
EXTENDS Naturals, Sequences

CONSTANTS Open, EOF, Cut    \* how the stream stands

VARIABLES
    sent,   \* how many messages the cloud has sent
    kept,   \* how many of them are read or still to be read
    read,   \* what the application has read
    end,    \* Open, or how the stream ended
    over    \* Open, or the cause that the application was told

vars == <<sent, kept, read, end, over>>

Init == sent = 0 /\ kept = 0 /\ read = <<>> /\ end = Open /\ over = Open

Put ==
    /\ end = Open
    /\ sent' = sent + 1 /\ kept' = kept + 1
    /\ UNCHANGED <<read, end, over>>

Take ==
    /\ Len(read) < kept
    /\ read' = Append(read, Len(read) + 1)
    /\ UNCHANGED <<sent, kept, end, over>>

End ==
    /\ end = Open
    /\ end' \in {EOF, Cut}
    /\ UNCHANGED <<sent, kept, read, over>>

Lose ==
    /\ end = Cut
    /\ kept' \in Len(read)..kept
    /\ UNCHANGED <<sent, read, end, over>>

TellEnd ==
    /\ end # Open /\ over = Open
    /\ Len(read) = kept
    /\ over' = end
    /\ UNCHANGED <<sent, kept, read, end>>

Next == Put \/ Take \/ End \/ Lose \/ TellEnd

Spec == Init /\ [][Next]_vars

=============================================================================
