------------------------------ MODULE LossyFifos ------------------------------
(***************************************************************************)
(* What the reception of edge->cloud messages promises to each session: a  *)
(* FIFO queue of its own that refuses a new item, and counts it, only      *)
(* while it holds Cap items or more.  The queues are merged, in any way,   *)
(* into one that a single reader reads; what is refused to one session     *)
(* depends on no other.                                                    *)
(***************************************************************************)
EXTENDS Naturals, Sequences

CONSTANTS Sessions, Items, Cap

VARIABLES queue,   \* queue[s]: accepted and not yet merged, oldest first
          merged,  \* merged and not yet read, oldest first
          losses   \* losses[s]: how many items of s were refused

vars == <<queue, merged, losses>>

Init == /\ queue = [s \in Sessions |-> <<>>]
        /\ merged = <<>>
        /\ losses = [s \in Sessions |-> 0]

Enqueue(s, x) == /\ queue' = [queue EXCEPT ![s] = Append(@, x)]
                 /\ UNCHANGED <<merged, losses>>

Refuse(s) == /\ Len(queue[s]) >= Cap
             /\ losses' = [losses EXCEPT ![s] = @ + 1]
             /\ UNCHANGED <<queue, merged>>

Merge(s) == /\ queue[s] # <<>>
            /\ merged' = Append(merged, Head(queue[s]))
            /\ queue' = [queue EXCEPT ![s] = Tail(@)]
            /\ UNCHANGED losses

Read == /\ merged # <<>>
        /\ merged' = Tail(merged)
        /\ UNCHANGED <<queue, losses>>

Next == \/ \E s \in Sessions : \/ \E x \in Items : Enqueue(s, x)
                               \/ Refuse(s)
                               \/ Merge(s)
        \/ Read

Spec == Init /\ [][Next]_vars

=============================================================================
