------------------------------ MODULE KillSwitch ------------------------------
(***************************************************************************)
(* What the lease promises of one run of an Edge process (ADR-0007).  Of   *)
(* the leases that have reached it, in whatever order and however often,   *)
(* the one in force is the newest, by its counter, and the first of these  *)
(* if there are several.  Once the kill-switch has fired none is in force  *)
(* and nothing changes that.  A restarted process begins anew: nothing is  *)
(* kept on disk.                                                           *)
(*                                                                         *)
(* The newest lease may end earlier than the one before it, but only if    *)
(* somebody has meddled with the counters: while the run is orderly, that  *)
(* is, while leases only answer heartbeats that tell the counter of the    *)
(* lease in force, a new one never ends earlier.                           *)
(***************************************************************************)
EXTENDS Integers

VARIABLES arrived,  \* the leases that have reached the process
          inForce,  \* the lease in force, as a set of at most one
          killed,   \* the kill-switch has fired
          orderly   \* nobody has meddled with the counters

vars == <<arrived, inForce, killed, orderly>>

Newest(S) == {l \in S : \A m \in S : m.counter <= l.counter}

Fresh == arrived = {} /\ inForce = {} /\ killed = FALSE

Init == Fresh /\ orderly = TRUE

Arrive(l) ==
    /\ ~killed
    /\ arrived' = arrived \cup {l}
    /\ inForce' = IF inForce \cap Newest(arrived') # {} THEN inForce
                                                        ELSE {l} \cap Newest(arrived')
    /\ orderly => \A h \in inForce, n \in inForce' : h.expires <= n.expires
    /\ UNCHANGED <<killed, orderly>>

Kill == killed' = TRUE /\ inForce' = {} /\ UNCHANGED <<arrived, orderly>>

Meddle == orderly' = FALSE /\ UNCHANGED <<arrived, inForce, killed>>

Restart == Fresh' /\ orderly' = TRUE

Next == Kill \/ Meddle \/ Restart \/ \E l \in arrived' : Arrive(l)

Spec == Init /\ [][Next]_vars

=============================================================================
