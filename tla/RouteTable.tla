------------------------------ MODULE RouteTable ------------------------------
(***************************************************************************)
(* What the server promises about routing cloud->edge commands: a table    *)
(* that maps a session_id to at most one connection, in which a connection *)
(* appears only while it is alive.  How the code keeps it (a mutex, a set  *)
(* of session_ids per handler, a conditional delete on exit) is left to    *)
(* SessionRegistry, which implements this module.                          *)
(***************************************************************************)
CONSTANTS Sessions,  \* non-empty session_ids
          Streams,   \* one connection (Connect stream) each
          NoConn     \* "no entry in the table"

VARIABLES route,     \* route[s]: where a command for session s is sent
          live       \* connections whose handler has started and not returned

vars == <<route, live>>

Init == /\ route = [s \in Sessions |-> NoConn]
        /\ live = {}

(* A handler starts on connection c. *)
Open(c) == /\ c \notin live
           /\ live' = live \cup {c}
           /\ UNCHANGED route

(* A live connection takes over the route of session s, whoever had it. *)
Claim(s, c) == /\ c \in live
               /\ route' = [route EXCEPT ![s] = c]
               /\ UNCHANGED live

(* A connection ends: in the same step it loses every route it holds, and *)
(* nobody else loses one.                                                 *)
Retire(c) == /\ c \in live
             /\ live' = live \ {c}
             /\ route' = [s \in Sessions |->
                            IF route[s] = c THEN NoConn ELSE route[s]]

Next == \E c \in Streams : \/ Open(c)
                           \/ Retire(c)
                           \/ \E s \in Sessions : Claim(s, c)

Spec == Init /\ [][Next]_vars

=============================================================================
