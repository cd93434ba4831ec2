-------------------------- MODULE MCSessionRegistry --------------------------
(* Small instances of SessionRegistry for TLC. *)
EXTENDS SessionRegistry, TLC

(* Safety runs only: streams, sessions and pushers are interchangeable. *)
Symmetry == Permutations(Streams) \cup Permutations(Sessions)
                \cup Permutations(Pushers)

=============================================================================
