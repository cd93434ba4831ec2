----------------------------- MODULE MCEdgeClient -----------------------------
(* EdgeClient for TLC: the reader is not among the senders. *)
EXTENDS EdgeClient

=============================================================================
