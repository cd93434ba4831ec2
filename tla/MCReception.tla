----------------------------- MODULE MCReception -----------------------------
(* A small instance of Reception, with the reader of its metric, for TLC. *)
EXTENDS DropMetrics

=============================================================================
