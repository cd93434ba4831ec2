----------------------------- MODULE MCDemoCloud -----------------------------
(* DemoCloud for TLC. *)
EXTENDS DemoCloud

=============================================================================
