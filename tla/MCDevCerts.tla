------------------------------ MODULE MCDevCerts ------------------------------
(* DevCerts for TLC. *)
EXTENDS DevCerts

=============================================================================
