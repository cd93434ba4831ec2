------------------------------- MODULE MCDuplex -------------------------------
(* Duplex for TLC.  The instances differ in who reads: a goroutine of its  *)
(* own, or the goroutine that also sends.                                  *)
EXTENDS Duplex

=============================================================================
