------------------------------- MODULE MCLease -------------------------------
(* Small instances of Lease for TLC. *)
EXTENDS Lease

(* The platform issues a lease that ends at once, and is newer than the    *)
(* first renewal; an Edge without a lease reports that it has one.         *)
MCIssued == {[ttl |-> 0, counter |-> 2]}
MCReports == {1}

=============================================================================
