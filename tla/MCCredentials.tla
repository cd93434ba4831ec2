---------------------------- MODULE MCCredentials ----------------------------
(* Credentials for TLC: two Edges, one of them with a clock that is behind *)
(* by as much as the certificates are dated back, and two codes.           *)
EXTENDS Credentials, TLC

CONSTANTS e1, e2, c1, c2, t1, t2

MCTenantOf == c1 :> t1 @@ c2 :> t2
MCLag == e1 :> 0 @@ e2 :> 1

=============================================================================
