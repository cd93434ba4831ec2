----------------------------- MODULE OneTimeCodes -----------------------------
(***************************************************************************)
(* What enrollment promises about activation codes: a code that was given  *)
(* out for a tenant is good until its expiry, that moment included, and    *)
(* exactly one request that asks with it while it is good is admitted, for *)
(* that tenant.  Every other request is refused, and refusing one, or any  *)
(* housekeeping, changes nothing.                                          *)
(***************************************************************************)
EXTENDS Integers

CONSTANTS Codes, Tenants, Requests,
          Expiries,   \* the expiries that codes are given out with
          NotGood,    \* no such code, or it expired, or it was used
          NoVerdict   \* the request has not been decided

VARIABLES now,      \* the clock
          good,     \* good[c]: tenant and expiry of a code that is good
          verdict   \* verdict[r]: the code and whom it was admitted for

vars == <<now, good, verdict>>

Init == /\ now = 0
        /\ good = [c \in Codes |-> NotGood]
        /\ verdict = [r \in Requests |-> NoVerdict]

Tick == /\ now' = now + 1
        /\ good' = [c \in Codes |->
                      IF good[c] # NotGood /\ good[c].expiry < now'
                      THEN NotGood ELSE good[c]]
        /\ UNCHANGED verdict

(* A code that is given out late is not good any more. *)
GiveOut(c) ==
    /\ \E t \in Tenants, e \in Expiries :
          good' = [good EXCEPT ![c] =
                     IF e < now THEN NotGood ELSE [tenant |-> t, expiry |-> e]]
    /\ UNCHANGED <<now, verdict>>

Admit(r, c) ==
    /\ verdict[r] = NoVerdict
    /\ good[c] # NotGood
    /\ verdict' = [verdict EXCEPT ![r] = <<c, good[c].tenant>>]
    /\ good' = [good EXCEPT ![c] = NotGood]
    /\ UNCHANGED now

Refuse(r, c) ==
    /\ verdict[r] = NoVerdict
    /\ good[c] = NotGood
    /\ verdict' = [verdict EXCEPT ![r] = <<c, NotGood>>]
    /\ UNCHANGED <<now, good>>

Next == \/ Tick
        \/ \E c \in Codes : GiveOut(c) \/ \E r \in Requests : Admit(r, c) \/ Refuse(r, c)

Spec == Init /\ [][Next]_vars

=============================================================================
