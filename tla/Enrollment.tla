------------------------------ MODULE Enrollment ------------------------------
(***************************************************************************)
(* Enrollment of Edges by one-time activation codes: the MemoryStore of    *)
(* codes (src/internal/enroll/store.go), the Service that consumes a code  *)
(* and has the CA sign (service.go, ca.go), and the EnrollEdge handler     *)
(* that gives the answer its gRPC status (src/internal/server/             *)
(* enrollment.go).  The handler runs in a goroutine per request, and the   *)
(* store's periodic GC in another.                                         *)
(*                                                                         *)
(* A request has three steps: it checks its CSR, it consumes its code      *)
(* under the store's mutex, it signs.  A CSR is good or bad; of the        *)
(* certificate only the tenant matters here.  A server without an enroller *)
(* answers Unimplemented and does nothing: it is not modelled.             *)
(***************************************************************************)
EXTENDS Integers, FiniteSets

CONSTANTS
    Codes, Tenants,
    Requests,   \* calls of EnrollEdge; a retry is another call
    NoCode, NoTenant,
    MaxAdds,    \* bound: how often each code is added
    MaxTime     \* bound: the clock, and the expiries that are given out

ASSUME EnrollmentConstants ==
    /\ NoTenant \notin Tenants
    /\ \A t \in Tenants, e \in 0..MaxTime : NoTenant # [tenant |-> t, expiry |-> e]
    /\ NoCode \notin Codes
    /\ IsFiniteSet(Requests)
    /\ MaxAdds \in Nat /\ MaxTime \in Nat

ActivationCode == [tenant : Tenants, expiry : 0..MaxTime, used : BOOLEAN]
Errors == {"ErrInvalidCSR", "ErrCodeNotFound", "ErrCodeExpired", "ErrCodeUsed", "ErrSign"}
StatusCodes == {"OK", "InvalidArgument", "PermissionDenied", "Internal"}

VARIABLES
    now,        \* the clock
    present,    \* the keys of MemoryStore.codes
    codes,      \* codes[c]: the entry of a code that is present
    pc,         \* where each request stands
    csr, code,  \* its arguments
    tenant,     \* what Consume gave it
    answer,     \* its status, once it has one
    adds        \* history: adds[c]: how often c was added

storeVars == <<present, codes>>
requestVars == <<pc, csr, code, tenant, answer>>
vars == <<now, storeVars, requestVars, adds>>

TypeOK ==
    /\ now \in 0..MaxTime
    /\ present \subseteq Codes
    /\ \A c \in present : codes[c] \in ActivationCode
    /\ pc \in [Requests -> {"idle", "consume", "sign", "done"}]
    /\ csr \in [Requests -> {"good", "bad"}]
    /\ code \in [Requests -> Codes \cup {NoCode}]
    /\ tenant \in [Requests -> Tenants \cup {NoTenant}]
    /\ answer \in [Requests -> StatusCodes \cup {"none"}]
    /\ adds \in [Codes -> 0..MaxAdds]

(* An entry that was never there. *)
Blank == [tenant |-> NoTenant, expiry |-> 0, used |-> FALSE]

Init ==
    /\ now = 0
    /\ present = {}
    /\ codes = [c \in Codes |-> Blank]
    /\ pc = [r \in Requests |-> "idle"]
    /\ csr = [r \in Requests |-> "good"]
    /\ code = [r \in Requests |-> NoCode]
    /\ tenant = [r \in Requests |-> NoTenant]
    /\ answer = [r \in Requests |-> "none"]
    /\ adds = [c \in Codes |-> 0]

Tick == /\ now < MaxTime
        /\ now' = now + 1
        /\ UNCHANGED <<storeVars, requestVars, adds>>

-----------------------------------------------------------------------------
(* MemoryStore.                                                            *)

Entry(t, e) == [tenant |-> t, expiry |-> e, used |-> FALSE]

(* Add, for a code that may be there already, used or not; the expiry may  *)
(* have passed.                                                            *)
Add(c, t, e) ==
    /\ adds[c] < MaxAdds
    /\ present' = present \cup {c}
    /\ codes' = [codes EXCEPT ![c] = Entry(t, e)]
    /\ adds' = [adds EXCEPT ![c] = @ + 1]
    /\ UNCHANGED <<now, requestVars>>

Expired(c) == now > codes[c].expiry

(* GC deletes what has expired.  Mutant: what expires now, too. *)
Swept_Early == {c \in present : now >= codes[c].expiry}
Swept == {c \in present : Expired(c)}

GC ==
    /\ Swept # {}
    /\ present' = present \ Swept
    /\ codes' = [c \in Codes |-> IF c \in Swept THEN Blank ELSE codes[c]]
    /\ UNCHANGED <<now, requestVars, adds>>

(* What Consume returns, in the order of its checks. *)
ConsumeError(c) ==
    CASE c \notin present           -> "ErrCodeNotFound"
      [] c \in present /\ Expired(c) -> "ErrCodeExpired"
      [] c \in present /\ ~Expired(c) /\ codes[c].used -> "ErrCodeUsed"
      [] OTHER                      -> "none"

(* Mutant: a consumed code is not marked. *)
Consumed_Unmarked(c) == codes
Consumed(c) == [codes EXCEPT ![c].used = TRUE]

-----------------------------------------------------------------------------
(* EnrollEdge and Service.Enroll, in request r.                            *)

(* The status that EnrollEdge gives an error. *)
Status(err) ==
    CASE err = "none"           -> "OK"
      [] err = "ErrInvalidCSR"  -> "InvalidArgument"
      [] err = "ErrSign"        -> "Internal"
      [] OTHER                  -> "PermissionDenied"

Finish(r, err) == /\ pc' = [pc EXCEPT ![r] = "done"]
                  /\ answer' = [answer EXCEPT ![r] = Status(err)]

(* Mutant: the CSR is not verified before the code is consumed. *)
Rejected_Later(cs) == FALSE
Rejected(cs) == cs = "bad"

(* A call comes in and its CSR is verified: missing or bad, it ends here.  *)
Call(r, c, cs) ==
    /\ pc[r] = "idle"
    /\ code' = [code EXCEPT ![r] = c]
    /\ csr' = [csr EXCEPT ![r] = cs]
    /\ \/ Rejected(cs) /\ Finish(r, "ErrInvalidCSR")
       \/ ~Rejected(cs) /\ pc' = [pc EXCEPT ![r] = "consume"] /\ UNCHANGED answer
    /\ UNCHANGED <<now, storeVars, tenant, adds>>

(* Consume under the store's mutex: it succeeds, or the call ends.         *)
Consume(r) ==
    /\ pc[r] = "consume"
    /\ ConsumeError(code[r]) = "none"
    /\ codes' = Consumed(code[r])
    /\ tenant' = [tenant EXCEPT ![r] = codes[code[r]].tenant]
    /\ pc' = [pc EXCEPT ![r] = "sign"]
    /\ UNCHANGED <<now, present, csr, code, answer, adds>>

Deny(r) ==
    /\ pc[r] = "consume"
    /\ ConsumeError(code[r]) # "none"
    /\ Finish(r, ConsumeError(code[r]))
    /\ UNCHANGED <<now, storeVars, csr, code, tenant, adds>>

(* SignCSR verifies the CSR once more, then entropy or the key can fail it. *)
SignErrors(r) == IF csr[r] = "bad" THEN {"ErrInvalidCSR"} ELSE {"none", "ErrSign"}

Sign(r) ==
    /\ pc[r] = "sign"
    /\ \E err \in SignErrors(r) : Finish(r, err)
    /\ UNCHANGED <<now, storeVars, csr, code, tenant, adds>>

EnrollEdge(r) == Consume(r) \/ Deny(r) \/ Sign(r)

Next ==
    \/ Tick
    \/ GC
    \/ \E c \in Codes, t \in Tenants, e \in 0..MaxTime : Add(c, t, e)
    \/ \E r \in Requests : \/ EnrollEdge(r)
                           \/ \E c \in Codes, cs \in {"good", "bad"} : Call(r, c, cs)

Spec == Init /\ [][Next]_vars

-----------------------------------------------------------------------------
(* Properties.                                                             *)

(* No code yields more certificates than times it was given out, whichever *)
(* requests run at once and whatever GC and Add do between their steps.    *)
Admitted(c) ==
    {r \in Requests : code[r] = c /\ (pc[r] = "sign" \/ answer[r] = "OK")}
OneCertPerCode == \A c \in Codes : Cardinality(Admitted(c)) <= adds[c]

(* A code is used up only by a request that got its certificate, is about  *)
(* to, or was failed by the CA: never by a CSR that does not verify        *)
(* (service.go:39-41).                                                     *)
NeverBurntByCSR ==
    \A c \in present : codes[c].used =>
        \E r \in Requests : /\ code[r] = c
                            /\ pc[r] = "sign" \/ answer[r] \in {"OK", "Internal"}

(* Codes behave as if there were no GC and no store: each is good up to    *)
(* its expiry for one request, for the tenant it was given out to.         *)
Codebook == INSTANCE OneTimeCodes WITH
    Expiries <- 0..MaxTime,
    NotGood <- NoTenant,
    NoVerdict <- NoCode,
    good <- [c \in Codes |->
               IF c \in present /\ ~Expired(c) /\ ~codes[c].used
               THEN [tenant |-> codes[c].tenant, expiry |-> codes[c].expiry]
               ELSE NoTenant],
    verdict <- [r \in Requests |->
                  IF pc[r] = "sign" \/ answer[r] \in {"OK", "Internal", "PermissionDenied"}
                  THEN <<code[r], tenant[r]>>
                  ELSE NoCode]
ImplementsOneTimeCodes == Codebook!Spec

=============================================================================
