--------------------------- MODULE EnrollmentProofs ---------------------------
(***************************************************************************)
(* Proofs about Enrollment, for any codes and tenants, any finite number   *)
(* of calls and any bounds.                                                *)
(***************************************************************************)
EXTENDS Enrollment, FiniteSetTheorems, TLAPS

USE EnrollmentConstants

-----------------------------------------------------------------------------
(* Types.                                                                  *)

(* A call has its answer when it is done, and its tenant since Consume.    *)
Answered == \A r \in Requests : /\ pc[r] # "done" <=> answer[r] = "none"
                                /\ pc[r] # "idle" => code[r] \in Codes

TInv == TypeOK /\ Answered /\ codes \in [Codes -> ActivationCode \cup {Blank}]

LEMMA EntryTyped ==
  ASSUME NEW t \in Tenants, NEW e \in 0..MaxTime
  PROVE  Entry(t, e) \in ActivationCode
  BY DEF Entry, ActivationCode

LEMMA StatusTyped == \A err : Status(err) \in StatusCodes
  BY DEF Status, StatusCodes

LEMMA TInit == Init => TInv
  BY DEF Init, TInv, TypeOK, Answered

LEMMA TNext == TInv /\ [Next]_vars => TInv'
<1> SUFFICES ASSUME TInv, [Next]_vars PROVE TInv'
  OBVIOUS
<1> USE DEF TInv, TypeOK, Answered
<1>1. ASSUME Tick PROVE TInv'
  <2>1. now' \in 0..MaxTime
    BY <1>1 DEF Tick
  <2> QED
    BY <1>1, <2>1 DEF Tick, storeVars, requestVars
<1>2. ASSUME GC PROVE TInv'
  BY <1>2 DEF GC, requestVars
<1>3. ASSUME NEW c \in Codes, NEW t \in Tenants, NEW e \in 0..MaxTime, Add(c, t, e)
      PROVE  TInv'
  <2>1. adds' \in [Codes -> 0..MaxAdds]
    BY <1>3 DEF Add
  <2> QED
    BY <1>3, <2>1, EntryTyped DEF Add, requestVars
<1>4. ASSUME NEW r \in Requests, NEW c \in Codes, NEW cs \in {"good", "bad"},
             Call(r, c, cs)
      PROVE  TInv'
  <2>1. /\ pc[r] = "idle" /\ code' = [code EXCEPT ![r] = c]
        /\ csr' = [csr EXCEPT ![r] = cs]
        /\ UNCHANGED <<now, storeVars, tenant, adds>>
    BY <1>4 DEF Call
  <2>2. \/ /\ pc' = [pc EXCEPT ![r] = "done"]
           /\ answer' = [answer EXCEPT ![r] = Status("ErrInvalidCSR")]
        \/ pc' = [pc EXCEPT ![r] = "consume"] /\ UNCHANGED answer
    BY <1>4 DEF Call, Finish
  <2>3. Answered'
    BY <2>1, <2>2, StatusTyped DEF StatusCodes
  <2>4. TypeOK'
    BY <2>1, <2>2, StatusTyped DEF storeVars
  <2> QED
    BY <2>1, <2>3, <2>4 DEF storeVars
<1>5. ASSUME NEW r \in Requests, Consume(r) PROVE TInv'
  <2>1. /\ code[r] \in present /\ codes[code[r]] \in ActivationCode
        /\ codes[code[r]].tenant \in Tenants
    BY <1>5 DEF Consume, ConsumeError, ActivationCode
  <2>2. [codes[code[r]] EXCEPT !.used = TRUE] \in ActivationCode
    BY <2>1 DEF ActivationCode
  <2>3. codes' = [codes EXCEPT ![code[r]] = [codes[code[r]] EXCEPT !.used = TRUE]]
    BY <1>5 DEF Consume, Consumed
  <2> QED
    BY <1>5, <2>1, <2>2, <2>3 DEF Consume
<1>6. ASSUME NEW r \in Requests, Deny(r) PROVE TInv'
  BY <1>6, StatusTyped DEF Deny, Finish, storeVars, StatusCodes
<1>7. ASSUME NEW r \in Requests, Sign(r) PROVE TInv'
  BY <1>7, StatusTyped DEF Sign, Finish, storeVars, StatusCodes
<1>8. ASSUME UNCHANGED vars PROVE TInv'
  BY <1>8 DEF vars, storeVars, requestVars
<1> HIDE DEF TInv
<1> QED
  BY <1>1, <1>2, <1>3, <1>4, <1>5, <1>6, <1>7, <1>8 DEF Next, EnrollEdge

LEMMA TypeInv == Spec => []TInv
  BY TInit, TNext, PTL DEF Spec

(* Every entry of the store has a tenant, and every call one status.       *)
THEOREM TypeCorrect == Spec => []TypeOK
  BY TypeInv, PTL DEF TInv

-----------------------------------------------------------------------------
(* Who uses a code up.                                                     *)

(* Only a CSR that verifies gets as far as the store, and a call has no    *)
(* tenant before it.                                                       *)
Verified ==
    \A r \in Requests : /\ pc[r] \in {"consume", "sign"} => csr[r] = "good"
                        /\ pc[r] \in {"idle", "consume"} => tenant[r] = NoTenant

Holds(r, c) == code[r] = c /\ (pc[r] = "sign" \/ answer[r] \in {"OK", "Internal"})

BInv == Verified /\ NeverBurntByCSR

LEMMA BInit == Init => BInv
  BY DEF Init, BInv, Verified, NeverBurntByCSR

(* What the steps of a call do to its own state and to the others'.        *)
LEMMA SignEnds ==
  ASSUME TInv, Verified, NEW r \in Requests, Sign(r)
  PROVE  /\ pc' = [pc EXCEPT ![r] = "done"]
         /\ \/ answer' = [answer EXCEPT ![r] = "OK"]
            \/ answer' = [answer EXCEPT ![r] = "Internal"]
<1>1. csr[r] = "good"
  <2>1. pc[r] = "sign"
    BY DEF Sign
  <2> QED
    BY <2>1 DEF Verified
<1>2. PICK err \in {"none", "ErrSign"} : Finish(r, err)
  BY <1>1 DEF Sign, SignErrors
<1> QED
  BY <1>2 DEF Finish, Status

LEMMA DenyEnds ==
  ASSUME TInv, NEW r \in Requests, Deny(r)
  PROVE  /\ pc' = [pc EXCEPT ![r] = "done"]
         /\ answer' = [answer EXCEPT ![r] = "PermissionDenied"]
<1>1. ConsumeError(code[r]) \in {"ErrCodeNotFound", "ErrCodeExpired", "ErrCodeUsed"}
  BY DEF Deny, ConsumeError
<1> QED
  BY <1>1 DEF Deny, Finish, Status

LEMMA CallStarts ==
  ASSUME TInv, NEW r \in Requests, NEW c \in Codes, NEW cs \in {"good", "bad"},
         Call(r, c, cs)
  PROVE  \/ /\ pc' = [pc EXCEPT ![r] = "done"]
            /\ answer' = [answer EXCEPT ![r] = "InvalidArgument"]
         \/ /\ pc' = [pc EXCEPT ![r] = "consume"]
            /\ UNCHANGED answer
            /\ cs = "good"
  BY DEF Call, Rejected, Finish, Status

LEMMA ConsumeTakes ==
  ASSUME TInv, NEW r \in Requests, Consume(r)
  PROVE  LET c == code[r]
         IN  /\ c \in Codes /\ c \in present /\ ~Expired(c) /\ ~codes[c].used
             /\ codes' = [codes EXCEPT ![c] = [codes[c] EXCEPT !.used = TRUE]]
             /\ codes'[c].used
             /\ codes'[c].expiry = codes[c].expiry
<1>1. /\ code[r] \in present /\ ~Expired(code[r]) /\ ~codes[code[r]].used
      /\ code[r] \in Codes
  BY DEF Consume, ConsumeError, TInv, TypeOK
<1>2. /\ codes' = [codes EXCEPT ![code[r]] = [codes[code[r]] EXCEPT !.used = TRUE]]
      /\ codes[code[r]] \in ActivationCode
  BY <1>1 DEF Consume, Consumed, TInv, TypeOK
<1>3. /\ codes'[code[r]] = [codes[code[r]] EXCEPT !.used = TRUE]
      /\ codes'[code[r]].used
      /\ codes'[code[r]].expiry = codes[code[r]].expiry
  BY <1>1, <1>2 DEF TInv, ActivationCode
<1> QED
  BY <1>1, <1>2, <1>3

LEMMA BNext == TInv /\ BInv /\ [Next]_vars => BInv'
<1> SUFFICES ASSUME TInv, BInv, [Next]_vars PROVE BInv'
  OBVIOUS
<1>1. Verified'
  <2>1. ASSUME NEW r \in Requests, NEW c \in Codes, NEW cs \in {"good", "bad"},
               Call(r, c, cs)
        PROVE  Verified'
    <3>1. /\ csr' = [csr EXCEPT ![r] = cs] /\ UNCHANGED tenant
          /\ pc[r] = "idle"
      BY <2>1 DEF Call
    <3>2. \/ pc' = [pc EXCEPT ![r] = "done"]
          \/ pc' = [pc EXCEPT ![r] = "consume"] /\ cs = "good"
      BY <2>1, CallStarts
    <3>3. ASSUME NEW q \in Requests
          PROVE  /\ pc'[q] \in {"consume", "sign"} => csr'[q] = "good"
                 /\ pc'[q] \in {"idle", "consume"} => tenant'[q] = NoTenant
      <4>1. CASE q # r
        BY <3>1, <3>2, <4>1 DEF BInv, Verified, TInv, TypeOK
      <4>2. CASE q = r
        <5>1. tenant[r] = NoTenant
          BY <3>1 DEF BInv, Verified
        <5>2. csr'[r] = cs
          <6>1. csr \in [Requests -> {"good", "bad"}]
            BY DEF TInv, TypeOK
          <6> QED
            BY <3>1, <6>1
        <5>3. pc'[r] = "done" \/ (pc'[r] = "consume" /\ cs = "good")
          <6>1. pc \in [Requests -> {"idle", "consume", "sign", "done"}]
            BY DEF TInv, TypeOK
          <6> QED
            BY <3>2, <6>1
        <5> QED
          BY <3>1, <4>2, <5>1, <5>2, <5>3
      <4> QED
        BY <4>1, <4>2
    <3> QED
      BY <3>3 DEF Verified
  <2>2. ASSUME NEW r \in Requests, EnrollEdge(r) PROVE Verified'
    BY <2>2 DEF EnrollEdge, Consume, Deny, Sign, Finish, BInv, Verified, TInv, TypeOK
  <2>3. ASSUME UNCHANGED requestVars PROVE Verified'
    BY <2>3 DEF requestVars, BInv, Verified
  <2> QED
    BY <2>1, <2>2, <2>3 DEF Next, Tick, GC, Add, vars
<1>2. \A r \in Requests, c \in Codes : Holds(r, c) => Holds(r, c)'
  <2> SUFFICES ASSUME NEW q \in Requests, NEW d \in Codes, Holds(q, d)
               PROVE  Holds(q, d)'
    OBVIOUS
  <2>1. ASSUME NEW r \in Requests, NEW c \in Codes, NEW cs \in {"good", "bad"},
               Call(r, c, cs)
        PROVE  Holds(q, d)'
    <3>1. q # r
      BY <2>1 DEF Call, Holds, TInv, Answered
    <3> QED
      BY <2>1, <3>1, CallStarts DEF Call, Holds, TInv, TypeOK
  <2>2. ASSUME NEW r \in Requests, Consume(r) PROVE Holds(q, d)'
    BY <2>2 DEF Consume, Holds, TInv, TypeOK
  <2>3. ASSUME NEW r \in Requests, Deny(r) PROVE Holds(q, d)'
    <3>1. q # r
      BY <2>3 DEF Deny, Holds, TInv, Answered
    <3> QED
      BY <2>3, <3>1, DenyEnds DEF Deny, Holds, TInv, TypeOK
  <2>4. ASSUME NEW r \in Requests, Sign(r) PROVE Holds(q, d)'
    BY <2>4, SignEnds DEF Sign, Holds, BInv, TInv, TypeOK
  <2>5. ASSUME UNCHANGED requestVars PROVE Holds(q, d)'
    BY <2>5 DEF requestVars, Holds
  <2> QED
    BY <2>1, <2>2, <2>3, <2>4, <2>5 DEF Next, EnrollEdge, Tick, GC, Add, vars
<1>3. ASSUME NEW d \in present', codes'[d].used
      PROVE  \E q \in Requests : Holds(q, d)'
  <2>1. CASE d \in present /\ codes[d].used
    BY <1>2, <2>1 DEF BInv, NeverBurntByCSR, Holds, TInv, TypeOK
  <2>2. CASE ~(d \in present /\ codes[d].used)
    <3>1. ASSUME NEW r \in Requests, Consume(r)
          PROVE  \E q \in Requests : Holds(q, d)'
      <4>1. present' = present /\ code[r] = d
        BY <1>3, <2>2, <3>1, ConsumeTakes DEF Consume, TInv, TypeOK
      <4>2. Holds(r, d)'
        BY <3>1, <4>1 DEF Consume, Holds, TInv, TypeOK
      <4> QED
        BY <4>2
    <3>2. ASSUME NEW c \in Codes, NEW t \in Tenants, NEW e \in 0..MaxTime, Add(c, t, e)
          PROVE  FALSE
      BY <1>3, <2>2, <3>2 DEF Add, Entry, TInv, TypeOK
    <3>3. ASSUME GC PROVE FALSE
      BY <1>3, <2>2, <3>3 DEF GC, TInv, TypeOK
    <3>4. ASSUME UNCHANGED storeVars PROVE FALSE
      BY <1>3, <2>2, <3>4 DEF storeVars
    <3> QED
      BY <3>1, <3>2, <3>3, <3>4 DEF Next, EnrollEdge, Call, Deny, Sign, Tick, vars
  <2> QED
    BY <2>1, <2>2
<1> QED
  BY <1>1, <1>3 DEF BInv, NeverBurntByCSR, Holds

LEMMA BurntInv == Spec => []BInv
  BY BInit, BNext, TypeInv, PTL DEF Spec

(* A bad CSR never uses a code up.                                         *)
THEOREM BadCSRBurnsNothing == Spec => []NeverBurntByCSR
  BY BurntInv, PTL DEF BInv

-----------------------------------------------------------------------------
(* One certificate per code given out.                                     *)

(* What may still be admitted with a code is counted with what was.        *)
Unused(c) == IF c \in present /\ ~codes[c].used THEN 1 ELSE 0
Budget == \A c \in Codes : Cardinality(Admitted(c)) + Unused(c) <= adds[c]

LEMMA AdmittedFinite ==
  \A c \in Codes : IsFiniteSet(Admitted(c)) /\ Cardinality(Admitted(c)) \in Nat
<1> SUFFICES ASSUME NEW c \in Codes
             PROVE  IsFiniteSet(Admitted(c)) /\ Cardinality(Admitted(c)) \in Nat
  OBVIOUS
<1>1. Admitted(c) \subseteq Requests
  BY DEF Admitted
<1> QED
  BY <1>1, FS_Subset, FS_CardinalityType

LEMMA BudgetInit == Init => Budget
<1> SUFFICES ASSUME Init, NEW c \in Codes
             PROVE  Cardinality(Admitted(c)) + Unused(c) <= adds[c]
  BY DEF Budget
<1>1. Admitted(c) = {}
  BY DEF Init, Admitted
<1>2. Unused(c) = 0 /\ adds[c] = 0
  BY DEF Init, Unused
<1> QED
  BY <1>1, <1>2, FS_EmptySet

(* A step that admits nobody and gives nothing out keeps to the budget.    *)
LEMMA BudgetKept ==
  ASSUME TInv, Budget, NEW c \in Codes,
         Admitted(c)' \subseteq Admitted(c), Unused(c)' <= Unused(c), adds'[c] = adds[c]
  PROVE  Cardinality(Admitted(c))' + Unused(c)' <= adds'[c]
<1>1. /\ Cardinality(Admitted(c)') \in Nat
      /\ Cardinality(Admitted(c)') <= Cardinality(Admitted(c))
      /\ Cardinality(Admitted(c)) \in Nat
  <2>1. IsFiniteSet(Admitted(c)) /\ Cardinality(Admitted(c)) \in Nat
    BY AdmittedFinite
  <2> QED
    BY <2>1, FS_Subset, FS_CardinalityType
<1>2. Unused(c) \in {0, 1} /\ Unused(c)' \in {0, 1}
  BY DEF Unused
<1>3. adds[c] \in Nat /\ Cardinality(Admitted(c)) + Unused(c) <= adds[c]
  BY DEF Budget, TInv, TypeOK
<1> QED
  BY <1>1, <1>2, <1>3

LEMMA BudgetNext == TInv /\ TInv' /\ BInv /\ Budget /\ [Next]_vars => Budget'
<1> SUFFICES ASSUME TInv, TInv', BInv, Budget, [Next]_vars, NEW d \in Codes
             PROVE  Cardinality(Admitted(d))' + Unused(d)' <= adds'[d]
  BY DEF Budget
<1> DEFINE Goal == Cardinality(Admitted(d))' + Unused(d)' <= adds'[d]
<1>1. ASSUME NEW c \in Codes, NEW t \in Tenants, NEW e \in 0..MaxTime, Add(c, t, e)
      PROVE  Goal
  <2>1. Admitted(d)' = Admitted(d)
    BY <1>1 DEF Add, Admitted, requestVars
  <2>2. CASE d = c
    <3>1. Cardinality(Admitted(d)) \in Nat /\ Unused(d) \in {0, 1} /\ Unused(d)' \in {0, 1}
      BY AdmittedFinite DEF Unused
    <3>2. adds[d] \in Nat /\ adds'[d] = adds[d] + 1
      BY <1>1, <2>2 DEF Add, TInv, TypeOK
    <3>3. Cardinality(Admitted(d)) + Unused(d) <= adds[d]
      BY DEF Budget
    <3> QED
      BY <2>1, <3>1, <3>2, <3>3
  <2>3. CASE d # c
    <3>1. adds'[d] = adds[d] /\ Unused(d)' = Unused(d)
      BY <1>1, <2>3 DEF Add, Unused, TInv, TypeOK
    <3>2. Unused(d) <= Unused(d)
      BY DEF Unused
    <3> QED
      BY <2>1, <3>1, <3>2, BudgetKept
  <2> QED
    BY <2>2, <2>3
<1>2. ASSUME GC PROVE Goal
  <2>1. Admitted(d)' = Admitted(d) /\ adds'[d] = adds[d]
    BY <1>2 DEF GC, Admitted, requestVars
  <2>2. Unused(d)' <= Unused(d)
    BY <1>2 DEF GC, Unused, Swept
  <2> QED
    BY <2>1, <2>2, BudgetKept
<1>3. ASSUME NEW r \in Requests, Consume(r) PROVE Goal
  <2>1. adds'[d] = adds[d] /\ pc[r] = "consume" /\ answer[r] = "none"
    BY <1>3 DEF Consume, TInv, Answered
  <2>4. /\ code' = code /\ answer' = answer
        /\ \A q \in Requests : pc'[q] = IF q = r THEN "sign" ELSE pc[q]
    <3>1. pc \in [Requests -> {"idle", "consume", "sign", "done"}]
      BY DEF TInv, TypeOK
    <3> QED
      BY <1>3, <3>1 DEF Consume
  <2>5. Admitted(d)' = Admitted(d) \cup {q \in {r} : code[r] = d}
    <3>1. ASSUME NEW q \in Requests
          PROVE  q \in Admitted(d)' <=> q \in Admitted(d) \/ (q = r /\ code[r] = d)
      BY <2>1, <2>4 DEF Admitted
    <3>2. /\ Admitted(d) \subseteq Requests
          /\ Admitted(d)' \subseteq Requests
      BY DEF Admitted
    <3> HIDE DEF Admitted
    <3> QED
      BY <3>1, <3>2
  <2>2. CASE d = code[r]
    <3>1. Unused(d) = 1 /\ Unused(d)' = 0
      BY <1>3, <2>2, ConsumeTakes DEF Unused
    <3>2. Admitted(d)' = Admitted(d) \cup {r} /\ r \notin Admitted(d)
      BY <2>1, <2>2, <2>5 DEF Admitted
    <3>3. /\ Cardinality(Admitted(d)') = Cardinality(Admitted(d)) + 1
          /\ Cardinality(Admitted(d)) \in Nat
      BY <3>2, AdmittedFinite, FS_AddElement
    <3>4. adds[d] \in Nat /\ Cardinality(Admitted(d)) + Unused(d) <= adds[d]
      BY DEF Budget, TInv, TypeOK
    <3> QED
      BY <2>1, <3>1, <3>3, <3>4
  <2>3. CASE d # code[r]
    <3>1. Admitted(d)' = Admitted(d)
      BY <2>3, <2>5
    <3>2. Unused(d)' = Unused(d)
      <4>1. codes' = [codes EXCEPT ![code[r]] = [codes[code[r]] EXCEPT !.used = TRUE]]
        BY <1>3, ConsumeTakes
      <4>2. codes \in [Codes -> ActivationCode \cup {Blank}]
        BY DEF TInv
      <4>3. codes'[d] = codes[d]
        BY <2>3, <4>1, <4>2
      <4>4. present' = present
        BY <1>3 DEF Consume
      <4> QED
        BY <4>3, <4>4 DEF Unused
    <3>3. Unused(d) <= Unused(d)
      BY DEF Unused
    <3> QED
      BY <2>1, <3>1, <3>2, <3>3, BudgetKept
  <2> QED
    BY <2>2, <2>3
<1>4. ASSUME UNCHANGED <<storeVars, adds>>, Admitted(d)' \subseteq Admitted(d)
      PROVE  Goal
  <2>1. Unused(d)' <= Unused(d) /\ adds'[d] = adds[d]
    BY <1>4 DEF Unused, storeVars
  <2> QED
    BY <1>4, <2>1, BudgetKept
<1>5. ASSUME NEW r \in Requests, NEW c \in Codes, NEW cs \in {"good", "bad"},
             Call(r, c, cs)
      PROVE  Goal
  <2>1. UNCHANGED <<storeVars, adds>> /\ pc[r] = "idle" /\ answer[r] = "none"
    BY <1>5 DEF Call, TInv, Answered
  <2>2. ASSUME NEW q \in Admitted(d)' PROVE q \in Admitted(d)
    <3>1. q \in Requests
      BY DEF Admitted
    <3>2. pc'[r] # "sign" /\ answer'[r] # "OK"
      BY <1>5, <2>1, CallStarts DEF TInv, TypeOK
    <3>3. q # r
      BY <3>2 DEF Admitted
    <3>4. pc'[q] = pc[q] /\ answer'[q] = answer[q] /\ code'[q] = code[q]
      <4>1. /\ pc \in [Requests -> {"idle", "consume", "sign", "done"}]
            /\ answer \in [Requests -> StatusCodes \cup {"none"}]
            /\ code \in [Requests -> Codes \cup {NoCode}]
        BY DEF TInv, TypeOK
      <4>2. code' = [code EXCEPT ![r] = c]
        BY <1>5 DEF Call
      <4> QED
        BY <1>5, <3>1, <3>3, <4>1, <4>2, CallStarts
    <3> QED
      BY <3>1, <3>4 DEF Admitted
  <2> QED
    BY <1>4, <2>1, <2>2
<1>6. ASSUME NEW r \in Requests, Deny(r) PROVE Goal
  <2>1. UNCHANGED <<storeVars, adds, code>>
    BY <1>6 DEF Deny
  <2>2. ASSUME NEW q \in Admitted(d)' PROVE q \in Admitted(d)
    BY <1>6, <2>1, DenyEnds DEF Admitted, TInv, TypeOK
  <2> QED
    BY <1>4, <2>1, <2>2
<1>7. ASSUME NEW r \in Requests, Sign(r) PROVE Goal
  <2>1. UNCHANGED <<storeVars, adds, code>> /\ pc[r] = "sign"
    BY <1>7 DEF Sign
  <2>2. ASSUME NEW q \in Admitted(d)' PROVE q \in Admitted(d)
    BY <1>7, <2>1, SignEnds DEF Admitted, BInv, TInv, TypeOK
  <2> QED
    BY <1>4, <2>1, <2>2
<1>8. ASSUME Tick \/ UNCHANGED vars PROVE Goal
  <2>1. UNCHANGED <<storeVars, adds, requestVars>>
    BY <1>8 DEF Tick, vars
  <2>2. Admitted(d)' = Admitted(d)
    BY <2>1 DEF Admitted, requestVars
  <2> QED
    BY <1>4, <2>1, <2>2
<1> QED
  BY <1>1, <1>2, <1>3, <1>5, <1>6, <1>7, <1>8 DEF Next, EnrollEdge

(* A code never yields more certificates than times it was given out: its  *)
(* check and its marking are one step, and nothing else clears the mark.   *)
THEOREM OneCertificate == Spec => []OneCertPerCode
<1>1. TInv /\ Budget => OneCertPerCode
  <2> SUFFICES ASSUME TInv, Budget, NEW c \in Codes
               PROVE  Cardinality(Admitted(c)) <= adds[c]
    BY DEF OneCertPerCode
  <2>1. Cardinality(Admitted(c)) \in Nat /\ Unused(c) \in {0, 1} /\ adds[c] \in Nat
    BY AdmittedFinite DEF Unused, TInv, TypeOK
  <2> QED
    BY <2>1 DEF Budget
<1> QED
  BY <1>1, BudgetInit, BudgetNext, TypeInv, BurntInv, PTL DEF Spec

-----------------------------------------------------------------------------
(* Codes behave as OneTimeCodes says.                                      *)

(* The refinement mapping of Codebook. *)
GoodBar == [c \in Codes |->
              IF c \in present /\ ~Expired(c) /\ ~codes[c].used
              THEN [tenant |-> codes[c].tenant, expiry |-> codes[c].expiry]
              ELSE NoTenant]
Decided(r) == pc[r] = "sign" \/ answer[r] \in {"OK", "Internal", "PermissionDenied"}
VerdictBar == [r \in Requests |-> IF Decided(r) THEN <<code[r], tenant[r]>> ELSE NoCode]

LEMMA BookInit == Init => Codebook!Init
<1> SUFFICES ASSUME Init PROVE Codebook!Init
  OBVIOUS
<1>1. GoodBar = [c \in Codes |-> NoTenant]
  BY DEF Init, GoodBar
<1>2. VerdictBar = [r \in Requests |-> NoCode]
  BY DEF Init, VerdictBar, Decided
<1> QED
  BY <1>1, <1>2 DEF Init, Codebook!Init, GoodBar, VerdictBar, Decided

(* The steps that change no entry leave good what it is.                   *)
LEMMA SameGood ==
  ASSUME UNCHANGED <<now, storeVars>> PROVE GoodBar' = GoodBar
  BY DEF storeVars, GoodBar, Expired

(* A decision of r is the verdict of r, and of nobody else.                *)
LEMMA NewVerdict ==
  ASSUME TInv, NEW r \in Requests, Decided(r)', code'[r] = code[r],
         \A q \in Requests \ {r} : /\ pc'[q] = pc[q] /\ answer'[q] = answer[q]
                                   /\ code'[q] = code[q] /\ tenant'[q] = tenant[q]
  PROVE  VerdictBar' = [VerdictBar EXCEPT ![r] = <<code[r], tenant'[r]>>]
<1>1. \A q \in Requests \ {r} : VerdictBar'[q] = VerdictBar[q]
  BY DEF VerdictBar, Decided
<1>2. VerdictBar'[r] = <<code[r], tenant'[r]>>
  BY DEF VerdictBar
<1>3. /\ VerdictBar = [q \in Requests |-> VerdictBar[q]]
      /\ VerdictBar' = [q \in Requests |-> VerdictBar'[q]]
  BY DEF VerdictBar
<1> QED
  BY <1>1, <1>2, <1>3

(* The clock only takes what is good away, and only once it has expired.   *)
LEMMA BookTick == ASSUME TInv, Tick PROVE Codebook!Tick
<1>1. now \in Nat /\ now' = now + 1 /\ UNCHANGED <<storeVars, requestVars>>
  BY DEF Tick, TInv, TypeOK
<1>2. ASSUME NEW c \in Codes
      PROVE  GoodBar'[c] = IF GoodBar[c] # NoTenant /\ GoodBar[c].expiry < now'
                           THEN NoTenant ELSE GoodBar[c]
  <2>1. CASE c \in present /\ ~codes[c].used
    <3>1. codes[c].tenant \in Tenants /\ codes[c].expiry \in 0..MaxTime
      BY <2>1 DEF TInv, TypeOK, ActivationCode
    <3>2. Expired(c) <=> now > codes[c].expiry
      BY DEF Expired
    <3>3. Expired(c)' <=> now' > codes[c].expiry
      BY <1>1 DEF Expired, storeVars
    <3>4. GoodBar[c] = IF Expired(c) THEN NoTenant
                       ELSE [tenant |-> codes[c].tenant, expiry |-> codes[c].expiry]
      BY <2>1 DEF GoodBar
    <3>5. GoodBar'[c] = IF Expired(c)' THEN NoTenant
                        ELSE [tenant |-> codes[c].tenant, expiry |-> codes[c].expiry]
      BY <1>1, <2>1 DEF GoodBar, storeVars
    <3>6. NoTenant # [tenant |-> codes[c].tenant, expiry |-> codes[c].expiry]
      BY <3>1
    <3>7. CASE Expired(c)
      BY <1>1, <3>1, <3>2, <3>3, <3>4, <3>5, <3>7
    <3>8. CASE ~Expired(c)
      <4>1. GoodBar[c] # NoTenant /\ GoodBar[c].expiry = codes[c].expiry
        BY <3>4, <3>6, <3>8
      <4> QED
        BY <1>1, <3>1, <3>3, <3>4, <3>5, <3>8, <4>1
    <3> QED
      BY <3>7, <3>8
  <2>2. CASE ~(c \in present /\ ~codes[c].used)
    BY <1>1, <2>2 DEF GoodBar, storeVars
  <2> QED
    BY <2>1, <2>2
<1>3. GoodBar' = [c \in Codes |-> IF GoodBar[c] # NoTenant /\ GoodBar[c].expiry < now'
                                  THEN NoTenant ELSE GoodBar[c]]
  BY <1>2 DEF GoodBar
<1>4. VerdictBar' = VerdictBar
  BY <1>1 DEF VerdictBar, Decided, requestVars
<1> QED
  BY <1>1, <1>3, <1>4 DEF Codebook!Tick, GoodBar, VerdictBar, Decided

LEMMA BookAdd ==
  ASSUME TInv, NEW c \in Codes, NEW t \in Tenants, NEW e \in 0..MaxTime, Add(c, t, e)
  PROVE  Codebook!GiveOut(c)
<1>1. /\ present' = present \cup {c} /\ UNCHANGED <<now, requestVars>>
      /\ codes' = [codes EXCEPT ![c] = Entry(t, e)]
      /\ codes \in [Codes -> ActivationCode \cup {Blank}]
  BY DEF Add, TInv
<1>2. /\ codes'[c].tenant = t /\ codes'[c].expiry = e /\ ~codes'[c].used
      /\ \A d \in Codes \ {c} : codes'[d] = codes[d]
  BY <1>1 DEF Entry
<1>3. GoodBar'[c] = IF e < now THEN NoTenant ELSE [tenant |-> t, expiry |-> e]
  <2>1. Expired(c)' <=> now > e
    BY <1>1, <1>2 DEF Expired
  <2>2. c \in present'
    BY <1>1
  <2> QED
    BY <1>2, <2>1, <2>2 DEF GoodBar, TInv, TypeOK
<1>4. \A d \in Codes \ {c} : GoodBar'[d] = GoodBar[d]
  BY <1>1, <1>2 DEF GoodBar, Expired
<1>5. GoodBar' = [GoodBar EXCEPT ![c] = IF e < now THEN NoTenant
                                        ELSE [tenant |-> t, expiry |-> e]]
  <2>1. /\ GoodBar = [d \in Codes |-> GoodBar[d]]
        /\ GoodBar' = [d \in Codes |-> GoodBar'[d]]
    BY DEF GoodBar
  <2> QED
    BY <1>3, <1>4, <2>1
<1>6. VerdictBar' = VerdictBar
  BY <1>1 DEF VerdictBar, Decided, requestVars
<1> QED
  BY <1>1, <1>5, <1>6 DEF Codebook!GiveOut, GoodBar, VerdictBar, Decided

(* Consume is where a code is admitted ... *)
LEMMA BookConsume ==
  ASSUME TInv, BInv, NEW r \in Requests, NEW c \in Codes, c = code[r], Consume(r)
  PROVE  Codebook!Admit(r, c)
<1>1. /\ pc[r] = "consume" /\ answer[r] = "none"
      /\ UNCHANGED <<now, present, csr, code, answer, adds>>
  BY DEF Consume, TInv, Answered
<1>2. /\ c \in Codes /\ c \in present /\ ~Expired(c) /\ ~codes[c].used
      /\ codes' = [codes EXCEPT ![c] = [codes[c] EXCEPT !.used = TRUE]]
      /\ codes'[c].used
  BY ConsumeTakes
<1>3. codes[c] \in ActivationCode /\ codes \in [Codes -> ActivationCode \cup {Blank}]
  BY <1>2 DEF TInv, TypeOK
<1>4. /\ VerdictBar[r] = NoCode
      /\ GoodBar[c] = [tenant |-> codes[c].tenant, expiry |-> codes[c].expiry]
      /\ GoodBar[c] # NoTenant
  <2>1. codes[c].tenant \in Tenants /\ codes[c].expiry \in 0..MaxTime
    BY <1>3 DEF ActivationCode
  <2>2. VerdictBar[r] = NoCode
    BY <1>1 DEF VerdictBar, Decided
  <2>3. GoodBar[c] = [tenant |-> codes[c].tenant, expiry |-> codes[c].expiry]
    BY <1>2 DEF GoodBar
  <2> QED
    BY <2>1, <2>2, <2>3
<1>5. GoodBar' = [GoodBar EXCEPT ![c] = NoTenant]
  <2>1. GoodBar'[c] = NoTenant
    BY <1>1, <1>2 DEF GoodBar
  <2>2. \A d \in Codes \ {c} : GoodBar'[d] = GoodBar[d]
    <3>1. \A d \in Codes \ {c} : codes'[d] = codes[d]
      BY <1>2, <1>3
    <3> QED
      BY <1>1, <3>1 DEF GoodBar, Expired
  <2>3. /\ GoodBar = [d \in Codes |-> GoodBar[d]]
        /\ GoodBar' = [d \in Codes |-> GoodBar'[d]]
    BY DEF GoodBar
  <2> QED
    BY <2>1, <2>2, <2>3
<1>6. /\ tenant'[r] = codes[c].tenant /\ pc'[r] = "sign"
      /\ \A q \in Requests \ {r} : pc'[q] = pc[q] /\ tenant'[q] = tenant[q]
  <2>1. /\ pc \in [Requests -> {"idle", "consume", "sign", "done"}]
        /\ tenant \in [Requests -> Tenants \cup {NoTenant}]
    BY DEF TInv, TypeOK
  <2> QED
    BY <2>1 DEF Consume
<1>7. VerdictBar' = [VerdictBar EXCEPT ![r] = <<c, GoodBar[c].tenant>>]
  <2>1. GoodBar[c].tenant = tenant'[r]
    BY <1>4, <1>6
  <2>2. Decided(r)'
    BY <1>6 DEF Decided
  <2> QED
    BY <1>1, <1>6, <2>1, <2>2, NewVerdict
<1> QED
  BY <1>1, <1>4, <1>5, <1>7 DEF Codebook!Admit, GoodBar, VerdictBar, Decided

(* ... or refused, only if it is not good. *)
LEMMA BookDeny ==
  ASSUME TInv, BInv, NEW r \in Requests, NEW c \in Codes, c = code[r], Deny(r)
  PROVE  Codebook!Refuse(r, c)
<1>1. /\ pc[r] = "consume" /\ answer[r] = "none" /\ code[r] \in Codes
      /\ tenant[r] = NoTenant
      /\ UNCHANGED <<now, storeVars, csr, code, tenant, adds>>
  BY DEF Deny, TInv, Answered, BInv, Verified
<1>2. GoodBar[code[r]] = NoTenant
  BY <1>1 DEF Deny, ConsumeError, GoodBar
<1>3. VerdictBar[r] = NoCode
  BY <1>1 DEF VerdictBar, Decided
<1>4. /\ answer'[r] = "PermissionDenied"
      /\ \A q \in Requests \ {r} : pc'[q] = pc[q] /\ answer'[q] = answer[q]
  <2>1. /\ pc \in [Requests -> {"idle", "consume", "sign", "done"}]
        /\ answer \in [Requests -> StatusCodes \cup {"none"}]
    BY DEF TInv, TypeOK
  <2> QED
    BY <2>1, DenyEnds
<1>5. VerdictBar' = [VerdictBar EXCEPT ![r] = <<code[r], NoTenant>>]
  <2>1. Decided(r)'
    BY <1>4 DEF Decided
  <2> QED
    BY <1>1, <1>4, <2>1, NewVerdict
<1>6. GoodBar' = GoodBar
  BY <1>1, SameGood
<1> QED
  BY <1>1, <1>2, <1>3, <1>5, <1>6 DEF Codebook!Refuse, GoodBar, VerdictBar, Decided

(* The other steps are housekeeping. *)
LEMMA BookStutter ==
  ASSUME TInv, BInv,
         \/ GC
         \/ \E r \in Requests : Sign(r)
         \/ \E r \in Requests, c \in Codes, cs \in {"good", "bad"} : Call(r, c, cs)
         \/ UNCHANGED vars
  PROVE  UNCHANGED Codebook!vars
<1> DEFINE Goal == UNCHANGED <<now, GoodBar, VerdictBar>>
<1> USE DEF Decided
<1>1. ASSUME GC PROVE Goal
  <2>1. GoodBar' = GoodBar
    BY <1>1 DEF GC, Swept, GoodBar, Expired
  <2>2. UNCHANGED <<now, requestVars>>
    BY <1>1 DEF GC
  <2>3. VerdictBar' = VerdictBar
    BY <2>2 DEF VerdictBar, requestVars
  <2> QED
    BY <2>1, <2>2, <2>3
<1>2. ASSUME NEW r \in Requests, Sign(r) PROVE Goal
  <2>1. pc[r] = "sign" /\ UNCHANGED <<now, storeVars, csr, code, tenant, adds>>
    BY <1>2 DEF Sign
  <2>2. /\ answer'[r] \in {"OK", "Internal"}
        /\ \A q \in Requests \ {r} : pc'[q] = pc[q] /\ answer'[q] = answer[q]
    <3>1. /\ pc \in [Requests -> {"idle", "consume", "sign", "done"}]
          /\ answer \in [Requests -> StatusCodes \cup {"none"}]
      BY DEF TInv, TypeOK
    <3> QED
      BY <1>2, <3>1, SignEnds DEF BInv
  <2>3. \A q \in Requests : VerdictBar'[q] = VerdictBar[q]
    BY <2>1, <2>2 DEF VerdictBar
  <2>4. VerdictBar' = VerdictBar
    BY <2>3 DEF VerdictBar
  <2> QED
    BY <2>1, <2>4, SameGood
<1>3. ASSUME NEW r \in Requests, NEW c \in Codes, NEW cs \in {"good", "bad"},
             Call(r, c, cs)
      PROVE  Goal
  <2>1. /\ pc[r] = "idle" /\ answer[r] = "none" /\ code' = [code EXCEPT ![r] = c]
        /\ UNCHANGED <<now, storeVars, tenant>>
    BY <1>3 DEF Call, TInv, Answered
  <2>2. /\ pc'[r] # "sign" /\ answer'[r] \in {"none", "InvalidArgument"}
        /\ \A q \in Requests \ {r} :
              pc'[q] = pc[q] /\ answer'[q] = answer[q] /\ code'[q] = code[q]
    <3>1. /\ pc \in [Requests -> {"idle", "consume", "sign", "done"}]
          /\ answer \in [Requests -> StatusCodes \cup {"none"}]
          /\ code \in [Requests -> Codes \cup {NoCode}]
      BY DEF TInv, TypeOK
    <3> QED
      BY <1>3, <2>1, <3>1, CallStarts
  <2>3. \A q \in Requests : VerdictBar'[q] = VerdictBar[q]
    BY <2>1, <2>2 DEF VerdictBar
  <2>4. VerdictBar' = VerdictBar
    BY <2>3 DEF VerdictBar
  <2> QED
    BY <2>1, <2>4, SameGood
<1>4. ASSUME UNCHANGED vars PROVE Goal
  BY <1>4, SameGood DEF vars, requestVars, VerdictBar
<1>5. Goal
  BY <1>1, <1>2, <1>3, <1>4
<1> QED
  BY <1>5 DEF Codebook!vars, GoodBar, VerdictBar

LEMMA BookNext == TInv /\ BInv /\ [Next]_vars => [Codebook!Next]_(Codebook!vars)
<1> SUFFICES ASSUME TInv, BInv, [Next]_vars
             PROVE  Codebook!Next \/ UNCHANGED Codebook!vars
  OBVIOUS
<1>1. ASSUME NEW r \in Requests, Consume(r) \/ Deny(r) PROVE Codebook!Next
  <2>1. PICK c \in Codes : c = code[r]
    BY <1>1 DEF Consume, Deny, TInv, Answered
  <2>2. Codebook!Admit(r, c) \/ Codebook!Refuse(r, c)
    BY <1>1, <2>1, BookConsume, BookDeny
  <2> QED
    BY <2>2 DEF Codebook!Next
<1>2. ASSUME NEW c \in Codes, NEW t \in Tenants, NEW e \in 0..MaxTime, Add(c, t, e)
      PROVE  Codebook!Next
  BY <1>2, BookAdd DEF Codebook!Next
<1>3. ASSUME Tick PROVE Codebook!Next
  BY <1>3, BookTick DEF Codebook!Next
<1> QED
  BY <1>1, <1>2, <1>3, BookStutter DEF Next, EnrollEdge

(* A code is good for one request up to its expiry, whatever the store and *)
(* its GC do: GC deletes only what Consume would refuse anyway.            *)
THEOREM CodesAreOneTime == Spec => ImplementsOneTimeCodes
  BY BookInit, BookNext, TypeInv, BurntInv, PTL DEF Spec, ImplementsOneTimeCodes, Codebook!Spec

=============================================================================
