----------------------------- MODULE LeaseProofs -----------------------------
(***************************************************************************)
(* Proofs about Lease, for any TTL, any leases that the platform issues    *)
(* and any counters that are reported, any lag between the clocks, any     *)
(* width of the counter and any bound on the time.                         *)
(***************************************************************************)
EXTENDS Lease, TLAPS

USE LeaseConstants

Renewals == {m \in updates : m.authentic /\ ~m.revoked}

(* No lease, on its way or in force, ends after the last one signed. *)
Dated == /\ \A m \in Renewals : m.expires <= horizon
         /\ applied => expiresUnix <= horizon

(* The lease that the Validator holds is the newest that it has verified. *)
HoldsNewest == /\ applied => /\ Held \in arrived
                             /\ \A m \in arrived : m.counter <= counter
               /\ ~applied => arrived = {} /\ counter = 0

(* In an orderly run a lease on its way that the Validator may still       *)
(* accept has the next counter and ends no earlier than the lease that it  *)
(* holds, because it answers a heartbeat that told the counter of it.      *)
Reported == \A k \in beats : k <= counter /\ (~applied => k = 0)
Answered == \A m \in Renewals :
               /\ m.counter <= counter + 1
               /\ ~applied => m.counter = 1
               /\ applied /\ m.counter > counter => m.expires >= expiresUnix
Timely == /\ \A m \in Renewals : m.expires <= now + TTL
          /\ applied => expiresUnix <= now + TTL

IInv == /\ TypeOK /\ Dated /\ HoldsNewest
        /\ orderly => Reported /\ Answered /\ Timely

LEMMA ClaimsTyped ==
  \A m \in Claims : /\ m.counter \in Counter /\ m.expires \in Int
                    /\ m.revoked \in BOOLEAN /\ m.authentic \in BOOLEAN
  BY DEF Claims

LEMMA SealedTyped ==
  ASSUME NEW k \in Counter, NEW exp \in Int, NEW rev \in BOOLEAN
  PROVE  Sealed(k, exp, rev) \in Claims
  BY DEF Sealed, Claims

(* What a lease says is all there is to it. *)
LEMMA SealedIsAll ==
  ASSUME NEW m \in Claims, m.authentic, ~m.revoked
  PROVE  m = Sealed(m.counter, m.expires, FALSE)
  BY DEF Sealed, Claims

(* The successor of a counter is one more, or less than it. *)
LEMMA NextCounter ==
  ASSUME NEW k \in Counter
  PROVE  /\ Next64(k) \in Counter
         /\ Next64(k) <= k + 1
         /\ k = 0 => Next64(k) = 1
  BY DEF Next64, Counter

LEMMA CounterInt == Counter \subseteq Int /\ 0 \in Counter /\ MaxCounter \in Counter
  BY DEF Counter

LEMMA IInit == Init => IInv
<1> SUFFICES ASSUME Init PROVE IInv
  OBVIOUS
<1>1. TypeOK
  <2>1. -Lag \in Int /\ 0 \in 0..MaxTime
    OBVIOUS
  <2> QED
    BY <2>1, CounterInt DEF Init, TypeOK
<1>2. Renewals = {} /\ beats = {} /\ arrived = {} /\ ~applied /\ counter = 0
  BY DEF Init, Renewals
<1> QED
  BY <1>1, <1>2 DEF IInv, Dated, HoldsNewest, Reported, Answered, Timely

-----------------------------------------------------------------------------
(* What a lease that the cloud signs and sends leaves as it was.           *)
LEMMA IssueKeeps ==
  ASSUME IInv, NEW ttl \in Int, NEW k \in Counter, Issue(ttl, k), orderly' \in BOOLEAN
  PROVE  /\ TypeOK' /\ Dated' /\ HoldsNewest'
         /\ UNCHANGED <<now, beats, validator>>
         /\ Renewals' = Renewals \cup {Sealed(k, now + ttl, FALSE)}
<1> PICK m : m = Sealed(k, now + ttl, FALSE)
  OBVIOUS
<1>1. m.expires = now + ttl /\ ~m.revoked /\ m.authentic
  BY DEF Sealed
<1>2. now \in Nat /\ horizon \in Int /\ expiresUnix \in Int
  BY DEF IInv, TypeOK
<1>3. m \in Claims
  <2>1. now + ttl \in Int
    BY <1>2
  <2> QED
    BY <2>1, SealedTyped
<1>4. /\ updates' = updates \cup {m}
      /\ UNCHANGED <<now, beats, applied, revoked, expiresUnix, counter, arrived>>
  BY DEF Issue, Send, validator
<1>5. horizon' \in Int /\ horizon <= horizon' /\ now + ttl <= horizon'
  BY <1>2 DEF Issue
<1>6. Renewals' = Renewals \cup {m}
  BY <1>1, <1>4 DEF Renewals
<1>7. TypeOK'
  BY <1>3, <1>4, <1>5 DEF IInv, TypeOK
<1>8. Dated'
  <2>1. \A n \in Renewals : n.expires \in Int /\ n.expires <= horizon
    BY ClaimsTyped DEF IInv, TypeOK, Dated, Renewals
  <2>2. \A n \in Renewals : n.expires <= horizon'
    BY <1>2, <1>5, <2>1
  <2>3. applied => expiresUnix <= horizon'
    BY <1>2, <1>5 DEF IInv, Dated
  <2> QED
    BY <1>1, <1>4, <1>5, <1>6, <2>2, <2>3 DEF Dated
<1>9. HoldsNewest'
  BY <1>4 DEF IInv, HoldsNewest, Held, Sealed
<1> QED
  BY <1>4, <1>6, <1>7, <1>8, <1>9 DEF validator

LEMMA RenewKeeps ==
  ASSUME IInv, NEW k \in beats, Renew(k)
  PROVE  IInv'
<1>1. /\ k \in Counter /\ counter \in Counter /\ now \in Nat /\ expiresUnix \in Int
      /\ Next64(k) \in Counter /\ TTL \in Int
  BY NextCounter DEF IInv, TypeOK
<1>2. Issue(TTL, Next64(k)) /\ orderly' = orderly /\ orderly \in BOOLEAN
  BY DEF Renew, IInv, TypeOK
<1>3. /\ TypeOK' /\ Dated' /\ HoldsNewest'
      /\ UNCHANGED <<now, beats, validator>>
      /\ Renewals' = Renewals \cup {Sealed(Next64(k), now + TTL, FALSE)}
  BY <1>1, <1>2, IssueKeeps
<1>4. ASSUME orderly PROVE Reported' /\ Answered' /\ Timely'
  <2> PICK m : m = Sealed(Next64(k), now + TTL, FALSE)
    OBVIOUS
  <2>1. m.counter = Next64(k) /\ m.expires = now + TTL
    BY DEF Sealed
  <2>2. Reported /\ Answered /\ Timely
    BY <1>4 DEF IInv
  <2>3. k <= counter /\ (~applied => k = 0 /\ counter = 0)
    BY <2>2 DEF Reported, IInv, HoldsNewest
  <2>4. m.counter <= counter + 1 /\ (~applied => m.counter = 1)
    <3>1. k \in Int /\ counter \in Int /\ m.counter \in Int
      BY <1>1, <2>1, CounterInt
    <3>2. m.counter <= k + 1 /\ (k = 0 => m.counter = 1)
      BY <1>1, <2>1, NextCounter
    <3>3. \A a, b, c \in Int : a <= b /\ c <= a + 1 => c <= b + 1
      OBVIOUS
    <3> QED
      BY <2>3, <3>1, <3>2, <3>3
  <2>5. m.expires <= now + TTL /\ (applied => m.expires >= expiresUnix)
    <3>1. now + TTL \in Int
      BY <1>1
    <3>2. \A a \in Int : a <= a
      OBVIOUS
    <3>3. applied => expiresUnix <= now + TTL
      BY <2>2 DEF Timely
    <3> QED
      BY <1>1, <2>1, <3>1, <3>2, <3>3
  <2> QED
    BY <1>3, <2>2, <2>4, <2>5 DEF validator, Reported, Answered, Timely
<1> QED
  BY <1>2, <1>3, <1>4 DEF IInv

LEMMA RenewalKeeps ==
  ASSUME IInv, NEW m \in updates, ApplyRenewal(m)
  PROVE  IInv'
<1>1. m \in Renewals /\ Newer(m)
  BY DEF ApplyRenewal, Renews, Opens, Renewals
<1>2. /\ applied' = TRUE /\ expiresUnix' = m.expires /\ counter' = m.counter
      /\ arrived' = arrived \cup {m}
      /\ UNCHANGED <<now, beats, updates, revoked, horizon, orderly>>
  BY DEF ApplyRenewal
<1>3. /\ m \in Claims /\ m.counter \in Int /\ m.expires \in Int
      /\ counter \in Int /\ now \in Int /\ horizon \in Int
      /\ \A k \in beats : k \in Int
      /\ \A n \in updates : n.counter \in Int /\ n.expires \in Int
      /\ \A n \in arrived : n.counter \in Int
  BY ClaimsTyped DEF IInv, TypeOK, Counter
<1>4. Renewals' = Renewals
  BY <1>2 DEF Renewals
<1>5. TypeOK'
  BY <1>2, <1>3, ClaimsTyped DEF IInv, TypeOK
<1>6. Dated'
  BY <1>1, <1>2, <1>4 DEF IInv, Dated
<1>7. HoldsNewest'
  <2>1. Held' = m
    BY <1>1, <1>2, <1>3, SealedIsAll DEF Held, Renewals, Sealed
  <2>2. \A n \in arrived : n.counter <= m.counter
    BY <1>1, <1>3 DEF IInv, HoldsNewest, Newer
  <2> QED
    BY <1>2, <1>3, <2>1, <2>2 DEF HoldsNewest
<1>8. ASSUME orderly PROVE Reported' /\ Answered' /\ Timely'
  <2>1. Reported /\ Answered /\ Timely
    BY <1>8 DEF IInv
  <2>2. \A k \in beats : k <= m.counter
    BY <1>1, <1>3, <2>1 DEF Reported, Answered, Newer
  <2>3. \A n \in Renewals : n.counter <= m.counter /\ n \in updates
    BY <1>1, <1>3, <2>1 DEF Answered, Newer, Renewals
  <2>4. Answered'
    BY <1>2, <1>3, <1>4, <2>3 DEF Answered
  <2>5. Timely'
    BY <1>1, <1>2, <1>4, <2>1 DEF Timely
  <2> QED
    BY <1>2, <2>2, <2>4, <2>5 DEF Reported
<1> QED
  BY <1>2, <1>5, <1>6, <1>7, <1>8 DEF IInv

(* A stale lease is noted as verified, and nothing more. *)
LEMMA RefusalKeeps ==
  ASSUME IInv, NEW m \in updates, RefuseStale(m)
  PROVE  IInv'
<1>1. /\ arrived' = arrived \cup {m} /\ applied /\ m.counter <= counter
      /\ UNCHANGED <<now, beats, updates, validator, horizon, orderly>>
  BY ClaimsTyped DEF RefuseStale, Newer, IInv, TypeOK, Counter
<1>2. Renewals' = Renewals
  BY <1>1 DEF Renewals
<1>3. TypeOK'
  BY <1>1 DEF IInv, TypeOK, validator
<1>4. HoldsNewest'
  BY <1>1 DEF IInv, HoldsNewest, Held, Sealed, validator
<1> QED
  BY <1>1, <1>2, <1>3, <1>4 DEF IInv, Dated, Reported, Answered, Timely, validator

LEMMA INext == IInv /\ [Next]_vars => IInv'
<1> SUFFICES ASSUME IInv, [Next]_vars PROVE IInv'
  OBVIOUS
<1>1. ASSUME Tick PROVE IInv'
  <2>1. /\ now' = now + 1 /\ now' <= MaxTime /\ now \in Nat /\ expiresUnix \in Int
        /\ UNCHANGED <<beats, updates, validator, history>>
    BY <1>1 DEF Tick, IInv, TypeOK
  <2>2. \A m \in Renewals : m.expires \in Int
    BY ClaimsTyped DEF IInv, TypeOK, Renewals
  <2>3. Renewals' = Renewals
    BY <2>1 DEF Renewals
  <2>4. orderly => Timely'
    BY <2>1, <2>2, <2>3 DEF IInv, Timely, validator
  <2>5. TypeOK' /\ Dated' /\ HoldsNewest'
    BY <2>1, <2>3 DEF IInv, TypeOK, Dated, HoldsNewest, Held, Sealed, validator, history
  <2> QED
    BY <2>1, <2>3, <2>4, <2>5 DEF IInv, Reported, Answered, validator, history
<1>2. ASSUME NEW k \in {counter} \cup Reports, Beat(k) PROVE IInv'
  <2>1. k \in Counter /\ counter \in Int /\ beats' = beats \cup {k}
    BY <1>2, CounterInt DEF Beat, IInv, TypeOK
  <2>2. /\ orderly' = (orderly /\ k = counter)
        /\ UNCHANGED <<now, updates, applied, revoked, expiresUnix, counter, horizon, arrived>>
    BY <1>2 DEF Beat, validator
  <2>3. Renewals' = Renewals
    BY <2>2 DEF Renewals
  <2>4. TypeOK' /\ Dated' /\ HoldsNewest'
    BY <2>1, <2>2, <2>3 DEF IInv, TypeOK, Dated, HoldsNewest, Held, Sealed
  <2>5. orderly' => Reported'
    <3> SUFFICES ASSUME orderly' PROVE Reported'
      OBVIOUS
    <3>1. orderly /\ k = counter
      BY <2>2
    <3>2. Reported /\ (~applied => counter = 0)
      BY <3>1 DEF IInv, HoldsNewest
    <3> QED
      BY <2>1, <2>2, <3>1, <3>2 DEF Reported
  <2>6. orderly' => Answered' /\ Timely'
    BY <2>2, <2>3 DEF IInv, Answered, Timely
  <2> QED
    BY <2>4, <2>5, <2>6 DEF IInv
<1>3. ASSUME Revoke \/ Corrupt PROVE IInv'
  <2>1. PICK m \in Claims : updates' = updates \cup {m} /\ ~(m.authentic /\ ~m.revoked)
    <3>1. Sealed(0, 0, TRUE) \in Claims /\ Altered \in Claims
      BY DEF Sealed, Altered, Claims, Counter, IInv, TypeOK
    <3>2. Sealed(0, 0, TRUE).revoked /\ ~Altered.authentic
      BY DEF Sealed, Altered
    <3> QED
      BY <1>3, <3>1, <3>2 DEF Revoke, Send, Corrupt
  <2>2. UNCHANGED <<now, beats, applied, revoked, expiresUnix, counter,
                    horizon, arrived, orderly>>
    BY <1>3 DEF Revoke, Send, Corrupt, validator, history
  <2>3. Renewals' = Renewals
    BY <2>1 DEF Renewals
  <2>4. TypeOK' /\ Dated' /\ HoldsNewest'
    BY <2>1, <2>2, <2>3 DEF IInv, TypeOK, Dated, HoldsNewest, Held, Sealed
  <2> QED
    BY <2>2, <2>3, <2>4 DEF IInv, Reported, Answered, Timely
<1>4. ASSUME Reconnect PROVE IInv'
  <2>1. Renewals' = {} /\ beats' = {} /\ updates' = {}
    BY <1>4 DEF Reconnect, Cut, Renewals
  <2>2. UNCHANGED <<now, applied, revoked, expiresUnix, counter, horizon, arrived, orderly>>
    BY <1>4 DEF Reconnect, validator, history
  <2>3. TypeOK' /\ Dated' /\ HoldsNewest'
    BY <2>1, <2>2 DEF IInv, TypeOK, Dated, HoldsNewest, Held, Sealed
  <2> QED
    BY <2>1, <2>2, <2>3 DEF IInv, Reported, Answered, Timely
<1>5. ASSUME Restart PROVE IInv'
  <2>1. Renewals' = {} /\ beats' = {} /\ updates' = {}
    BY <1>5 DEF Restart, Cut, Renewals
  <2>2. /\ ~applied' /\ ~revoked' /\ expiresUnix' = 0 /\ counter' = 0
        /\ applied' = FALSE /\ revoked' = FALSE
        /\ arrived' = {} /\ orderly' = TRUE /\ UNCHANGED <<now, horizon>>
    BY <1>5 DEF Restart
  <2>3. TypeOK'
    BY <2>1, <2>2, CounterInt DEF IInv, TypeOK
  <2> QED
    BY <2>1, <2>2, <2>3 DEF IInv, Dated, HoldsNewest, Reported, Answered, Timely
<1>6. ASSUME NEW k \in beats, Renew(k) PROVE IInv'
  BY <1>6, RenewKeeps
<1>7. ASSUME NEW i \in Issued, IssueByHand(i) PROVE IInv'
  <2>1. i.ttl \in Int /\ i.counter \in Counter
    OBVIOUS
  <2> QED
    BY <1>7, <2>1, IssueKeeps DEF IssueByHand, IInv
<1>8. ASSUME NEW m \in updates, ApplyRenewal(m) PROVE IInv'
  BY <1>8, RenewalKeeps
<1>9. ASSUME NEW m \in updates, RefuseStale(m) PROVE IInv'
  BY <1>9, RefusalKeeps
<1>10. ASSUME NEW m \in updates, ApplyRevocation(m) PROVE IInv'
  <2>1. Renewals' = Renewals
    BY <1>10 DEF ApplyRevocation, Renewals
  <2>2. /\ revoked' = TRUE
        /\ UNCHANGED <<now, beats, updates, applied, expiresUnix, counter,
                       horizon, arrived, orderly>>
    BY <1>10 DEF ApplyRevocation, history
  <2> QED
    BY <2>1, <2>2 DEF IInv, TypeOK, Dated, HoldsNewest, Held, Sealed, Reported,
                      Answered, Timely
<1>11. ASSUME UNCHANGED vars PROVE IInv'
  <2>1. Renewals' = Renewals
    BY <1>11 DEF vars, Renewals
  <2> QED
    BY <1>11, <2>1 DEF vars, validator, history, IInv, TypeOK, Dated, HoldsNewest,
                       Held, Sealed, Reported, Answered, Timely
<1> QED
  BY <1>1, <1>2, <1>3, <1>4, <1>5, <1>6, <1>7, <1>8, <1>9, <1>10, <1>11
  DEF Next, Apply, Ignore

LEMMA Invariance == Spec => []IInv
  BY IInit, INext, PTL DEF Spec

-----------------------------------------------------------------------------
(* Counters stay within 64 bits, whatever the Edge reports, and what the   *)
(* Validator has verified is well formed.                                  *)
THEOREM TypeCorrect == Spec => []TypeOK
  BY Invariance, PTL DEF IInv

(* Without a new lease from the cloud the Edge stops, by its own clock, at *)
(* the end of the last one, whoever it was that had it issued.             *)
THEOREM OfflineBound == Spec => []StopsWithoutLeases
<1>1. IInv => StopsWithoutLeases
  BY DEF IInv, TypeOK, Dated, StopsWithoutLeases, CanOperate, Current
<1> QED
  BY <1>1, Invariance, PTL

(* The lease in force is the newest that has reached the Edge, in whatever *)
(* order and however often they come and whatever the platform issues by   *)
(* itself; in an orderly run a new one never shortens the time of the      *)
(* Edge; and nothing but a restart takes a revocation back.                *)
THEOREM KillSwitchImplemented == Spec => ImplementsKillSwitch
<1> DEFINE inForce == IF applied /\ ~revoked THEN {Held} ELSE {}
<1>1. Init => Switch!Init
  BY DEF Init, Switch!Init, Switch!Fresh
<1>2. IInv /\ [Next]_vars => [Switch!Next]_(Switch!vars)
  <2> SUFFICES ASSUME IInv, [Next]_vars PROVE [Switch!Next]_(Switch!vars)
    OBVIOUS
  <2>1. ASSUME NEW m \in updates, ApplyRenewal(m) PROVE m \in arrived' /\ Switch!Arrive(m)
    <3>1. /\ ~revoked /\ m \in Renewals /\ Newer(m) /\ m \in Claims
          /\ m.counter \in Int /\ m.expires \in Int
      BY <2>1, ClaimsTyped DEF ApplyRenewal, Renews, Opens, Renewals, IInv, TypeOK, Counter
    <3>2. /\ applied' = TRUE /\ ~revoked' /\ arrived' = arrived \cup {m}
          /\ UNCHANGED <<revoked, orderly>>
      BY <2>1, <3>1 DEF ApplyRenewal
    <3>3. Held' = m
      BY <2>1, <3>1, SealedIsAll DEF ApplyRenewal, Held, Renewals, Sealed
    <3>4. /\ Held.counter = counter /\ Held.expires = expiresUnix
          /\ counter \in Int /\ expiresUnix \in Int
          /\ \A n \in arrived : n.counter \in Int
      BY ClaimsTyped DEF Held, Sealed, IInv, TypeOK, Counter
    <3>5. m \in Switch!Newest(arrived')
      BY <3>1, <3>2, <3>4 DEF Switch!Newest, IInv, HoldsNewest, Newer
    <3>6. applied => Held \notin Switch!Newest(arrived')
      BY <3>1, <3>2, <3>4 DEF Switch!Newest, Newer
    <3>7. inForce' = {m}
      BY <3>2, <3>3
    <3>8. inForce \cap Switch!Newest(arrived') = {}
      BY <3>6
    <3>9. orderly => \A h \in inForce, n \in inForce' : h.expires <= n.expires
      BY <3>1, <3>4, <3>7 DEF IInv, Answered, Newer
    <3> QED
      BY <3>1, <3>2, <3>5, <3>7, <3>8, <3>9 DEF Switch!Arrive
  <2>2. ASSUME NEW m \in updates, RefuseStale(m) PROVE m \in arrived' /\ Switch!Arrive(m)
    <3>1. /\ arrived' = arrived \cup {m} /\ applied /\ ~revoked /\ m.counter <= counter
          /\ UNCHANGED <<validator, orderly>>
      BY <2>2, ClaimsTyped DEF RefuseStale, Newer, IInv, TypeOK, Counter
    <3>2. /\ Held.counter = counter /\ Held.expires = expiresUnix /\ expiresUnix \in Int
      BY DEF Held, Sealed, IInv, TypeOK
    <3>3. inForce = {Held} /\ inForce' = inForce /\ revoked' = revoked
      BY <3>1 DEF validator, Held, Sealed
    <3>4. Held \in Switch!Newest(arrived')
      BY <3>1, <3>2 DEF Switch!Newest, IInv, HoldsNewest
    <3>5. orderly => \A h \in inForce, n \in inForce' : h.expires <= n.expires
      BY <3>2, <3>3
    <3> QED
      BY <3>1, <3>3, <3>4, <3>5 DEF Switch!Arrive
  <2>3. ASSUME NEW m \in updates, ApplyRevocation(m) PROVE Switch!Kill
    BY <2>3 DEF ApplyRevocation, Switch!Kill, history
  <2>4. ASSUME Restart PROVE Switch!Restart
    BY <2>4 DEF Restart, Switch!Restart, Switch!Fresh
  <2>5. ASSUME UNCHANGED <<validator, arrived>>, orderly' = orderly \/ orderly' = FALSE
        PROVE  Switch!Meddle \/ UNCHANGED Switch!vars
    BY <2>5 DEF validator, Switch!Meddle, Switch!vars, Held, Sealed
  <2>6. ASSUME \/ Tick \/ Corrupt \/ Reconnect \/ Revoke \/ UNCHANGED vars
               \/ \E k \in {counter} \cup Reports : Beat(k)
               \/ \E k \in beats : Renew(k)
               \/ \E i \in Issued : IssueByHand(i)
        PROVE  UNCHANGED <<validator, arrived>> /\ (orderly' = orderly \/ orderly' = FALSE)
    <3>1. orderly \in BOOLEAN
      BY DEF IInv, TypeOK
    <3> QED
      BY <2>6, <3>1 DEF Tick, Corrupt, Reconnect, Revoke, Beat, Renew, IssueByHand,
                        Issue, Send, vars, history
  <2> QED
    BY <2>1, <2>2, <2>3, <2>4, <2>5, <2>6 DEF Next, Apply, Ignore, Switch!Next
<1> QED
  BY <1>1, <1>2, Invariance, PTL DEF Spec, ImplementsKillSwitch, Switch!Spec

(* An Edge that holds the lease of the greatest counter gets no other, and *)
(* no more time, by anything that the cloud or the network may do.         *)
THEOREM LastCounter == Spec => NothingAfterTheLast
<1>1. ASSUME IInv, [Next]_vars, applied, counter = MaxCounter, applied'
      PROVE  /\ UNCHANGED <<expiresUnix, counter>>
             /\ CanOperate' => CanOperate
  <2>1. \A m \in updates : ~(m.counter > counter)
    BY <1>1, ClaimsTyped DEF IInv, TypeOK, Counter
  <2>2. UNCHANGED <<applied, expiresUnix, counter>> /\ (revoked => revoked')
    <3>1. ASSUME NEW m \in updates, Apply(m)
          PROVE  UNCHANGED <<applied, expiresUnix, counter>> /\ (revoked => revoked')
      <4>1. ~ApplyRenewal(m)
        BY <1>1, <2>1 DEF ApplyRenewal, Renews, Newer
      <4> QED
        BY <3>1, <4>1 DEF Apply, ApplyRevocation, RefuseStale, Ignore, vars, validator
    <3>2. ~Restart
      BY <1>1 DEF Restart
    <3>3. ASSUME \/ Tick \/ Revoke \/ Corrupt \/ Reconnect \/ UNCHANGED vars
                 \/ \E k \in {counter} \cup Reports : Beat(k)
                 \/ \E k \in beats : Renew(k)
                 \/ \E i \in Issued : IssueByHand(i)
          PROVE  UNCHANGED validator
      BY <3>3 DEF Tick, Revoke, Corrupt, Reconnect, Beat, Renew, IssueByHand, Issue,
                  Send, vars
    <3>4. CASE UNCHANGED validator
      BY <3>4 DEF validator
    <3> QED
      BY <1>1, <3>1, <3>2, <3>3, <3>4 DEF Next
  <2>3. now' \in Int /\ now \in Int /\ now <= now'
    <3>1. TypeOK' /\ now \in Int
      BY <1>1, INext DEF IInv, TypeOK
    <3>2. now' = now \/ now' = now + 1
      BY <1>1 DEF Next, Tick, Revoke, Corrupt, Reconnect, Restart, Beat, Renew, Apply,
                  ApplyRevocation, ApplyRenewal, RefuseStale, Ignore, IssueByHand,
                  Issue, Send, vars
    <3> QED
      BY <3>1, <3>2
  <2>4. CanOperate' => CanOperate
    <3>1. Current(now' - Lag) => Current(now - Lag)
      <4>1. expiresUnix \in Int /\ Lag \in Int
        BY <1>1 DEF IInv, TypeOK
      <4>2. \A a, b, c, d \in Int : a <= b /\ b - c < d => a - c < d
        OBVIOUS
      <4> QED
        BY <2>3, <4>1, <4>2 DEF Current
    <3>2. CanOperate' => applied /\ ~revoked /\ Current(now' - Lag)
      BY <1>1, <2>2 DEF CanOperate, Current
    <3> QED
      BY <3>1, <3>2 DEF CanOperate
  <2> QED
    BY <2>2, <2>4
<1> QED
  BY <1>1, Invariance, PTL DEF Spec, NothingAfterTheLast

=============================================================================
