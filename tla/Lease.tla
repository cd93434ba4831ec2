-------------------------------- MODULE Lease --------------------------------
(***************************************************************************)
(* The operating lease and its kill-switch (src/lease), between the cloud  *)
(* that signs leases and one Edge whose Validator applies them.            *)
(*                                                                         *)
(* The Edge reports a counter in each Heartbeat and the cloud answers with *)
(* a lease of the next one (maybeRenewLease).  The platform may also issue *)
(* a lease by itself, of any duration and counter, and may revoke, at any  *)
(* time (PushLease).  The cloud remembers nothing of all this.  An Edge    *)
(* can have two streams at once and several sessions on each, so           *)
(* heartbeats and leases overtake each other and come more than once: both *)
(* directions are sets from which nothing is taken but by a reconnection.  *)
(*                                                                         *)
(* A lease is its signed claims; `authentic' says whether the signature    *)
(* verifies with the Validator's key.  The names of Edge and tenant are    *)
(* left out: the Validator does not read them.                             *)
(***************************************************************************)
EXTENDS Integers

CONSTANTS
    TTL,         \* leaseTTL, in units of the clock
    Issued,      \* the leases that the platform issues by itself
    Reports,     \* counters that a Heartbeat may tell besides the lease's own
    Lag,         \* how far the Edge's clock is behind the cloud's
    MaxCounter,  \* the greatest int64
    MaxTime      \* bound: the cloud's clock

Counter == (-MaxCounter - 1)..MaxCounter

ASSUME LeaseConstants ==
    /\ TTL \in Nat /\ Lag \in Int /\ MaxCounter \in Nat \ {0} /\ MaxTime \in Nat
    /\ Issued \subseteq [ttl : Int, counter : Counter]
    /\ Reports \subseteq Counter

Claims == [counter : Counter, expires : Int, revoked : BOOLEAN, authentic : BOOLEAN]

VARIABLES
    now,                                     \* the cloud's clock
    beats,                                   \* lease_counters on their way
    updates,                                 \* LeaseUpdates on their way
    applied, revoked, expiresUnix, counter,  \* the Validator
    horizon,   \* history: the latest expiry that was signed
    arrived,   \* history: the leases that this run of the Edge has verified
    orderly    \* history: in this run leases only answered true heartbeats

validator == <<applied, revoked, expiresUnix, counter>>
history == <<horizon, arrived, orderly>>
vars == <<now, beats, updates, validator, history>>

TypeOK ==
    /\ now \in 0..MaxTime
    /\ beats \subseteq Counter
    /\ updates \subseteq Claims
    /\ applied \in BOOLEAN /\ revoked \in BOOLEAN
    /\ expiresUnix \in Int /\ counter \in Counter
    /\ horizon \in Int /\ arrived \subseteq Claims /\ orderly \in BOOLEAN

Init ==
    /\ now = 0
    /\ beats = {} /\ updates = {}
    /\ applied = FALSE /\ revoked = FALSE /\ expiresUnix = 0 /\ counter = 0
    /\ horizon = -Lag      \* nothing that the Edge's clock has not reached
    /\ arrived = {} /\ orderly = TRUE

-----------------------------------------------------------------------------
(* The cloud.                                                              *)

Tick == /\ now < MaxTime
        /\ now' = now + 1
        /\ UNCHANGED <<beats, updates, validator, history>>

(* lease_counter + 1, in int64. *)
Next64(k) == IF k = MaxCounter THEN -MaxCounter - 1 ELSE k + 1

(* build: the signed claims. *)
Sealed(k, exp, rev) ==
    [counter |-> k, expires |-> exp, revoked |-> rev, authentic |-> TRUE]

Send(m) == /\ updates' = updates \cup {m}
           /\ UNCHANGED <<now, beats, validator, arrived>>

(* Issue with this ttl and counter, and what is sent. *)
Issue(ttl, k) ==
    /\ Send(Sealed(k, now + ttl, FALSE))
    /\ horizon' = IF now + ttl > horizon THEN now + ttl ELSE horizon

(* maybeRenewLease answers a Heartbeat. *)
Renew(k) == k \in beats /\ Issue(TTL, Next64(k)) /\ UNCHANGED orderly

(* The platform calls Issue and PushLease: a short lease, or a long one    *)
(* for an Edge that will be offline.                                       *)
IssueByHand(i) == Issue(i.ttl, i.counter) /\ orderly' = FALSE

(* The platform calls Revoke and PushLease.  The expiry of a revocation,   *)
(* the time of the call, is not read by anybody: here it is 0.             *)
Revoke == Send(Sealed(0, 0, TRUE)) /\ UNCHANGED <<horizon, orderly>>

-----------------------------------------------------------------------------
(* The Edge and the network.                                               *)

(* The Edge beats (external).  The Validator does not tell its counter: a  *)
(* daemon that counts along reports that of the lease it holds, 0 before   *)
(* the first, and one that does not, something else.                       *)
Beat(k) == /\ beats' = beats \cup {k}
           /\ orderly' = (orderly /\ k = counter)
           /\ UNCHANGED <<now, updates, validator, horizon, arrived>>

(* A blob that was altered, or signed with another key: external. *)
Altered == [counter |-> MaxCounter, expires |-> MaxTime + TTL + 1,
            revoked |-> FALSE, authentic |-> FALSE]
Corrupt == /\ updates # {}
           /\ updates' = updates \cup {Altered}
           /\ UNCHANGED <<now, beats, validator, history>>

(* The streams are cut: what they carried is lost, late heartbeats too     *)
(* because their leases would go to the conn that sent them.               *)
Cut == beats' = {} /\ updates' = {}
Reconnect == Cut /\ UNCHANGED <<now, validator, history>>

(* The process restarts with a new Validator. *)
Restart ==
    /\ Cut
    /\ applied' = FALSE /\ revoked' = FALSE /\ expiresUnix' = 0 /\ counter' = 0
    /\ arrived' = {} /\ orderly' = TRUE
    /\ UNCHANGED <<now, horizon>>

-----------------------------------------------------------------------------
(* Validator.Apply(m), atomic under v.mu.                                  *)

(* open verifies the signature.  Mutant: it does not. *)
Opens_Any(m) == TRUE
Opens(m) == m.authentic

(* Anti-replay.  Mutants: the same counter once more is not a replay; the  *)
(* sign of the difference, which is an int64 too, instead of a comparison. *)
Newer_OrSame(m) == ~applied \/ m.counter >= counter
Newer_Difference(m) ==
    \/ ~applied
    \/ (m.counter - counter) % (2 * (MaxCounter + 1)) \in 1..MaxCounter
Newer(m) == ~applied \/ m.counter > counter

(* A revocation counts whatever its counter.  Mutant: only a newer one. *)
Kills_IfNewer(m) == Opens(m) /\ m.revoked /\ Newer(m)
Kills(m) == Opens(m) /\ m.revoked

Renews(m) == Opens(m) /\ ~m.revoked /\ ~revoked /\ Newer(m)

ApplyRevocation(m) ==
    /\ m \in updates
    /\ Kills(m)
    /\ revoked' = TRUE
    /\ UNCHANGED <<now, beats, updates, applied, expiresUnix, counter, history>>

ApplyRenewal(m) ==
    /\ m \in updates
    /\ Renews(m)
    /\ applied' = TRUE
    /\ expiresUnix' = m.expires
    /\ counter' = m.counter
    /\ arrived' = arrived \cup {m}
    /\ UNCHANGED <<now, beats, updates, revoked, horizon, orderly>>

(* ErrStaleCounter: the state is left intact. *)
RefuseStale(m) ==
    /\ m \in updates
    /\ Opens(m) /\ ~m.revoked /\ ~revoked /\ ~Newer(m)
    /\ arrived' = arrived \cup {m}
    /\ UNCHANGED <<now, beats, updates, validator, horizon, orderly>>

(* A bad signature, or a renewal after a revocation. *)
Ignore(m) ==
    /\ m \in updates
    /\ ~Opens(m) \/ (revoked /\ ~m.revoked)
    /\ UNCHANGED vars

Apply(m) == ApplyRevocation(m) \/ ApplyRenewal(m) \/ RefuseStale(m) \/ Ignore(m)

(* leaseVigente, read with the Edge's clock.  Mutant: valid at its expiry. *)
Current_AtExpiry(t) == t <= expiresUnix
Current(t) == t < expiresUnix
CanOperate == applied /\ ~revoked /\ Current(now - Lag)

Next == \/ Tick \/ Revoke \/ Corrupt \/ Reconnect \/ Restart
        \/ \E k \in {counter} \cup Reports : Beat(k)
        \/ \E k \in beats : Renew(k)
        \/ \E i \in Issued : IssueByHand(i)
        \/ \E m \in updates : Apply(m)

Spec == Init /\ [][Next]_vars

(* The Edge applies the revocations that reach it; nothing else is sure.   *)
FairSpec == Spec /\ WF_vars(\E m \in updates : ApplyRevocation(m))

-----------------------------------------------------------------------------
(* Properties.                                                             *)

(* An Edge operates only before the latest end of all the leases that the  *)
(* cloud has signed, by its own clock: no grace (lease.go:20), no other    *)
(* blob.                                                                   *)
StopsWithoutLeases == CanOperate => now - Lag < horizon

(* The kill-switch: leases that arrive late, twice or out of order do not  *)
(* put an old one back in force, nothing un-revokes the Edge, and only the *)
(* platform's own leases, or heartbeats that tell a counter not held,      *)
(* shorten the time that it already has.                                   *)
Held == Sealed(counter, expiresUnix, FALSE)
Switch == INSTANCE KillSwitch WITH
            inForce <- IF applied /\ ~revoked THEN {Held} ELSE {},
            killed  <- revoked
ImplementsKillSwitch == Switch!Spec

(* After the lease of the greatest counter there is no other: the answers  *)
(* to its heartbeats wrap to the least counter and are refused as stale,   *)
(* and so is all that the platform issues.  The Edge stops when it ends,   *)
(* in touch with the cloud or not, and only a new process operates again.  *)
NothingAfterTheLast ==
    [][ applied /\ counter = MaxCounter /\ applied'
          => /\ UNCHANGED <<expiresUnix, counter>>
             /\ CanOperate' => CanOperate ]_vars

(* A revocation that is on its way and not lost wins over any number of    *)
(* renewals, whatever its counter.                                         *)
RevocationWins ==
    (\E m \in updates : m.revoked /\ m.authentic) ~> (revoked \/ updates = {})

=============================================================================
