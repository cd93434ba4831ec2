# TLA+ models of wapp-cloudlink

`wapp-cloudlink` is the transport between an Edge (a daemon on the customer's
premises that multiplexes several WhatsApp sessions) and the cloud: one gRPC
bidirectional stream per Edge over mTLS, an operating lease with a kill-switch,
and enrollment by one-time codes.  This directory holds TLA+ models of its
concurrent and stateful parts, TLC configurations that check them on small
instances, and TLAPS proofs of the properties that matter most, for any values
of the constants.

    tlc -config MCReception.cfg MCReception     # one run
    tlapm ReceptionProofs.tla                   # one module of proofs

`PROJECT.json` lists components, runs, the mutants that each property refutes,
which lines each definition stands for, the findings, the hazards and the
theorems.

## 1. The system

### Components

| component | source | state it keeps | operations | model |
|---|---|---|---|---|
| session registry | `internal/server/cloudlink.go` | `sessions` (session_id → conn) under `s.mu`; per stream a `conn` with `sendMu`, and the handler's set `mine` | `Connect`, `register`, `deregister`, `maybeRenewLease`, `conn.send`, `Push`, `PushLease` | `SessionRegistry` |
| reception | `internal/server/cloudlink.go` | `inboxes` (session_id → channel, count of drops), `fanin`, `out` | `deliver`, `Received`, `forward`, `TotalDropped`, the saturation hook (`Dropped` loads one counter) | `Reception`, `DropMetrics` |
| lease | `lease/` | Validator: `applied`, `revoked`, `expiresUnix`, `counter` | `Issue`, `Revoke`, `Apply`, `CanOperate`, `Revoked` | `Lease` |
| enrollment | `internal/enroll/store.go`, `service.go`, `ca.go`, `internal/server/enrollment.go` | `MemoryStore.codes` under its mutex; the CA's key and certificate | `Add`, `Consume`, `GC`, `Enroll`, `EnrollEdge`; `NewDevCA`, `LoadCAFromPEM`, `SignCSR`, `IssueServerCert` | `Enrollment`; the CA in `Credentials` |
| enrollment client | `internal/enroll/client.go` | none | `EnrollClient` | `Credentials` |
| edge client | `client/client.go` | `received` (channel of 64), `lastErr`, `sendMu` | `New`, `recvLoop`, `Send`, `Received`, `Err` | `EdgeClient`, and with the cloud's end `Duplex` |
| mTLS credentials | `mtls/mtls.go` | none | `ServerCreds`, `ClientCreds`, `Load*FromFiles` | `Credentials` (what a handshake accepts), `DevCerts` (how files are loaded) |
| demo cloud | `cmd/democloud/main.go` | offset in the command file, sessions announced | `tailCommands`, `readCommands`, `execCommand`, `logIncoming`, `announceSession` | `DemoCloud` |
| dev PKI script | `scripts/gen-dev-certs.sh` | six files | one run | `DevCerts` |
| binary | `cmd/cloudlink/main.go` | none | start-up: mTLS or plain text | partly: `DevCerts!Start`, `Load` |
| server wiring | `internal/server/server.go` | none | constructor and options | not modelled: the options appear as constants |
| transport limits | `transport/` | none | constants | not modelled; keepalive's effect is `Break` and `End` |
| generated code | `gen/`, `proto/` | none | | not modelled: messages are members of small sets |

### How they interact

An Edge enrolls with a one-time code: it makes a key and a CSR, the server
checks the CSR, consumes the code and has its CA sign; the certificate with the
CA's own is what the Edge connects with, over mTLS.  The certificates of a
development set-up come from a script instead, and both ends load them from
files when they start.

The Edge then opens `Connect`.  The handler goroutine reads frame after frame;
for each frame with a session_id it **registers** the session on this stream's
conn, notes it in `mine`, and, if the frame is a Heartbeat and a `LeaseIssuer`
was injected, sends a **renewed lease** on the same conn.  Then it **delivers**
the frame, whatever its session_id, into that session's inbox and goes back to
`Recv`.  On exit the deferred `deregister` removes the map entries that still
point to this conn.  Platform goroutines call `Push`/`PushLease`, which look a
conn up under `s.mu`, release the mutex and send on the conn under its `sendMu`.
The first `Received` starts one **forwarder** goroutine per inbox, and `deliver`
starts one with each later inbox; all of them feed one channel that the platform
reads.

On the Edge, `recvLoop` moves what the stream yields into a channel that the
application reads, and any goroutine may `Send`.  A `Validator` applies the
leases that arrive and gates the Edge's work.  Both directions of a stream are
bounded by flow control: a send at one end waits for the reader at the other.

The demo cloud is a platform in small: one goroutine reads commands and pushes,
another reads `Received` and announces sessions.

### What is hard here

* **Stale state.** `register` runs on every frame, so old frames of an old
  stream can move a session back; `Push` sends after it released `s.mu`.
* **Interleavings.** Two handlers (an Edge that reconnects) and any number of
  pushers on the same map entry and the same stream; `deliver` and the first
  `Received` both start forwarders; two handlers drop messages of one session
  and call the hook outside any lock.
* **Limits.** A full inbox must not stop `Recv`, nor touch another session.
* **An unreliable channel for leases.** Renewals overtake and repeat each
  other, are lost by a reconnection, or refused; the Validator forgets
  everything when the process restarts.
* **Check-then-act.** Consuming a code and marking it, with GC and `Add`
  between the steps of a request.
* **Boundaries.** The expiry of a lease (exclusive) and of a code (inclusive),
  `lease_counter + 1` in int64.
* **Blocking circles.** Both ends block in `Send`; the cloud's renewals are sent
  from the goroutine that also receives.
* **The end of a stream**, at any moment: messages in the stream, in
  `recvLoop`'s hand and in the channel; senders in the middle of a send; a cause
  that must be there before the close is seen.
* **Half-finished things.** A command file that is being appended to, key files
  that are being written again, an enrollment whose answer is lost.
* **Two clocks**: certificates and leases are dated by one end and read by the
  other.

### What makes each component correct

* Registry: no route to a stream whose handler has returned; nobody's route is
  removed but by the end of its own conn; a message for a session only goes to
  a stream on which the Edge spoke for it; `stream.Send` never runs twice at
  once on a stream; a dead stream is always cleaned up; a lasting stream gets
  its sessions' routes.
* Reception: exactly one forwarder per inbox; nothing is lost, doubled or
  reordered but by a counted drop at a full inbox; every drop is reported with
  its own count; `deliver` never waits; no accepted message is forgotten.
* Lease: no operation beyond the last lease signed; of the leases that reached
  the Edge the newest is in force, whatever order they came in; only the
  platform's own leases or false counters can shorten the time the Edge has; a
  revocation is heeded whatever its counter, and is final until a restart.
* Enrollment: one certificate per code given out; a bad CSR costs no code; GC
  is not observable.
* Edge client: messages in order and without a gap, then the end with its cause;
  every blocked call ends with the stream.
* Both ends together: no call waits for ever as long as somebody reads.
* Credentials: a stream is between an Edge, for the tenant its code was for, and
  the server, never any other pair; an enrolled Edge does get in.
* Demo cloud: every new line is executed once and whole; an announced session
  can be pushed to.
* Development PKI: whatever happened to the script, ends that start on a
  complete set of files understand each other, and no server goes plain.

## 2. The modules

Abstract specifications say what a component promises; the detailed ones are
translated from the code and shown to implement them.

| module | what it is |
|---|---|
| `RouteTable` | promise of the registry: a table in which a connection appears only while alive |
| `SessionRegistry` | the registry, step by step |
| `LossyFifos` | promise of the reception: one lossy FIFO per session, independent of the others, merged for one reader |
| `Reception` | inboxes, `deliver`, fan-in |
| `KillSwitch` | promise of the lease: the newest of the leases that arrived is in force, revocation is final until a restart |
| `Lease` | Issuer, Validator and what lies between |
| `OneTimeCodes` | promise of the codes: good for one request, up to the expiry |
| `Enrollment` | store, GC, requests |
| `DropMetrics` | `Reception` and a reader of `TotalDropped` |
| `EndingFifo` | promise of the Edge's client: a FIFO that ends with its cause |
| `EdgeClient` | `recvLoop`, `Received`, `Err`, `Send`, over any stream |
| `Duplex` | `EdgeClient` with the cloud's handler and pushers at the other end |
| `Credentials` | CA, `EnrollClient` and mTLS, over two clocks and restarts |
| `DevCerts` | the files of the development PKI, its script, both ends' start |
| `DemoCloud` | commands, pushes and announcements of the demo |
| `MC<module>` | instances for TLC (symmetry sets; the constants are in the `.cfg` files) |
| `<module>Proofs` | theorems and proofs (`DropMetrics` in `ReceptionProofs`, `EdgeClient` in `DuplexProofs`) |

A **mutant** is an operator `X_Something` defined just before `X`: the plausible
bug that the property in question must catch.  It is used by no specification.

### SessionRegistry

Threads are the handlers (named by their stream) and the pushers.  A step is
what a goroutine does between two points at which another can see a difference:
what runs under `s.mu` is one step; `sendMu` is held across the blocking
`stream.Send` and is a variable.

| model | code |
|---|---|
| `Open`, `RecvFrame`, `RecvEnd` | `Connect` starts; `stream.Recv` returns a frame, EOF or an error |
| `Register` | `register` and `mine[sid]` (`mine` is local: nobody can look between) |
| `SkipRenewal`, `RenewLease`, `LockSend`, `SendLease` | `maybeRenewLease` down to `conn.send`, result ignored |
| `Deliver` | the call of `deliver`, which cannot wait (checked in `Reception`) |
| `Deregister` | the deferred `deregister`, all its entries under one lock |
| `PushLookup`, `PushUnknown`, `LockSend`, `PushSend` | `Push`: lookup, error, and the send after the unlock |
| `EdgeSend`, `EdgeRecv`, `EdgeClose`, `Break` | the Edge and the network: external |

The two directions of a stream are FIFO queues of bounded length (flow control):
a `Send` blocks while the queue is full and fails when the stream is cut or its
handler has returned.  A `Send` on a stream that was cut may still succeed, and
the message is lost.  After a cut, `Recv` may hand over buffered frames or fail.

### Reception

`deliver` has three steps: find or make the inbox under `s.mu` (`Lookup`,
together with the frame's `Recv`), the non-blocking send with its drop and count
(`Accept`/`Drop`), the hook (`Hook`).  A forwarder has a message in its hand
between `Take` and `Put`; `hand[s]` is a sequence so that a bug that starts two
forwarders of one inbox shows as reordering.  `Received` starts the forwarders
of the inboxes that exist, under `s.mu`.  `Consume` is the reader of the channel.
A handler's messages carry a number, and `consumed`, `lost` and `reported` are
history variables.  `InboxCap` stands for the capacity of each inbox and of the
common channel, which are one constant in the code too.

`DropMetrics` adds a goroutine in `TotalDropped`, which holds `s.mu` for its
whole loop: `Lookup` and `Received` wait for it, while counters that it has or
has not come to go on growing.  `Dropped` is one load and changes nothing.

### Lease

`Renew` is `maybeRenewLease` with `Issue`; the counter is what the Heartbeat
reported plus one, in a signed integer of the width given by `MaxCounter`, so
that the wrap of int64 is in the model.  `IssueByHand` is the platform that calls
`Issue` with any duration, a negative one included, and any counter, and
`PushLease` (`internal/server/server.go:81-82`); `Issued` is the set of what it
may ask for.  `Revoke` is `Issuer.Revoke` and `PushLease`.  `ApplyRevocation`,
`ApplyRenewal`, `RefuseStale` and `Ignore` are the ways `Validator.Apply` can go,
each atomic under `v.mu`; `CanOperate` has the DEK present.  The network is a set
of heartbeats and a set of leases: since an Edge can have two streams and several
sessions on each, they overtake each other and may be applied more than once.
`Corrupt` adds a blob that does not verify.  `Reconnect` loses what is on its
way; `Restart` also makes a new Validator, which keeps nothing
(`documentations/contratos.md:326`).  `Lag` is how far the Edge's clock is behind.

The daemon that beats is not in the repository, and the Validator does not tell
its counter: `Beat` may tell the counter of the lease held or any of `Reports`
(`lease_renewal_test.go:69-83` beats 7 with a fresh Validator).  `arrived` and
`orderly` are history variables: the leases that this run of the Edge has
verified, and whether it has been orderly so far, that is, whether all leases
answered heartbeats that told the counter held.

Left out: the names of Edge and tenant in the claims (the Validator does not
read them; the Edge's is a placeholder, `documentations/deuda.md` D-8), and the
expiry of a revocation, which nothing reads.

### Enrollment

A request has three steps: `Call` (the CSR is verified), `Consume` or `Deny`
(`MemoryStore.Consume`, atomic under its mutex), `Sign` (`CA.SignCSR` and the
answer).  `Add`, `GC` and the clock move between them.  A retry of a client
whose answer was lost is another request with the same code.  The statuses are
those of `EnrollEdge`.  A CSR is good or bad; of the certificate only the tenant
is kept (the rest is in `Credentials`).  `StartGC`'s ticker is the freedom of `GC`
to happen at any moment or never.

### EdgeClient and Duplex

| model | code |
|---|---|
| `RecvMsg`, `Put` | `recvLoop`: a message is in its hand between `Recv` and the channel |
| `RecvErr`, `SetErr`, `CloseReceived` | the error of `Recv`, `lastErr` under `errMu`, the deferred `close` |
| `CallSend`, `LockSend`, `SendMsg` | `Send`: `sendMu` across `stream.Send` |
| `Read`, `SeeEnd` | the application: the loop over `Received`, then `Err` |
| `CloudSend`, `CloudRecv`, `End` | the other end and the network: external |

Messages of the cloud are numbered, so that order and gaps show.  The
application's reader is a goroutine of its own, or one of those that send
(`Reader`): nothing in the code decides this, and it decides whether the two ends
can wait for each other.  `Duplex` replaces the free environment by `Connect`
with its renewals and by callers of `Push`, with the `sendMu` of the cloud's
conn; `register`, `deregister` and `deliver` never wait for a peer and are no
steps there.  The client has no half-close, and the handler returns only when
its `Recv` has failed; in `Duplex` a stream is therefore always cut.

### Credentials

A certificate is what is checked of it: signer, use, dates, tenant, and as a
history the code that paid for it.  `Enroll` is the service with one-time codes
(which `Enrollment` justifies); `Answered` and `CallFails` are the two ways
`EnrollClient` ends, the second before or after the server has dealt with the
call.  `Handshake` is what `ServerCreds` and `ClientCreds` make of x509 by the
clock of each end, the dates of the root included.  Either end may present any
certificate that somebody holds by a mistake in the wiring (`Presented`).  A
restart comes back with the CA's files or with a new development CA.

### DevCerts

`gen-dev-certs.sh` writes six files in place, in the order of `Order`; each is
truncated and then written, and the script may stop anywhere and be run again.
A key is the number of the run that made it.  Both ends load certificate, key
and CA one after the other: a missing or torn file, or a key that is not the
certificate's, is fatal; only the server, when one of its files is missing,
serves without TLS instead (`cmd/cloudlink/main.go`).

### DemoCloud

Text is counted in halves of lines, so that half a line can be in the file, in
bufio's buffer or in a read.  `ReadLine`, `Fill`, `AtEOF` and `AtClose` are what
`ReadString` and the `Scanner` do with the buffer; `Exec` is `execCommand`, in
which a send or ping of a routed session waits in `Push`.  Of the server the
routes and the order of register and deliver are kept.  `Split` says for which
input a line may arrive by two writes: standard input always; for the file see
section 6.

## 3. What is checked

All runs pass except the two that are expected to find a violation.

| run | configuration | question |
|---|---|---|
| `registry_routes` | 2 sessions, 2 streams, 1 pusher, queues of 1 | `NoZombieRoute`, `UnroutedOnlyAfterTakeover`, `NoCrossRouting`, `SendsSerialized`, `WaitsOnlyForItsEdge` in every interleaving |
| `registry_lifecycle` | 1 session, 2 streams, 1 pusher, fair goroutines | `BrokenStreamUnrouted`: a cut stream always loses its routes; `ImplementsRouteTable`; `StableStreamGetsRoute`: for an Edge that goes on beating a stolen route comes back |
| `registry_late_frame` | 1 session, 2 streams | **violation** of `LiveSessionKeepsRoute`: section 5 |
| `reception` | 2 sessions, 2 handlers with 2 messages each, inboxes of 1, a reader of `TotalDropped` | `OneForwarder`, `Conservation`, `InOrder`, `EveryDropReported`, `TotalWasTrue`, `ImplementsLossyFifos`; `DeliverReturns` without any reader; `AcceptedIsConsumed` with one |
| `lease_safety` | TTL 1, lag 1, counters from -3 to 2, clock to 2, one kind of lease by hand and one false counter | `StopsWithoutLeases`, `ImplementsKillSwitch`, `NothingAfterTheLast` (the wrap), `RevocationWins` |
| `enroll_safety` | 2 codes, 2 tenants, 3 requests, codes given out twice, clock to 2 | `OneCertPerCode`, `NeverBurntByCSR`, `ImplementsOneTimeCodes` |
| `edge_client` | 2 senders, a reader, 2 messages in flight and 2 in the channel, 6 from the cloud | `ErrTellsTheEnd`, `ImplementsEndingFifo`; `EndIsSeen`, `SendsEnd` |
| `duplex_liveness` | 1 sender, a reader of its own, 1 pusher, queues of 1, 5 messages | `RecvNeverFreezes`, `CallsReturn`, `CommandsAreRead`; `SlackSuffices`, `NoCircle` |
| `duplex_freeze` | the sender is also the reader, queues of 2, 6 messages | **violation** of `RecvNeverFreezes`: section 5 |
| `demo_commands` | 1 session, 2 old and up to 6 halves of lines, file and standard input | `NewLinesWhole`, `AnnouncedIsRouted`, `TextIsExecuted` |
| `credentials` | 2 Edges, one with a clock behind by `Grace`, 2 codes, 2 tenants, 2 starts, clock to 4 with certificates for 2 and a CA for 3 | `StreamsAreEdges`, `OneCertificatePerCode`, `EnrolledConnects` |
| `devcerts` | 3 runs of the script, 2 starts of each end | `QuietStartsConnect`, `NeverOpenAgain` |

Where a type invariant is proved it is left to the proof (section 4).  So are
three properties that a refinement in the same run implies or that a mutex
gives: `RoutesEndWithTheirConn`, and `NothingMissing` and `SendsSerialized` of
the Edge's client.

`TotalWasTrue` is stronger than it looks.  It says that the sum lies between the
numbers of drops at the call and at the return; since each drop adds one, that
number took every value between them, and what `TotalDropped` returns is a total
that there was, although it adds counters of different moments.  (That counters
and drops agree is in `Conservation`.)

**Bounds.** *Registry*: two streams are a reconnection, the situation all its
hazards are about; a third one only repeats the second's part, and the theorems
hold for any number.  Queues of one message make flow control bite at once; one
pusher with one handler is contention for `sendMu`.  *Reception*: two handlers
with two sessions give every mix (one session from two streams, two sessions
from one); two messages each against inboxes of one reach full inboxes, drops by
both handlers at once, a full common channel with a message in a forwarder's
hand, and two counters that grow while they are added.
*Lease*: with TTL 1 and a clock to 2 there are expired, current and later leases
on their way together; the small width reaches the wrap in two renewals; the
platform's lease ends at once, is newer than the first renewal and has the same
counter as the second, and an Edge without a lease may report that it has one.
*Enrollment*: three requests for two codes, each given out twice, let two
requests race for a code while it is given out again; the clock to 2 with
expiries 0..2 has codes before, at and after their expiry.  *Edge client*: six
messages overfill both queues and `recvLoop`'s hand; the theorems hold for any
capacities.  *Duplex*: five messages are two more than fit, so that the cloud
does wait for the reader; in `duplex_freeze` six are one more than fit.
*Demo*: three lines, of which the first may be older than the start, read
through a buffer that may end at every half.  *Credentials*: two starts have the
old CA, the same one and a new one; the clock runs past the lives of a
certificate and of the CA.  *DevCerts*: three runs are a complete one, an
interrupted one and a repair.
`MaxFrames`, `MaxAdds`, `MaxTime`, `MaxDown`, `MaxText`, `MaxRuns`, `MaxStarts`,
`OldText`, `ChanCap`, `Window`, `UpCap`, `DownCap` and, as a width, `MaxCounter`
bound the state; they are named as bounds in the modules.

**Deadlock** is checked except where the system may stop: every message of the
bounded number has been delivered (`reception`), every call has been answered
(`enroll_safety`), main has returned (`demo_commands`), the clock has run out
(`credentials`), the script and the ends have had their runs (`devcerts`).

**Symmetry** is used in `registry_routes` (safety only) and in `enroll_safety`,
whose temporal property is a refinement without liveness, symmetric in every
constant.

**Fairness.**
* *Goroutines that can run do run* (weak fairness of a handler, of a pusher
  inside its send, of `recvLoop`, of the demo's main): Go's scheduler is
  preemptive.
* *A free `sendMu` is won in the end* (strong fairness of `LockSend` and
  `CloudLock`): `sync.Mutex` hands the lock to the first waiter after 1 ms of
  starvation.
* *A forwarder that is blocked on the common channel gets in* (strong fairness
  of `PutSome`): senders blocked on a Go channel wait in a FIFO queue.
* *The Edge* owes nothing, except in `StableStreamGetsRoute`, whose premise
  `EdgeFairness` is an Edge that beats and reads; its sends need strong fairness
  because flow control opens and closes again.  Calls of `Push` and of `Send`
  are never assumed.
* `DeliverReturns` assumes only the handlers (`FairMetricsSpec`); `AcceptedIsConsumed` has the
  premise `Reading`: `Received` is called and its channel read (the comment at
  `Received` asks for it).
* *The application at the Edge reads* in `edge_client` and `duplex_*`, when it is
  not itself inside `Send`: a reader that stops for good leaves `recvLoop` behind
  (`documentations/deuda.md` D-11).
* *The demo*: a `Push` returns, that is, the Edge reads.  Nothing is assumed of
  who writes commands.
* *Lease*: a revocation that reached the Edge is applied.  Not that it arrives:
  a reconnection loses it, and `RevocationWins` says so.

## 4. What is proved

Each theorem is proved by TLAPS for every value of the constants that satisfies
the `ASSUME` of the module.  Those assumptions say only that the model values
differ from each other (an empty session_id is no session, a "no tenant" is no
tenant and no entry, an absent or torn file is no key and no certificate), that
capacities and bounds are natural numbers (`Lag` an integer, and the old text of
the demo's file part of all its text), and that the requests of an enrollment and
the callers of `Push` are finitely many.  One theorem has an assumption of its own: `LinesAreWhole` is about
command files to which lines are appended by one write each.

| theorem | result |
|---|---|
| `SessionRegistryProofs!TypeCorrect`, `NoZombie`, `UnroutedAfterTakeover`, `NoCross`, `SendMutex`, `WaitsForTheEdge`, `RoutesEnd`, `Refinement` | every safety property of the registry's passing runs, and that it implements `RouteTable` |
| `ReceptionProofs!TypeCorrect`, `ExactlyOneForwarder`, `ReadInOrder`, `DropsReported`, `NothingLost`, `LossyFifosImplemented` | capacities are kept; `OneForwarder`; `InOrder`; `EveryDropReported`; `Conservation`; it implements `LossyFifos` |
| `ReceptionProofs!KeepsToReception`, `TotalIsTrue` | `DropMetrics` refines `Reception`; `TotalWasTrue` |
| `LeaseProofs!TypeCorrect`, `OfflineBound`, `KillSwitchImplemented`, `LastCounter` | `TypeOK`; `StopsWithoutLeases`; the Validator implements `KillSwitch`; `NothingAfterTheLast`; all for any leases that the platform issues and any counters that are reported |
| `EnrollmentProofs!TypeCorrect`, `BadCSRBurnsNothing`, `OneCertificate`, `CodesAreOneTime` | `NeverBurntByCSR`; `OneCertPerCode`; the store and its requests implement `OneTimeCodes` |
| `DuplexProofs!TypeCorrect`, `CauseBeforeClose`, `ReadsEverything`, `SendMutex`, `EndingFifoImplemented` | every safety property of the client; it implements `EndingFifo` |
| `DuplexProofs!KeepsToClient`, `DuplexTypeCorrect`, `SlackIsEnough`, `NobodyWaitsInACircle` | the composition refines the component, whose theorems it inherits; `SlackSuffices` and `NoCircle` for any capacities |
| `CredentialsProofs!TypeCorrect`, `OnlyEdgesConnect`, `CodesPayOnce`, `EnrolledEdgesConnect` | `StreamsAreEdges`, `OneCertificatePerCode`, `EnrolledConnects` for any lives, lags and numbers |
| `DemoCloudProofs!TypeCorrect`, `LinesAreWhole`, `RoutedBeforeAnnounced` | `TypeOK`, `NewLinesWhole`, `AnnouncedIsRouted` for inputs of any length |
| `DevCertsProofs!TypeCorrect`, `QuietStarts`, `PlainOnlyBefore` | `TypeOK`, `QuietStartsConnect`, `NeverOpenAgain` for any number of runs and starts |

Every safety property, action property and refinement that a passing run checks
is proved; what only TLC checks is liveness.

**Registry.** `NoZombieRoute` alone is not inductive: that `deregister` removes
the last route to its conn depends on what `mine` contains.  The invariant is
`TypeOK /\ LocalsOK /\ RouteOwned`.  `RouteOwned` says that a session in the map
is in the `mine` of the conn it points to, and that conn is alive; `LocalsOK`
says what the local variables hold at each label: a goroutine inside `send`
works for a session in the `mine` of its conn, however long ago it looked the
conn up.  Routes, cross-routing and the refinement follow from it;
`SendsSerialized` needs `LockHeld` besides (whoever is in `Send` holds the lock),
and `WaitsOnlyForItsEdge` the converse, `HeldBySender`: a `sendMu` that is taken is
held by a goroutine inside the `Send` of that very conn.  It is the part of
`BrokenStreamUnrouted` and `CallsReturn` that needs no fairness: one Edge that does
not read holds up its own stream and no other.

**Reception.** `OneForwarder` is inductive together with "a forwarder holds at
most one message".  `InOrder` speaks of what has been read, so its invariant
must speak of every place a message can be in.  `Layers`: what was read comes
before what is in the common channel, that before the forwarder's hand, that
before the inbox, for messages of one stream and session.  `Home`: an inbox
holds only messages of its session, so that a message that leaves another inbox
for the common channel cannot come out of order.  `Recent`: what a handler is
about to offer is younger than all it offered before.  That there is one
forwarder is what makes the step of `Put` go through.

`Conservation` needs more than the counting it states.  `Account` says it by
identity instead of by number: a message is known by its handler and its number
there, so that no two messages anywhere agree in both (`EachOnce`), every number
that a handler has used belongs to some message, and what was dropped is older
than what its handler now offers and is in none of the places that lead to the
reader (`LostApart`).  That no sequence holds a message twice is not stated a
second time: it is `Order`, the invariant of `InOrder`, read for two positions of
one message.  The refinement of `LossyFifos` takes for a session's queue what its
forwarder holds followed by its inbox; `OneForwarder` makes `Put` take the oldest,
and `HasRoom` speaks of one inbox only, which is the independence that is promised.

`TotalWasTrue` is about a sum whose parts are read at different moments.
`Summed` carries two sets of drops instead of sums: those there were at the call
and those that have been added.  The first are among the second, unless their
inbox is still to come; that no inbox appears during the loop, because `Lookup`
needs the `s.mu` that the loop holds, is what `InboxKnown` is for.

**Lease.** `KillSwitch` says which lease is in force as a function of what has
arrived, not of the order; `Apply` compares one lease with the one it holds.
`HoldsNewest` is what joins them: the lease held is among those verified, and
none of these has a greater counter.  That needs nothing of the cloud, and so
holds whatever the platform issues.  `Dated` (nothing ends after the last lease
signed) gives `StopsWithoutLeases`.

A newer lease may well end earlier: `Apply` reads the expiry without comparing
it, so a short lease that the platform pushes cuts the Edge's time, as it should,
and the heartbeat after a long one for an offline Edge cuts that down to
`leaseTTL`.  What `KillSwitch` promises is that nothing else does.  This part is
not local to `Apply`, it goes through the cloud's answer, and the invariant has
three clauses for it, under `orderly`: `Reported` (a heartbeat on its way tells at
most the Edge's counter), `Answered` (a renewal on its way has at most the next
counter, and if it is newer than the Edge's it ends no earlier), `Timely` (nothing
ends later than a renewal that is signed now).  The wrap only makes counters
smaller, and smaller counters are refused; after the greatest one so is
everything, which is `NothingAfterTheLast`.

**Enrollment.** `OneCertPerCode` is not inductive, because a code that is still
unused may yield a certificate next: `Budget` counts it with those already
admitted.  `Verified` (only a good CSR gets past the first step, and nobody has a
tenant before `Consume`) carries `NeverBurntByCSR` and the refinement, whose core
is that `Consume` admits exactly when the abstract code is good, and that what
GC deletes had ceased to be good.

**Edge client.** What ties the places a message can be in together is
`Numbered`: what is read, in the channel, in the hand and in the stream are
consecutive numbers from 1 on.  `Ending` says what each label of `recvLoop` means
for the stream's end, the cause and the channel: from "fail" on the cause is
known and the stream has nothing more to yield, and `lastErr` is set before
"close" is reached.  Both properties and the refinement follow; the mapping
counts what is kept on the way to the reader.

**Duplex.** `KeepsToClient` shows that each step of the cloud is a step that
`EdgeClient` allows its environment (a `CloudSend`, a `CloudRecv` or a stutter).
The one that needs an argument is the send, which must keep to the bound
`MaxDown`: `Budget` counts the goroutines that have started to send.
`SlackIsEnough` is then arithmetic over `Numbered`: if the cloud waits, both
queues and the hand are full.
`NoCircle` follows the chain of waiting from one end to the other: a send waits for
its lock, whose holder is inside `Send` (`EdgeHeld`, `CloudHeld`); that `Send` waits
for room; with the stream open and no room, `recvLoop` or the handler has something
to take, or waits for what is free to go on.  The chain stops at a reader that is
nobody's caller: that is where `Reader \notin Senders` is needed, and
`duplex_freeze` shows what happens without it.

**Credentials.** The invariant says of every certificate, on its way or in use,
that its code is spent, its tenant the code's, its use the client's and its
beginning at least `Grace` ago (`EdgeGood`), and that no two of them share a code;
of an enrolled Edge that the CA it trusts is the one that signed for it, and, if
that is the CA in force, the very same (`Holding`); and of the server that its
certificate is of the CA in force (`ServerGood`).  That beginning is what lets an
Edge with a late clock in.

**Demo cloud.** `AtLineEnd`: what was handed over ends where the last executed
command did, and where a line does unless standard input has ended.  That a
buffer may end in the middle of a line is harmless because `NextLine` is the
first newline after it, two halves on.  `TypeOK` does not need that lines are
written in one piece: `InReach` (handed over, read, written, in this order) holds
wherever the reader stands (`NewlineAhead`).

**Development PKI.** `Progress` says which files are those of the current run:
all that the script has passed, and after a complete run all six.  `Held` says
which parts an end has at each label, and that its key is its certificate's;
`Calm` that an end which was started on a complete set, and was not overtaken by
a new run while it loaded, has the files of that run, so that two such ends have
one CA.  `Present` (no file goes away) is why no server turns to plain text.

**Model-checked only.** Liveness (`BrokenStreamUnrouted`,
`StableStreamGetsRoute`, `DeliverReturns`, `AcceptedIsConsumed`,
`RevocationWins`, `EndIsSeen`, `SendsEnd`, `RecvNeverFreezes`, `CallsReturn`,
`CommandsAreRead`, `TextIsExecuted`) is beyond TLAPS, which has no rules for
fairness and `ENABLED` here.

## 5. Findings

**A late frame takes the route of a live session away** (`registry_late_frame`).
The comment at `internal/server/cloudlink.go:222-224` says that `deregister`
deletes only an entry that still points to its conn, because a newer
reconnection may have replaced the mapping "y en ese caso no debe tocarse para
no dejar la sesión viva sin ruta (H1)".  But `register` runs on *every* frame
(line 170).  A frame of the old stream that is still in its buffer when the Edge
has reconnected is handled after the first frame of the new stream and points
the entry *back* to the old conn; when the old stream then ends, `deregister`
rightly sees its own conn and deletes the entry.  The session is alive on the
new stream and has no route: `Push` and the kill-switch `PushLease` fail with
"sesión desconocida".  `UnroutedOnlyAfterTakeover` (proved) says that this is
the only way, and `StableStreamGetsRoute` that the next frame of the new stream
heals it.

**The handler's Recv loop can freeze** (`duplex_freeze`).  The comment at
`internal/server/cloudlink.go:175-176` says: "el Recv de esta sesión nunca se
congela por un consumidor lento u otra sesión (H2)".  `deliver` keeps its part
(`DeliverReturns`), but `maybeRenewLease`, two lines before, sends the renewed
lease from the same loop (line 199) with a send that waits for the stream's flow
control.  If the goroutine that reads `Received` at the Edge is also one that
sends, the Edge can wait in `Send` for the handler to read and the handler for
the Edge, for ever, and with it every session of that stream.
`duplex_liveness` shows that a reader of its own is enough, and `SlackIsEnough`
(proved) how many unread messages are harmless without one.

## 6. Observations

Met while modelling; no run is about them.

* `tailCommands` (`cmd/democloud/main.go:107`): at the end of the file
  `ReadString` returns what it has of a line together with `io.EOF`, and the loop
  goes on without it.  A line that is appended by two writes loses its first
  half, and the second is executed as a command.  With "tail" in `Split`, TLC
  finds `NewLinesWhole` violated.
* `scripts/gen-dev-certs.sh:7` calls itself idempotent; each run makes a new CA
  in place, so an end that has loaded the files of an earlier run and one that
  starts on the new ones do not trust each other until the first is started
  again.  `QuietStartsConnect` is about ends that load the same, last, run.
* `IssueServerCert` gives the server the life of an Edge's certificate: a server
  that is not restarted within it can no longer be connected to
  (`EnrolledConnects` has that life in its premise).
* In the demo the end of standard input ends the server, also with no command
  (`AtClose`).

## 7. Not modelled, and why

* *Server wiring and the rest of the binary*: options, keepalive and the
  registration of services are run once before anything else runs and keep no
  state; what they choose appears as constants (`InboxCap`, `LeaseRenewal`).
* *Transport limits*: numbers handed to gRPC.  What they lead to, a stream that
  is cut at any moment, is in the models.
* *Generated code and protos*: two thirds of the repository's lines, produced by
  buf from the contract, with no decision of this program in it.
* The bytes of certificates, CSRs, signatures and envelopes are library code; the
  models keep whether they verify.
* That inboxes and forwarders are never freed (`documentations/deuda.md` D-3,
  D-4) is growth without bound by design: the models show that it does no harm
  to order or to other sessions, not that it is small.
* A `Push` of the demo that waits for an Edge that does not read holds up every
  later command: that is how the demo is, and `TextIsExecuted` assumes it away.

## 8. What is left

1. `Lease` over `SessionRegistry`: a revocation that is pushed while the session
   moves between streams; what the caller of `PushLease` may conclude from nil.
2. Larger instances of `registry_lifecycle` (two sessions), which today take too
   long with liveness.
