----------------------------- MODULE Credentials -----------------------------
(***************************************************************************)
(* Who may open a stream: the CA (src/internal/enroll/ca.go), the Edge's   *)
(* enrollment (client.go there) and mutual TLS with what it yields         *)
(* (src/mtls/mtls.go), over the clocks of both ends, restarts of the       *)
(* server and answers that are lost.                                       *)
(*                                                                         *)
(* A certificate is what is checked of it: who signed it, what it may be   *)
(* used for, its dates and its tenant.  Keys are fresh in every call and   *)
(* never shared, so that holding a certificate stands for holding its key. *)
(* Codes are the one-time codes of Enrollment; time is the server's.       *)
(***************************************************************************)
EXTENDS Integers

CONSTANTS
    Edges, Codes, Tenants,
    TenantOf,    \* the tenant each code was given out for
    Lag,         \* how far the clock of each Edge is behind the server's
    Grace,       \* how far certificates are dated back: a minute
    CATTL, CertTTL,  \* lives of a CA and of what it signs
    NoCert,      \* no certificate yet
    MaxTime, MaxStarts   \* bounds: the clock, and starts of the server

(* A CA has the number of the start that made it. *)
Authority == [id : Nat, from : Int, until : Int]
Uses == {"client", "server"}
EdgeLeaf == [by : Nat, use : SUBSET Uses, from : Int, until : Int,
             tenant : Tenants, code : Codes]
ServerLeaf == [by : Nat, use : SUBSET Uses, from : Int, until : Int,
               tenant : {NoCert}, code : {NoCert}]
Enrolled == [cert : EdgeLeaf, trusted : Authority]

ASSUME CredentialsConstants ==
    /\ TenantOf \in [Codes -> Tenants] /\ Lag \in [Edges -> Int]
    /\ NoCert \notin Codes \cup Tenants /\ NoCert \notin EdgeLeaf \cup Enrolled
    /\ Grace \in Nat /\ CATTL \in Nat \ {0} /\ CertTTL \in Nat \ {0}
    /\ MaxTime \in Nat /\ MaxStarts \in Nat \ {0}

VARIABLES
    now,          \* the server's clock
    ca, server,   \* the server's CA and its own certificate
    starts,       \* how often it has been started
    spent,        \* codes that are used up
    call, asked,  \* EnrollClient of each Edge: its label, and its code
    answer,       \* what the server has answered to it
    enrolled,     \* its last result: certificate and CA
    streams       \* open streams: the certificates of their two ends

serverVars == <<ca, server, starts>>
enrollVars == <<call, asked, answer>>
vars == <<now, serverVars, spent, enrollVars, enrolled, streams>>

TypeOK ==
    /\ now \in 0..MaxTime /\ starts \in 1..MaxStarts
    /\ ca \in Authority /\ server \in ServerLeaf
    /\ spent \subseteq Codes
    /\ call \in [Edges -> {"idle", "asked", "answered"}]
    /\ asked \in [Edges -> Codes \cup {NoCert}]
    /\ answer \in [Edges -> EdgeLeaf \cup {NoCert}]
    /\ enrolled \in [Edges -> Enrolled \cup {NoCert}]
    /\ streams \subseteq [client : EdgeLeaf, server : ServerLeaf]

-----------------------------------------------------------------------------
(* The CA.                                                                 *)

(* Mutant: a certificate is good from the moment it is signed, not before. *)
From_Now == now
From == now - Grace

NewDevCA(n) == [id |-> n, from |-> From, until |-> now + CATTL]

(* Mutant of ClientUse: no extended key usage, which allows any. *)
ClientUse_Any == Uses
ClientUse == {"client"}

(* The tenant that the service gave overwrites what the CSR asks for.      *)
Organization(tenant, wanted) == tenant

SignCSR(code, wanted) ==
    [by |-> ca.id, use |-> ClientUse, from |-> From, until |-> now + CertTTL,
     tenant |-> Organization(TenantOf[code], wanted), code |-> code]

IssueServerCert(id) ==
    [by |-> id, use |-> {"server"}, from |-> From, until |-> now + CertTTL,
     tenant |-> NoCert, code |-> NoCert]

-----------------------------------------------------------------------------
(* The server.                                                             *)

Init ==
    /\ now = 0 /\ starts = 1
    /\ ca = NewDevCA(1) /\ server = IssueServerCert(1)
    /\ spent = {}
    /\ call = [e \in Edges |-> "idle"]
    /\ asked = [e \in Edges |-> NoCert] /\ answer = [e \in Edges |-> NoCert]
    /\ enrolled = [e \in Edges |-> NoCert]
    /\ streams = {}

Tick == now < MaxTime /\ now' = now + 1
        /\ UNCHANGED <<serverVars, spent, enrollVars, enrolled, streams>>

(* A restart cuts streams and calls.  The store of codes starts empty:     *)
(* codes that were not used are added again, those that were are not.      *)
Restart ==
    /\ starts < MaxStarts
    /\ starts' = starts + 1
    /\ ca' \in {ca, NewDevCA(starts + 1)}    \* LoadCAFromPEM, or a new one
    /\ server' = IssueServerCert(ca'.id)
    /\ streams' = {}
    /\ call' = [e \in Edges |-> "idle"]
    /\ answer' = [e \in Edges |-> NoCert]
    /\ asked' = [e \in Edges |-> NoCert]
    /\ UNCHANGED <<now, spent, enrolled>>

(* Mutant: a code is never used up. *)
Used_Never(c) == spent
Used(c) == spent \cup {c}

(* The service takes each code once.  The CSR may name any organization,   *)
(* or none.                                                                *)
Enroll(e, wanted) ==
    /\ call[e] = "asked"
    /\ call' = [call EXCEPT ![e] = "answered"]
    /\ spent' = Used(asked[e])
    /\ answer' = [answer EXCEPT ![e] = IF asked[e] \in spent THEN NoCert
                                       ELSE SignCSR(asked[e], wanted)]
    /\ UNCHANGED <<now, serverVars, asked, enrolled, streams>>

-----------------------------------------------------------------------------
(* EnrollClient, on Edge e.                                                *)

Ask(e, c) ==
    /\ call[e] = "idle"
    /\ call' = [call EXCEPT ![e] = "asked"]
    /\ asked' = [asked EXCEPT ![e] = c]
    /\ UNCHANGED <<now, serverVars, spent, answer, enrolled, streams>>

(* The certificate with the CA it came with; after an error the result of  *)
(* an earlier call is kept.                                                *)
Answered(e) ==
    /\ call[e] = "answered"
    /\ enrolled' = IF answer[e] = NoCert THEN enrolled
                   ELSE [enrolled EXCEPT ![e] = [cert |-> answer[e], trusted |-> ca]]
    /\ call' = [call EXCEPT ![e] = "idle"]
    /\ answer' = [answer EXCEPT ![e] = NoCert]
    /\ asked' = [asked EXCEPT ![e] = NoCert]
    /\ UNCHANGED <<now, serverVars, spent, streams>>

(* The call fails before or after the server has dealt with it. *)
CallFails(e) ==
    /\ call[e] # "idle"
    /\ call' = [call EXCEPT ![e] = "idle"]
    /\ answer' = [answer EXCEPT ![e] = NoCert]
    /\ asked' = [asked EXCEPT ![e] = NoCert]
    /\ UNCHANGED <<now, serverVars, spent, enrolled, streams>>

EnrollClient(e) == Answered(e) \/ CallFails(e) \/ \E c \in Codes : Ask(e, c)

-----------------------------------------------------------------------------
(* mTLS.                                                                   *)

Between(x, t) == x.from <= t /\ t <= x.until

(* crypto/x509 checks the dates of the root as well as the leaf's. *)
Verifies(leaf, root, use, t) ==
    leaf.by = root.id /\ use \in leaf.use /\ Between(leaf, t) /\ Between(root, t)

EdgeClock(e) == now - Lag[e]

(* ClientCreds: the Edge verifies what listens at the address.             *)
(* ServerCreds: RequireAndVerifyClientCert.                                *)
Handshake(e, client, listener) ==
    /\ Verifies(listener, enrolled[e].trusted, "server", EdgeClock(e))
    /\ Verifies(client, ca, "client", now)

(* What may be presented, by either end: the certificates it was given, or *)
(* by a mistake in the wiring that of the other end.                       *)
Presented(e) == {server, enrolled[e].cert}

Dial(e, client, listener) ==
    /\ Handshake(e, client, listener)
    /\ streams' = streams \cup {[client |-> client, server |-> listener]}
    /\ UNCHANGED <<now, serverVars, spent, enrollVars, enrolled>>

(* A stream lives on when its certificates expire. *)
Close == \E s \in streams :
    /\ streams' = streams \ {s}
    /\ UNCHANGED <<now, serverVars, spent, enrollVars, enrolled>>

Next ==
    \/ Tick \/ Restart \/ Close
    \/ \E e \in Edges :
         \/ EnrollClient(e)
         \/ \E wanted \in Tenants \cup {NoCert} : Enroll(e, wanted)
         \/ /\ enrolled[e] # NoCert
            /\ \E c, l \in Presented(e) : Dial(e, c, l)

Spec == Init /\ [][Next]_vars

-----------------------------------------------------------------------------
(* Properties.                                                             *)

(* A stream is one between an Edge that paid with a code, for the tenant   *)
(* that code was given out for, and a server with a certificate of the     *)
(* CA that is in force: neither end can take the other's part.             *)
StreamsAreEdges ==
    \A s \in streams :
        /\ s.client.code \in spent
        /\ s.client.tenant = TenantOf[s.client.code]
        /\ s.server.code = NoCert
        /\ s.client.by = ca.id

(* No two certificates in use were paid for with the same code, whatever   *)
(* answers were lost.                                                      *)
Held == {answer[e] : e \in Edges} \cup {enrolled[e].cert : e \in {d \in Edges : enrolled[d] # NoCert}}
OneCertificatePerCode ==
    \A x, y \in Held \ {NoCert} : x.code = y.code => x = y

(* "Un Edge enrolado conecta por mTLS" (ca.go:29-31): as long as the CA is *)
(* the one that enrolled it and nothing has expired, an Edge can connect,  *)
(* after restarts too, with a clock that is behind by no more than Grace.  *)
EnrolledConnects ==
    \A e \in Edges :
        (/\ enrolled[e] # NoCert
         /\ enrolled[e].cert.by = ca.id
         /\ Lag[e] <= Grace
         /\ \A t \in {now, EdgeClock(e)}, x \in {ca, server, enrolled[e].cert} :
                t <= x.until)
        => Handshake(e, enrolled[e].cert, server)

=============================================================================
