--------------------------- MODULE CredentialsProofs ---------------------------
(***************************************************************************)
(* Proofs about Credentials, for any Edges, codes, lives, clocks and       *)
(* numbers of restarts.                                                    *)
(***************************************************************************)
EXTENDS Credentials, TLAPS

USE CredentialsConstants

(* What every certificate that an Edge was ever given is like, at time t,  *)
(* when the codes paid have been used and the server has been started n    *)
(* times.                                                                  *)
EdgeGood(x, t, paid, n) ==
    /\ x \in EdgeLeaf
    /\ x.use = {"client"} /\ x.from <= t - Grace
    /\ x.code \in paid /\ x.tenant = TenantOf[x.code]
    /\ x.by <= n

ServerGood ==
    /\ ca.from <= now - Grace /\ server.from <= now - Grace
    /\ ca.id <= starts /\ server.by = ca.id /\ server.use = {"server"}

Asking == \A e \in Edges : call[e] = "asked" => asked[e] \in Codes

Answers == \A e \in Edges : answer[e] # NoCert =>
    EdgeGood(answer[e], now, spent, starts) /\ answer[e].by = ca.id

Holding == \A e \in Edges : enrolled[e] # NoCert =>
    /\ EdgeGood(enrolled[e].cert, now, spent, starts)
    /\ enrolled[e].cert.by = enrolled[e].trusted.id
    /\ enrolled[e].cert.by = ca.id => enrolled[e].trusted = ca

IInv == /\ TypeOK /\ ServerGood /\ Asking /\ Answers /\ Holding
        /\ StreamsAreEdges /\ OneCertificatePerCode

LEMMA GoodLater ==
  ASSUME NEW x, NEW t \in Int, NEW u \in Int, t <= u, NEW p, NEW q, p \subseteq q,
         NEW m \in Nat, NEW n \in Nat, m <= n, EdgeGood(x, t, p, m)
  PROVE  EdgeGood(x, u, q, n)
<1>1. x.from \in Int /\ x.by \in Nat
  BY DEF EdgeGood, EdgeLeaf
<1> QED
  BY <1>1 DEF EdgeGood

(* Held shrinks in all steps but one. *)
LEMMA HeldShrinks ==
  ASSUME OneCertificatePerCode, Held' \subseteq Held \cup {NoCert}
  PROVE  OneCertificatePerCode'
BY DEF OneCertificatePerCode

(* What the restarts and calls that fail do to the calls. *)
LEMMA HeldByCalls ==
  ASSUME TypeOK,
         \A e \in Edges : answer'[e] \in {answer[e], NoCert}, UNCHANGED enrolled
  PROVE  Held' \subseteq Held \cup {NoCert}
BY DEF Held

-----------------------------------------------------------------------------

LEMMA IInit == Init => IInv
<1> SUFFICES ASSUME Init PROVE IInv
  OBVIOUS
<1>1. ca \in Authority /\ server \in ServerLeaf
  BY DEF Init, NewDevCA, IssueServerCert, From, Authority, ServerLeaf, Uses
<1>2. TypeOK
  BY <1>1 DEF Init, TypeOK
<1>3. ServerGood
  BY DEF Init, NewDevCA, IssueServerCert, From, ServerGood
<1>4. Held \subseteq {NoCert}
  BY DEF Init, Held
<1>5. OneCertificatePerCode
  BY <1>4 DEF OneCertificatePerCode
<1>6. Asking /\ Answers /\ Holding /\ StreamsAreEdges
  BY DEF Init, Asking, Answers, Holding, StreamsAreEdges
<1> QED
  BY <1>2, <1>3, <1>5, <1>6 DEF IInv

LEMMA TickKeeps ==
  ASSUME IInv, Tick
  PROVE  IInv'
<1> USE DEF serverVars, enrollVars
<1>1. now \in Int /\ now' = now + 1 /\ now' \in 0..MaxTime /\ starts \in Nat
  BY DEF IInv, TypeOK, Tick
<1>2. TypeOK' /\ Asking'
  BY <1>1 DEF IInv, TypeOK, Asking, Tick
<1>3. ServerGood'
  <2>1. ca.from \in Int /\ server.from \in Int
    BY DEF IInv, TypeOK, Authority, ServerLeaf
  <2> QED
    BY <1>1, <2>1 DEF IInv, ServerGood, Tick
<1>4. \A x : EdgeGood(x, now, spent, starts) => EdgeGood(x, now', spent, starts)
  BY <1>1, GoodLater
<1>5. Answers' /\ Holding'
  BY <1>4 DEF IInv, Answers, Holding, Tick
<1>6. StreamsAreEdges' /\ OneCertificatePerCode'
  BY DEF IInv, StreamsAreEdges, OneCertificatePerCode, Held, Tick
<1> QED
  BY <1>2, <1>3, <1>5, <1>6 DEF IInv

LEMMA RestartKeeps ==
  ASSUME IInv, Restart
  PROVE  IInv'
<1>1. now \in Int /\ starts \in Nat /\ starts' = starts + 1 /\ starts' \in 1..MaxStarts
  BY DEF IInv, TypeOK, Restart
<1>2. ca' \in Authority
  BY <1>1 DEF IInv, TypeOK, Restart, NewDevCA, From, Authority
<1>3. ca'.from <= now - Grace /\ ca'.id <= starts' /\ (ca' = ca \/ ca'.id = starts')
  <2>1. CASE ca' = ca
    <3>1. ca.id \in Nat
      BY DEF IInv, TypeOK, Authority
    <3> QED
      BY <1>1, <2>1, <3>1 DEF IInv, ServerGood
  <2>2. CASE ca' = NewDevCA(starts + 1)
    BY <1>1, <2>2 DEF NewDevCA, From
  <2> QED
    BY <2>1, <2>2 DEF Restart
<1>4. /\ server' \in ServerLeaf /\ server'.by = ca'.id
      /\ server'.use = {"server"} /\ server'.from <= now - Grace
  <2>1. ca'.id \in Nat
    BY <1>2 DEF Authority
  <2>2. server' = IssueServerCert(ca'.id)
    BY DEF Restart
  <2> QED
    BY <1>1, <2>1, <2>2 DEF IssueServerCert, From, ServerLeaf, Uses
<1>5. TypeOK'
  BY <1>1, <1>2, <1>4 DEF IInv, TypeOK, Restart
<1>6. ServerGood'
  BY <1>3, <1>4 DEF ServerGood, Restart
<1>7. Asking' /\ Answers' /\ StreamsAreEdges'
  BY DEF Asking, Answers, StreamsAreEdges, Restart
<1>8. Holding'
  <2> SUFFICES ASSUME NEW e \in Edges, enrolled[e] # NoCert
               PROVE  /\ EdgeGood(enrolled[e].cert, now, spent, starts')
                      /\ enrolled[e].cert.by = enrolled[e].trusted.id
                      /\ enrolled[e].cert.by = ca'.id => enrolled[e].trusted = ca'
    BY DEF Holding, Restart
  <2>1. EdgeGood(enrolled[e].cert, now, spent, starts)
    BY DEF IInv, Holding
  <2>2. EdgeGood(enrolled[e].cert, now, spent, starts')
    BY <1>1, <2>1, GoodLater
  <2>3. enrolled[e].cert.by <= starts /\ enrolled[e].cert.by \in Nat
    BY <2>1 DEF EdgeGood, EdgeLeaf
  <2>4. enrolled[e].cert.by = starts' => FALSE
    BY <1>1, <2>3
  <2> QED
    BY <1>3, <2>2, <2>4 DEF IInv, Holding
<1>9. OneCertificatePerCode'
  <2>1. \A e \in Edges : answer'[e] \in {answer[e], NoCert}
    BY DEF Restart
  <2> QED
    BY <2>1, HeldByCalls, HeldShrinks DEF IInv, Restart
<1> QED
  BY <1>5, <1>6, <1>7, <1>8, <1>9 DEF IInv

(* A step that leaves the server, the clock and the streams alone keeps    *)
(* what is said of them.                                                   *)
LEMMA ServerAlone ==
  ASSUME IInv, UNCHANGED <<now, ca, server, starts, spent>>
  PROVE  /\ ServerGood' /\ (UNCHANGED streams => StreamsAreEdges')
         /\ (UNCHANGED enrolled => Holding')
BY DEF IInv, ServerGood, StreamsAreEdges, Holding

LEMMA AskKeeps ==
  ASSUME IInv, NEW e \in Edges, NEW c \in Codes, Ask(e, c)
  PROVE  IInv'
<1> USE DEF serverVars
<1>1. TypeOK'
  BY DEF IInv, TypeOK, Ask
<1>2. Asking'
  BY DEF IInv, TypeOK, Asking, Ask
<1>3. Answers' /\ OneCertificatePerCode'
  BY DEF IInv, Answers, OneCertificatePerCode, Held, Ask
<1> QED
  BY <1>1, <1>2, <1>3, ServerAlone DEF IInv, Ask

LEMMA CallFailsKeeps ==
  ASSUME IInv, NEW e \in Edges, CallFails(e)
  PROVE  IInv'
<1> USE DEF serverVars
<1>1. TypeOK'
  BY DEF IInv, TypeOK, CallFails
<1>2. Asking'
  BY DEF IInv, TypeOK, Asking, CallFails
<1>3. \A d \in Edges : answer'[d] \in {answer[d], NoCert}
  BY DEF IInv, TypeOK, CallFails
<1>4. Answers'
  BY <1>3 DEF IInv, Answers, CallFails
<1>5. OneCertificatePerCode'
  BY <1>3, HeldByCalls, HeldShrinks DEF IInv, CallFails
<1> QED
  BY <1>1, <1>2, <1>4, <1>5, ServerAlone DEF IInv, CallFails

LEMMA AnsweredKeeps ==
  ASSUME IInv, NEW e \in Edges, Answered(e)
  PROVE  IInv'
<1> USE DEF serverVars
<1>1. /\ \A d \in Edges : answer'[d] = IF d = e THEN NoCert ELSE answer[d]
      /\ \A d \in Edges : call'[d] = IF d = e THEN "idle" ELSE call[d]
      /\ \A d \in Edges : asked'[d] = IF d = e THEN NoCert ELSE asked[d]
  BY DEF IInv, TypeOK, Answered
<1>2. \A d \in Edges : enrolled'[d] =
        IF d = e /\ answer[e] # NoCert THEN [cert |-> answer[e], trusted |-> ca]
                                       ELSE enrolled[d]
  BY DEF IInv, TypeOK, Answered
<1>3. answer[e] # NoCert => [cert |-> answer[e], trusted |-> ca] \in Enrolled
  BY DEF IInv, TypeOK, Enrolled
<1>4. TypeOK'
  <2>1. enrolled' \in [Edges -> Enrolled \cup {NoCert}]
    BY <1>3 DEF IInv, TypeOK, Answered
  <2> QED
    BY <2>1 DEF IInv, TypeOK, Answered
<1>5. Asking' /\ Answers'
  BY <1>1 DEF IInv, Asking, Answers, Answered
<1>6. Holding'
  <2> SUFFICES ASSUME NEW d \in Edges, enrolled'[d] # NoCert
               PROVE  /\ EdgeGood(enrolled'[d].cert, now, spent, starts)
                      /\ enrolled'[d].cert.by = enrolled'[d].trusted.id
                      /\ enrolled'[d].cert.by = ca.id => enrolled'[d].trusted = ca
    BY DEF Holding, Answered
  <2>1. CASE d = e /\ answer[e] # NoCert
    BY <1>2, <2>1 DEF IInv, Answers
  <2>2. CASE ~(d = e /\ answer[e] # NoCert)
    BY <1>2, <2>2 DEF IInv, Holding
  <2> QED
    BY <2>1, <2>2
<1>7. OneCertificatePerCode'
  <2>1. ASSUME NEW x \in Held' PROVE x \in Held \cup {NoCert}
    <3>1. CASE \E d \in Edges : x = answer'[d]
      BY <1>1, <3>1 DEF Held
    <3>2. CASE \E d \in Edges : enrolled'[d] # NoCert /\ x = enrolled'[d].cert
      <4>1. PICK d \in Edges : enrolled'[d] # NoCert /\ x = enrolled'[d].cert
        BY <3>2
      <4>2. CASE d = e /\ answer[e] # NoCert
        <5>1. x = answer[e]
          BY <1>2, <4>1, <4>2
        <5> QED
          BY <5>1 DEF Held
      <4>3. CASE ~(d = e /\ answer[e] # NoCert)
        BY <1>2, <4>1, <4>3 DEF Held
      <4> QED
        BY <4>2, <4>3
    <3> QED
      BY <2>1, <3>1, <3>2 DEF Held
  <2> QED
    BY <2>1, HeldShrinks DEF IInv
<1>8. ServerGood' /\ StreamsAreEdges'
  BY ServerAlone DEF Answered
<1> QED
  BY <1>4, <1>5, <1>6, <1>7, <1>8 DEF IInv

LEMMA EnrollKeeps ==
  ASSUME IInv, NEW e \in Edges, NEW wanted, Enroll(e, wanted)
  PROVE  IInv'
<1> USE DEF serverVars
<1> DEFINE new == SignCSR(asked[e], wanted)
<1>0. asked[e] \in Codes /\ now \in Int /\ starts \in Nat /\ ca.id \in Nat
  BY DEF IInv, TypeOK, Asking, Enroll, Authority
<1>1. /\ new \in EdgeLeaf /\ new.code = asked[e] /\ new.by = ca.id
      /\ EdgeGood(new, now, spent', starts)
  <2>1. spent' = spent \cup {asked[e]} /\ ca.id <= starts
    BY DEF IInv, ServerGood, Enroll, Used
  <2>2. new = [by |-> ca.id, use |-> {"client"}, from |-> now - Grace,
               until |-> now + CertTTL, tenant |-> TenantOf[asked[e]], code |-> asked[e]]
    BY DEF SignCSR, ClientUse, From, Organization
  <2>3. new \in EdgeLeaf
    BY <1>0, <2>2 DEF EdgeLeaf, Uses
  <2> HIDE DEF new
  <2> QED
    BY <1>0, <2>1, <2>2, <2>3 DEF EdgeGood
<1> HIDE DEF new
<1>2. \A d \in Edges : answer'[d] = IF d # e THEN answer[d]
                                    ELSE IF asked[e] \in spent THEN NoCert ELSE new
  BY DEF IInv, TypeOK, Enroll, new
<1>3. TypeOK'
  <2>1. answer' \in [Edges -> EdgeLeaf \cup {NoCert}]
    BY <1>1 DEF IInv, TypeOK, Enroll, new
  <2>2. spent' \subseteq Codes
    BY <1>0 DEF IInv, TypeOK, Enroll, Used
  <2> QED
    BY <2>1, <2>2 DEF IInv, TypeOK, Enroll
<1>4. Asking'
  BY DEF IInv, TypeOK, Asking, Enroll
<1>5. \A x : EdgeGood(x, now, spent, starts) => EdgeGood(x, now, spent', starts)
  BY <1>0, GoodLater DEF Enroll, Used
<1>6. Answers'
  BY <1>1, <1>2, <1>5 DEF IInv, Answers, Enroll
<1>7. Holding'
  BY <1>5 DEF IInv, Holding, Enroll
<1>8. ServerGood' /\ StreamsAreEdges'
  BY DEF IInv, ServerGood, StreamsAreEdges, Enroll, Used
<1>9. OneCertificatePerCode'
  <2>1. Held' \subseteq Held \cup {NoCert} \cup {IF asked[e] \in spent THEN NoCert ELSE new}
    BY <1>2 DEF Held, Enroll
  <2>2. \A x \in Held \ {NoCert} : x.code \in spent
    BY DEF IInv, Answers, Holding, EdgeGood, Held
  <2>3. CASE asked[e] \in spent
    BY <2>1, <2>3, HeldShrinks DEF IInv
  <2>4. CASE asked[e] \notin spent
    BY <1>1, <2>1, <2>2, <2>4 DEF IInv, OneCertificatePerCode
  <2> QED
    BY <2>3, <2>4
<1> QED
  BY <1>3, <1>4, <1>6, <1>7, <1>8, <1>9 DEF IInv

LEMMA DialKeeps ==
  ASSUME IInv, NEW e \in Edges, enrolled[e] # NoCert,
         NEW c \in Presented(e), NEW l \in Presented(e), Dial(e, c, l)
  PROVE  IInv'
<1> USE DEF serverVars, enrollVars
<1>1. /\ enrolled[e].cert.use = {"client"} /\ server.use = {"server"}
      /\ "client" \in c.use /\ "server" \in l.use
  BY DEF IInv, Holding, EdgeGood, ServerGood, Dial, Handshake, Verifies
<1>2. c = enrolled[e].cert /\ l = server
  BY <1>1 DEF Presented
<1>3. EdgeGood(c, now, spent, starts) /\ c.by = ca.id
  BY <1>2 DEF IInv, Holding, Dial, Handshake, Verifies
<1>4. server \in ServerLeaf /\ server.code = NoCert
  BY DEF IInv, TypeOK, ServerLeaf
<1>5. streams' = streams \cup {[client |-> c, server |-> server]}
  BY <1>2 DEF Dial
<1>6. TypeOK'
  BY <1>3, <1>4, <1>5 DEF IInv, TypeOK, EdgeGood, Dial
<1>7. StreamsAreEdges'
  BY <1>3, <1>4, <1>5 DEF IInv, StreamsAreEdges, EdgeGood, Dial
<1>8. Asking' /\ Answers' /\ OneCertificatePerCode'
  BY DEF IInv, Asking, Answers, OneCertificatePerCode, Held, Dial
<1> QED
  BY <1>6, <1>7, <1>8, ServerAlone DEF IInv, Dial

LEMMA RestKeeps ==
  ASSUME IInv, Close \/ UNCHANGED vars
  PROVE  IInv'
<1> USE DEF serverVars, enrollVars, vars
<1>1. streams' \subseteq streams
  BY DEF Close
<1>2. UNCHANGED <<now, ca, server, starts, spent, call, asked, answer, enrolled>>
  BY DEF Close
<1>3. TypeOK' /\ Asking' /\ Answers' /\ OneCertificatePerCode'
  BY <1>1, <1>2 DEF IInv, TypeOK, Asking, Answers, OneCertificatePerCode, Held
<1>4. StreamsAreEdges'
  BY <1>1, <1>2 DEF IInv, StreamsAreEdges
<1> QED
  BY <1>2, <1>3, <1>4, ServerAlone DEF IInv

LEMMA Inductive == Spec => []IInv
<1>1. IInv /\ [Next]_vars => IInv'
  BY TickKeeps, RestartKeeps, AskKeeps, CallFailsKeeps, AnsweredKeeps,
     EnrollKeeps, DialKeeps, RestKeeps DEF Next, EnrollClient
<1> QED
  BY <1>1, IInit, PTL DEF Spec

-----------------------------------------------------------------------------
(* Every certificate, call and stream is well typed. *)
THEOREM TypeCorrect == Spec => []TypeOK
<1>1. IInv => TypeOK
  BY DEF IInv
<1> QED
  BY <1>1, Inductive, PTL

(* A stream is one between an Edge that paid with a code, for the tenant   *)
(* of that code, and a server of the CA in force.                          *)
THEOREM OnlyEdgesConnect == Spec => []StreamsAreEdges
<1>1. IInv => StreamsAreEdges
  BY DEF IInv
<1> QED
  BY <1>1, Inductive, PTL

(* No code pays for two certificates, whatever answers are lost.           *)
THEOREM CodesPayOnce == Spec => []OneCertificatePerCode
<1>1. IInv => OneCertificatePerCode
  BY DEF IInv
<1> QED
  BY <1>1, Inductive, PTL

(* An enrolled Edge can connect until something expires or the CA is       *)
(* replaced, whatever the lives of certificates, if its clock is no        *)
(* further behind than certificates are dated back.                        *)
THEOREM EnrolledEdgesConnect == Spec => []EnrolledConnects
<1>1. IInv => EnrolledConnects
  <2> SUFFICES ASSUME IInv, NEW e \in Edges, enrolled[e] # NoCert,
                      enrolled[e].cert.by = ca.id, Lag[e] <= Grace,
                      \A t \in {now, EdgeClock(e)}, x \in {ca, server, enrolled[e].cert} :
                          t <= x.until
               PROVE  Handshake(e, enrolled[e].cert, server)
    BY DEF EnrolledConnects
  <2>1. /\ now \in Int /\ Lag[e] \in Int /\ ca.from \in Int /\ server.from \in Int
        /\ enrolled[e].cert.from \in Int
    BY DEF IInv, TypeOK, Authority, ServerLeaf, Holding, EdgeGood, EdgeLeaf
  <2>2. ca.from <= now - Grace /\ server.from <= now - Grace
    BY DEF IInv, ServerGood
  <2>3. enrolled[e].cert.from <= now - Grace /\ enrolled[e].cert.use = {"client"}
    BY DEF IInv, Holding, EdgeGood
  <2>4. \A x \in {ca, server} : Between(x, EdgeClock(e))
    BY <2>1, <2>2 DEF Between, EdgeClock
  <2>5. \A x \in {ca, enrolled[e].cert} : Between(x, now)
    BY <2>1, <2>2, <2>3 DEF Between
  <2>6. enrolled[e].trusted = ca /\ server.by = ca.id /\ server.use = {"server"}
    BY DEF IInv, Holding, ServerGood
  <2> QED
    BY <2>3, <2>4, <2>5, <2>6 DEF Handshake, Verifies
<1> QED
  BY <1>1, Inductive, PTL

=============================================================================
