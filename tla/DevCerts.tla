------------------------------ MODULE DevCerts ------------------------------
(***************************************************************************)
(* The development PKI: scripts/gen-dev-certs.sh writes keys and           *)
(* certificates in place, one file after the other, and may be interrupted *)
(* or run again at any moment; the server (cmd/cloudlink/main.go) and an   *)
(* Edge load them when they start (mtls/mtls.go), file by file, and keep   *)
(* what they have loaded.                                                  *)
(*                                                                         *)
(* A key is the number of the run of the script that made it; a            *)
(* certificate is its key and the key of the CA that signed it.            *)
(***************************************************************************)
EXTENDS Naturals, Sequences

CONSTANTS
    None, Torn,    \* a file that is not there, or truncated and not yet written
    MaxRuns, MaxStarts  \* bounds: runs of the script, starts of each end

(* A key and a certificate, and no file is taken for one of them. *)
Key == 1..MaxRuns
Cert == Key \X Key
ASSUME DevCertsConstants ==
    /\ MaxRuns \in Nat /\ MaxStarts \in Nat
    /\ None # Torn
    /\ \A k \in Key : k \notin {None, Torn}
    /\ \A c \in Cert : c \notin {None, Torn}

Ends == {"server", "edge"}
Keys == {"ca.key", "server.key", "edge.key"}
Certs == {"ca.crt", "server.crt", "edge.crt"}
Files == Keys \cup Certs

VARIABLES
    file,        \* what each file holds
    run, step,   \* the script: number of the run, and how far it is (0: not running)
    torn,        \* whether the file of this step is truncated
    complete,    \* history: the last run that came to its end, or 0
    at, has,     \* each end: "down", what it loads next, "up" or "open"
    calm,        \* history: the complete run whose files an end loaded while
                 \* the script was not running, or 0
    loads        \* how often each end was started

scriptVars == <<file, run, step, torn, complete>>
endVars == <<at, has, loads>>
vars == <<scriptVars, endVars, calm>>

Parts == {"crt", "key", "ca"}

(* What a file holds that is there and whole. *)
Whole(f) == IF f \in Keys THEN Key ELSE Cert

(* The files of each end, and the part that each is for. *)
Paths == [server |-> [crt |-> "server.crt", key |-> "server.key", ca |-> "ca.crt"],
          edge   |-> [crt |-> "edge.crt", key |-> "edge.key", ca |-> "ca.crt"]]
NameOf(e, part) == Paths[e][part]

TypeOK ==
    /\ DOMAIN file = Files
    /\ \A f \in Files : file[f] \in {None, Torn} \cup Whole(f)
    /\ run \in 0..MaxRuns /\ complete \in 0..run
    /\ step \in 0..6 /\ torn \in BOOLEAN
    /\ at \in [Ends -> {"down", "up", "open"} \cup Parts]
    /\ at["edge"] # "open"
    /\ DOMAIN has = Ends
    /\ \A e \in Ends :
          /\ DOMAIN has[e] = Parts
          /\ \A p \in Parts : has[e][p] \in {None} \cup Whole(NameOf(e, p))
          /\ at[e] = "up" => has[e]["crt"][1] = has[e]["key"]
    /\ calm \in [Ends -> 0..MaxRuns]
    /\ loads \in [Ends -> 0..MaxStarts]

Init ==
    /\ file = [f \in Files |-> None]
    /\ run = 0 /\ step = 0 /\ torn = FALSE /\ complete = 0
    /\ at = [e \in Ends |-> "down"]
    /\ has = [e \in Ends |-> [p \in Parts |-> None]]
    /\ calm = [e \in Ends |-> 0]
    /\ loads = [e \in Ends |-> 0]

-----------------------------------------------------------------------------
(* gen-dev-certs.sh.                                                       *)

(* Mutant: the leaf certificates are signed before the CA is renewed. *)
Order_LeavesFirst == <<"server.key", "server.crt", "edge.key", "edge.crt", "ca.key", "ca.crt">>
Order == <<"ca.key", "ca.crt", "server.key", "server.crt", "edge.key", "edge.crt">>

(* A new key, or a certificate of the key file of the same name, signed    *)
(* with what ca.key holds.                                                 *)
Written(f) ==
    CASE f = "ca.crt"     -> <<file["ca.key"], file["ca.key"]>>
      [] f = "server.crt" -> <<file["server.key"], file["ca.key"]>>
      [] f = "edge.crt"   -> <<file["edge.key"], file["ca.key"]>>
      [] OTHER            -> run

(* Mutant of AtBegin: the script clears the directory first. *)
AtBegin_Clears == [f \in Files |-> None]
AtBegin == file

Begin ==
    /\ step = 0 /\ run < MaxRuns
    /\ run' = run + 1 /\ step' = 1 /\ torn' = FALSE
    /\ file' = AtBegin
    /\ calm' = [e \in Ends |-> IF at[e] \in Parts THEN 0 ELSE calm[e]]
    /\ UNCHANGED <<complete, endVars>>

Truncate ==
    /\ step # 0 /\ ~torn
    /\ file' = [file EXCEPT ![Order[step]] = Torn]
    /\ torn' = TRUE
    /\ UNCHANGED <<run, step, complete, endVars, calm>>

WriteFile ==
    /\ step # 0 /\ torn
    /\ file' = [file EXCEPT ![Order[step]] = Written(Order[step])]
    /\ torn' = FALSE
    /\ step' = IF step = Len(Order) THEN 0 ELSE step + 1
    /\ complete' = IF step = Len(Order) THEN run ELSE complete
    /\ UNCHANGED <<run, endVars, calm>>

Interrupt ==
    /\ step # 0
    /\ step' = 0
    /\ UNCHANGED <<file, run, torn, complete, endVars, calm>>

Script == Begin \/ Truncate \/ WriteFile \/ Interrupt

-----------------------------------------------------------------------------
(* The two ends.                                                           *)

GoTo(e, label) == at' = [at EXCEPT ![e] = label]

(* main looks for its three files: without one of them it serves without   *)
(* TLS.  An Edge has no such way out.                                      *)
Start(e) ==
    /\ at[e] = "down" /\ loads[e] < MaxStarts
    /\ loads' = [loads EXCEPT ![e] = @ + 1]
    /\ IF e = "server" /\ \E p \in Parts : file[NameOf(e, p)] = None
       THEN GoTo(e, "open") ELSE GoTo(e, "crt")
    /\ calm' = [calm EXCEPT ![e] = IF step = 0 /\ complete = run THEN run ELSE 0]
    /\ UNCHANGED <<scriptVars, has>>

(* LoadX509KeyPair reads certificate and key and compares them, then       *)
(* loadCertPool reads the CA; an error is fatal.                           *)
Good(e) ==
    /\ file[NameOf(e, at[e])] \notin {None, Torn}
    /\ at[e] = "key" => has[e]["crt"][1] = file[NameOf(e, "key")]

Load(e) ==
    /\ at[e] \in Parts
    /\ IF Good(e)
       THEN /\ has' = [has EXCEPT ![e][at[e]] = file[NameOf(e, at[e])]]
            /\ GoTo(e, CASE at[e] = "crt" -> "key" [] at[e] = "key" -> "ca" [] OTHER -> "up")
       ELSE GoTo(e, "down") /\ UNCHANGED has
    /\ UNCHANGED <<scriptVars, calm, loads>>

Stop(e) ==
    /\ at[e] \in {"up", "open"}
    /\ GoTo(e, "down")
    /\ has' = [has EXCEPT ![e] = [p \in Parts |-> None]]
    /\ UNCHANGED <<scriptVars, calm, loads>>

Next == Script \/ \E e \in Ends : Start(e) \/ Load(e) \/ Stop(e)

Spec == Init /\ [][Next]_vars

-----------------------------------------------------------------------------
(* Properties.                                                             *)

(* Each end accepts the other's certificate. *)
Connect ==
    /\ \A e \in Ends : at[e] = "up"
    /\ has["server"]["crt"][2] = has["edge"]["ca"][1]
    /\ has["edge"]["crt"][2] = has["server"]["ca"][1]

(* Once a run of the script has come to its end, no server starts without  *)
(* TLS any more, even while the files are written anew or after that was   *)
(* interrupted (D-9 is about the time before).                             *)
NeverOpenAgain ==
    [][complete # 0 /\ at["server"] = "down" => at'["server"] # "open"]_vars

(* Ends that have loaded the files of the last run can connect: they found *)
(* all of them, and what they found goes together.                         *)
QuietStartsConnect ==
    /\ calm["server"] # 0 => at["server"] # "open"
    /\ (\A e \in Ends : calm[e] = run /\ at[e] = "up") => Connect

=============================================================================
