---------------------------- MODULE DevCertsProofs ----------------------------
(***************************************************************************)
(* Proofs about DevCerts, for any number of runs of the script and of      *)
(* starts of the two ends.                                                 *)
(***************************************************************************)
EXTENDS DevCerts, TLAPS

USE DevCertsConstants

(* What a run of the script leaves in a file if nothing goes wrong. *)
Made(f, k) == IF f \in Keys THEN k ELSE <<k, k>>

(* The files of the steps behind the script are those of this run; after a *)
(* complete run all files are, until the next one begins.                  *)
Progress ==
    /\ \A j \in 1..6 : j < step => file[Order[j]] = Made(Order[j], run)
    /\ step # 0 => complete < run
    /\ complete = run => \A f \in Files : run # 0 => file[f] = Made(f, run)

(* No file goes away, and before the first run there is none. *)
Present ==
    /\ complete # 0 => \A f \in Files : file[f] # None
    /\ run = 0 => step = 0 /\ \A f \in Files : file[f] = None

(* What an end has loaded when it is at a label. *)
Loaded(label) == CASE label = "key" -> {"crt"}
                   [] label = "ca"  -> {"crt", "key"}
                   [] label = "up"  -> Parts
                   [] OTHER         -> {}

(* An end goes on only with files that are there and a key that matches.   *)
Held ==
    \A e \in Ends :
        /\ run = 0 => at[e] \notin {"key", "ca", "up"}
        /\ \A p \in Loaded(at[e]) : has[e][p] \in Whole(NameOf(e, p))
        /\ at[e] \in {"ca", "up"} => has[e]["crt"][1] = has[e]["key"]

(* An end that started on a complete set has loaded files of that run.     *)
Calm ==
    \A e \in Ends :
        calm[e] # 0 =>
            /\ at[e] # "open"
            /\ at[e] \in Parts => calm[e] = run /\ complete = run
            /\ \A p \in Loaded(at[e]) : has[e][p] = Made(NameOf(e, p), calm[e])

Inv == TypeOK /\ Progress /\ Present /\ Held /\ Calm

-----------------------------------------------------------------------------
(* The files in the order of the script.                                   *)

LEMMA Orders ==
  /\ Len(Order) = 6
  /\ \A j \in 1..6 : Order[j] \in Files
  /\ \A j, k \in 1..6 : Order[j] = Order[k] => j = k
  /\ \A f \in Files : \E j \in 1..6 : f = Order[j]
<1>1. Len(Order) = 6 /\ Order[1] = "ca.key" /\ Order[2] = "ca.crt"
      /\ Order[3] = "server.key" /\ Order[4] = "server.crt"
      /\ Order[5] = "edge.key" /\ Order[6] = "edge.crt"
  BY DEF Order
<1>2. \A j \in 1..6 : j = 1 \/ j = 2 \/ j = 3 \/ j = 4 \/ j = 5 \/ j = 6
  OBVIOUS
<1> QED
  BY <1>1, <1>2 DEF Files, Keys, Certs

LEMMA MadeWhole ==
  ASSUME NEW f \in Files, NEW k \in Key
  PROVE  Made(f, k) \in Whole(f) /\ Made(f, k) \notin {None, Torn}
<1>1. <<k, k>> \in Cert
  BY DEF Cert
<1> QED
  BY <1>1 DEF Made, Whole

LEMMA Names ==
  /\ \A e \in Ends, p \in Parts : NameOf(e, p) \in Files
  /\ \A e \in Ends : /\ NameOf(e, "crt") \in Certs /\ NameOf(e, "ca") \in Certs
                     /\ NameOf(e, "key") \in Keys
  /\ Keys \cap Certs = {}
BY DEF Ends, Parts, NameOf, Paths, Files, Keys, Certs

(* The script writes a key of this run, or a certificate of keys of it.    *)
LEMMA WrittenMade ==
  ASSUME TypeOK, Progress, step # 0
  PROVE  Written(Order[step]) = Made(Order[step], run) /\ run \in Key
<1>1. step \in 1..6 /\ run \in Key
  BY DEF TypeOK, Progress, Key
<1>2. Order[1] = "ca.key" /\ Order[2] = "ca.crt"
      /\ Order[3] = "server.key" /\ Order[4] = "server.crt"
      /\ Order[5] = "edge.key" /\ Order[6] = "edge.crt"
  BY DEF Order
<1>3. /\ step > 1 => file["ca.key"] = run
      /\ step > 3 => file["server.key"] = run
      /\ step > 5 => file["edge.key"] = run
  BY <1>1, <1>2 DEF Progress, Made, Keys
<1>4. step = 1 \/ step = 2 \/ step = 3 \/ step = 4 \/ step = 5 \/ step = 6
  BY <1>1
<1> QED
  BY <1>1, <1>2, <1>3, <1>4 DEF Written, Made, Keys

-----------------------------------------------------------------------------
LEMMA InvInit == Init => Inv
<1> SUFFICES ASSUME Init PROVE Inv
  OBVIOUS
<1>1. TypeOK
  <2>1. /\ DOMAIN file = Files /\ \A f \in Files : file[f] = None
        /\ run = 0 /\ complete = 0 /\ step = 0 /\ torn = FALSE
        /\ at \in [Ends -> {"down"}] /\ DOMAIN has = Ends
        /\ \A e \in Ends : DOMAIN has[e] = Parts /\ \A p \in Parts : has[e][p] = None
    BY DEF Init
  <2>2. /\ run \in 0..MaxRuns /\ complete \in 0..run /\ step \in 0..6
        /\ calm \in [Ends -> 0..MaxRuns] /\ loads \in [Ends -> 0..MaxStarts]
    BY <2>1 DEF Init
  <2>3. /\ at \in [Ends -> {"down", "up", "open"} \cup Parts]
        /\ at["edge"] # "open" /\ \A e \in Ends : at[e] # "up"
    BY <2>1 DEF Ends
  <2> QED
    BY <2>1, <2>2, <2>3 DEF TypeOK
<1>2. Progress
  BY DEF Init, Progress
<1>3. Present
  BY DEF Init, Present
<1>4. Held /\ Calm
  BY DEF Init, Held, Calm, Loaded
<1> QED
  BY <1>1, <1>2, <1>3, <1>4 DEF Inv

(* A step that leaves both ends alone disturbs nothing that they hold.     *)
LEMMA EndsKept ==
  ASSUME Held, UNCHANGED <<at, has>>, run' = 0 => run = 0
  PROVE  Held'
BY DEF Held, NameOf, Loaded, Whole

LEMMA InvBegin == ASSUME Inv, Begin PROVE Inv'
<1> USE DEF Inv
<1>1. /\ run' = run + 1 /\ run' # 0 /\ run \in Nat /\ run' \in 0..MaxRuns
      /\ step' = 1 /\ file' = file /\ complete' = complete
      /\ complete \in 0..run /\ complete < run'
      /\ UNCHANGED <<at, has, loads>>
  BY DEF Begin, AtBegin, TypeOK, endVars
<1>2. \A e \in Ends : calm'[e] = IF at[e] \in Parts THEN 0 ELSE calm[e]
  BY DEF Begin
<1>3. calm' \in [Ends -> 0..MaxRuns]
  BY <1>1, <1>2 DEF Begin, TypeOK
<1>4. TypeOK'
  <2>1. complete' \in 0..run'
    <3>1. \A k \in Nat : \A c \in 0..k : c \in 0..(k + 1)
      OBVIOUS
    <3> QED
      BY <1>1, <3>1
  <2>2. step' \in 0..6
    BY <1>1
  <2>3. torn' \in BOOLEAN
    BY DEF Begin
  <2> QED
    BY <1>1, <1>3, <2>1, <2>2, <2>3 DEF TypeOK, Whole, NameOf
<1>5. Progress' /\ Present'
  BY <1>1 DEF Progress, Present, Made
<1>6. Held'
  BY <1>1, EndsKept
<1>7. Calm'
  BY <1>1, <1>2 DEF Calm, NameOf, Loaded, Made
<1> QED
  BY <1>4, <1>5, <1>6, <1>7

LEMMA InvTruncate == ASSUME Inv, Truncate PROVE Inv'
<1> USE DEF Inv
<1>1. step \in 1..6 /\ run # 0 /\ complete < run /\ run \in Nat
  BY DEF Truncate, TypeOK, Progress, Present
<1>2. /\ Order[step] \in Files /\ DOMAIN file' = Files
      /\ file'[Order[step]] = Torn
      /\ \A f \in Files : f # Order[step] => file'[f] = file[f]
  BY <1>1, Orders DEF Truncate, TypeOK
<1>3. UNCHANGED <<run, step, complete, at, has, loads, calm>>
  BY DEF Truncate, endVars
<1>4. TypeOK'
  <2>1. \A f \in Files : file'[f] \in {None, Torn} \cup Whole(f)
    BY <1>2 DEF TypeOK
  <2> QED
    BY <1>2, <1>3, <2>1 DEF TypeOK, Truncate, Whole, NameOf
<1>5. Progress'
  <2>1. \A j \in 1..6 : j < step => Order[j] \in Files /\ Order[j] # Order[step]
    BY <1>1, Orders
  <2>2. \A j \in 1..6 : j < step => file'[Order[j]] = Made(Order[j], run)
    BY <1>2, <2>1 DEF Progress
  <2> QED
    BY <1>1, <1>3, <2>2 DEF Progress
<1>6. Present'
  BY <1>1, <1>2, <1>3 DEF Present
<1>7. Held'
  BY <1>3, EndsKept
<1>8. Calm'
  BY <1>3 DEF Calm, NameOf, Loaded, Made
<1> QED
  BY <1>4, <1>5, <1>6, <1>7, <1>8

LEMMA InvWriteFile == ASSUME Inv, WriteFile PROVE Inv'
<1> USE DEF Inv
<1>1. step \in 1..6 /\ run \in Key /\ run # 0 /\ complete < run /\ run \in Nat
  BY WrittenMade DEF WriteFile, TypeOK, Progress, Present
<1>2. /\ Order[step] \in Files /\ DOMAIN file' = Files
      /\ file'[Order[step]] = Made(Order[step], run)
      /\ \A f \in Files : f # Order[step] => file'[f] = file[f]
  BY <1>1, Orders, WrittenMade DEF WriteFile, TypeOK
<1>3. UNCHANGED <<run, at, has, loads, calm>>
  BY DEF WriteFile, endVars
<1>4. \/ step < 6 /\ step' = step + 1 /\ complete' = complete
      \/ step = 6 /\ step' = 0 /\ complete' = run
  BY <1>1, Orders DEF WriteFile
<1>5. \A f \in Files : file'[f] \in {None, Torn} \cup Whole(f)
  BY <1>1, <1>2, MadeWhole DEF TypeOK
<1>6. TypeOK'
  <2>1. step' \in 0..6 /\ complete' \in 0..run
    <3>1. run \in 0..run /\ complete \in 0..run
      BY <1>1 DEF TypeOK
    <3> QED
      BY <1>1, <1>4, <3>1
  <2>2. torn' \in BOOLEAN
    BY DEF WriteFile
  <2> QED
    BY <1>2, <1>3, <1>5, <2>1, <2>2 DEF TypeOK, Whole, NameOf
<1>7. \A j \in 1..6 : j <= step => file'[Order[j]] = Made(Order[j], run)
  <2> SUFFICES ASSUME NEW j \in 1..6, j <= step
               PROVE  file'[Order[j]] = Made(Order[j], run)
    OBVIOUS
  <2>1. CASE j = step
    BY <1>2, <2>1
  <2>2. CASE j # step
    <3>1. j < step /\ Order[j] \in Files /\ Order[j] # Order[step]
      BY <1>1, <2>2, Orders
    <3> QED
      BY <1>2, <3>1 DEF Progress
  <2> QED
    BY <2>1, <2>2
<1>8. Progress'
  <2>1. \A j \in 1..6 : j < step' => file'[Order[j]] = Made(Order[j], run)
    BY <1>1, <1>4, <1>7
  <2>2. complete' = run => \A f \in Files : file'[f] = Made(f, run)
    BY <1>1, <1>4, <1>7, Orders
  <2> QED
    BY <1>1, <1>3, <1>4, <2>1, <2>2 DEF Progress
<1>9. Present'
  <2>1. Made(Order[step], run) # None
    BY <1>1, <1>2, MadeWhole
  <2>2. complete' # 0 => \A f \in Files : file'[f] # None
    <3>1. CASE complete' = complete
      BY <1>2, <2>1, <3>1 DEF Present
    <3>2. CASE step = 6
      BY <1>1, <1>7, <3>2, Orders, MadeWhole
    <3> QED
      BY <1>4, <3>1, <3>2
  <2> QED
    BY <1>1, <1>3, <2>2 DEF Present
<1>10. Held'
  BY <1>3, EndsKept
<1>11. Calm'
  <2>1. \A e \in Ends : calm[e] # 0 => at[e] \notin Parts
    BY <1>1 DEF Calm
  <2> QED
    BY <1>3, <2>1 DEF Calm, NameOf, Loaded, Made
<1> QED
  BY <1>6, <1>8, <1>9, <1>10, <1>11

(* A run that is stopped is not complete. *)
LEMMA InvInterrupt == ASSUME Inv, Interrupt PROVE Inv'
<1> USE DEF Inv
<1>1. /\ step' = 0 /\ step # 0 /\ complete < run
      /\ UNCHANGED <<file, run, torn, complete, at, has, loads, calm>>
  BY DEF Interrupt, endVars, Progress
<1>2. TypeOK'
  BY <1>1 DEF TypeOK, Whole, NameOf
<1>3. Progress' /\ Present'
  <2>1. complete \in Nat /\ run \in Nat
    BY DEF TypeOK
  <2> QED
    BY <1>1, <2>1 DEF Progress, Present, Made
<1>4. Held'
  BY <1>1, EndsKept
<1>5. Calm'
  BY <1>1 DEF Calm, NameOf, Loaded, Made
<1> QED
  BY <1>2, <1>3, <1>4, <1>5

-----------------------------------------------------------------------------
(* The two ends.  They leave the files and the script alone, and of both   *)
(* ends e alone moves.                                                     *)

LEMMA OtherEnd ==
  ASSUME Inv, NEW e \in Ends, NEW label, GoTo(e, label), UNCHANGED scriptVars,
         DOMAIN has' = Ends,
         \A d \in Ends : d # e => has'[d] = has[d] /\ calm'[d] = calm[d],
         (* and of e itself: *)
         label \in {"down", "up", "open"} \cup Parts,
         e = "edge" => label # "open",
         run = 0 => label \notin {"key", "ca", "up"},
         DOMAIN has'[e] = Parts,
         \A p \in Parts : has'[e][p] \in {None} \cup Whole(NameOf(e, p)),
         \A p \in Loaded(label) : has'[e][p] \in Whole(NameOf(e, p)),
         label \in {"ca", "up"} => has'[e]["crt"][1] = has'[e]["key"],
         calm' \in [Ends -> 0..MaxRuns], loads' \in [Ends -> 0..MaxStarts],
         calm'[e] # 0 =>
            /\ label # "open"
            /\ label \in Parts => calm'[e] = run /\ complete = run
            /\ \A p \in Loaded(label) : has'[e][p] = Made(NameOf(e, p), calm'[e])
  PROVE  Inv'
<1> USE DEF Inv
<1>1. UNCHANGED <<file, run, step, torn, complete>>
  BY DEF scriptVars
<1>2. /\ at' \in [Ends -> {"down", "up", "open"} \cup Parts]
      /\ at'[e] = label /\ \A d \in Ends : d # e => at'[d] = at[d]
  BY DEF GoTo, TypeOK
<1>3. Progress' /\ Present'
  BY <1>1 DEF Progress, Present, Made
<1>4. ASSUME NEW d \in Ends
      PROVE  /\ DOMAIN has'[d] = Parts
             /\ \A p \in Parts : has'[d][p] \in {None} \cup Whole(NameOf(d, p))
             /\ run = 0 => at'[d] \notin {"key", "ca", "up"}
             /\ \A p \in Loaded(at'[d]) : has'[d][p] \in Whole(NameOf(d, p))
             /\ at'[d] \in {"ca", "up"} => has'[d]["crt"][1] = has'[d]["key"]
             /\ d = "edge" => at'[d] # "open"
  <2>1. CASE d = e
    BY <1>2, <2>1
  <2>2. CASE d # e
    <3>1. has'[d] = has[d] /\ at'[d] = at[d]
      BY <1>2, <2>2
    <3> QED
      BY <3>1 DEF TypeOK, Held
  <2> QED
    BY <2>1, <2>2
<1>5. TypeOK'
  <2>1. at'["edge"] # "open"
    BY <1>4 DEF Ends
  <2> QED
    BY <1>1, <1>2, <1>4, <2>1 DEF TypeOK, Whole, NameOf
<1>6. Held'
  BY <1>1, <1>4 DEF Held, Loaded, Whole, NameOf
<1>7. ASSUME NEW d \in Ends, calm'[d] # 0
      PROVE  /\ at'[d] # "open"
             /\ at'[d] \in Parts => calm'[d] = run /\ complete = run
             /\ \A p \in Loaded(at'[d]) : has'[d][p] = Made(NameOf(d, p), calm'[d])
  <2>1. CASE d = e
    BY <1>2, <1>7, <2>1
  <2>2. CASE d # e
    <3>1. has'[d] = has[d] /\ at'[d] = at[d] /\ calm'[d] = calm[d]
      BY <1>2, <2>2
    <3> QED
      BY <1>7, <3>1 DEF Calm
  <2> QED
    BY <2>1, <2>2
<1>8. Calm'
  BY <1>1, <1>7 DEF Calm, Loaded, Made, NameOf
<1> QED
  BY <1>3, <1>5, <1>6, <1>8

LEMMA InvStart == ASSUME Inv, NEW e \in Ends, Start(e) PROVE Inv'
<1> USE DEF Inv
<1> DEFINE open == e = "server" /\ \E p \in Parts : file[NameOf(e, p)] = None
           label == IF open THEN "open" ELSE "crt"
           quiet == IF step = 0 /\ complete = run THEN run ELSE 0
<1>1. /\ GoTo(e, label) /\ UNCHANGED scriptVars /\ has' = has
      /\ calm' = [calm EXCEPT ![e] = quiet]
      /\ loads' = [loads EXCEPT ![e] = @ + 1] /\ loads[e] < MaxStarts
  BY DEF Start
<1>2. calm' \in [Ends -> 0..MaxRuns] /\ loads' \in [Ends -> 0..MaxStarts]
  <2>1. quiet \in 0..MaxRuns /\ loads[e] + 1 \in 0..MaxStarts
    BY <1>1 DEF TypeOK
  <2> HIDE DEF quiet
  <2> QED
    BY <1>1, <2>1 DEF TypeOK
<1>3. calm'[e] = quiet /\ \A d \in Ends : d # e => calm'[d] = calm[d]
  BY <1>1 DEF TypeOK
<1>4. quiet # 0 => quiet = run /\ complete = run /\ ~open
  BY Names DEF Present
<1>5. /\ label \in {"down", "up", "open"} \cup Parts /\ Loaded(label) = {}
      /\ label \notin {"key", "ca", "up"} /\ (e = "edge" => label # "open")
      /\ label = "open" <=> open
  BY DEF Parts, Loaded
<1>6. /\ DOMAIN has' = Ends /\ DOMAIN has'[e] = Parts
      /\ \A p \in Parts : has'[e][p] \in {None} \cup Whole(NameOf(e, p))
      /\ \A d \in Ends : has'[d] = has[d]
  BY <1>1 DEF TypeOK
<1> HIDE DEF label, quiet, Inv
<1> QED
  BY <1>1, <1>2, <1>3, <1>4, <1>5, <1>6, OtherEnd

LEMMA InvLoad == ASSUME Inv, NEW e \in Ends, Load(e) PROVE Inv'
<1> USE DEF Inv
<1>1. at[e] \in Parts /\ UNCHANGED scriptVars /\ calm' = calm /\ loads' = loads
  BY DEF Load
<1>2. calm' \in [Ends -> 0..MaxRuns] /\ loads' \in [Ends -> 0..MaxStarts]
  BY <1>1 DEF TypeOK
<1>3. CASE ~Good(e)
  <2>1. GoTo(e, "down") /\ has' = has
    BY <1>3 DEF Load
  <2>2. Loaded("down") = {} /\ "down" \notin Parts
    BY DEF Loaded, Parts
  <2>3. /\ DOMAIN has' = Ends /\ DOMAIN has'[e] = Parts
        /\ \A p \in Parts : has'[e][p] \in {None} \cup Whole(NameOf(e, p))
    BY <2>1 DEF TypeOK
  <2> HIDE DEF Inv
  <2> QED
    BY <1>1, <1>2, <2>1, <2>2, <2>3, OtherEnd
<1>4. CASE Good(e)
  <2> PICK part \in Parts : part = at[e]
    BY <1>1
  <2> DEFINE label == CASE part = "crt" -> "key" [] part = "key" -> "ca" [] OTHER -> "up"
             what == file[NameOf(e, part)]
  <2>1. /\ has' = [has EXCEPT ![e][part] = what] /\ GoTo(e, label)
    BY <1>4 DEF Load
  <2>2. /\ NameOf(e, part) \in Files /\ what \in Whole(NameOf(e, part)) /\ what # None
        /\ run # 0
        /\ part = "key" => has[e]["crt"][1] = what
    <3>1. NameOf(e, part) \in Files
      BY Names
    <3> QED
      BY <1>4, <3>1 DEF Good, TypeOK, Present
  <2>3. /\ DOMAIN has' = Ends /\ DOMAIN has'[e] = Parts
        /\ has'[e][part] = what
        /\ \A p \in Parts : p # part => has'[e][p] = has[e][p]
        /\ \A d \in Ends : d # e => has'[d] = has[d]
    BY <2>1 DEF TypeOK
  <2>4. /\ label \in {"key", "ca", "up"}
        /\ Loaded(label) = Loaded(part) \cup {part} /\ Loaded(label) \subseteq Parts
        /\ label # "open"
        /\ label \in {"ca", "up"} => part \in {"key", "ca"}
        /\ label \in {"down", "up", "open"} \cup Parts
    BY DEF Loaded, Parts
  <2>5. \A p \in Parts : has'[e][p] \in {None} \cup Whole(NameOf(e, p))
    BY <2>2, <2>3 DEF TypeOK
  <2>6. \A p \in Loaded(label) : has'[e][p] \in Whole(NameOf(e, p))
    BY <2>2, <2>3, <2>4 DEF Held
  <2>7. label \in {"ca", "up"} => has'[e]["crt"][1] = has'[e]["key"]
    <3>1. CASE part = "key"
      BY <2>2, <2>3, <3>1 DEF Parts
    <3>2. CASE part = "ca"
      BY <2>3, <3>2 DEF Parts, Held
    <3> QED
      BY <2>4, <3>1, <3>2
  <2>8. calm'[e] # 0 => /\ label \in Parts => calm'[e] = run /\ complete = run
                        /\ \A p \in Loaded(label) : has'[e][p] = Made(NameOf(e, p), calm'[e])
    <3> SUFFICES ASSUME calm[e] # 0
                 PROVE  /\ calm[e] = run /\ complete = run
                        /\ \A p \in Loaded(label) : has'[e][p] = Made(NameOf(e, p), calm[e])
      BY <1>1
    <3>1. calm[e] = run /\ complete = run /\ what = Made(NameOf(e, part), run)
      BY <2>2 DEF Calm, Progress
    <3>2. \A p \in Loaded(part) : has[e][p] = Made(NameOf(e, p), calm[e])
      BY DEF Calm
    <3> QED
      BY <2>3, <2>4, <3>1, <3>2
  <2> HIDE DEF label, what, Inv
  <2> QED
    BY <1>1, <1>2, <2>1, <2>2, <2>3, <2>4, <2>5, <2>6, <2>7, <2>8, OtherEnd
<1> QED
  BY <1>3, <1>4

LEMMA InvStop == ASSUME Inv, NEW e \in Ends, Stop(e) PROVE Inv'
<1> USE DEF Inv
<1>1. /\ GoTo(e, "down") /\ UNCHANGED scriptVars /\ calm' = calm /\ loads' = loads
      /\ has' = [has EXCEPT ![e] = [p \in Parts |-> None]]
  BY DEF Stop
<1>2. calm' \in [Ends -> 0..MaxRuns] /\ loads' \in [Ends -> 0..MaxStarts]
  BY <1>1 DEF TypeOK
<1>3. Loaded("down") = {} /\ "down" \notin Parts
  BY DEF Loaded, Parts
<1>4. /\ DOMAIN has' = Ends /\ DOMAIN has'[e] = Parts
      /\ \A p \in Parts : has'[e][p] = None
      /\ \A d \in Ends : d # e => has'[d] = has[d]
  BY <1>1 DEF TypeOK
<1> HIDE DEF Inv
<1> QED
  BY <1>1, <1>2, <1>3, <1>4, OtherEnd

LEMMA InvNext == Inv /\ [Next]_vars => Inv'
<1> SUFFICES ASSUME Inv, [Next]_vars PROVE Inv'
  OBVIOUS
<1>1. CASE Script
  BY <1>1, InvBegin, InvTruncate, InvWriteFile, InvInterrupt DEF Script
<1>2. CASE \E e \in Ends : Start(e) \/ Load(e) \/ Stop(e)
  BY <1>2, InvStart, InvLoad, InvStop
<1>3. CASE UNCHANGED vars
  <2>1. UNCHANGED <<file, run, step, torn, complete, at, has, loads, calm>>
    BY <1>3 DEF vars, scriptVars, endVars
  <2>2. TypeOK'
    BY <2>1 DEF Inv, TypeOK, Whole, NameOf
  <2>3. Progress' /\ Present'
    BY <2>1 DEF Inv, Progress, Present, Made
  <2>4. Held' /\ Calm'
    BY <2>1, EndsKept DEF Inv, Calm, Loaded, NameOf, Made
  <2> QED
    BY <2>2, <2>3, <2>4 DEF Inv
<1> QED
  BY <1>1, <1>2, <1>3 DEF Next

LEMMA Inductive == Spec => []Inv
  BY InvInit, InvNext, PTL DEF Spec

-----------------------------------------------------------------------------
(* Files hold keys, certificates, nothing or half of one; an end that is   *)
(* up has a certificate and the key of that certificate.                   *)
THEOREM TypeCorrect == Spec => []TypeOK
  BY Inductive, PTL DEF Inv

(* Two ends that were started on the files of the last, complete run and   *)
(* came up accept each other's certificates, whatever was written and      *)
(* interrupted before; such a server is never without TLS.                 *)
THEOREM QuietStarts == Spec => []QuietStartsConnect
<1>1. Inv => QuietStartsConnect
  <2> SUFFICES ASSUME Inv PROVE QuietStartsConnect
    OBVIOUS
  <2>1. calm["server"] # 0 => at["server"] # "open"
    BY DEF Inv, Calm, Ends
  <2>2. ASSUME \A e \in Ends : calm[e] = run /\ at[e] = "up" PROVE Connect
    <3>1. run # 0
      BY <2>2 DEF Inv, Held, Ends
    <3>2. \A e \in Ends : \A p \in Parts : has[e][p] = Made(NameOf(e, p), run)
      BY <2>2, <3>1 DEF Inv, Calm, Loaded
    <3>3. \A e \in Ends : has[e]["crt"] = <<run, run>> /\ has[e]["ca"] = <<run, run>>
      BY <3>2, Names DEF Made, Parts
    <3> QED
      BY <2>2, <3>3 DEF Connect, Ends
  <2> QED
    BY <2>1, <2>2 DEF QuietStartsConnect
<1> QED
  BY <1>1, Inductive, PTL

(* After the first complete run of the script a server that starts finds   *)
(* its three files, so it never serves in plain text again.                *)
THEOREM PlainOnlyBefore == Spec => NeverOpenAgain
<1>1. Inv /\ [Next]_vars
        => [complete # 0 /\ at["server"] = "down" => at'["server"] # "open"]_vars
  <2> SUFFICES ASSUME Inv, Next, complete # 0, at["server"] = "down",
                      at'["server"] = "open"
               PROVE  FALSE
    OBVIOUS
  <2>1. CASE Script
    BY <2>1 DEF Script, Begin, Truncate, WriteFile, Interrupt, endVars
  <2>2. ASSUME NEW e \in Ends, Start(e) PROVE FALSE
    <3>1. \A p \in Parts : file[NameOf(e, p)] # None
      BY Names DEF Inv, Present
    <3>2. GoTo(e, "crt")
      BY <2>2, <3>1 DEF Start
    <3> QED
      BY <3>2 DEF GoTo, Inv, TypeOK, Ends
  <2>3. ASSUME NEW e \in Ends, Load(e) PROVE FALSE
    BY <2>3 DEF Load, GoTo, Inv, TypeOK, Ends, Parts
  <2>4. ASSUME NEW e \in Ends, Stop(e) PROVE FALSE
    BY <2>4 DEF Stop, GoTo, Inv, TypeOK, Ends, Parts
  <2> QED
    BY <2>1, <2>2, <2>3, <2>4 DEF Next
<1> QED
  BY <1>1, Inductive, PTL DEF Spec, NeverOpenAgain

=============================================================================
