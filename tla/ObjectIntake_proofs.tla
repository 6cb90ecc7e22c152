------------------------- MODULE ObjectIntake_proofs -------------------------
(***************************************************************************)
(* Proofs about ObjectIntake for any requests, users and bounds: every     *)
(* object in the bucket is somebody's or was left to the sweep, what the   *)
(* mail server was told 250 for is recorded, and what the sweep reports is *)
(* exactly what nobody owns and nobody will.                               *)
(***************************************************************************)
EXTENDS ObjectIntake, TLAPS

-----------------------------------------------------------------------------
(* The inductive invariant.                                                *)

RequestRecords == [pc : {"new", "putting", "deciding"} \cup Closed,
                   to : SUBSET Users, left : SUBSET Users, at : Users \cup {None}, put : Nat]

Typed ==
    /\ req \in [Requests -> RequestRecords]
    /\ told \in [Mails -> [n : 0..MaxDeliveries, verdict : {"none", "250", "451", "550"}]]
    /\ obj \subseteq Objects /\ aged \subseteq Objects /\ stray \subseteq Objects
    /\ row \subseteq Requests \X Users /\ erasing \subseteq Requests \X Users
    /\ job \in [Objects -> [st : {"none", "queued", "loaded", "done", "lost", "dead"}, tries : Nat]]
    /\ janitor \in [Objects -> SUBSET {"backstop", "immediate"}]
    /\ sweep \in [pc : {"idle", "listed"}, listed : SUBSET Objects, alerts : SUBSET Objects]

Open(q) == req[q].pc \in {"putting", "deciding"}

\* A request works through its recipients, on one that is left, part by part.
Shaped(q) ==
    /\ req[q].pc = "new" => req[q].at = None /\ req[q].to = {} /\ req[q].left = {} /\ req[q].put = 0
    /\ Open(q) => req[q].at \in req[q].left /\ req[q].left \subseteq req[q].to
    /\ req[q].pc = "putting" => req[q].put < Len(Parts(q))
    /\ req[q].pc = "deciding" => req[q].put = Len(Parts(q))
    /\ req[q].pc = "ok" => req[q].left = {}

\* A delivery that has not begun is new; 250 was heard of one that is through.
Heard(m) ==
    /\ \A n \in 1..MaxDeliveries : n > told[m].n => req[<<m, n>>].pc = "new"
    /\ told[m].verdict = "250" => told[m].n > 0 /\ req[<<m, told[m].n>>].pc = "ok"

\* An object of a copy that is not recorded yet was written by its request on
\* the way to that copy; and what the request has written is there.
Written(o) ==
    /\ req[o[1]].pc # "new"
    /\ Open(o[1]) /\ o[2] \in req[o[1]].left =>
         o[2] = req[o[1]].at /\ \E i \in 1..req[o[1]].put : o = Here(o[1], i)
Stored(q) == Open(q) /\ q \notin Discards => \A i \in 1..req[q].put : Here(q, i) \in obj

\* A copy that has rows, or had them, is behind its request.
Behind(s) == /\ s[1] \notin Discards /\ req[s[1]].pc # "new"
             /\ Open(s[1]) => s[2] \notin req[s[1]].left

\* Rows never outlive their objects, so their runs find them; and cleanups run
\* on staged uploads only.
Backed(o) == /\ Copy(o) \in row => o \in obj
             /\ job[o].st = "lost" /\ o[1] \notin Discards => Copy(o) \notin row
             /\ janitor[o] # {} => o[1] \in Discards

\* Every copy a request has left behind is recorded with its jobs.
Recorded(q) == \A u \in req[q].to \ req[q].left : \A o \in Of(q, u) : job[o].st # "none"

\* What was left to the sweep has no row and will not have one; nor has anything
\* old enough to be listed one to come.
Abandoned(o) == Copy(o) \notin row /\ (o[1] \in Discards \/ req[o[1]].pc = "failed")
Seen == /\ \A o \in aged \cup sweep.listed : req[o[1]].pc \in Closed
        /\ \A o \in sweep.alerts : req[o[1]].pc \in Closed /\ Copy(o) \notin row

IInv ==
    /\ Typed
    /\ \A q \in Requests : Shaped(q) /\ Stored(q) /\ Recorded(q)
    /\ \A m \in Mails : Heard(m)
    /\ \A o \in obj : Written(o)
    /\ \A s \in row \cup erasing : Behind(s)
    /\ row \cap erasing = {}
    /\ \A o \in Objects : Backed(o)
    /\ \A o \in stray : Abandoned(o)
    /\ Seen
    /\ BytesAccounted

-----------------------------------------------------------------------------
(* Requests, parts and objects.                                            *)

LEMMA PartsFacts ==
  ASSUME NEW q \in Requests
  PROVE  /\ Len(Parts(q)) \in Nat \ {0}
         /\ \A i \in 1..Len(Parts(q)) : Parts(q)[i] \in {"file", "staging", "raw"}
         /\ \A i \in 1..Len(Parts(q)) : Parts(q)[i] = "staging" => q \in Discards
<1>1. CASE q \in Uploads
  BY <1>1 DEF Parts
<1>2. CASE q \notin Uploads /\ q \in Discards
  BY <1>2 DEF Parts
<1>3. CASE q \notin Uploads /\ q \notin Discards
  BY <1>3 DEF Parts
<1> QED BY <1>1, <1>2, <1>3

LEMMA ObjectFacts ==
  ASSUME NEW o \in Objects
  PROVE  /\ o[1] \in Requests /\ o[2] \in Users
         /\ Copy(o) \in Requests \X Users
         /\ o[3] = "staging" => o[1] \in Discards
         /\ \E i \in 1..Len(Parts(o[1])) : o = <<o[1], o[2], Parts(o[1])[i]>>
<1>1. PICK q \in Requests, u \in Users, k \in {"file", "staging", "raw"} : o = <<q, u, k>>
  BY DEF Objects
<1>2. PICK i \in 1..Len(Parts(q)) : Parts(q)[i] = k
  BY <1>1 DEF Objects
<1> QED BY <1>1, <1>2, PartsFacts DEF Copy

LEMMA HereFacts ==
  ASSUME NEW q \in Requests, req[q].at \in Users, NEW i \in 1..Len(Parts(q))
  PROVE  /\ Here(q, i) \in Objects
         /\ Here(q, i)[1] = q /\ Here(q, i)[2] = req[q].at
         /\ Copy(Here(q, i)) = <<q, req[q].at>>
<1>1. Parts(q)[i] \in {"file", "staging", "raw"}
  BY PartsFacts
<1>2. Here(q, i) = <<q, req[q].at, Parts(q)[i]>>
  BY DEF Here
<1>3. Here(q, i) \in Requests \X Users \X {"file", "staging", "raw"}
  BY <1>1, <1>2
<1> QED BY <1>2, <1>3 DEF Objects, Copy

\* An object of a copy is one of its parts.
LEMMA OfHere ==
  ASSUME NEW q \in Requests, NEW o \in Of(q, req[q].at)
  PROVE  \E i \in 1..Len(Parts(q)) : o = Here(q, i)
<1>1. o \in Objects /\ o[1] = q /\ o[2] = req[q].at
  BY DEF Of
<1> QED BY <1>1, ObjectFacts DEF Here

LEMMA TypeFacts ==
  ASSUME Typed, NEW q \in Requests
  PROVE  /\ req[q] \in RequestRecords
         /\ req[q].pc \in {"new", "putting", "deciding"} \cup Closed
         /\ req[q].at \in Users \cup {None} /\ req[q].put \in Nat
         /\ req[q].to \subseteq Users /\ req[q].left \subseteq Users
  BY DEF Typed, RequestRecords

LEMMA Delivery ==
  ASSUME NEW m \in Mails, NEW n \in 1..MaxDeliveries
  PROVE  <<m, n>> \in Requests /\ <<m, n>> \in Deliveries /\ <<m, n>> \notin Uploads \cup Discards
  BY IntakeAssumption DEF Requests, Deliveries

-----------------------------------------------------------------------------
(* What the steps of a request do to req.                                  *)

Moves(q) == /\ req' \in [Requests -> RequestRecords]
            /\ \A p \in Requests : p # q => req'[p] = req[p]

LEMMA BeginFields ==
  ASSUME Typed, NEW q \in Requests, NEW us \in (SUBSET Users) \ {{}}, Begin(q, us)
  PROVE  /\ Moves(q)
         /\ req'[q].pc = "putting" /\ req'[q].to = us /\ req'[q].left = us
         /\ req'[q].at \in us /\ req'[q].put = req[q].put
<1> DEFINE u == CHOOSE u \in us : TRUE
<1>1. u \in us
  OBVIOUS
<1>2. req' = [req EXCEPT ![q].pc = "putting", ![q].to = us, ![q].left = us, ![q].at = u]
  BY DEF Begin
<1>3. req[q] \in RequestRecords
  BY TypeFacts
<1> HIDE DEF u
<1>4. req' = [req EXCEPT ![q] = [req[q] EXCEPT !.pc = "putting", !.to = us, !.left = us, !.at = u]]
  BY <1>2, <1>3 DEF Typed
<1>5. [req[q] EXCEPT !.pc = "putting", !.to = us, !.left = us, !.at = u] \in RequestRecords
  BY <1>1, <1>3 DEF RequestRecords
<1> QED BY <1>1, <1>3, <1>4, <1>5 DEF Typed, Moves, RequestRecords

LEMMA PutFields ==
  ASSUME Typed, NEW q \in Requests, Shaped(q), Put(q)
  PROVE  /\ Moves(q)
         /\ req'[q].pc = IF req[q].put + 1 = Len(Parts(q)) THEN "deciding" ELSE "putting"
         /\ req'[q].to = req[q].to /\ req'[q].left = req[q].left
         /\ req'[q].at = req[q].at /\ req'[q].put = req[q].put + 1
<1> DEFINE v == IF req[q].put + 1 = Len(Parts(q)) THEN "deciding" ELSE "putting"
           n == req[q].put + 1
           r == [req[q] EXCEPT !.put = n, !.pc = v]
<1>1. req[q] \in RequestRecords /\ req[q].pc = "putting" /\ req[q].put \in Nat
  BY TypeFacts DEF Put
<1>2. req' = [req EXCEPT ![q] = r]
  BY <1>1 DEF Typed, Put
<1>3. v \in {"deciding", "putting"} /\ n \in Nat
  BY <1>1
<1> HIDE DEF v, n
<1>4. r \in RequestRecords
  BY <1>1, <1>3 DEF RequestRecords
<1>5. /\ r.pc = v /\ r.to = req[q].to /\ r.left = req[q].left
      /\ r.at = req[q].at /\ r.put = n
  BY <1>1 DEF RequestRecords
<1> HIDE DEF r
<1>6. Moves(q) /\ req'[q] = r
  BY <1>2, <1>4 DEF Typed, Moves
<1> QED BY <1>5, <1>6 DEF v, n

LEMMA FailFields ==
  ASSUME Typed, NEW q \in Requests, NEW v \in Closed, req' = [req EXCEPT ![q].pc = v]
  PROVE  /\ Moves(q)
         /\ req'[q].pc = v /\ req'[q].to = req[q].to /\ req'[q].left = req[q].left
         /\ req'[q].at = req[q].at /\ req'[q].put = req[q].put
<1>1. req[q] \in RequestRecords
  BY TypeFacts
<1>2. [req[q] EXCEPT !.pc = v] \in RequestRecords
  BY <1>1 DEF RequestRecords
<1>3. req' = [req EXCEPT ![q] = [req[q] EXCEPT !.pc = v]]
  BY <1>1 DEF Typed
<1> QED BY <1>1, <1>2, <1>3 DEF Typed, Moves, RequestRecords

LEMMA RecordFields ==
  ASSUME Typed, NEW q \in Requests, NEW b, Record(q, b)
  PROVE  LET left == req[q].left \ {req[q].at} IN
         /\ Moves(q)
         /\ req'[q].to = req[q].to /\ req'[q].left = left /\ req'[q].put = 0
         /\ left = {} => req'[q].pc = "ok"
         /\ left # {} => req'[q].pc = "putting" /\ req'[q].at \in left
<1> DEFINE left == req[q].left \ {req[q].at}
           u    == CHOOSE u \in left : TRUE
           r    == [req[q] EXCEPT !.left = left, !.put = 0, !.pc = IF left = {} THEN "ok" ELSE "putting",
                                  !.at = IF left = {} THEN None ELSE u]
<1>1. req[q] \in RequestRecords /\ left \subseteq Users
  BY TypeFacts
<1>2. left # {} => u \in left
  OBVIOUS
<1>3. req' = [req EXCEPT ![q] = r]
  BY <1>1 DEF Typed, Record
<1> HIDE DEF left, u
<1>4. r \in RequestRecords
  BY <1>1, <1>2 DEF RequestRecords, Closed
<1>5. /\ r.to = req[q].to /\ r.left = left /\ r.put = 0
      /\ left = {} => r.pc = "ok"
      /\ left # {} => r.pc = "putting" /\ r.at = u
  BY <1>1 DEF RequestRecords
<1> HIDE DEF r
<1>6. /\ Moves(q) /\ req'[q] = r
  BY <1>3, <1>4 DEF Typed, Moves
<1> QED BY <1>2, <1>5, <1>6 DEF left

-----------------------------------------------------------------------------
(* Types.                                                                  *)

LEMMA AtFacts ==
  ASSUME Typed, NEW q \in Requests, Shaped(q), Open(q)
  PROVE  /\ req[q].at \in Users /\ req[q].at \in req[q].left
         /\ \A i \in 1..req[q].put : i \in 1..Len(Parts(q))
         /\ req[q].pc = "putting" => req[q].put + 1 \in 1..Len(Parts(q))
<1>1. req[q].at \in req[q].left /\ req[q].left \subseteq Users /\ req[q].put \in Nat
  BY TypeFacts DEF Shaped
<1>2. Len(Parts(q)) \in Nat
  BY PartsFacts
<1> QED BY <1>1, <1>2 DEF Shaped, Open

LEMMA Typing == IInv /\ [Next]_vars => Typed'
<1> SUFFICES ASSUME IInv, [Next]_vars PROVE Typed'
  OBVIOUS
<1>a. Typed /\ \A q \in Requests : Shaped(q)
  BY DEF IInv
<1>1. ASSUME NEW q \in Requests, Accept(q) PROVE Typed'
  <2>1. PICK u \in Users : Begin(q, {u})
    BY <1>1 DEF Accept
  <2>2. Moves(q)
    BY <1>a, <2>1, BeginFields
  <2> QED BY <1>1, <1>a, <2>2 DEF Accept, Typed, Moves
<1>2. ASSUME NEW m \in Mails, Deliver(m) PROVE Typed'
  <2> DEFINE q == <<m, told[m].n + 1>>
  <2>1. told[m].n \in 0..MaxDeliveries /\ told[m].n < MaxDeliveries
    BY <1>2, <1>a DEF Typed, Deliver
  <2>2. q \in Requests
    BY <2>1, Delivery, IntakeAssumption
  <2>3. Moves(q)
    <3>1. CASE \E us \in (SUBSET Users) \ {{}} : Begin(q, us)
      BY <3>1, <2>2, <1>a, BeginFields
    <3>2. CASE req' = [req EXCEPT ![q].pc = "refused"]
      BY <3>2, <2>2, <1>a, FailFields DEF Closed
    <3> QED BY <1>2, <3>1, <3>2 DEF Deliver
  <2>4. told' \in [Mails -> [n : 0..MaxDeliveries, verdict : {"none", "250", "451", "550"}]]
    <3>1. told[m].n + 1 \in 0..MaxDeliveries
      BY <2>1, IntakeAssumption
    <3>2. told' = [told EXCEPT ![m] = [n |-> told[m].n + 1, verdict |-> "none"]]
      BY <1>2, <1>a DEF Deliver, Typed
    <3> QED BY <3>1, <3>2, <1>a DEF Typed
  <2> QED BY <1>2, <1>a, <2>3, <2>4 DEF Deliver, Typed, Moves
<1>3. ASSUME NEW q \in Requests, Put(q) PROVE Typed'
  <2>1. Moves(q)
    BY <1>3, <1>a, PutFields
  <2>2. Here(q, req[q].put + 1) \in Objects
    BY <1>3, <1>a, AtFacts, HereFacts DEF Put, Open
  <2> QED BY <1>3, <1>a, <2>1, <2>2 DEF Put, Typed, Moves
<1>4. ASSUME NEW q \in Requests, PutFails(q) PROVE Typed'
  <2>1. Moves(q)
    BY <1>4, <1>a, FailFields DEF PutFails, Closed
  <2>2. PICK n \in {req[q].put, req[q].put + 1} :
             /\ obj' = obj \cup {Here(q, i) : i \in 1..n}
             /\ stray' = stray \cup {Here(q, i) : i \in 1..n}
    <3>1. req[q].put \in Nat
      BY <1>a, TypeFacts
    <3> QED BY <1>4, <3>1 DEF PutFails
  <2>3. \A i \in 1..n : Here(q, i) \in Objects
    <3>1. req[q].put \in Nat /\ req[q].pc = "putting" /\ req[q].put < Len(Parts(q))
      BY <1>4, <1>a, TypeFacts DEF PutFails, Shaped
    <3>2. \A i \in 1..n : i \in 1..Len(Parts(q))
      BY <3>1, PartsFacts
    <3>3. req[q].at \in Users
      BY <1>a, <3>1, AtFacts DEF Open
    <3> QED BY <3>2, <3>3, HereFacts
  <2> QED BY <1>4, <1>a, <2>1, <2>2, <2>3 DEF PutFails, Typed, Moves
<1>5. ASSUME NEW q \in Requests, Commit(q) PROVE Typed'
  <2>1. Record(q, {"backstop"}) /\ Open(q)
    BY <1>5 DEF Commit, Open
  <2>2. Moves(q) /\ req[q].at \in Users
    BY <2>1, <1>a, RecordFields, AtFacts
  <2>3. row' \subseteq Requests \X Users
    <3>1. row' = row \/ row' = row \cup {<<q, req[q].at>>}
      BY <2>1 DEF Record
    <3>2. <<q, req[q].at>> \in Requests \X Users
      BY <2>2
    <3> QED BY <3>1, <3>2, <1>a DEF Typed
  <2>4. job' \in [Objects -> [st : {"none", "queued", "loaded", "done", "lost", "dead"}, tries : Nat]]
    <3>1. [NoJob EXCEPT !.st = "queued"] \in [st : {"none", "queued", "loaded", "done", "lost", "dead"}, tries : Nat]
      BY DEF NoJob
    <3> QED BY <2>1, <3>1, <1>a DEF Record, Typed
  <2>5. janitor' \in [Objects -> SUBSET {"backstop", "immediate"}]
    BY <2>1, <1>a DEF Record, Typed
  <2> QED BY <2>1, <1>a, <2>2, <2>3, <2>4, <2>5 DEF Record, Typed, Moves
<1>6. ASSUME NEW q \in Requests, RollBack(q) PROVE Typed'
  <2>1. Moves(q)
    BY <1>6, <1>a, FailFields DEF RollBack, Closed
  <2> QED BY <1>6, <1>a, <2>1 DEF RollBack, Typed, Moves, Of
<1>7. ASSUME NEW q \in Requests, Crash(q) PROVE Typed'
  <2>1. Moves(q)
    BY <1>7, <1>a, FailFields DEF Crash, Closed
  <2>2. \A i \in 1..req[q].put : Here(q, i) \in Objects
    BY <1>7, <1>a, AtFacts, HereFacts DEF Crash, Open
  <2> QED BY <1>7, <1>a, <2>1, <2>2 DEF Crash, Typed, Moves
<1>8. ASSUME NEW m \in Mails, Answer(m) PROVE Typed'
  BY <1>8, <1>a DEF Answer, Typed
<1>9. ASSUME NEW o \in Objects, Load(o) PROVE Typed'
  BY <1>9, <1>a DEF Load, Typed
<1>10. ASSUME NEW o \in Objects, Finish(o) PROVE Typed'
  <2>1. janitor' \in [Objects -> SUBSET {"backstop", "immediate"}]
    BY <1>10, <1>a DEF Finish, Typed
  <2>2. job' \in [Objects -> [st : {"none", "queued", "loaded", "done", "lost", "dead"}, tries : Nat]]
    BY <1>10, <1>a DEF Finish, Typed
  <2> QED BY <1>10, <1>a, <2>1, <2>2 DEF Finish, Typed
<1>11. ASSUME NEW o \in Objects, Fail(o) PROVE Typed'
  <2> DEFINE v == IF job[o].tries + 1 < MaxAttempts THEN "queued" ELSE "dead"
             n == job[o].tries + 1
  <2>1. v \in {"queued", "dead"} /\ n \in Nat
    BY <1>a DEF Typed
  <2>2. job' = [job EXCEPT ![o] = [st |-> v, tries |-> n]]
    BY <1>11, <1>a DEF Fail, Typed
  <2> HIDE DEF v, n
  <2> QED BY <1>11, <1>a, <2>1, <2>2 DEF Fail, Typed
<1>12. ASSUME NEW o \in Objects, NEW j \in janitor[o], CleanUp(o, j) PROVE Typed'
  BY <1>12, <1>a DEF CleanUp, Typed
<1>13. ASSUME NEW s \in Requests \X Users, Delete(s) PROVE Typed'
  BY <1>13, <1>a DEF Delete, Typed
<1>14. ASSUME NEW s \in Requests \X Users, Confirm(s) PROVE Typed'
  BY <1>14, <1>a DEF Confirm, Typed
<1>15. ASSUME SweepStep PROVE Typed'
  <2>1. CASE Age
    BY <2>1, <1>a DEF Age, Typed
  <2>2. CASE SweepList
    BY <2>2, <1>a DEF SweepList, Typed
  <2>3. CASE SweepProbe
    BY <2>3, <1>a DEF SweepProbe, Typed
  <2> QED BY <1>15, <2>1, <2>2, <2>3 DEF SweepStep
<1>16. CASE UNCHANGED vars
  BY <1>16, <1>a DEF vars, Typed
<1> QED BY <1>1, <1>2, <1>3, <1>4, <1>5, <1>6, <1>7, <1>8, <1>9, <1>10, <1>11, <1>12, <1>13, <1>14,
           <1>15, <1>16 DEF Next, RequestStep, MailStep, WorkerStep, SagaStep

-----------------------------------------------------------------------------
(* What holds of copies and objects lasts while a request moves.           *)

\* The move of a request that is under way or begins.
Onward(q) == /\ Moves(q)
             /\ req[q].pc \notin Closed /\ req'[q].pc # "new"
             /\ Open(q) => req'[q].left \subseteq req[q].left
             /\ Open(q) \/ req[q].pc = "new"

LEMMA Settled ==
  ASSUME IInv, NEW q \in Requests, Onward(q)
  PROVE  /\ \A p \in Requests : req[p].pc \in Closed => req'[p] = req[p]
         /\ \A s \in row \cup erasing : Behind(s)'
         /\ \A o \in aged \cup sweep.listed \cup sweep.alerts : req'[o[1]].pc \in Closed
         /\ \A o \in stray : o[1] \in Discards \/ req'[o[1]].pc = "failed"
         /\ \A o \in obj : o[1] = q => Open(q)
<1>1. \A p \in Requests : req[p].pc \in Closed => req'[p] = req[p]
  BY DEF Onward, Moves
<1>2. ASSUME NEW s \in row \cup erasing PROVE Behind(s)'
  <2>1. s[1] \in Requests /\ Behind(s)
    BY DEF IInv, Typed
  <2>2. CASE s[1] = q
    BY <2>1, <2>2 DEF Behind, Onward, Open
  <2>3. CASE s[1] # q
    <3>1. req'[s[1]] = req[s[1]]
      BY <2>1, <2>3 DEF Onward, Moves
    <3> QED BY <2>1, <3>1 DEF Behind, Open
  <2> QED BY <2>2, <2>3
<1>3. ASSUME NEW o \in aged \cup sweep.listed \cup sweep.alerts PROVE req'[o[1]].pc \in Closed
  <2>1. o \in Objects /\ req[o[1]].pc \in Closed
    BY DEF IInv, Typed, Seen
  <2> QED BY <2>1, <1>1, ObjectFacts
<1>4. ASSUME NEW o \in stray PROVE o[1] \in Discards \/ req'[o[1]].pc = "failed"
  <2>1. o \in Objects /\ Abandoned(o)
    BY DEF IInv, Typed
  <2> QED BY <2>1, <1>1, ObjectFacts DEF Abandoned, Closed
<1>5. ASSUME NEW o \in obj, o[1] = q PROVE Open(q)
  BY <1>5 DEF IInv, Written, Onward
<1> QED BY <1>1, <1>2, <1>3, <1>4, <1>5

\* Requests that do not move keep what is true of them.
LEMMA Others ==
  ASSUME IInv, NEW q \in Requests, Onward(q), NEW p \in Requests, p # q
  PROVE  /\ Shaped(p)'
         /\ obj \subseteq obj' => Stored(p)'
         /\ (\A o \in Objects : job[o].st # "none" => job'[o].st # "none") => Recorded(p)'
         /\ \A o \in obj : o[1] = p => Written(o)'
<1>1. req'[p] = req[p]
  BY DEF Onward, Moves
<1>2. Shaped(p) /\ Stored(p) /\ Recorded(p)
  BY DEF IInv
<1>3. Open(p)' <=> Open(p)
  BY <1>1 DEF Open
<1>4. \A i : Here(p, i)' = Here(p, i)
  BY <1>1 DEF Here
<1>5. Shaped(p)'
  BY <1>1, <1>2, <1>3 DEF Shaped
<1>6. ASSUME obj \subseteq obj' PROVE Stored(p)'
  BY <1>1, <1>2, <1>3, <1>4, <1>6 DEF Stored
<1>7. ASSUME \A o \in Objects : job[o].st # "none" => job'[o].st # "none" PROVE Recorded(p)'
  BY <1>1, <1>2, <1>7 DEF Recorded, Of
<1>8. ASSUME NEW o \in obj, o[1] = p PROVE Written(o)'
  <2>1. Written(o)
    BY DEF IInv
  <2> QED BY <1>1, <1>3, <1>4, <1>8, <2>1 DEF Written
<1> QED BY <1>5, <1>6, <1>7, <1>8

\* No delivery that has not begun moves, but by Deliver.
LEMMA StillHeard ==
  ASSUME IInv, NEW q \in Requests, Onward(q), q \notin Deliveries \/ Open(q),
         UNCHANGED told, NEW m \in Mails
  PROVE  Heard(m)'
<1>1. Heard(m) /\ told[m].n \in 0..MaxDeliveries
  BY DEF IInv, Typed
<1>2. ASSUME NEW n \in 1..MaxDeliveries, n > told[m].n PROVE req'[<<m, n>>].pc = "new"
  <2>1. <<m, n>> \in Requests /\ <<m, n>> \in Deliveries /\ req[<<m, n>>].pc = "new"
    BY <1>1, <1>2, Delivery DEF Heard
  <2> QED BY <2>1 DEF Onward, Moves, Open
<1>3. ASSUME told[m].verdict = "250" PROVE told[m].n > 0 /\ req'[<<m, told[m].n>>].pc = "ok"
  <2>1. told[m].n > 0 /\ req[<<m, told[m].n>>].pc = "ok"
    BY <1>1, <1>3 DEF Heard
  <2>2. told[m].n \in 1..MaxDeliveries
    BY <1>1, <2>1, IntakeAssumption
  <2> QED BY <2>1, <2>2, Delivery, Settled DEF Closed
<1> QED BY <1>2, <1>3 DEF Heard

\* An object its request will not keep is one the request was writing.
LEMMA InHand ==
  ASSUME IInv, NEW q \in Requests, Open(q), NEW o \in obj, o[1] = q, o[2] \in req[q].left
  PROVE  o[2] = req[q].at /\ o \in Of(q, req[q].at) /\ \E i \in 1..req[q].put : o = Here(q, i)
<1>1. Written(o) /\ o \in Objects
  BY DEF IInv, Typed
<1> QED BY <1>1 DEF Written, Of

\* What has neither rows nor a receipt, no cleanup and is not astray is in hand.
LEMMA Accounted ==
  ASSUME IInv, NEW q \in Requests, Open(q), NEW o \in obj, o[1] = q,
         Copy(o) \notin row \cup erasing, janitor[o] = {}, o \notin stray
  PROVE  o[2] = req[q].at /\ o \in Of(q, req[q].at) /\ \E i \in 1..req[q].put : o = Here(q, i)
<1>1. o[2] = req[q].at
  BY DEF IInv, BytesAccounted
<1>2. req[q].at \in req[q].left
  BY AtFacts DEF IInv
<1> QED BY <1>1, <1>2, InHand

Rest == /\ \A q \in Requests : Shaped(q) /\ Stored(q) /\ Recorded(q)
        /\ \A m \in Mails : Heard(m)
        /\ \A o \in obj : Written(o)
        /\ \A s \in row \cup erasing : Behind(s)
        /\ row \cap erasing = {}
        /\ \A o \in Objects : Backed(o)
        /\ \A o \in stray : Abandoned(o)
        /\ Seen
        /\ BytesAccounted

\* A request that begins: nothing of it is in the bucket.
LEMMA BeginKeeps ==
  ASSUME IInv, NEW q \in Requests, req[q].pc = "new", NEW us \in (SUBSET Users) \ {{}}, Begin(q, us),
         UNCHANGED <<obj, aged, row, job, janitor, erasing, stray, sweep>>,
         \A m \in Mails : Heard(m)'
  PROVE  Rest'
<1>1. Typed /\ Shaped(q)
  BY DEF IInv
<1>2. /\ Moves(q) /\ req'[q].pc = "putting" /\ req'[q].to = us /\ req'[q].left = us
      /\ req'[q].at \in us /\ req'[q].put = 0
  BY <1>1, BeginFields DEF Shaped
<1>3. Onward(q) /\ ~Open(q)
  BY <1>2 DEF Onward, Open, Closed
<1>4. \A o \in obj : o[1] \in Requests /\ o[1] # q
  BY <1>3, <1>1, Settled, ObjectFacts DEF Typed
<1>5. ASSUME NEW p \in Requests PROVE Shaped(p)' /\ Stored(p)' /\ Recorded(p)'
  <2>1. CASE p # q
    BY <2>1, <1>3, Others
  <2>2. CASE p = q
    <3>1. Len(Parts(q)) > 0
      BY PartsFacts
    <3>2. Shaped(q)'
      BY <1>2, <3>1 DEF Shaped, Open
    <3>3. Stored(q)'
      BY <1>2 DEF Stored
    <3>4. Recorded(q)'
      BY <1>2 DEF Recorded
    <3> QED BY <2>2, <3>2, <3>3, <3>4
  <2> QED BY <2>1, <2>2
<1>6. \A o \in obj : Written(o)'
  BY <1>3, <1>4, Others
<1>7. \A o \in Objects : Backed(o)'
  BY DEF IInv, Backed
<1>8. (\A o \in stray : Abandoned(o)') /\ Seen'
  BY <1>3, Settled DEF IInv, Abandoned, Seen
<1>9. BytesAccounted'
  <2> SUFFICES ASSUME NEW o \in obj
               PROVE  \/ Copy(o) \in row \cup erasing
                      \/ req'[o[1]].pc \notin Closed /\ o[2] = req'[o[1]].at
                      \/ janitor[o] # {} \/ o \in stray
    BY DEF BytesAccounted
  <2>1. req'[o[1]] = req[o[1]]
    BY <1>2, <1>4 DEF Moves
  <2> QED BY <2>1 DEF IInv, BytesAccounted
<1> QED BY <1>3, <1>5, <1>6, <1>7, <1>8, <1>9, Settled DEF IInv, Rest

LEMMA AcceptKeeps == ASSUME IInv, NEW q \in Requests, Accept(q) PROVE Rest'
<1>1. PICK u \in Users : Begin(q, {u})
  BY DEF Accept
<1>2. {u} \in (SUBSET Users) \ {{}}
  OBVIOUS
<1>3. Onward(q) /\ q \notin Deliveries
  <2>1. Moves(q) /\ req'[q].pc = "putting"
    BY <1>1, <1>2, BeginFields DEF IInv
  <2> QED BY <2>1, IntakeAssumption DEF Onward, Open, Closed, Accept
<1> QED BY <1>1, <1>2, <1>3, StillHeard, BeginKeeps DEF Accept

LEMMA DeliverKeeps == ASSUME IInv, NEW m \in Mails, Deliver(m) PROVE Rest'
<1>1. Typed /\ Heard(m) /\ told[m].n \in 0..MaxDeliveries
  BY DEF IInv, Typed
<1>2. PICK n \in 1..MaxDeliveries : n = told[m].n + 1
  BY <1>1, IntakeAssumption DEF Deliver
<1>2a. PICK q \in Requests : q = <<m, n>>
  BY <1>2, Delivery
<1>3. req[q].pc = "new" /\ Shaped(q)
  BY <1>1, <1>2, <1>2a, Delivery DEF Heard, IInv
<1>4. /\ \A k \in Mails : k # m => told'[k] = told[k]
      /\ told'[m].n = n /\ told'[m].verdict = "none"
  BY <1>1, <1>2 DEF Deliver, Typed
<1>5. Moves(q) => \A k \in Mails : Heard(k)'
  <2> SUFFICES ASSUME Moves(q), NEW k \in Mails PROVE Heard(k)'
    OBVIOUS
  <2>1. Heard(k) /\ told[k].n \in 0..MaxDeliveries
    BY DEF IInv, Typed
  <2>2. ASSUME NEW j \in 1..MaxDeliveries, j > told'[k].n PROVE req'[<<k, j>>].pc = "new"
    <3>1. j > told[k].n /\ (k = m => j # n)
      BY <1>1, <1>2, <1>4, <2>2, <2>1
    <3>2. <<k, j>> # q /\ <<k, j>> \in Requests
      BY <1>2a, <3>1, Delivery
    <3> QED BY <2>1, <3>1, <3>2 DEF Heard, Moves
  <2>3. ASSUME told'[k].verdict = "250" PROVE told'[k].n > 0 /\ req'[<<k, told'[k].n>>].pc = "ok"
    <3>1. k # m /\ told'[k] = told[k]
      BY <1>4, <2>3
    <3>2. told[k].n > 0 /\ req[<<k, told[k].n>>].pc = "ok"
      BY <2>1, <2>3, <3>1 DEF Heard
    <3>3. <<k, told[k].n>> # q /\ <<k, told[k].n>> \in Requests
      BY <1>2a, <2>1, <3>1, <3>2, Delivery, IntakeAssumption
    <3> QED BY <3>1, <3>2, <3>3 DEF Moves
  <2> QED BY <2>2, <2>3 DEF Heard
<1>6. CASE \E us \in (SUBSET Users) \ {{}} : Begin(q, us)
  <2>1. PICK us \in (SUBSET Users) \ {{}} : Begin(q, us)
    BY <1>6
  <2>2. Moves(q)
    BY <1>1, <1>3, <2>1, BeginFields
  <2> QED BY <1>3, <1>5, <2>1, <2>2, BeginKeeps DEF Deliver
<1>7. CASE req' = [req EXCEPT ![q].pc = "refused"]
  <2>1. /\ Moves(q) /\ req'[q].pc = "refused" /\ req'[q].to = {} /\ req'[q].left = {}
    BY <1>1, <1>3, <1>7, FailFields DEF Closed, Shaped
  <2>2. Onward(q) /\ ~Open(q) /\ ~Open(q)'
    BY <1>3, <2>1 DEF Onward, Open, Closed
  <2>3. \A o \in obj : o[1] \in Requests /\ o[1] # q
    BY <1>1, <1>3, <2>2, Settled, ObjectFacts DEF Typed
  <2>4. ASSUME NEW p \in Requests PROVE Shaped(p)' /\ Stored(p)' /\ Recorded(p)'
    <3>0. UNCHANGED <<obj, job>>
      BY DEF Deliver
    <3>1. CASE p # q
      BY <3>0, <3>1, <2>2, Others
    <3>2. CASE p = q
      BY <3>2, <2>1, <2>2 DEF Shaped, Stored, Recorded
    <3> QED BY <3>1, <3>2
  <2>5. \A o \in obj : Written(o)'
    BY <1>3, <2>2, <2>3, Others
  <2>6. UNCHANGED <<obj, aged, row, job, janitor, erasing, stray, sweep>>
    BY DEF Deliver
  <2>7. \A o \in Objects : Backed(o)'
    BY <2>6 DEF IInv, Backed
  <2>8. (\A o \in stray : Abandoned(o)') /\ Seen'
    BY <1>3, <2>2, <2>6, Settled DEF IInv, Abandoned, Seen
  <2>9. BytesAccounted'
    <3> SUFFICES ASSUME NEW o \in obj
                 PROVE  \/ Copy(o) \in row \cup erasing
                        \/ req'[o[1]].pc \notin Closed /\ o[2] = req'[o[1]].at
                        \/ janitor[o] # {} \/ o \in stray
      BY <2>6 DEF BytesAccounted
    <3>1. req'[o[1]] = req[o[1]]
      BY <2>1, <2>3 DEF Moves
    <3> QED BY <3>1 DEF IInv, BytesAccounted
  <2> QED BY <1>3, <1>5, <2>1, <2>2, <2>4, <2>5, <2>6, <2>7, <2>8, <2>9, Settled DEF IInv, Rest
<1>8. (\E us \in (SUBSET Users) \ {{}} : Begin(q, us)) \/ req' = [req EXCEPT ![q].pc = "refused"]
  BY <1>2, <1>2a DEF Deliver
<1> QED BY <1>6, <1>7, <1>8

\* One more part of the copy in hand.
LEMMA PutKeeps == ASSUME IInv, NEW q \in Requests, Put(q) PROVE Rest'
<1> DEFINE new == Here(q, req[q].put + 1)
<1>1. Typed /\ Shaped(q) /\ Stored(q) /\ Recorded(q) /\ Open(q) /\ req[q].pc = "putting"
  BY DEF IInv, Put, Open
<1>2. /\ Moves(q) /\ req'[q].to = req[q].to /\ req'[q].left = req[q].left
      /\ req'[q].at = req[q].at /\ req'[q].put = req[q].put + 1
      /\ req'[q].pc = IF req[q].put + 1 = Len(Parts(q)) THEN "deciding" ELSE "putting"
  BY <1>1, PutFields
<1>3. Onward(q) /\ Open(q)'
  BY <1>1, <1>2 DEF Onward, Open, Closed
<1>4. /\ new \in Objects /\ new[1] = q /\ new[2] = req[q].at
      /\ req[q].at \in req[q].left /\ req[q].put \in Nat /\ req[q].put < Len(Parts(q))
  BY <1>1, AtFacts, HereFacts, TypeFacts DEF Shaped
<1>5. obj' = obj \cup {new} /\ UNCHANGED <<told, aged, row, job, janitor, erasing, stray, sweep>>
  BY DEF Put
<1>6. \A i : Here(q, i)' = Here(q, i)
  BY <1>2 DEF Here
<1> HIDE DEF new
<1>7. ASSUME NEW p \in Requests PROVE Shaped(p)' /\ Stored(p)' /\ Recorded(p)'
  <2>1. CASE p # q
    BY <2>1, <1>3, <1>5, Others
  <2>2. CASE p = q
    <3>1. Shaped(q)'
      <4>1. Len(Parts(q)) \in Nat
        BY PartsFacts
      <4> QED BY <1>1, <1>2, <1>3, <1>4, <4>1 DEF Shaped
    <3>2. Stored(q)'
      <4> SUFFICES ASSUME q \notin Discards, NEW i \in 1..(req[q].put + 1) PROVE Here(q, i) \in obj'
        BY <1>2, <1>6 DEF Stored
      <4>1. i \in 1..req[q].put \/ i = req[q].put + 1
        BY <1>4
      <4> QED BY <1>1, <1>5, <4>1 DEF Stored, new
    <3>3. Recorded(q)'
      BY <1>1, <1>2, <1>5 DEF Recorded
    <3> QED BY <2>2, <3>1, <3>2, <3>3
  <2> QED BY <2>1, <2>2
<1>8. ASSUME NEW o \in obj' PROVE Written(o)'
  <2>1. CASE o \in obj /\ o[1] # q
    BY <2>1, <1>1, <1>3, Others, ObjectFacts DEF Typed
  <2>2. CASE o \in obj /\ o[1] = q
    <3>1. ASSUME o[2] \in req[q].left
          PROVE  o[2] = req[q].at /\ \E i \in 1..(req[q].put + 1) : o = Here(q, i)
      BY <1>1, <1>4, <2>2, <3>1, InHand
    <3> QED BY <1>2, <1>3, <1>6, <2>2, <3>1 DEF Written, Open
  <2>3. CASE o = new
    <3>1. req[q].put + 1 \in 1..(req[q].put + 1)
      BY <1>4
    <3> QED BY <1>2, <1>3, <1>4, <1>6, <2>3, <3>1 DEF Written, Open, new
  <2> QED BY <1>5, <2>1, <2>2, <2>3
<1>9. \A o \in Objects : Backed(o)'
  BY <1>5 DEF IInv, Backed
<1>10. (\A o \in stray : Abandoned(o)') /\ Seen'
  BY <1>3, <1>5, Settled DEF IInv, Abandoned, Seen
<1>11. BytesAccounted'
  <2> SUFFICES ASSUME NEW o \in obj'
               PROVE  \/ Copy(o) \in row \cup erasing
                      \/ req'[o[1]].pc \notin Closed /\ o[2] = req'[o[1]].at
                      \/ janitor[o] # {} \/ o \in stray
    BY <1>5 DEF BytesAccounted
  <2>1. CASE o \in obj /\ o[1] # q
    <3>1. req'[o[1]] = req[o[1]]
      BY <2>1, <1>1, <1>2, ObjectFacts DEF Moves, Typed
    <3> QED BY <2>1, <3>1 DEF IInv, BytesAccounted
  <2>2. CASE o \in obj /\ o[1] = q
    BY <2>2, <1>2, <1>3 DEF IInv, BytesAccounted, Open, Closed
  <2>3. CASE o = new
    BY <2>3, <1>2, <1>3, <1>4 DEF Open, Closed
  <2> QED BY <1>5, <2>1, <2>2, <2>3
<1>12. \A m \in Mails : Heard(m)'
  BY <1>1, <1>3, <1>5, StillHeard
<1> QED BY <1>3, <1>5, <1>7, <1>8, <1>9, <1>10, <1>11, <1>12, Settled DEF IInv, Rest

\* A request that gives up: of the copy in hand, what stays is left to the sweep.
LEMMA GiveUpKeeps ==
  ASSUME IInv, NEW q \in Requests, Open(q), req' = [req EXCEPT ![q].pc = "failed"],
         \A o \in obj' : o \in obj \/ (o \in Of(q, req[q].at) /\ o \in stray'),
         \A o \in obj : o \in obj' \/ o \in Of(q, req[q].at),
         \A o \in obj' : (\E i \in 1..req[q].put : o = Here(q, i)) => o \in stray',
         stray \subseteq stray', \A o \in stray' : o \in stray \/ o \in Of(q, req[q].at),
         aged' \subseteq aged, UNCHANGED <<told, row, job, janitor, erasing, sweep>>
  PROVE  Rest'
<1>1. Typed /\ Shaped(q) /\ Stored(q) /\ Recorded(q)
  BY DEF IInv
<1>2. /\ Moves(q) /\ req'[q].pc = "failed" /\ req'[q].to = req[q].to /\ req'[q].left = req[q].left
      /\ req'[q].at = req[q].at /\ req'[q].put = req[q].put
  BY <1>1, FailFields DEF Closed
<1>3. Onward(q) /\ ~Open(q)'
  BY <1>2 DEF Onward, Open, Closed
<1>4. req[q].at \in req[q].left
  BY <1>1, AtFacts
<1>4a. \A o \in Of(q, req[q].at) : o \in Objects /\ o[1] = q /\ o[2] = req[q].at /\ Copy(o) = <<q, req[q].at>>
  BY DEF Of, Copy
<1>4b. <<q, req[q].at>> \notin row \cup erasing
  BY <1>4 DEF IInv, Behind
<1>5. \A o \in obj' \ obj : o[1] = q
  BY <1>4a
<1>6. ASSUME NEW p \in Requests PROVE Shaped(p)' /\ Stored(p)' /\ Recorded(p)'
  <2>1. CASE p # q
    <3>1. Shaped(p)' /\ Recorded(p)'
      BY <2>1, <1>3, Others
    <3>2. Stored(p)'
      <4>1. req'[p] = req[p] /\ Shaped(p) /\ Stored(p)
        BY <2>1, <1>2 DEF Moves, IInv
      <4>2. ASSUME Open(p), p \notin Discards, NEW i \in 1..req[p].put PROVE Here(p, i) \in obj'
        <5>1. Here(p, i) \in obj /\ Here(p, i)[1] = p
          BY <4>1, <4>2, <1>1, AtFacts, HereFacts DEF Stored
        <5> QED BY <5>1, <2>1, <1>4a
      <4> QED BY <4>1, <4>2 DEF Stored, Open, Here
    <3> QED BY <3>1, <3>2
  <2>2. CASE p = q
    BY <2>2, <1>1, <1>2, <1>3 DEF Shaped, Stored, Recorded
  <2> QED BY <2>1, <2>2
<1>7. ASSUME NEW o \in obj' PROVE Written(o)'
  <2>1. CASE o[1] = q
    BY <2>1, <1>2, <1>3 DEF Written
  <2>2. CASE o[1] # q
    BY <2>2, <1>1, <1>3, <1>5, Others, ObjectFacts DEF Typed
  <2> QED BY <2>1, <2>2
<1>8. ASSUME NEW o \in Objects PROVE Backed(o)'
  <2>1. Backed(o)
    BY DEF IInv
  <2>2. Copy(o) \in row => o \in obj'
    BY <2>1, <1>4a, <1>4b DEF Backed
  <2> QED BY <2>1, <2>2 DEF Backed
<1>9. ASSUME NEW o \in stray' PROVE Abandoned(o)'
  <2>1. CASE o \in stray
    BY <2>1, <1>3, Settled DEF IInv, Abandoned
  <2>2. CASE o \in Of(q, req[q].at)
    BY <2>2, <1>2, <1>4a, <1>4b DEF Abandoned
  <2> QED BY <2>1, <2>2
<1>10. Seen'
  BY <1>3, Settled DEF IInv, Seen
<1>11. BytesAccounted'
  <2> SUFFICES ASSUME NEW o \in obj'
               PROVE  \/ Copy(o) \in row \cup erasing
                      \/ req'[o[1]].pc \notin Closed /\ o[2] = req'[o[1]].at
                      \/ janitor[o] # {} \/ o \in stray'
    BY DEF BytesAccounted
  <2>1. CASE o \in obj /\ o[1] # q
    <3>1. req'[o[1]] = req[o[1]]
      BY <2>1, <1>1, <1>2, ObjectFacts DEF Moves, Typed
    <3> QED BY <2>1, <3>1 DEF IInv, BytesAccounted
  <2>2. CASE o \in obj /\ o[1] = q
    BY <2>2, Accounted
  <2>3. CASE o \notin obj
    BY <2>3
  <2> QED BY <2>1, <2>2, <2>3
<1>12. \A m \in Mails : Heard(m)'
  BY <1>3, StillHeard
<1> QED BY <1>3, <1>6, <1>7, <1>8, <1>9, <1>10, <1>11, <1>12, Settled DEF IInv, Rest

LEMMA HereInOf ==
  ASSUME NEW q \in Requests, req[q].at \in Users, NEW i \in 1..Len(Parts(q))
  PROVE  Here(q, i) \in Of(q, req[q].at)
  BY HereFacts DEF Of

LEMMA PutFailsKeeps == ASSUME IInv, NEW q \in Requests, PutFails(q) PROVE Rest'
<1>1. Typed /\ Shaped(q) /\ Open(q) /\ req[q].pc = "putting"
  BY DEF IInv, PutFails, Open
<1>2. req[q].at \in Users /\ req[q].put \in Nat /\ req[q].put + 1 \in 1..Len(Parts(q)) /\ Len(Parts(q)) \in Nat
  BY <1>1, AtFacts, TypeFacts, PartsFacts
<1>3. PICK n \in {req[q].put, req[q].put + 1} :
           /\ obj' = obj \cup {Here(q, i) : i \in 1..n}
           /\ stray' = stray \cup {Here(q, i) : i \in 1..n}
  BY <1>2 DEF PutFails
<1>4. \A i \in 1..n : i \in 1..Len(Parts(q))
  BY <1>2
<1>5. \A i \in 1..n : Here(q, i) \in Of(q, req[q].at)
  BY <1>2, <1>4, HereInOf
<1>6. \A i \in 1..req[q].put : i \in 1..n
  BY <1>2
<1> QED BY <1>1, <1>3, <1>5, <1>6, GiveUpKeeps DEF PutFails

LEMMA CrashKeeps == ASSUME IInv, NEW q \in Requests, Crash(q) PROVE Rest'
<1>1. Typed /\ Shaped(q) /\ Open(q)
  BY DEF IInv, Crash, Open
<1>2. \A i \in 1..req[q].put : Here(q, i) \in Of(q, req[q].at)
  BY <1>1, AtFacts, HereInOf
<1> QED BY <1>1, <1>2, GiveUpKeeps DEF Crash

LEMMA RollBackKeeps == ASSUME IInv, NEW q \in Requests, RollBack(q) PROVE Rest'
<1>1. Typed /\ Shaped(q) /\ Open(q)
  BY DEF IInv, RollBack, Open
<1>2. PICK kept \in SUBSET Of(q, req[q].at) :
           obj' = obj \ (Of(q, req[q].at) \ kept) /\ stray' = stray \cup kept
  BY DEF RollBack
<1>3. \A i \in 1..req[q].put : Here(q, i) \in Of(q, req[q].at)
  BY <1>1, AtFacts, HereInOf
<1> QED BY <1>1, <1>2, <1>3, GiveUpKeeps DEF RollBack

\* The copy in hand gets its rows and jobs, or for a staged upload its backstop.
LEMMA CommitKeeps == ASSUME IInv, NEW q \in Requests, Commit(q) PROVE Rest'
<1> DEFINE left == req[q].left \ {req[q].at}
<1>1. /\ Typed /\ Shaped(q) /\ Stored(q) /\ Recorded(q) /\ Open(q)
      /\ req[q].pc = "deciding" /\ Record(q, {"backstop"})
  BY DEF IInv, Commit, Open
<1>2. /\ Moves(q) /\ req'[q].to = req[q].to /\ req'[q].left = left /\ req'[q].put = 0
      /\ left = {} => req'[q].pc = "ok"
      /\ left # {} => req'[q].pc = "putting" /\ req'[q].at \in left
  BY <1>1, RecordFields
<1>3. Onward(q)
  BY <1>1, <1>2 DEF Onward, Open, Closed
<1>4a. req[q].at \in Users
  BY <1>1, AtFacts
<1>4b. PICK u \in Users : u = req[q].at
  BY <1>4a
<1>4. u \in Users /\ u \in req[q].left /\ req[q].put = Len(Parts(q)) /\ req[q].left \subseteq req[q].to
  BY <1>1, <1>4b, AtFacts DEF Shaped
<1>5. \A o \in Objects : o \in Of(q, u) <=> o[1] = q /\ o[2] = u
  BY DEF Of
<1>6. /\ row' = IF q \in Discards THEN row ELSE row \cup {<<q, u>>}
      /\ \A o \in Objects : job'[o] = IF o \in Of(q, u) THEN [NoJob EXCEPT !.st = "queued"] ELSE job[o]
      /\ \A o \in Objects : janitor'[o] = IF o \in Of(q, u) /\ q \in Discards THEN {"backstop"} ELSE janitor[o]
      /\ UNCHANGED <<told, obj, aged, erasing, stray, sweep>>
  BY <1>1, <1>4b DEF Record
<1>7. <<q, u>> \notin row \cup erasing
  BY <1>1, <1>4 DEF IInv, Behind
<1>8. \A o \in Objects : Copy(o) = <<q, u>> <=> o \in Of(q, u)
  BY <1>5 DEF Copy
<1>9. \A o \in Objects : /\ o \in Of(q, u) => job'[o].st = "queued"
                         /\ o \notin Of(q, u) => job'[o] = job[o]
  BY <1>6 DEF NoJob
<1>10. \A o \in Of(q, u) : q \notin Discards => o \in obj
  <2> SUFFICES ASSUME NEW o \in Of(q, u), q \notin Discards PROVE o \in obj
    OBVIOUS
  <2>1. PICK i \in 1..Len(Parts(q)) : o = Here(q, i)
    BY <1>4b, OfHere
  <2> QED BY <2>1, <1>1, <1>4 DEF Stored
<1>11. ASSUME NEW p \in Requests PROVE Shaped(p)' /\ Stored(p)' /\ Recorded(p)'
  <2>1. CASE p # q
    <3>1. \A o \in Objects : job[o].st # "none" => job'[o].st # "none"
      BY <1>9
    <3> QED BY <2>1, <3>1, <1>3, <1>6, Others
  <2>2. CASE p = q
    <3>1. Shaped(q)'
      <4>1. Len(Parts(q)) > 0
        BY PartsFacts
      <4> QED BY <1>2, <1>4, <4>1 DEF Shaped, Open
    <3>2. Stored(q)'
      BY <1>2 DEF Stored
    <3>3. Recorded(q)'
      <4> SUFFICES ASSUME NEW v \in req[q].to \ left, NEW o \in Of(q, v) PROVE job'[o].st # "none"
        BY <1>2 DEF Recorded, Of
      <4>1. CASE v = u
        BY <4>1, <1>9 DEF Of
      <4>2. CASE v # u
        <5>1. job[o].st # "none"
          BY <4>2, <1>1, <1>4b DEF Recorded
        <5> QED BY <4>2, <5>1, <1>9 DEF Of
      <4> QED BY <4>1, <4>2
    <3> QED BY <2>2, <3>1, <3>2, <3>3
  <2> QED BY <2>1, <2>2
<1>12. ASSUME NEW o \in obj PROVE Written(o)'
  <2>1. CASE o[1] # q
    BY <2>1, <1>1, <1>3, Others, ObjectFacts DEF Typed
  <2>2. CASE o[1] = q
    <3>1. o[2] \notin left
      BY <2>2, <1>1, <1>4b, InHand
    <3> QED BY <3>1, <2>2, <1>2, <1>3 DEF Written, Onward
  <2> QED BY <2>1, <2>2
<1>13. \A s \in (row \cup erasing)' : Behind(s)'
  <2>1. q \notin Discards => Behind(<<q, u>>)'
    BY <1>2, <1>3, <1>4b DEF Behind, Onward
  <2> QED BY <2>1, <1>3, <1>6, Settled
<1>14. (row \cap erasing)' = {}
  BY <1>6, <1>7 DEF IInv
<1>15. ASSUME NEW o \in Objects PROVE Backed(o)'
  <2>1. Backed(o)
    BY DEF IInv
  <2>2. CASE o \in Of(q, u)
    BY <2>1, <2>2, <1>5, <1>6, <1>9, <1>10 DEF Backed
  <2>3. CASE o \notin Of(q, u)
    BY <2>1, <2>3, <1>6, <1>8, <1>9 DEF Backed
  <2> QED BY <2>2, <2>3
<1>16. ASSUME NEW o \in stray PROVE Abandoned(o)'
  <2>1. o \in Objects /\ Abandoned(o)
    BY <1>1 DEF IInv, Typed
  <2>2. o[1] # q \/ q \in Discards
    BY <1>1, <2>1 DEF Abandoned
  <2>3. Copy(o) \notin row'
    BY <2>1, <2>2, <1>6, <1>8, <1>5 DEF Abandoned
  <2> QED BY <2>3, <1>3, <1>6, Settled DEF Abandoned
<1>17. Seen'
  <2>1. ASSUME NEW o \in sweep.alerts PROVE Copy(o) \notin row'
    <3>1. o \in Objects /\ req[o[1]].pc \in Closed /\ Copy(o) \notin row
      BY <1>1 DEF IInv, Typed, Seen
    <3>2. o[1] # q
      BY <3>1, <1>1 DEF Closed
    <3> QED BY <3>1, <3>2, <1>5, <1>6, <1>8
  <2> QED BY <2>1, <1>3, <1>6, Settled DEF IInv, Seen
<1>18. BytesAccounted'
  <2> SUFFICES ASSUME NEW o \in obj
               PROVE  \/ Copy(o) \in row' \cup erasing
                      \/ req'[o[1]].pc \notin Closed /\ o[2] = req'[o[1]].at
                      \/ janitor'[o] # {} \/ o \in stray
    BY <1>6 DEF BytesAccounted
  <2>0. o \in Objects /\ o[1] \in Requests
    BY <1>1, ObjectFacts DEF Typed
  <2>1. CASE o[1] # q
    <3>1. req'[o[1]] = req[o[1]] /\ janitor'[o] = janitor[o] /\ row \subseteq row'
      BY <2>0, <2>1, <1>2, <1>5, <1>6 DEF Moves
    <3> QED BY <3>1 DEF IInv, BytesAccounted
  <2>2. CASE o \in Of(q, u)
    BY <2>0, <2>2, <1>6, <1>8
  <2>3. CASE o[1] = q /\ o \notin Of(q, u)
    <3>1. janitor'[o] = janitor[o] /\ row \subseteq row'
      BY <2>0, <2>3, <1>6
    <3>2. Copy(o) \in row \cup erasing \/ janitor[o] # {} \/ o \in stray
      BY <2>3, <1>1, <1>4b, Accounted
    <3> QED BY <3>1, <3>2
  <2> QED BY <2>1, <2>2, <2>3
<1>19. \A m \in Mails : Heard(m)'
  BY <1>1, <1>3, <1>6, StillHeard
<1> QED BY <1>3, <1>6, <1>11, <1>12, <1>13, <1>14, <1>15, <1>16, <1>17, <1>18, <1>19 DEF Rest

-----------------------------------------------------------------------------
(* The verdict, the runs, the saga and the sweep move no request.          *)

LEMMA Still ==
  ASSUME IInv, UNCHANGED req
  PROVE  /\ \A q \in Requests : Shaped(q)'
         /\ obj' = obj => \A q \in Requests : Stored(q)'
         /\ (\A o \in Objects : job[o].st # "none" => job'[o].st # "none") => \A q \in Requests : Recorded(q)'
         /\ told' = told => \A m \in Mails : Heard(m)'
         /\ \A o \in obj : Written(o)'
         /\ \A s \in row \cup erasing : Behind(s)'
         /\ row' \subseteq row => \A o \in stray : Abandoned(o)'
         /\ row' \subseteq row /\ aged' \subseteq aged /\ sweep' = sweep => Seen'
<1>1. \A q, i : Here(q, i)' = Here(q, i)
  BY DEF Here
<1>2. \A q : Open(q)' <=> Open(q)
  BY DEF Open
<1>3. \A q \in Requests : Shaped(q)'
  BY <1>2 DEF IInv, Shaped
<1>4. obj' = obj => \A q \in Requests : Stored(q)'
  BY <1>1, <1>2 DEF IInv, Stored
<1>5. ASSUME \A o \in Objects : job[o].st # "none" => job'[o].st # "none"
      PROVE  \A q \in Requests : Recorded(q)'
  BY <1>5 DEF IInv, Recorded, Of
<1>6. told' = told => \A m \in Mails : Heard(m)'
  BY DEF IInv, Heard
<1>7. \A o \in obj : Written(o)'
  BY <1>1, <1>2 DEF IInv, Written
<1>8. \A s \in row \cup erasing : Behind(s)'
  BY <1>2 DEF IInv, Behind
<1>9. row' \subseteq row => \A o \in stray : Abandoned(o)'
  BY DEF IInv, Abandoned
<1>10. row' \subseteq row /\ aged' \subseteq aged /\ sweep' = sweep => Seen'
  BY DEF IInv, Seen
<1> QED BY <1>3, <1>4, <1>5, <1>6, <1>7, <1>8, <1>9, <1>10

LEMMA AnswerKeeps == ASSUME IInv, NEW m \in Mails, Answer(m) PROVE Rest'
<1>1. ASSUME NEW k \in Mails PROVE Heard(k)'
  <2>1. Heard(k) /\ Typed
    BY DEF IInv
  <2>2. /\ req' = req /\ told'[k].n = told[k].n
        /\ told'[k].verdict = "250" =>
             told[k].verdict = "250" \/ (told[k].n > 0 /\ req[<<k, told[k].n>>].pc = "ok")
    <3>1. req' = req /\ told[m].n > 0
      BY DEF Answer
    <3>2. PICK v \in {"250", "451", "550"} :
               told' = [told EXCEPT ![m].verdict = v] /\ (v = "250" => req[<<m, told[m].n>>].pc = "ok")
      BY DEF Answer
    <3>3. told'[k].n = told[k].n
      BY <2>1, <3>2 DEF Typed
    <3>4. told'[k].verdict = IF k = m THEN v ELSE told[k].verdict
      BY <2>1, <3>2 DEF Typed
    <3> QED BY <3>1, <3>2, <3>3, <3>4
  <2> QED BY <2>1, <2>2 DEF Heard
<1>2. UNCHANGED <<req, obj, aged, row, job, janitor, erasing, stray, sweep>>
  BY DEF Answer
<1>3. (\A o \in Objects : Backed(o)') /\ BytesAccounted'
  BY <1>2 DEF IInv, Backed, BytesAccounted
<1> QED BY <1>1, <1>2, <1>3, Still DEF IInv, Rest

\* A job is found, finished or failed: it never goes back to having none, and a
\* run that finds nothing has lost its row.
LEMMA JobKeeps ==
  ASSUME IInv, NEW o \in Objects, Load(o) \/ Finish(o) \/ Fail(o)
  PROVE  Rest'
<1>1. Typed /\ UNCHANGED <<req, told, obj, aged, row, erasing, stray, sweep>>
  BY DEF IInv, Load, Finish, Fail
<1>2. \A p \in Objects : p # o => job'[p] = job[p] /\ janitor'[p] = janitor[p]
  BY <1>1 DEF Typed, Load, Finish, Fail
<1>3. janitor'[o] = janitor[o] \/ (o[1] \in Discards /\ janitor[o] \subseteq janitor'[o])
  <2>1. CASE Load(o) \/ Fail(o)
    BY <2>1 DEF Load, Fail
  <2>2. CASE Finish(o)
    <3>1. janitor'[o] = janitor[o] \cup IF o[1] \in Discards THEN {"immediate"} ELSE {}
      BY <1>1, <2>2 DEF Typed, Finish
    <3>2. CASE o[1] \in Discards
      BY <3>1, <3>2
    <3>3. CASE o[1] \notin Discards
      BY <3>1, <3>3
    <3> QED BY <3>2, <3>3
  <2> QED BY <2>1, <2>2
<1>4. /\ job'[o].st # "none"
      /\ job'[o].st = "lost" /\ o[1] \notin Discards => Copy(o) \notin row
  <2>1. CASE Load(o)
    <3>1. job'[o].st = IF Found(o) THEN "loaded" ELSE "lost"
      BY <2>1, <1>1 DEF Load, Typed
    <3>2. Backed(o)
      BY DEF IInv
    <3> QED BY <3>1, <3>2 DEF Found, Backed
  <2>2. CASE Finish(o)
    BY <2>2, <1>1 DEF Finish, Typed
  <2>3. CASE Fail(o)
    BY <2>3, <1>1 DEF Fail, Typed
  <2> QED BY <2>1, <2>2, <2>3
<1>5. \A p \in Objects : job[p].st # "none" => job'[p].st # "none"
  BY <1>2, <1>4
<1>6. ASSUME NEW p \in Objects PROVE Backed(p)'
  <2>1. Backed(p)
    BY DEF IInv
  <2>2. CASE p = o
    BY <2>1, <2>2, <1>1, <1>3, <1>4 DEF Backed
  <2>3. CASE p # o
    BY <2>1, <2>3, <1>1, <1>2 DEF Backed
  <2> QED BY <2>2, <2>3
<1>7. BytesAccounted'
  <2> SUFFICES ASSUME NEW p \in obj
               PROVE  \/ Copy(p) \in row \cup erasing
                      \/ req[p[1]].pc \notin Closed /\ p[2] = req[p[1]].at
                      \/ janitor'[p] # {} \/ p \in stray
    BY <1>1 DEF BytesAccounted
  <2>1. p \in Objects /\ janitor[p] \subseteq janitor'[p]
    BY <1>1, <1>2, <1>3 DEF Typed
  <2> QED BY <2>1 DEF IInv, BytesAccounted
<1> QED BY <1>1, <1>5, <1>6, <1>7, Still DEF IInv, Rest

LEMMA CleanUpKeeps == ASSUME IInv, NEW o \in Objects, NEW j \in janitor[o], CleanUp(o, j) PROVE Rest'
<1>1. Typed /\ Backed(o) /\ o[1] \in Discards /\ o[1] \in Requests
  BY ObjectFacts DEF IInv, Backed
<1>2. /\ UNCHANGED <<req, told, row, job, erasing, sweep>>
      /\ \A p \in Objects : p # o => janitor'[p] = janitor[p]
      /\ janitor'[o] \subseteq janitor[o]
      /\ obj' \subseteq obj /\ aged' \subseteq aged
      /\ \A p \in obj : p # o => p \in obj'
      /\ o \in obj' => o \in stray'
      /\ stray \subseteq stray' /\ stray' \subseteq stray \cup {o}
  BY <1>1 DEF CleanUp, Typed
<1>3. Copy(o) \notin row
  BY <1>1 DEF IInv, Behind, Copy
<1>4. ASSUME NEW q \in Requests PROVE Stored(q)'
  <2>1. Stored(q) /\ Shaped(q)
    BY DEF IInv
  <2>2. ASSUME Open(q), q \notin Discards, NEW i \in 1..req[q].put PROVE Here(q, i) \in obj'
    <3>1. Here(q, i) \in obj /\ Here(q, i)[1] = q
      BY <2>1, <2>2, <1>1, AtFacts, HereFacts DEF Stored
    <3> QED BY <3>1, <2>2, <1>1, <1>2
  <2> QED BY <2>2, <1>2 DEF Stored, Open, Here
<1>5. \A p \in Objects : Backed(p)'
  BY <1>1, <1>2, <1>3 DEF IInv, Backed
<1>6. \A p \in stray' : Abandoned(p)'
  <2>1. Abandoned(o)'
    BY <1>1, <1>2, <1>3 DEF Abandoned
  <2> QED BY <2>1, <1>2, Still
<1>7. BytesAccounted'
  <2> SUFFICES ASSUME NEW p \in obj'
               PROVE  \/ Copy(p) \in row \cup erasing
                      \/ req[p[1]].pc \notin Closed /\ p[2] = req[p[1]].at
                      \/ janitor'[p] # {} \/ p \in stray'
    BY <1>2 DEF BytesAccounted
  <2>1. CASE p = o
    BY <2>1, <1>2
  <2>2. CASE p # o
    <3>1. p \in Objects /\ p \in obj
      BY <1>1, <1>2 DEF Typed
    <3> QED BY <3>1, <2>2, <1>2 DEF IInv, BytesAccounted
  <2> QED BY <2>1, <2>2
<1> QED BY <1>2, <1>4, <1>5, <1>6, <1>7, Still DEF IInv, Rest

LEMMA DeleteKeeps == ASSUME IInv, NEW s \in Requests \X Users, Delete(s) PROVE Rest'
<1>1. /\ UNCHANGED <<req, told, obj, aged, job, janitor, stray, sweep>>
      /\ s \in row /\ row' = row \ {s} /\ erasing' = erasing \cup {s}
  BY DEF Delete
<1>2. \A o \in Objects : Backed(o)'
  BY <1>1 DEF IInv, Backed
<1>3. BytesAccounted'
  BY <1>1 DEF IInv, BytesAccounted
<1> QED BY <1>1, <1>2, <1>3, Still DEF IInv, Rest

LEMMA ConfirmKeeps == ASSUME IInv, NEW s \in Requests \X Users, Confirm(s) PROVE Rest'
<1>1. /\ UNCHANGED <<req, told, row, job, janitor, stray, sweep>>
      /\ s \in erasing /\ erasing' = erasing \ {s}
      /\ obj' = obj \ Of(s[1], s[2]) /\ aged' \subseteq aged
  BY DEF Confirm
<1>2. Typed /\ Behind(s) /\ s \notin row /\ s = <<s[1], s[2]>>
  BY <1>1 DEF IInv
<1>3. \A o \in Objects : Copy(o) = s <=> o \in Of(s[1], s[2])
  BY <1>2 DEF Of, Copy
<1>4. ASSUME NEW q \in Requests PROVE Stored(q)'
  <2>1. Stored(q) /\ Shaped(q)
    BY DEF IInv
  <2>2. ASSUME Open(q), q \notin Discards, NEW i \in 1..req[q].put PROVE Here(q, i) \in obj'
    <3>1. /\ Here(q, i) \in obj /\ Here(q, i)[1] = q /\ Here(q, i)[2] = req[q].at
          /\ req[q].at \in req[q].left
      BY <2>1, <2>2, <1>2, AtFacts, HereFacts DEF Stored
    <3>2. Here(q, i) \notin Of(s[1], s[2])
      BY <3>1, <2>2, <1>2 DEF Of, Behind
    <3> QED BY <3>1, <3>2, <1>1
  <2> QED BY <2>2, <1>1 DEF Stored, Open, Here
<1>5. \A o \in Objects : Backed(o)'
  BY <1>1, <1>2, <1>3 DEF IInv, Backed
<1>6. BytesAccounted'
  <2> SUFFICES ASSUME NEW o \in obj'
               PROVE  \/ Copy(o) \in row \cup erasing'
                      \/ req[o[1]].pc \notin Closed /\ o[2] = req[o[1]].at
                      \/ janitor[o] # {} \/ o \in stray
    BY <1>1 DEF BytesAccounted
  <2>1. o \in obj /\ o \in Objects /\ Copy(o) # s
    BY <1>1, <1>2, <1>3 DEF Typed
  <2> QED BY <2>1, <1>1 DEF IInv, BytesAccounted
<1> QED BY <1>1, <1>4, <1>5, <1>6, Still DEF IInv, Rest

\* What a pass lists is old, so its request is through; what it reports had no
\* row when it looked.
LEMMA SweepKeeps == ASSUME IInv, SweepStep PROVE Rest'
<1>1. UNCHANGED <<req, told, obj, row, job, janitor, erasing, stray>>
  BY DEF SweepStep, Age, SweepList, SweepProbe
<1>2. Seen'
  <2>1. CASE Age
    BY <2>1 DEF Age, IInv, Seen
  <2>2. CASE SweepList
    BY <2>2 DEF SweepList, IInv, Seen
  <2>3. CASE SweepProbe
    <3>1. ASSUME NEW o \in sweep'.alerts PROVE req[o[1]].pc \in Closed /\ Copy(o) \notin row
      <4>1. o \in sweep.listed /\ (o[3] = "staging" \/ Copy(o) \notin row)
        BY <2>3 DEF SweepProbe, IInv, Typed
      <4>2. o \in Objects /\ req[o[1]].pc \in Closed
        BY <4>1 DEF IInv, Typed, Seen
      <4>3. o[1] \in Discards => Copy(o) \notin row
        BY DEF IInv, Behind, Copy
      <4> QED BY <4>1, <4>2, <4>3, ObjectFacts
    <3>2. sweep'.listed = sweep.listed
      BY <2>3 DEF SweepProbe, IInv, Typed
    <3> QED BY <3>1, <3>2, <2>3 DEF SweepProbe, IInv, Seen
  <2> QED BY <2>1, <2>2, <2>3 DEF SweepStep
<1>3. (\A o \in Objects : Backed(o)') /\ BytesAccounted'
  BY <1>1 DEF IInv, Backed, BytesAccounted
<1> QED BY <1>1, <1>2, <1>3, Still DEF IInv, Rest

-----------------------------------------------------------------------------
(* The theorems.                                                           *)

LEMMA Initially == Init => IInv
<1> SUFFICES ASSUME Init PROVE IInv
  OBVIOUS
<1>1. Typed
  BY IntakeAssumption DEF Init, Typed, RequestRecords, NoJob
<1>2. \A q \in Requests : /\ req[q].pc = "new" /\ req[q].to = {} /\ req[q].left = {}
                          /\ req[q].at = None /\ req[q].put = 0
  BY DEF Init
<1>3. \A q \in Requests : Shaped(q) /\ Stored(q) /\ Recorded(q)
  BY <1>2 DEF Shaped, Stored, Recorded, Open
<1>4. \A m \in Mails : Heard(m)
  BY <1>2, Delivery DEF Init, Heard
<1>5. \A o \in Objects : Backed(o)
  BY DEF Init, Backed, NoJob
<1> QED BY <1>1, <1>3, <1>4, <1>5 DEF IInv, Init, Seen, BytesAccounted

LEMMA Stuttering == ASSUME IInv, UNCHANGED vars PROVE Rest'
<1>1. UNCHANGED <<req, told, obj, aged, row, job, janitor, erasing, stray, sweep>>
  BY DEF vars
<1>2. (\A o \in Objects : Backed(o)') /\ BytesAccounted'
  BY <1>1 DEF IInv, Backed, BytesAccounted
<1> QED BY <1>1, <1>2, Still DEF IInv, Rest

LEMMA Inductive == IInv /\ [Next]_vars => IInv'
<1> SUFFICES ASSUME IInv, [Next]_vars PROVE IInv'
  OBVIOUS
<1>1. Typed'
  BY Typing
<1>2. CASE RequestStep
  BY <1>2, AcceptKeeps, PutKeeps, PutFailsKeeps, CommitKeeps, RollBackKeeps, CrashKeeps, <1>1
  DEF RequestStep, IInv, Rest
<1>3. CASE MailStep
  BY <1>3, DeliverKeeps, AnswerKeeps, <1>1 DEF MailStep, IInv, Rest
<1>4. CASE WorkerStep
  BY <1>4, JobKeeps, CleanUpKeeps, <1>1 DEF WorkerStep, IInv, Rest
<1>5. CASE SagaStep
  BY <1>5, DeleteKeeps, ConfirmKeeps, <1>1 DEF SagaStep, IInv, Rest
<1>6. CASE SweepStep
  BY <1>6, SweepKeeps, <1>1 DEF IInv, Rest
<1>7. CASE UNCHANGED vars
  BY <1>7, Stuttering, <1>1 DEF IInv, Rest
<1> QED BY <1>2, <1>3, <1>4, <1>5, <1>6, <1>7 DEF Next

\* The invariant the rest follows from holds in every reachable state.
THEOREM Invariance == Spec => []IInv
<1> QED BY Initially, Inductive, PTL DEF Spec

\* Whoever fails and wherever (uploadStore, uploadDiscard, intake), bytes in the
\* bucket are somebody's or were left to the sweep by a crash or a failed call.
THEOREM BytesHaveKeepers == Spec => []BytesAccounted
<1>1. IInv => BytesAccounted
  BY DEF IInv
<1> QED BY <1>1, Invariance, PTL

\* 250 is a promise (intake): every recipient's copy is recorded with its jobs,
\* and no run of a kept source finds nothing while the row lives.
THEOREM PromiseKept == Spec => []AcceptedIsKept
<1>1. ASSUME IInv PROVE AcceptedIsKept
  <2>1. ASSUME NEW m \in Mails, told[m].verdict = "250",
               NEW u \in req[<<m, told[m].n>>].to, NEW o \in Of(<<m, told[m].n>>, u)
        PROVE  job[o].st # "none"
    <3>1. Heard(m) /\ told[m].n \in 0..MaxDeliveries
      BY <1>1 DEF IInv, Typed
    <3>2. PICK q \in Requests : q = <<m, told[m].n>> /\ req[q].pc = "ok"
      BY <3>1, <2>1, Delivery, IntakeAssumption DEF Heard
    <3>3. req[q].left = {} /\ Recorded(q)
      BY <1>1, <3>2 DEF IInv, Shaped
    <3> QED BY <2>1, <3>2, <3>3 DEF Recorded
  <2>2. \A o \in Objects : job[o].st = "lost" /\ o[1] \notin Discards => Copy(o) \notin row
    BY <1>1 DEF IInv, Backed
  <2> QED BY <2>1, <2>2 DEF AcceptedIsKept
<1> QED BY <1>1, Invariance, PTL

\* A pass reports every abandoned object it has listed, and never one of a source
\* that lives then or later (findOrphanedObjects).
THEOREM ReportsAreRight == Spec => SweepIsRight
<1>1. ASSUME IInv, IInv', [Next]_vars
      PROVE  [ /\ sweep.pc = "listed" /\ sweep'.pc = "idle" => sweep.listed \cap stray \subseteq sweep'.alerts
               /\ \A o \in sweep'.alerts : Copy(o) \notin row' ]_vars
  <2>1. \A o \in sweep'.alerts : Copy(o) \notin row'
    BY <1>1 DEF IInv, Seen
  <2>2. ASSUME sweep.pc = "listed", sweep'.pc = "idle" PROVE sweep.listed \cap stray \subseteq sweep'.alerts
    <3>1. SweepProbe
      BY <1>1, <2>2 DEF Next, RequestStep, MailStep, WorkerStep, SagaStep, SweepStep, vars, Accept, Put,
         PutFails, Commit, Record, RollBack, Crash, Deliver, Answer, Load, Finish, Fail, CleanUp, Delete,
         Confirm, Age, SweepList
    <3>2. \A o \in stray : Copy(o) \notin row
      BY <1>1 DEF IInv, Abandoned
    <3> QED BY <1>1, <3>1, <3>2 DEF SweepProbe, IInv, Typed
  <2> QED BY <2>1, <2>2
<1> QED BY <1>1, Invariance, PTL DEF Spec, SweepIsRight

=============================================================================
