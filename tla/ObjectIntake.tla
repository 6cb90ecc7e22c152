----------------------------- MODULE ObjectIntake -----------------------------
(***************************************************************************)
(* How bytes enter the object store, and who answers for them until they   *)
(* leave: uploads that are kept, uploads that are extracted and discarded, *)
(* and inbound mail, one copy per recipient, delivered again by the mail   *)
(* server whenever it was not told 250.  Objects are written first; rows   *)
(* and jobs follow in one transaction; a failure in between is cleaned up  *)
(* by the request, and what no request, row, job or pending receipt        *)
(* accounts for is left to the nightly sweep to report.                    *)
(*                                                                         *)
(* A request q copies to users one after the other; copy <<q, u>> has the  *)
(* objects <<q, u, part>>, and each part is a pipeline job of its own.     *)
(* What a run does with the text is Erasure's; here it admits or does not. *)
(***************************************************************************)
EXTENDS Naturals, Sequences, FiniteSets

CONSTANTS
    Uploads, Discards,   \* upload requests by mode
    Mails,               \* messages a mail server wants to deliver
    Users,               \* recipients
    MaxDeliveries,       \* bound on the deliveries of one message
    MaxAttempts,         \* attempts of a pipeline job
    None

Deliveries == Mails \X (1..MaxDeliveries)
Requests   == Uploads \cup Discards \cup Deliveries

ASSUME IntakeAssumption ==
    /\ MaxDeliveries \in Nat \ {0} /\ MaxAttempts \in Nat \ {0} /\ None \notin Users
    /\ Uploads \cap Discards = {} /\ (Uploads \cup Discards) \cap Deliveries = {}

Parts(q) == IF q \in Uploads THEN <<"file">>
            ELSE IF q \in Discards THEN <<"staging">> ELSE <<"raw", "file">>
Objects  == {o \in Requests \X Users \X {"file", "staging", "raw"} :
                \E i \in 1..Len(Parts(o[1])) : Parts(o[1])[i] = o[3]}

VARIABLES
    req,       \* request |-> pc, recipients, those left, the current copy, parts written
    told,      \* message |-> deliveries begun and the last verdict its server heard
    obj,       \* objects in the bucket
    aged,      \* those older than the sweep's grace window
    row,       \* copies whose rows are committed and not deleted
    job,       \* object |-> its pipeline job
    janitor,   \* staging object |-> its queued cleanup jobs
    erasing,   \* copies whose receipt is pending
    stray,     \* history: objects whose last keeper gave up or died
    sweep      \* the orphan arm: pc, the listing, the alerts of the last pass

vars == <<req, told, obj, aged, row, job, janitor, erasing, stray, sweep>>

Closed  == {"ok", "failed", "refused"}
Copy(o) == <<o[1], o[2]>>
Of(q, u) == {o \in Objects : o[1] = q /\ o[2] = u}
NoJob   == [st |-> "none", tries |-> 0]

Init ==
    /\ req = [q \in Requests |-> [pc |-> "new", to |-> {}, left |-> {}, at |-> None, put |-> 0]]
    /\ told = [m \in Mails |-> [n |-> 0, verdict |-> "none"]]
    /\ obj = {} /\ aged = {} /\ row = {} /\ erasing = {} /\ stray = {}
    /\ job = [o \in Objects |-> NoJob]
    /\ janitor = [o \in Objects |-> {}]
    /\ sweep = [pc |-> "idle", listed |-> {}, alerts |-> {}]

-----------------------------------------------------------------------------
(* A request.                                                              *)

Begin(q, us) ==
    req' = [req EXCEPT ![q].pc = "putting", ![q].to = us, ![q].left = us, ![q].at = CHOOSE u \in us : TRUE]

\* An upload within the caps.
Accept(q) ==
    /\ q \in Uploads \cup Discards /\ req[q].pc = "new"
    /\ \E u \in Users : Begin(q, {u})
    /\ UNCHANGED <<told, obj, aged, row, job, janitor, erasing, stray, sweep>>

\* The mail server delivers, or delivers again after a 451: the gates are asked
\* anew, and the sender's users or the allowlists may have changed.
Deliver(m) ==
    /\ told[m].verdict \in {"none", "451"} /\ told[m].n < MaxDeliveries
    /\ LET q == <<m, told[m].n + 1>>
       IN /\ told' = [told EXCEPT ![m] = [n |-> @.n + 1, verdict |-> "none"]]
          /\ \/ \E us \in (SUBSET Users) \ {{}} : Begin(q, us)
             \/ req' = [req EXCEPT ![q].pc = "refused"]
    /\ UNCHANGED <<obj, aged, row, job, janitor, erasing, stray, sweep>>

Here(q, i) == <<q, req[q].at, Parts(q)[i]>>

Put(q) ==
    /\ req[q].pc = "putting"
    /\ obj' = obj \cup {Here(q, req[q].put + 1)}
    /\ req' = [req EXCEPT ![q].put = @ + 1,
                          ![q].pc = IF req[q].put + 1 = Len(Parts(q)) THEN "deciding" ELSE @]
    /\ UNCHANGED <<told, aged, row, job, janitor, erasing, stray, sweep>>

\* The puts are outside the try: a failing one leaves the objects before it, and
\* its own when only the answer was lost.
PutFails(q) ==
    /\ req[q].pc = "putting"
    /\ \E reached \in BOOLEAN :
         LET n == req[q].put + IF reached THEN 1 ELSE 0
         IN /\ obj' = obj \cup {Here(q, i) : i \in 1..n}
            /\ stray' = stray \cup {Here(q, i) : i \in 1..n}
    /\ req' = [req EXCEPT ![q].pc = "failed"]
    /\ UNCHANGED <<told, aged, row, job, janitor, erasing, sweep>>

\* Rows and jobs in one transaction, then the next recipient; a staged upload
\* has no row, but its backstop.
Record(q, backstop) ==
    LET here == Of(q, req[q].at)
        left == req[q].left \ {req[q].at}
    IN /\ row' = row \cup IF q \in Discards THEN {} ELSE {<<q, req[q].at>>}
       /\ job' = [o \in Objects |-> IF o \in here THEN [NoJob EXCEPT !.st = "queued"] ELSE job[o]]
       /\ janitor' = [o \in Objects |-> IF o \in here /\ q \in Discards THEN backstop ELSE janitor[o]]
       /\ req' = [req EXCEPT ![q].left = left, ![q].put = 0,
                     ![q].pc = IF left = {} THEN "ok" ELSE "putting",
                     ![q].at = IF left = {} THEN None ELSE CHOOSE u \in left : TRUE]
       /\ UNCHANGED <<told, obj, aged, erasing, stray, sweep>>

\* Mutant of Commit: the staged upload's backstop is not scheduled.
CommitNoBackstop(q) == req[q].pc = "deciding" /\ Record(q, {})

Commit(q) == req[q].pc = "deciding" /\ Record(q, {"backstop"})

\* The transaction fails, and each object written is deleted, unless three
\* attempts at it fail.
RollBack(q) ==
    /\ req[q].pc = "deciding"
    /\ \E kept \in SUBSET Of(q, req[q].at) :
         obj' = obj \ (Of(q, req[q].at) \ kept) /\ stray' = stray \cup kept
    /\ req' = [req EXCEPT ![q].pc = "failed"]
    /\ aged' = aged \cap obj'
    /\ UNCHANGED <<told, row, job, janitor, erasing, sweep>>

\* The app dies: what this request has written and not recorded stays.
Crash(q) ==
    /\ req[q].pc \in {"putting", "deciding"}
    /\ stray' = stray \cup {Here(q, i) : i \in 1..req[q].put}
    /\ req' = [req EXCEPT ![q].pc = "failed"]
    /\ UNCHANGED <<told, obj, aged, row, job, janitor, erasing, sweep>>

\* Mutant of Answer: a failed delivery is acknowledged.
AnswerAll(m) ==
    /\ told[m].verdict = "none" /\ told[m].n > 0
    /\ LET q == <<m, told[m].n>>
       IN \E v \in {"250", "451", "550"} :
            /\ v = "250" => req[q].pc \in {"ok", "failed"}
            /\ v = "550" => req[q].pc = "refused"
            /\ v = "451" => req[q].pc \notin {"ok", "refused"}
            /\ told' = [told EXCEPT ![m].verdict = v]
    /\ UNCHANGED <<req, obj, aged, row, job, janitor, erasing, stray, sweep>>

\* The verdict the mail server passes on: the app's, or 451 when the app fails
\* or has not answered in time (and goes on all the same).
Answer(m) ==
    /\ told[m].verdict = "none" /\ told[m].n > 0
    /\ LET q == <<m, told[m].n>>
       IN \E v \in {"250", "451", "550"} :
            /\ v = "250" => req[q].pc = "ok"
            /\ v = "550" => req[q].pc = "refused"
            /\ v = "451" => req[q].pc \notin {"ok", "refused"}
            /\ told' = [told EXCEPT ![m].verdict = v]
    /\ UNCHANGED <<req, obj, aged, row, job, janitor, erasing, stray, sweep>>

-----------------------------------------------------------------------------
(* The pipeline run of an object's source.                                 *)

\* Stage 1: a kept file needs its row and its object, a message its row, a
\* discarded one its staging object; a source that is not there is done with.
Found(o) == /\ o[1] \notin Discards => Copy(o) \in row
            /\ o[3] # "raw" => o \in obj

Load(o) ==
    /\ job[o].st = "queued"
    /\ job' = [job EXCEPT ![o].st = IF Found(o) THEN "loaded" ELSE "lost"]
    /\ UNCHANGED <<req, told, obj, aged, row, janitor, erasing, stray, sweep>>

\* Admission, under the row's lock where there is one; the original is discarded
\* in the same commit.
Finish(o) ==
    /\ job[o].st = "loaded"
    /\ job' = [job EXCEPT ![o].st = IF o[1] \in Discards \/ Copy(o) \in row THEN "done" ELSE "lost"]
    /\ janitor' = [janitor EXCEPT ![o] = @ \cup IF o[1] \in Discards THEN {"immediate"} ELSE {}]
    /\ UNCHANGED <<req, told, obj, aged, row, erasing, stray, sweep>>

\* The attempt fails; the last one goes to the dead letters.
Fail(o) ==
    /\ job[o].st = "loaded"
    /\ job' = [job EXCEPT ![o] = [st |-> IF @.tries + 1 < MaxAttempts THEN "queued" ELSE "dead",
                                  tries |-> @.tries + 1]]
    /\ UNCHANGED <<req, told, obj, aged, row, janitor, erasing, stray, sweep>>

\* A cleanup of a staging object deletes it, or runs out of attempts.
CleanUp(o, j) ==
    /\ j \in janitor[o]
    /\ janitor' = [janitor EXCEPT ![o] = @ \ {j}]
    /\ \/ obj' = obj \ {o} /\ UNCHANGED stray
       \/ /\ UNCHANGED obj
          /\ stray' = IF o \in obj THEN stray \cup {o} ELSE stray
    /\ aged' = aged \cap obj'
    /\ UNCHANGED <<req, told, row, job, erasing, sweep>>

-----------------------------------------------------------------------------
(* The saga and the sweep.                                                 *)

Delete(s) ==
    /\ s \in row
    /\ row' = row \ {s} /\ erasing' = erasing \cup {s}
    /\ UNCHANGED <<req, told, obj, aged, job, janitor, stray, sweep>>

\* The executor erases every object of the copy and confirms.
Confirm(s) ==
    /\ s \in erasing
    /\ erasing' = erasing \ {s}
    /\ obj' = obj \ Of(s[1], s[2])
    /\ aged' = aged \cap obj'
    /\ UNCHANGED <<req, told, row, job, janitor, stray, sweep>>

\* An hour passes; no request lasts that long.
Age ==
    /\ \E o \in obj \ aged : req[o[1]].pc \in Closed
    /\ aged' = aged \cup {o \in obj : req[o[1]].pc \in Closed}
    /\ UNCHANGED <<req, told, obj, row, job, janitor, erasing, stray, sweep>>

\* Mutant of SweepList: without the grace window.
SweepListAll ==
    /\ sweep.pc = "idle" /\ obj # {}
    /\ sweep' = [pc |-> "listed", listed |-> obj, alerts |-> {}]
    /\ UNCHANGED <<req, told, obj, aged, row, job, janitor, erasing, stray>>

SweepList ==
    /\ sweep.pc = "idle" /\ aged # {}
    /\ sweep' = [pc |-> "listed", listed |-> aged, alerts |-> {}]
    /\ UNCHANGED <<req, told, obj, aged, row, job, janitor, erasing, stray>>

\* The rows of the listed objects: file_metadata, and the adapters' own keys.
SweepProbe ==
    /\ sweep.pc = "listed"
    /\ sweep' = [sweep EXCEPT !.pc = "idle",
                   !.alerts = {o \in sweep.listed : o[3] = "staging" \/ Copy(o) \notin row}]
    /\ UNCHANGED <<req, told, obj, aged, row, job, janitor, erasing, stray>>

-----------------------------------------------------------------------------
RequestStep == \E q \in Requests : Accept(q) \/ Put(q) \/ PutFails(q) \/ Commit(q)
                                   \/ RollBack(q) \/ Crash(q)
MailStep    == \E m \in Mails : Deliver(m) \/ Answer(m)
WorkerStep  == \E o \in Objects : Load(o) \/ Finish(o) \/ Fail(o) \/ \E j \in janitor[o] : CleanUp(o, j)
SagaStep    == \E s \in Requests \X Users : Delete(s) \/ Confirm(s)
SweepStep   == Age \/ SweepList \/ SweepProbe

Next == RequestStep \/ MailStep \/ WorkerStep \/ SagaStep \/ SweepStep
Spec == Init /\ [][Next]_vars

-----------------------------------------------------------------------------
\* Whoever fails and wherever, bytes in the bucket have a live row, a request
\* still writing them, a queued cleanup or a pending receipt, or else the crash,
\* the failed put or the failed cleanup that left them to the sweep.
BytesAccounted ==
    \A o \in obj : \/ Copy(o) \in row \cup erasing
                   \/ req[o[1]].pc \notin Closed /\ o[2] = req[o[1]].at
                   \/ janitor[o] # {} \/ o \in stray

\* "Detection only", but of every abandoned object a pass has listed, and of no
\* object of a source that lives then or later (findOrphanedObjects).
SweepIsRight ==
    [][ /\ sweep.pc = "listed" /\ sweep'.pc = "idle" => sweep.listed \cap stray \subseteq sweep'.alerts
        /\ \A o \in sweep'.alerts : Copy(o) \notin row' ]_vars

\* 250 is a promise: the server that hears it stops trying, so every recipient of
\* the accepted delivery has its copy, recorded with its jobs, and a kept file is
\* found by its run for as long as nobody deletes it.
AcceptedIsKept ==
    /\ \A m \in Mails : told[m].verdict = "250" =>
          LET q == <<m, told[m].n>> IN
          \A u \in req[q].to : \A o \in Of(q, u) : job[o].st # "none"
    /\ \A o \in Objects : job[o].st = "lost" /\ o[1] \notin Discards => Copy(o) \notin row

\* "The original is discarded only after extraction is durable (no memory-loss
\* window)" (uploadDiscard).
DiscardedAfterExtraction ==
    \A o \in Objects : o[1] \in Discards => job[o].st # "lost"

\* "Thread-aware dedup and idempotent pipeline jobs absorb the re-delivery"
\* (intake): one message is admitted once for each of its recipients.
RedeliveryAbsorbed ==
    \A m \in Mails, u \in Users :
        Cardinality({n \in 1..MaxDeliveries : job[<<<<m, n>>, u, "raw">>].st = "done"}) <= 1
=============================================================================
