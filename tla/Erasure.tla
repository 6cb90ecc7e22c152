------------------------------- MODULE Erasure -------------------------------
(***************************************************************************)
(* Ingestion against erasure: the pipeline that turns a source into memory *)
(* rows and vector points, and the deletion saga that erases a source, its *)
(* derived memories, their points and their objects under one receipt.     *)
(*                                                                         *)
(* Actors: one ingestion.pipeline job per source (worker), user edits of a *)
(* memory and the memory.embed job each one enqueues, saga requests (app   *)
(* process; one request per receipt id), and the deletion.execute job of   *)
(* every receipt (worker).  Every actor is a Postgres transaction under    *)
(* READ COMMITTED: a step of the model is the stretch between two lock     *)
(* waits or two external calls, rows become visible at commit, a statement *)
(* sees the rows committed when it starts, and SELECT .. FOR UPDATE waits  *)
(* for the rows of its snapshot and drops the ones that are gone.  The     *)
(* vector store and the object store are outside every transaction.        *)
(***************************************************************************)
EXTENDS Naturals, FiniteSets

CONSTANTS
    Notes,        \* sources with one durable row: user_note, chat, web
    Emails,       \* email sources: durable row, raw object, attachments
    Files,        \* stored-mode uploads: file_metadata row and its object
    Discards,     \* discard-mode uploads: a staging object and no row at all
    Attachments,  \* email |-> the files it carries
    Mem,          \* memory ids (uuids: minted once, point id = memory id)
    Receipts,     \* deletion receipts, one saga request each
    Edits,        \* user edits
    MaxAttempts,  \* graphile max_attempts of a job
    MaxFacts,     \* facts one run may admit
    None          \* "no memory" / "no source"

Sources   == Notes \cup Emails \cup Files \cup Discards
RowBacked == Notes \cup Emails \cup Files
FileType  == Files \cup Discards            \* source_type = 'file'

ASSUME SourceAssumption ==
    /\ Discards \cap RowBacked = {}
    /\ Emails \cap Files = {}
    /\ Attachments \in [Emails -> SUBSET Files]
    /\ None \notin Mem \cup Sources
ASSUME BoundAssumption == MaxAttempts \in Nat \ {0} /\ MaxFacts \in Nat \ {0}

VARIABLES
    row,     \* source |-> its durable row is committed
    job,     \* source |-> its ingestion.pipeline job: queued, done or dead
    tries,   \* source |-> failed attempts of that job
    key,     \* source |-> the job_execution row of the pipeline is committed
    run,     \* source |-> the pipeline transaction in flight
    prov,    \* memory id |-> source it was derived from, None if not minted
    live,    \* committed memory rows
    points,  \* points in the vector store
    objs,    \* objects in the bucket, named by their source
    edit,    \* edit |-> the edit transaction
    embed,   \* memory id |-> its memory.embed job
    saga,    \* receipt |-> the saga request, then the receipt it wrote
    exec     \* receipt |-> its deletion.execute job

vars == <<row, job, tries, key, run, prov, live, points, objs, edit, embed,
          saga, exec>>

-----------------------------------------------------------------------------
(* Locks, read off the transactions that hold them.                        *)

Admitting == {"admitted", "stored", "merging"}
Scanning  == {"cancel", "snapshot", "lockmems", "lockfile", "next"}
Receipted == {"pending", "confirmed"}

\* Mutant of KeyShare: the checkpoint reads the row without locking it.
NoKeyShare(s) == FALSE

\* FOR KEY SHARE on the source row, held from the checkpoint to commit.
KeyShare(s)     == s \in RowBacked /\ run[s].pc \in Admitting
\* FOR UPDATE on the source row, held by a saga.
ForUpdate(s)    == \E r \in Receipts : s \in saga[r].rowLocks
\* The advisory run lock of the pipeline job of s.
RunLocked(s)    == run[s].pc # "idle" \/ \E r \in Receipts : s \in saga[r].runLocks
\* FOR UPDATE on a memory row.
MemLocked(m)    == \/ \E r \in Receipts : saga[r].pc \in Scanning /\ m \in saga[r].ids
                   \/ \E s \in Sources : m \in run[s].hold
                   \/ \E e \in Edits : edit[e].pc = "editing" /\ edit[e].old = m
                   \/ embed[m] \in {"held", "written"}

Unminted == {m \in Mem : prov[m] = None}
Derived(s) == {m \in live : prov[m] = s}

-----------------------------------------------------------------------------
NoRun  == [pc |-> "idle", ids |-> {}, hold |-> {}, want |-> None]
NoSaga == [pc |-> "idle", src |-> None, cur |-> None, snap |-> {}, ids |-> {},
           todo |-> {}, rowLocks |-> {}, runLocks |-> {}, keys |-> {}]

\* Every source is captured: row and pipeline job committed in one transaction
\* (the transactional outbox), bytes put before it.
Init ==
    /\ row    = [s \in Sources |-> s \in RowBacked]
    /\ job    = [s \in Sources |-> "queued"]
    /\ tries  = [s \in Sources |-> 0]
    /\ key    = [s \in Sources |-> FALSE]
    /\ run    = [s \in Sources |-> NoRun]
    /\ prov   = [m \in Mem |-> None]
    /\ live   = {}
    /\ points = {}
    /\ objs   = Emails \cup Files \cup Discards
    /\ edit   = [e \in Edits |-> [pc |-> "idle", old |-> None, new |-> None]]
    /\ embed  = [m \in Mem |-> "none"]
    /\ saga   = [r \in Receipts |-> NoSaga]
    /\ exec   = [r \in Receipts |-> [pc |-> "none", left |-> {}, tries |-> 0]]

-----------------------------------------------------------------------------
(* The pipeline job of source s: idempotentTask around IngestionPipeline.run *)

\* Delivery: take the run lock, claim the idempotency key; a committed key
\* means the job ran or was cancelled, and the delivery completes as a skip.
RunStart(s) ==
    /\ job[s] = "queued" /\ run[s].pc = "idle" /\ ~RunLocked(s)
    /\ IF key[s]
         THEN job' = [job EXCEPT ![s] = "done"] /\ UNCHANGED run
         ELSE run' = [run EXCEPT ![s].pc = "claimed"] /\ UNCHANGED job
    /\ UNCHANGED <<row, tries, key, prov, live, points, objs, edit, embed, saga, exec>>

\* Mutant of CommitRun: the claim is not part of the run's transaction.
CommitRunWithoutKey(s) ==
    /\ live' = live \cup run[s].ids
    /\ run'  = [run EXCEPT ![s] = NoRun]
    /\ UNCHANGED key
    /\ \E j \in {"done", "queued"} : job' = [job EXCEPT ![s] = j]

\* The run commits: its rows appear, its key is consumed, its locks go.  The
\* worker may die between the commit and the acknowledgement of the job, which
\* is then delivered again.
CommitRun(s) ==
    /\ live' = live \cup run[s].ids
    /\ key'  = [key EXCEPT ![s] = TRUE]
    /\ run'  = [run EXCEPT ![s] = NoRun]
    /\ \E j \in {"done", "queued"} : job' = [job EXCEPT ![s] = j]

\* The reader port: a stored file needs its object too, a discard-mode upload
\* is read from its staging object, anything else from its row.
Loadable(s) == /\ s \in RowBacked => row[s]
               /\ s \in FileType => s \in objs

\* Stage 1.  A vanished source completes cleanly (source_missing).
RunLoad(s) ==
    /\ run[s].pc = "claimed"
    /\ IF Loadable(s)
         THEN run' = [run EXCEPT ![s].pc = "loaded"] /\ UNCHANGED <<job, key, live>>
         ELSE CommitRun(s)
    /\ UNCHANGED <<row, tries, prov, points, objs, edit, embed, saga, exec>>

\* Stages 2-4, the model calls: a source without durable facts admits nothing.
RunNoFacts(s) ==
    /\ run[s].pc = "loaded"
    /\ CommitRun(s)
    /\ UNCHANGED <<row, tries, prov, points, objs, edit, embed, saga, exec>>

\* Admission checkpoint: FOR KEY SHARE on the source row, waiting for a saga
\* that holds it FOR UPDATE; a row that is gone aborts the run as a no-op
\* (source_deleted).  Discard-mode uploads have no row and skip it.
RunAdmit(s) ==
    /\ run[s].pc = "loaded"
    /\ s \in RowBacked => ~ForUpdate(s)
    /\ IF s \in RowBacked => row[s]
         THEN run' = [run EXCEPT ![s].pc = "admitted"] /\ UNCHANGED <<job, key, live>>
         ELSE CommitRun(s)
    /\ UNCHANGED <<row, tries, prov, points, objs, edit, embed, saga, exec>>

\* Stage 5: rows inserted in the transaction, points upserted last, before the
\* commit and outside the transaction.
RunStore(s) ==
    /\ run[s].pc = "admitted"
    /\ \E ids \in SUBSET Unminted :
         /\ ids # {} /\ Cardinality(ids) <= MaxFacts
         /\ run'    = [run EXCEPT ![s].pc = "stored", ![s].ids = ids]
         /\ prov'   = [m \in Mem |-> IF m \in ids THEN s ELSE prov[m]]
         /\ points' = points \cup ids
    /\ UNCHANGED <<row, job, tries, key, live, objs, edit, embed, saga, exec>>

\* Stage 6: reconciliation locks an existing memory a new fact pairs with.
RunWantLock(s) ==
    /\ run[s].pc = "stored"
    /\ \E m \in live \ run[s].hold :
         run' = [run EXCEPT ![s].pc = "merging", ![s].want = m]
    /\ UNCHANGED <<row, job, tries, key, prov, live, points, objs, edit, embed, saga, exec>>

RunGetLock(s) ==
    /\ run[s].pc = "merging" /\ ~MemLocked(run[s].want) /\ run[s].want \in live
    /\ run' = [run EXCEPT ![s].pc = "stored", ![s].want = None,
                          ![s].hold = @ \cup {run[s].want}]
    /\ UNCHANGED <<row, job, tries, key, prov, live, points, objs, edit, embed, saga, exec>>

RunCommit(s) ==
    /\ run[s].pc = "stored"
    /\ CommitRun(s)
    /\ UNCHANGED <<row, tries, prov, points, objs, edit, embed, saga, exec>>

\* Mutant of RollBackRun: the failed attempt is not counted.
RollBackRunUncounted(s) ==
    /\ run' = [run EXCEPT ![s] = NoRun]
    /\ UNCHANGED <<row, job, tries, key, prov, live, points, objs, edit, embed, saga, exec>>

\* The transaction rolls back, the claim with it; points already written stay;
\* the job is retried until its last attempt dead-letters it.
RollBackRun(s) ==
    /\ run'   = [run EXCEPT ![s] = NoRun]
    /\ tries' = [tries EXCEPT ![s] = @ + 1]
    /\ job'   = [job EXCEPT ![s] = IF tries[s] + 1 < MaxAttempts THEN "queued" ELSE "dead"]
    /\ UNCHANGED <<row, key, prov, live, points, objs, edit, embed, saga, exec>>

\* The row to lock is gone: NotFound, the run fails.
RunLockMissing(s) ==
    /\ run[s].pc = "merging" /\ ~MemLocked(run[s].want) /\ run[s].want \notin live
    /\ RollBackRun(s)

\* Any error or crash, a deadlock victim included.
RunFail(s) == run[s].pc # "idle" /\ RollBackRun(s)

\* The staging object of a discard-mode upload goes with the cleanup job the
\* run enqueued, or with the backstop scheduled at upload: absent = success.
DiscardCleanup(s) ==
    /\ s \in Discards \cap objs
    /\ objs' = objs \ {s}
    /\ UNCHANGED <<row, job, tries, key, run, prov, live, points, edit, embed, saga, exec>>

-----------------------------------------------------------------------------
(* Edits: supersession by a successor that copies the provenance, and the   *)
(* memory.embed job that writes the successor's point.                      *)

EditLock(e) ==
    /\ edit[e].pc = "idle"
    /\ \E m \in live : ~MemLocked(m) /\ edit' = [edit EXCEPT ![e].pc = "editing", ![e].old = m]
    /\ UNCHANGED <<row, job, tries, key, run, prov, live, points, objs, embed, saga, exec>>

EditCommit(e) ==
    /\ edit[e].pc = "editing"
    /\ \E n \in Unminted :
         /\ prov'  = [prov EXCEPT ![n] = prov[edit[e].old]]
         /\ live'  = live \cup {n}
         /\ embed' = [embed EXCEPT ![n] = "queued"]
         /\ edit'  = [edit EXCEPT ![e].pc = "done", ![e].new = n]
    /\ UNCHANGED <<row, job, tries, key, run, points, objs, saga, exec>>

EditAbort(e) ==
    /\ edit[e].pc = "editing"
    /\ edit' = [edit EXCEPT ![e].pc = "done"]
    /\ UNCHANGED <<row, job, tries, key, run, prov, live, points, objs, embed, saga, exec>>

\* Mutant of EmbedHold: the row is read without FOR UPDATE.
EmbedHoldUnlocked(m) ==
    /\ embed[m] = "queued"
    /\ embed' = [embed EXCEPT ![m] = IF m \in live THEN "held" ELSE "none"]
    /\ UNCHANGED <<row, job, tries, key, run, prov, live, points, objs, edit, saga, exec>>

\* SELECT .. FOR UPDATE of the row; a row that is gone is a clean no-op.
EmbedHold(m) ==
    /\ embed[m] = "queued"
    /\ m \in live => ~MemLocked(m)
    /\ embed' = [embed EXCEPT ![m] = IF m \in live THEN "held" ELSE "none"]
    /\ UNCHANGED <<row, job, tries, key, run, prov, live, points, objs, edit, saga, exec>>

EmbedWrite(m) ==
    /\ embed[m] = "held"
    /\ points' = points \cup {m}
    /\ embed' = [embed EXCEPT ![m] = "written"]
    /\ UNCHANGED <<row, job, tries, key, run, prov, live, objs, edit, saga, exec>>

\* Commit, or a failure after either step and a retry.
EmbedEnd(m) ==
    /\ \/ embed[m] = "written" /\ embed' = [embed EXCEPT ![m] = "none"]
       \/ embed[m] \in {"held", "written"} /\ embed' = [embed EXCEPT ![m] = "queued"]
    /\ UNCHANGED <<row, job, tries, key, run, prov, live, points, objs, edit, saga, exec>>

\* Review rejection: the owner removes an uncertain memory and its point.
RejectUncertain(m) ==
    /\ m \in live /\ ~MemLocked(m)
    /\ live' = live \ {m} /\ points' = points \ {m}
    /\ UNCHANGED <<row, job, tries, key, run, prov, objs, edit, embed, saga, exec>>

-----------------------------------------------------------------------------
(* Saga step one, requestSourceDeletion: one transaction, several lock waits. *)

Rest(r) == UNCHANGED <<job, tries, run, prov, points, objs, edit, embed>>

\* resolveSource with lock: FOR UPDATE on the source row if there is one.
SagaLockSource(r, s) ==
    /\ saga[r].pc = "idle"
    /\ ~ForUpdate(s) /\ ~KeyShare(s)
    /\ saga' = [saga EXCEPT ![r] =
         [NoSaga EXCEPT !.pc = "cancel", !.src = s, !.cur = s,
            !.rowLocks = IF row[s] THEN {s} ELSE {},
            !.keys = IF row[s] /\ s \in Emails \cup Files THEN {s} ELSE {},
            !.todo = IF row[s] /\ s \in Emails THEN Attachments[s] ELSE {}]]
    /\ Rest(r) /\ UNCHANGED <<row, key, live, exec>>

\* cancelPending waits for the run only for a file source without a row.
WaitForRun(r) == LET s == saga[r].cur IN
    s = saga[r].src /\ s \in FileType /\ s \notin saga[r].rowLocks

\* A free run lock is taken to the end of the transaction and the key consumed
\* with it; a busy one is reported as run_in_flight and left alone.
SagaCancel(r) == LET s == saga[r].cur IN
    /\ saga[r].pc = "cancel"
    /\ WaitForRun(r) => ~RunLocked(s)
    /\ saga' = [saga EXCEPT ![r].pc = "snapshot",
         ![r].runLocks = IF RunLocked(s) THEN @ ELSE @ \cup {s}]
    /\ Rest(r) /\ UNCHANGED <<row, key, live, exec>>

\* The provenance SELECT starts: its snapshot is what is committed now.
SagaSnapshot(r) ==
    /\ saga[r].pc = "snapshot"
    /\ saga' = [saga EXCEPT ![r].pc = "lockmems", ![r].snap = Derived(saga[r].cur)]
    /\ Rest(r) /\ UNCHANGED <<row, key, live, exec>>

\* .. FOR UPDATE: wait for the rows of the snapshot, keep the ones still there.
\* Neither a source row nor derived rows: NotFound, the transaction aborts.
SagaLockMems(r) == LET found == saga[r].snap \cap live IN
    /\ saga[r].pc = "lockmems"
    /\ \A m \in saga[r].snap : ~MemLocked(m)
    /\ saga' =
         IF saga[r].cur = saga[r].src /\ saga[r].rowLocks = {} /\ found = {}
         THEN [saga EXCEPT ![r] = [NoSaga EXCEPT !.pc = "refused"]]
         ELSE [saga EXCEPT ![r].ids = @ \cup found, ![r].snap = {},
                 ![r].pc = IF saga[r].cur = saga[r].src THEN "next" ELSE "lockfile"]
    /\ Rest(r) /\ UNCHANGED <<row, key, live, exec>>

\* cascadeFileSubSource for the next attachment: cancel, enumerate, then lock
\* and delete the file_metadata row.
SagaNextAttachment(r) ==
    /\ saga[r].pc = "next"
    /\ \E f \in saga[r].todo :
         saga' = [saga EXCEPT ![r].pc = "cancel", ![r].cur = f, ![r].todo = @ \ {f}]
    /\ Rest(r) /\ UNCHANGED <<row, key, live, exec>>

\* Mutant of SagaLockFile: the attachment's object key is not returned.
SagaLockFileNoKey(r) == LET f == saga[r].cur IN
    /\ saga[r].pc = "lockfile"
    /\ ~ForUpdate(f) /\ ~KeyShare(f)
    /\ saga' = [saga EXCEPT ![r].pc = "next",
                  ![r].rowLocks = IF row[f] THEN @ \cup {f} ELSE @]
    /\ Rest(r) /\ UNCHANGED <<row, key, live, exec>>

SagaLockFile(r) == LET f == saga[r].cur IN
    /\ saga[r].pc = "lockfile"
    /\ ~ForUpdate(f) /\ ~KeyShare(f)
    /\ saga' = [saga EXCEPT ![r].pc = "next",
                  ![r].rowLocks = IF row[f] THEN @ \cup {f} ELSE @,
                  ![r].keys     = IF row[f] THEN @ \cup {f} ELSE @]
    /\ Rest(r) /\ UNCHANGED <<row, key, live, exec>>

\* Mutant of SagaCommit: the receipt commits without its deletion.execute job.
SagaCommitNoJob(r) ==
    /\ saga[r].pc = "next" /\ saga[r].todo = {}
    /\ live' = live \ saga[r].ids
    /\ row'  = [s \in Sources |-> row[s] /\ s \notin saga[r].rowLocks]
    /\ key'  = [s \in Sources |-> key[s] \/ s \in saga[r].runLocks]
    /\ saga' = [saga EXCEPT ![r].pc = "pending", ![r].rowLocks = {}, ![r].runLocks = {}]
    /\ Rest(r) /\ UNCHANGED exec

\* Deletes, the pending receipt and the deletion.execute job commit together.
SagaCommit(r) ==
    /\ saga[r].pc = "next" /\ saga[r].todo = {}
    /\ live' = live \ saga[r].ids
    /\ row'  = [s \in Sources |-> row[s] /\ s \notin saga[r].rowLocks]
    /\ key'  = [s \in Sources |-> key[s] \/ s \in saga[r].runLocks]
    /\ saga' = [saga EXCEPT ![r].pc = "pending", ![r].rowLocks = {}, ![r].runLocks = {}]
    /\ exec' = [exec EXCEPT ![r] = [@ EXCEPT !.pc = "queued"]]
    /\ Rest(r)

\* Connection loss, a deadlock victim, a failed statement: nothing changed.
SagaAbort(r) ==
    /\ saga[r].pc \in Scanning
    /\ saga' = [saga EXCEPT ![r] = [NoSaga EXCEPT !.pc = "refused"]]
    /\ Rest(r) /\ UNCHANGED <<row, key, live, exec>>

-----------------------------------------------------------------------------
(* Saga steps two and three, DeletionExecutor.execute: points, then objects, *)
(* then the confirmation, in one attempt of the deletion.execute job.        *)

ExecRest == UNCHANGED <<row, job, tries, key, run, prov, live, edit, embed>>

\* The receipt row is locked; one that is confirmed already is a skip.
ExecStart(r) ==
    /\ exec[r].pc = "queued"
    /\ exec' = [exec EXCEPT ![r].pc = IF saga[r].pc = "confirmed" THEN "done" ELSE "points"]
    /\ ExecRest /\ UNCHANGED <<points, objs, saga>>

ExecDeletePoints(r) ==
    /\ exec[r].pc = "points"
    /\ points' = points \ saga[r].ids
    /\ exec' = [exec EXCEPT ![r].pc = "objects", ![r].left = saga[r].keys]
    /\ ExecRest /\ UNCHANGED <<objs, saga>>

ExecDeleteObject(r) ==
    /\ exec[r].pc = "objects"
    /\ \E k \in exec[r].left :
         /\ objs' = objs \ {k}
         /\ exec' = [exec EXCEPT ![r].left = @ \ {k}]
    /\ ExecRest /\ UNCHANGED <<points, saga>>

\* Confirm and commit; the acknowledgement may be lost and the job redelivered.
ExecConfirm(r) ==
    /\ exec[r].pc = "objects" /\ exec[r].left = {}
    /\ saga' = [saga EXCEPT ![r].pc = "confirmed"]
    /\ \E p \in {"done", "queued"} : exec' = [exec EXCEPT ![r].pc = p]
    /\ ExecRest /\ UNCHANGED <<points, objs>>

\* An external failure or a crash: the attempt rolls back, what was deleted
\* stays deleted; the last attempt dead-letters the job, receipt still pending.
ExecFail(r) ==
    /\ exec[r].pc \in {"points", "objects"}
    /\ exec' = [exec EXCEPT ![r] =
         [pc |-> IF exec[r].tries + 1 < MaxAttempts THEN "queued" ELSE "dead",
          left |-> {}, tries |-> exec[r].tries + 1]]
    /\ ExecRest /\ UNCHANGED <<points, objs, saga>>

-----------------------------------------------------------------------------
RunStep(s) ==
    \/ RunStart(s) \/ RunLoad(s) \/ RunNoFacts(s) \/ RunAdmit(s) \/ RunStore(s)
    \/ RunWantLock(s) \/ RunGetLock(s) \/ RunLockMissing(s) \/ RunCommit(s)
EditStep(e)  == EditLock(e) \/ EditCommit(e) \/ EditAbort(e)
EmbedStep(m) == EmbedHold(m) \/ EmbedWrite(m) \/ EmbedEnd(m)
SagaStep(r)  ==
    \/ SagaCancel(r) \/ SagaSnapshot(r) \/ SagaLockMems(r)
    \/ SagaNextAttachment(r) \/ SagaLockFile(r) \/ SagaCommit(r)
ExecStep(r)  ==
    \/ ExecStart(r) \/ ExecDeletePoints(r) \/ ExecDeleteObject(r) \/ ExecConfirm(r)

Next ==
    \/ \E s \in Sources : RunStep(s) \/ RunFail(s) \/ DiscardCleanup(s)
    \/ \E e \in Edits : EditStep(e)
    \/ \E m \in Mem : EmbedStep(m) \/ RejectUncertain(m)
    \/ \E r \in Receipts, s \in Sources : SagaLockSource(r, s)
    \/ \E r \in Receipts : SagaStep(r) \/ SagaAbort(r) \/ ExecStep(r) \/ ExecFail(r)

-----------------------------------------------------------------------------
(* The wait-for graph of the transactions in flight: a run is named by its  *)
(* source, a saga by its receipt.  It does have cycles: a saga waits for the *)
(* row of an attachment whose run, past its checkpoint, waits for a memory  *)
(* of the email the saga has locked.                                        *)

SagaWantsMem(r) == IF saga[r].pc = "lockmems" THEN saga[r].snap ELSE {}

RunWaitsForSaga(s, r) ==
    \/ run[s].pc = "merging" /\ saga[r].pc \in Scanning /\ run[s].want \in saga[r].ids
    \/ run[s].pc = "loaded" /\ s \in saga[r].rowLocks
SagaWaitsForRun(r, s) ==
    \/ SagaWantsMem(r) \cap run[s].hold # {}
    \/ saga[r].pc = "lockfile" /\ saga[r].cur = s /\ KeyShare(s)
    \/ saga[r].pc = "cancel" /\ saga[r].cur = s /\ WaitForRun(r) /\ run[s].pc # "idle"
RunWaitsForRun(s, t)  == run[s].pc = "merging" /\ run[s].want \in run[t].hold
SagaWaitsForSaga(r, q) ==
    \/ saga[q].pc \in Scanning /\ SagaWantsMem(r) \cap saga[q].ids # {}
    \/ saga[r].pc = "lockfile" /\ saga[r].cur \in saga[q].rowLocks

\* S and R wait in a cycle: none of them can go on until one is aborted.
Deadlocked(S, R) ==
    /\ S # {} \/ R # {}
    /\ \A s \in S : \/ \E t \in S \ {s} : RunWaitsForRun(s, t)
                    \/ \E r \in R : RunWaitsForSaga(s, r)
    /\ \A r \in R : \/ \E q \in R \ {r} : SagaWaitsForSaga(r, q)
                    \/ \E s \in S : SagaWaitsForRun(r, s)

\* Postgres aborts one member of a cycle after deadlock_timeout.
DeadlockVictim ==
    \E S \in SUBSET Sources, R \in SUBSET Receipts :
        /\ Deadlocked(S, R)
        /\ \/ \E s \in S : RunFail(s)
           \/ \E r \in R : SagaAbort(r)

\* The worker and the app process keep executing what they started; a lock
\* that is released again and again is granted (its queue is first come first
\* served); a deadlock is broken.  Failures and requests are not fair.
Fairness ==
    /\ \A s \in Sources : /\ WF_vars(RunStep(s))
                          /\ SF_vars(RunAdmit(s)) /\ SF_vars(RunGetLock(s))
    /\ \A e \in Edits : WF_vars(EditCommit(e) \/ EditAbort(e))
    /\ \A m \in Mem : WF_vars(EmbedStep(m))
    /\ \A r \in Receipts : /\ WF_vars(SagaStep(r)) /\ SF_vars(SagaLockMems(r))
                           /\ WF_vars(ExecStep(r))
    /\ WF_vars(DeadlockVictim)

Spec == Init /\ [][Next]_vars
FairSpec == Spec /\ Fairness

-----------------------------------------------------------------------------
RunType == [pc : {"idle", "claimed", "loaded"} \cup Admitting,
            ids : SUBSET Mem, hold : SUBSET Mem, want : Mem \cup {None}]
EditType == [pc : {"idle", "editing", "done"}, old : Mem \cup {None}, new : Mem \cup {None}]
SagaType == [pc : {"idle", "refused"} \cup Scanning \cup Receipted,
             src : Sources \cup {None}, cur : Sources \cup {None},
             snap : SUBSET Mem, ids : SUBSET Mem, todo : SUBSET Files,
             rowLocks : SUBSET Sources, runLocks : SUBSET Sources,
             keys : SUBSET Sources]
ExecType == [pc : {"none", "queued", "points", "objects", "done", "dead"},
             left : SUBSET Sources, tries : Nat]

TypeOK ==
    /\ row \in [Sources -> BOOLEAN]
    /\ job \in [Sources -> {"queued", "done", "dead"}]
    /\ tries \in [Sources -> Nat]
    /\ key \in [Sources -> BOOLEAN]
    /\ run \in [Sources -> RunType]
    /\ prov \in [Mem -> Sources \cup {None}]
    /\ live \subseteq Mem
    /\ points \subseteq Mem
    /\ objs \subseteq Sources
    /\ edit \in [Edits -> EditType]
    /\ embed \in [Mem -> {"none", "queued", "held", "written"}]
    /\ saga \in [Receipts -> SagaType]
    /\ exec \in [Receipts -> ExecType]

-----------------------------------------------------------------------------
(* Properties                                                               *)

\* "The receipt can NEVER read confirmed while any enumerated identifier could
\* still exist" (DeletionExecutor): no memory row, no point and no object a
\* confirmed receipt lists is left, under every interleaving of embed jobs,
\* runs, rejections, failed attempts and redeliveries.
ConfirmedErased ==
    \A r \in Receipts : saga[r].pc = "confirmed" =>
        /\ saga[r].ids \cap (live \cup points) = {}
        /\ saga[r].keys \cap objs = {}

EditMade(m) == \E e \in Edits : edit[e].new = m
\* The source is erased: its row is gone, or (no row) a receipt names it.
Gone(s) == IF s \in RowBacked THEN ~row[s]
           ELSE \E r \in Receipts : saga[r].pc \in Receipted /\ saga[r].src = s
Cascaded(s) == \E r \in Receipts : s \in saga[r].keys /\ s # saga[r].src

\* No orphan can commit (the admission checkpoint, decision 0024): a run that
\* was queued or in flight when its source was deleted leaves no memory of the
\* source behind.  Two cases are outside the checkpoint's reach and outside this
\* property: successors written by an edit (ChainsEnumeratedInFull) and
\* attachments erased with their email, whose memories the saga enumerates
\* before it locks their row (README, "Disagreements").
NoResurrection ==
    \A m \in live : Gone(prov[m]) => EditMade(m) \/ Cascaded(prov[m])

\* The idempotency key: one run per source admits memories, and none does once
\* the key is consumed, by that run or by a cancellation.
AtMostOneAdmission ==
    [][\A m \in live' \ live :
         \/ \E e \in Edits : edit'[e].new = m
         \/ /\ ~key[prov'[m]]
            /\ \A k \in live : prov[k] = prov'[m] => EditMade(k)]_vars

\* Erasing the row never strands the bytes: while an erased source still has
\* its object, an unconfirmed receipt lists that object.
NoBytesOutsideReceipts ==
    \A s \in (Emails \cup Files) \cap objs :
        ~row[s] => \E r \in Receipts : saga[r].pc = "pending" /\ s \in saga[r].keys

\* Every receipt settles: its external leg confirms it or ends in dead_letter
\* with the receipt still pending.
ReceiptSettles ==
    \A r \in Receipts : saga[r].pc = "pending" ~> saga[r].pc = "confirmed" \/ exec[r].pc = "dead"

\* Every captured source is processed, cancelled or dead-lettered: no delivery
\* waits forever on a saga, an edit or another run.
JobSettles == \A s \in Sources : job[s] = "queued" ~> job[s] # "queued"

\* "same-source supersession chains are enumerated in full by construction"
\* (the saga's header): an erased source keeps no successor either.
ChainsEnumeratedInFull ==
    \A m \in live : Gone(prov[m]) => Cascaded(prov[m])
=============================================================================
