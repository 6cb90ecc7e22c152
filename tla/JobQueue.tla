------------------------------ MODULE JobQueue ------------------------------
(***************************************************************************)
(* The background-job contract: idempotentTask around every job handler,   *)
(* the idempotency ledger job_execution, the cancellation of a key from    *)
(* another transaction, the dead_letter ledger with its retry endpoint,    *)
(* and what the health check and the screens read of it.                   *)
(*                                                                         *)
(* graphile-worker is external: it hands a row to a worker with its        *)
(* attempts incremented, deletes it when the task returns, records         *)
(* last_error when it throws, makes it available again while attempts are  *)
(* left, and frees the rows of a dead worker after a while.                *)
(***************************************************************************)
EXTENDS Naturals, FiniteSets

CONSTANTS
    Keys,         \* idempotency keys (source_type, source_id, job_type)
    Jobs,         \* graphile_worker.jobs rows; a row is used once
    Cancels,      \* transactions that cancel a key (saga requests)
    MaxAttempts,  \* max_attempts
    None

ASSUME JobAssumption == MaxAttempts \in Nat \ {0} /\ None \notin Keys

VARIABLES
    job,        \* job row |-> pc, key, attempts, last_error is set
    ledger,     \* key |-> job_execution: none, ran or cancelled
    effects,    \* key |-> committed effects of the handler
    continued,  \* key |-> after-commit continuations run
    dead,       \* the jobs with a dead_letter row
    cancel      \* cancelling transaction |-> pc and key

vars == <<job, ledger, effects, continued, dead, cancel>>

Unused == [pc |-> "none", key |-> None, attempts |-> 0, error |-> "none"]
Added(k) == [pc |-> "ready", key |-> k, attempts |-> 0, error |-> "none"]

Init ==
    /\ job = [j \in Jobs |-> Unused]
    /\ ledger = [k \in Keys |-> "none"]
    /\ effects = [k \in Keys |-> 0]
    /\ continued = [k \in Keys |-> 0]
    /\ dead = {}
    /\ cancel = [c \in Cancels |-> [pc |-> "idle", key |-> None]]

\* Mutant of RunLocked: a session lock, kept by the pooled connection.
SessionLocked(k) == \/ \E j \in Jobs : job[j].pc = "claimed" /\ job[j].key = k
                    \/ \E c \in Cancels : cancel[c].pc # "idle" /\ cancel[c].key = k
\* The advisory run lock of a key, held by a running task or a cancellation.
RunLocked(k) == \/ \E j \in Jobs : job[j].pc = "claimed" /\ job[j].key = k
                \/ \E c \in Cancels : cancel[c].pc = "locked" /\ cancel[c].key = k

-----------------------------------------------------------------------------
\* withTransactionalEnqueue: the job is committed with the state change.  The
\* same key may be enqueued again (a re-sent request, an operator's retry).
Enqueue(j, k) ==
    /\ job[j].pc = "none"
    /\ job' = [job EXCEPT ![j] = Added(k)]
    /\ UNCHANGED <<ledger, effects, continued, dead, cancel>>

\* graphile hands the row out: the attempt is counted now.
Fetch(j) ==
    /\ job[j].pc = "ready" /\ job[j].attempts < MaxAttempts
    /\ job' = [job EXCEPT ![j].pc = "waiting", ![j].attempts = @ + 1]
    /\ UNCHANGED <<ledger, effects, continued, dead, cancel>>

\* Mutant of Claim: a duplicate keeps its after-commit continuation.
ClaimKeepThunk(j) ==
    /\ job[j].pc = "waiting" /\ ~RunLocked(job[j].key)
    /\ job' = [job EXCEPT ![j].pc = IF ledger[job[j].key] = "none" THEN "claimed" ELSE "after"]
    /\ UNCHANGED <<ledger, effects, continued, dead, cancel>>

\* The run lock, then the claim row: a committed one makes this a duplicate,
\* which completes without running the handler.
Claim(j) ==
    /\ job[j].pc = "waiting" /\ ~RunLocked(job[j].key)
    /\ job' = [job EXCEPT ![j].pc = IF ledger[job[j].key] = "none" THEN "claimed" ELSE "gone"]
    /\ UNCHANGED <<ledger, effects, continued, dead, cancel>>

\* Mutant of Commit: the handler writes through a connection of its own.
CommitOutsideClaim(j) ==
    /\ job[j].pc = "claimed"
    /\ effects' = [effects EXCEPT ![job[j].key] = @ + 1]
    /\ \/ /\ job' = [job EXCEPT ![j].pc = "error"] /\ UNCHANGED ledger
       \/ /\ job' = [job EXCEPT ![j].pc = "after"]
          /\ ledger' = [ledger EXCEPT ![job[j].key] = "ran"]
    /\ UNCHANGED <<continued, dead, cancel>>

\* The handler's effect and the claim commit together.  The commit may succeed
\* and still be reported as an error: the connection is lost on its way back.
Commit(j) ==
    /\ job[j].pc = "claimed"
    /\ ledger' = [ledger EXCEPT ![job[j].key] = "ran"]
    /\ effects' = [effects EXCEPT ![job[j].key] = @ + 1]
    /\ \E p \in {"after", "error"} : job' = [job EXCEPT ![j].pc = p]
    /\ UNCHANGED <<continued, dead, cancel>>

\* The continuation runs once the transaction has committed, best effort: an
\* error in it is logged.  The task returns and its row is deleted.
AfterCommit(j) ==
    /\ job[j].pc = "after"
    /\ job' = [job EXCEPT ![j].pc = "gone"]
    /\ continued' = [continued EXCEPT ![job[j].key] = @ + 1]
    /\ UNCHANGED <<ledger, effects, dead, cancel>>

\* The handler, or the database under it, throws: the transaction rolls back.
Throw(j) ==
    /\ job[j].pc \in {"waiting", "claimed"}
    /\ job' = [job EXCEPT ![j].pc = "error"]
    /\ UNCHANGED <<ledger, effects, continued, dead, cancel>>

\* Attempts left: rethrow, graphile records the error and reschedules.
Retry(j) ==
    /\ job[j].pc = "error" /\ job[j].attempts < MaxAttempts
    /\ job' = [job EXCEPT ![j].pc = "ready", ![j].error = "thrown"]
    /\ UNCHANGED <<ledger, effects, continued, dead, cancel>>

\* Mutant of Park: the dead_letter write is tried once and its failure ignored.
ParkIgnoringFailure(j) ==
    /\ job[j].pc = "error" /\ job[j].attempts >= MaxAttempts
    /\ job' = [job EXCEPT ![j].pc = "gone"]
    /\ dead' \in {dead, dead \cup {j}}
    /\ UNCHANGED <<ledger, effects, continued, cancel>>

\* Last attempt: a dead_letter row in a transaction of its own, then complete.
\* When the write keeps failing the original error is rethrown and the
\* exhausted row stays in graphile.
Park(j) ==
    /\ job[j].pc = "error" /\ job[j].attempts >= MaxAttempts
    /\ \/ /\ job' = [job EXCEPT ![j].pc = "gone"]
          /\ dead' = dead \cup {j}
       \/ /\ job' = [job EXCEPT ![j].pc = "ready", ![j].error = "thrown"]
          /\ UNCHANGED dead
    /\ UNCHANGED <<ledger, effects, continued, cancel>>

\* The worker process dies; what it had not committed is gone, its row stays
\* locked and no error is recorded.
Crash(j) ==
    /\ job[j].pc \in {"waiting", "claimed", "after", "error"}
    /\ job' = [job EXCEPT ![j].pc = "lost"]
    /\ UNCHANGED <<ledger, effects, continued, dead, cancel>>

\* graphile frees the rows of dead workers.
Recover(j) ==
    /\ job[j].pc = "lost"
    /\ job' = [job EXCEPT ![j].pc = "ready"]
    /\ UNCHANGED <<ledger, effects, continued, dead, cancel>>

\* POST /api/jobs/dead-letter/:id/retry: one transaction re-adds the job and
\* removes the row.
RetryDead(j, i) ==
    /\ j \in dead /\ job[i].pc = "none"
    /\ dead' = dead \ {j}
    /\ job' = [job EXCEPT ![i] = Added(job[j].key)]
    /\ UNCHANGED <<ledger, effects, continued, cancel>>

\* Mutant of CancelProbe: the key is consumed without probing the run lock.
CancelBlind(c, k) ==
    /\ cancel[c].pc = "idle"
    /\ cancel' = [cancel EXCEPT ![c] = [pc |-> "locked", key |-> k]]
    /\ UNCHANGED <<job, ledger, effects, continued, dead>>

\* cancelPending: take the run lock (tryJobRunLock, or a wait for it); a busy
\* one is reported and the key left alone.
CancelProbe(c, k) ==
    /\ cancel[c].pc = "idle"
    /\ cancel' = [cancel EXCEPT ![c] = [pc |-> IF RunLocked(k) THEN "done" ELSE "locked", key |-> k]]
    /\ UNCHANGED <<job, ledger, effects, continued, dead>>

\* consumeIdempotencyKey, ON CONFLICT DO NOTHING; or the transaction aborts.
CancelEnd(c) ==
    /\ cancel[c].pc = "locked"
    /\ cancel' = [cancel EXCEPT ![c].pc = "done"]
    /\ \/ ledger' = [ledger EXCEPT ![cancel[c].key] = IF @ = "none" THEN "cancelled" ELSE @]
       \/ UNCHANGED ledger
    /\ UNCHANGED <<job, effects, continued, dead>>

-----------------------------------------------------------------------------
Work(j) == \/ Fetch(j) \/ Claim(j) \/ Commit(j) \/ AfterCommit(j)
           \/ Retry(j) \/ Park(j) \/ Recover(j)

Next ==
    \/ \E j \in Jobs : Work(j) \/ Throw(j) \/ Crash(j)
    \/ \E j \in Jobs, k \in Keys : Enqueue(j, k)
    \/ \E j, i \in Jobs : RetryDead(j, i)
    \/ \E c \in Cancels : CancelEnd(c) \/ \E k \in Keys : CancelProbe(c, k)

\* The worker takes the next step of every job it can, and is granted a run
\* lock that is released again and again; transactions end.  Errors, crashes,
\* enqueues, retries by hand and cancellations are not fair.
Fairness == /\ \A j \in Jobs : WF_vars(Work(j)) /\ SF_vars(Claim(j))
            /\ \A c \in Cancels : WF_vars(CancelEnd(c))

Spec == Init /\ [][Next]_vars
FairSpec == Spec /\ Fairness

-----------------------------------------------------------------------------
JobType == [pc : {"none", "ready", "waiting", "claimed", "after", "error", "lost", "gone"},
            key : Keys \cup {None}, attempts : 0..MaxAttempts, error : {"none", "thrown"}]

TypeOK ==
    /\ job \in [Jobs -> JobType]
    /\ \A j \in Jobs : job[j].pc # "none" => job[j].key \in Keys
    /\ ledger \in [Keys -> {"none", "ran", "cancelled"}]
    /\ effects \in [Keys -> Nat]
    /\ continued \in [Keys -> Nat]
    /\ dead \subseteq Jobs
    /\ cancel \in [Cancels -> [pc : {"idle", "locked", "done"}, key : Keys \cup {None}]]
    /\ \A c \in Cancels : cancel[c].pc # "idle" => cancel[c].key \in Keys

\* "at-most-once effect" (idempotentTask): over every delivery, crash, retry by
\* hand and cancellation a key has one outcome: its effect committed once, or it
\* was cancelled and the effect never happens.
AtMostOnceEffect ==
    \A k \in Keys : /\ effects[k] <= 1
                    /\ ledger[k] = "cancelled" => effects[k] = 0

\* "a cancellation insert can never block on one" (idempotentTask): while a
\* cancellation that got the run lock is open, no attempt holds an uncommitted
\* claim of its key, whatever crashed, was redelivered or waits for the lock.
CancelNeverBlocks ==
    \A c \in Cancels, j \in Jobs :
        ~(cancel[c].pc = "locked" /\ job[j].pc = "claimed" /\ job[j].key = cancel[c].key)

\* "run AFTER the idempotency transaction commits" (AfterCommit): a continuation
\* runs for a committed effect, at most once, and never for a duplicate.
ContinuationFollowsEffect == \A k \in Keys : continued[k] <= effects[k]

\* What an operator or a user can still see or wait for.
Exhausted(j)   == job[j].pc \in {"ready", "lost"} /\ job[j].attempts >= MaxAttempts
InProgress(j)  == job[j].pc \notin {"none", "gone"} /\ ~Exhausted(j)
PermFailed(j)  == Exhausted(j) /\ job[j].error = "thrown"      \* checkQueue's count
Visible(k)     == \E j \in Jobs : job[j].key = k /\ (InProgress(j) \/ j \in dead \/ PermFailed(j))
CrashedOut(k)  == \E j \in Jobs : job[j].key = k /\ Exhausted(j) /\ job[j].error = "none"
Enqueued(k)    == \E j \in Jobs : job[j].key = k

\* Nothing is lost quietly: a key whose effect neither happened nor was
\* cancelled still has a job in progress, a dead_letter row, or a permanently
\* failed row the health check counts.  The exception is a job every attempt of
\* which took the worker down with it: it has no last_error, and no view of the
\* application shows it.
WorkAccounted ==
    \A k \in Keys : Enqueued(k) /\ ledger[k] = "none" => Visible(k) \/ CrashedOut(k)

\* Every enqueued key settles, and no delivery waits forever for a run lock.
WorkSettles ==
    \A k \in Keys : Enqueued(k) ~>
        ledger[k] # "none" \/ \E j \in Jobs : job[j].key = k /\ (j \in dead \/ Exhausted(j))
=============================================================================
