------------------------------- MODULE Approvals -------------------------------
(***************************************************************************)
(* Consequential actions behind a human decision: ApprovalService in the   *)
(* app, ApprovalExecutor in the worker over the job contract of JobQueue,  *)
(* the expiry pass, and the two wired actions: bulk outdate, and reply     *)
(* drafts, whose text is written by a model from an email that may be      *)
(* erased meanwhile.  An approval's idempotency key is the approval.       *)
(*                                                                         *)
(* What executing does to memories and their index is in VectorIndex; here *)
(* it is the committed effect of JobQueue.                                 *)
(***************************************************************************)
EXTENDS JobQueue

CONSTANT Approvals   \* approvals, and the keys of their execution jobs

ASSUME ApprovalAssumption == Approvals \subseteq Keys

VARIABLES
    appr,       \* approval |-> status, pending past its expires_at, the drafted body
    drafting,   \* the replies being written from an email that was read
    email       \* the email the drafts answer: kept or erased

avars == <<vars, appr, drafting, email>>
apprVars == <<appr, drafting, email>>

NoApproval == [status |-> "none", overdue |-> FALSE, body |-> "none"]

ApprovalInit ==
    /\ Init
    /\ appr = [a \in Approvals |-> NoApproval]
    /\ drafting = {}
    /\ email = "kept"

SetStatus(a, s) == appr' = [appr EXCEPT ![a].status = s, ![a].overdue = FALSE]

-----------------------------------------------------------------------------
\* POST /api/approvals: the payload is parsed, the requester owns every target,
\* the row starts in its action's initialStatus, which both actions set to this.
\* Here a bulk outdate, whose payload is ids.
Create(a) ==
    /\ a \notin drafting /\ appr[a].status = "none"
    /\ SetStatus(a, "pending_approval")
    /\ UNCHANGED <<vars, drafting, email>>

\* draftReply, first half: the email is read, no lock is kept.
DraftRead(a) ==
    /\ a \notin drafting /\ appr[a].status = "none"
    /\ email = "kept"
    /\ drafting' = drafting \cup {a}
    /\ UNCHANGED <<vars, appr, email>>

\* draftReply, second half: the model has answered, or failed.
DraftCreate(a) ==
    /\ a \in drafting
    /\ drafting' = drafting \ {a}
    /\ \/ appr' = [appr EXCEPT ![a] = [@ EXCEPT !.status = "pending_approval", !.body = "text"]]
       \/ UNCHANGED appr
    /\ UNCHANGED <<vars, email>>

\* Mutant of Approve: the job is enqueued by a second transaction, which may
\* never come.
ApproveThenEnqueue(a, j) ==
    /\ appr[a].status = "pending_approval"
    /\ SetStatus(a, "approved")
    /\ Enqueue(j, a) \/ UNCHANGED vars
    /\ UNCHANGED <<drafting, email>>

\* confirm("approve") under the row lock: the transition and the execution job
\* commit together.  expires_at is not looked at: only the pass expires.
Approve(a, j) ==
    /\ appr[a].status = "pending_approval"
    /\ SetStatus(a, "approved")
    /\ Enqueue(j, a)
    /\ UNCHANGED <<drafting, email>>

\* Mutant of Reject: the transition is not checked.
RejectUnchecked(a) ==
    /\ appr[a].status # "none"
    /\ SetStatus(a, "rejected")
    /\ UNCHANGED <<vars, drafting, email>>

\* confirm("reject").
Reject(a) ==
    /\ appr[a].status = "pending_approval"
    /\ SetStatus(a, "rejected")
    /\ UNCHANGED <<vars, drafting, email>>

\* expires_at passes; nothing reads it once the approval is decided.
Elapse(a) ==
    /\ appr[a].status = "pending_approval" /\ ~appr[a].overdue
    /\ appr' = [appr EXCEPT ![a].overdue = TRUE]
    /\ UNCHANGED <<vars, drafting, email>>

Stale == {a \in Approvals : appr[a].status = "pending_approval" /\ appr[a].overdue}

\* expireStale, every five minutes: FOR UPDATE waits for a decision in flight
\* and reads the row again, so the pass sees what is committed.
ExpireStale ==
    /\ Stale # {}
    /\ appr' = [a \in Approvals |->
                 IF a \in Stale THEN [appr[a] EXCEPT !.status = "expired", !.overdue = FALSE] ELSE appr[a]]
    /\ UNCHANGED <<vars, drafting, email>>

\* Mutant of Execute: the status is written by a transaction of its own, before
\* the effect's.
ExecuteStatusFirst(j) ==
    /\ job[j].pc = "claimed" /\ job[j].key \in Approvals
    /\ appr[job[j].key].status \in {"approved", "executed"}
    /\ SetStatus(job[j].key, "executed")
    /\ Commit(j) \/ Throw(j)
    /\ UNCHANGED <<drafting, email>>

\* ApprovalExecutor.execute inside idempotentTask: the effect, the status and
\* the claim commit together; a row in any other state is refused (Throw).
Execute(j) ==
    /\ job[j].pc = "claimed" /\ job[j].key \in Approvals
    /\ appr[job[j].key].status = "approved"
    /\ SetStatus(job[j].key, "executed")
    /\ Commit(j)
    /\ UNCHANGED <<drafting, email>>

\* The email's deletion commits: every draft of it that is there is redacted,
\* whatever its status.
EraseEmail ==
    /\ email = "kept"
    /\ email' = "erased"
    /\ appr' = [a \in Approvals |-> [appr[a] EXCEPT !.body = IF @ = "text" THEN "redacted" ELSE @]]
    /\ UNCHANGED <<vars, drafting>>

\* What the queue does with any job, the execution of an approval apart.
OtherJobs ==
    /\ \/ \E j \in Jobs : \/ Fetch(j) \/ Claim(j) \/ AfterCommit(j) \/ Retry(j) \/ Park(j)
                          \/ Recover(j) \/ Throw(j) \/ Crash(j)
                          \/ job[j].key \notin Approvals /\ Commit(j)
       \/ \E j, i \in Jobs : RetryDead(j, i)
       \/ \E j \in Jobs, k \in Keys \ Approvals : Enqueue(j, k)
       \/ \E c \in Cancels : CancelEnd(c) \/ \E k \in Keys \ Approvals : CancelProbe(c, k)
    /\ UNCHANGED apprVars

ApprovalNext ==
    \/ OtherJobs
    \/ \E a \in Approvals : \/ Create(a) \/ DraftRead(a) \/ DraftCreate(a)
                            \/ Reject(a) \/ Elapse(a) \/ \E j \in Jobs : Approve(a, j)
    \/ \E j \in Jobs : Execute(j)
    \/ ExpireStale \/ EraseEmail

\* The worker as in JobQueue; the pass comes round.
ApprovalFairness ==
    /\ \A j \in Jobs :
          /\ WF_avars(Work(j) /\ job[j].key \notin Approvals /\ UNCHANGED apprVars)
          /\ WF_avars(Work(j) /\ job[j].pc # "claimed" /\ UNCHANGED apprVars)
          /\ SF_avars(Claim(j) /\ UNCHANGED apprVars)
          /\ WF_avars(Execute(j))
    /\ \A c \in Cancels : WF_avars(CancelEnd(c) /\ UNCHANGED apprVars)
    /\ WF_avars(ExpireStale)

ApprovalSpec == ApprovalInit /\ [][ApprovalNext]_avars
FairApprovalSpec == ApprovalSpec /\ ApprovalFairness

\* GET /api/approvals/:id and /:id/email-draft: the requester is shown what the
\* payload holds, whatever the status.
DraftShown(a) == appr[a].status # "none" /\ appr[a].body = "text"

-----------------------------------------------------------------------------
Statuses == {"none", "pending_approval", "approved", "rejected", "expired", "executed"}

ApprovalTypeOK ==
    /\ TypeOK
    /\ appr \in [Approvals -> [status : Statuses, overdue : BOOLEAN, body : {"none", "text", "redacted"}]]
    /\ drafting \subseteq Approvals
    /\ email \in {"kept", "erased"}

\* The service, the pass and the executor together implement the aggregate's
\* transition function, which only the service calls: confirm racing expiry,
\* redelivered executions and all.
Machine(a) == INSTANCE ApprovalMachine WITH status <- appr[a].status
MachineRefined ==
    /\ \A a \in Approvals : Machine(a)!Init
    /\ [][\A a \in Approvals : Machine(a)!Next \/ UNCHANGED appr[a].status]_avars

\* "a rejected/expired approval can never execute" (ApprovalExecutor) and the
\* record tells the truth: an approval says executed if and only if its effect
\* was committed, over crashes, lost commit answers and redelivery.
ExecutedIsTrue == \A a \in Approvals : appr[a].status = "executed" <=> effects[a] = 1

\* Every enqueued key settles; an approved action is executed in the end, or its
\* job is parked or exhausted where an operator finds it; and a pending one does
\* not outlive its expiry.
ApprovalSettles ==
    /\ WorkSettles
    /\ \A a \in Approvals :
        /\ appr[a].status = "approved" ~>
              \/ appr[a].status = "executed"
              \/ \E j \in Jobs : job[j].key = a /\ (j \in dead \/ Exhausted(j))
        /\ a \in Stale ~> a \notin Stale

\* "On email-source deletion this redacts the drafted body of every reply-draft
\* approval that referenced the source" (ReplyDraftCascade).
DraftsErasedWithEmail ==
    email = "erased" => \A a \in Approvals : ~DraftShown(a)
=============================================================================
