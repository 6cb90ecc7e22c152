-------------------------- MODULE Approvals_proofs --------------------------
(***************************************************************************)
(* Proofs about JobQueue, for any number of keys, jobs, cancellations and  *)
(* attempts: at-most-once effects, continuations only after an effect,     *)
(* cancellations that never block, and no work lost out of sight; and      *)
(* about Approvals, which runs on the queue: an approval's status tells    *)
(* the truth and follows the machine of its aggregate.                     *)
(*                                                                         *)
(* The argument: the run lock makes the uncommitted claim of a key unique  *)
(* (OneClaim) and the key free while it lasts (ClaimIsFree), so a commit   *)
(* takes a key from "none" to "ran" once, and counts the one effect.       *)
(***************************************************************************)
EXTENDS Approvals, TLAPS

\* One effect per key that ran, none otherwise.
EffectsMatchLedger == \A k \in Keys : effects[k] = IF ledger[k] = "ran" THEN 1 ELSE 0

\* An uncommitted claim holds the run lock of a key nobody has consumed.
ClaimIsFree == \A j \in Jobs : job[j].pc = "claimed" => ledger[job[j].key] = "none"
OneClaim == /\ \A j, i \in Jobs : job[j].pc = "claimed" /\ job[i].pc = "claimed"
                                    /\ job[j].key = job[i].key => j = i
            /\ CancelNeverBlocks

\* A continuation still to run belongs to a committed effect, and is the only one.
OneContinuation ==
    /\ \A j \in Jobs : job[j].pc = "after" =>
          ledger[job[j].key] = "ran" /\ continued[job[j].key] = 0
    /\ \A j, i \in Jobs : job[j].pc = "after" /\ job[i].pc = "after"
                            /\ job[j].key = job[i].key => j = i
    /\ \A k \in Keys : continued[k] <= effects[k]

\* The job or the dead_letter row that stands for work still to be done.
Carries(j, k) == job[j].key = k /\ (job[j].pc \notin {"none", "gone"} \/ j \in dead)
WorkCarried ==
    /\ \A k \in Keys : Enqueued(k) /\ ledger[k] = "none" => \E j \in Jobs : Carries(j, k)
    /\ \A j \in dead : job[j].pc # "none"
    /\ \A j \in Jobs : job[j].pc = "none" => job[j].key = None

IInv == /\ TypeOK /\ EffectsMatchLedger /\ ClaimIsFree /\ OneClaim
        /\ OneContinuation /\ WorkCarried

USE JobAssumption

-----------------------------------------------------------------------------
LEMMA InitIInv == Init => IInv
<1> SUFFICES ASSUME Init PROVE IInv
  OBVIOUS
<1>1. TypeOK
  BY DEF Init, TypeOK, JobType, Unused
<1>2. EffectsMatchLedger /\ ClaimIsFree /\ OneClaim /\ OneContinuation
  BY DEF Init, EffectsMatchLedger, ClaimIsFree, OneClaim, CancelNeverBlocks,
     OneContinuation, Unused
<1>3. WorkCarried
  BY DEF Init, WorkCarried, Enqueued, Unused
<1> QED BY <1>1, <1>2, <1>3 DEF IInv

\* A step moves the pc of one job, and changes no other job and no key.
Moves(j, pcs) == /\ \A i \in Jobs : job'[i].key = job[i].key /\ (i # j => job'[i] = job[i])
                 /\ job[j].pc # "none" /\ job'[j].pc \in pcs

\* A job that moves without committing anything disturbs nothing.
LEMMA JobMoves ==
    ASSUME IInv, TypeOK', NEW j \in Jobs, Moves(j, {"ready", "waiting", "error", "lost"}),
           UNCHANGED <<ledger, effects, continued, dead, cancel>>
    PROVE  IInv'
<1>0. /\ TypeOK /\ EffectsMatchLedger /\ ClaimIsFree /\ OneClaim
      /\ OneContinuation /\ WorkCarried
  BY DEF IInv
<1>1. EffectsMatchLedger'
  BY <1>0 DEF EffectsMatchLedger
<1>2. ClaimIsFree' /\ OneClaim'
  BY <1>0 DEF ClaimIsFree, OneClaim, CancelNeverBlocks, Moves
<1>3. OneContinuation'
  BY <1>0 DEF OneContinuation, Moves
<1>4. WorkCarried'
  <2>1. \A k \in Keys : Enqueued(k)' => Enqueued(k)
    BY DEF Enqueued, Moves
  <2>2. \A i \in Jobs, k \in Keys : Carries(i, k) => Carries(i, k)'
    BY DEF Carries, Moves
  <2>3. \A i \in Jobs : job'[i].pc = "none" => job[i].pc = "none" /\ job'[i].key = job[i].key
    BY DEF Moves
  <2> QED BY <1>0, <2>1, <2>2, <2>3 DEF WorkCarried, TypeOK
<1> QED BY <1>1, <1>2, <1>3, <1>4 DEF IInv

\* What is known before every step.
LEMMA Parts ==
    ASSUME IInv
    PROVE  /\ TypeOK /\ EffectsMatchLedger /\ ClaimIsFree /\ OneClaim
           /\ OneContinuation /\ WorkCarried
BY DEF IInv

LEMMA AddedType == ASSUME NEW k \in Keys PROVE Added(k) \in JobType
BY DEF Added, JobType

LEMMA EnqueueIInv ==
    ASSUME IInv, NEW j \in Jobs, NEW k \in Keys, Enqueue(j, k)
    PROVE  IInv'
<1>0. /\ TypeOK /\ EffectsMatchLedger /\ ClaimIsFree /\ OneClaim
      /\ OneContinuation /\ WorkCarried
  BY Parts
<1>1. /\ job[j].pc = "none" /\ job[j].key = None /\ j \notin dead
      /\ job'[j].pc = "ready" /\ job'[j].key = k
      /\ \A i \in Jobs : i # j => job'[i] = job[i]
  BY <1>0 DEF Enqueue, TypeOK, Added, WorkCarried
<1>2. TypeOK'
  <2>1. Added(k) \in JobType
    BY AddedType
  <2>2. job' \in [Jobs -> JobType]
    BY <1>0, <2>1 DEF Enqueue, TypeOK
  <2> QED BY <1>0, <1>1, <2>2 DEF Enqueue, TypeOK
<1>3. EffectsMatchLedger' /\ ClaimIsFree' /\ OneClaim'
  BY <1>0, <1>1 DEF Enqueue, EffectsMatchLedger, ClaimIsFree, OneClaim, CancelNeverBlocks
<1>4. OneContinuation'
  BY <1>0, <1>1 DEF Enqueue, OneContinuation
<1>5. WorkCarried'
  <2>1. \A i \in Jobs, l \in Keys : Carries(i, l) => Carries(i, l)'
    BY <1>1 DEF Carries, Enqueue
  <2>2. Carries(j, k)'
    BY <1>1 DEF Carries
  <2>3. \A l \in Keys : Enqueued(l)' => Enqueued(l) \/ l = k
    BY <1>1 DEF Enqueued
  <2> QED BY <1>0, <1>1, <2>1, <2>2, <2>3 DEF WorkCarried, Enqueue
<1> QED BY <1>2, <1>3, <1>4, <1>5 DEF IInv

\* Fetch, Throw, Retry, Crash, Recover: a job moves and commits nothing.
LEMMA MoveIInv ==
    ASSUME IInv, NEW j \in Jobs,
           Fetch(j) \/ Throw(j) \/ Retry(j) \/ Crash(j) \/ Recover(j)
    PROVE  IInv'
<1>0. TypeOK
  BY Parts
<1>1. CASE Fetch(j)
  BY <1>0, <1>1, JobMoves DEF Fetch, TypeOK, JobType, Moves
<1>2. CASE Throw(j)
  BY <1>0, <1>2, JobMoves DEF Throw, TypeOK, JobType, Moves
<1>3. CASE Retry(j)
  BY <1>0, <1>3, JobMoves DEF Retry, TypeOK, JobType, Moves
<1>4. CASE Crash(j)
  BY <1>0, <1>4, JobMoves DEF Crash, TypeOK, JobType, Moves
<1>5. CASE Recover(j)
  BY <1>0, <1>5, JobMoves DEF Recover, TypeOK, JobType, Moves
<1> QED BY <1>1, <1>2, <1>3, <1>4, <1>5

LEMMA ClaimIInv ==
    ASSUME IInv, NEW j \in Jobs, Claim(j)
    PROVE  IInv'
<1> DEFINE k == job[j].key
<1>0. /\ TypeOK /\ EffectsMatchLedger /\ ClaimIsFree /\ OneClaim
      /\ OneContinuation /\ WorkCarried
  BY Parts
<1>1. /\ k \in Keys /\ Moves(j, {"claimed", "gone"})
      /\ job'[j].pc = IF ledger[k] = "none" THEN "claimed" ELSE "gone"
      /\ job[j].pc = "waiting" /\ ~RunLocked(k)
      /\ UNCHANGED <<ledger, effects, continued, dead, cancel>>
  BY <1>0 DEF Claim, TypeOK, JobType, Moves
<1>2. TypeOK'
  BY <1>0 DEF Claim, TypeOK, JobType
<1>3. EffectsMatchLedger' /\ ClaimIsFree'
  BY <1>0, <1>1 DEF EffectsMatchLedger, ClaimIsFree, Moves
<1>4. OneClaim'
  <2>1. /\ \A i \in Jobs : ~(job[i].pc = "claimed" /\ job[i].key = k)
        /\ \A c \in Cancels : ~(cancel[c].pc = "locked" /\ cancel[c].key = k)
    BY <1>1 DEF RunLocked
  <2> QED BY <1>0, <1>1, <2>1 DEF OneClaim, CancelNeverBlocks, Moves
<1>5. OneContinuation'
  BY <1>0, <1>1 DEF OneContinuation, Moves
<1>6. WorkCarried'
  <2>1. \A l \in Keys : Enqueued(l)' => Enqueued(l)
    BY <1>1 DEF Enqueued, Moves
  <2>2. \A i \in Jobs, l \in Keys : Carries(i, l) /\ ledger[l] = "none" => Carries(i, l)'
    BY <1>1 DEF Carries, Moves
  <2> QED BY <1>0, <1>1, <2>1, <2>2 DEF WorkCarried, TypeOK, Moves
<1> QED BY <1>2, <1>3, <1>4, <1>5, <1>6 DEF IInv

LEMMA CommitIInv ==
    ASSUME IInv, NEW j \in Jobs, Commit(j)
    PROVE  IInv'
<1> DEFINE k == job[j].key
<1>0. /\ TypeOK /\ EffectsMatchLedger /\ ClaimIsFree /\ OneClaim
      /\ OneContinuation /\ WorkCarried
  BY Parts
<1>1. /\ k \in Keys /\ Moves(j, {"after", "error"}) /\ job[j].pc = "claimed"
      /\ ledger[k] = "none" /\ effects[k] = 0 /\ continued[k] \in Nat
      /\ ledger' = [ledger EXCEPT ![k] = "ran"] /\ effects' = [effects EXCEPT ![k] = 1]
      /\ UNCHANGED <<continued, dead, cancel>>
  <2>1. k \in Keys /\ job[j].pc = "claimed" /\ ledger[k] = "none"
    BY <1>0 DEF Commit, TypeOK, ClaimIsFree
  <2>2. effects[k] = 0 /\ continued[k] \in Nat
    BY <1>0, <2>1 DEF TypeOK, EffectsMatchLedger
  <2>3. Moves(j, {"after", "error"})
    BY <1>0 DEF Commit, TypeOK, JobType, Moves
  <2> QED BY <2>1, <2>2, <2>3 DEF Commit
<1>2. TypeOK'
  BY <1>0, <1>1 DEF Commit, TypeOK, JobType
<1>3. EffectsMatchLedger'
  BY <1>0, <1>1 DEF EffectsMatchLedger, TypeOK
<1>4. ClaimIsFree' /\ OneClaim'
  BY <1>0, <1>1 DEF ClaimIsFree, OneClaim, CancelNeverBlocks, Moves, TypeOK
<1>5. OneContinuation'
  <2>1. continued[k] = 0
    BY <1>0, <1>1 DEF OneContinuation, TypeOK
  <2>2. \A i \in Jobs : job[i].pc = "after" => job[i].key # k /\ job[i].key \in Keys
    BY <1>0, <1>1 DEF OneContinuation, TypeOK
  <2>3. \A l \in Keys : continued'[l] <= effects'[l]
    BY <1>0, <1>1, <2>1 DEF OneContinuation, TypeOK
  <2> QED BY <1>0, <1>1, <2>1, <2>2, <2>3 DEF OneContinuation, Moves, TypeOK
<1>6. WorkCarried'
  <2>1. \A l \in Keys : Enqueued(l)' => Enqueued(l)
    BY <1>1 DEF Enqueued, Moves
  <2>2. \A i \in Jobs, l \in Keys : Carries(i, l) => Carries(i, l)'
    BY <1>1 DEF Carries, Moves
  <2> QED BY <1>0, <1>1, <2>1, <2>2 DEF WorkCarried, TypeOK, Moves
<1> QED BY <1>2, <1>3, <1>4, <1>5, <1>6 DEF IInv

LEMMA AfterCommitIInv ==
    ASSUME IInv, NEW j \in Jobs, AfterCommit(j)
    PROVE  IInv'
<1> DEFINE k == job[j].key
<1>0. /\ TypeOK /\ EffectsMatchLedger /\ ClaimIsFree /\ OneClaim
      /\ OneContinuation /\ WorkCarried
  BY Parts
<1>1. /\ k \in Keys /\ Moves(j, {"gone"}) /\ job[j].pc = "after"
      /\ ledger[k] = "ran" /\ effects[k] = 1 /\ continued[k] = 0
      /\ continued' = [continued EXCEPT ![k] = 1]
      /\ UNCHANGED <<ledger, effects, dead, cancel>>
  <2>1. k \in Keys /\ job[j].pc = "after" /\ ledger[k] = "ran" /\ continued[k] = 0
    BY <1>0 DEF AfterCommit, TypeOK, OneContinuation
  <2>2. effects[k] = 1
    BY <1>0, <2>1 DEF EffectsMatchLedger
  <2>3. Moves(j, {"gone"})
    BY <1>0 DEF AfterCommit, TypeOK, JobType, Moves
  <2> QED BY <2>1, <2>2, <2>3 DEF AfterCommit
<1>2. TypeOK'
  BY <1>0, <1>1 DEF AfterCommit, TypeOK, JobType
<1>3. EffectsMatchLedger' /\ ClaimIsFree' /\ OneClaim'
  BY <1>0, <1>1 DEF EffectsMatchLedger, ClaimIsFree, OneClaim, CancelNeverBlocks, Moves
<1>4. OneContinuation'
  <2>1. \A i \in Jobs : job'[i].pc = "after" =>
          i # j /\ job[i].pc = "after" /\ job[i].key # k /\ job[i].key \in Keys
    BY <1>0, <1>1 DEF OneContinuation, Moves, TypeOK
  <2>2. \A l \in Keys : continued'[l] <= effects'[l]
    BY <1>0, <1>1 DEF OneContinuation, TypeOK
  <2> QED BY <1>0, <1>1, <2>1, <2>2 DEF OneContinuation, Moves, TypeOK
<1>5. WorkCarried'
  <2>1. \A l \in Keys : Enqueued(l)' => Enqueued(l)
    BY <1>1 DEF Enqueued, Moves
  <2>2. \A i \in Jobs, l \in Keys : Carries(i, l) /\ ledger[l] = "none" => Carries(i, l)'
    BY <1>1 DEF Carries, Moves
  <2> QED BY <1>0, <1>1, <2>1, <2>2 DEF WorkCarried, TypeOK, Moves
<1> QED BY <1>2, <1>3, <1>4, <1>5 DEF IInv

LEMMA ParkIInv ==
    ASSUME IInv, NEW j \in Jobs, Park(j)
    PROVE  IInv'
<1>0. /\ TypeOK /\ EffectsMatchLedger /\ ClaimIsFree /\ OneClaim
      /\ OneContinuation /\ WorkCarried
  BY Parts
<1>1. TypeOK'
  BY <1>0 DEF Park, TypeOK, JobType
<1>2. CASE dead' = dead /\ job' = [job EXCEPT ![j].pc = "ready", ![j].error = "thrown"]
  BY <1>0, <1>1, <1>2, JobMoves DEF Park, TypeOK, JobType, Moves
<1>3. CASE dead' = dead \cup {j} /\ job' = [job EXCEPT ![j].pc = "gone"]
  <2>1. Moves(j, {"gone"}) /\ UNCHANGED <<ledger, effects, continued, cancel>>
    BY <1>0, <1>3 DEF Park, TypeOK, JobType, Moves
  <2>2. EffectsMatchLedger' /\ ClaimIsFree' /\ OneClaim'
    BY <1>0, <2>1 DEF EffectsMatchLedger, ClaimIsFree, OneClaim, CancelNeverBlocks, Moves
  <2>3. OneContinuation'
    BY <1>0, <2>1 DEF OneContinuation, Moves
  <2>4. WorkCarried'
    <3>1. \A l \in Keys : Enqueued(l)' => Enqueued(l)
      BY <2>1 DEF Enqueued, Moves
    <3>2. \A i \in Jobs, l \in Keys : Carries(i, l) => Carries(i, l)'
      BY <1>3, <2>1 DEF Carries, Moves
    <3> QED BY <1>0, <1>3, <2>1, <3>1, <3>2 DEF WorkCarried, TypeOK, Moves
  <2> QED BY <1>1, <2>2, <2>3, <2>4 DEF IInv
<1> QED BY <1>2, <1>3 DEF Park

LEMMA RetryDeadIInv ==
    ASSUME IInv, NEW j \in Jobs, NEW i \in Jobs, RetryDead(j, i)
    PROVE  IInv'
<1> DEFINE k == job[j].key
<1>0. /\ TypeOK /\ EffectsMatchLedger /\ ClaimIsFree /\ OneClaim
      /\ OneContinuation /\ WorkCarried
  BY Parts
<1>1. /\ k \in Keys /\ j \in dead /\ i # j /\ i \notin dead
      /\ job[i].pc = "none" /\ job[i].key = None
      /\ job'[i].pc = "ready" /\ job'[i].key = k
      /\ \A h \in Jobs : h # i => job'[h] = job[h]
      /\ dead' = dead \ {j} /\ UNCHANGED <<ledger, effects, continued, cancel>>
  BY <1>0 DEF RetryDead, TypeOK, Added, WorkCarried
<1>2. TypeOK'
  <2>1. Added(k) \in JobType
    BY <1>1, AddedType
  <2>2. job' \in [Jobs -> JobType]
    BY <1>0, <2>1 DEF RetryDead, TypeOK
  <2> QED BY <1>0, <1>1, <2>2 DEF TypeOK
<1>3. EffectsMatchLedger' /\ ClaimIsFree' /\ OneClaim'
  BY <1>0, <1>1 DEF EffectsMatchLedger, ClaimIsFree, OneClaim, CancelNeverBlocks
<1>4. OneContinuation'
  BY <1>0, <1>1 DEF OneContinuation
<1>5. WorkCarried'
  <2>1. \A h \in Jobs, l \in Keys : Carries(h, l) /\ l # k => Carries(h, l)'
    BY <1>1 DEF Carries
  <2>2. Carries(i, k)'
    BY <1>1 DEF Carries
  <2>3. \A l \in Keys : Enqueued(l)' => Enqueued(l) \/ l = k
    BY <1>1 DEF Enqueued
  <2>4. \A l \in Keys : Enqueued(l)' /\ ledger'[l] = "none" => \E h \in Jobs : Carries(h, l)'
    BY <1>0, <1>1, <2>1, <2>2, <2>3 DEF WorkCarried
  <2>5. \A h \in dead' : h \in Jobs /\ job'[h].pc # "none"
    BY <1>0, <1>1 DEF WorkCarried, TypeOK
  <2>6. \A h \in Jobs : job'[h].pc = "none" => job'[h].key = None
    BY <1>0, <1>1 DEF WorkCarried
  <2> QED BY <2>4, <2>5, <2>6 DEF WorkCarried
<1> QED BY <1>2, <1>3, <1>4, <1>5 DEF IInv

LEMMA CancelIInv ==
    ASSUME IInv, NEW c \in Cancels,
           CancelEnd(c) \/ \E k \in Keys : CancelProbe(c, k)
    PROVE  IInv'
<1>0. /\ TypeOK /\ EffectsMatchLedger /\ ClaimIsFree /\ OneClaim
      /\ OneContinuation /\ WorkCarried
  BY Parts
<1>1. ASSUME NEW k \in Keys, CancelProbe(c, k) PROVE IInv'
  <2>1. TypeOK' /\ EffectsMatchLedger' /\ ClaimIsFree' /\ OneContinuation'
    BY <1>0, <1>1 DEF CancelProbe, TypeOK, EffectsMatchLedger, ClaimIsFree, OneContinuation
  <2>2. OneClaim'
    BY <1>0, <1>1 DEF CancelProbe, OneClaim, CancelNeverBlocks, RunLocked, TypeOK
  <2>3. WorkCarried'
    BY <1>0, <1>1 DEF CancelProbe, WorkCarried, Enqueued, Carries
  <2> QED BY <2>1, <2>2, <2>3 DEF IInv
<1>2. CASE CancelEnd(c)
  <2> DEFINE k == cancel[c].key
  <2>1. /\ k \in Keys /\ cancel[c].pc = "locked"
        /\ cancel' = [cancel EXCEPT ![c].pc = "done"]
        /\ UNCHANGED <<job, effects, continued, dead>>
        /\ \A l \in Keys : ledger'[l] = ledger[l]
                           \/ (l = k /\ ledger[k] = "none" /\ ledger'[k] = "cancelled")
    <3>1. k \in Keys /\ cancel[c].pc = "locked"
      BY <1>0, <1>2 DEF CancelEnd, TypeOK
    <3>2. \/ ledger' = [ledger EXCEPT ![k] = IF ledger[k] = "none" THEN "cancelled" ELSE ledger[k]]
          \/ ledger' = ledger
      BY <1>2 DEF CancelEnd
    <3>3. \A l \in Keys : ledger'[l] = ledger[l]
                          \/ (l = k /\ ledger[k] = "none" /\ ledger'[k] = "cancelled")
      <4>1. CASE ledger' = ledger
        BY <4>1
      <4>2. CASE ledger' = [ledger EXCEPT ![k] = IF ledger[k] = "none" THEN "cancelled"
                                                 ELSE ledger[k]]
        <5>1. CASE ledger[k] = "none"
          BY <1>0, <3>1, <4>2, <5>1 DEF TypeOK
        <5>2. CASE ledger[k] # "none"
          BY <1>0, <3>1, <4>2, <5>2 DEF TypeOK
        <5> QED BY <5>1, <5>2
      <4> QED BY <3>2, <4>1, <4>2
    <3> QED BY <1>2, <3>1, <3>3 DEF CancelEnd
  <2>2. TypeOK'
    BY <1>0, <1>2, <2>1 DEF CancelEnd, TypeOK
  <2>3. EffectsMatchLedger'
    BY <1>0, <2>1 DEF EffectsMatchLedger
  <2>4. ClaimIsFree' /\ OneClaim'
    BY <1>0, <2>1 DEF ClaimIsFree, OneClaim, CancelNeverBlocks, TypeOK
  <2>5. OneContinuation'
    BY <1>0, <2>1 DEF OneContinuation, TypeOK
  <2>6. WorkCarried'
    BY <1>0, <2>1 DEF WorkCarried, Enqueued, Carries
  <2> QED BY <2>2, <2>3, <2>4, <2>5, <2>6 DEF IInv
<1> QED BY <1>1, <1>2

LEMMA NextIInv == IInv /\ [Next]_vars => IInv'
<1> SUFFICES ASSUME IInv, [Next]_vars PROVE IInv'
  OBVIOUS
<1>1. CASE UNCHANGED vars
  BY <1>1, Parts DEF vars, IInv, TypeOK, EffectsMatchLedger, ClaimIsFree, OneClaim,
     CancelNeverBlocks, OneContinuation, WorkCarried, Enqueued, Carries
<1>2. CASE Next
  BY <1>2, EnqueueIInv, MoveIInv, ClaimIInv, CommitIInv, AfterCommitIInv, ParkIInv,
     RetryDeadIInv, CancelIInv DEF Next, Work
<1> QED BY <1>1, <1>2

-----------------------------------------------------------------------------
\* The queue's bookkeeping keeps its types over every delivery and crash.
THEOREM TypeCorrect == Spec => []TypeOK
<1>1. IInv => TypeOK
  BY DEF IInv
<1> QED BY InitIInv, NextIInv, <1>1, PTL DEF Spec

\* idempotentTask's "at-most-once effect", over every delivery, crash, retry by
\* hand and cancellation.
THEOREM EffectAtMostOnce == Spec => []AtMostOnceEffect
<1>1. IInv => AtMostOnceEffect
  BY Parts DEF AtMostOnceEffect, EffectsMatchLedger
<1> QED BY InitIInv, NextIInv, <1>1, PTL DEF Spec

\* A cancellation that got the run lock never waits for an uncommitted claim.
THEOREM CancelNeverWaits == Spec => []CancelNeverBlocks
<1>1. IInv => CancelNeverBlocks
  BY DEF IInv, OneClaim
<1> QED BY InitIInv, NextIInv, <1>1, PTL DEF Spec

\* A continuation runs at most once, and only for a committed effect.
THEOREM ContinuationAfterEffect == Spec => []ContinuationFollowsEffect
<1>1. IInv => ContinuationFollowsEffect
  BY DEF IInv, OneContinuation, ContinuationFollowsEffect
<1> QED BY InitIInv, NextIInv, <1>1, PTL DEF Spec

\* No job is lost out of sight, save one that only ever crashed its worker.
THEOREM NoWorkUnaccounted == Spec => []WorkAccounted
<1>1. IInv => WorkAccounted
  <2> SUFFICES ASSUME IInv, NEW k \in Keys, Enqueued(k), ledger[k] = "none"
               PROVE  Visible(k) \/ CrashedOut(k)
    BY DEF WorkAccounted
  <2>1. PICK j \in Jobs : Carries(j, k)
    BY Parts DEF WorkCarried
  <2>2. job[j].error \in {"none", "thrown"}
    BY Parts DEF TypeOK, JobType
  <2> QED BY <2>1, <2>2 DEF Carries, Visible, CrashedOut, InProgress, PermFailed
<1> QED BY InitIInv, NextIInv, <1>1, PTL DEF Spec
-----------------------------------------------------------------------------
(* Approvals over the queue.                                               *)

\* A draft being written has no row yet.
DraftsUnborn == \A a \in drafting : appr[a].status = "none"
AInv == IInv /\ ApprovalTypeOK /\ ExecutedIsTrue /\ DraftsUnborn

USE ApprovalAssumption

LEMMA InitAInv == ApprovalInit => AInv
<1> SUFFICES ASSUME ApprovalInit PROVE AInv
  OBVIOUS
<1>1. IInv
  BY InitIInv DEF ApprovalInit
<1>2. ApprovalTypeOK /\ DraftsUnborn
  BY <1>1, Parts DEF ApprovalInit, ApprovalTypeOK, NoApproval, Statuses, DraftsUnborn
<1>3. ExecutedIsTrue
  BY DEF ApprovalInit, Init, NoApproval, ExecutedIsTrue
<1> QED BY <1>1, <1>2, <1>3 DEF AInv

\* What the queue does under the approvals is a step of the queue.
LEMMA QueueStep ==
    ASSUME ApprovalNext PROVE Next \/ UNCHANGED vars
<1>1. CASE OtherJobs
  BY <1>1 DEF OtherJobs, Next, Work
<1>2. ASSUME NEW a \in Approvals, NEW j \in Jobs, Approve(a, j) PROVE Next
  BY <1>2 DEF Approve, Next
<1>3. ASSUME NEW j \in Jobs, Execute(j) PROVE Next
  BY <1>3 DEF Execute, Next, Work
<1>4. ASSUME NEW a \in Approvals,
             Create(a) \/ DraftRead(a) \/ DraftCreate(a) \/ Reject(a) \/ Elapse(a)
      PROVE  UNCHANGED vars
  BY <1>4 DEF Create, DraftRead, DraftCreate, Reject, Elapse
<1>5. CASE ExpireStale \/ EraseEmail
  BY <1>5 DEF ExpireStale, EraseEmail
<1> QED BY <1>1, <1>2, <1>3, <1>4, <1>5 DEF ApprovalNext

\* The edges an approval may take in a step; where it takes none its status stays.
Edge(a) ==
    \/ appr'[a].status = appr[a].status
    \/ appr[a].status = "none" /\ appr'[a].status = "pending_approval"
    \/ /\ appr[a].status = "pending_approval"
       /\ appr'[a].status \in {"approved", "rejected", "expired"}

\* Every step but an execution takes each approval along an edge of a decision,
\* and commits no effect of any of them.
LEMMA Decides ==
    ASSUME AInv, ApprovalNext, \A j \in Jobs : ~Execute(j)
    PROVE  \A b \in Approvals : Edge(b) /\ effects'[b] = effects[b]
<1>0. appr \in [Approvals -> [status : Statuses, overdue : BOOLEAN, body : {"none", "text", "redacted"}]]
  BY DEF AInv, ApprovalTypeOK
<1>1. CASE OtherJobs
  <2>1. appr' = appr
    BY <1>1 DEF OtherJobs, apprVars
  <2>2. CASE effects' = effects
    BY <2>1, <2>2 DEF Edge
  <2>3. CASE effects' # effects
    <3>1. PICK j \in Jobs : job[j].key \notin Approvals /\ Commit(j)
      BY <1>1, <2>3 DEF OtherJobs, Fetch, Claim, AfterCommit, Retry, Park, Recover, Throw, Crash,
         RetryDead, Enqueue, CancelEnd, CancelProbe
    <3>2. \A b \in Approvals : effects'[b] = effects[b]
      BY <3>1, Parts DEF Commit, AInv, TypeOK
    <3> QED BY <2>1, <3>2 DEF Edge
  <2> QED BY <2>2, <2>3
<1>2. ASSUME NEW a \in Approvals, NEW j \in Jobs, Approve(a, j)
      PROVE  \A b \in Approvals : Edge(b) /\ effects'[b] = effects[b]
  BY <1>0, <1>2 DEF Approve, SetStatus, Enqueue, Edge
<1>3. ASSUME NEW a \in Approvals, Create(a) \/ Reject(a)
      PROVE  \A b \in Approvals : Edge(b) /\ effects'[b] = effects[b]
  BY <1>0, <1>3 DEF Create, Reject, SetStatus, vars, Edge
<1>4. ASSUME NEW a \in Approvals, DraftRead(a) \/ Elapse(a)
      PROVE  \A b \in Approvals : Edge(b) /\ effects'[b] = effects[b]
  BY <1>0, <1>4 DEF DraftRead, Elapse, vars, Edge
<1>5. ASSUME NEW a \in Approvals, DraftCreate(a)
      PROVE  \A b \in Approvals : Edge(b) /\ effects'[b] = effects[b]
  <2>1. appr[a].status = "none"
    BY <1>5 DEF DraftCreate, AInv, DraftsUnborn
  <2> QED BY <1>0, <1>5, <2>1 DEF DraftCreate, vars, Edge
<1>6. CASE ExpireStale
  BY <1>0, <1>6 DEF ExpireStale, Stale, vars, Edge
<1>7. CASE EraseEmail
  BY <1>0, <1>7 DEF EraseEmail, vars, Edge
<1> QED BY <1>1, <1>2, <1>3, <1>4, <1>5, <1>6, <1>7 DEF ApprovalNext

\* An execution takes one approval from approved to executed, with its one effect.
LEMMA Executes ==
    ASSUME AInv, NEW j \in Jobs, Execute(j)
    PROVE  \E a \in Approvals :
             /\ appr[a].status = "approved" /\ appr'[a].status = "executed" /\ effects'[a] = 1
             /\ \A b \in Approvals \ {a} :
                   appr'[b].status = appr[b].status /\ effects'[b] = effects[b]
<1> DEFINE a == job[j].key
<1>1. a \in Approvals /\ appr[a].status = "approved" /\ job[j].pc = "claimed"
  BY DEF Execute
<1>2. appr \in [Approvals -> [status : Statuses, overdue : BOOLEAN, body : {"none", "text", "redacted"}]]
  BY DEF AInv, ApprovalTypeOK
<1>3. \A b \in Approvals : appr'[b].status = IF b = a THEN "executed" ELSE appr[b].status
  BY <1>1, <1>2 DEF Execute, SetStatus
<1>4. effects[a] = 0
  BY <1>1, Parts DEF AInv, ClaimIsFree, EffectsMatchLedger
<1>5. \A b \in Approvals : effects'[b] = IF b = a THEN 1 ELSE effects[b]
  BY <1>1, <1>4, Parts DEF AInv, TypeOK, Execute, Commit
<1> QED BY <1>1, <1>3, <1>5

LEMMA ApprovalTyped ==
    ASSUME AInv, ApprovalNext, TypeOK' PROVE ApprovalTypeOK'
<1>0. /\ appr \in [Approvals -> [status : Statuses, overdue : BOOLEAN, body : {"none", "text", "redacted"}]]
      /\ drafting \subseteq Approvals /\ email \in {"kept", "erased"}
  BY DEF AInv, ApprovalTypeOK
<1>1. CASE OtherJobs
  BY <1>0, <1>1 DEF OtherJobs, apprVars, ApprovalTypeOK
<1>2. ASSUME NEW a \in Approvals, NEW s \in Statuses, SetStatus(a, s), UNCHANGED <<drafting, email>>
      PROVE  ApprovalTypeOK'
  BY <1>0, <1>2 DEF SetStatus, ApprovalTypeOK
<1>3. ASSUME NEW a \in Approvals, NEW j \in Jobs, Approve(a, j) PROVE ApprovalTypeOK'
  BY <1>2, <1>3 DEF Approve, Statuses
<1>4. ASSUME NEW a \in Approvals, Create(a) \/ Reject(a) PROVE ApprovalTypeOK'
  BY <1>2, <1>4 DEF Create, Reject, Statuses
<1>5. ASSUME NEW j \in Jobs, Execute(j) PROVE ApprovalTypeOK'
  BY <1>2, <1>5 DEF Execute, Statuses
<1>6. ASSUME NEW a \in Approvals, DraftRead(a) \/ Elapse(a) PROVE ApprovalTypeOK'
  BY <1>0, <1>6 DEF DraftRead, Elapse, ApprovalTypeOK
<1>7. ASSUME NEW a \in Approvals, DraftCreate(a) PROVE ApprovalTypeOK'
  <2>1. [appr[a] EXCEPT !.status = "pending_approval", !.body = "text"] \in
           [status : Statuses, overdue : BOOLEAN, body : {"none", "text", "redacted"}]
    BY <1>0 DEF Statuses
  <2> QED BY <1>0, <1>7, <2>1 DEF DraftCreate, ApprovalTypeOK
<1>8. CASE ExpireStale
  BY <1>0, <1>8 DEF ExpireStale, ApprovalTypeOK, Statuses
<1>9. CASE EraseEmail
  BY <1>0, <1>9 DEF EraseEmail, ApprovalTypeOK
<1> QED BY <1>1, <1>3, <1>4, <1>5, <1>6, <1>7, <1>8, <1>9 DEF ApprovalNext

\* A draft in the making keeps its approval unborn: nothing else creates it.
LEMMA DraftsNext ==
    ASSUME AInv, ApprovalNext PROVE DraftsUnborn'
<1>0. appr \in [Approvals -> [status : Statuses, overdue : BOOLEAN, body : {"none", "text", "redacted"}]]
  BY DEF AInv, ApprovalTypeOK
<1>00. DraftsUnborn /\ drafting \subseteq Approvals
  BY DEF AInv, ApprovalTypeOK
<1>1. CASE OtherJobs
  BY <1>00, <1>1 DEF OtherJobs, apprVars, DraftsUnborn
<1>2. ASSUME NEW a \in Approvals, NEW j \in Jobs, Approve(a, j) PROVE DraftsUnborn'
  BY <1>0, <1>00, <1>2 DEF Approve, SetStatus, DraftsUnborn
<1>3. ASSUME NEW a \in Approvals, Create(a) \/ Reject(a) PROVE DraftsUnborn'
  BY <1>0, <1>00, <1>3 DEF Create, Reject, SetStatus, DraftsUnborn
<1>4. ASSUME NEW j \in Jobs, Execute(j) PROVE DraftsUnborn'
  BY <1>0, <1>00, <1>4 DEF Execute, SetStatus, DraftsUnborn
<1>5. ASSUME NEW a \in Approvals, DraftRead(a) \/ Elapse(a) PROVE DraftsUnborn'
  BY <1>0, <1>00, <1>5 DEF DraftRead, Elapse, DraftsUnborn
<1>6. ASSUME NEW a \in Approvals, DraftCreate(a) PROVE DraftsUnborn'
  BY <1>0, <1>00, <1>6 DEF DraftCreate, DraftsUnborn
<1>7. CASE ExpireStale
  BY <1>0, <1>00, <1>7 DEF ExpireStale, Stale, DraftsUnborn
<1>8. CASE EraseEmail
  <2>1. \A a \in Approvals : appr'[a].status = appr[a].status
    BY <1>0, <1>8 DEF EraseEmail
  <2> QED BY <1>00, <1>8, <2>1 DEF EraseEmail, DraftsUnborn
<1> QED BY <1>1, <1>2, <1>3, <1>4, <1>5, <1>6, <1>7, <1>8 DEF ApprovalNext

LEMMA NextAInv == AInv /\ [ApprovalNext]_avars => AInv'
<1> SUFFICES ASSUME AInv, [ApprovalNext]_avars PROVE AInv'
  OBVIOUS
<1>1. CASE UNCHANGED avars
  <2>1. IInv'
    BY <1>1, NextIInv DEF AInv, avars
  <2>2. ApprovalTypeOK' /\ ExecutedIsTrue' /\ DraftsUnborn'
    BY <1>1, <2>1, Parts DEF AInv, avars, vars, ApprovalTypeOK, ExecutedIsTrue, DraftsUnborn, IInv
  <2> QED BY <2>1, <2>2 DEF AInv
<1>2. CASE ApprovalNext
  <2>1. IInv'
    BY <1>2, QueueStep, NextIInv DEF AInv
  <2>2. ApprovalTypeOK' /\ DraftsUnborn'
    BY <1>2, <2>1, ApprovalTyped, DraftsNext DEF IInv
  <2>3. ExecutedIsTrue'
    <3>1. CASE \E j \in Jobs : Execute(j)
      BY <3>1, Executes DEF AInv, ExecutedIsTrue
    <3>2. CASE \A j \in Jobs : ~Execute(j)
      BY <1>2, <3>2, Decides DEF AInv, ExecutedIsTrue, Edge
    <3> QED BY <3>1, <3>2
  <2> QED BY <2>1, <2>2, <2>3 DEF AInv
<1> QED BY <1>1, <1>2

LEMMA ApprovalInvariance == ApprovalSpec => []AInv
BY InitAInv, NextAInv, PTL DEF ApprovalSpec

\* Approving, executing and expiring move the queue only as its own handlers
\* would: all that is proved of the queue holds under the approvals.
THEOREM QueueUnderApprovals == ApprovalSpec => Spec
<1>1. ApprovalInit => Init
  BY DEF ApprovalInit
<1>2. [ApprovalNext]_avars => [Next]_vars
  BY QueueStep DEF avars
<1> QED BY <1>1, <1>2, PTL DEF ApprovalSpec, Spec

\* "a rejected/expired approval can never execute" (ApprovalExecutor): an approval
\* says executed if and only if its effect was committed, and then once.
THEOREM ExecutionTrue == ApprovalSpec => []ExecutedIsTrue
<1>1. AInv => ExecutedIsTrue
  BY DEF AInv
<1> QED BY <1>1, ApprovalInvariance, PTL

\* The service, the expiry pass and the executor together implement the
\* transition function of the aggregate: a decision is made once and stands.
THEOREM MachineImplemented == ApprovalSpec => MachineRefined
<1>1. ApprovalInit => \A a \in Approvals : Machine(a)!Init
  BY DEF ApprovalInit, NoApproval, Machine!Init
<1>2. AInv /\ [ApprovalNext]_avars
        => [\A a \in Approvals : Machine(a)!Next \/ UNCHANGED appr[a].status]_avars
  <2> SUFFICES ASSUME AInv, ApprovalNext, NEW a \in Approvals
               PROVE  Machine(a)!Next \/ UNCHANGED appr[a].status
    OBVIOUS
  <2>1. CASE \E j \in Jobs : Execute(j)
    BY <2>1, Executes DEF Machine!Next, Machine!Edges
  <2>2. CASE \A j \in Jobs : ~Execute(j)
    BY <2>2, Decides DEF Edge, Machine!Next, Machine!Edges
  <2> QED BY <2>1, <2>2
<1> QED BY <1>1, <1>2, ApprovalInvariance, PTL DEF ApprovalSpec, MachineRefined
=============================================================================
