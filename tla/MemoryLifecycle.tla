-------------------------- MODULE MemoryLifecycle --------------------------
(***************************************************************************)
(* One owner's memories and their statuses: admission, the pair actions of *)
(* reconciliation (merge, contradiction, supersession) driven by pipeline  *)
(* stage 6 and by dreaming, the owner's acts in Review and Memories, the   *)
(* staleness pass, and what a deletion saga does to the survivors.         *)
(*                                                                         *)
(* A driver judges a pair on rows read outside its transaction, waits for  *)
(* the model, and then acts under the locks of both rows: the statuses it  *)
(* judged may be stale by then.  Each act is one step (the row locks are   *)
(* held to the end of the transaction); a batch is several drivers.        *)
(* Entities, similarity and content are what the verdict stands for.       *)
(***************************************************************************)
EXTENDS Naturals, FiniteSets

CONSTANTS
    Mem,       \* memory ids, numbered in the order of created_at
    Sources,
    MaxFacts,  \* bound: facts are admitted while fewer memories were born
    Validity,  \* source |-> the validity intervals its facts may carry
    Now,       \* later than every start and every end of an interval
    Forever,   \* valid_until NULL
    Drivers,   \* facts under reconciliation at a time
    None

Statuses == {"active", "uncertain", "user_approved", "contradicted", "outdated", "replaced"}
\* The model's answers; the last two are supersedes with its direction.
Merges    == {"same", "enriched"}
Directed  == {"a_over_b", "b_over_a"}
Conflicts == {"contradicts"} \cup Directed
Verdicts  == Merges \cup Conflicts

ASSUME MemAssumption == Mem \subseteq Nat
ASSUME TimeAssumption ==
    /\ Now \in Nat /\ Forever \in Nat /\ Now < Forever
    /\ Validity \in [Sources -> SUBSET [from : 0 .. Now, until : (0 .. Now) \cup {Forever}]]
ASSUME NoneAssumption == None \notin Mem /\ None \notin Statuses \cup Verdicts

VARIABLES
    status,  \* memory.status; unborn and erased ids have no row
    ptr,     \* memory.superseded_by
    src,     \* provenance
    held,    \* valid_from and valid_until as inserted (closing one is not read)
    prior,   \* prior[<<a, b>>]: a's status in memory_relation of a and b, or None
    open,    \* the unresolved relations, as a symmetric set of pairs
    job,     \* driver |-> the fact, the candidate and the verdict it holds
    lapsed   \* rows the staleness pass listed and has yet to mark

vars == <<status, ptr, src, held, prior, open, job, lapsed>>

NoJob == [fact |-> None, seen |-> None, cand |-> None, verdict |-> None]

Live == {m \in Mem : status[m] \in Statuses}
Fresh(m) == status[m] = "unborn" /\ \A k \in Mem : status[k] = "unborn" => m <= k
Pair(a, b) == {<<a, b>>, <<b, a>>}

\* m is inserted with status s and its predecessors are closed onto it.
Inserted(m, s, preds) ==
    /\ status' = [k \in Mem |-> IF k = m THEN s ELSE IF k \in preds THEN "replaced" ELSE status[k]]
    /\ ptr' = [k \in Mem |-> IF k \in preds THEN m ELSE ptr[k]]

Init ==
    /\ status = [m \in Mem |-> "unborn"]
    /\ ptr = [m \in Mem |-> None]
    /\ src = [m \in Mem |-> None]
    /\ held = [m \in Mem |-> None]
    /\ prior = [p \in Mem \X Mem |-> None]
    /\ open = {}
    /\ job = [d \in Drivers |-> NoJob]
    /\ lapsed = {}

-----------------------------------------------------------------------------
(* Admission and reconciliation.                                           *)

\* admitExtractedFact: the verification pass decides the initial status.
Admit ==
    /\ \E m \in Mem, s \in {"active", "uncertain"}, o \in Sources : \E v \in Validity[o] :
         /\ Fresh(m) /\ Cardinality({k \in Mem : status[k] # "unborn"}) < MaxFacts
         /\ Inserted(m, s, {})
         /\ src' = [src EXCEPT ![m] = o]
         /\ held' = [held EXCEPT ![m] = v]
    /\ UNCHANGED <<prior, open, job, lapsed>>

\* reconcile takes a fact of its batch: its row as listed or just admitted.
Take(d) ==
    /\ job[d] = NoJob
    /\ \E f \in Live :
         /\ status[f] \in {"active", "uncertain"}
         /\ job' = [job EXCEPT ![d].fact = f, ![d].seen = status[f]]
    /\ UNCHANGED <<status, ptr, src, held, prior, open, lapsed>>

DedupCandidates == {"active", "user_approved", "uncertain"}
ContradictionCandidates == {"active", "user_approved"}

\* supersessionUnambiguous, but for the approvals: the winner holds from later on.
Later(w, l) == held[w].from > held[l].from

\* One candidate is read and judged by the model.  A supersession stands if it is
\* unambiguous by the rows as read, else it is a contradiction from here on.
Judge(d) ==
    /\ job[d].fact # None /\ job[d].verdict = None
    /\ \E c \in Live, v \in Verdicts :
         /\ c # job[d].fact /\ src[c] # src[job[d].fact]
         /\ \/ v \in Merges /\ status[c] \in DedupCandidates
            \/ /\ v \in Conflicts /\ job[d].seen = "active"
               /\ status[c] \in ContradictionCandidates
         /\ v \in Directed => status[c] # "user_approved"
         /\ v = "a_over_b" => Later(job[d].fact, c)
         /\ v = "b_over_a" => Later(c, job[d].fact)
         /\ job' = [job EXCEPT ![d].cand = c, ![d].verdict = v]
    /\ UNCHANGED <<status, ptr, src, held, prior, open, lapsed>>

\* No candidate left: the fact stays as it is.
Settle(d) ==
    /\ job[d].fact # None /\ job[d].verdict = None
    /\ job' = [job EXCEPT ![d] = NoJob]
    /\ UNCHANGED <<status, ptr, src, held, prior, open, lapsed>>

\* Mutant of Mergeable: the statuses are not checked again under the locks.
MergeableUnchecked(a, b) == {a, b} \subseteq Live
\* lockPair finds both rows; neither is already replaced.
Mergeable(a, b) == {a, b} \subseteq Live /\ "replaced" \notin {status[a], status[b]}

Confidence(m) == CASE status[m] = "user_approved" -> 2 [] status[m] = "active" -> 1 [] OTHER -> 0
\* Mutant of Survivor: always the newer one.
SurvivorNewest(a, b) == IF a <= b THEN b ELSE a
\* chooseSurvivor: the newer memory, unless the older one outranks it.
Survivor(a, b) ==
    LET older == IF a <= b THEN a ELSE b
        newer == IF a <= b THEN b ELSE a
    IN IF Confidence(newer) < Confidence(older) THEN older ELSE newer

\* mergeSameFact.  The survivor is enriched, that is superseded by a memory of
\* the merged content, unless it is the owner's or no longer current.
Merge(d) ==
    LET f == job[d].fact
        c == job[d].cand
        s == Survivor(f, c)
        l == IF s = f THEN c ELSE f
    IN /\ job[d].verdict \in Merges
       /\ Mergeable(f, c) /\ {status[f], status[c]} # {"user_approved"}
       /\ IF job[d].verdict = "enriched" /\ status[s] \in {"active", "uncertain"}
          THEN \E m \in Mem :
                 /\ Fresh(m)
                 /\ Inserted(m, status[s], {s, l})
                 /\ src' = [src EXCEPT ![m] = src[s]]
                 /\ held' = [held EXCEPT ![m] = held[s]]
          ELSE /\ status' = [status EXCEPT ![l] = "replaced"]
               /\ ptr' = [ptr EXCEPT ![l] = s]
               /\ UNCHANGED <<src, held>>
       /\ job' = [job EXCEPT ![d] = NoJob]
       /\ UNCHANGED <<prior, open, lapsed>>

\* The merge is skipped (a party replaced, or both the owner's): next candidate.
SkipMerge(d) ==
    LET f == job[d].fact
        c == job[d].cand
    IN /\ job[d].verdict \in Merges
       /\ {f, c} \subseteq Live
       /\ ~Mergeable(f, c) \/ {status[f], status[c]} = {"user_approved"}
       /\ job' = [job EXCEPT ![d].cand = None, ![d].verdict = None]
       /\ UNCHANGED <<status, ptr, src, held, prior, open, lapsed>>

\* applySupersession: neither party may have become the owner's meanwhile.
Supersede(d) ==
    LET f == job[d].fact
        c == job[d].cand
        w == IF job[d].verdict = "a_over_b" THEN f ELSE c
        l == IF job[d].verdict = "a_over_b" THEN c ELSE f
    IN /\ job[d].verdict \in Directed
       /\ Mergeable(f, c) /\ "user_approved" \notin {status[f], status[c]}
       /\ status' = [status EXCEPT ![l] = "replaced"]
       /\ ptr' = [ptr EXCEPT ![l] = w]
       /\ job' = [job EXCEPT ![d] = NoJob]
       /\ UNCHANGED <<src, held, prior, open, lapsed>>

\* a_prior_status and b_prior_status.
Recorded(a, b) == [prior EXCEPT ![<<a, b>>] = status[a], ![<<b, a>>] = status[b]]

\* createContradiction: verdict contradicts, or a supersession that is skipped.
\* One relation per pair, ever; a second is a no-op.
Contradict(d) ==
    LET f == job[d].fact
        c == job[d].cand
    IN /\ \/ job[d].verdict = "contradicts"
          \/ /\ job[d].verdict \in Directed
             /\ Mergeable(f, c) => "user_approved" \in {status[f], status[c]}
       /\ {f, c} \subseteq Live
       /\ job' = [job EXCEPT ![d] = NoJob]
       /\ IF Mergeable(f, c) /\ prior[<<f, c>>] = None
          THEN /\ status' = [status EXCEPT ![f] = "contradicted", ![c] = "contradicted"]
               /\ prior' = Recorded(f, c)
               /\ open' = open \cup Pair(f, c)
          ELSE UNCHANGED <<status, prior, open>>
       /\ UNCHANGED <<ptr, src, held, lapsed>>

\* A party was erased, or the transaction was aborted: the job rolls back.
Abort(d) ==
    /\ job[d] # NoJob
    /\ job' = [job EXCEPT ![d] = NoJob]
    /\ UNCHANGED <<status, ptr, src, held, prior, open, lapsed>>

PairAct(d) == Merge(d) \/ Supersede(d) \/ Contradict(d)

-----------------------------------------------------------------------------
(* The owner, in Review and Memories.                                      *)

\* checkTransition, for the statuses that some caller sets: the actor is the
\* one that may.
MayTransition(m, to) ==
    /\ m \in Live /\ status[m] \notin {"replaced", to}
    /\ to = "user_approved" => status[m] \in {"uncertain", "contradicted"}

\* Review approval, and Mark outdated.
Transition ==
    /\ \E m \in Mem, to \in {"user_approved", "outdated"} :
         MayTransition(m, to) /\ status' = [status EXCEPT ![m] = to]
    /\ UNCHANGED <<ptr, src, held, prior, open, job, lapsed>>

\* bulkMarkOutdatedForOwner: what the owner approved, and history, is skipped.
BulkOutdate ==
    /\ \E S \in SUBSET {m \in Live : status[m] \notin {"user_approved", "replaced", "outdated"}} :
         status' = [m \in Mem |-> IF m \in S THEN "outdated" ELSE status[m]]
    /\ UNCHANGED <<ptr, src, held, prior, open, job, lapsed>>

\* editContent: the successor is the owner's; content is never mutated.
Edit ==
    /\ \E m \in Live, n \in Mem :
         /\ status[m] # "replaced" /\ Fresh(n)
         /\ Inserted(n, "user_approved", {m})
         /\ src' = [src EXCEPT ![n] = src[m]]
         /\ held' = [held EXCEPT ![n] = [from |-> Now, until |-> held[m].until]]
    /\ UNCHANGED <<prior, open, job, lapsed>>

\* The rows of E are deleted, and by cascade the relations they are party to.
Erase(E) ==
    /\ prior' = [p \in Mem \X Mem |-> IF {p[1], p[2]} \cap E # {} THEN None ELSE prior[p]]
    /\ open' = {p \in open : {p[1], p[2]} \cap E = {}}

\* superseded_by is a foreign key that refuses a row still pointed at.
Unreferenced(m) == \A k \in Mem : ptr[k] # m

\* rejectUncertain.
Reject ==
    /\ \E m \in Live :
         /\ status[m] = "uncertain" /\ Unreferenced(m)
         /\ status' = [status EXCEPT ![m] = "erased"]
         /\ Erase({m})
    /\ UNCHANGED <<ptr, src, held, job, lapsed>>

\* applyConfirm: the winner is approved; the loser is outdated if its interval
\* had closed before the winner's began, else it is superseded by the winner.
Confirm(w, l) ==
    /\ {status[w], status[l]} = {"contradicted"}
    /\ IF held[l].until <= held[w].from
       THEN status' = [status EXCEPT ![w] = "user_approved", ![l] = "outdated"] /\ ptr' = ptr
       ELSE /\ status' = [status EXCEPT ![w] = "user_approved", ![l] = "replaced"]
            /\ ptr' = [ptr EXCEPT ![l] = w]
    /\ UNCHANGED <<src, held>>

\* applyCorrect: both are edited, in one transaction.
Correct(a, b) ==
    /\ "replaced" \notin {status[a], status[b]}
    /\ \E m, n \in Mem :
         /\ Fresh(m) /\ n > m /\ \A k \in Mem : status[k] = "unborn" /\ k # m => n <= k
         /\ status[n] = "unborn"
         /\ status' = [status EXCEPT ![m] = "user_approved", ![n] = "user_approved",
                                     ![a] = "replaced", ![b] = "replaced"]
         /\ ptr' = [ptr EXCEPT ![a] = m, ![b] = n]
         /\ src' = [src EXCEPT ![m] = src[a], ![n] = src[b]]
         /\ held' = [held EXCEPT ![m] = [from |-> Now, until |-> held[a].until],
                                 ![n] = [from |-> Now, until |-> held[b].until]]

\* restoreFromContradiction: only from contradicted, to the recorded status.
Restored(a, b) ==
    IF status[a] = "contradicted" THEN prior[<<a, b>>] ELSE status[a]

Dismiss(a, b) ==
    /\ status' = [status EXCEPT ![a] = Restored(a, b), ![b] = Restored(b, a)]
    /\ UNCHANGED <<ptr, src, held>>

\* resolveContradiction, of an open relation.
Resolve ==
    /\ \E p \in open :
         /\ Confirm(p[1], p[2]) \/ Correct(p[1], p[2]) \/ Dismiss(p[1], p[2])
         /\ open' = open \ Pair(p[1], p[2])
    /\ UNCHANGED <<prior, job, lapsed>>

-----------------------------------------------------------------------------
(* The saga and the staleness pass.                                        *)

\* Mutant of LiftedTo: the accusations stand.
LiftedToNothing(m, E) == {}
\* liftContradictionsBeforeDeletion: what the survivor m may be restored to,
\* depending on the order the open relations come in.
LiftedTo(m, E) ==
    {prior[p] : p \in {q \in open : q[1] = m /\ q[2] \in E}} \ {"contradicted"}
Accused(m, E) == status[m] = "contradicted" /\ LiftedTo(m, E) # {}

\* Mutant of Nulled: the pointers of the survivors stay.
NulledOwn(E) == [m \in Mem |-> IF m \in E THEN None ELSE ptr[m]]
\* superseded_by_nulled: survivors no longer point at a doomed row.
Nulled(E) == [m \in Mem |-> IF m \in E \/ ptr[m] \in E THEN None ELSE ptr[m]]

\* A source's memories are erased; pointers at them are nulled.
DeleteSource ==
    /\ \E o \in Sources :
         LET E == {m \in Live : src[m] = o}
         IN /\ E # {}
            /\ \E lift \in [{m \in Live \ E : Accused(m, E)} -> Statuses] :
                 /\ \A m \in DOMAIN lift : lift[m] \in LiftedTo(m, E)
                 /\ status' = [m \in Mem |-> IF m \in E THEN "erased"
                                           ELSE IF m \in DOMAIN lift THEN lift[m] ELSE status[m]]
            /\ ptr' = Nulled(E)
            /\ Erase(E)
    /\ UNCHANGED <<src, held, job, lapsed>>

\* Dreaming lists the active rows whose interval has lapsed ..
ListLapsed ==
    /\ lapsed = {}
    /\ lapsed' = {m \in Live : status[m] = "active" /\ held[m].until < Now}
    /\ lapsed' # {}
    /\ UNCHANGED <<status, ptr, src, held, prior, open, job>>

\* .. and marks them one transaction each, whatever they are by then; an illegal
\* transition, or a row that is gone, fails the run.
MarkLapsed ==
    /\ \E m \in lapsed :
         IF MayTransition(m, "outdated")
         THEN status' = [status EXCEPT ![m] = "outdated"] /\ lapsed' = lapsed \ {m}
         ELSE status' = status /\ lapsed' = {}
    /\ UNCHANGED <<ptr, src, held, prior, open, job>>

Next ==
    \/ Admit
    \/ \E d \in Drivers : \/ Take(d) \/ Judge(d) \/ Settle(d) \/ SkipMerge(d) \/ Abort(d)
                          \/ PairAct(d)
    \/ Transition \/ BulkOutdate \/ Edit \/ Reject \/ Resolve
    \/ DeleteSource \/ ListLapsed \/ MarkLapsed

Spec == Init /\ [][Next]_vars

-----------------------------------------------------------------------------
\* The variables hold what the columns, the relations and the drivers may.
TypeOK ==
    /\ status \in [Mem -> Statuses \cup {"unborn", "erased"}]
    /\ ptr \in [Mem -> Mem \cup {None}]
    /\ src \in [Mem -> Sources \cup {None}]
    /\ held \in [Mem -> [from : 0 .. Now, until : (0 .. Now) \cup {Forever}] \cup {None}]
    /\ prior \in [Mem \X Mem -> Statuses \cup {None}]
    /\ open \subseteq Mem \X Mem
    /\ job \in [Drivers -> [fact : Mem \cup {None}, seen : Statuses \cup {None},
                            cand : Mem \cup {None}, verdict : Verdicts \cup {None}]]
    /\ lapsed \subseteq Mem

\* Review lists open relations only: a contradicted memory is party to one that
\* recorded what dismissing restores.  Approvals, edits, rejections, erasures
\* and other relations resolved in any order never strand it.
ContradictionAccountable ==
    \A m \in Mem : status[m] = "contradicted" =>
        \E p \in open : p[1] = m /\ prior[p] # "contradicted"

\* getChain ends: superseded_by is set on history only, points at a row that is
\* there, and whichever stale pair is acted on never closes a cycle.
HistoryIntact ==
    /\ \A m \in Mem : ptr[m] # None => status[m] = "replaced" /\ ptr[m] \in Live
    /\ \A S \in SUBSET Mem : S # {} => \E m \in S : ptr[m] \notin S

\* "replaced is terminal: superseded history never transitions" (transition.ts),
\* by dismissals and lifts of relations it was party to included; its pointer
\* is only ever nulled, when its successor is erased.
ReplacedIsTerminal ==
    [][\A m \in Mem : status[m] = "replaced" =>
          /\ status'[m] \in {"replaced", "erased"}
          /\ \/ ptr'[m] = ptr[m]
             \/ status'[m] = "erased"
             \/ ptr'[m] = None /\ status'[ptr[m]] = "erased"]_vars

\* "reconciliation never transitions user_approved except into a contradiction
\* pairing" (reconcile.integration.spec.ts), however stale what it judged.
OwnerShielded ==
    [][(\E d \in Drivers : PairAct(d)) =>
          \A m \in Mem : status[m] = "user_approved" =>
              status'[m] \in {"user_approved", "contradicted"}]_vars

\* "A user_approved memory is never touched except to pair it into a
\* contradiction" (reconciliation.ts): until the owner rules on the pairing, it
\* stays what the pairing made it.
ShieldOutlastsPairing ==
    [][(\E d \in Drivers : PairAct(d)) =>
          \A p \in open : prior[p] = "user_approved" /\ status[p[1]] = "contradicted" =>
              status'[p[1]] = "contradicted"]_vars

\* Rejection is "legal only from uncertain" (rejectUncertain): from there the
\* foreign key never refuses it.
UncertainRejectable ==
    \A m \in Mem : status[m] = "uncertain" => Unreferenced(m)
=============================================================================
