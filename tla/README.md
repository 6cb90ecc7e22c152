# A verification development of Cogeto

Cogeto keeps a user's notes, mails, files and web pages as *memories*: facts that
a pipeline extracts from a source, that are reconciled with what is already
known, reviewed by their owner, and erased with their source under a signed
receipt. This directory holds TLA+ models of the parts of that system in which
the order of events matters, the TLC configurations that check them, and TLAPS
proofs of what matters most. Paths below are relative to `src/project/src/`
unless they start with `docs/` or `src/`.

## 1. The system

One Postgres database, one vector store (Qdrant), one object store (MinIO), an
app process that answers requests and a worker process that runs graphile jobs.
Postgres is the truth; points and objects are written and deleted outside every
transaction.

| Component | State | Operations | What is hard | What makes it correct |
|---|---|---|---|---|
| Ingestion pipeline, `ingestion/pipeline` | job, idempotency key, facts in a transaction | read, extract, verify, embed and store, reconcile, derive | a run takes minutes while its source is edited, retried or erased; points are written before commit | a source is admitted once; nothing of an erased source is admitted |
| Deletion saga, `memory/deletion-saga.ts` | source row, memories, receipt | lock the source, stop or wait for its run, enumerate, delete rows, write the receipt, enqueue the external leg | lock order against runs and edits, cascades over attachments | every identifier that may exist is in the receipt; survivors are left consistent |
| Deletion executor, `memory/deletion-saga.ts` | receipt, points, objects | delete points, delete objects, chain, sign, confirm | crashes and retries between the stores; two executors | a confirmed receipt is true; it settles |
| Receipt chain, `memory/domain/receipt-chain.ts` | confirmed receipts, links, signatures | link to the tip, verify, export an anchor | confirmation order; an operator who edits the table | one chain, always verifiable, tampering is seen |
| Job queue, `infrastructure/queue.ts`, `outbox.ts` | jobs, `job_execution`, `dead_letter` | enqueue with the state change, claim, run, retry, park, cancel | redelivery, lost commit answers, crashes, cancellation against a run | at-most-once effect; no work disappears |
| Memory aggregate, `memory/memory.store.ts` | status, `superseded_by`, validity | admit, transition, edit, reject, bulk outdate | many callers of one transition table | history is terminal and acyclic |
| Reconciliation, `memory/reconciliation.ts`, `ingestion/pipeline/reconcile.stage.ts` | relations, prior statuses | merge, contradict, supersede; confirm, correct, dismiss; lift before deletion | judgements made outside the transaction are stale when they are applied | the owner's memories are shielded; a contradicted memory can be resolved |
| Dreaming, `ingestion/dreaming.service.ts` | run and action records, dormant flags | reconcile a backlog, outdate lapsed facts, flag quiet commitments, digest | rows listed and acted on later | as for the aggregate |
| Integrity sweep, `memory/integrity-sweep.ts` | alerts, repaired payloads | verify receipts, find orphan rows and objects, repair payload copies, verify the chain | reads table by table while sagas run | orphans are found within a night; no false alarm |
| Reindex, `memory/reindex.ts` | none of its own | rebuild points page by page, drop orphan points | no locks, may be interrupted | every row has its point, no stray point stays |
| Vector index, `memory/persistence/vector-store.ts` | points with payload copies of status, scope, sensitive | upsert, set payload, delete, retrieve | copies lag or lead the rows | copies converge |
| Uploads, `connectors/files.service.ts` | object, `file_metadata`, job | store, stage and discard, abort cleanup, backstop | two stores, no shared transaction | no bytes without an owner |
| Email intake, `connectors/email-intake.service.ts` | messages, attachments | route, store one copy per recipient | redelivery after a partial failure | one copy per recipient |
| Tasks, `tasks/tasks.engine.ts` | tasks, conclusions | derive, close, repoint, remind, user acts | model verdicts on stale tasks; conclusions re-enter the pipeline | one task per obligation; a user act is not undone |
| Agents, `agents` | approvals | create, confirm, expire, execute | confirm against expiry, redelivered execution | executed at most once and only if approved |
| Passport, `passport` | export rows, artifacts | request, assemble, retain, expire | retries against retention | one export in flight; artifacts expire |
| Model gateway, `model-gateway`, `infrastructure/model-budget.ts` | daily counters | route, redact, charge | check-then-charge | the budget bounds the day |
| Retrieval, `retrieval` | none of its own | vector, keyword, entity and interval signals, gated resolve, rank | four reads in no transaction over an index that may be stale | nothing is shown that its row did not allow since the question |
| Chat, `retrieval/chat` | messages, stream slots | ask, stream, store, time out; redact on erasure | a generator that outlives its stream; an answer stored long after its facts were read | slots come back; erased memories leave the conversation |
| Identity, entrypoints, web client, services, evaluation, deployment | sessions and configuration | request-response code | – | not modelled |

Interactions: the app process captures a source and enqueues its pipeline job in
one transaction (the outbox); the worker runs it under an advisory lock and an
idempotency key; reconciliation and the task engine run inside the same
transaction; a deletion request cancels or waits for that job by the same lock
and key, erases rows and enqueues the executor; sweep and reindex read what all
of them left behind.

## 2. Modules

| Module | Models | State and code |
|---|---|---|
| `Erasure` | pipeline run, edit, embed job, saga, executor, at the grain of lock waits and external calls | `row`, `live` committed rows; `points`, `objs` the other stores; `run`, `edit`, `embed`, `saga`, `exec` the transactions in flight; locks are read off the transactions that hold them |
| `ErasureSweep` | `IntegritySweep.run` over `Erasure` | `sweep`, `alerts`; `suspects` is history |
| `ErasureReindex` | `reindexMemories` over `Erasure`, with loss of the index and interruptions | `reindex`; `before` is history |
| `MemoryLifecycle` | statuses, successors and relations of one owner's memories under reconciliation drivers, owner acts, deletions and the staleness pass | `status`, `ptr`, `held` are columns, `prior` and `open` the relations, `job` what a driver judged |
| `ReceiptLedger` | the abstract promise: an append-only sequence of receipts | – |
| `ReceiptChain` | the external leg's chaining and `verifyChain` | columns of `deletion_receipt`, `conf` the transactions |
| `ReceiptTamper` | `ReceiptChain` under an operator who disables the freeze trigger | `altered`, `dropped` are history, `anchor` the exported stamp |
| `JobQueue` | `idempotentTask`, outbox, dead letters, cancellation | `job` the graphile rows, `ledger` the idempotency keys, `effects` and `continued` count what happened |
| `ApprovalMachine` | the abstract promise of one approval: `domain/approval-machine.ts` | `status` |
| `Approvals` (EXTENDS `JobQueue`) | service, expiry pass, executor and reply drafts over the delivery contract; the execution of approval `a` is the job with key `a` | `appr` the rows, `drafting` a draft whose model call runs, `email` its source |
| `VectorIndex` | the payload copies of status and gate, and everyone who writes them: acts under the row lock, bulk acts with a deferred sync, the embed job, reindex, the nightly repair | `row`, `point` the two stores, `tx` the transactions, `repair`, `command`; `calm`, `excused` are history |
| `Retrieval` (EXTENDS `VectorIndex`) | one retrieval, read by read, between all of these | `search` the reads so far, `shown` the result; `seen` is history |
| `Chat` | questions on stream slots, the generator and the handler that races it, the redaction of answers | `client` what the browser was told, `gen` the generator, `answer`, `text` the stored rows, `erase` the saga's transaction, `active` the counter; `gone`, `late` are history |
| `Tasks` | the task engine: passes (derive, judge, settle, unblock, maintain), the owner's acts, reminders, cleanup, and the memory module underneath | `task` committed rows, `pass` the engine transactions with their buffered writes, `outbox` the conclusions, `processed` the idempotency keys |
| `ObjectIntake` | uploads, discard-mode uploads and inbound mail until every byte has a keeper; the orphan arm of the sweep | `req` requests, `obj` the bucket, `row` and `job` what their transaction committed, `janitor` the cleanup jobs; `stray` is history |
| `*_proofs` | theorems (section 5) | |
| `MC*` | symmetry, scenarios and the functions the configurations need | |

`Erasure` is composed with the sweep and the command in `MCErasureMaintenance`,
`JobQueue` with the approvals, `VectorIndex` with the retrieval. The other
interactions are interfaces: what a module needs of its neighbour is an action of
its own that does what the neighbour's code does to the shared rows (`Supersede`
and `Erase` in `Tasks`, `Enumerate` and `Commit` in `Chat`, `Load` and `Finish` in
`ObjectIntake`).

Choices common to all:

- A step is the stretch of code between two points where another actor can
  intervene: a lock wait, an external call, a commit. Rows appear at commit
  (READ COMMITTED), a statement sees what was committed when it started, and
  `SELECT .. FOR UPDATE` waits for the rows of its snapshot.
- Content, similarity, entities, prompts and the models' answers are
  nondeterministic choices; a verdict of reconciliation is any verdict the code
  would act on.
- Memory ids are minted once. `MemoryLifecycle` numbers them in the order of
  `created_at`; the order of validity is a constant of each source's facts.
- Hashes are injective (a hash *is* the history it commits to) and only the
  worker signs.
- One owner. Refusals of foreign principals change no state.
- `MemoryLifecycle` makes each pair act one step: both rows are locked in a
  fixed order and held to the end of the transaction, so nothing else moves them
  in between. It applies the facts of a batch one by one, each as a driver of its
  own, which allows more interleavings than the batch transaction does; two
  facts of one batch do not undo each other when it rolls back.
- Lock acquisition row by row is not modelled: `Erasure` takes the memories of a
  saga in one step. Deadlocks between a saga, a run and an edit are, and one
  transaction is their victim, as in Postgres.

## 3. Runs

| Run | Instance | What it asks |
|---|---|---|
| `erasure_rows` | a note and a discard-mode upload, 3 memories, 1 edit, 1 saga, 2 attempts | types; the receipt is true; nothing erased comes back; one admission per source |
| `erasure_email` | an email carrying a file, both ingested, 1 saga, fair | also: bytes stay in an unconfirmed receipt until they are gone; receipt and jobs settle |
| `maintenance` | a note, a discard-mode upload, 2 memories, an edit, 2 sagas, the second on a source erased before; in one behaviour the sweep, in another the command after a loss of the index | orphans are found and only orphans; rows get their points back, stray points go |
| `lifecycle` | 2 extracted facts and 2 successors, 2 drivers, 2 sources | contradicted memories can be resolved, history is acyclic and terminal, approved memories are shielded |
| `chain` | 4 receipts | no fork, one tip, verifies, refines `ReceiptLedger` |
| `chain_tamper` | 3 receipts, 2 payloads, 2 interventions | rewriting and removal are detected |
| `queue` | 2 job rows, a source that may be cancelled, an approval, 2 attempts, fair | at-most-once, no blocked cancellation, nothing lost; the approval follows its machine, its record is true, it settles |
| `index` | 1 memory, 2 writers, reindex, repair, one retrieval | locks keep the copies honest outside four named windows, the repair closes them, no stale copy shows a memory |
| `tasks` | 2 deriving memories (own, observed) and a fact, 2 tasks, 2 passes, 2 acts of the owner | reminders end with the task, conclusions follow transitions, the owner's acts stand |
| `intake` | an upload, a discard-mode upload, a mail to 2 recipients delivered up to twice, 2 attempts | bytes have a keeper or are reported, an accepted message is kept, the sweep is right |
| `chat` | 3 questions, 2 slots, 1 memory, fair timers | no stored answer keeps an erased memory outside two named windows, slots are counted right, every stream ends |
| `erasure_edit` | violation | `ChainsEnumeratedInFull` |

Why the bounds are enough to be interesting. Two sources let a run, an edit and
a saga concern different sources and block each other; three memories let a run
admit, an edit succeed and a merge target exist. Two attempts let one fail and
another succeed, and both fail. In `lifecycle` two facts and two drivers give a
pair judged twice with different verdicts, one of them stale; the successors
stand for an enrichment or an edit of either, or for a correction of both. Four
receipts are the smallest number at which two can fork from a tip that is
neither the first nor the last. In `queue` two rows are a redelivery beside a retry
by hand, or the execution of an approval beside the job of a source. One memory
suffices in `index`, where every race is over one row and its point; two writers
are an act and the act, bulk act or embed job that overtakes it, and while a
question is answered at most one of them is busy and the repair rests (what the
repair left behind is there all the same). Two passes and two tasks in `tasks` are
a pass that judges a task another pass derives or repoints; two acts let the owner
undo one. Two deliveries of a mail are what a late answer causes, and of its two
recipients one is followed to the end. Three questions in `chat` are an answer, the
small talk that repeats it and a third that is refused or comes after the erasure.
Symmetry is used for identifiers only and never together with a liveness property.

Bounds: `MaxAttempts` (graphile's `max_attempts`, small), `MaxFacts` (facts
admitted per run, or altogether in `MemoryLifecycle`), `MaxTampers`, and the
sizes of `Mem`, `Receipts`, `Edits`, `Jobs`, `Cancels`, `Drivers`, `Writers`, `Passes`, `Turn`;
in the MC modules `MaxPasses` and `MaxActs` (engine passes started, acts of the
owner), `MaxDeliveries` of a mail, and the scenarios of `MCObjectIntake` (uploads
or mail; the sweep after the runs) and `MCErasureMaintenance` (`Processed`,
`Small`: the command after the uploads, a second saga only where one source is at
work, after the first receipt and not beside the command). Type invariants are
proved; no run spends its time on them.

`CHECK_DEADLOCK FALSE` is set throughout: every model has an end, when all
sources are processed and all requests made. That nobody waits forever is stated
by `ReceiptSettles`, `JobSettles`, `ApprovalSettles` and `EveryStreamEnds` instead.

### Fairness

- Steps of a transaction that is running are weakly fair: the process goes on,
  or its connection is closed, which the models treat as a failure.
- A contended lock is strongly fair (`RunAdmit`, `RunGetLock`, `SagaLockMems`,
  `Claim`): Postgres grants row and advisory locks first come first served, so a
  lock that is released again and again is obtained.
- Some member of a deadlock is aborted (`DeadlockVictim`): Postgres's detector.
- Fetching a ready job is fair: graphile polls. The expiry pass is fair: it is a
  cron task. The duration timer of a stream is fair (`Abort` in `Chat`): the event
  loop runs it whatever the model does; the model's answers are not.
- Never fair: errors, crashes, requests, edits, retries by hand, cancellations,
  tampering. Retries are bounded by `max_attempts`, so a failure that repeats
  ends in a dead letter, which the properties allow.

## 4. What the properties say

- `ConfirmedErased`: no row, point or object a confirmed receipt lists exists.
  It is what the embed job's row lock, the admission checkpoint and the order of
  the executor are for.
- `NoResurrection`: a run leaves nothing behind of a source erased meanwhile.
  Two exceptions are part of the statement and are described in section 6.
- `AtMostOneAdmission`, `AtMostOnceEffect`: over redelivery, retry and
  cancellation.
- `NoBytesOutsideReceipts`: objects of an erased email or file are in an
  unconfirmed receipt.
- `SweepFindsOrphans`, `OrphanAlertsAreGenuine`: what was orphaned before the
  sweep began is alerted when it ends, and what is alerted is there and was left
  behind by a committed receipt that erased its source. It may still be the row a
  second saga on the same source is about to delete: the sweep reads unlocked, and
  the row is an orphan of the first receipt until then.
- `ReindexRestores`, `ReindexRemovesStrays`: from any loss, over interruptions.
- `ContradictionAccountable`: a contradicted memory has an open relation that
  recorded a status other than contradicted, so resolving what Review shows
  always leads out.
- `HistoryIntact`, `ReplacedIsTerminal`: `superseded_by` is set on history only,
  points at a row that exists, has no cycle, and is only ever nulled with its
  target; a replaced memory never transitions.
- `OwnerShielded`: no act of a reconciler moves an approved memory except into a
  contradiction, however stale its judgement.
- `MachineRefined`: service, pass and executor implement `ApprovalMachine`.
  `ExecutedIsTrue`: an approval says executed if and only if its effect was
  committed. `ApprovalSettles`: keys settle, approved actions are executed or
  visibly failed, pending ones do not outlive their expiry.
- `LocksKeepCopiesHonest`: with nobody in the middle of an act the point agrees
  with the row, but for the windows recorded in `excused`: a payload written for a
  transaction that rolled back, a deferred sync lost or overtaken, an unlocked
  writer acting on an older row. `RepairConverges`: a memory nobody touches during
  the pass agrees at its end.
- `ShownWasReadable`, `ShownWasCurrent`: what a retrieval shows was open to the
  asker, and not replaced, in its row at some moment since the question.
- `ErasedIsRedacted`: no stored answer carries an erased memory, but one being
  written when the saga looked, or small talk that repeats an answer without its
  token. `SlotsTrue`, `EveryStreamEnds`: the counter is the number of open
  streams, below the cap, and every stream ends though the model hangs.
- `ClosedTasksAreQuiet`, `ConclusionIffTransition`, `OwnerActsStand`: a closed task
  has no reminder pending; a conclusion is queued in exactly the step that closes
  or unblocks its task; only the owner reopens, and nobody but an erasure removes
  what the owner acted on.
- `BytesAccounted`, `SweepIsRight`, `AcceptedIsKept`: every object has a row, a
  request, a cleanup or a receipt, or else is what a pass reports; nothing that
  lives is reported; every recipient of a message answered 250 has its copy.
- `NoFork`, `OneTip`, `AlwaysVerifies`, `LedgerRefined`, `RewriteDetected`,
  `RemovalDetected`; `CancelNeverBlocks`, `ContinuationFollowsEffect`,
  `WorkAccounted`, and the liveness properties.

## 5. What is proved

For all values of the constants that satisfy the named assumptions:

| Theorem | Property |
|---|---|
| `Erasure_proofs!TypeCorrect`, `ConfirmedMeansErased`, `NothingComesBack`, `OneAdmission`, `BytesListed` | `TypeOK`, `ConfirmedErased`, `NoResurrection`, `AtMostOneAdmission`, `NoBytesOutsideReceipts` |
| `Erasure_proofs!OrphansFound`, `OrphansGenuine` (of `SweepSpec`) | `SweepFindsOrphans`, `OrphanAlertsAreGenuine` |
| `Erasure_proofs!IndexRestored`, `StraysRemoved`, `ReindexBounded` (of `ReindexSpec`) | `ReindexRestores`, `ReindexRemovesStrays`, and that the command cannot break `NoResurrection` or `NoBytesOutsideReceipts` |
| `MemoryLifecycle_proofs!TypeCorrect`, `ContradictedStaysInReview`, `HistoryStaysIntact`, `ApprovedStaysShielded`, `HistoryNeverMoves` | `TypeOK`, `ContradictionAccountable`, `HistoryIntact`, `OwnerShielded`, `ReplacedIsTerminal` |
| `ReceiptChain_proofs!TypeCorrect`, `ChainNeverForks`, `ChainHasOneTip`, `ChainAlwaysVerifies`, `ChainIsLedger` | `TypeOK`, `NoFork`, `OneTip`, `AlwaysVerifies`, `LedgerRefined` |
| `ReceiptChain_proofs!RewritesShow`, `RemovalsShow` (of `TamperSpec`) | `RewriteDetected`, `RemovalDetected` |
| `Approvals_proofs!TypeCorrect`, `EffectAtMostOnce`, `CancelNeverWaits`, `ContinuationAfterEffect`, `NoWorkUnaccounted` | of `JobQueue`: `TypeOK`, `AtMostOnceEffect`, `CancelNeverBlocks`, `ContinuationFollowsEffect`, `WorkAccounted` |
| `Approvals_proofs!QueueUnderApprovals`, `ExecutionTrue`, `MachineImplemented` | that `Approvals` implements `JobQueue`; `ExecutedIsTrue`; `MachineRefined` |
| `Retrieval_proofs!TypeCorrect`, `LocksHonest`, `PassRepairs` | of `VectorIndex`: `TypeOK`, `LocksKeepCopiesHonest`, `RepairConverges` |
| `Retrieval_proofs!ShownReadable`, `ShownCurrent`, `ReadsOnly` | `ShownWasReadable`, `ShownWasCurrent`, and that `Retrieval` implements `VectorIndex` |
| `Chat_proofs!Invariance`, `Counted`, `Redacted` | types and the inductive invariant; `SlotsTrue`, `ErasedIsRedacted` |
| `ObjectIntake_proofs!Invariance`, `BytesHaveKeepers`, `PromiseKept`, `ReportsAreRight` | the inductive invariant; `BytesAccounted`, `AcceptedIsKept`, `SweepIsRight` |
| `Tasks_proofs!Invariance`, `RemindersEnd`, `ConclusionsTrue`, `OwnersActsStand` | the inductive invariant; `ClosedTasksAreQuiet`, `ConclusionIffTransition`, `OwnerActsStand` |

With these, every invariant and every action property a passing run checks is
proved for all values of the constants.

Assumptions, each named in the module that declares the constant. `Erasure`: the
kinds of sources do not overlap, attachments are files, bounds are positive.
`MemoryLifecycle`: ids are numbers (their order is `created_at`), intervals lie
around `Now`, `None` is no memory, status or verdict. `ReceiptChain`: an unsigned
receipt is not a chain; `ReceiptTamper`: `MaxTampers` is a number. `JobQueue`: a
job has at least one attempt, `None` is no key; `Approvals`: an approval is
executed under a key of its own. `VectorIndex`: `None` is no memory. `Chat`: the cap
is positive. `ObjectIntake`: deliveries and attempts are bounded by positive
numbers, the kinds of requests do not overlap, `None` is no user. `Tasks`: the
kinds of memories do not overlap, there are finitely many, `None` is no memory, pass
or row.

The inductive invariants and why they are needed:

- *Erasure.* `ConfirmedErased` says nothing of who may still write. `RunFresh`:
  what a run has minted is its own and in no receipt. `EmbedHolds`: an embed job
  past its lock holds a live row no saga has locked. `ReceiptedGone`: the rows of
  a receipt are gone for good. `ExecProgress`: what the executor is past is done.
  None of this mentions the index, which may be lost; `IndexErased` adds it.
- *Fenced*, for what keeps an erased source erased. A run past the checkpoint
  excludes every saga from its row (`RunFenced`), a saga holds the row or, for an
  upload without one, the run lock (`ScanFenced`, `LocksHeld`); so from its
  snapshot on no run adds to what it must list (`Enumerated`), and its commit
  leaves nothing but successors of edits (`Buried`). The exception of attachments
  is what fails: their memories are enumerated before their row is locked.
- *The sweep.* A receipt names a source that is gone, a row that is gone is named
  (`Accounted`), and an orphan of the beginning is alerted or still ahead of the
  sweep, in the receipts or the groups it has to read (`Chased`). That a memory
  once committed and lost does not come back (`NoReturn`) keeps both true.
- *The command.* Rows the cursor has passed were read and have their point or are
  in the page in hand (`Restoring`); strays have no row, so the scan cannot read
  one (`StraysDead`), and nobody writes the point of a minted memory without a row.
- *MemoryLifecycle.* `ContradictionAccountable` breaks if a party of a relation
  can be rejected. Rejection needs `uncertain`; only facts seen `active` and
  candidates that are not uncertain are paired; and no step makes a memory
  uncertain again (`Keeps`). So parties of open relations are live and not
  uncertain (`Relations`), and what a driver holds was never uncertain since it
  was read (`Jobs`). Acyclicity is carried by one fact about every step: a
  pointer that is set leads to a memory that has none (`Leads`).
- *ReceiptChain.* That a link is new depends on what was read under the advisory
  lock being the end of the chain until commit (`LinkIsFresh`), and on the chain
  having an end (`NoCycle`). That the verifier's walk reaches every receipt is a
  counting argument: the length of a hash is the place of its receipt, the places
  are 1 to the number of receipts, each taken once (`Numbered`). Under tampering
  `TInv` keeps what an operator cannot change: signatures, the links of rows that
  are left, and what an export covers. The proof of `RemovalDetected` does not
  use the exported count: a chain that verifies and holds the exported tip is
  complete up to it.
- *JobQueue.* The run lock makes the uncommitted claim of a key unique
  (`OneClaim`) and the key free while it lasts (`ClaimIsFree`); a commit takes the
  key to `ran` once and counts the one effect (`EffectsMatchLedger`). *Approvals*
  adds that a draft being written has no row (`DraftsUnborn`); a step of the queue
  and the change of the approval it carries are one transaction.
- *VectorIndex.* Between the payload write and the commit the point is ahead of
  the row, and a deferred sync owes its status for longer. `Honest` says what the
  point carries in each of those moments; it lasts because one writer at a time
  holds a row (`Exclusive`) and its copy is that row but for the field it changes
  (`Prepared`). For the pass, `Calm`: the page of a memory nobody touched since is
  its row.
- *Retrieval.* What was read was so at some moment since the question
  (`ReadThen`), because the history of a row starts with the question and grows
  with every step of the others (`Watching`). What the index says is not used.
- *Chat.* A stored answer that names an erased memory was in the UPDATE of the
  saga or stored after it had looked (`Covered`), because what an answer may name
  was not erased when its facts were read (`Sourced`). The counter equals the
  open streams, of which there are finitely many (`Slots`).
- *ObjectIntake.* A request works through its copies part by part (`Shaped`), its
  objects are where it has got to (`Written`, `Stored`), what it has left behind is
  recorded with rows and jobs (`Behind`, `Recorded`, `Backed`), and what the sweep
  has listed belongs to requests that are over (`Seen`).
- *Tasks.* A row a pass has written is locked by it alone and its change of the
  committed row is covered by the conclusions that go with it (`Grounded`,
  `Concluding`); a pass writes only new tasks until it settles one (`Phased`); what a
  cleanup has spared covers what the owner touched (`Sparing`).

How data is reasoned about: a walk along the chain, the hops along a supersession
chain and the order of the ledger are recursive functions on the naturals. The
induction theorems of the library take an operator and cannot be used, so an
induction is stated over a set (`SetInduction`, from the well-foundedness of `<` on
the naturals), and a recursive function is first shown to exist by exhibiting one.

Only model-checked: the liveness properties (`ReceiptSettles`, `JobSettles`,
`ApprovalSettles`, `EveryStreamEnds`; fairness and ENABLED are beyond the prover).

## 6. Disagreements between the code and what is written about it

With a run that shows it (`findings` in `PROJECT.json`):

1. *An edit escapes the saga* (`erasure_edit`). `editContentInTx` locks the memory,
   not its source. A successor committed while the saga waits for that memory
   is not in its snapshot and survives.

Stated as properties that no run checks, because they do not hold; TLC refutes
each when it is added to the configuration named:

2. *Reindex writes back an erased point* (`ConfirmedErased` in `maintenance`). A
   page read before the erasure is upserted after the receipt was confirmed
   (reindex.ts:88-125), against deletion-saga.ts:37.
3. *The shield falls with the pairing* (`ShieldOutlastsPairing`, `lifecycle` with
   `MaxFacts = 3`). Contradicting an approved memory makes it an ordinary
   contradicted one, and a second fact judged the same replaces it before the
   owner ruled (reconciliation.ts:213 against :39).
4. *A merged uncertain memory cannot be rejected* (`UncertainRejectable`,
   `lifecycle` with `MaxFacts = 3`). The merged row's `superseded_by` has no ON
   DELETE rule, and `rejectUncertain` does not null it (memory.store.ts:741).
5. *Two passes dismiss the only task of an obligation* (`ObligationSurvives`, `tasks`
   with `MaxPasses = 3`, `MaxActs = 0`). Both list the task of a superseded memory;
   one points it at the head, the other finds it there and dismisses it as its own
   duplicate (tasks.engine.ts:614 against :648).
6. *A draft written during the erasure keeps its text* (`DraftsErasedWithEmail`,
   `queue`). `draftReply` reads the email, asks the model and inserts the approval;
   the cascade of a deletion in between has nothing to redact.
7. *A demotion lags in the index* (`DemoteTakesEffect`, `index`), by the four windows
   of `excused`, against the comment at `setScope`. The gated resolve keeps it from
   being shown (`ShownWasReadable`).
8. *Staged bytes go before extraction* (`DiscardedAfterExtraction`, `intake`). The
   delayed backstop does not look at the job: a run retried later than that finds
   nothing, and is reported done (files.service.ts:267).
9. *A redelivered mail is admitted twice* (`RedeliveryAbsorbed`, `intake`). Every
   delivery mints new ids, so idempotency keys do not meet
   (email-intake.service.ts:178-181 says they absorb it).
10. *An erased fact stays in the conversation* (`ErasedIsForgotten`, `chat`). An answer
    whose facts were read before the erasure and which is stored after its UPDATE
    is not redacted; and small talk is given the recent turns, may repeat one, and
    has every token stripped, so a later erasure does not find it
    (chat.service.ts:409, :528 against chat-answer-cascade.ts:11).
11. *Abandoned streams keep their model call* (`UpstreamBounded`, `chat`). A timeout
    gives the slot back while the generator still waits, so more calls than slots
    run (chat.controller.ts:163-170 against :90-93). Such a call is also never
    charged to the daily budget (budgeted.gateway.ts:53), which is checked before
    and charged after a call, so concurrent calls may overrun it.

Seen while modelling, without a run of their own:

12. `cascadeFileSubSource` enumerates an attachment's memories (deletion-saga.ts:530)
   before it waits for the `file_metadata` row (537): facts an attachment run
   commits in between survive, against source-reader.ts:59 ("no orphan can
   commit"), and as `findOrphanedMemories` skips types without an adapter
   (integrity-sweep.ts:291) no sweep finds them, against
   `docs/security/provenance-and-integrity.md:90`. This is the `Cascaded`
   exception of `NoResurrection` and `SweepFindsOrphans`.
13. The saga of an email holds its memories when it asks for the attachment's row
   (537); a run of the attachment past its checkpoint may wait for one of those
   memories. Postgres aborts one; both settle (`erasure_email`).
14. Points left by a rolled-back run are "swept by reindex / the nightly job"
   (embed-store.stage.ts:33); the nightly job does not look for them.
15. Objects of a pending receipt are alerted as orphans (integrity-sweep.ts:345-374).
16. Rows committed behind the cursor of a running reindex lose their fresh point
   to its final sweep (reindex.ts:139).
17. A job all of whose attempts crashed the worker has no `last_error` and is in
    no count (health.controller.ts:120); `WorkAccounted` states the exception.
18. Dismissing the older of two relations restores a status recorded before a
    later approval or outdating (reconciliation.ts:90-113).
19. The staleness pass outdates rows that became approved or contradicted since
    they were listed, and one illegal transition fails the rest of the run
    (dreaming.service.ts:118-131).
20. `applySupersession` does not look at the winner's status: one marked outdated
    meanwhile replaces a current fact.
21. `maintain` dismisses a task that was completed since it was listed: it sets
    dismissed without a second look, though processSource says "every action
    re-checks state under locks"; and when the owner dismissed the head's task the
    open duplicate is dismissed with it.
22. Adopting a memory that already carries a task nobody acted on leaves no audit
    record, so `derivationCleanup` removes it.
23. A conclusion admitted late may close again the task its owner reopened.
24. Passport: a run puts the artifact and then marks the row; when the last attempt
    fails in between, the row is failed and retention, which lists ready rows, and
    the orphan sweep, which skips exports, both leave the object. The check for a
    pending export is outside the insert's transaction (passport.service.ts:31).

## 7. Not modelled, and the plan

Not modelled because there is nothing for a model checker in it: prompts and
scores, identity guards, configuration, the web client, mail and redaction
services, evaluation, deployment. More than half of the repository's
implementation lines are of this kind, which is why the map covers a modest share
of them. Not modelled yet, in the order planned:

1. `PassportExport`: request, retries, retention (item 24 above).
2. The dormant flags and the digest of dreaming, over `Tasks`.
3. The intents of the chat that act (a task, a draft, a proposal, an adoption)
   under a stream that times out halfway.
4. Pure algorithms (rank fusion, chunking, the temporal window) against a
   reference definition over small inputs.
5. Proofs of what is stated beyond the runs: that the exceptions of section 6 are
   the only ones (`Cascaded` memories are always facts of the attachment's own run),
   and the theorems of `Erasure` with the sweep and the command running at once.
