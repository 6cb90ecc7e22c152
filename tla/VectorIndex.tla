------------------------------ MODULE VectorIndex ------------------------------
(***************************************************************************)
(* The copies of status and gate (sensitive, scope) that a memory's point  *)
(* carries in Qdrant beside the row in Postgres, and everyone who writes   *)
(* them:                                                                   *)
(*   - one act on one memory (transition, toggle, scope change, merge,     *)
(*     supersession, restore): row lock, update, the payload last, commit; *)
(*   - the approved bulk outdate: commit first, payload after, unlocked;   *)
(*   - the embed job: row lock, the model, the whole point, commit;        *)
(*   - the reindex command and the nightly repair: no lock at all.         *)
(* HTTP calls fail with or without effect, transactions roll back, the     *)
(* worker dies between commit and continuation.                            *)
(***************************************************************************)
EXTENDS Naturals

CONSTANTS Mem,      \* memories that have a row
          Writers,  \* connections that run acts, bulk acts and embed jobs
          None

ASSUME NoneAssumption == None \notin Mem

VARIABLES
    row,      \* memory |-> status, gate, embedding_model is set
    point,    \* memory |-> the payload copy, or None where there is no point
    tx,       \* writer |-> pc, kind, memory, field and the copy it will commit
    repair,   \* the nightly pass: pc, the page of rows it read, what is stale
    command,  \* the reindex command: pc, memory and the copy it read
    calm,     \* history: untouched by anybody else since the pass read them
    excused   \* history: memories one of the windows below has opened on

vars == <<row, point, tx, repair, command, calm, excused>>

Fields == {"status", "gate"}
Copies == [status : {"active", "outdated", "replaced"}, gate : BOOLEAN]
Rows   == [status : {"active", "outdated", "replaced"}, gate : BOOLEAN, embedded : BOOLEAN]

\* upsertVectors: the payload is taken from the row the caller holds.
CopyOf(r) == [status |-> r.status, gate |-> r.gate]
NoCopy    == [status |-> "active", gate |-> FALSE]
Idle      == [pc |-> "idle", kind |-> "act", mem |-> None, field |-> "status", new |-> NoCopy]

\* Admitted by the pipeline with its point, or the successor of an edit that
\* still waits for its embed job.
Init ==
    /\ \E e \in [Mem -> BOOLEAN] :
          /\ row = [m \in Mem |-> [status |-> "active", gate |-> FALSE, embedded |-> e[m]]]
          /\ point = [m \in Mem |-> IF e[m] THEN NoCopy ELSE None]
    /\ tx = [w \in Writers |-> Idle]
    /\ repair = [pc |-> "idle", page |-> [m \in Mem |-> None], stale |-> {}]
    /\ command = [pc |-> "idle", mem |-> None, copy |-> NoCopy]
    /\ calm = {}
    /\ excused = {}

Locked(m)   == \E w \in Writers : tx[w].mem = m /\ tx[w].pc \in {"payload", "commit"}
Deferred(m) == \E w \in Writers : tx[w].mem = m /\ tx[w].pc = "deferred"
Agree(m)    == point[m] = None \/ point[m] = CopyOf(row[m])

\* setPayload: a missing point is a no-op.
SetPayload(m, f, c) == IF point[m] = None THEN point ELSE [point EXCEPT ![m] = [@ EXCEPT ![f] = c[f]]]
Touch(m) == calm' = calm \ {m}
Excuse(m, cond) == excused' = IF cond THEN excused \cup {m} ELSE excused

-----------------------------------------------------------------------------
Start(w, kind, m, f, c) ==
    /\ tx[w].pc = "idle" /\ ~Locked(m)
    /\ tx' = [tx EXCEPT ![w] = [pc |-> "payload", kind |-> kind, mem |-> m, field |-> f, new |-> c]]
    /\ Touch(m)
    /\ UNCHANGED <<row, point, repair, command, excused>>

\* transitionInTx, supersedeCore, closeAndPoint, restoreFromContradiction: lock
\* the row, check the transition (replaced is terminal), update status.
BeginTransition(w, m) ==
    /\ row[m].status # "replaced"
    /\ \E s \in {"active", "outdated", "replaced"} \ {row[m].status} :
          Start(w, "act", m, "status", [CopyOf(row[m]) EXCEPT !.status = s])

\* toggleSensitive, setScope: an unchanged value is a no-op.
BeginToggle(w, m) == Start(w, "act", m, "gate", [CopyOf(row[m]) EXCEPT !.gate = ~@])

\* bulkMarkOutdatedForOwner: rows that are not current are skipped; the payload
\* is left to syncStatusPayloads.
BeginBulk(w, m) ==
    /\ tx[w].pc = "idle" /\ ~Locked(m)
    /\ row[m].status = "active"
    /\ tx' = [tx EXCEPT ![w] = [pc |-> "commit", kind |-> "bulk", mem |-> m, field |-> "status",
                                new |-> [CopyOf(row[m]) EXCEPT !.status = "outdated"]]]
    /\ Touch(m)
    /\ UNCHANGED <<row, point, repair, command, excused>>

\* Mutant of BeginEmbed: the row is read before the model is asked, and locked
\* only when the point is written.
BeginEmbedUnlocked(w, m) ==
    /\ tx[w].pc = "idle"
    /\ tx' = [tx EXCEPT ![w] = [pc |-> "payload", kind |-> "embed", mem |-> m, field |-> "status",
                                new |-> CopyOf(row[m])]]
    /\ Touch(m)
    /\ UNCHANGED <<row, point, repair, command, excused>>

\* runMemoryEmbedJob: FOR UPDATE before the model is asked.
BeginEmbed(w, m) == Start(w, "embed", m, "status", CopyOf(row[m]))

\* What the payload write of a transaction leaves in the index.
Written(w) == IF tx[w].kind = "embed" THEN [point EXCEPT ![tx[w].mem] = tx[w].new]
                                      ELSE SetPayload(tx[w].mem, tx[w].field, tx[w].new)

\* The payload copy, or for the embed job the point, last before the commit.
WritePayload(w) ==
    /\ tx[w].pc = "payload"
    /\ point' = Written(w)
    /\ tx' = [tx EXCEPT ![w].pc = "commit"]
    /\ Touch(tx[w].mem)
    /\ UNCHANGED <<row, repair, command, excused>>

\* The payload write throws, having reached Qdrant or not, or the commit fails,
\* or the process dies: the row keeps its value and nobody takes the payload back.
RollBack(w) ==
    /\ tx[w].pc \in {"payload", "commit"}
    /\ tx' = [tx EXCEPT ![w] = Idle]
    /\ point' \in IF tx[w].pc = "payload" THEN {point, Written(w)} ELSE {point}
    /\ Touch(tx[w].mem)
    /\ Excuse(tx[w].mem, tx[w].kind # "bulk")
    /\ UNCHANGED <<row, repair, command>>

\* The row changes and its lock is released; a bulk act still owes the payload.
\* An embed job changes embedding_model only.
Commit(w) ==
    /\ tx[w].pc = "commit"
    /\ LET m == tx[w].mem IN
          row' = [row EXCEPT ![m] = [status |-> tx[w].new.status, gate |-> tx[w].new.gate,
                                     embedded |-> @.embedded \/ tx[w].kind = "embed"]]
    /\ tx' = [tx EXCEPT ![w] = IF tx[w].kind = "bulk" THEN [tx[w] EXCEPT !.pc = "deferred"] ELSE Idle]
    /\ Touch(tx[w].mem)
    /\ UNCHANGED <<point, repair, command, excused>>

\* syncStatusPayloads, after the commit and outside every lock: "outdated",
\* whatever the row has become since.
SyncStatus(w) ==
    /\ tx[w].pc = "deferred"
    /\ LET m == tx[w].mem IN
          /\ point' = SetPayload(m, "status", tx[w].new)
          /\ Touch(m)
          /\ Excuse(m, Locked(m) \/ row[m].status # "outdated")
    /\ tx' = [tx EXCEPT ![w] = Idle]
    /\ UNCHANGED <<row, repair, command>>

\* The continuation is best effort: an error is logged, a crash forgets it.
LoseSync(w) ==
    /\ tx[w].pc = "deferred"
    /\ tx' = [tx EXCEPT ![w] = Idle]
    /\ Touch(tx[w].mem)
    /\ Excuse(tx[w].mem, TRUE)
    /\ UNCHANGED <<row, point, repair, command>>

-----------------------------------------------------------------------------
\* reindexMemories: a page of rows is read, the model asked.
CommandRead(m) ==
    /\ command.pc = "idle"
    /\ command' = [pc |-> "read", mem |-> m, copy |-> CopyOf(row[m])]
    /\ Touch(m)
    /\ UNCHANGED <<row, point, tx, repair, excused>>

\* Rows whose point has no vector get this model's name first, which waits for
\* their locks; the points are upserted with the payload read before.
CommandUpsert ==
    /\ command.pc = "read"
    /\ LET m == command.mem IN
          /\ point[m] = None => ~Locked(m)
          /\ row' = [row EXCEPT ![m].embedded = TRUE]
          /\ point' = [point EXCEPT ![m] = command.copy]
          /\ Touch(m)
          /\ Excuse(m, Locked(m) \/ command.copy # CopyOf(row[m]))
    /\ command' = [command EXCEPT !.pc = "idle", !.mem = None, !.copy = NoCopy]
    /\ UNCHANGED <<tx, repair>>

-----------------------------------------------------------------------------
\* reconcilePayloads: a page of embedded rows is read.
RepairRead ==
    /\ repair.pc = "idle"
    /\ repair' = [pc |-> "read", stale |-> {},
                  page |-> [m \in Mem |-> IF row[m].embedded THEN CopyOf(row[m]) ELSE None]]
    /\ calm' = {m \in Mem : ~Locked(m) /\ ~Deferred(m) /\ command.mem # m}
    /\ UNCHANGED <<row, point, tx, command, excused>>

\* Mutant of Differs: the copy of the flag is not compared.
DiffersInStatus(m) == point[m].status # repair.page[m].status

\* The four fields the pass compares.
Differs(m) == point[m] # repair.page[m]

\* The payloads of the page are retrieved and compared; a missing point is
\* alerted and left to the reindex command.
RepairCompare ==
    /\ repair.pc = "read"
    /\ repair' = [repair EXCEPT !.pc = "write",
                    !.stale = {m \in Mem : repair.page[m] # None /\ point[m] # None /\ Differs(m)}]
    /\ UNCHANGED <<row, point, tx, command, calm, excused>>

\* Each stale payload is written from the page.
RepairWrite(m) ==
    /\ repair.pc = "write" /\ m \in repair.stale
    /\ point' = IF point[m] = None THEN point ELSE [point EXCEPT ![m] = repair.page[m]]
    /\ repair' = [repair EXCEPT !.stale = @ \ {m}]
    /\ Excuse(m, Locked(m) \/ repair.page[m] # CopyOf(row[m]))
    /\ UNCHANGED <<row, tx, command, calm>>

RepairEnd ==
    /\ repair.pc = "write" /\ repair.stale = {}
    /\ repair' = [repair EXCEPT !.pc = "ended"]
    /\ UNCHANGED <<row, point, tx, command, calm, excused>>

RepairIdle ==
    /\ repair.pc = "ended"
    /\ repair' = [pc |-> "idle", page |-> [m \in Mem |-> None], stale |-> {}]
    /\ calm' = {}
    /\ UNCHANGED <<row, point, tx, command, excused>>

\* The pass dies between two steps; the next night's starts over.
RepairCrash ==
    /\ repair.pc \in {"read", "write"}
    /\ repair' = [pc |-> "idle", page |-> [m \in Mem |-> None], stale |-> {}]
    /\ calm' = {}
    /\ UNCHANGED <<row, point, tx, command, excused>>

-----------------------------------------------------------------------------
Next ==
    \/ \E w \in Writers : \/ \E m \in Mem : \/ BeginTransition(w, m) \/ BeginToggle(w, m)
                                            \/ BeginBulk(w, m) \/ BeginEmbed(w, m)
                          \/ WritePayload(w) \/ RollBack(w) \/ Commit(w)
                          \/ SyncStatus(w) \/ LoseSync(w)
    \/ \E m \in Mem : CommandRead(m) \/ RepairWrite(m)
    \/ CommandUpsert \/ RepairRead \/ RepairCompare \/ RepairEnd \/ RepairIdle \/ RepairCrash

Spec == Init /\ [][Next]_vars

-----------------------------------------------------------------------------
\* The index holds whole payloads only, the page of the repair and the copy of
\* the command included, whoever wrote last.
TypeOK ==
    /\ row \in [Mem -> Rows]
    /\ point \in [Mem -> Copies \cup {None}]
    /\ tx \in [Writers -> [pc : {"idle", "payload", "commit", "deferred"}, kind : {"act", "bulk", "embed"},
                           mem : Mem \cup {None}, field : Fields, new : Copies]]
    /\ repair \in [pc : {"idle", "read", "write", "ended"},
                   page : [Mem -> Copies \cup {None}], stale : SUBSET Mem]
    /\ command \in [pc : {"idle", "read"}, mem : Mem \cup {None}, copy : Copies]
    /\ calm \subseteq Mem /\ excused \subseteq Mem

\* "the two stores honest in one act" (transitionInTx), "a shared->private demote
\* takes effect in vector search the instant it commits" (setScope): with nobody
\* in the middle of an act on a memory, the point carries what the row says,
\* however acts, bulk acts and embed jobs interleaved.  The exceptions are the
\* four windows the code has, each recorded in excused: a payload written for a
\* transaction that rolled back, a deferred sync lost or overtaken by a later
\* act, and an unlocked writer (reindex, repair) that acts on an older row.
LocksKeepCopiesHonest ==
    \A m \in Mem : ~Locked(m) /\ ~Deferred(m) /\ m \notin excused => Agree(m)

\* "The nightly payload-consistency sweep reconciles anything a transient Qdrant
\* failure leaves stale" (syncStatusPayloads): whatever went wrong before, a
\* memory nobody else touches during the pass agrees with its row at its end.
RepairConverges ==
    repair.pc = "ended" => \A m \in calm : repair.page[m] # None => Agree(m)

\* "takes effect in vector search the instant it commits (a demoted leak is still
\* a leak)" (setScope): a closed gate is closed in the index as soon as no act on
\* the memory is open.
DemoteTakesEffect ==
    \A m \in Mem : ~Locked(m) /\ row[m].gate /\ point[m] # None => point[m].gate
=============================================================================
