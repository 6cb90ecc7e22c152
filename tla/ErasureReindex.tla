--------------------------- MODULE ErasureReindex ---------------------------
(***************************************************************************)
(* The reindex command (reindexMemories) over the state of Erasure: it     *)
(* rebuilds the vector index from Postgres page by page, with no lock,     *)
(* while the stack it runs in goes on ("docker compose exec app npm run    *)
(* reindex").  The index may have been lost before it starts.              *)
(***************************************************************************)
EXTENDS Erasure

VARIABLES
    reindex,  \* pc, the rows seen (embeddableIds), the ids the keyset cursor
              \* has passed, the page in hand, the orphan points listed
    before    \* what was there when it began: the rows, and the stray points

xvars == <<reindex, before>>

Idle == [pc |-> "idle", seen |-> {}, passed |-> {}, page |-> {}, orphans |-> {}]
InFlight == UNION {run[s].ids : s \in Sources}

ReindexInit == Init /\ reindex = Idle /\ before = [rows |-> {}, stray |-> {}]

\* Disaster, the reason to reindex: the collection is lost (or recreated at
\* another vector size by ensureCollection).
IndexLost ==
    /\ reindex.pc = "idle"
    /\ points' = {}
    /\ UNCHANGED <<row, job, tries, key, run, prov, live, objs, edit, embed, saga, exec, xvars>>

ReindexBegin ==
    /\ reindex.pc = "idle"
    /\ reindex' = [reindex EXCEPT !.pc = "scan"]
    /\ before' = [rows |-> live, stray |-> points \ (live \cup InFlight)]
    /\ UNCHANGED vars

\* The next page of the keyset scan: rows above the cursor, read unlocked.  The
\* cursor moves past ids that hold no row yet; ids are random, so which ones is
\* arbitrary.
ReindexPage ==
    /\ reindex.pc = "scan"
    /\ \E m \in live \ reindex.passed, skip \in SUBSET Unminted :
         reindex' = [reindex EXCEPT !.pc = "page", !.page = {m}, !.seen = @ \cup {m},
                                    !.passed = @ \cup {m} \cup skip]
    /\ UNCHANGED <<vars, before>>

\* Mutant of ReindexUpsert: vectors found in the collection are not written back
\* and the missing ones are not embedded.
ReindexNoUpsert ==
    /\ reindex.pc = "page"
    /\ reindex' = [reindex EXCEPT !.pc = "scan", !.page = {}]
    /\ UNCHANGED <<vars, before>>

\* The page is embedded (or its vectors reused) and upserted from the rows read.
ReindexUpsert ==
    /\ reindex.pc = "page"
    /\ points' = points \cup reindex.page
    /\ reindex' = [reindex EXCEPT !.pc = "scan", !.page = {}]
    /\ UNCHANGED <<row, job, tries, key, run, prov, live, objs, edit, embed, saga, exec, before>>

\* Mutant of ReindexList: nothing is swept while the counts agree.
ReindexListCounted ==
    /\ reindex.pc = "scan" /\ live \subseteq reindex.passed
    /\ reindex' = [reindex EXCEPT !.pc = "sweep", !.orphans =
         IF Cardinality(points) > Cardinality(reindex.seen) THEN points \ reindex.seen ELSE {}]
    /\ UNCHANGED <<vars, before>>

\* No row above the cursor: list the points and call orphan what was not seen.
ReindexList ==
    /\ reindex.pc = "scan" /\ live \subseteq reindex.passed
    /\ reindex' = [reindex EXCEPT !.pc = "sweep", !.orphans = points \ reindex.seen]
    /\ UNCHANGED <<vars, before>>

ReindexSweep ==
    /\ reindex.pc = "sweep"
    /\ points' = points \ reindex.orphans
    /\ reindex' = [reindex EXCEPT !.pc = "done"]
    /\ UNCHANGED <<row, job, tries, key, run, prov, live, objs, edit, embed, saga, exec, before>>

\* The command may be interrupted and run again.
ReindexStop ==
    /\ reindex.pc \in {"scan", "page", "sweep"}
    /\ reindex' = Idle
    /\ UNCHANGED <<vars, before>>

ReindexStep == \/ ReindexBegin \/ ReindexPage \/ ReindexUpsert \/ ReindexList
               \/ ReindexSweep \/ ReindexStop

ReindexNext == IndexLost \/ ReindexStep \/ (Next /\ UNCHANGED xvars)
ReindexSpec == ReindexInit /\ [][ReindexNext]_<<vars, xvars>>

-----------------------------------------------------------------------------
\* "the reindex command must always work": when it ends, every row that was
\* there from the beginning has its point, whatever the index held.
ReindexRestores == reindex.pc = "done" => before.rows \cap live \subseteq points

\* .. and no point that already had no row when it began is left (rolled-back
\* pipeline attempts, points deleted rows left behind).
ReindexRemovesStrays == reindex.pc = "done" => before.stray \cap points \subseteq live
=============================================================================
