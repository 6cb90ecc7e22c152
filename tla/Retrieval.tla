------------------------------- MODULE Retrieval -------------------------------
(***************************************************************************)
(* One retrieval beside everybody who changes memories and their index:    *)
(* the vector signal is gated by the payload copies, which VectorIndex     *)
(* shows to go stale, the keyword and entity signals by the rows; hits     *)
(* become rows through the gated read, and the status of those rows ranks  *)
(* them.  The four reads happen one after the other, in no transaction.    *)
(* Scores are left out: a signal returns any part of what its gate admits. *)
(* The asker is whoever the gate closes out: a colleague for a private     *)
(* memory, the owner without the opt-in for a sensitive one.               *)
(***************************************************************************)
EXTENDS VectorIndex

VARIABLES
    search,   \* pc, mode, the hits of the index, the rows read so far
    shown,    \* the memories the retrieval returned
    seen      \* history: memory |-> "open", "current": what its row was since the question

rvars == <<vars, search, shown, seen>>

\* fuse and gatherEntityProfile; temporalRetrieve; openLoops.
Modes  == {"default", "temporal", "tasks"}

Resting == [pc |-> "idle", mode |-> "default", hits |-> {},
            rows |-> [m \in Mem |-> None]]

\* What the ranking tells apart in the status of a row.
Standing(c) == IF c.status = "replaced" THEN "replaced" ELSE "current"
Was(r)   == (IF r.gate THEN {} ELSE {"open"}) \cup (IF r.status = "replaced" THEN {} ELSE {"current"})

\* buildGateFilter inside the vector query, on the payload copy.
PayloadGate(m) == point[m] # None /\ ~point[m].gate

\* visibleTo inside every SQL read.
VisibleTo(m) == ~row[m].gate

RInit == Init /\ search = Resting /\ shown = {} /\ seen = [m \in Mem |-> {}]

\* What the others do while a question is being answered.
Elsewhere ==
    /\ Next
    /\ seen' = IF search.pc = "idle" THEN seen
               ELSE [m \in Mem |-> seen[m] \cup Was(row'[m])]
    /\ UNCHANGED <<search, shown>>

\* retrieve: the rewriter has chosen the mode.
Ask(mode) ==
    /\ search.pc = "idle"
    /\ search' = [Resting EXCEPT !.pc = "signals", !.mode = mode]
    /\ shown' = {}
    /\ seen' = [m \in Mem |-> Was(row[m])]
    /\ UNCHANGED vars

\* gateway.embed, then vectorSearch: ids only.  Entity questions and the
\* temporal mode use it too; open loops go through the tasks of the asker.
VectorSignal ==
    /\ search.pc = "signals"
    /\ \E H \in SUBSET (IF search.mode = "tasks" THEN Mem ELSE {m \in Mem : PayloadGate(m)}) :
          search' = [search EXCEPT !.pc = "vectors", !.hits = @ \cup H]
    /\ UNCHANGED <<vars, shown, seen>>

\* ftsSearch, entitySearch and, for an instant in the past, the interval query:
\* rows, gated in the same statement.  They run beside the vector query, so one
\* may be answered before the other.
RowSignals ==
    /\ search.pc \in {"signals", "vectors"}
    /\ search.mode # "tasks"
    /\ \E R \in SUBSET {m \in Mem : VisibleTo(m)} :
          search' = [search EXCEPT !.rows = [m \in Mem |-> IF m \in R THEN Standing(row[m]) ELSE @[m]]]
    /\ UNCHANGED <<vars, shown, seen>>

\* Mutant of Resolve: the hits are read as the pipeline reads them, without gate.
ResolveUngated ==
    /\ search.pc = "vectors"
    /\ search' = [search EXCEPT !.pc = "resolved", !.hits = {},
                    !.rows = [m \in Mem |-> IF m \in search.hits /\ @[m] = None
                                            THEN Standing(row[m]) ELSE @[m]]]
    /\ UNCHANGED <<vars, shown, seen>>

\* Mutant of Resolve: an id that resolves to no row keeps the payload's copy.
ResolveByPayload ==
    /\ search.pc = "vectors"
    /\ search' = [search EXCEPT !.pc = "resolved", !.hits = {},
                    !.rows = [m \in Mem |-> IF m \in search.hits /\ @[m] = None /\ point[m] # None
                                            THEN Standing(point[m]) ELSE @[m]]]
    /\ UNCHANGED <<vars, shown, seen>>

\* getManyForPrincipal for the hits no row signal brought: what the asker may
\* not see drops out, whatever the index said.
Resolve ==
    /\ search.pc = "vectors"
    /\ search' = [search EXCEPT !.pc = "resolved", !.hits = {},
                    !.rows = [m \in Mem |-> IF m \in search.hits /\ @[m] = None /\ VisibleTo(m)
                                            THEN Standing(row[m]) ELSE @[m]]]
    /\ UNCHANGED <<vars, shown, seen>>

\* STATUS_MULTIPLIERS gives replaced the weight 0 and a profile filters it; the
\* temporal weights keep it, and so do the memories tasks derive from.
Excluded(r) == r = "replaced" /\ search.mode = "default"

\* fuseAndRank and the cut at topK.
Rank ==
    /\ search.pc = "resolved"
    /\ \E T \in SUBSET {m \in Mem : search.rows[m] # None /\ ~Excluded(search.rows[m])} : shown' = T
    /\ search' = [search EXCEPT !.pc = "answered", !.rows = Resting.rows]
    /\ UNCHANGED <<vars, seen>>

Close ==
    /\ search.pc = "answered"
    /\ search' = Resting /\ shown' = {} /\ seen' = [m \in Mem |-> {}]
    /\ UNCHANGED vars

RNext ==
    \/ Elsewhere
    \/ \E k \in Modes : Ask(k)
    \/ VectorSignal \/ RowSignals \/ Resolve \/ Rank \/ Close

RSpec == RInit /\ [][RNext]_rvars

-----------------------------------------------------------------------------
\* "an ungated hit cannot exist, not even transiently" (vectorSearch): whatever
\* the index believed, what is shown to somebody the gate closes out was open in
\* its row at some moment since the question was asked.
ShownWasReadable ==
    \A m \in shown : "open" \in seen[m]

\* "replaced x0, excluded in default mode" (fuseAndRank): an ordinary answer never
\* rests on a memory that had been replaced before the question, though its
\* point may say otherwise.
ShownWasCurrent ==
    search.mode = "default" => \A m \in shown : "current" \in seen[m]
=============================================================================
