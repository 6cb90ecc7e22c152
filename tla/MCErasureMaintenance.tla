------------------------- MODULE MCErasureMaintenance -------------------------
(***************************************************************************)
(* The two maintenance programs over Erasure, for TLC: in a behaviour      *)
(* either the nightly sweep passes or the reindex command is run.  To keep *)
(* the instance small, the command is run once the uploads are processed,  *)
(* and only a source that is alone at work is deleted a second time, after *)
(* its first receipt has been committed.                                   *)
(***************************************************************************)
EXTENDS ErasureSweep, ErasureReindex, TLC

NoAttachments == [e \in Emails |-> {}]

Symmetry == Permutations(Mem) \cup Permutations(Receipts)

Processed == \A d \in Discards : job[d] # "queued"

AtWork(s) == \/ job[s] # "queued" \/ run[s].pc # "idle" \/ s \in Discards \ objs
             \/ \E r \in Receipts : saga[r].src = s
Requested == {r \in Receipts : saga[r].pc # "idle"}
\* Bound of the instance.
Small == Cardinality(Requested) > 1 =>
    /\ \A s, t \in Sources : AtWork(s) /\ AtWork(t) => s = t
    /\ \E r \in Requested : saga[r].pc \in Receipted
    /\ reindex.pc = "idle"

MaintenanceInit == SweepInit /\ ReindexInit

MaintenanceNext ==
    \/ reindex.pc = "idle" /\ SweepStep /\ UNCHANGED xvars
    \/ sweep.pc = "idle" /\ (IndexLost \/ (Processed /\ ReindexStep /\ Small')) /\ UNCHANGED svars
    \/ Next /\ UNCHANGED <<svars, xvars>> /\ Small'

MaintenanceSpec == MaintenanceInit /\ [][MaintenanceNext]_<<vars, svars, xvars>>
=============================================================================
