----------------------------- MODULE MCRetrieval -----------------------------
(***************************************************************************)
(* Instances of VectorIndex and Retrieval for TLC.  All of VectorIndex is  *)
(* explored with two writers; while a question is being answered at most   *)
(* one of them is busy, beside the reindex command and without the nightly *)
(* pass, whose stale payloads the question finds all the same.             *)
(***************************************************************************)
EXTENDS Retrieval, TLC

Symmetry == Permutations(Writers)

Bounded(pc, busy, night) ==
    pc # "idle" => night = "idle" /\ \A v, w \in busy : v = w

BoundedNext ==
    /\ RNext
    /\ Bounded(search'.pc, {w \in Writers : tx'[w].pc # "idle"}, repair'.pc)

BoundedSpec == RInit /\ [][BoundedNext]_rvars
=============================================================================
