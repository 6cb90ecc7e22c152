------------------------------ MODULE MCErasure ------------------------------
(* Instances of Erasure for TLC: who carries whose attachments, and symmetry. *)
EXTENDS Erasure, TLC

NoAttachments  == [e \in Emails |-> {}]
AllAttachments == [e \in Emails |-> Files]

Symmetry == Permutations(Mem) \cup Permutations(Receipts)
=============================================================================
