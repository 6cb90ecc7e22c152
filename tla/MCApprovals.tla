----------------------------- MODULE MCApprovals -----------------------------
(* Instances of Approvals, and of the JobQueue under it, for TLC. *)
EXTENDS Approvals, TLC
=============================================================================
