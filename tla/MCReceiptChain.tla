--------------------------- MODULE MCReceiptChain ---------------------------
(* Instances of ReceiptChain for TLC: chains are bounded by the receipts. *)
EXTENDS ReceiptChain, TLC

Symmetry == Permutations(Receipts)
=============================================================================
