--------------------------- MODULE MCReceiptTamper ---------------------------
(* Instances of ReceiptTamper for TLC. *)
EXTENDS ReceiptTamper, TLC

Symmetry == Permutations(Receipts)
=============================================================================
