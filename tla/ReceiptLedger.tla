---------------------------- MODULE ReceiptLedger ----------------------------
(***************************************************************************)
(* What the deletion receipts promise their reader: one ledger, to which   *)
(* confirmed receipts are appended one at a time and in which nothing is   *)
(* ever changed, reordered or removed.                                     *)
(***************************************************************************)
EXTENDS Sequences

CONSTANT Receipts
VARIABLE ledger      \* the confirmed receipts, oldest first

LedgerInit == ledger = << >>

LedgerAppend == \E r \in Receipts :
    /\ \A i \in DOMAIN ledger : ledger[i] # r
    /\ ledger' = Append(ledger, r)

LedgerSpec == LedgerInit /\ [][LedgerAppend]_ledger
=============================================================================
