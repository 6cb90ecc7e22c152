---------------------------- MODULE ReceiptTamper ----------------------------
(***************************************************************************)
(* The receipt chain under an operator strong enough to disable the freeze *)
(* trigger: stored payloads are rewritten, hashes recomputed to match, and *)
(* confirmed rows deleted.  What verifyChain and the anchor of an exported *)
(* receipt, chainTip = {hash, confirmedCount}, can still tell.  Nobody but *)
(* the worker holds the signing key, so no signature is ever forged.       *)
(***************************************************************************)
EXTENDS ReceiptChain

CONSTANT MaxTampers   \* bound on the operator's interventions

ASSUME TamperAssumption == MaxTampers \in Nat

VARIABLES
    tampers,   \* interventions so far
    altered,   \* confirmed receipts whose stored payload is not the signed one
    dropped,   \* deleted rows
    anchor     \* the exported copy: tip, count, and (history) what it covers

tvars == <<tampers, altered, dropped, anchor>>

TamperInit == /\ Init /\ tampers = 0 /\ altered = {} /\ dropped = {}
              /\ anchor = [tip |-> Unsigned, count |-> 0, covers |-> {}]

Present == Confirmed \ dropped

\* Mutant of Export: the stamp is the exported receipt's own hash, not the tip's.
ExportOwnHash ==
    /\ anchor.tip = Unsigned /\ dropped = {} /\ altered = {} /\ Confirmed # {}
    /\ \E r \in Confirmed :
         anchor' = [tip |-> hash[r], count |-> Cardinality(Confirmed), covers |-> Confirmed]
    /\ UNCHANGED <<vars, tampers, altered, dropped>>

\* GET /api/receipts/:id stamps the ledger's tip and count on the export.
Export ==
    /\ anchor.tip = Unsigned /\ dropped = {} /\ altered = {} /\ Confirmed # {}
    /\ anchor' = [tip |-> TipHash, count |-> Cardinality(Confirmed), covers |-> Confirmed]
    /\ UNCHANGED <<vars, tampers, altered, dropped>>

\* A confirmed row is rewritten, with or without a hash recomputed to match.
Rewrite(r) ==
    /\ tampers < MaxTampers /\ r \in Present \ altered
    /\ tampers' = tampers + 1
    /\ \E p \in Payloads \ {payload[r]} :
         /\ payload' = [payload EXCEPT ![r] = p]
         /\ hash' \in {hash, [hash EXCEPT ![r] = Append(prev[r], <<r, p>>)]}
    /\ altered' = altered \cup {r}
    /\ UNCHANGED <<status, prev, signature, conf, dropped, anchor>>

\* The last receipts of the chain, or any others, are deleted while no
\* confirmation is in flight.
Drop(r) ==
    /\ tampers < MaxTampers /\ r \in Present /\ \A q \in Receipts : conf[q] = NoConf
    /\ tampers' = tampers + 1
    /\ dropped' = dropped \cup {r}
    /\ UNCHANGED <<vars, altered, anchor>>

\* The worker goes on over what is left of the table.
TamperTips == {r \in Present : \A q \in Present : prev[q] # hash[r]}
ReadTipOfRest(r) ==
    /\ conf[r].pc = "locked" /\ Cardinality(TamperTips) <= 1
    /\ conf' = [conf EXCEPT ![r] = [pc |-> "linked", tip |->
                  IF TamperTips = {} THEN Genesis
                  ELSE hash[CHOOSE q \in TamperTips : TRUE]]]
    /\ UNCHANGED rows
WorkerStep == \E r \in Receipts :
    Execute(r) \/ LockChain(r) \/ ReadTipOfRest(r) \/ Confirm(r)

TamperNext ==
    \/ WorkerStep /\ UNCHANGED tvars
    \/ Export
    \/ \E r \in Receipts : Rewrite(r) \/ Drop(r)

TamperSpec == TamperInit /\ [][TamperNext]_<<vars, tvars>>

\* "Any tampering with a stored payload, hash, or signature breaks it"
\* (verifyChain): a chain that verifies holds no rewritten receipt.
RewriteDetected == VerifyOK(Present) => altered \cap Present = {}

\* The reader of an export checks that the chain verifies, still contains the
\* tip and has not shrunk.
AnchorHolds == /\ VerifyOK(Present)
               /\ anchor.tip \in {hash[r] : r \in Present}
               /\ anchor.count <= Cardinality(Present)

\* "if the tip you recorded no longer appears, or the confirmed count has gone
\* down, a receipt was removed": when the check passes, every receipt confirmed
\* before the export is still there.
RemovalDetected == anchor.tip # Unsigned /\ AnchorHolds => anchor.covers \subseteq Present
=============================================================================
