---------------------------- MODULE ReceiptChain ----------------------------
(***************************************************************************)
(* The hash chain of the deletion receipts.  Every deletion.execute job    *)
(* confirms its receipt in a transaction of its own: it locks the receipt  *)
(* row, waits for the chain's advisory lock, reads the chain tip, links    *)
(* and signs the receipt, and commits; workers confirm concurrently and a  *)
(* delivery may be repeated.  The order of the chain is its linkage, never *)
(* a timestamp.                                                            *)
(*                                                                         *)
(* A hash is modelled by what it commits to: the previous hash and the     *)
(* canonical payload, that is the sequence of <<receipt, payload>> pairs   *)
(* from the genesis on (SHA-256 is taken to be free of collisions).  A     *)
(* signature is the hash that was signed.                                  *)
(***************************************************************************)
EXTENDS Naturals, Sequences, FiniteSets

CONSTANTS
    Receipts,   \* receipt ids; the sagas have committed them, all pending
    Payloads,   \* what counts_json and the provenance fields may hold
    Unsigned    \* hash, signature and prev_hash of a pending receipt

Genesis == << >>
Chains  == Seq(Receipts \X Payloads)

ASSUME UnsignedAssumption == Unsigned \notin Chains

VARIABLES
    status,     \* receipt |-> pending or confirmed (committed)
    payload,    \* receipt |-> what the saga recorded
    prev,       \* receipt |-> prev_hash
    hash,       \* receipt |-> hash
    signature,  \* receipt |-> signature
    conf        \* receipt |-> the confirming transaction: pc and the tip read

rows == <<status, payload, prev, hash, signature>>
vars == <<status, payload, prev, hash, signature, conf>>

Confirmed == {r \in Receipts : status[r] = "confirmed"}

\* hashReceiptPayload over the canonical payload, prev_hash included.
HashOf(r, p) == Append(p, <<r, payload[r]>>)

\* chainTip: the confirmed receipts no confirmed receipt links to.
Tips == {r \in Confirmed : \A q \in Confirmed : prev[q] # hash[r]}
TipHash == IF Tips = {} THEN Genesis ELSE hash[CHOOSE r \in Tips : TRUE]

NoConf == [pc |-> "idle", tip |-> Genesis]

Init ==
    /\ status = [r \in Receipts |-> "pending"]
    /\ payload \in [Receipts -> Payloads]
    /\ prev = [r \in Receipts |-> Unsigned]
    /\ hash = [r \in Receipts |-> Unsigned]
    /\ signature = [r \in Receipts |-> Unsigned]
    /\ conf = [r \in Receipts |-> NoConf]

\* Mutant of Holding: the advisory lock is released once the tip is read.
HoldingUntilRead(r) == conf[r].pc = "locked"
\* r's transaction holds the chain's advisory lock, to its end.
Holding(r) == conf[r].pc \in {"locked", "linked"}

\* A delivery: the receipt row FOR UPDATE (so one transaction per receipt), a
\* confirmed one is a no-op; then points and objects are deleted.
Execute(r) ==
    /\ conf[r].pc = "idle" /\ status[r] = "pending"
    /\ conf' = [conf EXCEPT ![r].pc = "erased"]
    /\ UNCHANGED rows

LockChain(r) ==
    /\ conf[r].pc = "erased" /\ \A q \in Receipts : ~Holding(q)
    /\ conf' = [conf EXCEPT ![r].pc = "locked"]
    /\ UNCHANGED rows

\* Mutant of ReadTip: a receipt is linked to any receipt that has no successor
\* committed, the corrupted chain of several tips included.
ReadTipAnyway(r) ==
    /\ conf[r].pc = "locked"
    /\ conf' = [conf EXCEPT ![r] = [pc |-> "linked", tip |-> Genesis]]
    /\ UNCHANGED rows

\* Several tips are a corrupted chain, which is not extended: the attempt fails.
ReadTip(r) ==
    /\ conf[r].pc = "locked" /\ Cardinality(Tips) <= 1
    /\ conf' = [conf EXCEPT ![r] = [pc |-> "linked", tip |-> TipHash]]
    /\ UNCHANGED rows

\* Mutant of Confirm: the signature covers the previous hash.
ConfirmSigningPrev(r) ==
    /\ conf[r].pc = "linked"
    /\ status' = [status EXCEPT ![r] = "confirmed"]
    /\ prev' = [prev EXCEPT ![r] = conf[r].tip]
    /\ hash' = [hash EXCEPT ![r] = HashOf(r, conf[r].tip)]
    /\ signature' = [signature EXCEPT ![r] = conf[r].tip]
    /\ conf' = [conf EXCEPT ![r] = NoConf]
    /\ UNCHANGED payload

\* Hash, sign, update the row and commit.
Confirm(r) ==
    /\ conf[r].pc = "linked"
    /\ status' = [status EXCEPT ![r] = "confirmed"]
    /\ prev' = [prev EXCEPT ![r] = conf[r].tip]
    /\ hash' = [hash EXCEPT ![r] = HashOf(r, conf[r].tip)]
    /\ signature' = [signature EXCEPT ![r] = HashOf(r, conf[r].tip)]
    /\ conf' = [conf EXCEPT ![r] = NoConf]
    /\ UNCHANGED payload

\* A failed attempt or a crash rolls the transaction back and frees the lock.
Fail(r) ==
    /\ conf[r].pc # "idle"
    /\ conf' = [conf EXCEPT ![r] = NoConf]
    /\ UNCHANGED rows

Next == \E r \in Receipts :
    Execute(r) \/ LockChain(r) \/ ReadTip(r) \/ Confirm(r) \/ Fail(r)

Spec == Init /\ [][Next]_vars

-----------------------------------------------------------------------------
(* verifyChain, over the confirmed rows it is given.                        *)

\* No two receipts share a prev_hash (byPrev has one entry per key).
ForkFree(R) == \A r, q \in R : prev[r] = prev[q] => r = q

\* Mutant of Valid: the hash is recomputed but the signature is not checked.
ValidUnsigned(r) == hash[r] = HashOf(r, prev[r])
Linked(R, h) == {r \in R : prev[r] = h}
Valid(r) == hash[r] = HashOf(r, prev[r]) /\ signature[r] = hash[r]

\* The walk: the receipt linked to the hash reached so far, its hash recomputed
\* from the stored fields, its signature checked; Unsigned when the walk stops.
After(R, h)  == CHOOSE r \in Linked(R, h) : TRUE
Onward(R, h) == IF h # Unsigned /\ Linked(R, h) # {} /\ Valid(After(R, h))
                THEN hash[After(R, h)] ELSE Unsigned
Walk(R) ==
    LET w[n \in 0..Cardinality(R)] == IF n = 0 THEN Genesis ELSE Onward(R, w[n - 1])
    IN w

VerifyOK(R) == ForkFree(R) /\ Walk(R)[Cardinality(R)] # Unsigned

\* The ledger the linkage spells out, oldest receipt first.
ChainOrder == [i \in 1..Cardinality(Confirmed) |->
                  IF Linked(Confirmed, Walk(Confirmed)[i - 1]) = {} THEN Unsigned
                  ELSE After(Confirmed, Walk(Confirmed)[i - 1])]

-----------------------------------------------------------------------------
TypeOK ==
    /\ status \in [Receipts -> {"pending", "confirmed"}]
    /\ payload \in [Receipts -> Payloads]
    /\ prev \in [Receipts -> Chains \cup {Unsigned}]
    /\ hash \in [Receipts -> Chains \cup {Unsigned}]
    /\ signature \in [Receipts -> Chains \cup {Unsigned}]
    /\ conf \in [Receipts -> [pc : {"idle", "erased", "locked", "linked"}, tip : Chains]]

\* "clock skew cannot fork or reorder the chain": concurrent confirmations never
\* link two receipts to the same predecessor.
NoFork == ForkFree(Confirmed)

\* GET /api/receipts/verify, the sweep and a passport's reader may verify at any
\* moment, between any two commits: what is committed always verifies.
AlwaysVerifies == VerifyOK(Confirmed)

\* Confirming is never refused: the worker's own commits never leave more than
\* one tip ("refusing to extend a corrupted chain").
OneTip == Cardinality(Tips) <= 1

\* The confirmed receipts are the abstract ledger, in the order of the linkage.
Ledger == INSTANCE ReceiptLedger WITH ledger <- ChainOrder
LedgerRefined == Ledger!LedgerSpec
=============================================================================
