CONSTANTS
    Receipts = {r1, r2, r3, r4}
    Payloads = {p}
    Unsigned = Unsigned
SPECIFICATION Spec
INVARIANTS NoFork AlwaysVerifies OneTip
PROPERTY LedgerRefined
CHECK_DEADLOCK FALSE
