CONSTANTS
    Receipts = {r1, r2, r3}
    Payloads = {p, q}
    Unsigned = Unsigned
    MaxTampers = 2
SPECIFICATION TamperSpec
SYMMETRY Symmetry
INVARIANTS RewriteDetected RemovalDetected
CHECK_DEADLOCK FALSE
