CONSTANTS
    Mem = {m1}
    Writers = {w1, w2}
    None = None
SPECIFICATION BoundedSpec
SYMMETRY Symmetry
INVARIANTS LocksKeepCopiesHonest RepairConverges ShownWasReadable ShownWasCurrent
CHECK_DEADLOCK FALSE
