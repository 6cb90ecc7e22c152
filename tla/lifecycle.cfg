CONSTANTS
    Mem = {1, 2, 3, 4}
    o1 = o1
    o2 = o2
    Sources = {o1, o2}
    Validity <- Intervals
    Now = 2
    MaxFacts = 2
    Forever = 9
    Drivers = {d1, d2}
    None = None
SPECIFICATION Spec
SYMMETRY Symmetry
INVARIANTS ContradictionAccountable HistoryIntact
PROPERTIES ReplacedIsTerminal OwnerShielded
CHECK_DEADLOCK FALSE
