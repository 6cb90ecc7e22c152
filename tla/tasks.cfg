CONSTANTS
    Own = {o1}
    Observed = {b1}
    Facts = {f1}
    Task = {t1, t2}
    Passes = {p1, p2}
    None = None
    MaxPasses = 2
    MaxActs = 2
SPECIFICATION BoundedSpec
SYMMETRY Symmetry
INVARIANTS ClosedTasksAreQuiet
PROPERTIES ConclusionIffTransition OwnerActsStand
CHECK_DEADLOCK FALSE
