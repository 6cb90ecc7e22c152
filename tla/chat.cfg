CONSTANTS
    Turn = {t1, t2, t3}
    Mem = {m1}
    Cap = 2
SPECIFICATION FairSpec
INVARIANTS  SlotsTrue
PROPERTY EveryStreamEnds
CHECK_DEADLOCK FALSE
