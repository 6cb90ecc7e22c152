------------------------------- MODULE MCTasks -------------------------------
(* Instances of Tasks for TLC: MaxPasses engine passes start and the owner    *)
(* acts MaxActs times; everybody else is bounded by the memories there are.   *)
EXTENDS Tasks, TLC

CONSTANTS MaxPasses, MaxActs
VARIABLES started, acts

Symmetry == Permutations(Task) \cup Permutations(Passes)

Starting == \E p \in Passes : pass[p].pc = "idle" /\ pass'[p].pc # "idle"
BoundedInit == Init /\ started = 0 /\ acts = 0

BoundedNext ==
    /\ Next
    /\ started' = started + IF Starting THEN 1 ELSE 0
    /\ acts' = acts + IF touched' # touched \/ OwnerStep THEN 1 ELSE 0
    /\ started' <= MaxPasses /\ acts' <= MaxActs

BoundedSpec == BoundedInit /\ [][BoundedNext]_<<vars, started, acts>>
=============================================================================
