CONSTANTS
    Keys = {k1, a1}
    Approvals = {a1}
    Jobs = {j1, j2}
    Cancels = {c1}
    MaxAttempts = 2
    None = None
SPECIFICATION FairApprovalSpec
INVARIANTS AtMostOnceEffect CancelNeverBlocks ContinuationFollowsEffect WorkAccounted ExecutedIsTrue
PROPERTIES MachineRefined ApprovalSettles
CHECK_DEADLOCK FALSE
