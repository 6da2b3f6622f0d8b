\* Three holders of at most six shares each, amounts up to thirteen; the
\* recession cap runs from zero to above the largest output (18).
SPECIFICATION Spec
CONSTANTS
    Keys = {1, 2, 3}
    MaxAmount = 13
    MaxShares = 6
    PoolPerAmount = 15
INVARIANTS
    SplitExact
    SplitFair
    RevenueWithinCap
CHECK_DEADLOCK FALSE
