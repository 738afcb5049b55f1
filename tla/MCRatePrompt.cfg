\* Scripts that run in the tick their request came in; every fault.
CONSTANTS
    n1 = n1
    r1 = r1  r2 = r2
    None = None
    Nodes <- OneNode
    Requests <- TwoSlots
    Capacity = 2
    Rate = 1
    PerSec = 2
    Skew <- Agreed
    MaxDelay = 0
    RedisFaults = TRUE
    MaxLosses = 1
    MaxTime = 5
SYMMETRY Slots
SPECIFICATION Spec
INVARIANTS
    TypeOK
    RedisBound
    LocalBound
\* The clock stops at MaxTime.
CHECK_DEADLOCK FALSE
