\* Two requests in flight, scripts up to a second late.
CONSTANTS
    n1 = n1
    r1 = r1  r2 = r2
    None = None
    Nodes <- OneNode
    Requests <- TwoSlots
    Capacity = 2
    Rate = 1
    PerSec = 1
    Skew <- Agreed
    MaxDelay = 1
    RedisFaults = FALSE
    MaxLosses = 0
    MaxTime = 4
SPECIFICATION Spec
INVARIANTS
    RedisBound
\* The clock stops at MaxTime.
CHECK_DEADLOCK FALSE
