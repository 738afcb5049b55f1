\* Two processes with the node number the code gives each, 1: one whose clock is
\* set back, one that is restarted.
CONSTANTS
    p1 = p1  p2 = p2
    Procs <- TwoProcs
    NodeId <- SameNode
    NodeSpan = 2
    SeqSpan = 2
    Restarted <- SecondRestarted
    MaxTime = 3
    MaxBacks <- FirstSetBack
    MaxIds = 4
    Base = 3
    WordSpan = 16
    MinLen = 2
SPECIFICATION FairSpec
INVARIANTS
    TypeOK
    Increasing
    Bounded
    CodesDecode
PROPERTIES
    SpinEnds
\* The clocks stop at MaxTime.
CHECK_DEADLOCK FALSE
