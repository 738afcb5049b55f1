\* Three clicks, batches of two: SQLite fails, the process restarts.
CONSTANTS
    k1 = k1  k2 = k2  k3 = k3
    Clicks <- ThreeClicks
    BatchSize = 2
    SqlFaults = TRUE
    Restarts = TRUE
SPECIFICATION FairSpec
INVARIANTS
    TypeOK
    InOnePlace
    TotalFresh
PROPERTIES
    EventSettles
