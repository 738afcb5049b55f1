\* Up to two faults of every kind: two processes, two clicks, commands sent up to twice.
CONSTANTS
    n1 = n1  n2 = n2
    k1 = k1  k2 = k2
    NoNode = NoNode
    Nodes <- TwoNodes
    Clicks <- TwoClicks
    BatchSize = 2
    Attempts = 2
    DbAttempts = 2
    MaxEntries = 2
    MaxFaults = 2
    GroupCreated = TRUE
    RedisFaults = TRUE
    DbFaults = TRUE
    ChFaults = TRUE
    Crashes = TRUE
SPECIFICATION NamedSpec
INVARIANTS
    TypeOK
    StoredOnce
    ForgottenIsStored
    CountNotAbove
    CountsAgree
PROPERTIES
    NoSecondReader
    ClicksStored
    Drains
\* There are only so many clicks.
CHECK_DEADLOCK FALSE
