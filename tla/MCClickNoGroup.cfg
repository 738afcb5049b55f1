\* No faults, and nobody has created the consumer group.
CONSTANTS
    n1 = n1  n2 = n2
    k1 = k1  k2 = k2
    NoNode = NoNode
    Nodes <- OneNode
    Clicks <- TwoClicks
    BatchSize = 2
    Attempts = 1
    DbAttempts = 2
    MaxEntries = 2
    MaxFaults = 0
    GroupCreated = FALSE
    RedisFaults = FALSE
    DbFaults = FALSE
    ChFaults = FALSE
    Crashes = FALSE
SPECIFICATION FairSpec
PROPERTIES
    ClicksStored
\* There are only so many clicks.
CHECK_DEADLOCK FALSE
