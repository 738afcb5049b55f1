\* A link acknowledged by one node, asked of another (finding).
CONSTANTS
    n1 = n1  n2 = n2  r1 = r1  r2 = r2
    c1 = c1  c2 = c2  l1 = l1  l2 = l2  u1 = u1
    NoUser = NoUser  NoExpiry = NoExpiry  None = None
    Nodes <- TwoNodes
    Requests <- OneSlot
    Codes <- OneCode
    Aliases <- OneCode
    GenCodes <- OneCode
    HashCodes <- NoCodes
    TooLong <- NoCodes
    LongURLs <- OneURL
    Users <- OneUser
    Lifetimes <- Never
    CacheTTL = 1
    Attempts = 1
    RedisFaults = FALSE
    DbFaults = FALSE
    Crashes = FALSE
SPECIFICATION Spec
INVARIANTS
    FoundElsewhere
