\* A link whose creator has its answer: a delete racing a resolve (finding).
CONSTANTS
    n1 = n1  n2 = n2  r1 = r1  r2 = r2
    c1 = c1  c2 = c2  l1 = l1  l2 = l2  u1 = u1
    NoUser = NoUser  NoExpiry = NoExpiry  None = None
    Nodes <- OneNode
    Requests <- TwoSlots
    Codes <- OneCode
    Aliases <- OneCode
    GenCodes <- OneCode
    HashCodes <- NoCodes
    TooLong <- NoCodes
    LongURLs <- OneURL
    Users <- OneUser
    Lifetimes <- Never
    CacheTTL = 2
    Attempts = 1
    RedisFaults = FALSE
    DbFaults = FALSE
    Crashes = FALSE
SPECIFICATION LinkSpec
INVARIANTS
    DeletedNotServed
