\* Every fault, one node: what holds whatever fails.
CONSTANTS
    n1 = n1  n2 = n2  r1 = r1  r2 = r2
    c1 = c1  c2 = c2  l1 = l1  l2 = l2  u1 = u1
    NoUser = NoUser  NoExpiry = NoExpiry  None = None
    Nodes <- OneNode
    Requests <- TwoSlots
    Codes <- OneCode
    Aliases <- OneCode
    GenCodes <- OneCode
    HashCodes <- OneCode
    TooLong <- NoCodes
    LongURLs <- TwoURLs
    Users <- OneUser
    Lifetimes <- ShortOrNever
    CacheTTL = 2
    Attempts = 2
    RedisFaults = TRUE
    DbFaults = TRUE
    Crashes = TRUE
SPECIFICATION Spec
SYMMETRY SlotsAndURLs
INVARIANTS
    TypeOK
    HolderHasRow
    CacheMirrorsDb
    OneCreator
    DeleteReplyTrue
PROPERTIES
    ImplementsUrlMap
    GoneFades
