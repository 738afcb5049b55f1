\* Postgres works, Redis may fail, time passes: what clients read.
\* An alias, and a generated code that is too long and falls back to the hash.
CONSTANTS
    n1 = n1  n2 = n2  r1 = r1  r2 = r2
    c1 = c1  c2 = c2  l1 = l1  l2 = l2  u1 = u1
    NoUser = NoUser  NoExpiry = NoExpiry  None = None
    Nodes <- OneNode
    Requests <- TwoSlots
    Codes <- TwoCodes
    Aliases <- OneCode
    GenCodes <- SecondCode
    HashCodes <- OneCode
    TooLong <- SecondCode
    LongURLs <- OneURL
    Users <- OneUser
    Lifetimes <- AnyLifetime
    CacheTTL = 1
    Attempts = 2
    RedisFaults = TRUE
    DbFaults = FALSE
    Crashes = FALSE
SPECIFICATION FairSpec
INVARIANTS
    RefusedOnlyIfTaken
    ReadYourWrites
PROPERTIES
    DeactivatedFades
    ExpiredFades
