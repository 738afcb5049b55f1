\* Two threads, statements that fail, restarts, a code that is never made.
CONSTANTS
    r1 = r1  r2 = r2  c1 = c1  c2 = c2  l1 = l1  u1 = u1
    b1 = b1  b2 = b2
    NoUser = NoUser  Never = Never  None = None
    Requests <- TwoSlots
    Codes <- TwoCodes
    Aliases <- OneCode
    GenCodes <- OneCode
    LongURLs <- OneURL
    Users <- OneUser
    TTLs <- ShortOrNever
    Day = 2
    Bits <- TwoBits
    Hash <- Overlapping
    DbFaults = TRUE
    Crashes = TRUE
SPECIFICATION FairSpec
INVARIANTS
    TypeOK
    LinksFound
    DeleteReplyTrue
PROPERTIES
    ExpiredFades
    ImplementsUrlMap
