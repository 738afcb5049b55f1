\* Three goroutines, two codes of three bits each.
CONSTANTS
    t1 = t1  t2 = t2  t3 = t3  c1 = c1  c2 = c2
    None = None
    Threads <- ThreeThreads
    Codes <- TwoCodes
    M = 3
    K = 3
    WordBits = 2
    Hash <- Overlap
SPECIFICATION FairSpec
INVARIANTS
    TypeOK
    NoFalseNegatives
PROPERTIES
    CallsReturn
    ImplementsCodeFilter
