---------------------------- MODULE MCUrlService ----------------------------
(***************************************************************************)
(* UrlService on small instances.                                          *)
(***************************************************************************)
EXTENDS UrlService, TLC

CONSTANTS n1, n2, r1, r2, c1, c2, l1, l2, u1

OneNode == {n1}
TwoNodes == {n1, n2}
OneSlot == {r1}
TwoSlots == {r1, r2}
OneCode == {c1}
TwoCodes == {c1, c2}
SecondCode == {c2}
NoCodes == {}
OneURL == {l1}
TwoURLs == {l1, l2}
OneUser == {u1}

\* A link without expiry, and one that runs out.
ShortOrNever == {1, NoExpiry}

\* Also a link that has run out from the start: its ttl_seconds has wrapped.
AnyLifetime == {-1, 1, NoExpiry}
Never == {NoExpiry}

\* A finished shorten: one link whose creator has its answer, in the filters, and
\* in the cache no more.
LinkInit ==
    /\ \E l \in LongURLs, u \in Users :
         db = [c \in Codes |-> [long |-> l, owner |-> u, exp |-> NoExpiry, active |-> TRUE]]
    /\ cache = [c \in Codes |-> None]
    /\ redisBloom = Codes
    /\ localFilter = [n \in Nodes |-> Codes]
    /\ req = [r \in Requests |-> None]
    /\ acked = [n \in Nodes |-> Codes]
    /\ deleted = {}

LinkSpec == LinkInit /\ [][Next]_vars

\* Slots are interchangeable, and so are targets: no formula of UrlService names
\* one.
SlotsAndURLs == Permutations(Requests) \cup Permutations(LongURLs)
=============================================================================
