-------------------------- MODULE UrlServiceProofs --------------------------
(***************************************************************************)
(* Proofs about UrlService, for every set of nodes, slots, codes, targets  *)
(* and users, with every fault switched on or off.                         *)
(***************************************************************************)
EXTENDS UrlService, TLAPS

\* What TypeOK says about the slots.
SlotsOK ==
    /\ req \in [Requests -> Request \cup {None}]
    /\ \A r \in Requests : req[r] # None => HandlerOK(req[r])

\* What TypeOK says about the filters and the history.
SetsOK ==
    /\ redisBloom \in SUBSET Codes
    /\ localFilter \in [Nodes -> SUBSET Codes]
    /\ acked \in [Nodes -> SUBSET Codes]
    /\ deleted \in SUBSET Codes

-----------------------------------------------------------------------------
(* Writing one slot *)

\* A slot may be given any well-formed request.
LEMMA SlotWrite ==
    ASSUME TypeOK, NEW r \in Requests, NEW q \in Request, HandlerOK(q),
           req' = [req EXCEPT ![r] = q]
    PROVE  SlotsOK'
BY DEF TypeOK, SlotsOK, HandlerOK

\* A live request is a Request; changing where it stands keeps it one.
LEMMA Moved ==
    ASSUME TypeOK, NEW r \in Requests, req[r] # None, NEW a \in Calls \cup Replies
    PROVE  /\ req[r] \in Request
           /\ [req[r] EXCEPT !.at = a] \in Request
           /\ [req EXCEPT ![r].at = a] = [req EXCEPT ![r] = [req[r] EXCEPT !.at = a]]
BY DEF TypeOK, Request

LEMMA GotoSlots ==
    ASSUME TypeOK, NEW r \in Requests, req[r] # None,
           NEW a \in Calls \cup Replies, Goto(r, a),
           HandlerOK([req[r] EXCEPT !.at = a])
    PROVE  SlotsOK'
BY Moved, SlotWrite DEF Goto

LEMMA BeginSlots ==
    ASSUME TypeOK, NEW r \in Requests, NEW q \in Request, HandlerOK(q), Begin(r, q)
    PROVE  SlotsOK'
BY SlotWrite DEF Begin

-----------------------------------------------------------------------------
(* The operators on the table and the cache keep their types *)

LEMMA ElapseType == ASSUME NEW e \in Expiry PROVE Elapse(e) \in Expiry
BY TimeAssumption DEF Elapse, Expiry

LEMMA CacheTTLForType == ASSUME NEW e \in Expiry PROVE CacheTTLFor(e) \in 1..CacheTTL
BY TimeAssumption DEF CacheTTLFor, Expiry

LEMMA InsertType ==
    ASSUME db \in [Codes -> Row \cup {None}], NEW q \in Request,
           q.long \in LongURLs,
           InsertOK(q) \/ InsertError(q)
    PROVE  db' \in [Codes -> Row \cup {None}]
<1>1. RowOf(q) \in Row
  BY DEF RowOf, Row, Request
<1>2. InsertOK(q) => db' \in [Codes -> Row \cup {None}]
  BY <1>1 DEF InsertOK
<1>3. QED
  BY <1>2 DEF InsertError

LEMMA DeactivateType ==
    ASSUME db \in [Codes -> Row \cup {None}], NEW q, Deactivate(q)
    PROVE  db' \in [Codes -> Row \cup {None}]
BY ZenonT(40) DEF Deactivate, Row

LEMMA SetURLType ==
    ASSUME cache \in [Codes -> Entry \cup {None}], NEW q \in Request,
           q.long \in LongURLs, q.ttl >= 1, SetURL(q)
    PROVE  cache' \in [Codes -> Entry \cup {None}]
<1>1. [long |-> q.long, ttl |-> q.ttl] \in Entry
  BY TimeAssumption DEF Entry, Request
<1>2. QED
  BY <1>1 DEF SetURL

LEMMA TypeInit == Init => TypeOK
BY DEF Init, TypeOK

AfterSet(q, at, sends) == [q EXCEPT !.at = at, !.sends = sends]

\* After a SET the request is answered, or has one sending less.
LEMMA CacheSetStep ==
    ASSUME TypeOK, NEW r \in Requests, CacheSet(r)
    PROVE  \E at \in {"201", "302", "set"}, sends \in 0..Attempts :
              /\ req' = [req EXCEPT ![r] = AfterSet(req[r], at, sends)]
              /\ at = "201" => req[r].op = "shorten"
              /\ at = "302" => req[r].op = "resolve"
              /\ at = "set" => sends < req[r].sends
<1>1. /\ req[r] \in Request /\ req[r].at = "set" /\ 0 \in 0..Attempts
      /\ req \in [Requests -> Request \cup {None}]
  BY AttemptsAssumption DEF CacheSet, Waiting, TypeOK
<1>2. CASE \/ /\ req[r].op = "shorten"
              /\ req' = [req EXCEPT ![r] = [@ EXCEPT !.at = "201", !.sends = 0]]
           \/ /\ req[r].op = "resolve"
              /\ req' = [req EXCEPT ![r] = [@ EXCEPT !.at = "302", !.sends = 0]]
  BY <1>1, <1>2 DEF AfterSet
<1>3. CASE req[r].sends > 1 /\ req' = [req EXCEPT ![r].sends = @ - 1]
  <2> DEFINE q == AfterSet(req[r], "set", req[r].sends - 1)
  <2>1. req[r].sends \in 0..Attempts
    BY <1>1 DEF Request
  <2>2. req[r].sends - 1 \in 0..Attempts /\ req[r].sends - 1 < req[r].sends
    BY <1>3, <2>1, AttemptsAssumption
  <2>3. [req[r] EXCEPT !.sends = req[r].sends - 1] = q
    BY <1>1 DEF AfterSet, Request
  <2>4. req' = [req EXCEPT ![r] = q]
    BY <1>3, <2>3
  <2>5. QED
    BY <2>2, <2>4
<1>4. QED
  BY <1>2, <1>3 DEF CacheSet

\* The slots after each step of a handler.
LEMMA ServeSlots ==
    ASSUME TypeOK, NEW r \in Requests, Serve(r)
    PROVE  SlotsOK'
<1> USE DEF Waiting
<1>1. CASE CheckAlias(r)
  <2>1. CASE Goto(r, "400")
    BY <1>1, <2>1, GotoSlots, ZenonT(40) DEF CheckAlias, TypeOK, HandlerOK, Replies, Request
  <2>2. CASE \E e \in Lifetimes :
               req' = [req EXCEPT ![r] = [@ EXCEPT !.at = "claim", !.exp = e]]
    <3>1. PICK e \in Lifetimes :
            req' = [req EXCEPT ![r] = [@ EXCEPT !.at = "claim", !.exp = e]]
      BY <2>2
    <3> DEFINE q == [req[r] EXCEPT !.at = "claim", !.exp = e]
    <3>2. q \in Request /\ HandlerOK(q)
      <4>1. req[r] \in Request /\ HandlerOK(req[r]) /\ req[r].at = "check"
        BY <1>1 DEF CheckAlias, TypeOK
      <4>2. e \in Expiry
        BY TimeAssumption DEF Expiry
      <4>3. QED
        BY <4>1, <4>2 DEF Request, Calls, HandlerOK
    <3>3. req' = [req EXCEPT ![r] = q]
      BY <1>1, <3>1 DEF TypeOK, CheckAlias, Request
    <3>4. QED
      BY <3>2, <3>3, SlotWrite
  <2>3. QED
    BY <1>1, <2>1, <2>2 DEF CheckAlias
<1>2. CASE ClaimAlias(r)
  <2>1. \A a \in {"bloom", "400"} : Goto(r, a) => SlotsOK'
    BY <1>2, GotoSlots DEF ClaimAlias, TypeOK, HandlerOK, Calls, Replies, Request
  <2>2. QED
    BY <1>2, <2>1 DEF ClaimAlias
<1>3. CASE CreateURL(r)
  <2>1. CASE Goto(r, "bloom")
    BY <1>3, <2>1, GotoSlots, ZenonT(40) DEF CreateURL, TypeOK, HandlerOK, Calls, Request
  <2>2. CASE \E h \in HashCodes :
               req' = [req EXCEPT ![r] = [@ EXCEPT !.at = "retry", !.code = h]]
    <3>1. PICK h \in HashCodes :
            req' = [req EXCEPT ![r] = [@ EXCEPT !.at = "retry", !.code = h]]
      BY <2>2
    <3> DEFINE q == [req[r] EXCEPT !.at = "retry", !.code = h]
    <3>2. q \in Request /\ HandlerOK(q)
      BY <1>3, CodesAssumption, ZenonT(40) DEF CreateURL, TypeOK, Request, Calls, HandlerOK
    <3>3. req' = [req EXCEPT ![r] = q]
      BY <1>3, <3>1 DEF TypeOK, CreateURL, Request
    <3>4. QED
      BY <3>2, <3>3, SlotWrite
  <2>3. QED
    BY <1>3, <2>1, <2>2 DEF CreateURL
<1>4. CASE RetryWithHash(r)
  <2>1. \A a \in {"bloom", "400"} : Goto(r, a) => SlotsOK'
    BY <1>4, GotoSlots DEF RetryWithHash, TypeOK, HandlerOK, Calls, Replies, Request
  <2>2. QED
    BY <1>4, <2>1 DEF RetryWithHash
<1>5. CASE BloomAdd(r)
  BY <1>5, GotoSlots DEF BloomAdd, TypeOK, HandlerOK, Calls, Request
<1>6. CASE BloomCheck(r)
  <2>1. \A a \in {"404", "get"} : Goto(r, a) => SlotsOK'
    BY <1>6, GotoSlots DEF BloomCheck, TypeOK, HandlerOK, Calls, Replies, Request
  <2>2. QED
    BY <1>6, <2>1 DEF BloomCheck
<1>7. CASE CacheGet(r)
  <2>1. CASE Goto(r, "query")
    BY <1>7, <2>1, GotoSlots DEF CacheGet, TypeOK, HandlerOK, Calls, Request
  <2>2. CASE /\ cache[req[r].code] # None
             /\ req' = [req EXCEPT ![r] =
                          [@ EXCEPT !.at = "302", !.long = cache[req[r].code].long]]
    <3> DEFINE q == [req[r] EXCEPT !.at = "302",
                                   !.long = cache[req[r].code].long]
    <3>1. cache[req[r].code] \in Entry
      BY <1>7, <2>2 DEF CacheGet, TypeOK, Request
    <3>2. q \in Request /\ HandlerOK(q)
      <4>1. /\ req[r] \in Request /\ HandlerOK(req[r])
            /\ req[r].at = "get"
            /\ cache[req[r].code].long \in LongURLs
        BY <1>7, <3>1 DEF CacheGet, TypeOK, Entry
      <4>2. QED
        BY <4>1 DEF Request, Replies, HandlerOK
    <3>3. req' = [req EXCEPT ![r] = q]
      BY <1>7, <2>2 DEF TypeOK, CacheGet, Request
    <3>4. QED
      BY <3>2, <3>3, SlotWrite
  <2>3. QED
    BY <1>7, <2>1, <2>2 DEF CacheGet
<1>8. CASE DbGet(r)
  <2> DEFINE c == req[r].code
  <2>1. CASE Goto(r, "404")
    BY <1>8, <2>1, GotoSlots DEF DbGet, TypeOK, HandlerOK, Replies, Request
  <2>2. CASE /\ Serveable(c)
             /\ req' = [req EXCEPT ![r] = [@ EXCEPT !.at = "ttl",
                                    !.long = db[c].long, !.exp = db[c].exp]]
    <3> DEFINE q == [req[r] EXCEPT !.at = "ttl", !.long = db[c].long,
                                   !.exp = db[c].exp]
    <3>1. db[c] \in Row
      BY <1>8, <2>2 DEF DbGet, Serveable, Visible, TypeOK, Request
    <3>2. q \in Request /\ HandlerOK(q)
      <4>1. /\ req[r] \in Request /\ HandlerOK(req[r])
            /\ req[r].at = "query"
            /\ db[c].long \in LongURLs /\ db[c].exp \in Expiry
        BY <1>8, <3>1 DEF DbGet, TypeOK, Row
      <4>2. QED
        BY <4>1 DEF Request, Calls, HandlerOK
    <3>3. req' = [req EXCEPT ![r] = q]
      BY <1>8, <2>2 DEF TypeOK, DbGet, Request
    <3>4. QED
      BY <3>2, <3>3, SlotWrite
  <2>3. QED
    BY <1>8, <2>1, <2>2 DEF DbGet
<1>9. CASE ChooseTTL(r)
  <2> DEFINE q == [req[r] EXCEPT !.at = "set", !.ttl = CacheTTLFor(req[r].exp),
                                 !.sends = Attempts]
  <2>1. req[r] \in Request /\ CacheTTLFor(req[r].exp) \in 1..CacheTTL
    BY <1>9, CacheTTLForType DEF ChooseTTL, TypeOK, Request
  <2>2. q \in Request /\ HandlerOK(q)
    <3>1. /\ HandlerOK(req[r]) /\ req[r].at = "ttl"
          /\ CacheTTLFor(req[r].exp) \in 0..CacheTTL
          /\ CacheTTLFor(req[r].exp) >= 1
      BY <1>9, <2>1, TimeAssumption DEF ChooseTTL, TypeOK
    <3>2. Attempts \in 0..Attempts
      BY AttemptsAssumption
    <3>3. QED
      BY <2>1, <3>1, <3>2 DEF Request, Calls, HandlerOK
  <2>3. req' = [req EXCEPT ![r] = q]
    BY <1>9 DEF TypeOK, ChooseTTL, Request
  <2>4. QED
    BY <2>2, <2>3, SlotWrite
<1>10. CASE CacheSet(r)
  <2>1. PICK a \in {"201", "302", "set"}, s \in 0..Attempts :
           req' = [req EXCEPT ![r] = AfterSet(req[r], a, s)]
           /\ (a = "201" => req[r].op = "shorten") /\ (a = "302" => req[r].op = "resolve")
    BY <1>10, CacheSetStep
  <2>2. req[r] \in Request /\ HandlerOK(req[r]) /\ req[r].at = "set"
    BY <1>10 DEF CacheSet, Waiting, TypeOK
  <2>3. AfterSet(req[r], a, s) \in Request /\ HandlerOK(AfterSet(req[r], a, s))
    BY <2>1, <2>2 DEF AfterSet, Request, Calls, Replies, HandlerOK
  <2>4. QED
    BY <2>1, <2>3, SlotWrite
<1>11. CASE DbDelete(r)
  <2>1. \A a \in {"invalidate", "500"} : Goto(r, a) => SlotsOK'
    BY <1>11, GotoSlots DEF DbDelete, TypeOK, HandlerOK, Calls, Replies, Request
  <2>2. UNCHANGED req => SlotsOK'
    BY DEF TypeOK, SlotsOK
  <2>3. QED
    BY <1>11, <2>1, <2>2 DEF DbDelete
<1>12. CASE CacheDelete(r)
  BY <1>12, GotoSlots DEF CacheDelete, TypeOK, HandlerOK, Replies, Request
<1>13. QED
  BY <1>1, <1>2, <1>3, <1>4, <1>5, <1>6, <1>7, <1>8, <1>9, <1>10, <1>11, <1>12
     DEF Serve

\* The slots after each of the other steps.
LEMMA StartSlots ==
    ASSUME TypeOK, NEW r \in Requests, Start(r)
    PROVE  SlotsOK'
<1>1. CASE ShortenStart(r)
  <2>1. PICK n \in Nodes, u \in Owners, l \in LongURLs :
          \/ \E c \in Aliases :
               Begin(r, [at |-> "check", op |-> "shorten", node |-> n,
                         user |-> u, code |-> c, long |-> l, exp |-> NoExpiry,
                         ttl |-> 0, sends |-> 0, seen |-> {}])
          \/ \E c \in GenCodes, e \in Lifetimes :
               Begin(r, [at |-> "create", op |-> "shorten", node |-> n,
                         user |-> u, code |-> c, long |-> l, exp |-> e,
                         ttl |-> 0, sends |-> 0, seen |-> {}])
    BY <1>1 DEF ShortenStart
  <2> DEFINE q(a, c, e) == [at |-> a, op |-> "shorten", node |-> n, user |-> u,
                            code |-> c, long |-> l, exp |-> e, ttl |-> 0,
                            sends |-> 0, seen |-> {}]
  <2>2. ASSUME NEW a \in {"check", "create"}, NEW c \in Codes,
               NEW e \in Lifetimes \cup {NoExpiry}
        PROVE  q(a, c, e) \in Request /\ HandlerOK(q(a, c, e))
    <3>1. e \in Expiry
      BY TimeAssumption DEF Expiry
    <3>2. 0 \in 0..CacheTTL /\ 0 \in 0..Attempts
      BY TimeAssumption, AttemptsAssumption
    <3>3. QED
      BY <3>1, <3>2 DEF Request, Calls, HandlerOK
  <2>3. CASE \E c \in Aliases : Begin(r, q("check", c, NoExpiry))
    BY <2>2, <2>3, CodesAssumption, BeginSlots
  <2>4. CASE \E c \in GenCodes, e \in Lifetimes : Begin(r, q("create", c, e))
    BY <2>2, <2>4, CodesAssumption, BeginSlots
  <2>5. QED
    BY <2>1, <2>3, <2>4
<1>2. CASE ResolveStart(r)
  <2> DEFINE q(n, c, s) == [at |-> "filter", op |-> "resolve", node |-> n,
                            user |-> NoUser, code |-> c, long |-> None,
                            exp |-> NoExpiry, ttl |-> 0, sends |-> 0, seen |-> s]
  <2>1. PICK n \in Nodes, c \in Codes, s \in SUBSET Flags : Begin(r, q(n, c, s))
    BY <1>2, Zenon DEF ResolveStart
  <2>2. q(n, c, s) \in Request /\ HandlerOK(q(n, c, s))
    BY TimeAssumption, AttemptsAssumption DEF Request, Calls, Owners, Expiry, HandlerOK
  <2>3. QED
    BY <2>1, <2>2, BeginSlots
<1>3. CASE DeleteStart(r)
  <2> DEFINE q(n, u, c, s) == [at |-> "update", op |-> "delete", node |-> n,
                               user |-> u, code |-> c, long |-> None,
                               exp |-> NoExpiry, ttl |-> 0, sends |-> 0, seen |-> s]
  <2>1. PICK n \in Nodes, u \in Users, c \in Codes, s \in SUBSET Flags :
          Begin(r, q(n, u, c, s))
    BY <1>3, Zenon DEF DeleteStart
  <2>2. q(n, u, c, s) \in Request /\ HandlerOK(q(n, u, c, s))
    BY TimeAssumption, AttemptsAssumption DEF Request, Calls, Owners, Expiry, HandlerOK
  <2>3. QED
    BY <2>1, <2>2, BeginSlots
<1>4. QED
  BY <1>1, <1>2, <1>3 DEF Start

LEMMA FinishSlots ==
    ASSUME TypeOK, NEW r \in Requests, Finish(r)
    PROVE  SlotsOK'
BY DEF Finish, TypeOK, SlotsOK, HandlerOK

LEMMA CrashSlots ==
    ASSUME TypeOK, NEW n \in Nodes, Crash(n)
    PROVE  SlotsOK'
BY DEF Crash, TypeOK, SlotsOK, HandlerOK

LEMMA TickSlots ==
    ASSUME TypeOK, Tick
    PROVE  SlotsOK'
<1> DEFINE q(r) == [req[r] EXCEPT !.exp = Elapse(req[r].exp)]
<1>1. \A r \in Requests :
        req[r] # None => req[r] \in Request /\ HandlerOK(req[r])
  BY DEF TypeOK
<1>2. \A r \in Requests : req[r] # None => q(r) \in Request /\ HandlerOK(q(r))
  <2>1. TAKE r \in Requests
  <2>2. HAVE req[r] # None
  <2>3. Elapse(req[r].exp) \in Expiry
    BY <1>1, <2>2, ElapseType DEF Request
  <2>4. QED
    BY <1>1, <2>2, <2>3 DEF Request, HandlerOK
<1>3. req' = [r \in Requests |-> IF req[r] = None THEN None ELSE q(r)]
  BY DEF Tick
<1>4. QED
  BY <1>2, <1>3 DEF SlotsOK, HandlerOK

-----------------------------------------------------------------------------
(* Type correctness *)

LEMMA TypeStep ==
    ASSUME TypeOK, Next
    PROVE  TypeOK'
<1>1. SlotsOK'
  BY ServeSlots, StartSlots, FinishSlots, CrashSlots, TickSlots
     DEF Next, CacheEvict, RedisRestart, SlotsOK, TypeOK, HandlerOK
<1>2. db' \in [Codes -> Row \cup {None}]
  <2>1. ASSUME NEW r \in Requests, Serve(r)
        PROVE  db' \in [Codes -> Row \cup {None}]
    <3>1. CASE ClaimAlias(r) \/ CreateURL(r) \/ RetryWithHash(r)
      <4>1. req[r] \in Request /\ req[r].long \in LongURLs
        BY <3>1 DEF ClaimAlias, CreateURL, RetryWithHash, Waiting, TypeOK, HandlerOK
      <4>2. InsertOK(req[r]) \/ InsertError(req[r])
        BY <3>1 DEF ClaimAlias, CreateURL, RetryWithHash
      <4>3. QED
        BY <4>1, <4>2, InsertType DEF TypeOK
    <3>2. CASE DbDelete(r)
      BY <3>2, DeactivateType DEF DbDelete, TypeOK
    <3>3. QED
      BY <2>1, <3>1, <3>2 DEF Serve, CheckAlias, BloomAdd, BloomCheck, CacheGet,
         DbGet, ChooseTTL, CacheSet, CacheDelete, TypeOK
  <2>2. CASE Tick
    <3>1. \A c \in Codes : db[c] # None => [db[c] EXCEPT !.exp = Elapse(@)] \in Row
      BY ElapseType DEF TypeOK, Row
    <3>2. QED
      BY <2>2, <3>1 DEF Tick
  <2>3. QED
    BY <2>1, <2>2 DEF Next, Start, ShortenStart, ResolveStart, DeleteStart, Finish,
       Crash, CacheEvict, RedisRestart, TypeOK
<1>3. cache' \in [Codes -> Entry \cup {None}]
  <2>1. ASSUME NEW r \in Requests, Serve(r)
        PROVE  cache' \in [Codes -> Entry \cup {None}]
    <3>1. CASE CacheSet(r)
      <4>1. req[r] \in Request /\ req[r].long \in LongURLs /\ req[r].ttl >= 1
        BY <3>1 DEF CacheSet, Waiting, TypeOK, HandlerOK
      <4>2. QED
        BY <3>1, <4>1, SetURLType DEF CacheSet, TypeOK
    <3>2. CASE CacheDelete(r)
      BY <3>2 DEF CacheDelete, InvalidateURL, TypeOK
    <3>3. QED
      BY <2>1, <3>1, <3>2 DEF Serve, CheckAlias, ClaimAlias, CreateURL,
         RetryWithHash, BloomAdd, BloomCheck, CacheGet, DbGet, ChooseTTL,
         DbDelete, TypeOK
  <2>2. CASE Tick
    <3>1. \A c \in Codes : Age(cache[c]) \in Entry \cup {None}
      BY TimeAssumption DEF TypeOK, Age, Entry
    <3>2. QED
      BY <2>2, <3>1 DEF Tick
  <2>3. QED
    BY <2>1, <2>2 DEF Next, Start, ShortenStart, ResolveStart, DeleteStart, Finish,
       Crash, CacheEvict, RedisRestart, TypeOK
<1>4. SetsOK'
  <2> USE DEF SetsOK
  <2>1. ASSUME NEW r \in Requests, Serve(r) PROVE SetsOK'
    <3>1. req[r] # None => req[r].code \in Codes
      BY DEF TypeOK, Request
    <3>2. CASE BloomAdd(r)
      BY <3>1, <3>2 DEF BloomAdd, Waiting, LocalAdd, RedisAdd, TypeOK
    <3>3. CASE CacheSet(r)
      BY <3>1, <3>3 DEF CacheSet, Waiting, TypeOK
    <3>4. CASE CacheDelete(r)
      BY <3>1, <3>4 DEF CacheDelete, Waiting, TypeOK
    <3>5. QED
      BY <2>1, <3>2, <3>3, <3>4 DEF Serve, CheckAlias, ClaimAlias, CreateURL,
         RetryWithHash, BloomCheck, CacheGet, DbGet, ChooseTTL, DbDelete, TypeOK
  <2>2. QED
    BY <2>1 DEF Next, Start, ShortenStart, ResolveStart, DeleteStart, Finish,
       Crash, CacheEvict, RedisRestart, Tick, TypeOK
<1>5. QED
  BY <1>1, <1>2, <1>3, <1>4 DEF TypeOK, SlotsOK, SetsOK

\* Whatever fails, every variable keeps its type and every request is at a
\* step of its own handler, with the values that step needs.
THEOREM TypeCorrect == Spec => []TypeOK
<1>1. Init => TypeOK
  BY TypeInit
<1>2. TypeOK /\ [Next]_vars => TypeOK'
  <2>1. CASE UNCHANGED vars
    BY <2>1 DEF vars, TypeOK, HandlerOK
  <2>2. QED
    BY <2>1, TypeStep
<1>3. QED
  BY <1>1, <1>2, PTL DEF Spec

-----------------------------------------------------------------------------
(* The table is written once *)

\* A row stays, and keeps its target and its owner; it is never reactivated.
RowKept(c) ==
    db[c] # None =>
        /\ db'[c] # None
        /\ db'[c].long = db[c].long
        /\ db'[c].owner = db[c].owner
        /\ db'[c].active => db[c].active

\* The same between two ticks, when its expiry does not move either.
RowSame(c) == RowKept(c) /\ (db[c] # None => db'[c].exp = db[c].exp)

LEMMA InsertKeeps ==
    ASSUME TypeOK, NEW q, InsertOK(q) \/ InsertError(q), NEW c \in Codes
    PROVE  RowSame(c)
BY DEF TypeOK, InsertOK, InsertError, Insertable, RowSame, RowKept

LEMMA DeactivateKeeps ==
    ASSUME TypeOK, NEW q, Deactivate(q), NEW c \in Codes
    PROVE  RowSame(c)
<1> DEFINE off == [db[c] EXCEPT !.active = FALSE]
<1>1. db'[c] = db[c] \/ (db[c] # None /\ db'[c] = off)
  <2>1. db \in [Codes -> Row \cup {None}]
    BY DEF TypeOK
  <2>2. CASE db' = db
    BY <2>2
  <2>3. CASE db[q.code] # None /\ db' = [db EXCEPT ![q.code].active = FALSE]
    BY <2>1, <2>3
  <2>4. QED
    BY <2>2, <2>3 DEF Deactivate
<1>2. db[c] # None => /\ off \in Row
                      /\ off.long = db[c].long
                      /\ off.owner = db[c].owner
                      /\ off.exp = db[c].exp
                      /\ off.active = FALSE
  BY DEF TypeOK, Row
<1>3. QED
  BY <1>1, <1>2, NoneAssumption DEF RowSame, RowKept

LEMMA ServeKeeps ==
    ASSUME TypeOK, NEW r \in Requests, Serve(r), NEW c \in Codes
    PROVE  RowSame(c)
<1>1. CASE ClaimAlias(r) \/ CreateURL(r) \/ RetryWithHash(r)
  BY <1>1, InsertKeeps DEF ClaimAlias, CreateURL, RetryWithHash
<1>2. CASE DbDelete(r)
  BY <1>2, DeactivateKeeps DEF DbDelete, RowSame, RowKept
<1>3. CASE UNCHANGED db
  BY <1>3 DEF RowSame, RowKept
<1>4. QED
  BY <1>1, <1>2, <1>3 DEF Serve, CheckAlias, BloomAdd, BloomCheck, CacheGet,
     DbGet, ChooseTTL, CacheSet, CacheDelete

LEMMA TickKeeps ==
    ASSUME TypeOK, Tick, NEW c \in Codes
    PROVE  /\ RowKept(c)
           /\ db[c] # None => db'[c].exp = Elapse(db[c].exp)
<1>1. db[c] # None => [db[c] EXCEPT !.exp = Elapse(@)] \in Row
  BY ElapseType DEF TypeOK, Row
<1>2. QED
  BY <1>1, NoneAssumption DEF Tick, TypeOK, RowKept, Row

LEMMA StepKeeps ==
    ASSUME TypeOK, [Next]_vars, NEW c \in Codes
    PROVE  RowKept(c)
<1>1. CASE UNCHANGED db
  BY <1>1 DEF RowKept
<1>2. QED
  BY <1>1, ServeKeeps, TickKeeps DEF Next, Start, ShortenStart, ResolveStart,
     DeleteStart, Finish, Crash, CacheEvict, RedisRestart, RowSame, vars

-----------------------------------------------------------------------------
(* Handlers hold what the table says *)

\* A request that holds a row agrees with it.
HolderAt(r, c) ==
    Holds(req[r], c) =>
        /\ db[c] # None
        /\ db[c].long = req[r].long
        /\ req[r].op = "shorten" => db[c].owner = req[r].user
        /\ req[r].op = "shorten" => db[c].exp = req[r].exp

\* The other requests: their slots do not change, and rows are kept.
LEMMA HolderOther ==
    ASSUME TypeOK, NEW r \in Requests, NEW c \in Codes, HolderAt(r, c),
           req'[r] = req[r] \/ req'[r] = None, RowSame(c)
    PROVE  HolderAt(r, c)'
BY DEF HolderAt, Holds, RowSame, RowKept

\* The request that moves.
LEMMA HolderSelf ==
    ASSUME TypeOK, CacheMirrorsDb, NEW r \in Requests, Serve(r),
           NEW c \in Codes, HolderAt(r, c)
    PROVE  HolderAt(r, c)'
<1> USE DEF Waiting, Goto
<1>1. req \in [Requests -> Request \cup {None}] /\ (req[r] # None => HandlerOK(req[r]))
  BY DEF TypeOK
<1>2. RowSame(c)
  BY ServeKeeps
<1>3. CASE CheckAlias(r) \/ BloomCheck(r) \/ DbDelete(r) \/ CacheDelete(r)
  <2>1. ~Holds(req'[r], c)
    BY <1>1, <1>3, ZenonT(40) DEF CheckAlias, BloomCheck, DbDelete, CacheDelete, Holds, Request
  <2>2. QED
    BY <2>1 DEF HolderAt
<1>4. CASE ClaimAlias(r) \/ CreateURL(r) \/ RetryWithHash(r)
  <2>1. req[r] \in Request /\ req[r].op = "shorten" /\ req[r].long \in LongURLs
    BY <1>1, <1>4 DEF ClaimAlias, CreateURL, RetryWithHash, HandlerOK
  <2>2. CASE InsertOK(req[r]) /\ req' = [req EXCEPT ![r].at = "bloom"]
    <3>1. RowOf(req[r]) \in Row
      BY <2>1 DEF RowOf, Row, Request
    <3>2. db'[req[r].code] = RowOf(req[r])
      BY <2>1, <2>2 DEF InsertOK, TypeOK, Request
    <3>3. QED
      BY <1>1, <2>1, <2>2, <3>1, <3>2, NoneAssumption
         DEF HolderAt, Holds, RowOf, Request
  <2>3. CASE req'[r].at \in {"400", "retry"}
    BY <2>3 DEF HolderAt, Holds
  <2>4. QED
    BY <1>1, <1>4, <2>1, <2>2, <2>3 DEF ClaimAlias, CreateURL, RetryWithHash, Request
<1>5. CASE BloomAdd(r) \/ ChooseTTL(r) \/ CacheSet(r)
  <2>1. Holds(req[r], req[r].code)
    BY <1>1, <1>5 DEF BloomAdd, ChooseTTL, CacheSet, Holds, HandlerOK
  <2>2. /\ req'[r].code = req[r].code
        /\ req'[r].long = req[r].long
        /\ req'[r].op = req[r].op
        /\ req'[r].user = req[r].user
        /\ req'[r].exp = req[r].exp
    <3>1. req[r] \in Request
      BY <1>1, <1>5 DEF BloomAdd, ChooseTTL, CacheSet
    <3>2. CASE BloomAdd(r)
      BY <1>1, <3>1, <3>2 DEF BloomAdd, Request
    <3>3. CASE ChooseTTL(r)
      BY <1>1, <3>1, <3>3 DEF ChooseTTL, Request
    <3>4. CASE CacheSet(r)
      <4>1. PICK at \in {"201", "302", "set"}, sends \in 0..Attempts :
               req' = [req EXCEPT ![r] = AfterSet(req[r], at, sends)]
        BY <1>1, <3>4, CacheSetStep
      <4>2. QED
        BY <1>1, <3>1, <4>1 DEF AfterSet, Request
    <3>5. QED
      BY <1>5, <3>2, <3>3, <3>4
  <2>3. db' = db
    BY <1>5 DEF BloomAdd, ChooseTTL, CacheSet
  <2>4. QED
    BY <2>1, <2>2, <2>3 DEF HolderAt, Holds
<1>6. CASE CacheGet(r)
  <2>1. req[r] \in Request /\ req[r].op = "resolve" /\ db' = db
    BY <1>1, <1>6 DEF CacheGet, HandlerOK
  <2>2. CASE req' = [req EXCEPT ![r].at = "query"]
    BY <1>1, <2>1, <2>2 DEF HolderAt, Holds, Request
  <2>3. CASE /\ cache[req[r].code] # None
             /\ req' = [req EXCEPT ![r] =
                          [@ EXCEPT !.at = "302", !.long = cache[req[r].code].long]]
    <3>1. /\ req'[r].code = req[r].code
          /\ req'[r].op = "resolve"
          /\ req'[r].long = cache[req[r].code].long
      BY <1>1, <2>1, <2>3 DEF Request
    <3>2. QED
      BY <2>1, <2>3, <3>1 DEF HolderAt, Holds, CacheMirrorsDb
  <2>4. QED
    BY <1>6, <2>2, <2>3 DEF CacheGet
<1>7. CASE DbGet(r)
  <2>1. req[r] \in Request /\ req[r].op = "resolve" /\ db' = db
    BY <1>1, <1>7 DEF DbGet, HandlerOK
  <2> DEFINE d == req[r].code
  <2>2. CASE req' = [req EXCEPT ![r].at = "404"]
    BY <1>1, <2>1, <2>2 DEF HolderAt, Holds, Request
  <2>3. CASE /\ Serveable(d)
             /\ req' = [req EXCEPT ![r] = [@ EXCEPT !.at = "ttl",
                                  !.long = db[d].long, !.exp = db[d].exp]]
    <3>1. /\ req'[r].code = d
          /\ req'[r].op = "resolve"
          /\ req'[r].long = db[d].long
      BY <1>1, <2>1, <2>3 DEF Request
    <3>2. QED
      BY <2>1, <2>3, <3>1 DEF HolderAt, Holds, Serveable, Visible
  <2>4. QED
    BY <1>7, <2>2, <2>3 DEF DbGet
<1>8. QED
  BY <1>3, <1>4, <1>5, <1>6, <1>7 DEF Serve

\* A step of one request leaves the other slots alone.
LEMMA OtherSlots ==
    ASSUME TypeOK, NEW r \in Requests, Serve(r) \/ Start(r) \/ Finish(r),
           NEW s \in Requests, s # r
    PROVE  req'[s] = req[s]
BY DEF TypeOK, Serve, Start, Finish, ShortenStart, ResolveStart, DeleteStart,
   CheckAlias, ClaimAlias, CreateURL, RetryWithHash, BloomAdd, BloomCheck,
   CacheGet, DbGet, ChooseTTL, CacheSet, DbDelete, CacheDelete, Begin, Goto

\* A tick leaves everything of a request but its expiry.
LEMMA TickSlot ==
    ASSUME TypeOK, Tick, NEW r \in Requests
    PROVE  /\ req[r] = None <=> req'[r] = None
           /\ req[r] # None => /\ req'[r].at = req[r].at
                               /\ req'[r].op = req[r].op
                               /\ req'[r].code = req[r].code
                               /\ req'[r].long = req[r].long
                               /\ req'[r].user = req[r].user
                               /\ req'[r].exp = Elapse(req[r].exp)
<1> DEFINE q == [req[r] EXCEPT !.exp = Elapse(req[r].exp)]
<1>1. req'[r] = IF req[r] = None THEN None ELSE q
  BY DEF Tick
<1>2. ASSUME req[r] # None
      PROVE  /\ q \in Request
             /\ q.at = req[r].at /\ q.op = req[r].op /\ q.code = req[r].code
             /\ q.long = req[r].long /\ q.user = req[r].user
             /\ q.exp = Elapse(req[r].exp)
  <2>1. req[r] \in Request
    BY <1>2 DEF TypeOK
  <2>2. Elapse(req[r].exp) \in Expiry
    BY <2>1, ElapseType DEF Request
  <2>3. QED
    BY <2>1, <2>2 DEF Request
<1>3. QED
  BY <1>1, <1>2, NoneAssumption

\* A request that starts holds nothing yet.
LEMMA StartHoldsNothing ==
    ASSUME TypeOK, NEW r \in Requests, Start(r)
    PROVE  /\ \A c \in Codes : ~Holds(req'[r], c)
           /\ ~Winner(req'[r])
           /\ req'[r].at \notin Replies
<1>1. req'[r].at \in {"check", "create", "filter", "update"}
  BY DEF TypeOK, Start, ShortenStart, ResolveStart, DeleteStart, Begin
<1>2. QED
  BY <1>1 DEF Holds, Winner, Replies

LEMMA HolderStep ==
    ASSUME TypeOK, CacheMirrorsDb, HolderHasRow, Next
    PROVE  HolderHasRow'
<1>1. SUFFICES ASSUME NEW r \in Requests, NEW c \in Codes
               PROVE  HolderAt(r, c)'
  BY DEF HolderHasRow, HolderAt
<1>2. HolderAt(r, c)
  BY DEF HolderHasRow, HolderAt
<1>3. ASSUME NEW s \in Requests, Serve(s) PROVE HolderAt(r, c)'
  <2>1. CASE s = r
    BY <1>2, <1>3, <2>1, HolderSelf
  <2>2. CASE s # r
    BY <1>2, <1>3, <2>2, OtherSlots, ServeKeeps, HolderOther
  <2>3. QED
    BY <2>1, <2>2
<1>4. ASSUME NEW s \in Requests, Start(s) PROVE HolderAt(r, c)'
  <2>1. RowSame(c)
    BY <1>4 DEF Start, ShortenStart, ResolveStart, DeleteStart, RowSame, RowKept
  <2>2. CASE s = r
    BY <1>4, <2>2, StartHoldsNothing DEF HolderAt
  <2>3. CASE s # r
    BY <1>2, <1>4, <2>1, <2>3, OtherSlots, HolderOther
  <2>4. QED
    BY <2>2, <2>3
<1>5. CASE Tick
  BY <1>2, <1>5, TickSlot, TickKeeps DEF HolderAt, Holds, RowKept
<1>6. ASSUME UNCHANGED db, req'[r] = req[r] \/ req'[r] = None
      PROVE  HolderAt(r, c)'
  BY <1>2, <1>6 DEF HolderAt, Holds
<1>7. ASSUME NEW s \in Requests, Finish(s) PROVE HolderAt(r, c)'
  BY <1>6, <1>7 DEF Finish, TypeOK
<1>8. ASSUME NEW n \in Nodes, Crash(n) PROVE HolderAt(r, c)'
  BY <1>6, <1>8 DEF Crash
<1>9. QED
  BY <1>3, <1>4, <1>5, <1>6, <1>7, <1>8 DEF Next, CacheEvict, RedisRestart

-----------------------------------------------------------------------------
(* The cache mirrors the table *)

LEMMA MirrorStep ==
    ASSUME TypeOK, HolderHasRow, CacheMirrorsDb, [Next]_vars
    PROVE  CacheMirrorsDb'
<1>1. SUFFICES ASSUME NEW c \in Codes, cache'[c] # None
               PROVE  db'[c] # None /\ db'[c].long = cache'[c].long
  BY DEF CacheMirrorsDb
<1>2. RowKept(c)
  BY StepKeeps
<1>3. CASE cache[c] # None /\ cache'[c].long = cache[c].long
  BY <1>2, <1>3 DEF CacheMirrorsDb, RowKept
<1>4. ASSUME NEW r \in Requests, CacheSet(r)
      PROVE  db'[c] # None /\ db'[c].long = cache'[c].long
  <2>1. CASE c # req[r].code
    BY <1>3, <1>4, <1>1, <2>1 DEF CacheSet, SetURL, TypeOK
  <2>2. CASE c = req[r].code
    <3>1. Holds(req[r], c)
      BY <1>4, <2>2 DEF CacheSet, Waiting, Holds, TypeOK, HandlerOK
    <3>2. db[c] # None /\ db[c].long = req[r].long /\ db' = db
      BY <1>4, <3>1 DEF HolderHasRow, CacheSet
    <3>3. CASE UNCHANGED cache
      BY <1>1, <1>3, <3>3
    <3>4. CASE cache' = [cache EXCEPT ![c] = [long |-> req[r].long, ttl |-> req[r].ttl]]
      BY <3>2, <3>4 DEF TypeOK
    <3>5. QED
      BY <1>4, <2>2, <3>3, <3>4 DEF CacheSet, SetURL
  <2>3. QED
    BY <2>1, <2>2
<1>5. CASE Tick
  <2>1. cache'[c] = Age(cache[c])
    BY <1>5 DEF Tick
  <2>2. cache[c] # None => [cache[c] EXCEPT !.ttl = @ - 1].long = cache[c].long
    BY DEF TypeOK, Entry
  <2>3. QED
    BY <1>1, <1>3, <2>1, <2>2 DEF Age
<1>6. ASSUME cache'[c] = cache[c] \/ cache'[c] = None
      PROVE  db'[c] # None /\ db'[c].long = cache'[c].long
  BY <1>1, <1>3, <1>6
<1>7. ASSUME NEW r \in Requests, CacheDelete(r)
      PROVE  db'[c] # None /\ db'[c].long = cache'[c].long
  BY <1>6, <1>7 DEF CacheDelete, InvalidateURL, TypeOK
<1>8. CASE RedisRestart \/ \E d \in Codes : CacheEvict(d)
  BY <1>6, <1>8 DEF RedisRestart, CacheEvict, TypeOK
<1>9. CASE UNCHANGED cache
  BY <1>6, <1>9
<1>10. QED
  BY <1>4, <1>5, <1>7, <1>8, <1>9 DEF Next, Start, Serve, ShortenStart,
     ResolveStart, DeleteStart, CheckAlias, ClaimAlias, CreateURL, RetryWithHash,
     BloomAdd, BloomCheck, CacheGet, DbGet, ChooseTTL, DbDelete, Finish, Crash, vars

-----------------------------------------------------------------------------
(* One creator *)

\* A request becomes the creator of a code by inserting the code's row.
LEMMA NewWinner ==
    ASSUME TypeOK, NEW r \in Requests, Serve(r), Winner(req'[r])
    PROVE  /\ req'[r].code = req[r].code
           /\ Winner(req[r]) \/ Insertable(req[r].code)
<1> USE DEF Waiting, Goto
<1>1. req \in [Requests -> Request \cup {None}] /\ (req[r] # None => HandlerOK(req[r]))
  BY DEF TypeOK
<1>2. CASE ClaimAlias(r) \/ CreateURL(r) \/ RetryWithHash(r)
  <2>1. req[r] \in Request
    BY <1>1, <1>2 DEF ClaimAlias, CreateURL, RetryWithHash
  <2>2. CASE InsertOK(req[r]) /\ req' = [req EXCEPT ![r].at = "bloom"]
    BY <1>1, <2>1, <2>2 DEF InsertOK, Request
  <2>3. CASE req'[r].at \in {"400", "retry"}
    BY <2>3 DEF Winner
  <2>4. QED
    BY <1>1, <1>2, <2>1, <2>2, <2>3 DEF ClaimAlias, CreateURL, RetryWithHash, Request
<1>3. CASE BloomAdd(r)
  BY <1>1, <1>3 DEF BloomAdd, Winner, Request, HandlerOK
<1>4. CASE ChooseTTL(r)
  BY <1>1, <1>4 DEF ChooseTTL, Winner, Request
<1>5. CASE CacheSet(r)
  BY <1>1, <1>5 DEF CacheSet, Winner, Request
<1>6. CASE CacheGet(r)
  <2>1. req'[r].at \in {"302", "query"}
    BY <1>1, <1>6 DEF CacheGet, Request
  <2>2. QED
    BY <2>1 DEF Winner
<1>7. CASE DbGet(r)
  <2>1. /\ req[r] \in Request /\ req[r].op = "resolve"
    BY <1>1, <1>7 DEF DbGet, HandlerOK
  <2>2. req'[r].op = "resolve"
    BY <1>1, <1>7, <2>1 DEF DbGet, Request
  <2>3. QED
    BY <2>2 DEF Winner
<1>8. CASE CheckAlias(r) \/ BloomCheck(r) \/ DbDelete(r) \/ CacheDelete(r)
  <2>1. req'[r].at \in {"400", "claim", "404", "get", "update", "invalidate", "500", "200"}
    <3>1. CASE CheckAlias(r) \/ BloomCheck(r)
      BY <1>1, <3>1 DEF CheckAlias, BloomCheck, Request
    <3>2. CASE DbDelete(r) \/ CacheDelete(r)
      BY <1>1, <3>2 DEF DbDelete, CacheDelete, Request
    <3>3. QED
      BY <1>8, <3>1, <3>2
  <2>2. QED
    BY <2>1 DEF Winner
<1>9. QED
  BY <1>2, <1>3, <1>4, <1>5, <1>6, <1>7, <1>8 DEF Serve

LEMMA CreatorStep ==
    ASSUME TypeOK, HolderHasRow, OneCreator, [Next]_vars
    PROVE  OneCreator'
<1>1. SUFFICES ASSUME NEW r \in Requests, NEW s \in Requests, r # s,
                      Winner(req'[r]), Winner(req'[s]),
                      req'[r].code = req'[s].code
               PROVE  FALSE
  BY DEF OneCreator, Winner
\* No request wins a code that another one has won.
<1>2. ASSUME NEW t \in Requests, NEW u \in Requests, t # u, Serve(t),
             Winner(req'[t]), Winner(req'[u]), req'[t].code = req'[u].code
      PROVE  FALSE
  <2>1. req'[u] = req[u] /\ Winner(req[u])
    BY <1>2, OtherSlots
  <2>2. /\ req[t].code = req[u].code
        /\ Winner(req[t]) \/ Insertable(req[t].code)
    BY <1>2, <2>1, NewWinner
  <2>3. ~Winner(req[t])
    BY <1>2, <2>1, <2>2 DEF OneCreator
  <2>4. req[u].code \in Codes /\ Holds(req[u], req[u].code)
    BY <2>1 DEF TypeOK, Winner, Holds, Request
  <2>5. QED
    BY <2>2, <2>3, <2>4 DEF HolderHasRow, Insertable
<1>3. ASSUME \A t \in {r, s} : /\ Winner(req[t])
                              /\ req'[t].code = req[t].code
      PROVE  FALSE
  BY <1>1, <1>3 DEF OneCreator
<1>4. ASSUME NEW t \in Requests, Serve(t) PROVE FALSE
  <2>1. CASE t \in {r, s}
    BY <1>1, <1>2, <1>4, <2>1
  <2>2. CASE t \notin {r, s}
    BY <1>1, <1>3, <1>4, <2>2, OtherSlots
  <2>3. QED
    BY <2>1, <2>2
<1>5. ASSUME NEW t \in Requests, Start(t) PROVE FALSE
  <2>1. t \notin {r, s}
    BY <1>1, <1>5, StartHoldsNothing
  <2>2. QED
    BY <1>1, <1>3, <1>5, <2>1, OtherSlots
<1>6. CASE Tick
  BY <1>1, <1>3, <1>6, TickSlot DEF Winner
<1>7. ASSUME \A t \in {r, s} : req'[t] = req[t] \/ req'[t] = None
      PROVE  FALSE
  BY <1>1, <1>3, <1>7 DEF Winner
<1>8. ASSUME NEW t \in Requests, Finish(t) PROVE FALSE
  BY <1>7, <1>8 DEF Finish, TypeOK
<1>9. ASSUME NEW n \in Nodes, Crash(n) PROVE FALSE
  BY <1>7, <1>9 DEF Crash
<1>10. QED
  BY <1>4, <1>5, <1>6, <1>7, <1>8, <1>9 DEF Next, CacheEvict, RedisRestart, vars

-----------------------------------------------------------------------------
(* The invariants *)

\* CacheMirrorsDb needs HolderHasRow, since the cache is filled from what a
\* handler read earlier; HolderHasRow needs CacheMirrorsDb, since a hit becomes
\* what a handler holds; OneCreator needs HolderHasRow, since the row of the
\* first winner is what stops the second.
IInv == TypeOK /\ HolderHasRow /\ CacheMirrorsDb /\ OneCreator

LEMMA IInvInit == Init => IInv
<1>1. Init => HolderHasRow /\ CacheMirrorsDb /\ OneCreator
  BY DEF Init, HolderHasRow, Holds, CacheMirrorsDb, OneCreator, Winner
<1>2. QED
  BY <1>1, TypeInit DEF IInv

LEMMA IInvStep == IInv /\ [Next]_vars => IInv'
<1>1. SUFFICES ASSUME IInv, [Next]_vars PROVE IInv'
  OBVIOUS
<1>2. TypeOK'
  <2>1. CASE UNCHANGED vars
    BY <1>1, <2>1 DEF IInv, vars, TypeOK, HandlerOK
  <2>2. QED
    BY <1>1, <2>1, TypeStep DEF IInv
<1>3. HolderHasRow'
  <2>1. CASE UNCHANGED vars
    BY <1>1, <2>1 DEF IInv, vars, HolderHasRow, Holds
  <2>2. QED
    BY <1>1, <2>1, HolderStep DEF IInv
<1>4. CacheMirrorsDb'
  BY <1>1, MirrorStep DEF IInv
<1>5. OneCreator'
  BY <1>1, CreatorStep DEF IInv
<1>6. QED
  BY <1>2, <1>3, <1>4, <1>5 DEF IInv

LEMMA Invariance == Spec => []IInv
BY IInvInit, IInvStep, PTL DEF Spec

\* What a handler holds agrees with the row of its code at every later moment.
THEOREM HoldersCorrect == Spec => []HolderHasRow
<1>1. IInv => HolderHasRow
  BY DEF IInv
<1>2. QED
  BY <1>1, Invariance, PTL

\* The cache never binds a code to another target than the table does, with
\* any number of nodes and with every call free to fail.
THEOREM CacheCorrect == Spec => []CacheMirrorsDb
<1>1. IInv => CacheMirrorsDb
  BY DEF IInv
<1>2. QED
  BY <1>1, Invariance, PTL

\* No two requests create the same code.
THEOREM CreatorsCorrect == Spec => []OneCreator
<1>1. IInv => OneCreator
  BY DEF IInv
<1>2. QED
  BY <1>1, Invariance, PTL

-----------------------------------------------------------------------------
(* The URL service implements the URL map *)


\* The table, and what a client has been told, as UrlMap sees them.
LinkAt(c) == IF db[c] = None THEN None ELSE LinkOf(db[c])
AnswerAt(r) == AnswerOf(req[r])

LEMMA MapStutter ==
    ASSUME \A c \in Codes : LinkAt(c)' = LinkAt(c),
           \A r \in Requests : AnswerAt(r)' = AnswerAt(r)
    PROVE  UNCHANGED Abstract!vars
BY DEF Abstract!vars, LinkAt, AnswerAt

\* An insert is a registration, and tells nobody yet.
LEMMA InsertMaps ==
    ASSUME TypeOK, NEW r \in Requests,
           ClaimAlias(r) \/ CreateURL(r) \/ RetryWithHash(r)
    PROVE  [Abstract!Next]_(Abstract!vars)
<1> DEFINE q == req[r]
<1>1. q \in Request /\ q.long \in LongURLs /\ AnswerAt(r) = None
  BY DEF ClaimAlias, CreateURL, RetryWithHash, Waiting, TypeOK, HandlerOK,
     AnswerAt, AnswerOf
<1>2. AnswerAt(r)' = None
  BY ZenonT(40) DEF ClaimAlias, CreateURL, RetryWithHash, Waiting, Goto, TypeOK, Request,
     AnswerAt, AnswerOf
<1>3. \A s \in Requests : AnswerAt(s)' = AnswerAt(s)
  BY <1>1, <1>2, OtherSlots DEF Serve, AnswerAt
<1>4. CASE InsertOK(q)
  <2>1. RowOf(q) \in Row /\ q.code \in Codes /\ q.user \in Owners
    BY <1>1 DEF RowOf, Row, Request
  <2>2. /\ db[q.code] = None
        /\ db' = [db EXCEPT ![q.code] = RowOf(q)]
    BY <1>4 DEF InsertOK, Insertable
  <2> DEFINE new == [long |-> q.long, owner |-> q.user, active |-> TRUE]
  <2>3. \A c \in Codes : LinkAt(c)' = IF c = q.code THEN new ELSE LinkAt(c)
    BY <2>1, <2>2, NoneAssumption DEF TypeOK, LinkAt, LinkOf, RowOf
  <2>4. PICK c \in Codes, l \in LongURLs, u \in Users \cup {NoUser} :
          c = q.code /\ l = q.long /\ u = q.user
    BY <1>1, <2>1 DEF Owners
  <2>5. Abstract!Register(c, l, u)
    BY <1>3, <2>1, <2>2, <2>3, <2>4 DEF Abstract!Register, LinkAt, AnswerAt
  <2>6. QED
    BY <2>5 DEF Abstract!Next
<1>5. CASE UNCHANGED db
  BY <1>3, <1>5, MapStutter DEF LinkAt
<1>6. QED
  BY <1>4, <1>5 DEF ClaimAlias, CreateURL, RetryWithHash, InsertError

LinkSet == [long: LongURLs, owner: Owners, active: BOOLEAN]

LEMMA LinkOff ==
    ASSUME NEW x \in LinkSet, NEW y \in LinkSet,
           y.long = x.long, y.owner = x.owner, y.active = FALSE
    PROVE  y = [x EXCEPT !.active = FALSE]
<1> DEFINE z == [x EXCEPT !.active = FALSE]
<1>1. z \in LinkSet /\ z.long = x.long /\ z.owner = x.owner /\ z.active = FALSE
  BY DEF LinkSet
<1> HIDE DEF z
<1>2. y = z
  BY <1>1 DEF LinkSet
<1>3. QED
  BY <1>2 DEF z

\* A delete deactivates its user's link or changes nothing.
LEMMA DeleteMaps ==
    ASSUME TypeOK, NEW r \in Requests, DbDelete(r)
    PROVE  [Abstract!Next]_(Abstract!vars)
<1> DEFINE q == req[r]
<1>1. q \in Request /\ q.user \in Users /\ AnswerAt(r) = None
  BY DEF DbDelete, Waiting, TypeOK, HandlerOK, AnswerAt, AnswerOf
<1>2. AnswerAt(r)' = None
  BY DEF DbDelete, Waiting, Goto, TypeOK, Request, AnswerAt, AnswerOf
<1>3. \A s \in Requests : AnswerAt(s)' = AnswerAt(s)
  BY <1>1, <1>2, OtherSlots DEF Serve, AnswerAt
<1>4. CASE UNCHANGED db
  BY <1>3, <1>4, MapStutter DEF LinkAt
<1>5. CASE /\ db[q.code] # None
           /\ db[q.code].owner = q.user
           /\ db' = [db EXCEPT ![q.code].active = FALSE]
  <2> DEFINE row == db[q.code]
             off == [row EXCEPT !.active = FALSE]
  <2>1. q.code \in Codes /\ row \in Row
    BY <1>1, <1>5 DEF TypeOK, Request
  <2>2. /\ off \in Row
        /\ LinkOf(off) = [LinkOf(row) EXCEPT !.active = FALSE]
    <3>1. /\ off \in Row
          /\ off.long = row.long /\ off.owner = row.owner /\ off.active = FALSE
      BY <2>1 DEF Row
    <3>2. LinkOf(row) \in LinkSet /\ LinkOf(off) \in LinkSet
      BY <2>1, <3>1 DEF LinkOf, LinkSet, Row
    <3>3. /\ LinkOf(off).long = LinkOf(row).long
          /\ LinkOf(off).owner = LinkOf(row).owner
          /\ LinkOf(off).active = FALSE
      BY <3>1 DEF LinkOf
    <3>4. QED
      BY <3>1, <3>2, <3>3, LinkOff
  <2>3. LinkOf(row) # None /\ LinkOf(row).owner = q.user
    BY <1>5, <2>1, NoneAssumption DEF Row, LinkOf
  <2>4. \A c \in Codes : LinkAt(c)' = IF c = q.code THEN LinkOf(off) ELSE LinkAt(c)
    BY <1>5, <2>1, <2>2, NoneAssumption DEF TypeOK, LinkAt
  <2>5. PICK c \in Codes, u \in Users : c = q.code /\ u = q.user
    BY <1>1, <2>1
  <2>6. LinkAt(c) # None /\ LinkAt(c).owner = u
    BY <1>5, <2>3, <2>5 DEF LinkAt
  <2>7. LinkAt(c) = LinkOf(row) /\ LinkAt(c)' = [LinkAt(c) EXCEPT !.active = FALSE]
    BY <1>5, <2>2, <2>4, <2>5 DEF LinkAt
  <2>8. Abstract!Deactivate(c, u)
    <3>1. [d \in Codes |-> LinkAt(d)']
            = [[d \in Codes |-> LinkAt(d)] EXCEPT ![c].active = FALSE]
      BY <2>4, <2>5, <2>7
    <3>2. QED
      BY <1>3, <2>5, <2>6, <3>1 DEF Abstract!Deactivate, LinkAt, AnswerAt
  <2>9. QED
    BY <2>8 DEF Abstract!Next
<1>6. QED
  BY <1>4, <1>5 DEF DbDelete, Deactivate

\* A request that holds a row is answered with the target of its link.
LEMMA AnswerMaps ==
    ASSUME TypeOK, NEW r \in Requests, NEW c \in Codes,
           db[c] # None, UNCHANGED db, AnswerAt(r) = None,
           AnswerAt(r)' = [code |-> c, long |-> db[c].long],
           \A s \in Requests \ {r} : req'[s] = req[s]
    PROVE  [Abstract!Next]_(Abstract!vars)
<1>1. LinkOf(db[c]) # None /\ LinkOf(db[c]).long = db[c].long
  BY NoneAssumption DEF TypeOK, Row, LinkOf
<1>2. Abstract!Answer(r, c)
  BY <1>1 DEF Abstract!Answer, AnswerAt
<1>3. QED
  BY <1>2 DEF Abstract!Next

\* The requests of a set of slots are over.
LEMMA ForgetMaps ==
    ASSUME NEW S \in SUBSET Requests, UNCHANGED db,
           \A s \in Requests :
             AnswerAt(s)' = IF s \in S THEN None ELSE AnswerAt(s)
    PROVE  [Abstract!Next]_(Abstract!vars)
<1>1. Abstract!Forget(S)
  BY DEF Abstract!Forget, AnswerAt
<1>2. QED
  BY <1>1 DEF Abstract!Next

LEMMA ServeMaps ==
    ASSUME IInv, NEW r \in Requests, Serve(r)
    PROVE  [Abstract!Next]_(Abstract!vars)
<1> USE DEF Waiting, Goto
<1>1. TypeOK /\ HolderHasRow /\ CacheMirrorsDb
  BY DEF IInv
<1>2. req \in [Requests -> Request \cup {None}] /\ (req[r] # None => HandlerOK(req[r]))
  BY <1>1 DEF TypeOK
<1>3. \A s \in Requests \ {r} : req'[s] = req[s]
  BY <1>1, OtherSlots
<1>4. ASSUME UNCHANGED db, AnswerAt(r)' = AnswerAt(r)
      PROVE  [Abstract!Next]_(Abstract!vars)
  BY <1>3, <1>4, MapStutter DEF LinkAt, AnswerAt
<1>5. CASE ClaimAlias(r) \/ CreateURL(r) \/ RetryWithHash(r)
  BY <1>1, <1>5, InsertMaps
<1>6. CASE DbDelete(r)
  BY <1>1, <1>6, DeleteMaps
<1>7. CASE CheckAlias(r) \/ BloomAdd(r) \/ BloomCheck(r) \/ DbGet(r)
           \/ ChooseTTL(r) \/ CacheDelete(r)
  <2>1. UNCHANGED db /\ req[r] # None /\ req[r].at \notin {"201", "302"}
    BY <1>7 DEF CheckAlias, BloomAdd, BloomCheck, DbGet, ChooseTTL, CacheDelete
  <2>2. req[r] \in Request
    BY <1>2, <2>1
  <2>3. req'[r].at \in {"400", "claim", "ttl", "404", "get", "set", "200"}
    <3>1. CASE CheckAlias(r)
      BY <1>2, <2>2, <3>1 DEF CheckAlias, Request
    <3>2. CASE BloomAdd(r)
      BY <1>2, <2>2, <3>2 DEF BloomAdd, Request
    <3>3. CASE BloomCheck(r)
      BY <1>2, <2>2, <3>3 DEF BloomCheck, Request
    <3>4. CASE DbGet(r)
      BY <1>2, <2>2, <3>4, ZenonT(40) DEF DbGet, Request
    <3>5. CASE ChooseTTL(r)
      BY <1>2, <2>2, <3>5 DEF ChooseTTL, Request
    <3>6. CASE CacheDelete(r)
      BY <1>2, <2>2, <3>6 DEF CacheDelete, Request
    <3>7. QED
      BY <1>7, <3>1, <3>2, <3>3, <3>4, <3>5, <3>6
  <2>4. QED
    BY <1>4, <2>1, <2>3 DEF AnswerAt, AnswerOf
<1>8. CASE CacheGet(r)
  <2>1. /\ req[r] \in Request /\ req[r].code \in Codes /\ db' = db
        /\ AnswerAt(r) = None
    BY <1>2, <1>8 DEF CacheGet, Request, AnswerAt, AnswerOf
  <2>2. CASE req' = [req EXCEPT ![r].at = "query"]
    <3>1. req'[r].at = "query"
      BY <1>2, <2>1, <2>2 DEF Request
    <3>2. QED
      BY <1>4, <2>1, <3>1 DEF AnswerAt, AnswerOf
  <2>3. CASE /\ cache[req[r].code] # None
             /\ req' = [req EXCEPT ![r] =
                          [@ EXCEPT !.at = "302", !.long = cache[req[r].code].long]]
    <3>1. PICK c \in Codes : c = req[r].code
      BY <2>1
    <3>2. db[c] # None /\ db[c].long = cache[c].long
      BY <1>1, <2>3, <3>1 DEF CacheMirrorsDb
    <3>3. [req[r] EXCEPT !.at = "302", !.long = cache[c].long] \in Request
      BY <1>1, <2>1, <2>3, <3>1, <3>2 DEF TypeOK, Entry, Request, Replies
    <3>4. AnswerAt(r)' = [code |-> c, long |-> db[c].long]
      BY <1>2, <2>1, <2>3, <3>1, <3>2, <3>3, NoneAssumption
         DEF AnswerAt, AnswerOf, Request
    <3>5. QED
      BY <1>1, <1>3, <2>1, <3>2, <3>4, AnswerMaps
  <2>4. QED
    BY <1>8, <2>2, <2>3 DEF CacheGet
<1>9. CASE CacheSet(r)
  <2>1. /\ req[r] \in Request /\ req[r].code \in Codes /\ db' = db
        /\ AnswerAt(r) = None /\ Holds(req[r], req[r].code)
    BY <1>2, <1>9 DEF CacheSet, Request, AnswerAt, AnswerOf, Holds, HandlerOK
  <2>2. PICK c \in Codes : c = req[r].code
    BY <2>1
  <2>3. db[c] # None /\ db[c].long = req[r].long
    BY <1>1, <2>1, <2>2 DEF HolderHasRow
  <2>4. PICK a \in {"201", "302", "set"}, sends \in 0..Attempts :
           req' = [req EXCEPT ![r] = AfterSet(req[r], a, sends)]
    BY <1>1, <1>9, CacheSetStep
  <2>5. /\ req'[r] \in Request
        /\ req'[r].at = a
        /\ req'[r].code = c
        /\ req'[r].long = req[r].long
    BY <1>2, <2>1, <2>2, <2>4 DEF AfterSet, Request, Calls, Replies
  <2>6. CASE a = "set"
    <3>1. AnswerAt(r)' = None
      BY <2>5, <2>6 DEF AnswerAt, AnswerOf
    <3>2. QED
      BY <1>4, <2>1, <3>1
  <2>7. CASE a # "set"
    <3>1. AnswerAt(r)' = [code |-> c, long |-> db[c].long]
      BY <2>3, <2>5, <2>7, NoneAssumption DEF AnswerAt, AnswerOf
    <3>2. QED
      BY <1>1, <1>3, <2>1, <2>3, <3>1, AnswerMaps
  <2>8. QED
    BY <2>6, <2>7
<1>10. QED
  BY <1>5, <1>6, <1>7, <1>8, <1>9 DEF Serve

LEMMA NextMaps ==
    ASSUME IInv, [Next]_vars
    PROVE  [Abstract!Next]_(Abstract!vars)
<1>1. TypeOK
  BY DEF IInv
<1>2. ASSUME NEW r \in Requests, Start(r)
      PROVE  [Abstract!Next]_(Abstract!vars)
  <2>1. AnswerAt(r) = None
    BY <1>2 DEF Start, ShortenStart, ResolveStart, DeleteStart, Begin, AnswerAt, AnswerOf
  <2>2. AnswerAt(r)' = None
    BY <1>1, <1>2, StartHoldsNothing DEF AnswerAt, AnswerOf, Replies
  <2>3. db' = db
    BY <1>2 DEF Start, ShortenStart, ResolveStart, DeleteStart
  <2>4. QED
    BY <1>1, <1>2, <2>1, <2>2, <2>3, OtherSlots, MapStutter DEF LinkAt, AnswerAt
<1>3. ASSUME NEW r \in Requests, Finish(r)
      PROVE  [Abstract!Next]_(Abstract!vars)
  <2>1. \A s \in Requests : req'[s] = IF s = r THEN None ELSE req[s]
    BY <1>1, <1>3 DEF Finish, TypeOK
  <2>2. \A s \in Requests : AnswerAt(s)' = IF s \in {r} THEN None ELSE AnswerAt(s)
    BY <2>1 DEF AnswerAt, AnswerOf
  <2>3. db' = db
    BY <1>3 DEF Finish
  <2>4. QED
    BY <2>2, <2>3, ForgetMaps
<1>4. ASSUME NEW n \in Nodes, Crash(n)
      PROVE  [Abstract!Next]_(Abstract!vars)
  <2>1. PICK S \in SUBSET Requests : S = {s \in Requests : req[s] # None /\ req[s].node = n}
    OBVIOUS
  <2>2. \A s \in Requests : AnswerAt(s)' = IF s \in S THEN None ELSE AnswerAt(s)
    BY <1>4, <2>1 DEF Crash, AnswerAt, AnswerOf
  <2>3. db' = db
    BY <1>4 DEF Crash
  <2>4. QED
    BY <2>2, <2>3, ForgetMaps
<1>5. CASE Tick
  <2>1. \A r \in Requests : AnswerAt(r)' = AnswerAt(r)
    BY <1>1, <1>5, TickSlot DEF AnswerAt, AnswerOf
  <2>2. \A c \in Codes : LinkAt(c)' = LinkAt(c)
    <3>1. TAKE c \in Codes
    <3>2. CASE db[c] = None
      BY <1>5, <3>2 DEF Tick, LinkAt
    <3>3. CASE db[c] # None
      <4> DEFINE row == [db[c] EXCEPT !.exp = Elapse(db[c].exp)]
      <4>1. /\ row \in Row /\ row.long = db[c].long
            /\ row.owner = db[c].owner /\ row.active = db[c].active
        BY <1>1, <3>3, ElapseType DEF TypeOK, Row
      <4>2. db'[c] = row
        BY <1>5, <3>3 DEF Tick
      <4>3. QED
        BY <3>3, <4>1, <4>2, NoneAssumption DEF LinkAt, LinkOf
    <3>4. QED
      BY <3>2, <3>3
  <2>3. QED
    BY <2>1, <2>2, MapStutter
<1>6. CASE UNCHANGED <<db, req>>
  BY <1>6, MapStutter DEF LinkAt, AnswerAt
<1>7. QED
  BY <1>2, <1>3, <1>4, <1>5, <1>6, ServeMaps DEF Next, CacheEvict, RedisRestart, vars

\* The URL service implements the URL map: whatever fails, a code is bound once
\* and for ever, deactivated by its owner only, and every 201 and 302 names the
\* target its code is bound to.
THEOREM Refinement == Spec => ImplementsUrlMap
<1>1. Init => Abstract!Init
  BY DEF Init, Abstract!Init, AnswerOf
<1>2. IInv /\ [Next]_vars => [Abstract!Next]_(Abstract!vars)
  BY NextMaps
<1>3. QED
  BY <1>1, <1>2, Invariance, PTL DEF Spec, ImplementsUrlMap, Abstract!Spec
=============================================================================
