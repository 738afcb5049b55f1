-------------------------- MODULE UrlAnswersProofs --------------------------
(***************************************************************************)
(* What the URL service's answers say about the table: proofs about the    *)
(* 200 of a delete, the 400 of a shorten and the 404 of a resolve, on top  *)
(* of the invariant of UrlServiceProofs; and what may still be cached of a *)
(* link that is gone.                                                      *)
(***************************************************************************)
EXTENDS UrlServiceProofs

-----------------------------------------------------------------------------
(* What a step does to the slots *)

\* A slot whose request does not move: it may be gone, or a tick older.
Still(r) ==
    \/ req'[r] = None
    \/ /\ req[r] # None /\ req'[r] # None
       /\ req'[r].at = req[r].at /\ req'[r].op = req[r].op
       /\ req'[r].code = req[r].code /\ req'[r].user = req[r].user
       /\ req'[r].node = req[r].node /\ req'[r].seen = req[r].seen

LEMMA TickStill ==
    ASSUME TypeOK, Tick, NEW r \in Requests
    PROVE  Still(r)
<1> DEFINE q == [req[r] EXCEPT !.exp = Elapse(req[r].exp)]
<1>1. req'[r] = IF req[r] = None THEN None ELSE q
  BY DEF Tick
<1>2. ASSUME req[r] # None
      PROVE  /\ q \in Request
             /\ q.at = req[r].at /\ q.op = req[r].op /\ q.code = req[r].code
             /\ q.user = req[r].user /\ q.node = req[r].node /\ q.seen = req[r].seen
  <2>1. req[r] \in Request
    BY <1>2 DEF TypeOK
  <2>2. Elapse(req[r].exp) \in Expiry
    BY <2>1, ElapseType DEF Request
  <2>3. QED
    BY <2>1, <2>2 DEF Request
<1>3. QED
  BY <1>1, <1>2, NoneAssumption DEF Still

\* A step moves one request at most.
LEMMA OneMoves ==
    ASSUME TypeOK, [Next]_vars, NEW r \in Requests
    PROVE  Still(r) \/ Serve(r) \/ Start(r)
<1>1. ASSUME req'[r] = req[r] \/ req'[r] = None PROVE Still(r)
  BY <1>1 DEF Still
<1>2. ASSUME NEW s \in Requests, Serve(s) \/ Start(s) \/ Finish(s), s # r
      PROVE  Still(r)
  BY <1>1, <1>2, OtherSlots
<1>3. CASE Finish(r)
  BY <1>1, <1>3 DEF Finish, TypeOK
<1>4. ASSUME NEW n \in Nodes, Crash(n) PROVE Still(r)
  BY <1>1, <1>4 DEF Crash
<1>5. CASE Tick
  BY <1>5, TickStill
<1>6. CASE UNCHANGED req
  BY <1>1, <1>6
<1>7. QED
  BY <1>2, <1>3, <1>4, <1>5, <1>6 DEF Next, CacheEvict, RedisRestart, vars

\* A request keeps what it came with; only a generated code is ever replaced.
LEMMA ServeSlot ==
    ASSUME TypeOK, NEW r \in Requests, Serve(r)
    PROVE  /\ req[r] # None /\ req[r] \in Request /\ HandlerOK(req[r])
           /\ req'[r].op = req[r].op /\ req'[r].user = req[r].user
           /\ req'[r].node = req[r].node /\ req'[r].seen = req[r].seen
           /\ req[r].at # "create" => req'[r].code = req[r].code
<1> USE DEF Waiting, Goto
<1>1. req[r] # None /\ req[r] \in Request /\ HandlerOK(req[r])
  BY DEF TypeOK, Serve, CheckAlias, ClaimAlias, CreateURL, RetryWithHash, BloomAdd,
     BloomCheck, CacheGet, DbGet, ChooseTTL, CacheSet, DbDelete, CacheDelete
<1>2. req \in [Requests -> Request \cup {None}]
  BY DEF TypeOK
<1>3. /\ req'[r].op = req[r].op /\ req'[r].user = req[r].user
      /\ req'[r].node = req[r].node /\ req'[r].seen = req[r].seen
      /\ req[r].at # "create" => req'[r].code = req[r].code
  <2>1. CASE \E a \in Calls \cup Replies : req' = [req EXCEPT ![r].at = a]
    BY <1>1, <1>2, <2>1 DEF Request
  <2>2. ASSUME NEW e \in Lifetimes,
               req' = [req EXCEPT ![r] = [@ EXCEPT !.at = "claim", !.exp = e]]
        PROVE  /\ req'[r].op = req[r].op /\ req'[r].user = req[r].user
               /\ req'[r].node = req[r].node /\ req'[r].seen = req[r].seen
               /\ req'[r].code = req[r].code
    BY <1>1, <1>2, <2>2 DEF Request
  <2>3. ASSUME NEW h \in HashCodes, req[r].at = "create",
               req' = [req EXCEPT ![r] = [@ EXCEPT !.at = "retry", !.code = h]]
        PROVE  /\ req'[r].op = req[r].op /\ req'[r].user = req[r].user
               /\ req'[r].node = req[r].node /\ req'[r].seen = req[r].seen
    BY <1>1, <1>2, <2>3 DEF Request
  <2>4. CASE req' = [req EXCEPT ![r] =
                       [@ EXCEPT !.at = "302", !.long = cache[req[r].code].long]]
    BY <1>1, <1>2, <2>4 DEF Request
  <2>5. CASE req' = [req EXCEPT ![r] =
                       [@ EXCEPT !.at = "ttl", !.long = db[req[r].code].long,
                                 !.exp = db[req[r].code].exp]]
    BY <1>1, <1>2, <2>5 DEF Request
  <2>6. CASE ChooseTTL(r)
    BY <1>1, <1>2, <2>6 DEF ChooseTTL, Request
  <2>0. CASE CheckAlias(r)
    BY <2>0, <2>1, <2>2 DEF CheckAlias, Replies
  <2>7. CASE CreateURL(r)
    BY <2>1, <2>3, <2>7 DEF CreateURL, Calls, Replies
  <2>8. CASE CacheGet(r)
    BY <2>1, <2>4, <2>8 DEF CacheGet, Calls, Replies
  <2>9. CASE DbGet(r)
    BY <2>1, <2>5, <2>9 DEF DbGet, Calls, Replies
  <2>10. CASE CacheSet(r)
    <3>1. PICK a \in {"201", "302", "set"}, sends \in 0..Attempts :
            req' = [req EXCEPT ![r] = AfterSet(req[r], a, sends)]
      BY <2>10, CacheSetStep
    <3>2. QED
      BY <1>1, <1>2, <3>1 DEF AfterSet, Request
  <2>11. CASE DbDelete(r)
    BY <2>1, <2>11 DEF DbDelete, Calls, Replies
  <2>12. QED
    BY <2>0, <2>1, <2>6, <2>7, <2>8, <2>9, <2>10, <2>11
    DEF Serve, ClaimAlias, RetryWithHash, BloomAdd, BloomCheck, CacheDelete,
        Calls, Replies
<1>4. QED
  BY <1>1, <1>3

-----------------------------------------------------------------------------
(* The 200 of a delete *)

\* A delete that came for a row of its user finds that row, and has deactivated
\* it once the UPDATE has returned without an error.
DeleteAt(r) ==
    req[r] # None /\ req[r].op = "delete" /\ "own" \in req[r].seen =>
        /\ db[req[r].code] # None
        /\ req[r].at = "update" => db[req[r].code].owner = req[r].user
        /\ req[r].at \in {"invalidate", "200"} => ~db[req[r].code].active

Deletes == \A r \in Requests : DeleteAt(r)

\* Only deletes come for a row of their user, and only they are answered 200.
OwnAt(r) ==
    req[r] # None /\ ("own" \in req[r].seen \/ req[r].at = "200") =>
        req[r].op = "delete"

OwnsDelete == \A r \in Requests : OwnAt(r)

LEMMA DeleteStill ==
    ASSUME TypeOK, [Next]_vars, NEW r \in Requests, DeleteAt(r), OwnAt(r), Still(r)
    PROVE  DeleteAt(r)' /\ OwnAt(r)'
<1>1. req[r] # None => req[r].code \in Codes
  BY DEF TypeOK, Request
<1>2. req[r] # None => RowKept(req[r].code)
  BY <1>1, StepKeeps
<1>3. QED
  BY <1>2 DEF Still, DeleteAt, OwnAt, RowKept

LEMMA DeleteStarts ==
    ASSUME TypeOK, NEW r \in Requests, Start(r)
    PROVE  DeleteAt(r)' /\ OwnAt(r)'
<1>. USE DEF Begin
<1>1. CASE ShortenStart(r)
  BY <1>1 DEF ShortenStart, DeleteAt, OwnAt, TypeOK
<1>2. CASE ResolveStart(r)
  BY <1>2 DEF ResolveStart, DeleteAt, OwnAt, TypeOK
<1>3. CASE DeleteStart(r)
  BY <1>3 DEF DeleteStart, DeleteAt, OwnAt, TypeOK
<1>4. QED
  BY <1>1, <1>2, <1>3 DEF Start

LEMMA DeleteServes ==
    ASSUME TypeOK, NEW r \in Requests, Serve(r), DeleteAt(r), OwnAt(r)
    PROVE  DeleteAt(r)' /\ OwnAt(r)'
<1>. USE DEF Waiting, Goto
<1>1. /\ req[r] # None /\ req[r] \in Request /\ HandlerOK(req[r])
      /\ req'[r].op = req[r].op /\ req'[r].user = req[r].user
      /\ req'[r].seen = req[r].seen
      /\ req[r].at # "create" => req'[r].code = req[r].code
  BY ServeSlot
<1>2. req \in [Requests -> Request \cup {None}] /\ req[r].code \in Codes
  BY <1>1 DEF TypeOK, Request
<1>3. RowKept(req[r].code)
  BY <1>2, ServeKeeps DEF RowSame
<1>4. CASE DbDelete(r)
  <2>1. /\ req[r].at = "update" /\ req[r].op = "delete" /\ req'[r].code = req[r].code
        /\ req'[r].at \in {"update", "invalidate", "500"}
        /\ req'[r].at = "invalidate" => Deactivate(req[r])
    BY <1>1, <1>2, <1>4 DEF DbDelete, HandlerOK, Request
  <2>2. ASSUME Deactivate(req[r]), "own" \in req[r].seen
        PROVE  ~db'[req[r].code].active
    <3>1. db[req[r].code] # None /\ db[req[r].code].owner = req[r].user
      BY <1>1, <2>1, <2>2 DEF DeleteAt
    <3>2. db[req[r].code] \in Row /\ db \in [Codes -> Row \cup {None}]
      BY <1>2, <3>1 DEF TypeOK
    <3>3. db' = [db EXCEPT ![req[r].code].active = FALSE]
      BY <2>2, <3>1 DEF Deactivate
    <3>4. QED
      BY <1>2, <3>2, <3>3 DEF Row
  <2>3. QED
    BY <1>1, <1>3, <2>1, <2>2 DEF DeleteAt, OwnAt, RowKept
<1>5. CASE CacheDelete(r)
  <2>1. /\ req[r].at = "invalidate" /\ req[r].op = "delete" /\ req'[r].code = req[r].code
        /\ req'[r].at = "200" /\ db' = db
    BY <1>1, <1>2, <1>5 DEF CacheDelete, HandlerOK, Request
  <2>2. QED
    BY <1>1, <2>1 DEF DeleteAt, OwnAt
<1>6. CASE ~DbDelete(r) /\ ~CacheDelete(r)
  <2>1. req[r].op # "delete"
    BY <1>1, <1>6 DEF Serve, CheckAlias, ClaimAlias, CreateURL, RetryWithHash,
       BloomAdd, BloomCheck, CacheGet, DbGet, ChooseTTL, CacheSet, HandlerOK
  <2>2. req'[r].at # "200"
    <3>1. CASE \E a \in {"bloom", "400", "404", "get", "query", "ttl"} :
                  req' = [req EXCEPT ![r].at = a]
      BY <1>1, <1>2, <3>1 DEF Request
    <3>2. CASE CheckAlias(r) \/ ChooseTTL(r)
      BY <1>1, <1>2, <3>2 DEF CheckAlias, ChooseTTL, Request
    <3>3. CASE CreateURL(r)
      BY <1>1, <1>2, <3>3 DEF CreateURL, Request
    <3>4. CASE CacheGet(r)
      BY <1>1, <1>2, <3>4 DEF CacheGet, Request
    <3>5. CASE DbGet(r)
      BY <1>1, <1>2, <3>5 DEF DbGet, Request
    <3>6. CASE CacheSet(r)
      <4>1. PICK a \in {"201", "302", "set"}, sends \in 0..Attempts :
              req' = [req EXCEPT ![r] = AfterSet(req[r], a, sends)]
        BY <3>6, CacheSetStep
      <4>2. QED
        BY <1>1, <1>2, <4>1 DEF AfterSet, Request
    <3>7. QED
      BY <1>6, <3>1, <3>2, <3>3, <3>4, <3>5, <3>6
      DEF Serve, ClaimAlias, RetryWithHash, BloomAdd, BloomCheck
  <2>3. QED
    BY <1>1, <2>1, <2>2 DEF DeleteAt, OwnAt
<1>7. QED
  BY <1>4, <1>5, <1>6

LEMMA DeleteStep ==
    ASSUME TypeOK, Deletes, OwnsDelete, [Next]_vars
    PROVE  Deletes' /\ OwnsDelete'
<1>1. ASSUME NEW r \in Requests PROVE DeleteAt(r)' /\ OwnAt(r)'
  <2>1. DeleteAt(r) /\ OwnAt(r)
    BY DEF Deletes, OwnsDelete
  <2>2. QED
    BY <2>1, OneMoves, DeleteStill, DeleteStarts, DeleteServes
<1>2. QED
  BY <1>1 DEF Deletes, OwnsDelete

\* A delete of one's own link that is answered 200 has deactivated it for good,
\* whatever failed, expired or crashed around it (url_service.go:183).
THEOREM DeletesTrue == Spec => []DeleteReplyTrue
<1>1. Init => Deletes /\ OwnsDelete
  BY DEF Init, Deletes, DeleteAt, OwnsDelete, OwnAt
<1>2. TypeOK /\ (Deletes /\ OwnsDelete) /\ [Next]_vars => (Deletes /\ OwnsDelete)'
  BY DeleteStep
<1>3. Deletes /\ OwnsDelete => DeleteReplyTrue
  BY DEF Deletes, DeleteAt, OwnsDelete, OwnAt, DeleteReplyTrue, Visible
<1>4. QED
  BY <1>1, <1>2, <1>3, TypeCorrect, PTL DEF Spec

-----------------------------------------------------------------------------
(* The 400 of a shorten, when Postgres works *)

\* Where a call leads to.
LEMMA Follows ==
    ASSUME TypeOK, NEW r \in Requests, Serve(r)
    PROVE  /\ req'[r].at = "400" => req[r].at \in {"check", "claim", "retry"}
           /\ req'[r].at = "bloom" => req[r].at \in {"claim", "create", "retry"}
           /\ req'[r].at = "404" => req[r].at \in {"filter", "query"}
           /\ req'[r].at = "get" => req[r].at = "filter"
           /\ req'[r].at = "query" => req[r].at = "get"
           /\ req'[r].at = "ttl" => req[r].at \in {"bloom", "query"}
           /\ req'[r].at = "set" => req[r].at \in {"ttl", "set"}
           /\ req'[r].at = "201" => req[r].at = "set"
           /\ req'[r].at # "filter"
<1> USE DEF Waiting, Goto
<1>1. req[r] # None /\ req[r] \in Request /\ HandlerOK(req[r])
  BY ServeSlot
<1>2. req \in [Requests -> Request \cup {None}]
  BY DEF TypeOK
<1>3. ASSUME NEW a \in Calls \cup Replies, req' = [req EXCEPT ![r].at = a]
      PROVE  req'[r].at = a
  BY <1>1, <1>2, <1>3 DEF Request
<1>4. CASE CheckAlias(r)
  <2>1. ASSUME NEW e \in Lifetimes,
               req' = [req EXCEPT ![r] = [@ EXCEPT !.at = "claim", !.exp = e]]
        PROVE  req'[r].at = "claim"
    BY <1>1, <1>2, <2>1 DEF Request
  <2>2. QED
    BY <1>3, <1>4, <2>1 DEF CheckAlias, Replies
<1>5. CASE CreateURL(r)
  <2>1. ASSUME NEW h \in HashCodes,
               req' = [req EXCEPT ![r] = [@ EXCEPT !.at = "retry", !.code = h]]
        PROVE  req'[r].at = "retry"
    BY <1>1, <1>2, <2>1 DEF Request
  <2>2. QED
    BY <1>3, <1>5, <2>1 DEF CreateURL, Calls
<1>6. CASE CacheGet(r)
  <2>1. ASSUME cache[req[r].code] # None,
               req' = [req EXCEPT ![r] =
                         [@ EXCEPT !.at = "302", !.long = cache[req[r].code].long]]
        PROVE  req'[r].at = "302"
    BY <1>1, <1>2, <2>1 DEF Request
  <2>2. QED
    BY <1>3, <1>6, <2>1 DEF CacheGet, Calls
<1>7. CASE DbGet(r)
  <2>1. ASSUME Serveable(req[r].code),
               req' = [req EXCEPT ![r] =
                         [@ EXCEPT !.at = "ttl", !.long = db[req[r].code].long,
                                   !.exp = db[req[r].code].exp]]
        PROVE  req'[r].at = "ttl"
    BY <1>1, <1>2, <2>1 DEF Request
  <2>2. QED
    BY <1>3, <1>7, <2>1 DEF DbGet, Replies
<1>8. CASE ChooseTTL(r)
  BY <1>1, <1>2, <1>8 DEF ChooseTTL, Request
<1>9. CASE ClaimAlias(r)
  BY <1>3, <1>9 DEF ClaimAlias, Calls, Replies
<1>10. CASE RetryWithHash(r)
  BY <1>3, <1>10 DEF RetryWithHash, Calls, Replies
<1>11. CASE BloomAdd(r)
  BY <1>3, <1>11 DEF BloomAdd, Calls
<1>12. CASE BloomCheck(r)
  BY <1>3, <1>12 DEF BloomCheck, Calls, Replies
<1>13. CASE CacheSet(r)
  <2>1. PICK a \in {"201", "302", "set"}, sends \in 0..Attempts :
          req' = [req EXCEPT ![r] = AfterSet(req[r], a, sends)]
    BY <1>13, CacheSetStep
  <2>2. req'[r].at = a /\ req[r].at = "set"
    BY <1>1, <1>2, <1>13, <2>1 DEF CacheSet, AfterSet, Request
  <2>3. QED
    BY <2>1, <2>2
<1>14. CASE DbDelete(r)
  <2>1. CASE UNCHANGED req
    BY <1>14, <2>1 DEF DbDelete
  <2>2. QED
    BY <1>3, <1>14, <2>1 DEF DbDelete, Calls, Replies
<1>15. CASE CacheDelete(r)
  BY <1>3, <1>15 DEF CacheDelete, Replies
<1>16. QED
  BY <1>4, <1>5, <1>6, <1>7, <1>8, <1>9, <1>10, <1>11, <1>12, <1>13, <1>14, <1>15
  DEF Serve

RefusalAt(r) ==
    req[r] # None /\ req[r].at = "400" =>
        db[req[r].code] # None \/ req[r].code \in TooLong

LEMMA RefusalStep ==
    ASSUME ~DbFaults, TypeOK, [Next]_vars, NEW r \in Requests, RefusalAt(r)
    PROVE  RefusalAt(r)'
<1>1. CASE Still(r)
  <2>1. req[r] # None => req[r].code \in Codes
    BY DEF TypeOK, Request
  <2>2. req[r] # None => RowKept(req[r].code)
    BY <2>1, StepKeeps
  <2>3. QED
    BY <1>1, <2>2 DEF Still, RefusalAt, RowKept
<1>2. CASE Start(r)
  BY <1>2, StartHoldsNothing DEF RefusalAt, Replies
<1>3. CASE Serve(r)
  <2>1. SUFFICES ASSUME req'[r].at = "400"
                 PROVE  RefusalAt(r)'
    BY DEF RefusalAt
  <2>2. /\ req[r].at \in {"check", "claim", "retry"}
        /\ req'[r].code = req[r].code
        /\ req[r] # None /\ req[r] \in Request
    BY <1>3, <2>1, Follows, ServeSlot
  <2>3. req' # [req EXCEPT ![r].at = "bloom"]
    BY <2>1, <2>2 DEF TypeOK, Request
  <2>4. CASE CheckAlias(r)
    <3>1. ASSUME NEW e \in Lifetimes
          PROVE  req' # [req EXCEPT ![r] = [@ EXCEPT !.at = "claim", !.exp = e]]
      BY <2>1, <2>2 DEF TypeOK, Request
    <3>2. Visible(req[r].code) /\ db' = db
      BY <2>4, <3>1 DEF CheckAlias
    <3>3. QED
      BY <2>2, <3>2 DEF Visible, RefusalAt
  <2>5. CASE ClaimAlias(r) \/ RetryWithHash(r)
    <3>1. InsertError(req[r])
      BY <2>3, <2>5 DEF ClaimAlias, RetryWithHash, Goto
    <3>2. ~Insertable(req[r].code) /\ db' = db
      BY <3>1 DEF InsertError
    <3>3. QED
      BY <2>2, <3>2 DEF Insertable, RefusalAt
  <2>6. QED
    BY <1>3, <2>2, <2>4, <2>5 DEF Serve, Waiting, CreateURL, BloomAdd, BloomCheck,
       CacheGet, DbGet, ChooseTTL, CacheSet, DbDelete, CacheDelete
<1>4. QED
  BY <1>1, <1>2, <1>3, OneMoves

\* While Postgres works, a request to shorten is refused only for a code that
\* some link has or that the column cannot hold: no race, crash or failing
\* Redis leaves a code unusable (url_service.go:61 and 92).
THEOREM RefusalsTrue == ASSUME ~DbFaults PROVE Spec => []RefusedOnlyIfTaken
<1> DEFINE Refusals == \A r \in Requests : RefusalAt(r)
<1>1. Init => Refusals
  BY DEF Init, RefusalAt
<1>2. TypeOK /\ Refusals /\ [Next]_vars => Refusals'
  BY RefusalStep
<1>3. Refusals <=> RefusedOnlyIfTaken
  BY DEF RefusalAt, RefusedOnlyIfTaken
<1> HIDE DEF Refusals
<1>4. QED
  BY <1>1, <1>2, <1>3, TypeCorrect, PTL DEF Spec

-----------------------------------------------------------------------------
(* The 404 of a resolve, when Postgres works *)

\* A link that resolving does not find in the table.
Gone(c) == ~Visible(c) \/ Expired(db[c].exp)

\* What a node has answered 201 is in its own filter and in the table.
Known ==
    \A n \in Nodes, c \in Codes :
        c \in acked[n] => c \in localFilter[n] /\ db[c] # None

\* A request past its BF.ADD is in its node's filter.
AddedAt(r) ==
    req[r] # None /\ req[r].op = "shorten" /\ req[r].at \in {"ttl", "set", "201"} =>
        req[r].code \in localFilter[req[r].node]

\* A request that came for a code its node had answered 201 passes that node's
\* filter, and a 404 for it has one of two reasons.
HereAt(r) ==
    req[r] # None /\ "here" \in req[r].seen =>
        /\ req[r].op = "resolve"
        /\ db[req[r].code] # None
        /\ req[r].at \in {"filter", "get", "query"} =>
              req[r].code \in localFilter[req[r].node]
        /\ req[r].at = "404" => Gone(req[r].code) \/ req[r].code \notin redisBloom

\* A code on its way to BF.ADD has been answered to nobody: what a 404 has
\* missed in the Redis filter is not added behind its back.
FreshAt(r) ==
    req[r] # None /\ req[r].at = "bloom" =>
        /\ \A n \in Nodes : req[r].code \notin acked[n]
        /\ \A s \in Requests :
              req[s] # None /\ "here" \in req[s].seen => req[s].code # req[r].code

Reads ==
    /\ Known
    /\ \A r \in Requests : AddedAt(r) /\ HereAt(r) /\ FreshAt(r)

(* What a step does to the filters and the history *)

\* A node loses its filter only with its history and its requests.
LEMMA FilterKept ==
    ASSUME TypeOK, [Next]_vars, NEW n \in Nodes
    PROVE  \/ localFilter[n] \subseteq localFilter'[n]
           \/ /\ acked'[n] = {}
              /\ \A r \in Requests : req'[r] # None => req'[r].node # n
<1>1. ASSUME NEW m \in Nodes, Crash(m), n # m
      PROVE  localFilter'[n] = localFilter[n]
  BY <1>1 DEF Crash, TypeOK
<1>2. ASSUME Crash(n)
      PROVE  /\ acked'[n] = {}
             /\ \A r \in Requests : req'[r] # None => req'[r].node # n
  BY <1>2 DEF Crash, TypeOK
<1>3. ASSUME NEW r \in Requests, BloomAdd(r)
      PROVE  localFilter[n] \subseteq localFilter'[n]
  BY <1>3 DEF BloomAdd, LocalAdd, TypeOK
<1>4. QED
  BY <1>1, <1>2, <1>3 DEF Next, Start, Serve, ShortenStart, ResolveStart,
     DeleteStart, CheckAlias, ClaimAlias, CreateURL, RetryWithHash, BloomCheck,
     CacheGet, DbGet, ChooseTTL, CacheSet, DbDelete, CacheDelete, Finish,
     CacheEvict, RedisRestart, Tick, vars

\* A code enters the history of its node with the answer of its creator.
LEMMA AckedFrom ==
    ASSUME TypeOK, [Next]_vars, NEW n \in Nodes, NEW c \in acked'[n]
    PROVE  \/ c \in acked[n]
           \/ \E s \in Requests : /\ CacheSet(s) /\ req[s].op = "shorten"
                                   /\ req[s].node = n /\ req[s].code = c
<1>1. ASSUME NEW m \in Nodes, Crash(m) PROVE c \in acked[n]
  BY <1>1 DEF Crash, TypeOK
<1>2. ASSUME NEW s \in Requests, CacheSet(s)
      PROVE  \/ c \in acked[n]
             \/ req[s].op = "shorten" /\ req[s].node = n /\ req[s].code = c
  BY <1>2 DEF CacheSet, TypeOK
<1>3. QED
  BY <1>1, <1>2 DEF Next, Start, Serve, ShortenStart, ResolveStart, DeleteStart,
     CheckAlias, ClaimAlias, CreateURL, RetryWithHash, BloomAdd, BloomCheck,
     CacheGet, DbGet, ChooseTTL, DbDelete, CacheDelete, Finish, CacheEvict,
     RedisRestart, Tick, vars

\* A code enters the Redis filter with its creator's BF.ADD.
LEMMA AddedFrom ==
    ASSUME TypeOK, [Next]_vars, NEW c \in redisBloom'
    PROVE  \/ c \in redisBloom
           \/ \E s \in Requests : req[s] # None /\ req[s].at = "bloom" /\ req[s].code = c
<1>1. ASSUME NEW s \in Requests, BloomAdd(s)
      PROVE  c \in redisBloom \/ (req[s] # None /\ req[s].at = "bloom" /\ req[s].code = c)
  BY <1>1 DEF BloomAdd, RedisAdd, Waiting
<1>2. QED
  BY <1>1 DEF Next, Start, Serve, ShortenStart, ResolveStart, DeleteStart,
     CheckAlias, ClaimAlias, CreateURL, RetryWithHash, BloomCheck, CacheGet,
     DbGet, ChooseTTL, CacheSet, DbDelete, CacheDelete, Finish, Crash,
     CacheEvict, RedisRestart, Tick, vars

\* A link that is gone stays gone.
LEMMA GoneStays ==
    ASSUME TypeOK, [Next]_vars, NEW c \in Codes, db[c] # None, Gone(c)
    PROVE  Gone(c)'
<1>1. RowKept(c)
  BY StepKeeps
<1>2. CASE ~Visible(c)
  BY <1>1, <1>2 DEF Gone, Visible, RowKept
<1>3. CASE Expired(db[c].exp)
  <2>1. db[c].exp = -1
    BY <1>3 DEF Expired, TypeOK, Row, Expiry
  <2>2. CASE Tick
    BY <1>3, <2>1, <2>2, TickKeeps DEF Gone, Elapse
  <2>3. CASE RowSame(c)
    BY <1>3, <2>3 DEF Gone, RowSame
  <2>4. CASE UNCHANGED db
    BY <1>3, <2>4 DEF Gone
  <2>5. QED
    BY <2>2, <2>3, <2>4, ServeKeeps DEF Next, Start, ShortenStart, ResolveStart,
       DeleteStart, Finish, Crash, CacheEvict, RedisRestart, vars
<1>4. QED
  BY <1>2, <1>3 DEF Gone

\* A request that comes in with "here" asks for a code in its node's history.
LEMMA StartHere ==
    ASSUME TypeOK, NEW r \in Requests, Start(r), "here" \in req'[r].seen
    PROVE  /\ req'[r].op = "resolve" /\ req'[r].at = "filter"
           /\ req'[r].node \in Nodes /\ req'[r].code \in Codes
           /\ req'[r].code \in acked[req'[r].node]
<1>. USE DEF Begin
<1>1. CASE ShortenStart(r)
  BY <1>1 DEF ShortenStart, TypeOK
<1>2. CASE ResolveStart(r)
  BY <1>2 DEF ResolveStart, TypeOK
<1>3. CASE DeleteStart(r)
  BY <1>3 DEF DeleteStart, TypeOK
<1>4. QED
  BY <1>1, <1>2, <1>3 DEF Start

LEMMA StartUnchanged ==
    ASSUME NEW r \in Requests, Start(r)
    PROVE  UNCHANGED <<db, cache, redisBloom, localFilter, acked, deleted>>
BY DEF Start, ShortenStart, ResolveStart, DeleteStart

(* The step *)

LEMMA KnownStep ==
    ASSUME IInv, Reads, [Next]_vars
    PROVE  Known'
<1>0. TypeOK
  BY DEF IInv
<1>1. SUFFICES ASSUME NEW n \in Nodes, NEW c \in Codes, c \in acked'[n]
               PROVE  c \in localFilter'[n] /\ db'[c] # None
  BY DEF Known
<1>2. RowKept(c) /\ localFilter[n] \subseteq localFilter'[n]
  BY <1>0, <1>1, StepKeeps, FilterKept
<1>3. CASE c \in acked[n]
  BY <1>2, <1>3 DEF Reads, Known, RowKept
<1>4. ASSUME NEW s \in Requests, CacheSet(s), req[s].op = "shorten",
             req[s].node = n, req[s].code = c
      PROVE  c \in localFilter[n] /\ db[c] # None
  <2>1. req[s] # None /\ req[s].at = "set"
    BY <1>4 DEF CacheSet, Waiting
  <2>2. db[c] # None
    BY <1>4, <2>1 DEF IInv, HolderHasRow, Holds
  <2>3. c \in localFilter[n]
    BY <1>4, <2>1 DEF Reads, AddedAt
  <2>4. QED
    BY <2>2, <2>3
<1>5. QED
  BY <1>0, <1>1, <1>2, <1>3, <1>4, AckedFrom DEF RowKept

LEMMA AddedStep ==
    ASSUME IInv, Reads, [Next]_vars, NEW r \in Requests
    PROVE  AddedAt(r)'
<1>0. TypeOK /\ AddedAt(r)
  BY DEF IInv, Reads
<1>1. SUFFICES ASSUME req'[r] # None, req'[r].op = "shorten",
                      req'[r].at \in {"ttl", "set", "201"}
               PROVE  req'[r].code \in localFilter'[req'[r].node]
  BY DEF AddedAt
<1>2. ASSUME Still(r) \/ Serve(r), req[r].at \in {"ttl", "set", "201"},
             req[r] # None, req'[r].op = req[r].op, req'[r].code = req[r].code,
             req'[r].node = req[r].node
      PROVE  req'[r].code \in localFilter'[req'[r].node]
  <2>1. req[r].code \in localFilter[req[r].node]
    BY <1>0, <1>1, <1>2 DEF AddedAt
  <2>2. req[r].node \in Nodes
    BY <1>0, <1>2 DEF TypeOK, Request
  <2>3. QED
    BY <1>0, <1>1, <1>2, <2>1, <2>2, FilterKept
<1>3. CASE Still(r)
  BY <1>1, <1>2, <1>3 DEF Still
<1>4. CASE Start(r)
  <2>1. req'[r].at \in {"check", "create", "filter", "update"}
    BY <1>0, <1>4 DEF TypeOK, Start, ShortenStart, ResolveStart, DeleteStart, Begin
  <2>2. QED
    BY <1>1, <2>1
<1>5. CASE Serve(r)
  <2>1. /\ req[r] # None /\ req[r] \in Request /\ HandlerOK(req[r])
        /\ req'[r].op = req[r].op /\ req'[r].node = req[r].node
        /\ req[r].at \in {"bloom", "query", "ttl", "set"}
        /\ req'[r].code = req[r].code
    BY <1>0, <1>1, <1>5, ServeSlot, Follows
  <2>2. CASE req[r].at = "query"
    BY <1>1, <2>1, <2>2 DEF HandlerOK
  <2>3. CASE req[r].at = "bloom"
    <3>1. LocalAdd(req[r])
      BY <1>5, <2>3 DEF Serve, Waiting, CheckAlias, ClaimAlias, CreateURL,
         RetryWithHash, BloomAdd, BloomCheck, CacheGet, DbGet, ChooseTTL, CacheSet,
         DbDelete, CacheDelete
    <3>2. QED
      BY <1>0, <2>1, <3>1 DEF LocalAdd, TypeOK, Request
  <2>4. CASE req[r].at \in {"ttl", "set"}
    BY <1>2, <1>5, <2>1, <2>4
  <2>5. QED
    BY <2>1, <2>2, <2>3, <2>4
<1>6. QED
  BY <1>0, <1>3, <1>4, <1>5, OneMoves

LEMMA HereStep ==
    ASSUME ~DbFaults, IInv, Reads, [Next]_vars, NEW r \in Requests
    PROVE  HereAt(r)'
<1>0. TypeOK /\ HereAt(r)
  BY DEF IInv, Reads
<1>1. SUFFICES ASSUME req'[r] # None, "here" \in req'[r].seen
               PROVE  HereAt(r)'
  BY DEF HereAt
<1>2. CASE Start(r)
  <2>1. /\ req'[r].op = "resolve" /\ req'[r].at = "filter"
        /\ req'[r].code \in localFilter[req'[r].node]
        /\ db[req'[r].code] # None
    BY <1>0, <1>1, <1>2, StartHere DEF Reads, Known
  <2>2. QED
    BY <1>2, <2>1, StartUnchanged DEF HereAt
<1>3. CASE Still(r) \/ Serve(r)
  <2>1. /\ req[r] # None /\ req[r].code \in Codes /\ req[r].node \in Nodes
        /\ req'[r].op = req[r].op /\ req'[r].node = req[r].node
        /\ "here" \in req[r].seen /\ req[r].op = "resolve"
    BY <1>0, <1>1, <1>3, ServeSlot DEF Still, HereAt, TypeOK, Request
  <2>2. req'[r].code = req[r].code
    BY <1>0, <1>1, <1>3, <2>1, ServeSlot DEF Still, TypeOK, HandlerOK
  <2>3. PICK c \in Codes, n \in Nodes : c = req[r].code /\ n = req[r].node
    BY <2>1
  <2>4. db[c] # None /\ RowKept(c)
    BY <1>0, <2>1, <2>3, StepKeeps DEF HereAt
  <2>5. db'[c] # None
    BY <2>4 DEF RowKept
  <2>6. ASSUME req'[r].at \in {"filter", "get", "query"}
        PROVE  c \in localFilter'[n]
    <3>1. req[r].at \in {"filter", "get", "query"}
      BY <1>0, <1>1, <1>3, <2>6, Follows DEF Still
    <3>2. c \in localFilter[n]
      BY <1>0, <2>1, <2>3, <3>1 DEF HereAt
    <3>3. QED
      BY <1>0, <1>1, <2>1, <2>3, <3>2, FilterKept
  \* Nobody adds this code to the Redis filter any more.
  <2>7. c \notin redisBloom => c \notin redisBloom'
    <3>1. ASSUME NEW s \in Requests, req[s] # None, req[s].at = "bloom",
                 req[s].code = c
          PROVE  FALSE
      BY <2>1, <2>3, <3>1 DEF Reads, FreshAt
    <3>2. QED
      BY <1>0, <3>1, AddedFrom
  <2>8. ASSUME req'[r].at = "404"
        PROVE  Gone(c)' \/ c \notin redisBloom'
    <3>1. CASE Gone(c)
      BY <1>0, <2>1, <2>4, <3>1, GoneStays
    <3>2. CASE c \notin redisBloom
      BY <2>7, <3>2
    <3>3. CASE Still(r)
      BY <1>0, <1>1, <2>1, <2>3, <2>8, <3>1, <3>2, <3>3 DEF Still, HereAt
    <3>4. CASE Serve(r) /\ req[r].at = "filter"
      <4>1. BloomCheck(r)
        BY <3>4 DEF Serve, Waiting, CheckAlias, ClaimAlias, CreateURL,
           RetryWithHash, BloomAdd, CacheGet, DbGet, ChooseTTL, CacheSet,
           DbDelete, CacheDelete
      <4>2. req' # [req EXCEPT ![r].at = "get"]
        BY <1>0, <2>1, <2>8 DEF TypeOK, Request
      <4>3. Rejectable(n, c)
        BY <2>3, <4>1, <4>2 DEF BloomCheck, Goto
      <4>4. c \in localFilter[n]
        BY <1>0, <2>1, <2>3, <3>4 DEF HereAt
      <4>5. QED
        BY <3>2, <4>3, <4>4 DEF Rejectable
    <3>5. CASE Serve(r) /\ req[r].at = "query"
      <4>1. DbGet(r)
        BY <3>5 DEF Serve, Waiting, CheckAlias, ClaimAlias, CreateURL,
           RetryWithHash, BloomAdd, BloomCheck, CacheGet, ChooseTTL, CacheSet,
           DbDelete, CacheDelete
      <4>2. req' # [req EXCEPT ![r] = [@ EXCEPT !.at = "ttl",
                                !.long = db[c].long, !.exp = db[c].exp]]
        BY <1>0, <2>1, <2>3, <2>8 DEF TypeOK, Request
      <4>3. ~Serveable(c)
        BY <2>3, <4>1, <4>2 DEF DbGet
      <4>4. QED
        BY <3>1, <4>3 DEF Serveable, Gone
    <3>6. QED
      BY <1>0, <1>3, <2>8, <3>3, <3>4, <3>5, Follows
  <2>9. QED
    BY <2>1, <2>3, <2>2, <2>5, <2>6, <2>8 DEF HereAt
<1>4. QED
  BY <1>0, <1>2, <1>3, OneMoves

LEMMA FreshStep ==
    ASSUME IInv, Reads, [Next]_vars, NEW r \in Requests
    PROVE  FreshAt(r)'
<1>0. TypeOK /\ FreshAt(r)
  BY DEF IInv, Reads
<1>1. SUFFICES ASSUME req'[r] # None, req'[r].at = "bloom"
               PROVE  FreshAt(r)'
  BY DEF FreshAt
<1>2. CASE Start(r)
  <2>1. req'[r].at \in {"check", "create", "filter", "update"}
    BY <1>0, <1>2 DEF TypeOK, Start, ShortenStart, ResolveStart, DeleteStart, Begin
  <2>2. QED
    BY <1>1, <2>1
\* It has just inserted the row of a code that had none.
<1>3. CASE Serve(r)
  <2>1. /\ req[r] # None /\ req[r] \in Request /\ HandlerOK(req[r])
        /\ req'[r].op = req[r].op /\ req'[r].seen = req[r].seen
        /\ req[r].at \in {"claim", "create", "retry"}
    BY <1>0, <1>1, <1>3, ServeSlot, Follows
  <2>2. Winner(req'[r]) /\ ~Winner(req[r])
    BY <1>1, <2>1 DEF Winner, HandlerOK
  <2>3. req'[r].code = req[r].code /\ db[req[r].code] = None
    BY <1>0, <1>3, <2>2, NewWinner DEF Insertable
  <2>4. acked' = acked
    BY <1>3, <2>1 DEF Serve, Waiting, CheckAlias, ClaimAlias, CreateURL,
       RetryWithHash, BloomAdd, BloomCheck, CacheGet, DbGet, ChooseTTL, CacheSet,
       DbDelete, CacheDelete
  <2>5. \A n \in Nodes : req[r].code \notin acked[n]
    BY <2>1, <2>3 DEF Reads, Known, Request
  <2>6. ASSUME NEW s \in Requests, req'[s] # None, "here" \in req'[s].seen
        PROVE  req'[s].code # req[r].code
    <3>1. CASE s = r
      BY <2>1, <2>6, <3>1 DEF Reads, HereAt, HandlerOK
    <3>2. CASE s # r
      <4>1. req'[s] = req[s]
        BY <1>0, <1>3, <3>2, OtherSlots
      <4>2. QED
        BY <2>3, <2>6, <4>1 DEF Reads, HereAt
    <3>3. QED
      BY <3>1, <3>2
  <2>7. QED
    BY <2>3, <2>4, <2>5, <2>6 DEF FreshAt
\* It is the only creator of its code, and has not answered yet.
<1>4. CASE Still(r)
  <2>1. /\ req[r] # None /\ req[r].at = "bloom" /\ req'[r].code = req[r].code
        /\ req[r] \in Request /\ HandlerOK(req[r])
    BY <1>0, <1>1, <1>4 DEF Still, TypeOK
  <2> DEFINE c == req[r].code
  <2>2. Winner(req[r])
    BY <2>1 DEF Winner, HandlerOK
  <2>3. ASSUME NEW n \in Nodes, c \in acked'[n]
        PROVE  FALSE
    <3>1. c \notin acked[n]
      BY <1>0, <2>1 DEF FreshAt
    <3>2. PICK s \in Requests : CacheSet(s) /\ req[s].op = "shorten" /\ req[s].code = c
      BY <1>0, <2>3, <3>1, AckedFrom
    <3>3. Winner(req[s]) /\ req[s].at = "set"
      BY <3>2 DEF CacheSet, Waiting, Winner
    <3>4. s = r
      BY <2>2, <3>2, <3>3 DEF IInv, OneCreator
    <3>5. QED
      BY <2>1, <3>3, <3>4
  <2>4. ASSUME NEW s \in Requests, req'[s] # None, "here" \in req'[s].seen
        PROVE  req'[s].code # c
    <3>1. CASE Start(s)
      <4>1. /\ req'[s].node \in Nodes
            /\ req'[s].code \in acked[req'[s].node]
        BY <1>0, <2>4, <3>1, StartHere
      <4>2. QED
        BY <1>0, <2>1, <4>1 DEF FreshAt
    <3>2. CASE Still(s) \/ Serve(s)
      <4>1. req[s] # None /\ "here" \in req[s].seen
        BY <1>0, <2>4, <3>2, ServeSlot DEF Still
      <4>2. req[s].op = "resolve"
        BY <4>1 DEF Reads, HereAt
      <4>3. req'[s].code = req[s].code
        BY <1>0, <2>4, <3>2, <4>2, ServeSlot DEF Still, HandlerOK
      <4>4. QED
        BY <1>0, <2>1, <4>1, <4>3 DEF FreshAt
    <3>3. QED
      BY <1>0, <3>1, <3>2, OneMoves
  <2>5. QED
    BY <2>1, <2>3, <2>4 DEF FreshAt
<1>5. QED
  BY <1>0, <1>2, <1>3, <1>4, OneMoves

\* While Postgres works, a client that got 201 from a node finds its link there
\* until it is deactivated or runs out, unless Redis has missed or forgotten the
\* BF.ADD, in every interleaving with other requests, crashes and Redis faults
\* (url_service.go:107, 131 and 150).
THEOREM ReadsTrue == ASSUME ~DbFaults PROVE Spec => []ReadYourWrites
<1>1. Init => Reads
  BY DEF Init, Reads, Known, AddedAt, HereAt, FreshAt
<1>2. IInv /\ Reads /\ [Next]_vars => Reads'
  BY KnownStep, AddedStep, HereStep, FreshStep DEF Reads
<1>3. Reads => ReadYourWrites
  BY DEF Reads, HereAt, ReadYourWrites, Gone
<1>4. QED
  BY <1>1, <1>2, <1>3, Invariance, PTL DEF Spec

-----------------------------------------------------------------------------
(* The cache entry of a link that is gone *)

LEMMA NoNewFiller ==
    ASSUME TypeOK, [Next]_vars, NEW c \in Codes, db[c] # None, Gone(c),
           NEW r \in Fillers(c)'
    PROVE  r \in Fillers(c)
<1>1. /\ r \in Requests /\ req'[r] # None /\ req'[r].code = c
      /\ req'[r].at \in {"bloom", "ttl", "set"}
  BY DEF Fillers
<1>2. CASE Still(r)
  BY <1>1, <1>2 DEF Still, Fillers
<1>3. CASE Start(r)
  <2>1. req'[r].at \in {"check", "create", "filter", "update"}
    BY <1>1, <1>3 DEF Start, ShortenStart, ResolveStart, DeleteStart, Begin, TypeOK
  <2>2. QED
    BY <1>1, <2>1
<1>4. CASE Serve(r)
  <2>1. req[r] # None /\ (req[r].at # "create" => req[r].code = c)
    BY <1>1, <1>4, ServeSlot
  <2>2. req[r].at \notin {"claim", "create", "retry"}
    <3>1. SUFFICES ASSUME ClaimAlias(r) \/ CreateURL(r) \/ RetryWithHash(r) PROVE FALSE
      BY <1>4 DEF Serve, Waiting, CheckAlias, BloomAdd, BloomCheck, CacheGet, DbGet,
         ChooseTTL, CacheSet, DbDelete, CacheDelete
    <3>2. req[r] \in Request /\ req \in [Requests -> Request \cup {None}]
      BY <1>1, <1>4, ServeSlot DEF TypeOK
    <3>3. ASSUME Goto(r, "400") PROVE FALSE
      BY <1>1, <3>2, <3>3 DEF Goto, Request
    <3>4. ASSUME NEW h \in HashCodes,
                 req' = [req EXCEPT ![r] = [@ EXCEPT !.at = "retry", !.code = h]]
          PROVE  FALSE
      BY <1>1, <3>2, <3>4 DEF Request
    <3>5. InsertOK(req[r]) /\ Goto(r, "bloom")
      BY <3>1, <3>3, <3>4 DEF ClaimAlias, CreateURL, RetryWithHash
    <3>6. req'[r].code = req[r].code
      BY <1>1, <3>2, <3>5 DEF Goto, Request
    <3>7. QED
      BY <1>1, <3>5, <3>6 DEF InsertOK, Insertable
  <2>3. req[r].at # "query"
    <3>1. SUFFICES ASSUME DbGet(r) PROVE FALSE
      BY <1>4 DEF Serve, Waiting, CheckAlias, ClaimAlias, CreateURL, RetryWithHash,
         BloomAdd, BloomCheck, CacheGet, ChooseTTL, CacheSet, DbDelete, CacheDelete
    <3>2. req[r] \in Request /\ req \in [Requests -> Request \cup {None}]
      BY <1>1, <1>4, ServeSlot DEF TypeOK
    <3>3. ~Goto(r, "404")
      BY <1>1, <3>2 DEF Goto, Request
    <3>4. Serveable(c)
      BY <2>1, <3>1, <3>3 DEF DbGet, Waiting
    <3>5. QED
      BY <3>4 DEF Serveable, Gone
  <2>4. req[r].at \in {"bloom", "ttl", "set"}
    BY <1>1, <1>4, <2>2, <2>3, Follows
  <2>5. QED
    BY <1>1, <2>1, <2>4 DEF Fillers
<1>5. QED
  BY <1>1, <1>2, <1>3, <1>4, OneMoves

\* A write of the entry: the SET of a request that has a sending less from then on.
WrittenBy(r, c) ==
    /\ SetURL(req[r])
    /\ r \in Fillers(c)' => req'[r].sends < req[r].sends

LEMMA EntryStep ==
    ASSUME TypeOK, [Next]_vars, NEW c \in Codes
    PROVE  \/ cache'[c] \in {cache[c], None, Age(cache[c])}
           \/ \E r \in Fillers(c) : WrittenBy(r, c)
<1>1. ASSUME NEW r \in Requests, CacheSet(r), cache'[c] # cache[c]
      PROVE  r \in Fillers(c) /\ WrittenBy(r, c)
  <2>1. /\ req[r] # None /\ req[r].at = "set" /\ SetURL(req[r])
        /\ req[r] \in Request /\ req \in [Requests -> Request \cup {None}]
    BY <1>1 DEF CacheSet, Waiting, TypeOK
  <2>2. req[r].code = c
    BY <1>1, <2>1 DEF SetURL, TypeOK
  <2>3. PICK a \in {"201", "302", "set"}, sends \in 0..Attempts :
          /\ req' = [req EXCEPT ![r] = AfterSet(req[r], a, sends)]
          /\ a = "set" => sends < req[r].sends
    BY <1>1, CacheSetStep
  <2>4. req'[r].at = a /\ req'[r].sends = sends
    BY <2>1, <2>3 DEF AfterSet, Request
  <2>5. r \in Fillers(c)' => a = "set"
    BY <2>4 DEF Fillers
  <2>6. QED
    BY <2>1, <2>2, <2>3, <2>4, <2>5 DEF Fillers, WrittenBy
<1>2. ASSUME NEW r \in Requests, CacheDelete(r) PROVE cache'[c] \in {cache[c], None}
  BY <1>2 DEF CacheDelete, InvalidateURL, TypeOK
<1>3. ASSUME NEW d \in Codes, CacheEvict(d) PROVE cache'[c] \in {cache[c], None}
  BY <1>3 DEF CacheEvict, TypeOK
<1>4. RedisRestart => cache'[c] = None
  BY DEF RedisRestart
<1>5. Tick => cache'[c] = Age(cache[c])
  BY DEF Tick
<1>6. QED
  BY <1>1, <1>2, <1>3, <1>4, <1>5, StartUnchanged DEF Next, Serve, CheckAlias, ClaimAlias,
     CreateURL, RetryWithHash, BloomAdd, BloomCheck, CacheGet, DbGet, ChooseTTL,
     DbDelete, Finish, Crash, vars

\* A link that is deactivated or has run out stays so, and what may still put it
\* in the cache is bounded at that moment: the SETs, and their repeats by the
\* Redis client, of the requests that had read or inserted the row by then; and
\* what they put ages like any other entry.  This is what lets such links fade
\* (url_service.go:118 and 167); a cache that could be refilled from itself or by
\* later requests would never forget them.
THEOREM OnlyFillersRevive == Spec => GoneFades
<1> DEFINE Fades(c) ==
       /\ Dead(c)'
       /\ Fillers(c)' \subseteq Fillers(c)
       /\ \/ cache'[c] \in {cache[c], None, Age(cache[c])}
          \/ \E r \in Fillers(c) :
               /\ SetURL(req[r])
               /\ r \in Fillers(c)' => req'[r].sends < req[r].sends
<1>1. TypeOK /\ [Next]_vars =>
        \A c \in Codes : Dead(c) => Fades(c)
  <2>1. SUFFICES ASSUME TypeOK, [Next]_vars, NEW c \in Codes, Dead(c)
                 PROVE  Fades(c)
    OBVIOUS
  <2>2. db[c] # None /\ Gone(c)
    BY <2>1 DEF Dead, Gone, Visible
  <2>3. db'[c] # None
    BY <2>1, <2>2, StepKeeps DEF RowKept
  <2>4. Dead(c)'
    BY <2>1, <2>2, <2>3, GoneStays DEF Gone, Visible, Dead
  <2>5. Fillers(c)' \subseteq Fillers(c)
    BY <2>1, <2>2, NoNewFiller
  <2>6. \/ cache'[c] \in {cache[c], None, Age(cache[c])}
        \/ \E r \in Fillers(c) :
             /\ SetURL(req[r])
             /\ r \in Fillers(c)' => req'[r].sends < req[r].sends
    BY <2>1, EntryStep DEF WrittenBy
  <2>7. QED
    BY <2>4, <2>5, <2>6
<1>2. QED
  BY <1>1, TypeCorrect, PTL DEF Spec, GoneFades
=============================================================================
