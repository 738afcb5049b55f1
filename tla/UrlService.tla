----------------------------- MODULE UrlService -----------------------------
(***************************************************************************)
(* The URL service of the Go API (internal/service/url_service.go and      *)
(* bloom_service.go, the handlers that call them, the Postgres repository  *)
(* and the Redis cache and Bloom filter below them).  Several API nodes    *)
(* serve shorten, resolve and delete requests over one Postgres table, one *)
(* Redis and a Bloom filter that each node keeps in its own memory.        *)
(*                                                                         *)
(* A request is a record that remembers what its handler holds in local    *)
(* variables.  Every step of a request is one call to Postgres or Redis,   *)
(* or one read of the clock, with the local code up to the next one; the   *)
(* steps of different requests interleave.                                 *)
(*                                                                         *)
(* Time is relative: exp and ttl say how many ticks are left, and Tick     *)
(* takes one from each.  exp = 0 is the instant of expiry, -1 any later    *)
(* time, so that no bound on the clock is needed.                          *)
(*                                                                         *)
(* A request refused before its first call (bad JSON, an alias the regexp  *)
(* refuses, a missing or unknown API key) changes nothing and is a         *)
(* stuttering step; listing links only reads the table.                    *)
(***************************************************************************)
EXTENDS Integers, FiniteSets

CONSTANTS
    Nodes,        \* API processes
    Requests,     \* slots for the requests in flight
    Codes,        \* short codes, whoever chooses them
    Aliases,      \* the codes users ask for
    GenCodes,     \* the codes Snowflake and Base62 may produce
    HashCodes,    \* the codes the MD5 fallback may produce
    TooLong,      \* codes longer than the column's ten characters
    LongURLs,     \* redirect targets
    Users,        \* owners of API keys
    NoUser,       \* a client without a key
    Lifetimes,    \* the expiries clients ask for, NoExpiry for none; -1: a
                  \* ttl_seconds whose nanoseconds wrap to a time in the past
    NoExpiry,     \* a NULL expires_at
    CacheTTL,     \* 24 hours, in ticks
    Attempts,     \* times the Redis client sends a command, 1 + MaxRetries
    None,         \* no row, no cache entry, no request, no value
    RedisFaults,  \* TRUE: Redis calls may fail, Redis may lose its data
    DbFaults,     \* TRUE: Postgres calls may fail, applied or not
    Crashes       \* TRUE: a node may go down and come back empty

VARIABLES
    db,           \* db[c]: the row of code c in the table urls, or None
    cache,        \* cache[c]: the Redis string url:c with its TTL, or None
    redisBloom,   \* the codes added to the Redis filter bloom:urls
    localFilter,  \* localFilter[n]: the codes added to node n's own filter
    req,          \* req[r]: the request in slot r, or None
    acked,        \* history: the codes node n answered 201 since it started
    deleted       \* history: the codes deactivated before a delete's 200

vars == <<db, cache, redisBloom, localFilter, req, acked, deleted>>

Owners == Users \cup {NoUser}
Expiry == {e \in Int : e >= -1} \cup {NoExpiry}

Row == [long: LongURLs, owner: Owners, exp: Expiry, active: BOOLEAN]

Entry == [long: LongURLs, ttl: 1..CacheTTL]

Calls == {"check", "claim", "create", "retry", "bloom", "ttl", "set",
          "filter", "get", "query", "update", "invalidate"}
Replies == {"201", "302", "400", "404", "200", "500"}

\* What was true when a request came in, for the properties to look back at.
Flags == {"here", "elsewhere", "deleted", "own"}

Request == [at: Calls \cup Replies, op: {"shorten", "resolve", "delete"},
            node: Nodes, user: Owners, code: Codes,
            long: LongURLs \cup {None}, exp: Expiry, ttl: 0..CacheTTL,
            sends: 0..Attempts, seen: SUBSET Flags]

ASSUME CodesAssumption ==
    /\ Aliases \subseteq Codes
    /\ GenCodes \subseteq Codes
    /\ HashCodes \subseteq Codes
    /\ TooLong \subseteq Codes
ASSUME TimeAssumption ==
    /\ CacheTTL \in Nat \ {0}
    /\ NoExpiry \notin Int
    /\ Lifetimes \subseteq (Nat \ {0}) \cup {-1, NoExpiry}
ASSUME AttemptsAssumption == Attempts \in Nat \ {0}
ASSUME NoneAssumption ==
    /\ None \notin Row
    /\ None \notin Entry
    /\ None \notin Request
    /\ None \notin LongURLs
    /\ None \notin [long: LongURLs, owner: Owners, active: BOOLEAN]
    /\ NoUser \notin Users
ASSUME SwitchAssumption ==
    /\ RedisFaults \in BOOLEAN
    /\ DbFaults \in BOOLEAN
    /\ Crashes \in BOOLEAN

\* Which handler makes a call, and what it holds by then.
HandlerOK(q) ==
    /\ q.at \in {"check", "claim", "create", "retry", "bloom", "201"} =>
          q.op = "shorten"
    /\ q.at \in {"filter", "get", "query", "302"} => q.op = "resolve"
    /\ q.at \in {"ttl", "set"} => q.op \in {"shorten", "resolve"}
    /\ q.at \in {"update", "invalidate"} => q.op = "delete"
    /\ q.op = "delete" => q.user \in Users
    /\ q.op = "shorten" => q.long \in LongURLs
    /\ q.at \in {"ttl", "set", "302"} => q.long \in LongURLs
    /\ q.at = "set" => q.ttl >= 1

\* The types of the variables, and which handler each request is in.
TypeOK ==
    /\ db \in [Codes -> Row \cup {None}]
    /\ cache \in [Codes -> Entry \cup {None}]
    /\ redisBloom \in SUBSET Codes
    /\ localFilter \in [Nodes -> SUBSET Codes]
    /\ req \in [Requests -> Request \cup {None}]
    /\ \A r \in Requests : req[r] # None => HandlerOK(req[r])
    /\ acked \in [Nodes -> SUBSET Codes]
    /\ deleted \in SUBSET Codes

Init ==
    /\ db = [c \in Codes |-> None]
    /\ cache = [c \in Codes |-> None]
    /\ redisBloom = {}
    /\ localFilter = [n \in Nodes |-> {}]
    /\ req = [r \in Requests |-> None]
    /\ acked = [n \in Nodes |-> {}]
    /\ deleted = {}

-----------------------------------------------------------------------------
(* Time and expiry.  A definition named after another one with a suffix after *)
(* an underscore is that operator with a bug in it: the properties have to   *)
(* notice the difference (README, "Mutants").                                *)

Expired(e) == e # NoExpiry /\ e < 0

CacheTTLFor_NoFloor(e) == IF e # NoExpiry /\ e < CacheTTL THEN e ELSE CacheTTL

\* The TTL of a cache entry: the time left when it is positive and under 24
\* hours, else 24 hours, for a link that has run out meanwhile as well.
CacheTTLFor(e) == IF e # NoExpiry /\ 0 < e /\ e < CacheTTL THEN e ELSE CacheTTL

Elapse(e) == IF e = NoExpiry \/ e = -1 THEN e ELSE e - 1

\* A cache entry one tick later.
Age(x) == IF x = None THEN None
          ELSE IF x.ttl = 1 THEN None ELSE [x EXCEPT !.ttl = @ - 1]

(* The table *)

\* The row GetByShortCode returns: it selects active rows only.
Visible_AnyRow(c) == db[c] # None
Visible(c) == db[c] # None /\ db[c].active

\* The row ResolveURL answers from.
Serveable_NoExpiry(c) == Visible(c)
Serveable(c) == Visible(c) /\ ~Expired(db[c].exp)

\* The unique index on short_code covers inactive rows too.
Insertable(c) == db[c] = None /\ c \notin TooLong

RowOf(q) == [long |-> q.long, owner |-> q.user, exp |-> q.exp, active |-> TRUE]

InsertOK_Upsert(q) ==
    /\ q.code \notin TooLong
    /\ db' = [db EXCEPT ![q.code] = RowOf(q)]

InsertOK(q) ==
    /\ Insertable(q.code)
    /\ db' = [db EXCEPT ![q.code] = RowOf(q)]

\* The caller sees an error: a refusal, a fault before the commit, or a fault
\* after it.  A statement that database/sql sends again after its commit is
\* refused by its own row, which is the last case.
InsertError(q) ==
    \/ ~Insertable(q.code) /\ UNCHANGED db
    \/ DbFaults /\ UNCHANGED db
    \/ DbFaults /\ InsertOK(q)

Deactivate_AnyOwner(q) ==
    IF db[q.code] # None
    THEN db' = [db EXCEPT ![q.code].active = FALSE]
    ELSE UNCHANGED db

Deactivate_Remove(q) ==
    IF db[q.code] # None /\ db[q.code].owner = q.user
    THEN db' = [db EXCEPT ![q.code] = None]
    ELSE UNCHANGED db

\* A user's delete changes the user's own row, or none and still no error.
Deactivate(q) ==
    IF db[q.code] # None /\ db[q.code].owner = q.user
    THEN db' = [db EXCEPT ![q.code].active = FALSE]
    ELSE UNCHANGED db

(* The cache *)

SetURL(q) ==
    \/ cache' = [cache EXCEPT ![q.code] = [long |-> q.long, ttl |-> q.ttl]]
    \/ RedisFaults /\ UNCHANGED cache

\* A DEL, like a BF.ADD, that is executed once more finds nothing to do, or is a
\* CacheEvict.
InvalidateURL(q) ==
    \/ cache' = [cache EXCEPT ![q.code] = None]
    \/ RedisFaults /\ UNCHANGED cache

(* The Bloom filters.  A filter never rejects what was added to it, and may *)
(* pass what was not; the Redis filter passes everything when it fails.     *)

LocalAdd_Skipped(q) == UNCHANGED localFilter

LocalAdd(q) == localFilter' = [localFilter EXCEPT ![q.node] = @ \cup {q.code}]

RedisAdd(q) ==
    \/ redisBloom' = redisBloom \cup {q.code}
    \/ RedisFaults /\ UNCHANGED redisBloom

Rejectable(n, c) == c \notin localFilter[n] \/ c \notin redisBloom

-----------------------------------------------------------------------------
(* Shortening a link *)

Begin(r, q) == req[r] = None /\ req' = [req EXCEPT ![r] = q]

\* The request in slot r, whose next call is the one named.
Waiting(r, call) == req[r] # None /\ req[r].at = call

Goto(r, at) == req' = [req EXCEPT ![r].at = at]

\* The code comes from the user, or from this process with no call at all.
ShortenStart(r) ==
    /\ \E n \in Nodes, u \in Owners, l \in LongURLs :
         \/ \E c \in Aliases :
              Begin(r, [at |-> "check", op |-> "shorten", node |-> n,
                        user |-> u, code |-> c, long |-> l, exp |-> NoExpiry,
                        ttl |-> 0, sends |-> 0, seen |-> {}])
         \/ \E c \in GenCodes, e \in Lifetimes :
              Begin(r, [at |-> "create", op |-> "shorten", node |-> n,
                        user |-> u, code |-> c, long |-> l, exp |-> e,
                        ttl |-> 0, sends |-> 0, seen |-> {}])
    /\ UNCHANGED <<db, cache, redisBloom, localFilter, acked, deleted>>

\* Is the alias taken?  Only active rows count; expiresAt is computed after.
CheckAlias(r) ==
    /\ Waiting(r, "check")
    /\ \/ Visible(req[r].code) /\ Goto(r, "400")
       \/ DbFaults /\ Goto(r, "400")
       \/ /\ ~Visible(req[r].code)
          /\ \E e \in Lifetimes :
               req' = [req EXCEPT ![r] = [@ EXCEPT !.at = "claim", !.exp = e]]
    /\ UNCHANGED <<db, cache, redisBloom, localFilter, acked, deleted>>

\* A custom alias that cannot be inserted is an error.
ClaimAlias(r) ==
    /\ Waiting(r, "claim")
    /\ \/ InsertOK(req[r]) /\ Goto(r, "bloom")
       \/ InsertError(req[r]) /\ Goto(r, "400")
    /\ UNCHANGED <<cache, redisBloom, localFilter, acked, deleted>>

\* A generated code that cannot be inserted is replaced by a hash.
CreateURL(r) ==
    /\ Waiting(r, "create")
    /\ \/ InsertOK(req[r]) /\ Goto(r, "bloom")
       \/ /\ InsertError(req[r])
          /\ \E h \in HashCodes :
               req' = [req EXCEPT ![r] = [@ EXCEPT !.at = "retry", !.code = h]]
    /\ UNCHANGED <<cache, redisBloom, localFilter, acked, deleted>>

RetryWithHash(r) ==
    /\ Waiting(r, "retry")
    /\ \/ InsertOK(req[r]) /\ Goto(r, "bloom")
       \/ InsertError(req[r]) /\ Goto(r, "400")
    /\ UNCHANGED <<cache, redisBloom, localFilter, acked, deleted>>

\* bloomService.Add: the local filter always, the Redis one if BF.ADD works.
BloomAdd(r) ==
    /\ Waiting(r, "bloom")
    /\ LocalAdd(req[r])
    /\ RedisAdd(req[r])
    /\ Goto(r, "ttl")
    /\ UNCHANGED <<db, cache, acked, deleted>>

-----------------------------------------------------------------------------
(* Resolving a code *)

ResolveStart(r) ==
    /\ \E n \in Nodes, c \in Codes :
         LET seen == {f \in Flags :
                        \/ f = "here" /\ c \in acked[n]
                        \/ f = "elsewhere" /\ \E m \in Nodes \ {n} : c \in acked[m]
                        \/ f = "deleted" /\ c \in deleted}
         IN Begin(r, [at |-> "filter", op |-> "resolve", node |-> n,
                      user |-> NoUser, code |-> c, long |-> None,
                      exp |-> NoExpiry, ttl |-> 0, sends |-> 0, seen |-> seen])
    /\ UNCHANGED <<db, cache, redisBloom, localFilter, acked, deleted>>

\* bloomService.MightContain: both filters have to pass the code.
BloomCheck(r) ==
    /\ Waiting(r, "filter")
    /\ \/ Rejectable(req[r].node, req[r].code) /\ Goto(r, "404")
       \/ Goto(r, "get")
    /\ UNCHANGED <<db, cache, redisBloom, localFilter, acked, deleted>>

\* GetURL: a hit is answered as it is, an error counts as a miss.
CacheGet(r) ==
    LET hit == cache[req[r].code] IN
    /\ Waiting(r, "get")
    /\ \/ /\ hit # None
          /\ req' = [req EXCEPT ![r] =
                       [@ EXCEPT !.at = "302", !.long = hit.long]]
       \/ hit = None /\ Goto(r, "query")
       \/ RedisFaults /\ Goto(r, "query")
    /\ UNCHANGED <<db, cache, redisBloom, localFilter, acked, deleted>>

\* GetByShortCode, then the expiry check on the row it returned.
DbGet(r) ==
    LET c == req[r].code IN
    /\ Waiting(r, "query")
    /\ \/ DbFaults /\ Goto(r, "404")
       \/ ~Serveable(c) /\ Goto(r, "404")
       \/ /\ Serveable(c)
          /\ req' = [req EXCEPT ![r] =
                       [@ EXCEPT !.at = "ttl", !.long = db[c].long,
                                 !.exp = db[c].exp]]
    /\ UNCHANGED <<db, cache, redisBloom, localFilter, acked, deleted>>

-----------------------------------------------------------------------------
(* Filling the cache: the last two steps of shortening and resolving *)

\* time.Until reads the clock again: the link may have run out by now.
ChooseTTL(r) ==
    /\ Waiting(r, "ttl")
    /\ req' = [req EXCEPT ![r] =
                 [@ EXCEPT !.at = "set", !.ttl = CacheTTLFor(req[r].exp),
                           !.sends = Attempts]]
    /\ UNCHANGED <<db, cache, redisBloom, localFilter, acked, deleted>>

\* SetURL, and the answer to the client, or the same SET once more: the Redis
\* client sends it again when the connection broke, executed or not.
CacheSet(r) ==
    LET q == req[r] IN
    /\ Waiting(r, "set")
    /\ SetURL(q)
    /\ \/ /\ q.op = "shorten"
          /\ req' = [req EXCEPT ![r] = [@ EXCEPT !.at = "201", !.sends = 0]]
          /\ acked' = [acked EXCEPT ![q.node] = @ \cup {q.code}]
       \/ /\ q.op = "resolve"
          /\ req' = [req EXCEPT ![r] = [@ EXCEPT !.at = "302", !.sends = 0]]
          /\ UNCHANGED acked
       \/ /\ RedisFaults
          /\ q.sends > 1
          /\ req' = [req EXCEPT ![r].sends = @ - 1]
          /\ UNCHANGED acked
    /\ UNCHANGED <<db, redisBloom, localFilter, deleted>>

-----------------------------------------------------------------------------
(* Deleting a link *)

\* RequireAuth has found a user for the key.
DeleteStart(r) ==
    /\ \E n \in Nodes, u \in Users, c \in Codes :
         Begin(r, [at |-> "update", op |-> "delete", node |-> n, user |-> u,
                   code |-> c, long |-> None, exp |-> NoExpiry, ttl |-> 0,
                   sends |-> 0,
                   seen |-> {f \in Flags :
                               f = "own" /\ db[c] # None /\ db[c].owner = u}])
    /\ UNCHANGED <<db, cache, redisBloom, localFilter, acked, deleted>>

\* The error of the UPDATE is dropped.
DbDelete_ErrorDropped(r) ==
    /\ Waiting(r, "update")
    /\ \/ Deactivate(req[r])
       \/ DbFaults /\ UNCHANGED db
    /\ Goto(r, "invalidate")
    /\ UNCHANGED <<cache, redisBloom, localFilter, acked, deleted>>

\* The UPDATE, which database/sql sends again on a bad connection.
DbDelete(r) ==
    /\ Waiting(r, "update")
    /\ \/ Deactivate(req[r]) /\ Goto(r, "invalidate")
       \/ DbFaults /\ Deactivate(req[r]) /\ (Goto(r, "500") \/ UNCHANGED req)
       \/ DbFaults /\ UNCHANGED db /\ Goto(r, "500")
    /\ UNCHANGED <<cache, redisBloom, localFilter, acked, deleted>>

CacheDelete(r) ==
    LET c == req[r].code IN
    /\ Waiting(r, "invalidate")
    /\ InvalidateURL(req[r])
    /\ Goto(r, "200")
    /\ deleted' = deleted \cup (IF Visible(c) \/ db[c] = None THEN {} ELSE {c})
    /\ UNCHANGED <<db, redisBloom, localFilter, acked>>

-----------------------------------------------------------------------------
(* The rest of the world *)

\* The client has the answer; the slot is free for another request.
Finish(r) ==
    /\ req[r] # None
    /\ req[r].at \in Replies
    /\ req' = [req EXCEPT ![r] = None]
    /\ UNCHANGED <<db, cache, redisBloom, localFilter, acked, deleted>>

\* A node stops between two steps and starts again with an empty filter.
Crash(n) ==
    /\ Crashes
    /\ localFilter' = [localFilter EXCEPT ![n] = {}]
    /\ acked' = [acked EXCEPT ![n] = {}]
    /\ req' = [r \in Requests |->
                 IF req[r] # None /\ req[r].node = n THEN None ELSE req[r]]
    /\ UNCHANGED <<db, cache, redisBloom, deleted>>

\* Redis drops a key, or comes back without its data.
CacheEvict(c) ==
    /\ RedisFaults
    /\ cache' = [cache EXCEPT ![c] = None]
    /\ UNCHANGED <<db, redisBloom, localFilter, req, acked, deleted>>

RedisRestart ==
    /\ RedisFaults
    /\ cache' = [c \in Codes |-> None]
    /\ redisBloom' = {}
    /\ UNCHANGED <<db, localFilter, req, acked, deleted>>

\* A tick of the clock that Postgres rows, Redis keys and handlers share.
Tick ==
    /\ db' = [c \in Codes |->
                IF db[c] = None THEN None
                ELSE [db[c] EXCEPT !.exp = Elapse(@)]]
    /\ cache' = [c \in Codes |-> Age(cache[c])]
    /\ req' = [r \in Requests |->
                 IF req[r] = None THEN None
                 ELSE [req[r] EXCEPT !.exp = Elapse(@)]]
    /\ UNCHANGED <<redisBloom, localFilter, acked, deleted>>

\* A step of a request that has come in already.
Serve(r) ==
    \/ CheckAlias(r) \/ ClaimAlias(r) \/ CreateURL(r) \/ RetryWithHash(r)
    \/ BloomAdd(r)
    \/ BloomCheck(r) \/ CacheGet(r) \/ DbGet(r)
    \/ ChooseTTL(r) \/ CacheSet(r)
    \/ DbDelete(r) \/ CacheDelete(r)

Start(r) == ShortenStart(r) \/ ResolveStart(r) \/ DeleteStart(r)

Next ==
    \/ \E r \in Requests : Start(r) \/ Serve(r) \/ Finish(r)
    \/ \E n \in Nodes : Crash(n)
    \/ \E c \in Codes : CacheEvict(c)
    \/ RedisRestart
    \/ Tick

Spec == Init /\ [][Next]_vars

\* Every call returns in the end, with an error if need be (the Redis client
\* and the HTTP server have timeouts), and time passes.
Fairness ==
    /\ \A r \in Requests : WF_vars(Serve(r))
    /\ WF_vars(Tick)

FairSpec == Spec /\ Fairness

-----------------------------------------------------------------------------
(* Safety *)

\* A request that has inserted its row, or read one, and still answers or
\* caches from its local variables.
Holds(q, c) == /\ q # None
               /\ q.code = c
               /\ \/ q.op = "shorten" /\ q.at \in {"bloom", "ttl", "set", "201"}
                  \/ q.op = "resolve" /\ q.at \in {"ttl", "set", "302"}

\* The local variables a handler fills the cache and answers from agree with
\* the row of the code at every later moment, whatever other requests, crashes
\* and failed calls come between: the window from url_service.go:92 or 145 to
\* the SetURL is harmless for the target.
HolderHasRow ==
    \A r \in Requests, c \in Codes :
        Holds(req[r], c) =>
            /\ db[c] # None
            /\ db[c].long = req[r].long
            /\ req[r].op = "shorten" => db[c].owner = req[r].user
            /\ req[r].op = "shorten" => db[c].exp = req[r].exp

\* The cache never binds a code to another target than the table does, and
\* never answers for a code the table does not know, although it is filled
\* from values read earlier and its calls may fail (redis.go:37).
CacheMirrorsDb ==
    \A c \in Codes :
        cache[c] # None => db[c] # None /\ db[c].long = cache[c].long

\* Two clients are never both told that they created the same code, whether
\* they race for an alias between its check and its insert (url_service.go:56
\* and 92) or meet in the fallback (line 98).
Winner(q) == q # None /\ q.op = "shorten" /\ q.at \in {"bloom", "ttl", "set", "201"}

OneCreator ==
    \A r, s \in Requests :
        Winner(req[r]) /\ Winner(req[s]) /\ req[r].code = req[s].code => r = s

\* A request to shorten is refused only because some link has its code
\* (url_service.go:61, the unique index for the race) or the code does not fit
\* the column, when Postgres works: a race leaves no code unusable.
RefusedOnlyIfTaken ==
    \A r \in Requests :
        req[r] # None /\ req[r].at = "400" =>
            db[req[r].code] # None \/ req[r].code \in TooLong

\* The creator of a link finds it: a client that got 201 from a node and asks
\* the same node, up since, gets a 404 (url_handler.go:59) only for a link that
\* has been deactivated or has run out, or whose BF.ADD Redis has missed or
\* forgotten (bloom.go:17): a failing Redis alone never hides a link.
ReadYourWrites ==
    \A r \in Requests :
        req[r] # None /\ req[r].at = "404" /\ "here" \in req[r].seen =>
            \/ ~Visible(req[r].code) \/ Expired(db[req[r].code].exp)
            \/ req[r].code \notin redisBloom

\* A link whose delete was answered 200 "URL successfully deactivated"
\* (url_handler.go:92) is not answered to a request that comes in later.
DeletedNotServed ==
    \A r \in Requests :
        req[r] # None /\ req[r].at = "302" => "deleted" \notin req[r].seen

\* A delete of one's own link that is answered 200 has deactivated it, whatever
\* failed on the way and whoever claims the code again (url_service.go:183).
DeleteReplyTrue ==
    \A r \in Requests :
        req[r] # None /\ req[r].at = "200" /\ "own" \in req[r].seen =>
            ~Visible(req[r].code)

\* A link one node has answered 201 for is found through every other node.
FoundElsewhere ==
    \A r \in Requests :
        req[r] # None /\ req[r].at = "404" /\ "elsewhere" \in req[r].seen =>
            ~Visible(req[r].code) \/ Expired(db[req[r].code].exp)

-----------------------------------------------------------------------------
(* What the clients see is what UrlMap promises *)

LinkOf(row) == [long |-> row.long, owner |-> row.owner, active |-> row.active]

AnswerOf(q) == IF q # None /\ q.at \in {"201", "302"}
               THEN [code |-> q.code, long |-> q.long]
               ELSE None

Abstract == INSTANCE UrlMap WITH
    links <- [c \in Codes |-> IF db[c] = None THEN None ELSE LinkOf(db[c])],
    answers <- [r \in Requests |-> AnswerOf(req[r])]

\* Codes are bound once and for ever, deactivated by their owner only, and
\* every 201 and 302 names the target its code is bound to.
ImplementsUrlMap == Abstract!Spec

-----------------------------------------------------------------------------
(* What is gone *)

\* The requests that may still fill the cache for code c from what they hold.
Fillers(c) ==
    {r \in Requests : req[r] # None /\ req[r].code = c /\ req[r].at \in {"bloom", "ttl", "set"}}

Dead(c) == db[c] # None /\ (~db[c].active \/ Expired(db[c].exp))

\* A link that is deactivated or has run out stays gone.  Only a request that had
\* inserted or read its row by then writes its cache entry any more, and only as
\* often as its SET is sent (url_service.go:118 and 167): the entry ages or goes
\* otherwise.  (Redis with an older image of its cache is not modelled.)
GoneFades ==
    [][\A c \in Codes :
          Dead(c) =>
            /\ Dead(c)'
            /\ Fillers(c)' \subseteq Fillers(c)
            /\ \/ cache'[c] \in {cache[c], None, Age(cache[c])}
               \/ \E r \in Fillers(c) :
                    /\ SetURL(req[r])
                    /\ r \in Fillers(c)' => req'[r].sends < req[r].sends]_vars

-----------------------------------------------------------------------------
(* Liveness *)

\* A deactivated link leaves the cache for good: an in-flight request may put
\* it back after the DEL (url_service.go:167), but only so many, and the TTL
\* removes what they put.
DeactivatedFades ==
    \A c \in Codes :
        (db[c] # None /\ ~db[c].active) ~> [](cache[c] = None)

\* An expired link leaves the cache for good, even when it is cached for a
\* whole day past its expiry (url_service.go:110 and 160).
ExpiredFades ==
    \A c \in Codes :
        (db[c] # None /\ Expired(db[c].exp)) ~> [](cache[c] = None)
=============================================================================
