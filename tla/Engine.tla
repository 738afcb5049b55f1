------------------------------- MODULE Engine -------------------------------
(***************************************************************************)
(* The standalone engine (engine/main.py, engine/nanolink_core.py): one    *)
(* process whose request threads share an in-memory cache and a Bloom      *)
(* filter, each behind a lock, over a SQLite file that outlives it.        *)
(*                                                                         *)
(* As in UrlService, a request is a record with its handler's local        *)
(* variables, a step is one locked section or one SQL statement with its   *)
(* commit, and time is relative: Tick takes one from every time left.      *)
(* The click events of a redirect are left to a module of their own.       *)
(*                                                                         *)
(* A request that is refused before its first step, by the rate limiter or *)
(* for its form, and one that only reads (list, stats, QR code), is a      *)
(* stuttering step.                                                        *)
(***************************************************************************)
EXTENDS Integers

CONSTANTS
    Requests,     \* slots for the requests in flight
    Codes,        \* short codes
    Aliases,      \* the codes users ask for
    GenCodes,     \* the codes Snowflake and Base62 may produce
    LongURLs,     \* redirect targets
    Users,        \* API keys; any key is a user
    NoUser,       \* a client without a key
    TTLs,         \* the ttl_seconds clients send, Never for none or 0
    Never,        \* no expiry
    Day,          \* 86400 seconds, in ticks
    None,         \* no row, no cache entry, no request, no value
    Bits,         \* positions in the filter's bit array
    Hash,         \* Hash[c]: the positions of code c
    DbFaults,     \* TRUE: a SQL statement may fail (the file is locked)
    Crashes       \* TRUE: the process may stop and start again

VARIABLES
    db,           \* db[c]: the row of code c in the table urls, or None
    cache,        \* cache[c]: the entry of storage.cache, or None
    filter,       \* the bits set in bloom_filter
    req,          \* req[r]: the request in slot r, or None
    acked         \* history: the codes answered 201

vars == <<db, cache, filter, req, acked>>

Owners == Users \cup {NoUser}
TimeLeft == {t \in Int : t >= -1} \cup {Never}

Row == [long: LongURLs, owner: Owners, exp: TimeLeft, active: BOOLEAN]
Entry == [long: LongURLs, ttl: TimeLeft]

Steps == {"check", "insert", "add", "set", "filter", "get", "query", "fill",
          "count", "update", "drop"}
Replies == {"201", "302", "400", "404", "200", "500"}

\* known: the code had been answered 201 when the request came in; rows: how
\* many rows the UPDATE of a delete has matched.
Request == [at: Steps \cup Replies, op: {"shorten", "redirect", "delete"},
            user: Owners, code: Codes, long: LongURLs \cup {None},
            ttl: TimeLeft, exp: TimeLeft, rows: {0, 1}, known: BOOLEAN]

ASSUME CodesAssumption ==
    /\ Aliases \subseteq Codes
    /\ GenCodes \subseteq Codes
    /\ Hash \in [Codes -> SUBSET Bits]
ASSUME TimeAssumption ==
    /\ Day \in Nat \ {0}
    /\ Never \notin Int
    /\ TTLs \subseteq ({-1} \cup (Nat \ {0}) \cup {Never})
ASSUME NoneAssumption ==
    /\ None \notin Row
    /\ None \notin Entry
    /\ None \notin Request
    /\ None \notin LongURLs
    /\ None \notin [long: LongURLs, owner: Owners, active: BOOLEAN]
    /\ NoUser \notin Users
ASSUME SwitchAssumption == DbFaults \in BOOLEAN /\ Crashes \in BOOLEAN

\* Which handler takes a step, and what it holds by then.
HandlerOK(q) ==
    /\ q.at \in {"check", "insert", "add", "set", "201", "400"} => q.op = "shorten"
    /\ q.at \in {"filter", "get", "query", "fill", "count", "302"} =>
          q.op = "redirect"
    /\ q.at \in {"update", "drop", "200"} => q.op = "delete" /\ q.user \in Users
    /\ q.op = "shorten" => q.long \in LongURLs
    /\ q.at \in {"fill", "count", "302"} => q.long \in LongURLs

\* The types of the variables, and which handler each request is in.
TypeOK ==
    /\ db \in [Codes -> Row \cup {None}]
    /\ cache \in [Codes -> Entry \cup {None}]
    /\ filter \in SUBSET Bits
    /\ req \in [Requests -> Request \cup {None}]
    /\ \A r \in Requests : req[r] # None => HandlerOK(req[r])
    /\ acked \in SUBSET Codes

\* The first start, on a file without rows.
Init ==
    /\ db = [c \in Codes |-> None]
    /\ cache = [c \in Codes |-> None]
    /\ filter = {}
    /\ req = [r \in Requests |-> None]
    /\ acked = {}

-----------------------------------------------------------------------------
(* Time, the filter and the cache.  A suffix after an underscore marks the   *)
(* operator before it with a bug in it (README, "Mutants").                  *)

\* time.time() > expire_ts, datetime.now() > exp
Expired(t) == t # Never /\ t < 0

Elapse(t) == IF t = Never \/ t = -1 THEN t ELSE t - 1

\* A row expires for a positive ttl_seconds only.
ExpiryOf(ttl) == IF ttl = -1 THEN Never ELSE ttl

Contains(c) == Hash[c] \subseteq filter

Visible(c) == db[c] # None /\ db[c].active

\* The filter a new process builds from the rows that are active.
Populated_None == {}
Populated == UNION {Hash[c] : c \in {d \in Codes : Visible(d)}}

\* What the redirect answers from the table.
Serveable(c) == Visible(c) /\ ~Expired(db[c].exp)

\* An entry that has run out is removed by the next get.
Hit(c) == cache[c] # None /\ ~Expired(cache[c].ttl)

SetCache(c, l, t) == cache' = [cache EXCEPT ![c] = [long |-> l, ttl |-> t]]

-----------------------------------------------------------------------------
(* Requests *)

Begin(r, q) == req[r] = None /\ req' = [req EXCEPT ![r] = q]

\* The request in slot r, whose next step is the one named.
Waiting(r, step) == req[r] # None /\ req[r].at = step

Goto(r, at) == req' = [req EXCEPT ![r].at = at]

\* An exception nobody catches.
Fails(r) == DbFaults /\ Goto(r, "500")

-----------------------------------------------------------------------------
(* shorten_url *)

\* The code is the user's, or Snowflake's in Base62.  now_utc is read when the
\* code is known.
ShortenStart(r) ==
    /\ \E u \in Owners, l \in LongURLs, t \in TTLs :
         \/ \E c \in Aliases :
              Begin(r, [at |-> "check", op |-> "shorten", user |-> u, code |-> c,
                        long |-> l, ttl |-> t, exp |-> Never, rows |-> 0,
                        known |-> FALSE])
         \/ \E c \in GenCodes :
              Begin(r, [at |-> "insert", op |-> "shorten", user |-> u, code |-> c,
                        long |-> l, ttl |-> t, exp |-> ExpiryOf(t), rows |-> 0,
                        known |-> FALSE])
    /\ UNCHANGED <<db, cache, filter, acked>>

\* Is the alias taken?  Only active rows count.
CheckAlias(r) ==
    /\ Waiting(r, "check")
    /\ \/ Fails(r)
       \/ Visible(req[r].code) /\ Goto(r, "400")
       \/ /\ ~Visible(req[r].code)
          /\ req' = [req EXCEPT ![r] =
                       [@ EXCEPT !.at = "insert", !.exp = ExpiryOf(req[r].ttl)]]
    /\ UNCHANGED <<db, cache, filter, acked>>

RowOf(q) == [long |-> q.long, owner |-> q.user, exp |-> q.exp, active |-> TRUE]

Insertable_Replace(c) == TRUE
Insertable(c) == db[c] = None

\* short_code is UNIQUE for inactive rows too; its violation is not caught.
InsertRow(r) ==
    LET c == req[r].code IN
    /\ Waiting(r, "insert")
    /\ \/ /\ Insertable(c)
          /\ db' = [db EXCEPT ![c] = RowOf(req[r])]
          /\ Goto(r, "add")
       \/ ~Insertable(c) /\ Goto(r, "500") /\ UNCHANGED db
       \/ Fails(r) /\ UNCHANGED db
    /\ UNCHANGED <<cache, filter, acked>>

AddToFilter(r) ==
    /\ Waiting(r, "add")
    /\ filter' = filter \cup Hash[req[r].code]
    /\ Goto(r, "set")
    /\ UNCHANGED <<db, cache, acked>>

\* The entry lives ttl_seconds from now on, and for ever for none or 0.
PrewarmCache(r) ==
    LET q == req[r] IN
    /\ Waiting(r, "set")
    /\ SetCache(q.code, q.long, q.ttl)
    /\ Goto(r, "201")
    /\ acked' = acked \cup {q.code}
    /\ UNCHANGED <<db, filter>>

-----------------------------------------------------------------------------
(* redirect_to_url *)

RedirectStart(r) ==
    /\ \E c \in Codes :
         Begin(r, [at |-> "filter", op |-> "redirect", user |-> NoUser, code |-> c,
                   long |-> None, ttl |-> Never, exp |-> Never, rows |-> 0,
                   known |-> c \in acked])
    /\ UNCHANGED <<db, cache, filter, acked>>

CheckFilter(r) ==
    /\ Waiting(r, "filter")
    /\ IF Contains(req[r].code) THEN Goto(r, "get") ELSE Goto(r, "404")
    /\ UNCHANGED <<db, cache, filter, acked>>

\* get_cache, which drops an entry it finds to have run out.
GetCache(r) ==
    LET c == req[r].code IN
    /\ Waiting(r, "get")
    /\ \/ /\ Hit(c)
          /\ req' = [req EXCEPT ![r] =
                       [@ EXCEPT !.at = "count", !.long = cache[c].long]]
          /\ UNCHANGED cache
       \/ /\ ~Hit(c)
          /\ cache' = [cache EXCEPT ![c] = None]
          /\ Goto(r, "query")
    /\ UNCHANGED <<db, filter, acked>>

QueryRow(r) ==
    LET c == req[r].code IN
    /\ Waiting(r, "query")
    /\ \/ Fails(r)
       \/ ~Serveable(c) /\ Goto(r, "404")
       \/ /\ Serveable(c)
          /\ req' = [req EXCEPT ![r] = [@ EXCEPT !.at = "fill", !.long = db[c].long]]
    /\ UNCHANGED <<db, cache, filter, acked>>

FillTTL_Forever == Never
FillTTL == Day

\* A day, however soon the link runs out.
FillCache(r) ==
    /\ Waiting(r, "fill")
    /\ SetCache(req[r].code, req[r].long, FillTTL)
    /\ Goto(r, "count")
    /\ UNCHANGED <<db, filter, acked>>

\* The UPDATE of click_count, then the answer.
CountClick(r) ==
    /\ Waiting(r, "count")
    /\ Goto(r, "302") \/ Fails(r)
    /\ UNCHANGED <<db, cache, filter, acked>>

-----------------------------------------------------------------------------
(* delete_url *)

\* Who gets past the 401: a client with a key.
Deleters_Anyone == Owners
Deleters == Users

DeleteStart(r) ==
    /\ \E u \in Deleters, c \in Codes :
         Begin(r, [at |-> "update", op |-> "delete", user |-> u, code |-> c,
                   long |-> None, ttl |-> Never, exp |-> Never, rows |-> 0,
                   known |-> FALSE])
    /\ UNCHANGED <<db, cache, filter, acked>>

\* The WHERE clause of the UPDATE; a row that is inactive already matches.
Matches(q) == db[q.code] # None /\ db[q.code].owner = q.user

DeactivateRow(r) ==
    LET q == req[r] IN
    /\ Waiting(r, "update")
    /\ \/ /\ Matches(q)
          /\ db' = [db EXCEPT ![q.code].active = FALSE]
          /\ req' = [req EXCEPT ![r] = [@ EXCEPT !.at = "drop", !.rows = 1]]
       \/ ~Matches(q) /\ Goto(r, "drop") /\ UNCHANGED db
       \/ Fails(r) /\ UNCHANGED db
    /\ UNCHANGED <<cache, filter, acked>>

\* The status a delete answers for the rows it has matched.
ReplyFor_Always(rows) == "200"
ReplyFor(rows) == IF rows = 0 THEN "404" ELSE "200"

\* invalidate_cache comes before the answer, whoever asks.
DropEntry(r) ==
    /\ Waiting(r, "drop")
    /\ cache' = [cache EXCEPT ![req[r].code] = None]
    /\ Goto(r, ReplyFor(req[r].rows))
    /\ UNCHANGED <<db, filter, acked>>

-----------------------------------------------------------------------------
(* The rest of the world *)

\* The client has the answer; the slot is free for another request.
Finish(r) ==
    /\ req[r] # None
    /\ req[r].at \in Replies
    /\ req' = [req EXCEPT ![r] = None]
    /\ UNCHANGED <<db, cache, filter, acked>>

\* The process stops between two steps; the file is what is left.
Restart ==
    /\ Crashes
    /\ cache' = [c \in Codes |-> None]
    /\ filter' = Populated
    /\ req' = [r \in Requests |-> None]
    /\ UNCHANGED <<db, acked>>

Tick ==
    /\ db' = [c \in Codes |->
                IF db[c] = None THEN None
                ELSE [db[c] EXCEPT !.exp = Elapse(@)]]
    /\ cache' = [c \in Codes |->
                   IF cache[c] = None THEN None
                   ELSE [cache[c] EXCEPT !.ttl = Elapse(@)]]
    /\ req' = [r \in Requests |->
                 IF req[r] = None THEN None
                 ELSE [req[r] EXCEPT !.exp = Elapse(@)]]
    /\ UNCHANGED <<filter, acked>>

\* A step of a request that has come in already.
Serve(r) ==
    \/ CheckAlias(r) \/ InsertRow(r) \/ AddToFilter(r) \/ PrewarmCache(r)
    \/ CheckFilter(r) \/ GetCache(r) \/ QueryRow(r) \/ FillCache(r) \/ CountClick(r)
    \/ DeactivateRow(r) \/ DropEntry(r)

Start(r) == ShortenStart(r) \/ RedirectStart(r) \/ DeleteStart(r)

Next ==
    \/ \E r \in Requests : Start(r) \/ Serve(r) \/ Finish(r)
    \/ Restart
    \/ Tick

Spec == Init /\ [][Next]_vars

\* Threads run, a locked file is an error after a while, and time passes.
Fairness ==
    /\ \A r \in Requests : WF_vars(Serve(r))
    /\ WF_vars(Tick)

FairSpec == Spec /\ Fairness

-----------------------------------------------------------------------------
(* Properties *)

\* A link that has been answered 201 is found by every later redirect, across
\* restarts and failing statements, until it is deactivated or runs out: the
\* filter, filled after the row (main.py:222) and again at the start from the
\* active rows (main.py:56), never rejects it.
LinksFound ==
    \A r \in Requests :
        req[r] # None /\ req[r].at = "404" /\ req[r].known => ~Serveable(req[r].code)

\* A delete is answered 200 if and only if its user's row was there when the
\* UPDATE ran: a 200 is about an own link, inactive from then on, whatever
\* other requests and restarts come between (main.py:367-377).
DeleteReplyTrue ==
    \A r \in Requests :
        req[r] # None /\ req[r].at = "200" =>
            Matches(req[r]) /\ ~Visible(req[r].code)

\* A link that has run out is cached no longer some day, although a fill takes
\* no notice of the expiry (main.py:265) and the entry of a new link starts its
\* time after the row does (main.py:223).
ExpiredFades ==
    \A c \in Codes : (db[c] # None /\ Expired(db[c].exp)) ~> []~Hit(c)

\* The engine, too, is a URL map.
LinkOf(row) == [long |-> row.long, owner |-> row.owner, active |-> row.active]

AnswerOf(q) == IF q # None /\ q.at \in {"201", "302"}
               THEN [code |-> q.code, long |-> q.long]
               ELSE None

Abstract == INSTANCE UrlMap WITH
    links <- [c \in Codes |-> IF db[c] = None THEN None ELSE LinkOf(db[c])],
    answers <- [r \in Requests |-> AnswerOf(req[r])]

\* Codes are bound once and for ever, deactivated by their owner only, and every
\* 201 and 302 names the target its code is bound to, although the target of a
\* redirect may come from the cache.
ImplementsUrlMap == Abstract!Spec
=============================================================================
