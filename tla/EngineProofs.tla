---------------------------- MODULE EngineProofs ----------------------------
(***************************************************************************)
(* Proofs about Engine, for every set of threads, codes, targets and keys, *)
(* every hash of the filter, with both faults switched on or off.          *)
(***************************************************************************)
EXTENDS Engine, TLAPS

-----------------------------------------------------------------------------
(* The slots *)

LEMMA ElapseType == ASSUME NEW t \in TimeLeft PROVE Elapse(t) \in TimeLeft
BY TimeAssumption DEF Elapse, TimeLeft

\* What a step of a handler makes of its request.
Moves(q, p) ==
    /\ p.op = q.op /\ p.user = q.user /\ p.code = q.code /\ p.known = q.known
    /\ p.at = "add" => q.at = "insert"
    /\ p.at = "set" => q.at = "add"
    /\ p.at = "201" => q.at = "set"
    /\ p.at = "fill" => q.at = "query"
    /\ p.at = "count" => q.at \in {"get", "fill"}
    /\ p.at = "302" => q.at = "count"
    /\ p.at = "404" => q.at \in {"filter", "query", "drop"}
    /\ p.at # "update"
    /\ p.at = "drop" => q.at = "update"
    /\ p.at = "200" => q.at = "drop"
    /\ q.at \notin {"get", "query"} => p.long = q.long
    /\ q.at # "update" => p.rows = q.rows

\* A live request may be moved to any step that its handler can take.
LEMMA Moved ==
    ASSUME TypeOK, NEW r \in Requests, req[r] # None,
           NEW a \in Steps \cup Replies, Goto(r, a),
           HandlerOK([req[r] EXCEPT !.at = a]), Moves(req[r], [req[r] EXCEPT !.at = a])
    PROVE  /\ req'[r] \in Request /\ HandlerOK(req'[r]) /\ Moves(req[r], req'[r])
           /\ req' = [req EXCEPT ![r] = req'[r]]
<1> DEFINE q == [req[r] EXCEPT !.at = a]
<1>1. q \in Request /\ req \in [Requests -> Request \cup {None}]
  BY DEF TypeOK, Request
<1>2. req' = [req EXCEPT ![r] = q]
  BY <1>1 DEF Goto
<1>3. req'[r] = q
  BY <1>1, <1>2
<1>4. QED
  BY <1>1, <1>2, <1>3

\* So may a request whose other fields are written.
LEMMA Written ==
    ASSUME TypeOK, NEW r \in Requests, NEW q \in Request,
           req' = [req EXCEPT ![r] = q], HandlerOK(q), Moves(req[r], q)
    PROVE  /\ req'[r] \in Request /\ HandlerOK(req'[r]) /\ Moves(req[r], req'[r])
           /\ req' = [req EXCEPT ![r] = req'[r]]
BY DEF TypeOK

LEMMA ServeMoves ==
    ASSUME TypeOK, NEW r \in Requests, Serve(r)
    PROVE  /\ req[r] # None /\ req[r] \in Request /\ HandlerOK(req[r])
           /\ req'[r] \in Request /\ HandlerOK(req'[r]) /\ Moves(req[r], req'[r])
           /\ req' = [req EXCEPT ![r] = req'[r]]
<1> DEFINE Fine == /\ req'[r] \in Request /\ HandlerOK(req'[r])
                   /\ Moves(req[r], req'[r])
                   /\ req' = [req EXCEPT ![r] = req'[r]]
<1>1. req[r] # None /\ req[r] \in Request /\ HandlerOK(req[r])
  BY DEF TypeOK, Serve, Waiting, CheckAlias, InsertRow, AddToFilter, PrewarmCache,
     CheckFilter, GetCache, QueryRow, FillCache, CountClick, DeactivateRow, DropEntry
<1> SUFFICES Fine
  BY <1>1
<1> HIDE DEF Fine
\* The steps that move the request and no more.
<1>2. ASSUME NEW a \in Steps \cup Replies, Goto(r, a),
             \/ req[r].at = "check" /\ a = "400"
             \/ req[r].at = "insert" /\ a = "add"
             \/ req[r].at = "add" /\ a = "set"
             \/ req[r].at = "set" /\ a = "201"
             \/ req[r].at = "filter" /\ a \in {"get", "404"}
             \/ req[r].at = "get" /\ a = "query"
             \/ req[r].at = "query" /\ a = "404"
             \/ req[r].at = "fill" /\ a = "count"
             \/ req[r].at = "count" /\ a = "302"
             \/ req[r].at = "update" /\ a = "drop"
             \/ req[r].at = "drop" /\ a \in {"200", "404"}
             \/ req[r].at \in Steps /\ a = "500"
      PROVE  Fine
  <2> DEFINE q == [req[r] EXCEPT !.at = a]
  <2>1. /\ q.at = a /\ q.op = req[r].op /\ q.user = req[r].user
        /\ q.code = req[r].code /\ q.known = req[r].known
        /\ q.long = req[r].long /\ q.rows = req[r].rows
    BY <1>1 DEF Request
  <2> HIDE DEF q
  <2>2. HandlerOK(q)
    BY <1>1, <1>2, <2>1 DEF HandlerOK, Steps
  <2>3. Moves(req[r], q)
    BY <1>1, <1>2, <2>1 DEF Moves, Steps
  <2>4. QED
    BY <1>1, <1>2, <2>2, <2>3, Moved DEF q, Fine
<1> USE DEF Waiting, Fails
<1>3. CASE CheckAlias(r)
  <2> DEFINE q == [req[r] EXCEPT !.at = "insert", !.exp = ExpiryOf(req[r].ttl)]
  <2>1. CASE req' = [req EXCEPT ![r] =
                       [@ EXCEPT !.at = "insert", !.exp = ExpiryOf(req[r].ttl)]]
    <3>1. ExpiryOf(req[r].ttl) \in TimeLeft
      BY <1>1 DEF ExpiryOf, TimeLeft, Request
    <3>2. q \in Request
      BY <1>1, <3>1 DEF Request, Steps
    <3>3. HandlerOK(q) /\ Moves(req[r], q)
      BY <1>1, <1>3 DEF CheckAlias, Request, HandlerOK, Moves
    <3>4. req' = [req EXCEPT ![r] = q]
      BY <2>1 DEF TypeOK
    <3>5. QED
      BY <3>2, <3>3, <3>4, Written DEF Fine
  <2>2. QED
    BY <1>2, <1>3, <2>1 DEF CheckAlias, Steps, Replies
<1>4. CASE InsertRow(r)
  BY <1>2, <1>4 DEF InsertRow, Steps, Replies
<1>5. CASE AddToFilter(r)
  BY <1>2, <1>5 DEF AddToFilter, Steps
<1>6. CASE PrewarmCache(r)
  BY <1>2, <1>6 DEF PrewarmCache, Replies
<1>7. CASE CheckFilter(r)
  BY <1>2, <1>7 DEF CheckFilter, Steps, Replies
<1>8. CASE GetCache(r)
  <2> DEFINE l == cache[req[r].code].long
             q == [req[r] EXCEPT !.at = "count", !.long = l]
  <2>1. CASE /\ Hit(req[r].code)
             /\ req' = [req EXCEPT ![r] = [@ EXCEPT !.at = "count", !.long = l]]
    <3>1. l \in LongURLs
      BY <1>1, <2>1 DEF Hit, TypeOK, Entry, Request
    <3>2. q \in Request
      BY <1>1, <3>1 DEF Request, Steps
    <3>3. HandlerOK(q) /\ Moves(req[r], q)
      BY <1>1, <1>8, <3>1 DEF GetCache, Request, HandlerOK, Moves
    <3>4. req' = [req EXCEPT ![r] = q]
      BY <2>1 DEF TypeOK
    <3>5. QED
      BY <3>2, <3>3, <3>4, Written DEF Fine
  <2>2. QED
    BY <1>2, <1>8, <2>1 DEF GetCache, Steps
<1>9. CASE QueryRow(r)
  <2> DEFINE l == db[req[r].code].long
             q == [req[r] EXCEPT !.at = "fill", !.long = l]
  <2>1. CASE /\ Serveable(req[r].code)
             /\ req' = [req EXCEPT ![r] = [@ EXCEPT !.at = "fill", !.long = l]]
    <3>1. l \in LongURLs
      BY <1>1, <2>1 DEF Serveable, Visible, TypeOK, Row, Request
    <3>2. q \in Request
      BY <1>1, <3>1 DEF Request, Steps
    <3>3. HandlerOK(q) /\ Moves(req[r], q)
      BY <1>1, <1>9, <3>1 DEF QueryRow, Request, HandlerOK, Moves
    <3>4. req' = [req EXCEPT ![r] = q]
      BY <2>1 DEF TypeOK
    <3>5. QED
      BY <3>2, <3>3, <3>4, Written DEF Fine
  <2>2. QED
    BY <1>2, <1>9, <2>1 DEF QueryRow, Steps, Replies
<1>10. CASE FillCache(r)
  BY <1>2, <1>10 DEF FillCache, Steps
<1>11. CASE CountClick(r)
  BY <1>2, <1>11 DEF CountClick, Steps, Replies
<1>12. CASE DeactivateRow(r)
  <2> DEFINE q == [req[r] EXCEPT !.at = "drop", !.rows = 1]
  <2>1. CASE req' = [req EXCEPT ![r] = [@ EXCEPT !.at = "drop", !.rows = 1]]
    <3>1. q \in Request
      BY <1>1 DEF Request, Steps
    <3>2. HandlerOK(q) /\ Moves(req[r], q)
      BY <1>1, <1>12 DEF DeactivateRow, Request, HandlerOK, Moves
    <3>3. req' = [req EXCEPT ![r] = q]
      BY <2>1 DEF TypeOK
    <3>4. QED
      BY <3>1, <3>2, <3>3, Written DEF Fine
  <2>2. QED
    BY <1>2, <1>12, <2>1 DEF DeactivateRow, Steps, Replies
<1>13. CASE DropEntry(r)
  BY <1>2, <1>13 DEF DropEntry, ReplyFor, Replies
<1>14. QED
  BY <1>1, <1>3, <1>4, <1>5, <1>6, <1>7, <1>8, <1>9, <1>10, <1>11, <1>12, <1>13 DEF Serve

\* What a request is when it comes in.
Fresh(q) ==
    /\ q \in Request /\ HandlerOK(q) /\ q.at \in {"check", "insert", "filter", "update"}
    /\ q.rows = 0
    /\ q.known => q.op = "redirect" /\ q.code \in acked

LEMMA StartMoves ==
    ASSUME TypeOK, NEW r \in Requests, Start(r)
    PROVE  /\ req[r] = None /\ Fresh(req'[r]) /\ req' = [req EXCEPT ![r] = req'[r]]
           /\ UNCHANGED <<db, cache, filter, acked>>
<1> DEFINE Came == /\ req[r] = None /\ Fresh(req'[r])
                   /\ req' = [req EXCEPT ![r] = req'[r]]
<1> SUFFICES Came
  BY DEF Start, ShortenStart, RedirectStart, DeleteStart
<1>1. ASSUME NEW q \in Request, HandlerOK(q), Begin(r, q),
             q.at \in {"check", "insert", "filter", "update"}, q.rows = 0,
             q.known => q.op = "redirect" /\ q.code \in acked
      PROVE  Came
  BY <1>1 DEF Begin, Fresh, TypeOK
<1> HIDE DEF Came
<1>2. CASE ShortenStart(r)
  <2> DEFINE q(a, u, l, t, c, e) ==
               [at |-> a, op |-> "shorten", user |-> u, code |-> c, long |-> l,
                ttl |-> t, exp |-> e, rows |-> 0, known |-> FALSE]
  <2>1. ASSUME NEW a \in {"check", "insert"}, NEW u \in Owners, NEW l \in LongURLs,
               NEW t \in TTLs, NEW c \in Codes, NEW e \in {Never, ExpiryOf(t)}
        PROVE  /\ q(a, u, l, t, c, e) \in Request /\ HandlerOK(q(a, u, l, t, c, e))
               /\ q(a, u, l, t, c, e).at \in {"check", "insert"}
               /\ q(a, u, l, t, c, e).rows = 0
               /\ ~q(a, u, l, t, c, e).known
    <3>1. t \in TimeLeft /\ e \in TimeLeft
      BY TimeAssumption DEF TimeLeft, ExpiryOf
    <3>2. QED
      BY <3>1 DEF Request, Steps, HandlerOK
  <2>2. PICK u \in Owners, l \in LongURLs, t \in TTLs :
          \/ \E c \in Aliases : Begin(r, q("check", u, l, t, c, Never))
          \/ \E c \in GenCodes : Begin(r, q("insert", u, l, t, c, ExpiryOf(t)))
    BY <1>2 DEF ShortenStart
  <2>3. PICK a \in {"check", "insert"}, c \in Codes, e \in {Never, ExpiryOf(t)} :
          Begin(r, q(a, u, l, t, c, e))
    BY <2>2, CodesAssumption
  <2> HIDE DEF q
  <2>4. QED
    BY <1>1, <2>1, <2>3
<1>3. CASE RedirectStart(r)
  <2>1. PICK c \in Codes :
          Begin(r, [at |-> "filter", op |-> "redirect", user |-> NoUser, code |-> c,
                    long |-> None, ttl |-> Never, exp |-> Never, rows |-> 0,
                    known |-> c \in acked])
    BY <1>3 DEF RedirectStart
  <2> DEFINE q == [at |-> "filter", op |-> "redirect", user |-> NoUser, code |-> c,
                   long |-> None, ttl |-> Never, exp |-> Never, rows |-> 0,
                   known |-> c \in acked]
  <2>2. q \in Request /\ HandlerOK(q)
    BY DEF Request, Steps, Owners, TimeLeft, HandlerOK
  <2>3. /\ Begin(r, q) /\ q.at = "filter" /\ q.rows = 0
        /\ q.known => q.op = "redirect" /\ q.code \in acked
    BY <2>1
  <2> HIDE DEF q
  <2>4. QED
    BY <1>1, <2>2, <2>3
<1>4. CASE DeleteStart(r)
  <2>1. PICK u \in Users, c \in Codes :
          Begin(r, [at |-> "update", op |-> "delete", user |-> u, code |-> c,
                    long |-> None, ttl |-> Never, exp |-> Never, rows |-> 0,
                    known |-> FALSE])
    BY <1>4 DEF DeleteStart, Deleters
  <2> DEFINE q == [at |-> "update", op |-> "delete", user |-> u, code |-> c,
                   long |-> None, ttl |-> Never, exp |-> Never, rows |-> 0,
                   known |-> FALSE]
  <2>2. q \in Request /\ HandlerOK(q)
    BY DEF Request, Steps, Owners, TimeLeft, HandlerOK
  <2>3. /\ Begin(r, q) /\ q.at = "update" /\ q.rows = 0
        /\ ~q.known
    BY <2>1
  <2> HIDE DEF q
  <2>4. QED
    BY <1>1, <2>2, <2>3
<1>5. QED
  BY <1>2, <1>3, <1>4 DEF Start

\* A slot whose request does not move: it may be gone, or a tick older.
Still(r) ==
    \/ req'[r] = None
    \/ /\ req[r] # None
       /\ req'[r] \in Request /\ HandlerOK(req'[r])
       /\ req'[r].at = req[r].at /\ req'[r].op = req[r].op
       /\ req'[r].user = req[r].user /\ req'[r].code = req[r].code
       /\ req'[r].long = req[r].long /\ req'[r].rows = req[r].rows
       /\ req'[r].known = req[r].known

LEMMA TickStill ==
    ASSUME TypeOK, Tick, NEW r \in Requests
    PROVE  Still(r) /\ (req[r] # None => req'[r] # None)
<1> DEFINE q == [req[r] EXCEPT !.exp = Elapse(req[r].exp)]
<1>1. req'[r] = IF req[r] = None THEN None ELSE q
  BY DEF Tick
<1>2. ASSUME req[r] # None
      PROVE  /\ q \in Request /\ HandlerOK(q)
             /\ q.at = req[r].at /\ q.op = req[r].op /\ q.user = req[r].user
             /\ q.code = req[r].code /\ q.long = req[r].long
             /\ q.rows = req[r].rows /\ q.known = req[r].known
  <2>1. req[r] \in Request /\ HandlerOK(req[r])
    BY <1>2 DEF TypeOK
  <2>2. Elapse(req[r].exp) \in TimeLeft
    BY <2>1, ElapseType DEF Request
  <2>3. /\ q \in Request
        /\ q.at = req[r].at /\ q.op = req[r].op /\ q.user = req[r].user
        /\ q.code = req[r].code /\ q.long = req[r].long
        /\ q.rows = req[r].rows /\ q.known = req[r].known
    BY <2>1, <2>2 DEF Request
  <2> HIDE DEF q
  <2>4. QED
    BY <2>1, <2>3 DEF HandlerOK
<1> HIDE DEF q
<1>3. QED
  BY <1>1, <1>2, NoneAssumption DEF Still

\* A step moves one request at most.
LEMMA OneMoves ==
    ASSUME TypeOK, [Next]_vars, NEW r \in Requests
    PROVE  Still(r) \/ Serve(r) \/ Start(r)
<1>1. ASSUME req'[r] = req[r] \/ req'[r] = None PROVE Still(r)
  BY <1>1 DEF Still, TypeOK
<1>2. ASSUME NEW s \in Requests, Serve(s) \/ Start(s), s # r
      PROVE  Still(r)
  <2>1. req' = [req EXCEPT ![s] = req'[s]]
    BY <1>2, ServeMoves, StartMoves
  <2>2. req'[r] = req[r]
    BY <1>2, <2>1 DEF TypeOK
  <2>3. QED
    BY <1>1, <2>2
<1>3. ASSUME NEW s \in Requests, Finish(s) PROVE Still(r)
  BY <1>1, <1>3 DEF Finish, TypeOK
<1>4. CASE Restart
  BY <1>1, <1>4 DEF Restart
<1>5. CASE UNCHANGED req
  BY <1>1, <1>5
<1>6. QED
  BY <1>2, <1>3, <1>4, <1>5, TickStill DEF Next, vars

-----------------------------------------------------------------------------
(* Type correctness *)

LEMMA SlotsType ==
    ASSUME TypeOK, [Next]_vars
    PROVE  /\ req' \in [Requests -> Request \cup {None}]
           /\ \A r \in Requests : req'[r] # None => HandlerOK(req'[r])
<1>1. ASSUME NEW r \in Requests
      PROVE  req'[r] = None \/ (req'[r] \in Request /\ HandlerOK(req'[r]))
  BY OneMoves, ServeMoves, StartMoves DEF Still, Fresh
<1>2. req' = [r \in Requests |-> req'[r]]
  <2>1. ASSUME NEW r \in Requests, Serve(r) \/ Start(r)
        PROVE  req' = [req EXCEPT ![r] = req'[r]]
    BY <2>1, ServeMoves, StartMoves
  <2>2. QED
    BY <2>1 DEF TypeOK, Next, Finish, Restart, Tick, vars
<1>3. QED
  BY <1>1, <1>2

LEMMA RowsType ==
    ASSUME TypeOK, [Next]_vars
    PROVE  db' \in [Codes -> Row \cup {None}]
<1>1. ASSUME NEW r \in Requests, InsertRow(r)
      PROVE  db' \in [Codes -> Row \cup {None}]
  <2>1. req[r] \in Request /\ req[r].long \in LongURLs
    BY <1>1 DEF InsertRow, Waiting, TypeOK, HandlerOK
  <2>2. RowOf(req[r]) \in Row
    BY <2>1 DEF RowOf, Row, Request
  <2>3. QED
    BY <1>1, <2>2 DEF InsertRow, TypeOK
<1>2. ASSUME NEW r \in Requests, DeactivateRow(r)
      PROVE  db' \in [Codes -> Row \cup {None}]
  <2>1. CASE /\ Matches(req[r])
             /\ db' = [db EXCEPT ![req[r].code].active = FALSE]
    <3>1. req[r].code \in Codes
      BY <1>2 DEF DeactivateRow, Waiting, TypeOK, Request
    <3>2. [db[req[r].code] EXCEPT !.active = FALSE] \in Row
      BY <2>1, <3>1 DEF Matches, TypeOK, Row
    <3>3. QED
      BY <2>1, <3>1, <3>2 DEF TypeOK
  <2>2. QED
    BY <1>2, <2>1 DEF DeactivateRow, TypeOK
<1>3. CASE Tick
  <2>1. \A c \in Codes : db[c] # None => [db[c] EXCEPT !.exp = Elapse(@)] \in Row
    BY ElapseType DEF TypeOK, Row
  <2>2. QED
    BY <1>3, <2>1 DEF Tick
<1>4. CASE UNCHANGED db
  BY <1>4 DEF TypeOK
<1>5. QED
  BY <1>1, <1>2, <1>3, <1>4 DEF Next, Start, ShortenStart, RedirectStart,
     DeleteStart, Serve, CheckAlias, AddToFilter, PrewarmCache, CheckFilter,
     GetCache, QueryRow, FillCache, CountClick, DropEntry, Finish, Restart, vars

LEMMA EntriesType ==
    ASSUME TypeOK, [Next]_vars
    PROVE  cache' \in [Codes -> Entry \cup {None}]
<1>1. ASSUME NEW c \in Codes, NEW l \in LongURLs, NEW t \in TimeLeft, SetCache(c, l, t)
      PROVE  cache' \in [Codes -> Entry \cup {None}]
  BY <1>1 DEF SetCache, TypeOK, Entry
<1>2. ASSUME NEW r \in Requests, PrewarmCache(r) \/ FillCache(r)
      PROVE  cache' \in [Codes -> Entry \cup {None}]
  <2>1. /\ req[r] \in Request /\ req[r].long \in LongURLs
        /\ \E t \in {req[r].ttl, FillTTL} : SetCache(req[r].code, req[r].long, t)
    BY <1>2 DEF PrewarmCache, FillCache, Waiting, TypeOK, HandlerOK
  <2>2. req[r].ttl \in TimeLeft /\ req[r].code \in Codes /\ FillTTL \in TimeLeft
    BY <2>1, TimeAssumption DEF Request, FillTTL, TimeLeft
  <2>3. QED
    BY <1>1, <2>1, <2>2
<1>3. CASE Tick
  <2>1. \A c \in Codes :
          cache[c] # None => [cache[c] EXCEPT !.ttl = Elapse(@)] \in Entry
    BY ElapseType DEF TypeOK, Entry
  <2>2. QED
    BY <1>3, <2>1 DEF Tick
<1>4. ASSUME NEW r \in Requests, GetCache(r) \/ DropEntry(r)
      PROVE  cache' \in [Codes -> Entry \cup {None}]
  BY <1>4 DEF GetCache, DropEntry, TypeOK
<1>5. CASE UNCHANGED cache \/ Restart
  BY <1>5 DEF Restart, TypeOK
<1>6. QED
  BY <1>2, <1>3, <1>4, <1>5 DEF Next, Start, ShortenStart, RedirectStart,
     DeleteStart, Serve, CheckAlias, InsertRow, AddToFilter, CheckFilter,
     QueryRow, CountClick, DeactivateRow, Finish, vars

LEMMA SetsType ==
    ASSUME TypeOK, [Next]_vars
    PROVE  filter' \in SUBSET Bits /\ acked' \in SUBSET Codes
<1>1. ASSUME NEW r \in Requests, AddToFilter(r) \/ PrewarmCache(r)
      PROVE  filter' \in SUBSET Bits /\ acked' \in SUBSET Codes
  <2>1. req[r].code \in Codes
    BY <1>1 DEF AddToFilter, PrewarmCache, Waiting, TypeOK, Request
  <2>2. QED
    BY <1>1, <2>1, CodesAssumption DEF AddToFilter, PrewarmCache, TypeOK
<1>2. CASE Restart
  <2>1. Populated \in SUBSET Bits
    BY CodesAssumption DEF Populated
  <2>2. QED
    BY <1>2, <2>1 DEF Restart, TypeOK
<1>3. CASE UNCHANGED <<filter, acked>>
  BY <1>3 DEF TypeOK
<1>4. QED
  BY <1>1, <1>2, <1>3 DEF Next, Start, ShortenStart, RedirectStart, DeleteStart,
     Serve, CheckAlias, InsertRow, CheckFilter, GetCache, QueryRow, FillCache,
     CountClick, DeactivateRow, DropEntry, Finish, Tick, vars

LEMMA TypeStep == TypeOK /\ [Next]_vars => TypeOK'
BY SlotsType, RowsType, EntriesType, SetsType DEF TypeOK

\* Whatever fails, every variable keeps its type and every request is at a
\* step of its own handler, with the values that step needs.
THEOREM TypeCorrect == Spec => []TypeOK
<1>1. Init => TypeOK
  BY DEF Init, TypeOK
<1>2. QED
  BY <1>1, TypeStep, PTL DEF Spec

-----------------------------------------------------------------------------
(* The table is written once *)

\* A row stays, and keeps its target and its owner; it is never reactivated.
RowKept(c) ==
    db[c] # None =>
        /\ db'[c] # None
        /\ db'[c].long = db[c].long
        /\ db'[c].owner = db[c].owner
        /\ db'[c].active => db[c].active

\* The same between two ticks, when its expiry does not move either.
RowSame(c) == RowKept(c) /\ (db[c] # None => db'[c].exp = db[c].exp)

LEMMA ServeKeeps ==
    ASSUME TypeOK, NEW r \in Requests, Serve(r), NEW c \in Codes
    PROVE  RowSame(c)
<1>1. CASE db' = [db EXCEPT ![req[r].code] = RowOf(req[r])] /\ Insertable(req[r].code)
  BY <1>1 DEF TypeOK, Insertable, RowSame, RowKept
<1>2. CASE Matches(req[r]) /\ db' = [db EXCEPT ![req[r].code].active = FALSE]
  <2> DEFINE off == [db[c] EXCEPT !.active = FALSE]
  <2>1. db'[c] = db[c] \/ (db[c] # None /\ db'[c] = off)
    BY <1>2 DEF TypeOK, Matches
  <2>2. db[c] # None => /\ off \in Row
                        /\ off.long = db[c].long
                        /\ off.owner = db[c].owner
                        /\ off.exp = db[c].exp
                        /\ off.active = FALSE
    BY DEF TypeOK, Row
  <2>3. QED
    BY <2>1, <2>2, NoneAssumption DEF RowSame, RowKept
<1>3. CASE UNCHANGED db
  BY <1>3 DEF RowSame, RowKept
<1>4. QED
  BY <1>1, <1>2, <1>3 DEF Serve, CheckAlias, InsertRow, AddToFilter, PrewarmCache,
     CheckFilter, GetCache, QueryRow, FillCache, CountClick, DeactivateRow, DropEntry

LEMMA TickKeeps ==
    ASSUME TypeOK, Tick, NEW c \in Codes
    PROVE  /\ RowKept(c)
           /\ db[c] # None => db'[c].exp = Elapse(db[c].exp)
<1>1. db[c] # None => [db[c] EXCEPT !.exp = Elapse(@)] \in Row
  BY ElapseType DEF TypeOK, Row
<1>2. QED
  BY <1>1, NoneAssumption DEF Tick, TypeOK, RowKept, Row

LEMMA StepKeeps ==
    ASSUME TypeOK, [Next]_vars, NEW c \in Codes
    PROVE  RowKept(c)
<1>1. CASE UNCHANGED db
  BY <1>1 DEF RowKept
<1>2. QED
  BY <1>1, ServeKeeps, TickKeeps, StartMoves DEF Next, Finish, Restart, RowSame, vars

\* A link that is not served any more is not served later either.
LEMMA GoneStays ==
    ASSUME TypeOK, [Next]_vars, NEW c \in Codes, db[c] # None, ~Serveable(c)
    PROVE  ~Serveable(c)'
<1>1. RowKept(c)
  BY StepKeeps
<1>2. CASE ~Visible(c)
  BY <1>1, <1>2 DEF Serveable, Visible, RowKept
<1>3. CASE Expired(db[c].exp)
  <2>1. db[c].exp = -1
    BY <1>3 DEF Expired, TypeOK, Row, TimeLeft
  <2>2. CASE Tick
    BY <1>3, <2>1, <2>2, TickKeeps DEF Serveable, Elapse
  <2>3. CASE RowSame(c)
    BY <1>3, <2>3 DEF Serveable, RowSame
  <2>4. CASE UNCHANGED db
    BY <1>3, <2>4 DEF Serveable
  <2>5. QED
    BY <2>2, <2>3, <2>4, ServeKeeps, StartMoves DEF Next, Finish, Restart, vars
<1>4. QED
  BY <1>2, <1>3 DEF Serveable

-----------------------------------------------------------------------------
(* The invariant *)

\* A request that has inserted its row, or knows its target, agrees with the row.
HeldAt(r) ==
    req[r] # None /\ req[r].at \in {"add", "set", "201", "fill", "count", "302"} =>
        db[req[r].code] # None /\ db[req[r].code].long = req[r].long

\* So does the cache, which is filled from what requests hold, and which fills
\* what a redirect holds.
Mirrors == \A c \in Codes :
    cache[c] # None => db[c] # None /\ db[c].long = cache[c].long

\* A delete that has matched its user's row has deactivated it.
DeleteAt(r) ==
    req[r] # None =>
        /\ req[r].at \in {"drop", "200"} /\ req[r].rows = 1 =>
              Matches(req[r]) /\ ~Visible(req[r].code)
        /\ req[r].at = "200" => req[r].rows = 1
        /\ req[r].at = "update" => req[r].rows = 0

\* The filter passes what has been answered 201, as long as it is active.
AckedAt(c) == c \in acked => db[c] # None /\ (Visible(c) => Contains(c))

AddedAt(r) == req[r] # None /\ req[r].at = "set" => Contains(req[r].code)

\* A redirect that came for such a code is answered 404 for good reason.
KnownAt(r) ==
    req[r] # None /\ req[r].known =>
        /\ req[r].op = "redirect" /\ req[r].code \in acked
        /\ req[r].at = "404" => ~Serveable(req[r].code)

IInv ==
    /\ TypeOK
    /\ Mirrors
    /\ \A r \in Requests : HeldAt(r) /\ DeleteAt(r) /\ AddedAt(r) /\ KnownAt(r)
    /\ \A c \in Codes : AckedAt(c)

LEMMA HeldStep ==
    ASSUME IInv, [Next]_vars, NEW r \in Requests
    PROVE  HeldAt(r)'
<1>1. TypeOK /\ HeldAt(r)
  BY DEF IInv
<1>2. req[r] # None => req[r].code \in Codes /\ RowKept(req[r].code)
  BY <1>1, StepKeeps DEF TypeOK, Request
<1>3. CASE Still(r)
  BY <1>1, <1>2, <1>3 DEF Still, HeldAt, RowKept
<1>4. CASE Start(r)
  BY <1>1, <1>4, StartMoves DEF Fresh, HeldAt
<1>5. CASE Serve(r)
  <2>1. /\ req[r] # None /\ req[r] \in Request /\ HandlerOK(req[r])
        /\ req'[r] \in Request /\ HandlerOK(req'[r]) /\ Moves(req[r], req'[r])
    BY <1>1, <1>5, ServeMoves
  <2>2. SUFFICES ASSUME req'[r].at \in {"add", "set", "201", "fill", "count", "302"}
                 PROVE  HeldAt(r)'
    BY DEF HeldAt
  <2>3. CASE req[r].at \in {"add", "set", "fill", "count"}
    BY <1>1, <1>2, <2>1, <2>3 DEF Moves, HeldAt, RowKept
  <2>4. CASE req[r].at = "insert" /\ InsertRow(r)
    <3>1. ~Goto(r, "500")
      BY <1>1, <2>1, <2>2 DEF Goto, TypeOK, Request
    <3>2. db' = [db EXCEPT ![req[r].code] = RowOf(req[r])]
      BY <2>4, <3>1 DEF InsertRow, Fails
    <3>3. RowOf(req[r]) \in Row /\ RowOf(req[r]).long = req[r].long
      BY <2>1, <2>4 DEF RowOf, Row, Request, HandlerOK
    <3>4. db'[req[r].code] = RowOf(req[r])
      BY <1>1, <1>2, <2>1, <3>2 DEF TypeOK
    <3>5. QED
      BY <2>1, <2>4, <3>3, <3>4, NoneAssumption DEF HeldAt, Moves
  <2>5. CASE req[r].at = "get" /\ GetCache(r)
    <3>1. ~Goto(r, "query")
      BY <1>1, <2>1, <2>2 DEF Goto, TypeOK, Request
    <3>2. /\ cache[req[r].code] # None
          /\ req' = [req EXCEPT ![r] =
                       [@ EXCEPT !.at = "count", !.long = cache[req[r].code].long]]
          /\ db' = db
      BY <2>5, <3>1 DEF GetCache, Hit
    <3>3. req'[r].long = cache[req[r].code].long
      BY <1>1, <2>1, <3>2 DEF TypeOK, Request
    <3>4. QED
      BY <1>2, <2>1, <3>2, <3>3 DEF HeldAt, Moves, IInv, Mirrors
  <2>6. CASE req[r].at = "query" /\ QueryRow(r)
    <3>1. ~Goto(r, "500") /\ ~Goto(r, "404")
      BY <1>1, <2>1, <2>2 DEF Goto, TypeOK, Request
    <3>2. /\ db[req[r].code] # None
          /\ req' = [req EXCEPT ![r] =
                       [@ EXCEPT !.at = "fill", !.long = db[req[r].code].long]]
          /\ db' = db
      BY <2>6, <3>1 DEF QueryRow, Fails, Serveable, Visible
    <3>3. req'[r].long = db[req[r].code].long
      BY <1>1, <2>1, <3>2 DEF TypeOK, Request
    <3>4. QED
      BY <1>2, <2>1, <3>2, <3>3 DEF HeldAt, Moves
  <2>7. req[r].at \in {"insert", "add", "set", "get", "query", "fill", "count"}
    BY <2>1, <2>2 DEF Moves
  <2>8. /\ req[r].at = "insert" => InsertRow(r)
        /\ req[r].at = "get" => GetCache(r)
        /\ req[r].at = "query" => QueryRow(r)
    BY <1>5 DEF Serve, Waiting, CheckAlias, InsertRow, AddToFilter, PrewarmCache,
       CheckFilter, GetCache, QueryRow, FillCache, CountClick, DeactivateRow, DropEntry
  <2>9. QED
    BY <2>3, <2>4, <2>5, <2>6, <2>7, <2>8
<1>6. QED
  BY <1>1, <1>3, <1>4, <1>5, OneMoves

LEMMA MirrorStep ==
    ASSUME IInv, [Next]_vars
    PROVE  Mirrors'
<1>1. SUFFICES ASSUME NEW c \in Codes, cache'[c] # None
               PROVE  db'[c] # None /\ db'[c].long = cache'[c].long
  BY DEF Mirrors
<1>2. TypeOK /\ RowKept(c)
  BY StepKeeps DEF IInv
<1>3. CASE cache[c] # None /\ cache'[c].long = cache[c].long
  BY <1>2, <1>3 DEF IInv, Mirrors, RowKept
<1>4. CASE cache'[c] = cache[c]
  BY <1>1, <1>3, <1>4
<1>5. ASSUME NEW r \in Requests, PrewarmCache(r) \/ FillCache(r)
      PROVE  db'[c] # None /\ db'[c].long = cache'[c].long
  <2>1. /\ req[r] # None /\ req[r].at \in {"set", "fill"}
        /\ \E t \in {req[r].ttl, FillTTL} : SetCache(req[r].code, req[r].long, t)
    BY <1>5 DEF PrewarmCache, FillCache, Waiting
  <2>2. CASE c = req[r].code
    <3>1. db[c] # None /\ db[c].long = req[r].long
      BY <2>1, <2>2 DEF IInv, HeldAt
    <3>2. cache'[c].long = req[r].long
      BY <1>2, <2>1, <2>2 DEF SetCache, TypeOK
    <3>3. QED
      BY <1>2, <3>1, <3>2 DEF RowKept
  <2>3. CASE c # req[r].code
    BY <1>2, <1>4, <2>1, <2>3 DEF SetCache, TypeOK
  <2>4. QED
    BY <2>2, <2>3
<1>6. CASE Tick
  <2>1. cache[c] # None => [cache[c] EXCEPT !.ttl = Elapse(@)].long = cache[c].long
    BY <1>2 DEF TypeOK, Entry
  <2>2. QED
    BY <1>1, <1>3, <1>6, <2>1 DEF Tick
<1>7. ASSUME NEW r \in Requests, GetCache(r) \/ DropEntry(r)
      PROVE  db'[c] # None /\ db'[c].long = cache'[c].long
  BY <1>1, <1>2, <1>4, <1>7 DEF GetCache, DropEntry, TypeOK
<1>8. CASE Restart
  BY <1>1, <1>8 DEF Restart
<1>9. CASE UNCHANGED cache
  BY <1>4, <1>9
<1>10. QED
  BY <1>2, <1>5, <1>6, <1>7, <1>8, <1>9, StartMoves DEF Next, Serve, CheckAlias,
     InsertRow, AddToFilter, CheckFilter, QueryRow, CountClick, DeactivateRow,
     Finish, vars

LEMMA DeleteStep ==
    ASSUME IInv, [Next]_vars, NEW r \in Requests
    PROVE  DeleteAt(r)'
<1>1. TypeOK /\ DeleteAt(r)
  BY DEF IInv
<1>2. req[r] # None => req[r].code \in Codes /\ RowKept(req[r].code)
  BY <1>1, StepKeeps DEF TypeOK, Request
\* A match stays one, and what is inactive stays so.
<1>3. ASSUME req[r] # None, req'[r].code = req[r].code, req'[r].user = req[r].user,
             Matches(req[r]), ~Visible(req[r].code)
      PROVE  (Matches(req[r]) /\ ~Visible(req[r].code))'
  BY <1>2, <1>3 DEF Matches, Visible, RowKept
<1>4. CASE Still(r)
  BY <1>1, <1>3, <1>4 DEF Still, DeleteAt
<1>5. CASE Start(r)
  BY <1>1, <1>5, StartMoves DEF Fresh, DeleteAt
<1>6. CASE Serve(r)
  <2>1. /\ req[r] # None /\ req[r] \in Request /\ HandlerOK(req[r])
        /\ Moves(req[r], req'[r])
    BY <1>1, <1>6, ServeMoves
  <2>2. SUFFICES ASSUME req'[r].at \in {"drop", "200"} PROVE DeleteAt(r)'
    BY <2>1 DEF DeleteAt, Moves
  <2>3. CASE req[r].at = "update"
    <3>1. DeactivateRow(r)
      BY <1>6, <2>3 DEF Serve, Waiting, CheckAlias, InsertRow, AddToFilter,
         PrewarmCache, CheckFilter, GetCache, QueryRow, FillCache, CountClick, DropEntry
    <3>2. req'[r].at = "drop"
      BY <2>1, <2>2, <2>3 DEF Moves
    <3>3. CASE Matches(req[r]) /\ db' = [db EXCEPT ![req[r].code].active = FALSE]
      <4>1. db[req[r].code] # None /\ db[req[r].code] \in Row
        BY <1>1, <1>2, <2>1, <3>3 DEF Matches, TypeOK
      <4>2. ~db'[req[r].code].active
        BY <1>1, <1>2, <2>1, <3>3, <4>1 DEF TypeOK, Row
      <4>3. QED
        BY <1>2, <2>1, <3>2, <3>3, <4>1, <4>2
        DEF DeleteAt, Moves, Matches, Visible, RowKept
    <3>4. CASE Goto(r, "drop") /\ ~Matches(req[r])
      <4>1. req'[r].rows = req[r].rows /\ req[r].rows \in {0, 1}
        BY <1>1, <2>1, <3>4 DEF Goto, TypeOK, Request
      <4>2. req[r].rows = 0
        BY <1>1, <2>1, <2>3 DEF DeleteAt
      <4>3. QED
        BY <3>2, <4>1, <4>2 DEF DeleteAt
    <3>5. ~Goto(r, "500")
      BY <1>1, <2>1, <3>2 DEF Goto, TypeOK, Request
    <3>6. QED
      BY <3>1, <3>3, <3>4, <3>5 DEF DeactivateRow, Fails
  <2>4. CASE req[r].at = "drop"
    <3>1. DropEntry(r)
      BY <1>6, <2>4 DEF Serve, Waiting, CheckAlias, InsertRow, AddToFilter,
         PrewarmCache, CheckFilter, GetCache, QueryRow, FillCache, CountClick,
         DeactivateRow
    <3>2. req'[r].at = ReplyFor(req[r].rows) /\ req'[r].at = "200"
      BY <1>1, <2>1, <2>2, <2>4, <3>1 DEF DropEntry, Goto, TypeOK, Request, Moves
    <3>3. req[r].rows = 1 /\ req'[r].rows = 1
      BY <2>1, <2>4, <3>2 DEF ReplyFor, Moves, Request
    <3>4. QED
      BY <1>1, <1>3, <2>1, <2>4, <3>2, <3>3 DEF DeleteAt, Moves
  <2>5. QED
    BY <2>1, <2>2, <2>3, <2>4 DEF Moves
<1>7. QED
  BY <1>1, <1>4, <1>5, <1>6, OneMoves

(* The filter passes what was answered 201 *)

\* The filter only grows, and a new one has the bits of every active link.
LEMMA FilterKept ==
    ASSUME TypeOK, [Next]_vars, NEW c \in Codes, db[c] # None, Visible(c) => Contains(c)
    PROVE  (Visible(c) => Contains(c))'
<1>1. Visible(c)' => Visible(c)
  BY StepKeeps DEF Visible, RowKept
<1>2. CASE Restart
  <2>1. Visible(c) => Hash[c] \subseteq Populated
    BY DEF Populated
  <2>2. QED
    BY <1>1, <1>2, <2>1 DEF Restart, Contains
<1>3. CASE filter \subseteq filter'
  BY <1>1, <1>3 DEF Contains
<1>4. QED
  BY <1>2, <1>3, StartMoves DEF Next, Serve, CheckAlias, InsertRow, AddToFilter,
     PrewarmCache, CheckFilter, GetCache, QueryRow, FillCache, CountClick,
     DeactivateRow, DropEntry, Finish, Tick, vars

LEMMA AckedStep ==
    ASSUME IInv, [Next]_vars, NEW c \in Codes
    PROVE  AckedAt(c)'
<1>1. TypeOK /\ RowKept(c)
  BY StepKeeps DEF IInv
<1>2. CASE c \in acked
  BY <1>1, <1>2, FilterKept DEF IInv, AckedAt, RowKept
<1>3. CASE \E r \in Requests : PrewarmCache(r) /\ c = req[r].code
  <2>1. PICK r \in Requests : PrewarmCache(r) /\ c = req[r].code
    BY <1>3
  <2>2. req[r] # None /\ req[r].at = "set"
    BY <2>1 DEF PrewarmCache, Waiting
  <2>3. db[c] # None /\ Contains(c)
    BY <2>1, <2>2 DEF IInv, HeldAt, AddedAt
  <2>4. QED
    BY <1>1, <2>3, FilterKept DEF AckedAt, RowKept
<1>4. CASE acked' = acked
  BY <1>2, <1>4 DEF AckedAt
<1>5. ASSUME NEW r \in Requests, PrewarmCache(r) PROVE AckedAt(c)'
  BY <1>2, <1>3, <1>5 DEF PrewarmCache, AckedAt
<1>6. QED
  BY <1>1, <1>4, <1>5, StartMoves DEF Next, Serve, CheckAlias, InsertRow, AddToFilter,
     CheckFilter, GetCache, QueryRow, FillCache, CountClick, DeactivateRow,
     DropEntry, Finish, Restart, Tick, vars

LEMMA AddedStep ==
    ASSUME IInv, [Next]_vars, NEW r \in Requests
    PROVE  AddedAt(r)'
<1>1. TypeOK /\ AddedAt(r)
  BY DEF IInv
<1>2. CASE Start(r)
  BY <1>1, <1>2, StartMoves DEF Fresh, AddedAt
<1>3. CASE Serve(r)
  <2>1. /\ req[r] # None /\ req[r] \in Request /\ Moves(req[r], req'[r])
    BY <1>1, <1>3, ServeMoves
  <2>2. SUFFICES ASSUME req'[r].at = "set" PROVE AddedAt(r)'
    BY DEF AddedAt
  <2>3. req[r].at = "add" /\ req'[r].code = req[r].code
    BY <2>1, <2>2 DEF Moves
  <2>4. AddToFilter(r)
    BY <1>3, <2>3 DEF Serve, Waiting, CheckAlias, InsertRow, PrewarmCache,
       CheckFilter, GetCache, QueryRow, FillCache, CountClick, DeactivateRow, DropEntry
  <2>5. QED
    BY <2>3, <2>4 DEF AddToFilter, AddedAt, Contains
<1>4. CASE Still(r) /\ filter \subseteq filter'
  BY <1>1, <1>4 DEF Still, AddedAt, Contains
<1>5. CASE Restart
  BY <1>5 DEF Restart, AddedAt
<1>6. CASE Still(r) /\ ~Restart
  <2>1. filter \subseteq filter'
    BY <1>1, <1>6, StartMoves DEF Next, Serve, CheckAlias, InsertRow, AddToFilter,
       PrewarmCache, CheckFilter, GetCache, QueryRow, FillCache, CountClick,
       DeactivateRow, DropEntry, Finish, Tick, vars
  <2>2. QED
    BY <1>4, <1>6, <2>1
<1>7. QED
  BY <1>1, <1>2, <1>3, <1>5, <1>6, OneMoves

LEMMA AckedGrows ==
    ASSUME TypeOK, [Next]_vars
    PROVE  acked \subseteq acked'
BY StartMoves DEF Next, Serve, CheckAlias, InsertRow, AddToFilter, PrewarmCache,
   CheckFilter, GetCache, QueryRow, FillCache, CountClick, DeactivateRow, DropEntry,
   Finish, Restart, Tick, vars

LEMMA KnownStep ==
    ASSUME IInv, [Next]_vars, NEW r \in Requests
    PROVE  KnownAt(r)'
<1>1. TypeOK /\ KnownAt(r)
  BY DEF IInv
<1>2. acked \subseteq acked'
  BY <1>1, AckedGrows
<1>3. CASE Start(r)
  BY <1>1, <1>3, StartMoves DEF Fresh, KnownAt
<1>4. SUFFICES ASSUME Still(r) \/ Serve(r), req'[r] # None, req'[r].known
               PROVE  KnownAt(r)'
  BY <1>1, <1>3, OneMoves DEF KnownAt
<1>5. /\ req[r] # None /\ req[r].known /\ req[r].code \in Codes
      /\ req'[r].op = req[r].op /\ req'[r].code = req[r].code
  BY <1>1, <1>4, ServeMoves DEF Still, Moves, TypeOK, Request
<1>6. PICK c \in Codes : c = req[r].code
  BY <1>5
<1>7. c \in acked /\ req[r].op = "redirect"
  BY <1>1, <1>5, <1>6 DEF KnownAt
<1>8. db[c] # None /\ (Visible(c) => Contains(c))
  BY <1>7 DEF IInv, AckedAt
<1>9. ASSUME req'[r].at = "404" PROVE ~Serveable(c)'
  <2>1. SUFFICES ~Serveable(c)
    BY <1>1, <1>8, GoneStays
  <2>2. CASE Still(r)
    BY <1>1, <1>4, <1>5, <1>6, <1>9, <2>2 DEF Still, KnownAt
  <2>3. CASE Serve(r) /\ req[r].at = "filter"
    <3>1. CheckFilter(r)
      BY <2>3 DEF Serve, Waiting, CheckAlias, InsertRow, AddToFilter, PrewarmCache,
         GetCache, QueryRow, FillCache, CountClick, DeactivateRow, DropEntry
    <3>2. ~Goto(r, "get")
      BY <1>1, <1>5, <1>9 DEF Goto, TypeOK, Request
    <3>3. ~Contains(c)
      BY <1>6, <3>1, <3>2 DEF CheckFilter
    <3>4. QED
      BY <1>8, <3>3 DEF Serveable
  <2>4. CASE Serve(r) /\ req[r].at = "query"
    <3>1. QueryRow(r)
      BY <2>4 DEF Serve, Waiting, CheckAlias, InsertRow, AddToFilter, PrewarmCache,
         CheckFilter, GetCache, FillCache, CountClick, DeactivateRow, DropEntry
    <3>2. ~Goto(r, "500")
      BY <1>1, <1>5, <1>9 DEF Goto, TypeOK, Request
    <3>3. req' # [req EXCEPT ![r] = [@ EXCEPT !.at = "fill", !.long = db[c].long]]
      BY <1>1, <1>5, <1>9 DEF TypeOK, Request
    <3>4. QED
      BY <1>6, <3>1, <3>2, <3>3 DEF QueryRow, Fails
  <2>5. CASE Serve(r) /\ req[r].at = "drop"
    BY <1>1, <1>7, <2>5, ServeMoves DEF HandlerOK
  <2>6. QED
    BY <1>1, <1>4, <1>9, <2>2, <2>3, <2>4, <2>5, ServeMoves DEF Moves
<1>10. QED
  BY <1>2, <1>5, <1>6, <1>7, <1>9 DEF KnownAt

-----------------------------------------------------------------------------
(* The theorems *)

LEMMA Invariance == Spec => []IInv
<1>1. Init => IInv
  BY DEF Init, IInv, TypeOK, Mirrors, HeldAt, DeleteAt, AddedAt, KnownAt, AckedAt
<1>2. IInv /\ [Next]_vars => IInv'
  <2>1. SUFFICES ASSUME IInv, [Next]_vars PROVE IInv'
    OBVIOUS
  <2>2. TypeOK'
    BY <2>1, TypeStep DEF IInv
  <2>3. \A r \in Requests : (HeldAt(r) /\ DeleteAt(r) /\ AddedAt(r) /\ KnownAt(r))'
    BY <2>1, HeldStep, DeleteStep, AddedStep, KnownStep
  <2>4. \A c \in Codes : AckedAt(c)'
    BY <2>1, AckedStep
  <2>5. QED
    BY <2>1, <2>2, <2>3, <2>4, MirrorStep DEF IInv
<1>3. QED
  BY <1>1, <1>2, PTL DEF Spec

\* A link that has been answered 201 is found by every later redirect until it
\* is deactivated or runs out, across restarts and failing statements
\* (main.py:222 and 56).
THEOREM AckedFound == Spec => []LinksFound
<1>1. IInv => LinksFound
  BY DEF IInv, KnownAt, LinksFound
<1>2. QED
  BY <1>1, Invariance, PTL

\* A delete that is answered 200 has deactivated a link of its user, for good
\* (main.py:367-377).
THEOREM DeletesTrue == Spec => []DeleteReplyTrue
<1>1. IInv => DeleteReplyTrue
  BY DEF IInv, DeleteAt, DeleteReplyTrue
<1>2. QED
  BY <1>1, Invariance, PTL

-----------------------------------------------------------------------------
(* The cache entry of a link that is gone *)

\* An entry one tick later.
Aged(x) == IF x = None THEN None ELSE [x EXCEPT !.ttl = Elapse(@)]

\* The requests about to fill c's entry from the row they have inserted or read.
Fillers(c) ==
    {r \in Requests : req[r] # None /\ req[r].code = c /\ req[r].at \in {"add", "set", "fill"}}

\* From the moment a link is gone, its entry only ages or goes, but for those who
\* were about to fill it by then: each does so once at most, and none joins them.
GoneFades ==
    [][\A c \in Codes :
         db[c] # None /\ ~Serveable(c) =>
            /\ db'[c] # None /\ ~Serveable(c)'
            /\ Fillers(c)' \subseteq Fillers(c)
            /\ \/ cache'[c] \in {cache[c], Aged(cache[c]), None}
               \/ \E r \in Fillers(c) :
                     /\ r \notin Fillers(c)'
                     /\ \E t \in {req[r].ttl, FillTTL} : SetCache(c, req[r].long, t)]_vars

LEMMA NoNewFiller ==
    ASSUME TypeOK, [Next]_vars, NEW c \in Codes, db[c] # None, ~Serveable(c),
           NEW r \in Fillers(c)'
    PROVE  r \in Fillers(c)
<1>1. /\ r \in Requests /\ req'[r] # None /\ req'[r].code = c
      /\ req'[r].at \in {"add", "set", "fill"}
  BY DEF Fillers
<1>2. CASE Still(r)
  BY <1>1, <1>2 DEF Still, Fillers
<1>3. CASE Start(r)
  BY <1>1, <1>3, StartMoves DEF Fresh
<1>4. CASE Serve(r)
  <2>1. /\ req[r] # None /\ req[r].code = c /\ Moves(req[r], req'[r])
        /\ req[r] \in Request /\ req \in [Requests -> Request \cup {None}]
    BY <1>1, <1>4, ServeMoves DEF Moves, TypeOK
  <2>2. ASSUME NEW a \in Steps \cup Replies, req' = [req EXCEPT ![r].at = a]
        PROVE  req'[r].at = a
    BY <1>1, <2>1, <2>2 DEF Request
  <2>3. ~InsertRow(r)
    BY <1>1, <2>1, <2>2 DEF InsertRow, Insertable, Goto, Fails, Steps, Replies
  <2>4. ~QueryRow(r)
    BY <1>1, <2>1, <2>2 DEF QueryRow, Goto, Fails, Steps, Replies
  <2>5. req[r].at \notin {"insert", "query"}
    BY <1>4, <2>3, <2>4 DEF Serve, Waiting, CheckAlias, AddToFilter, PrewarmCache,
       CheckFilter, GetCache, FillCache, CountClick, DeactivateRow, DropEntry
  <2>6. QED
    BY <1>1, <2>1, <2>5 DEF Moves, Fillers
<1>5. QED
  BY <1>1, <1>2, <1>3, <1>4, OneMoves

LEMMA EntryStep ==
    ASSUME TypeOK, [Next]_vars, NEW c \in Codes
    PROVE  \/ cache'[c] \in {cache[c], Aged(cache[c]), None}
           \/ \E r \in Fillers(c) :
                 /\ r \notin Fillers(c)'
                 /\ \E t \in {req[r].ttl, FillTTL} : SetCache(c, req[r].long, t)
<1>1. ASSUME NEW r \in Requests, PrewarmCache(r) \/ FillCache(r), cache'[c] # cache[c]
      PROVE  /\ r \in Fillers(c) /\ r \notin Fillers(c)'
             /\ \E t \in {req[r].ttl, FillTTL} : SetCache(c, req[r].long, t)
  <2>1. /\ req[r] # None /\ req[r].at \in {"set", "fill"}
        /\ req[r] \in Request /\ req \in [Requests -> Request \cup {None}]
        /\ \E t \in {req[r].ttl, FillTTL} : SetCache(req[r].code, req[r].long, t)
    BY <1>1 DEF PrewarmCache, FillCache, Waiting, TypeOK
  <2>2. req[r].code = c
    BY <1>1, <2>1 DEF SetCache, TypeOK
  <2>3. req'[r].at \in {"201", "count"}
    BY <1>1, <2>1 DEF PrewarmCache, FillCache, Goto, Request
  <2>4. QED
    BY <2>1, <2>2, <2>3 DEF Fillers
<1>2. ASSUME NEW r \in Requests, GetCache(r) \/ DropEntry(r)
      PROVE  cache'[c] \in {cache[c], None}
  BY <1>2 DEF GetCache, DropEntry, TypeOK
<1>3. Restart => cache'[c] = None
  BY DEF Restart
<1>4. Tick => cache'[c] = Aged(cache[c])
  BY DEF Tick, Aged
<1>5. QED
  BY <1>1, <1>2, <1>3, <1>4, StartMoves DEF Next, Serve, CheckAlias, InsertRow, AddToFilter,
     CheckFilter, QueryRow, CountClick, DeactivateRow, Finish, vars

\* A link of the engine that is deactivated or has run out stays so, and what may
\* still put it in the cache is bounded at that moment: one write for each request
\* that had read or inserted the row by then (main.py:223 and 265).  Such a write
\* may outlive the link by a day, or for ever when the link was new and had no
\* ttl_seconds, but later redirects add nothing to it.
THEOREM OnlyFillersRevive == Spec => GoneFades
<1>1. TypeOK /\ [Next]_vars =>
        \A c \in Codes :
          db[c] # None /\ ~Serveable(c) =>
            /\ db'[c] # None /\ ~Serveable(c)'
            /\ Fillers(c)' \subseteq Fillers(c)
            /\ \/ cache'[c] \in {cache[c], Aged(cache[c]), None}
               \/ \E r \in Fillers(c) :
                     /\ r \notin Fillers(c)'
                     /\ \E t \in {req[r].ttl, FillTTL} : SetCache(c, req[r].long, t)
  <2>1. SUFFICES ASSUME TypeOK, [Next]_vars, NEW c \in Codes, db[c] # None, ~Serveable(c)
                 PROVE  /\ db'[c] # None /\ ~Serveable(c)'
                        /\ Fillers(c)' \subseteq Fillers(c)
                        /\ \/ cache'[c] \in {cache[c], Aged(cache[c]), None}
                           \/ \E r \in Fillers(c) :
                                 /\ r \notin Fillers(c)'
                                 /\ \E t \in {req[r].ttl, FillTTL} :
                                        SetCache(c, req[r].long, t)
    OBVIOUS
  <2>2. db'[c] # None
    BY <2>1, StepKeeps DEF RowKept
  <2>3. QED
    BY <2>1, <2>2, GoneStays, NoNewFiller, EntryStep
<1>2. QED
  BY <1>1, TypeCorrect, PTL DEF Spec, GoneFades

-----------------------------------------------------------------------------
(* The engine implements the URL map *)

\* The table, and what a client has been told, as UrlMap sees them.
LinkAt(c) == IF db[c] = None THEN None ELSE LinkOf(db[c])
AnswerAt(r) == AnswerOf(req[r])

LinkSet == [long: LongURLs, owner: Owners, active: BOOLEAN]

LEMMA MapStutter ==
    ASSUME \A c \in Codes : LinkAt(c)' = LinkAt(c),
           \A r \in Requests : AnswerAt(r)' = AnswerAt(r)
    PROVE  UNCHANGED Abstract!vars
BY DEF Abstract!vars, LinkAt, AnswerAt

LEMMA LinkOff ==
    ASSUME NEW x \in LinkSet, NEW y \in LinkSet,
           y.long = x.long, y.owner = x.owner, y.active = FALSE
    PROVE  y = [x EXCEPT !.active = FALSE]
<1> DEFINE z == [x EXCEPT !.active = FALSE]
<1>1. z \in LinkSet /\ z.long = x.long /\ z.owner = x.owner /\ z.active = FALSE
  BY DEF LinkSet
<1> HIDE DEF z
<1>2. y = z
  BY <1>1 DEF LinkSet
<1>3. QED
  BY <1>2 DEF z

\* The answers a step of one request leaves alone.
LEMMA OtherAnswers ==
    ASSUME TypeOK, NEW r \in Requests, Serve(r) \/ Start(r), AnswerAt(r)' = AnswerAt(r)
    PROVE  \A s \in Requests : AnswerAt(s)' = AnswerAt(s)
<1>1. req' = [req EXCEPT ![r] = req'[r]]
  BY ServeMoves, StartMoves
<1>2. \A s \in Requests \ {r} : req'[s] = req[s]
  BY <1>1 DEF TypeOK
<1>3. QED
  BY <1>2 DEF AnswerAt

\* An insert is a registration, and tells nobody yet.
LEMMA InsertMaps ==
    ASSUME TypeOK, NEW r \in Requests, InsertRow(r), Insertable(req[r].code),
           db' = [db EXCEPT ![req[r].code] = RowOf(req[r])],
           \A s \in Requests : AnswerAt(s)' = AnswerAt(s)
    PROVE  [Abstract!Next]_(Abstract!vars)
<1>1. req[r] \in Request /\ req[r].long \in LongURLs
  BY DEF InsertRow, Waiting, TypeOK, HandlerOK
<1>2. PICK c \in Codes, l \in LongURLs, u \in Users \cup {NoUser} :
        c = req[r].code /\ l = req[r].long /\ u = req[r].user
  BY <1>1 DEF Request, Owners
<1> DEFINE new == [long |-> l, owner |-> u, active |-> TRUE]
<1>3. RowOf(req[r]) \in Row /\ LinkOf(RowOf(req[r])) = new
  BY <1>1, <1>2 DEF RowOf, LinkOf, Row, Request
<1>4. \A d \in Codes : LinkAt(d)' = IF d = c THEN new ELSE LinkAt(d)
  BY <1>2, <1>3, NoneAssumption DEF TypeOK, LinkAt
<1>5. LinkAt(c) = None
  BY <1>2 DEF Insertable, LinkAt
<1>6. Abstract!Register(c, l, u)
  BY <1>4, <1>5 DEF Abstract!Register, LinkAt, AnswerAt
<1>7. QED
  BY <1>6 DEF Abstract!Next

\* A delete that matches deactivates its user's link.
LEMMA DeleteMaps ==
    ASSUME TypeOK, NEW r \in Requests, DeactivateRow(r), Matches(req[r]),
           db' = [db EXCEPT ![req[r].code].active = FALSE],
           \A s \in Requests : AnswerAt(s)' = AnswerAt(s)
    PROVE  [Abstract!Next]_(Abstract!vars)
<1>1. PICK c \in Codes, u \in Users : c = req[r].code /\ u = req[r].user
  BY DEF DeactivateRow, Waiting, TypeOK, HandlerOK, Request
<1> DEFINE row == db[c]
           off == [row EXCEPT !.active = FALSE]
<1>2. row # None /\ row \in Row /\ row.owner = u
  BY <1>1 DEF Matches, TypeOK
<1>3. /\ off \in Row
      /\ off.long = row.long /\ off.owner = row.owner /\ off.active = FALSE
  BY <1>2 DEF Row
<1>4. \A d \in Codes : LinkAt(d)' = IF d = c THEN LinkOf(off) ELSE LinkAt(d)
  BY <1>1, <1>2, <1>3, NoneAssumption DEF TypeOK, LinkAt
<1> HIDE DEF off
<1>5. LinkOf(row) \in LinkSet /\ LinkOf(off) \in LinkSet
  BY <1>2, <1>3 DEF LinkOf, LinkSet, Row
<1>6. /\ LinkOf(off).long = LinkOf(row).long /\ LinkOf(off).owner = LinkOf(row).owner
      /\ LinkOf(off).active = FALSE /\ LinkOf(row).owner = u
  BY <1>2, <1>3 DEF LinkOf
<1>7. LinkOf(off) = [LinkOf(row) EXCEPT !.active = FALSE]
  BY <1>5, <1>6, LinkOff
<1>8. /\ LinkAt(c) # None /\ LinkAt(c).owner = u
      /\ LinkAt(c)' = [LinkAt(c) EXCEPT !.active = FALSE]
  BY <1>2, <1>4, <1>5, <1>6, <1>7, NoneAssumption DEF LinkAt, LinkSet
<1>9. [d \in Codes |-> LinkAt(d)']
        = [[d \in Codes |-> LinkAt(d)] EXCEPT ![c].active = FALSE]
  BY <1>4, <1>8
<1>10. Abstract!Deactivate(c, u)
  BY <1>8, <1>9 DEF Abstract!Deactivate, LinkAt, AnswerAt
<1>11. QED
  BY <1>10 DEF Abstract!Next

\* A 201 or a 302 names the target of its code.
LEMMA AnswerMaps ==
    ASSUME IInv, NEW r \in Requests, Serve(r), UNCHANGED db,
           req[r].at \in {"set", "count"}, req'[r].at \in {"201", "302"}
    PROVE  [Abstract!Next]_(Abstract!vars)
<1>1. /\ TypeOK /\ req[r] # None /\ req[r] \in Request
      /\ req'[r] \in Request /\ Moves(req[r], req'[r])
      /\ req' = [req EXCEPT ![r] = req'[r]]
  BY ServeMoves DEF IInv
<1>2. PICK c \in Codes : c = req[r].code
  BY <1>1 DEF Request
<1>3. db[c] # None /\ db[c].long = req[r].long
  BY <1>1, <1>2 DEF IInv, HeldAt
<1>4. AnswerAt(r) = None
  BY DEF AnswerAt, AnswerOf
<1>5. AnswerAt(r)' = [code |-> c, long |-> db[c].long]
  BY <1>1, <1>2, <1>3, NoneAssumption DEF AnswerAt, AnswerOf, Moves
<1>6. \A s \in Requests \ {r} : AnswerAt(s)' = AnswerAt(s)
  BY <1>1 DEF TypeOK, AnswerAt
<1>7. LinkAt(c) # None /\ LinkAt(c).long = db[c].long
  BY <1>1, <1>3, NoneAssumption DEF LinkAt, LinkOf, TypeOK, Row
<1>8. Abstract!Answer(r, c)
  BY <1>4, <1>5, <1>6, <1>7 DEF Abstract!Answer, LinkAt, AnswerAt
<1>9. QED
  BY <1>8 DEF Abstract!Next

LEMMA ServeMaps ==
    ASSUME IInv, NEW r \in Requests, Serve(r)
    PROVE  [Abstract!Next]_(Abstract!vars)
<1>1. /\ TypeOK /\ req[r] # None /\ req[r] \in Request /\ HandlerOK(req[r])
      /\ req'[r] \in Request /\ Moves(req[r], req'[r])
  BY ServeMoves DEF IInv
<1>2. req[r].at \in Steps
  BY DEF Serve, Waiting, Steps, CheckAlias, InsertRow, AddToFilter, PrewarmCache,
     CheckFilter, GetCache, QueryRow, FillCache, CountClick, DeactivateRow, DropEntry
<1>3. CASE req'[r].at \in {"201", "302"}
  <2>1. req[r].at \in {"set", "count"}
    BY <1>1, <1>3 DEF Moves
  <2>2. UNCHANGED db
    BY <2>1 DEF Serve, Waiting, CheckAlias, InsertRow, AddToFilter, PrewarmCache,
       CheckFilter, GetCache, QueryRow, FillCache, CountClick, DeactivateRow, DropEntry
  <2>3. QED
    BY <1>3, <2>1, <2>2, AnswerMaps
<1>4. CASE req'[r].at \notin {"201", "302"}
  <2>1. AnswerAt(r)' = AnswerAt(r)
    BY <1>2, <1>4 DEF AnswerAt, AnswerOf, Steps
  <2>2. \A s \in Requests : AnswerAt(s)' = AnswerAt(s)
    BY <1>1, <2>1, OtherAnswers
  <2>3. CASE InsertRow(r)
    BY <1>1, <2>2, <2>3, InsertMaps, MapStutter DEF InsertRow, LinkAt
  <2>4. CASE DeactivateRow(r)
    BY <1>1, <2>2, <2>4, DeleteMaps, MapStutter DEF DeactivateRow, LinkAt
  <2>5. CASE UNCHANGED db
    BY <2>2, <2>5, MapStutter DEF LinkAt
  <2>6. QED
    BY <2>3, <2>4, <2>5 DEF Serve, CheckAlias, AddToFilter, PrewarmCache,
       CheckFilter, GetCache, QueryRow, FillCache, CountClick, DropEntry
<1>5. QED
  BY <1>3, <1>4

\* The requests of a set of slots are over.
LEMMA ForgetMaps ==
    ASSUME NEW S \in SUBSET Requests, UNCHANGED db,
           \A s \in Requests :
             AnswerAt(s)' = IF s \in S THEN None ELSE AnswerAt(s)
    PROVE  [Abstract!Next]_(Abstract!vars)
<1>1. Abstract!Forget(S)
  BY DEF Abstract!Forget, AnswerAt
<1>2. QED
  BY <1>1 DEF Abstract!Next

LEMMA NextMaps ==
    ASSUME IInv, [Next]_vars
    PROVE  [Abstract!Next]_(Abstract!vars)
<1>1. TypeOK
  BY DEF IInv
<1>2. ASSUME NEW r \in Requests, Start(r)
      PROVE  [Abstract!Next]_(Abstract!vars)
  <2>1. AnswerAt(r)' = AnswerAt(r) /\ UNCHANGED db
    BY <1>1, <1>2, StartMoves DEF Fresh, AnswerAt, AnswerOf
  <2>2. QED
    BY <1>1, <1>2, <2>1, OtherAnswers, MapStutter DEF LinkAt
<1>3. ASSUME NEW r \in Requests, Finish(r)
      PROVE  [Abstract!Next]_(Abstract!vars)
  <2>1. \A s \in Requests : AnswerAt(s)' = IF s \in {r} THEN None ELSE AnswerAt(s)
    BY <1>1, <1>3 DEF Finish, TypeOK, AnswerAt, AnswerOf
  <2>2. UNCHANGED db
    BY <1>3 DEF Finish
  <2>3. QED
    BY <2>1, <2>2, ForgetMaps
<1>4. CASE Restart
  <2>1. UNCHANGED db /\ \A s \in Requests : AnswerAt(s)' = None
    BY <1>4 DEF Restart, AnswerAt, AnswerOf
  <2>2. QED
    BY <2>1, ForgetMaps
<1>5. CASE Tick
  <2>1. \A r \in Requests : AnswerAt(r)' = AnswerAt(r)
    <3>1. TAKE r \in Requests
    <3>2. CASE req[r] = None
      BY <1>5, <3>2 DEF Tick, AnswerAt
    <3>3. CASE req[r] # None
      BY <1>1, <1>5, <3>3, TickStill DEF Still, AnswerAt, AnswerOf
    <3>4. QED
      BY <3>2, <3>3
  <2>2. \A c \in Codes : LinkAt(c)' = LinkAt(c)
    <3>1. TAKE c \in Codes
    <3>2. CASE db[c] = None
      BY <1>5, <3>2 DEF Tick, LinkAt
    <3>3. CASE db[c] # None
      <4> DEFINE row == [db[c] EXCEPT !.exp = Elapse(db[c].exp)]
      <4>1. /\ row \in Row /\ row.long = db[c].long
            /\ row.owner = db[c].owner /\ row.active = db[c].active
        BY <1>1, <3>3, ElapseType DEF TypeOK, Row
      <4>2. db'[c] = row
        BY <1>5, <3>3 DEF Tick
      <4> HIDE DEF row
      <4>3. QED
        BY <3>3, <4>1, <4>2, NoneAssumption DEF LinkAt, LinkOf
    <3>4. QED
      BY <3>2, <3>3
  <2>3. QED
    BY <2>1, <2>2, MapStutter
<1>6. CASE UNCHANGED <<db, req>>
  BY <1>6, MapStutter DEF LinkAt, AnswerAt
<1>7. QED
  BY <1>2, <1>3, <1>4, <1>5, <1>6, ServeMaps DEF Next, vars

\* The engine implements the URL map: a code is bound once and for ever and
\* every 201 and 302 names its target, although a redirect's target may come
\* from the cache and its row may have been deactivated or have run out since.
THEOREM Refinement == Spec => ImplementsUrlMap
<1>1. Init => Abstract!Init
  BY DEF Init, Abstract!Init, AnswerOf
<1>2. IInv /\ [Next]_vars => [Abstract!Next]_(Abstract!vars)
  BY NextMaps
<1>3. QED
  BY <1>1, <1>2, Invariance, PTL DEF Spec, ImplementsUrlMap, Abstract!Spec
=============================================================================
