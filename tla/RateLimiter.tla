----------------------------- MODULE RateLimiter -----------------------------
(***************************************************************************)
(* The rate limiter of the Go API for one client key                       *)
(* (rate_limiter_service.go): a token bucket in Redis, updated by a Lua    *)
(* script (redis.go), and, when the call fails, a bucket in the memory of  *)
(* the node (tokenbucket.go).                                              *)
(*                                                                         *)
(* The script is atomic, but the time it works with is an argument, which  *)
(* the node reads from its own clock, in whole seconds, before it sends    *)
(* the script.  The node's bucket reads a monotonic clock under its mutex. *)
(*                                                                         *)
(* clock counts ticks, PerSec of them a second.  Tokens of the Redis       *)
(* bucket are whole; those of a node's bucket are counted in parts, PerSec *)
(* of them a token.                                                        *)
(***************************************************************************)
EXTENDS Integers

CONSTANTS
    Nodes,        \* API processes
    Requests,     \* slots for the client's requests in flight
    Capacity,     \* RATE_LIMIT_CAPACITY
    Rate,         \* RATE_LIMIT_REFILL, tokens a second
    PerSec,       \* ticks a second
    Skew,         \* Skew[n]: seconds by which node n's clock is fast
    None,         \* no bucket, no request
    MaxDelay,     \* bound on the ticks from reading the clock to the answer
    RedisFaults,  \* TRUE: the script may fail, executed or not
    MaxLosses,    \* bound on how often Redis loses its data
    MaxTime       \* bound on the clock

VARIABLES
    clock,        \* the real time, in ticks
    bucket,       \* the hash rate_limit:<key> in Redis with its TTL, or None
    local,        \* local[n]: localLimits[key] on node n, or None
    req,          \* req[r]: a request whose script has not answered, or None
    losses,       \* how often Redis has lost its data
    granted,      \* history: granted[s], the requests that came in second s or
                  \* before which Redis let pass
    localGranted  \* history: localGranted[n][t], the requests node n's own
                  \* bucket let pass by tick t

vars == <<clock, bucket, local, req, losses, granted, localGranted>>

ASSUME RateAssumption ==
    /\ Capacity \in Nat \ {0}
    /\ Rate \in Nat \ {0}
    /\ PerSec \in Nat \ {0}
    /\ Skew \in [Nodes -> Nat]
ASSUME BoundAssumption ==
    /\ MaxDelay \in Nat /\ MaxLosses \in Nat /\ MaxTime \in Nat
    /\ RedisFaults \in BOOLEAN
ASSUME NoneAssumption ==
    /\ None \notin [tokens: Nat, last: Nat, ttl: Nat]
    /\ None \notin [tokens: Nat, last: Nat]
    /\ None \notin [node: Nodes, sent: Nat]

Second == clock \div PerSec
Seconds == 0..(MaxTime \div PerSec)

\* EXPIRE, in ticks: ceil(capacity / refill_rate) seconds.
Lifetime == PerSec * ((Capacity + Rate - 1) \div Rate)

Least(a, b) == IF a < b THEN a ELSE b
Most(a, b) == IF a < b THEN b ELSE a

\* The types; a bucket has between no tokens and its capacity.
TypeOK ==
    /\ clock \in 0..MaxTime
    /\ bucket = None \/ bucket \in [tokens: 0..Capacity, last: Nat, ttl: 1..Lifetime]
    /\ local \in [Nodes -> [tokens: 0..(PerSec * Capacity), last: 0..clock] \cup {None}]
    /\ req \in [Requests -> [node: Nodes, sent: 0..clock] \cup {None}]
    /\ losses \in 0..MaxLosses
    /\ granted \in [Seconds -> Nat]
    /\ localGranted \in [Nodes -> [0..MaxTime -> Nat]]

Init ==
    /\ clock = 0
    /\ bucket = None
    /\ local = [n \in Nodes |-> None]
    /\ req = [r \in Requests |-> None]
    /\ losses = 0
    /\ granted = [s \in Seconds |-> 0]
    /\ localGranted = [n \in Nodes |-> [t \in 0..MaxTime |-> 0]]

-----------------------------------------------------------------------------
(* The two buckets.  A definition named after another one with a suffix is  *)
(* that operator with a bug in it, which a property has to notice (README,  *)
(* "Mutants").                                                              *)

\* The argument now of a request's script.
Now(q) == q.sent \div PerSec + Skew[q.node]

Refilled_Uncapped(now) ==
    IF bucket = None THEN Capacity
    ELSE bucket.tokens + Most(0, now - bucket.last) * Rate

\* The script's refill: no time that passes backwards takes tokens away.
Refilled(now) ==
    IF bucket = None THEN Capacity
    ELSE Least(Capacity, bucket.tokens + Most(0, now - bucket.last) * Rate)

Script_Overdraw(now) ==
    bucket' = [tokens |-> Refilled(now) - 1, last |-> now, ttl |-> Lifetime]

\* tokenBucketScript for one token: a request let pass renews the key's TTL, one
\* refused leaves it.
Script(now) ==
    LET tokens == Refilled(now) IN
    bucket' = IF tokens >= 1
              THEN [tokens |-> tokens - 1, last |-> now, ttl |-> Lifetime]
              ELSE [tokens |-> tokens, last |-> now, ttl |-> bucket.ttl]

LocalRefilled(n) ==
    IF local[n] = None THEN PerSec * Capacity
    ELSE Least(PerSec * Capacity,
               local[n].tokens + (clock - local[n].last) * Rate)

\* TokenBucket.Allow: lastUpdated moves whether or not the request passes.
LocalAllow_LastKept(n) ==
    LET tokens == LocalRefilled(n)
        taken == IF tokens >= PerSec THEN PerSec ELSE 0
    IN  local' = [local EXCEPT ![n] =
                    [tokens |-> tokens - taken,
                     last |-> IF local[n] = None THEN clock ELSE local[n].last]]

LocalAllow(n) ==
    LET tokens == LocalRefilled(n)
        taken == IF tokens >= PerSec THEN PerSec ELSE 0
    IN  local' = [local EXCEPT ![n] = [tokens |-> tokens - taken, last |-> clock]]

-----------------------------------------------------------------------------
(* A request of the client *)

\* One more from x on, in a history of running totals.
CountFrom(f, x) == [i \in DOMAIN f |-> IF x <= i THEN f[i] + 1 ELSE f[i]]

\* EvaluateTokenBucket reads the clock.
Arrive(r) ==
    /\ req[r] = None
    /\ \E n \in Nodes : req' = [req EXCEPT ![r] = [node |-> n, sent |-> clock]]
    /\ UNCHANGED <<clock, bucket, local, losses, granted, localGranted>>

\* The script runs and answers.
Evaluate(r) ==
    /\ req[r] # None
    /\ Script(Now(req[r]))
    /\ granted' = IF Refilled(Now(req[r])) >= 1
                  THEN CountFrom(granted, req[r].sent \div PerSec)
                  ELSE granted
    /\ req' = [req EXCEPT ![r] = None]
    /\ UNCHANGED <<clock, local, losses, localGranted>>

\* The script runs and its answer is lost: the token is gone.  The Redis client
\* sends the script again, or gives up.
EvaluateLost(r) ==
    /\ RedisFaults
    /\ req[r] # None
    /\ Script(Now(req[r]))
    /\ UNCHANGED <<clock, local, req, losses, granted, localGranted>>

\* The call has failed: the node's own bucket decides.
Fallback(r) ==
    /\ RedisFaults
    /\ req[r] # None
    /\ LET n == req[r].node IN
       /\ LocalAllow(n)
       /\ localGranted' = IF LocalRefilled(n) >= PerSec
                          THEN [localGranted EXCEPT ![n] = CountFrom(@, clock)]
                          ELSE localGranted
    /\ req' = [req EXCEPT ![r] = None]
    /\ UNCHANGED <<clock, bucket, losses, granted>>

-----------------------------------------------------------------------------
(* The rest of the world *)

\* Time passes in Redis too.
Tick ==
    /\ clock < MaxTime
    /\ \A r \in Requests : req[r] # None => clock - req[r].sent < MaxDelay
    /\ clock' = clock + 1
    /\ bucket' = IF bucket = None \/ bucket.ttl = 1 THEN None
                 ELSE [bucket EXCEPT !.ttl = @ - 1]
    /\ UNCHANGED <<local, req, losses, granted, localGranted>>

RedisRestart ==
    /\ losses < MaxLosses
    /\ losses' = losses + 1
    /\ bucket' = None
    /\ UNCHANGED <<clock, local, req, granted, localGranted>>

Next ==
    \/ \E r \in Requests :
          Arrive(r) \/ Evaluate(r) \/ EvaluateLost(r) \/ Fallback(r)
    \/ Tick
    \/ RedisRestart

Spec == Init /\ [][Next]_vars

-----------------------------------------------------------------------------
(* Properties *)

\* Requests let pass from a to b, of a history of running totals.
Passed(f, a, b) == f[b] - (IF a = 0 THEN 0 ELSE f[a - 1])

\* In no window of seconds does Redis let more requests of a client pass than a
\* full bucket and the window's refill ("without race-prone read/modify/write
\* sequences", README.md:98); each loss of Redis's data is worth a full bucket.
\* The key's expiry never is: it comes when the bucket would be full again
\* (redis.go:76).
RedisBound ==
    \A a, b \in Seconds :
        a <= b => Passed(granted, a, b) <= Capacity * (1 + losses) + Rate * (b - a)

\* In no window of ticks does a node's own bucket let more pass, whatever
\* order requests fall back to it in (tokenbucket.go:33-36).
LocalBound ==
    \A n \in Nodes : \A a, b \in 0..MaxTime :
        a <= b => PerSec * Passed(localGranted[n], a, b)
                    <= PerSec * Capacity + Rate * (b - a)
=============================================================================
