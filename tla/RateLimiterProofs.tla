-------------------------- MODULE RateLimiterProofs --------------------------
(***************************************************************************)
(* Proofs about RateLimiter, for every capacity, rate, number of nodes and *)
(* requests, and any clocks that are fast.                                 *)
(***************************************************************************)
EXTENDS RateLimiter, TLAPS

-----------------------------------------------------------------------------
(* Arithmetic *)

LEMMA Quotient ==
    ASSUME NEW a \in Nat, NEW b \in Nat \ {0}
    PROVE  /\ a \div b \in Nat
           /\ a >= b => a \div b >= 1
OBVIOUS

LEMMA Product ==
    ASSUME NEW a \in Nat, NEW b \in Nat
    PROVE  /\ a * b \in Nat
           /\ a >= 1 => b <= a * b
OBVIOUS

\* A key lives for one tick at least.
LEMMA LifetimeType == Lifetime \in Nat \ {0}
<1> DEFINE s == (Capacity + Rate - 1) \div Rate
<1>1. Capacity + Rate - 1 \in Nat /\ Capacity + Rate - 1 >= Rate
  BY RateAssumption
<1>2. s \in Nat /\ s >= 1
  BY <1>1, Quotient, RateAssumption
<1> HIDE DEF s
<1>3. PerSec * s \in Nat /\ s <= PerSec * s
  BY <1>2, Product, RateAssumption
<1>4. QED
  BY <1>2, <1>3 DEF Lifetime, s

-----------------------------------------------------------------------------
(* The buckets *)

LEMMA CountedType ==
    ASSUME NEW S \in SUBSET Int, NEW f \in [S -> Nat], NEW x \in Int
    PROVE  CountFrom(f, x) \in [S -> Nat]
BY DEF CountFrom

\* A refill never takes a bucket above its capacity, whatever time a script
\* brings with it.
LEMMA RefilledType ==
    ASSUME TypeOK, NEW now \in Nat
    PROVE  Refilled(now) \in 0..Capacity
<1>1. CASE bucket = None
  BY <1>1, RateAssumption DEF Refilled
<1>2. CASE bucket # None
  <2> DEFINE d == Most(0, now - bucket.last)
  <2>1. bucket.tokens \in 0..Capacity /\ bucket.last \in Nat
    BY <1>2 DEF TypeOK
  <2>2. d \in Nat
    BY <2>1 DEF Most
  <2> HIDE DEF d
  <2>3. d * Rate \in Nat
    BY <2>2, Product, RateAssumption
  <2>4. Refilled(now) = Least(Capacity, bucket.tokens + d * Rate)
    BY <1>2 DEF Refilled, d
  <2>5. QED
    BY <2>1, <2>3, <2>4, RateAssumption DEF Least
<1>3. QED
  BY <1>1, <1>2

LEMMA LocalType ==
    ASSUME TypeOK, NEW n \in Nodes
    PROVE  LocalRefilled(n) \in 0..(PerSec * Capacity)
<1>1. PerSec * Capacity \in Nat
  BY Product, RateAssumption
<1> DEFINE full == PerSec * Capacity
<1>2. CASE local[n] = None
  BY <1>1, <1>2 DEF LocalRefilled
<1>3. CASE local[n] # None
  <2> DEFINE d == clock - local[n].last
  <2>1. local[n].tokens \in 0..full /\ d \in Nat
    BY <1>3 DEF TypeOK
  <2> HIDE DEF d
  <2>2. d * Rate \in Nat
    BY <2>1, Product, RateAssumption
  <2>3. LocalRefilled(n) = Least(full, local[n].tokens + d * Rate)
    BY <1>3 DEF LocalRefilled, d
  <2> HIDE DEF full
  <2>4. QED
    BY <1>1, <2>1, <2>2, <2>3 DEF Least, full
<1>4. QED
  BY <1>2, <1>3

BucketOK == bucket = None \/ bucket \in [tokens: 0..Capacity, last: Nat, ttl: 1..Lifetime]

LEMMA ScriptType ==
    ASSUME TypeOK, NEW now \in Nat, Script(now),
           bucket = None => Refilled(now) >= 1
    PROVE  BucketOK'
<1>1. Refilled(now) \in 0..Capacity
  BY RefilledType
<1>2. CASE Refilled(now) >= 1
  <2>1. bucket' = [tokens |-> Refilled(now) - 1, last |-> now, ttl |-> Lifetime]
    BY <1>2 DEF Script
  <2>2. Refilled(now) - 1 \in 0..Capacity
    BY <1>1, <1>2, RateAssumption
  <2>3. Lifetime \in 1..Lifetime
    BY LifetimeType
  <2>4. QED
    BY <2>1, <2>2, <2>3 DEF BucketOK
<1>3. CASE ~(Refilled(now) >= 1)
  <2>1. bucket.ttl \in 1..Lifetime
    BY <1>3 DEF TypeOK
  <2>2. QED
    BY <1>1, <1>3, <2>1 DEF Script, BucketOK
<1>4. QED
  BY <1>2, <1>3

\* A missing bucket is a full one.
LEMMA NewPasses == ASSUME NEW now, bucket = None PROVE Refilled(now) >= 1
BY RateAssumption DEF Refilled

LEMMA NowType ==
    ASSUME TypeOK, NEW r \in Requests, req[r] # None
    PROVE  Now(req[r]) \in Nat
<1>1. req[r].node \in Nodes /\ req[r].sent \in Nat
  BY DEF TypeOK
<1>2. QED
  BY <1>1, Quotient, RateAssumption DEF Now

-----------------------------------------------------------------------------
(* Type correctness *)

LEMMA InitType == Init => TypeOK
<1>1. SUFFICES ASSUME Init PROVE TypeOK
  OBVIOUS
<1>2. MaxTime \in Nat /\ MaxLosses \in Nat
  BY BoundAssumption
<1>3. QED
  BY <1>1, <1>2 DEF Init, TypeOK

LEMMA TickType ==
    ASSUME TypeOK, Tick
    PROVE  TypeOK'
<1>1. clock' \in 0..MaxTime /\ clock \in Nat /\ clock' = clock + 1
  BY BoundAssumption DEF Tick, TypeOK
<1>2. BucketOK'
  <2>1. CASE bucket = None \/ bucket.ttl = 1
    BY <2>1 DEF Tick, BucketOK
  <2>2. CASE bucket # None /\ bucket.ttl # 1
    <3>1. bucket' = [bucket EXCEPT !.ttl = bucket.ttl - 1]
      BY <2>2 DEF Tick
    <3>2. bucket \in [tokens: 0..Capacity, last: Nat, ttl: 1..Lifetime]
      BY <2>2 DEF TypeOK
    <3>3. bucket.ttl - 1 \in 1..Lifetime
      BY <2>2, <3>2, LifetimeType
    <3>4. QED
      BY <3>1, <3>2, <3>3 DEF BucketOK
  <2>3. QED
    BY <2>1, <2>2
<1>3. \A t \in 0..clock : t \in 0..clock'
  BY <1>1
<1>4. local' \in [Nodes -> [tokens: 0..(PerSec * Capacity), last: 0..clock'] \cup {None}]
  BY <1>3 DEF Tick, TypeOK
<1>5. req' \in [Requests -> [node: Nodes, sent: 0..clock'] \cup {None}]
  BY <1>3 DEF Tick, TypeOK
<1>6. QED
  BY <1>1, <1>2, <1>4, <1>5 DEF Tick, TypeOK, BucketOK

LEMMA RequestType ==
    ASSUME TypeOK, NEW r \in Requests,
           Arrive(r) \/ Evaluate(r) \/ EvaluateLost(r) \/ Fallback(r)
    PROVE  TypeOK'
<1> DEFINE ReqOK == req \in [Requests -> [node: Nodes, sent: 0..clock] \cup {None}]
<1>0. clock \in 0..clock /\ ReqOK
  BY BoundAssumption DEF TypeOK
<1>1. CASE Arrive(r)
  <2>1. ReqOK'
    <3>1. PICK n \in Nodes : req' = [req EXCEPT ![r] = [node |-> n, sent |-> clock]]
      BY <1>1 DEF Arrive
    <3>2. clock' = clock
      BY <1>1 DEF Arrive
    <3>3. QED
      BY <1>0, <3>1, <3>2
  <2>2. QED
    BY <1>1, <2>1 DEF Arrive, TypeOK
<1>2. CASE Evaluate(r)
  <2>1. BucketOK'
    BY <1>2, NowType, NewPasses, ScriptType DEF Evaluate
  <2>2. granted' \in [Seconds -> Nat]
    <3>1. granted \in [Seconds -> Nat] /\ Seconds \in SUBSET Int
      BY DEF TypeOK, Seconds
    <3>2. req[r].sent \div PerSec \in Int
      BY <1>2, Quotient, RateAssumption DEF Evaluate, TypeOK
    <3>3. QED
      BY <1>2, <3>1, <3>2, CountedType DEF Evaluate
  <2>3. ReqOK'
    BY <1>0, <1>2 DEF Evaluate
  <2>4. QED
    BY <1>2, <2>1, <2>2, <2>3 DEF Evaluate, TypeOK, BucketOK
<1>3. CASE EvaluateLost(r)
  <2>1. BucketOK'
    BY <1>3, NowType, NewPasses, ScriptType DEF EvaluateLost
  <2>2. QED
    BY <1>3, <2>1 DEF EvaluateLost, TypeOK, BucketOK
<1>4. CASE Fallback(r)
  <2> DEFINE n == req[r].node
             taken == IF LocalRefilled(n) >= PerSec THEN PerSec ELSE 0
  <2>1. n \in Nodes
    BY <1>4 DEF Fallback, TypeOK
  <2>2. LocalRefilled(n) \in 0..(PerSec * Capacity)
    BY <2>1, LocalType
  <2>3. PerSec * Capacity \in Nat
    BY Product, RateAssumption
  <2>4. LocalRefilled(n) - taken \in 0..(PerSec * Capacity)
    BY <2>2, <2>3, RateAssumption
  <2>5. local' = [local EXCEPT ![n] = [tokens |-> LocalRefilled(n) - taken, last |-> clock]]
        /\ clock' = clock
    BY <1>4 DEF Fallback, LocalAllow
  <2>6. local' \in [Nodes -> [tokens: 0..(PerSec * Capacity), last: 0..clock'] \cup {None}]
    BY <1>0, <2>4, <2>5 DEF TypeOK
  <2>7. localGranted' \in [Nodes -> [0..MaxTime -> Nat]]
    <3>1. /\ localGranted \in [Nodes -> [0..MaxTime -> Nat]]
          /\ 0..MaxTime \in SUBSET Int /\ clock \in Int
      BY DEF TypeOK
    <3>2. CountFrom(localGranted[n], clock) \in [0..MaxTime -> Nat]
      BY <2>1, <3>1, CountedType
    <3>3. \/ localGranted' = localGranted
          \/ localGranted' = [localGranted EXCEPT ![n] = CountFrom(localGranted[n], clock)]
      BY <1>4 DEF Fallback
    <3> HIDE DEF n
    <3>4. QED
      BY <3>1, <3>2, <3>3
  <2>8. ReqOK'
    BY <1>0, <1>4 DEF Fallback
  <2>9. QED
    BY <1>4, <2>6, <2>7, <2>8 DEF Fallback, TypeOK
<1>5. QED
  BY <1>1, <1>2, <1>3, <1>4

LEMMA TypeStep == TypeOK /\ [Next]_vars => TypeOK'
<1>1. CASE RedisRestart
  BY <1>1, BoundAssumption DEF RedisRestart, TypeOK
<1>2. CASE UNCHANGED vars
  BY <1>2 DEF vars, TypeOK
<1>3. QED
  BY <1>1, <1>2, TickType, RequestType DEF Next

\* No bucket ever has fewer tokens than none or more than it holds, whatever
\* times the scripts bring with them and in whatever order they run, and the key
\* always has a TTL (redis.go:56-78, tokenbucket.go:33-43).
THEOREM TypeCorrect == Spec => []TypeOK
BY InitType, TypeStep, PTL DEF Spec

-----------------------------------------------------------------------------
(* A meter: what may still pass, against the windows of a history *)

\* f counts, by running totals over 0..hi, what has passed by now; each unit of
\* it is worth m, and left is what may still pass now.  In every window up to now
\* the two together stay within a full bucket and the window's refill.
Metered(f, hi, m, now, left, full) ==
    /\ \A i \in now..hi : f[i] = f[now]
    /\ \A a \in 0..now : m * Passed(f, a, now) + left <= full + Rate * (now - a)
    /\ \A a, b \in 0..hi :
          a <= b => m * Passed(f, a, b) <= full + Rate * (b - a)

LEMMA PassedType ==
    ASSUME NEW hi \in Nat, NEW f \in [0..hi -> Nat], NEW b \in 0..hi, NEW a \in 0..b
    PROVE  Passed(f, a, b) \in Int
<1>1. CASE a = 0
  BY <1>1 DEF Passed
<1>2. CASE a # 0
  <2>1. a - 1 \in 0..hi
    BY <1>2
  <2>2. QED
    BY <1>2, <2>1 DEF Passed
<1>3. QED
  BY <1>1, <1>2

\* A longer window has more refill.
LEMMA MoreRefill ==
    ASSUME NEW x \in Int, NEW y \in Int, x <= y
    PROVE  /\ Rate * x \in Int /\ Rate * y \in Int
           /\ Rate * x <= Rate * y
           /\ Rate * (x + 1) = Rate * x + Rate
           /\ x >= 0 => Rate * x >= 0
<1>1. Rate \in Nat
  BY RateAssumption
<1>2. PICK d \in Nat : y = x + d
  <2>1. y - x \in Nat /\ y = x + (y - x)
    OBVIOUS
  <2>2. QED
    BY <2>1
<1>3. Rate * y = Rate * x + Rate * d /\ Rate * d \in Nat
  BY <1>1, <1>2
<1>4. QED
  BY <1>1, <1>3

LEMMA Scaled ==
    ASSUME NEW m \in Nat, NEW x \in Int
    PROVE  m * x \in Int /\ m * (x + 1) = m * x + m
OBVIOUS

\* In the windows that end later nothing more has passed.
LEMMA LaterWindows ==
    ASSUME NEW hi \in Nat, NEW f \in [0..hi -> Nat], NEW m \in Nat,
           NEW now \in 0..hi, NEW left \in Nat, NEW full \in Nat,
           \A i \in now..hi : f[i] = f[now],
           \A a \in 0..now : m * Passed(f, a, now) + left <= full + Rate * (now - a),
           NEW b \in now..hi, NEW a \in 0..b
    PROVE  m * Passed(f, a, b) <= full + Rate * (b - a)
<1>1. CASE a <= now
  <2>1. Passed(f, a, b) = Passed(f, a, now) /\ Passed(f, a, now) \in Int
    BY <1>1, PassedType DEF Passed
  <2>2. m * Passed(f, a, now) \in Int
    BY <2>1
  <2>3. /\ Rate * (now - a) <= Rate * (b - a)
        /\ Rate * (now - a) \in Int /\ Rate * (b - a) \in Int
    <3>1. now - a \in Int /\ b - a \in Int /\ now - a <= b - a
      OBVIOUS
    <3>2. QED
      BY <3>1, MoreRefill
  <2>4. m * Passed(f, a, now) + left <= full + Rate * (now - a)
    BY <1>1
  <2> DEFINE x == m * Passed(f, a, now)
             y == Rate * (now - a)
             z == Rate * (b - a)
  <2>5. m * Passed(f, a, b) = x
    BY <2>1
  <2>6. x \in Int /\ y \in Int /\ z \in Int /\ y <= z /\ x + left <= full + y
    BY <2>2, <2>3, <2>4
  <2> HIDE DEF x, y, z
  <2>7. x <= full + z
    BY <2>6
  <2>8. QED
    BY <2>5, <2>7 DEF z
<1>2. CASE a > now
  <2>1. Passed(f, a, b) = 0
    <3>1. a # 0 /\ a - 1 \in now..hi /\ f[now] \in Nat
      BY <1>2
    <3>2. f[b] = f[now] /\ f[a - 1] = f[now]
      BY <3>1
    <3>3. QED
      BY <3>1, <3>2 DEF Passed
  <2>2. Rate * (b - a) \in Int /\ Rate * (b - a) >= 0
    <3>1. b - a \in Nat
      OBVIOUS
    <3>2. QED
      BY <3>1, Product, RateAssumption
  <2>3. QED
    BY <2>1, <2>2
<1>3. QED
  BY <1>1, <1>2

LEMMA MeterStart ==
    ASSUME NEW hi \in Nat, NEW m \in Nat, NEW full \in Nat
    PROVE  Metered([i \in 0..hi |-> 0], hi, m, 0, full, full)
<1> DEFINE f == [i \in 0..hi |-> 0]
<1>1. \A b \in 0..hi : \A a \in 0..b : Passed(f, a, b) = 0
  BY DEF Passed
<1>2. f \in [0..hi -> Nat] /\ \A i \in 0..hi : f[i] = 0
  OBVIOUS
<1> HIDE DEF f
<1>3. \A a \in 0..0 : m * Passed(f, a, 0) + full <= full + Rate * (0 - a)
  <2>1. Passed(f, 0, 0) = 0 /\ Rate * (0 - 0) = 0
    BY <1>1, RateAssumption
  <2>2. QED
    BY <2>1
<1>4. QED
  <2>1. \A b \in 0..hi : \A a \in 0..b : m * Passed(f, a, b) <= full + Rate * (b - a)
    <3>1. SUFFICES ASSUME NEW b \in 0..hi, NEW a \in 0..b
                   PROVE  m * Passed(f, a, b) <= full + Rate * (b - a)
      OBVIOUS
    <3>2. Passed(f, a, b) = 0 /\ b - a \in Nat
      BY <1>1
    <3>3. m * 0 = 0 /\ Rate * (b - a) \in Nat
      BY <3>2, Product, RateAssumption
    <3>4. QED
      BY <3>2, <3>3
  <2>2. Metered(f, hi, m, 0, full, full)
    <3>1. \A i \in 0..hi : f[i] = f[0]
      BY <1>2
    <3>2. QED
      BY <1>3, <2>1, <3>1 DEF Metered
  <2>3. QED
    BY <2>2 DEF f

\* Less may pass.
LEMMA MeterLess ==
    ASSUME NEW hi \in Nat, NEW f \in [0..hi -> Nat], NEW m \in Nat,
           NEW now \in 0..hi, NEW left \in Nat, NEW full \in Nat,
           Metered(f, hi, m, now, left, full),
           NEW less \in Nat, less <= left
    PROVE  Metered(f, hi, m, now, less, full)
<1>1. ASSUME NEW a \in 0..now
      PROVE  m * Passed(f, a, now) + less <= full + Rate * (now - a)
  <2>1. /\ m * Passed(f, a, now) \in Int /\ Rate * (now - a) \in Int
        /\ m * Passed(f, a, now) + left <= full + Rate * (now - a)
    <3>1. Passed(f, a, now) \in Int
      BY PassedType
    <3>2. QED
      BY <3>1, RateAssumption DEF Metered
  <2>2. QED
    BY <2>1
<1>2. QED
  BY <1>1 DEF Metered

\* One unit passes.
LEMMA MeterPass ==
    ASSUME NEW hi \in Nat, NEW f \in [0..hi -> Nat], NEW m \in Nat,
           NEW now \in 0..hi, NEW left \in Nat, NEW full \in Nat,
           Metered(f, hi, m, now, left, full),
           NEW less \in Nat, less + m <= left
    PROVE  Metered(CountFrom(f, now), hi, m, now, less, full)
<1> DEFINE g == CountFrom(f, now)
<1>1. /\ g \in [0..hi -> Nat] /\ g[now] = f[now] + 1
      /\ \A i \in now..hi : g[i] = f[i] + 1
      /\ \A i \in 0..(now - 1) : g[i] = f[i]
  BY DEF CountFrom
<1>2. \A i \in now..hi : g[i] = g[now]
  BY <1>1 DEF Metered
<1> HIDE DEF g
<1>3. ASSUME NEW a \in 0..now
      PROVE  m * Passed(g, a, now) + less <= full + Rate * (now - a)
  <2>1. Passed(g, a, now) = Passed(f, a, now) + 1
    <3>1. CASE a = 0
      BY <1>1, <3>1 DEF Passed
    <3>2. CASE a # 0
      <4>1. a - 1 \in 0..(now - 1) /\ f[now] \in Nat /\ f[a - 1] \in Nat
        BY <3>2
      <4>2. QED
        BY <1>1, <3>2, <4>1 DEF Passed
    <3>3. QED
      BY <3>1, <3>2
  <2>2. Passed(f, a, now) \in Int
    BY PassedType
  <2>3. /\ m * Passed(g, a, now) = m * Passed(f, a, now) + m
        /\ m * Passed(f, a, now) \in Int
    BY <2>1, <2>2, Scaled
  <2>4. /\ m * Passed(f, a, now) + left <= full + Rate * (now - a)
        /\ Rate * (now - a) \in Int
    BY RateAssumption DEF Metered
  <2>5. QED
    BY <2>3, <2>4
<1>4. ASSUME NEW b \in 0..hi, NEW a \in 0..b, b < now
      PROVE  m * Passed(g, a, b) <= full + Rate * (b - a)
  <2>1. Passed(g, a, b) = Passed(f, a, b)
    <3>1. b \in 0..(now - 1) /\ (a # 0 => a - 1 \in 0..(now - 1))
      BY <1>4
    <3>2. QED
      BY <1>1, <3>1 DEF Passed
  <2>2. QED
    BY <2>1 DEF Metered
<1>5. ASSUME NEW b \in 0..hi, NEW a \in 0..b
      PROVE  m * Passed(g, a, b) <= full + Rate * (b - a)
  <2>1. CASE b < now
    BY <1>4, <2>1
  <2>2. CASE b >= now
    <3>1. b \in now..hi
      BY <2>2
    <3>2. QED
      BY <1>1, <1>2, <1>3, <3>1, LaterWindows
  <2>3. QED
    BY <2>1, <2>2
<1>6. QED
  BY <1>2, <1>3, <1>5 DEF Metered, g

\* A unit of time passes, and brings no more than its refill.
LEMMA MeterTick ==
    ASSUME NEW hi \in Nat, NEW f \in [0..hi -> Nat], NEW m \in Nat,
           NEW now \in 0..hi, NEW left \in Nat, NEW full \in Nat,
           Metered(f, hi, m, now, left, full), now + 1 <= hi,
           NEW more \in Nat, more <= left + Rate, more <= full
    PROVE  Metered(f, hi, m, now + 1, more, full)
<1>1. \A i \in (now + 1)..hi : f[i] = f[now + 1]
  <2>1. \A i \in (now + 1)..hi : i \in now..hi
    OBVIOUS
  <2>2. QED
    BY <2>1 DEF Metered
<1>2. ASSUME NEW a \in 0..(now + 1)
      PROVE  m * Passed(f, a, now + 1) + more <= full + Rate * (now + 1 - a)
  <2>1. CASE a <= now
    <3>1. Passed(f, a, now + 1) = Passed(f, a, now) /\ Passed(f, a, now) \in Int
      BY <2>1, PassedType DEF Passed, Metered
    <3>2. m * Passed(f, a, now) \in Int
      BY <3>1
    <3>3. /\ Rate * (now + 1 - a) = Rate * (now - a) + Rate
          /\ Rate * (now - a) \in Int
      <4>1. now + 1 - a = (now - a) + 1 /\ now - a \in Int
        BY <2>1
      <4>2. QED
        BY <4>1, Scaled, RateAssumption
    <3>4. m * Passed(f, a, now) + left <= full + Rate * (now - a)
      BY <2>1 DEF Metered
    <3>5. QED
      <4> DEFINE x == Rate * (now - a)
                 y == m * Passed(f, a, now)
      <4>1. x \in Int /\ y \in Int /\ y + left <= full + x /\ Rate \in Nat
        BY <3>2, <3>3, <3>4, RateAssumption
      <4> HIDE DEF x, y
      <4>2. y + more <= full + (x + Rate)
        BY <4>1
      <4>3. QED
        BY <3>1, <3>3, <4>2 DEF x, y
  <2>2. CASE a = now + 1
    <3>1. Passed(f, a, now + 1) = 0
      <4>1. f[now + 1] = f[now] /\ f[now] \in Nat /\ a # 0 /\ a - 1 = now
        BY <2>2 DEF Metered
      <4>2. QED
        BY <2>2, <4>1 DEF Passed
    <3>2. now + 1 - a = 0 /\ Rate * 0 = 0
      BY <2>2, RateAssumption
    <3>3. QED
      BY <3>1, <3>2
  <2>3. QED
    BY <2>1, <2>2
<1>3. QED
  BY <1>1, <1>2 DEF Metered

\* A loss is worth what it brings.
LEMMA MeterLoss ==
    ASSUME NEW hi \in Nat, NEW f \in [0..hi -> Nat], NEW m \in Nat,
           NEW now \in 0..hi, NEW left \in Nat, NEW full \in Nat,
           Metered(f, hi, m, now, left, full),
           NEW extra \in Nat, NEW more \in Nat, more <= left + extra
    PROVE  Metered(f, hi, m, now, more, full + extra)
<1>1. ASSUME NEW b \in 0..hi, NEW a \in 0..b
      PROVE  m * Passed(f, a, b) \in Int /\ Rate * (b - a) \in Int
  <2>1. Passed(f, a, b) \in Int
    BY PassedType
  <2>2. QED
    BY <2>1, RateAssumption
<1>2. ASSUME NEW a \in 0..now
      PROVE  m * Passed(f, a, now) + more <= full + extra + Rate * (now - a)
  <2> DEFINE x == m * Passed(f, a, now)
             y == Rate * (now - a)
  <2>1. x + left <= full + y
    BY DEF Metered
  <2>2. x \in Int /\ y \in Int
    BY <1>1
  <2> HIDE DEF x, y
  <2>3. x + more <= full + extra + y
    BY <2>1, <2>2
  <2>4. QED
    BY <2>3 DEF x, y
<1>3. ASSUME NEW b \in 0..hi, NEW a \in 0..b
      PROVE  m * Passed(f, a, b) <= full + extra + Rate * (b - a)
  <2> DEFINE x == m * Passed(f, a, b)
             y == Rate * (b - a)
  <2>1. x <= full + y
    BY DEF Metered
  <2>2. x \in Int /\ y \in Int
    BY <1>1
  <2> HIDE DEF x, y
  <2>3. x <= full + extra + y
    BY <2>1, <2>2
  <2>4. QED
    BY <2>3 DEF x, y
<1>4. QED
  BY <1>2, <1>3 DEF Metered

-----------------------------------------------------------------------------
(* The nodes' own buckets *)

LocalMeter(n) ==
    Metered(localGranted[n], MaxTime, PerSec, clock, LocalRefilled(n), PerSec * Capacity)

\* What the meter lemmas ask of their parameters.
LEMMA LocalParameters ==
    ASSUME TypeOK, NEW n \in Nodes
    PROVE  /\ MaxTime \in Nat /\ PerSec \in Nat /\ PerSec * Capacity \in Nat
           /\ clock \in 0..MaxTime
           /\ localGranted[n] \in [0..MaxTime -> Nat]
           /\ LocalRefilled(n) \in Nat /\ LocalRefilled(n) <= PerSec * Capacity
<1>1. PerSec * Capacity \in Nat
  BY Product, RateAssumption
<1>2. LocalRefilled(n) \in 0..(PerSec * Capacity)
  BY LocalType
<1>3. QED
  BY <1>1, <1>2, RateAssumption, BoundAssumption DEF TypeOK

LEMMA LocalFallback ==
    ASSUME TypeOK, NEW r \in Requests, Fallback(r), NEW n \in Nodes, n = req[r].node,
           LocalMeter(n)
    PROVE  LocalMeter(n)'
<1> DEFINE had == LocalRefilled(n)
           taken == IF had >= PerSec THEN PerSec ELSE 0
           full == PerSec * Capacity
<1>1. /\ had \in 0..full /\ full \in Nat /\ PerSec \in Nat /\ clock \in 0..MaxTime
      /\ MaxTime \in Nat /\ localGranted[n] \in [0..MaxTime -> Nat]
  BY LocalParameters
<1>2. local' = [local EXCEPT ![n] = [tokens |-> had - taken, last |-> clock]]
      /\ UNCHANGED clock
  BY DEF Fallback, LocalAllow
<1>3. local'[n] = [tokens |-> had - taken, last |-> clock] /\ local'[n] # None
  <2>1. local'[n] = [tokens |-> had - taken, last |-> clock]
    BY <1>2 DEF TypeOK
  <2>2. had - taken \in Nat /\ clock \in Nat
    BY <1>1
  <2>3. QED
    BY <2>1, <2>2, NoneAssumption
<1>4. LocalRefilled(n)' = had - taken
  <2>1. (clock' - local'[n].last) * Rate = 0
    <3>1. clock' = clock /\ local'[n].last = clock /\ clock \in Int
      BY <1>1, <1>2, <1>3
    <3>2. clock' - local'[n].last = 0
      BY <3>1
    <3>3. QED
      BY <3>2, RateAssumption
  <2>2. had - taken \in 0..full
    BY <1>1
  <2>3. LocalRefilled(n)' = Least(full, had - taken + 0)
    BY <1>3, <2>1 DEF LocalRefilled
  <2> HIDE DEF had, taken, full
  <2>4. QED
    BY <1>1, <2>2, <2>3 DEF Least
<1>5. CASE had >= PerSec
  <2>1. localGranted'[n] = CountFrom(localGranted[n], clock)
    BY <1>5 DEF Fallback, TypeOK
  <2>2. had - taken \in Nat /\ had - taken + PerSec <= had /\ had \in Nat
    <3> HIDE DEF had
    <3>1. QED
      BY <1>1, <1>5
  <2>3. Metered(localGranted[n], MaxTime, PerSec, clock, had, full)
    BY DEF LocalMeter
  <2> HIDE DEF had, taken
  <2>4. Metered(CountFrom(localGranted[n], clock), MaxTime, PerSec, clock, had - taken, full)
    BY <1>1, <2>2, <2>3, MeterPass
  <2>5. QED
    BY <1>2, <1>4, <2>1, <2>4 DEF LocalMeter
<1>6. CASE ~(had >= PerSec)
  <2>1. localGranted' = localGranted /\ had - taken = had
    BY <1>1, <1>6 DEF Fallback
  <2>2. QED
    BY <1>2, <1>4, <2>1 DEF LocalMeter
<1>7. QED
  BY <1>5, <1>6

LEMMA LocalTick ==
    ASSUME TypeOK, Tick, NEW n \in Nodes, LocalMeter(n)
    PROVE  LocalMeter(n)'
<1> DEFINE had == LocalRefilled(n)
           more == LocalRefilled(n)'
           full == PerSec * Capacity
<1>1. /\ had \in Nat /\ full \in Nat /\ PerSec \in Nat /\ clock \in 0..MaxTime
      /\ MaxTime \in Nat /\ localGranted[n] \in [0..MaxTime -> Nat] /\ had <= full
  BY LocalParameters
<1>2. clock' = clock + 1 /\ clock + 1 <= MaxTime /\ UNCHANGED <<local, localGranted>>
  BY <1>1 DEF Tick
<1>3. more \in Nat /\ more <= had + Rate /\ more <= full
  <2>1. CASE local[n] = None
    BY <1>1, <1>2, <2>1, RateAssumption DEF LocalRefilled
  <2>2. CASE local[n] # None
    <3> DEFINE d == clock - local[n].last
               t == local[n].tokens
    <3>1. t \in Nat /\ d \in Nat
      BY <2>2 DEF TypeOK
    <3>2. clock' - local'[n].last = d + 1
      BY <1>1, <1>2, <2>2 DEF TypeOK
    <3>3. had = Least(full, t + d * Rate) /\ more = Least(full, t + (d + 1) * Rate)
      BY <1>2, <2>2, <3>2 DEF LocalRefilled
    <3> HIDE DEF d, t, had, more, full
    <3>4. (d + 1) * Rate = d * Rate + Rate /\ d * Rate \in Nat /\ Rate \in Nat
      BY <3>1, RateAssumption
    <3>5. QED
      BY <1>1, <3>1, <3>3, <3>4 DEF Least
  <2>3. QED
    BY <2>1, <2>2
<1> HIDE DEF had, more, full
<1>4. Metered(localGranted[n], MaxTime, PerSec, clock + 1, more, full)
  BY <1>1, <1>2, <1>3, MeterTick DEF LocalMeter, had, full
<1>5. QED
  BY <1>2, <1>4 DEF LocalMeter, more, full

LEMMA LocalStep ==
    ASSUME TypeOK, [Next]_vars, NEW n \in Nodes, LocalMeter(n)
    PROVE  LocalMeter(n)'
<1>1. CASE UNCHANGED <<clock, localGranted>> /\ local'[n] = local[n]
  BY <1>1 DEF LocalMeter, LocalRefilled
<1>2. ASSUME NEW r \in Requests, Fallback(r) PROVE LocalMeter(n)'
  <2>1. CASE n = req[r].node
    BY <1>2, <2>1, LocalFallback
  <2>2. CASE n # req[r].node
    <3>1. local'[n] = local[n] /\ localGranted'[n] = localGranted[n] /\ clock' = clock
      BY <1>2, <2>2 DEF Fallback, LocalAllow, TypeOK
    <3>2. QED
      BY <3>1 DEF LocalMeter, LocalRefilled
  <2>3. QED
    BY <2>1, <2>2
<1>3. QED
  BY <1>1, <1>2, LocalTick DEF Next, Arrive, Evaluate, EvaluateLost, RedisRestart, vars

LEMMA LocalInit ==
    ASSUME Init, NEW n \in Nodes
    PROVE  LocalMeter(n)
<1>1. MaxTime \in Nat /\ PerSec \in Nat /\ PerSec * Capacity \in Nat
  BY Product, RateAssumption, BoundAssumption
<1>2. Metered([i \in 0..MaxTime |-> 0], MaxTime, PerSec, 0, PerSec * Capacity, PerSec * Capacity)
  BY <1>1, MeterStart
<1>3. LocalRefilled(n) = PerSec * Capacity
  BY DEF Init, LocalRefilled
<1>4. QED
  BY <1>2, <1>3 DEF Init, LocalMeter

\* In no window does a node's own bucket let more requests pass than a full
\* bucket and the window's refill, in whatever order requests fall back to it
\* and however long their scripts took before (tokenbucket.go:33-36).
THEOREM LocalBounded == Spec => []LocalBound
<1> DEFINE J == TypeOK /\ \A n \in Nodes : LocalMeter(n)
<1>1. Init => J
  BY InitType, LocalInit
<1>2. J /\ [Next]_vars => J'
  BY TypeStep, LocalStep
<1>3. J => LocalBound
  BY DEF LocalBound, LocalMeter, Metered
<1>4. QED
  BY <1>1, <1>2, <1>3, PTL DEF Spec

-----------------------------------------------------------------------------
(* Seconds *)

LEMMA Division ==
    ASSUME NEW a \in Nat, NEW b \in Nat \ {0}
    PROVE  /\ a \div b \in Nat
           /\ (a \div b) * b <= a
           /\ a < (a \div b) * b + b
OBVIOUS

LEMMA DivisionUnique ==
    ASSUME NEW a \in Nat, NEW b \in Nat \ {0}, NEW q \in Nat,
           q * b <= a, a < q * b + b
    PROVE  a \div b = q
<1> DEFINE p == a \div b
<1>1. p \in Nat /\ p * b <= a /\ a < p * b + b
  BY Division
<1> HIDE DEF p
<1>2. ASSUME NEW x \in Nat, NEW y \in Nat, x < y PROVE x * b + b <= y * b
  <2>1. PICK d \in Nat : y = x + 1 + d
    <3>1. y - x - 1 \in Nat /\ y = x + 1 + (y - x - 1)
      BY <1>2
    <3>2. QED
      BY <3>1
  <2>2. y * b = x * b + b + d * b /\ d * b \in Nat /\ x * b \in Nat
    BY <2>1
  <2>3. QED
    BY <2>2
<1>3. ~(p < q) /\ ~(q < p)
  <2>1. p * b \in Int /\ q * b \in Int
    BY <1>1
  <2>2. QED
    BY <1>1, <1>2, <2>1
<1>4. QED
  BY <1>1, <1>3 DEF p

\* The second that a number of ticks later is in.
LEMMA NextTick ==
    ASSUME NEW a \in Nat, NEW b \in Nat \ {0}
    PROVE  (a + 1) \div b \in {a \div b, a \div b + 1}
<1> DEFINE q == a \div b
<1>1. q \in Nat /\ q * b <= a /\ a < q * b + b
  BY Division
<1> HIDE DEF q
<1>2. q * b \in Int /\ (q + 1) * b = q * b + b
  BY <1>1
<1>3. CASE a + 1 < q * b + b
  <2>1. (a + 1) \div b = q
    BY <1>1, <1>2, <1>3, DivisionUnique
  <2>2. QED
    BY <2>1 DEF q
<1>4. CASE a + 1 = q * b + b
  <2>1. (a + 1) \div b = q + 1
    BY <1>1, <1>2, <1>4, DivisionUnique
  <2>2. QED
    BY <2>1 DEF q
<1>5. QED
  BY <1>1, <1>2, <1>3, <1>4

LEMMA WholeSeconds ==
    ASSUME NEW a \in Nat, NEW b \in Nat \ {0}, NEW n \in Nat
    PROVE  (a + b * n) \div b = a \div b + n
<1> DEFINE q == a \div b
<1>1. q \in Nat /\ q * b <= a /\ a < q * b + b
  BY Division
<1> HIDE DEF q
<1>2. q * b \in Int /\ (q + n) * b = q * b + b * n /\ b * n \in Nat
  BY <1>1
<1>3. (a + b * n) \div b = q + n
  BY <1>1, <1>2, DivisionUnique
<1>4. QED
  BY <1>3 DEF q

LEMMA LaterSecond ==
    ASSUME NEW a \in Nat, NEW c \in Nat, a <= c, NEW b \in Nat \ {0}
    PROVE  a \div b <= c \div b
<1> DEFINE q == a \div b
           p == c \div b
<1>1. q \in Nat /\ q * b <= a /\ p \in Nat /\ c < p * b + b
  BY Division
<1> HIDE DEF q, p
<1>2. ASSUME p < q PROVE FALSE
  <2>1. PICK d \in Nat : q = p + 1 + d
    <3>1. q - p - 1 \in Nat /\ q = p + 1 + (q - p - 1)
      BY <1>1, <1>2
    <3>2. QED
      BY <3>1
  <2>2. q * b = p * b + b + d * b /\ d * b \in Nat /\ p * b \in Nat
    BY <1>1, <2>1
  <2>3. QED
    BY <1>1, <2>2
<1>3. QED
  BY <1>1, <1>2 DEF q, p

\* The key lives long enough for a whole bucket to be refilled.
FullSeconds == (Capacity + Rate - 1) \div Rate

LEMMA RefillsInTime ==
    /\ FullSeconds \in Nat /\ Lifetime = PerSec * FullSeconds
    /\ Capacity <= Rate * FullSeconds
<1>1. Capacity + Rate - 1 \in Nat /\ Rate \in Nat \ {0} /\ Capacity \in Nat
  BY RateAssumption
<1>2. FullSeconds \in Nat /\ Capacity + Rate - 1 < FullSeconds * Rate + Rate
  BY <1>1, Division DEF FullSeconds
<1>3. FullSeconds * Rate = Rate * FullSeconds /\ Rate * FullSeconds \in Int
  BY <1>1, <1>2
<1>4. QED
  BY <1>1, <1>2, <1>3 DEF Lifetime, FullSeconds

-----------------------------------------------------------------------------
(* The bucket in Redis, when all clocks are k seconds fast *)

\* Scripts run in the second their request came in.
Prompt == \A r \in Requests : req[r] # None => req[r].sent \div PerSec = Second

\* The tokens a script finds now.
Left(k) == Refilled(Second + k)

RedisMeter(k) ==
    Metered(granted, MaxTime \div PerSec, 1, Second, Left(k), Capacity * (1 + losses))

\* The tick of the last request let pass, which set the key's TTL.
Grant == clock - (Lifetime - bucket.ttl)

\* Since then the bucket has been refilled, so that the key expires when it is
\* full again: a request refused in between takes nothing away.
Aged(k) ==
    bucket # None =>
        /\ bucket.last <= Second + k
        /\ Grant >= 0
        /\ Left(k) >= Least(Capacity, Rate * (Second - Grant \div PerSec))

LEMMA SecondType == TypeOK => Second \in 0..(MaxTime \div PerSec) /\ MaxTime \div PerSec \in Nat
<1>1. SUFFICES ASSUME TypeOK
               PROVE  Second \in 0..(MaxTime \div PerSec) /\ MaxTime \div PerSec \in Nat
  OBVIOUS
<1>2. clock \in Nat /\ MaxTime \in Nat /\ clock <= MaxTime /\ PerSec \in Nat \ {0}
  BY <1>1, BoundAssumption, RateAssumption DEF TypeOK
<1>3. /\ clock \div PerSec \in Nat /\ MaxTime \div PerSec \in Nat
      /\ clock \div PerSec <= MaxTime \div PerSec
  BY <1>2, Quotient, LaterSecond
<1>4. QED
  BY <1>3 DEF Second

LEMMA RedisParameters ==
    ASSUME TypeOK, NEW k \in Nat
    PROVE  /\ MaxTime \div PerSec \in Nat /\ Second \in 0..(MaxTime \div PerSec)
           /\ granted \in [0..(MaxTime \div PerSec) -> Nat]
           /\ losses \in Nat /\ Capacity \in Nat /\ Capacity * (1 + losses) \in Nat
           /\ Capacity <= Capacity * (1 + losses)
           /\ Left(k) \in 0..Capacity
<1>1. MaxTime \div PerSec \in Nat /\ Second \in 0..(MaxTime \div PerSec)
  BY SecondType
<1>2. losses \in Nat /\ Capacity \in Nat
  BY RateAssumption, BoundAssumption DEF TypeOK
<1>3. /\ Capacity * (1 + losses) = Capacity + Capacity * losses
      /\ Capacity * losses \in Nat
  BY <1>2
<1>4. Second + k \in Nat
  BY <1>1
<1>5. QED
  <2>1. granted \in [0..(MaxTime \div PerSec) -> Nat]
    BY DEF TypeOK, Seconds
  <2>2. Left(k) \in 0..Capacity
    BY <1>4, RefilledType DEF Left
  <2>3. QED
    BY <1>1, <1>2, <1>3, <2>1, <2>2

\* What a script leaves of the tokens it finds.
LEMMA ScriptTakes ==
    ASSUME TypeOK, NEW k \in Nat, Aged(k), Script(Second + k), clock' = clock
    PROVE  /\ Left(k)' = IF Left(k) >= 1 THEN Left(k) - 1 ELSE Left(k)
           /\ Aged(k)'
<1> DEFINE L == Left(k)
           T == Second + k
<1>1. /\ T \in Nat /\ L \in 0..Capacity /\ Capacity \in Nat /\ Rate \in Nat
      /\ Lifetime \in Nat /\ Second \in Nat /\ clock \in Nat
  <2>1. Second \in Nat /\ L \in 0..Capacity
    BY RedisParameters
  <2>2. Lifetime \in Nat /\ clock \in Nat /\ Capacity \in Nat /\ Rate \in Nat
    BY LifetimeType, RateAssumption DEF TypeOK
  <2>3. QED
    BY <2>1, <2>2
<1>2. T' = T /\ Second' = Second /\ L = Refilled(T)
  BY DEF Second, Left
<1>3. ASSUME NEW t \in 0..Capacity, NEW v, v \in Nat,
             bucket' = [tokens |-> t, last |-> T, ttl |-> v]
      PROVE  /\ bucket' # None /\ Left(k)' = t
             /\ bucket'.last = T /\ bucket'.ttl = v
  <2>1. bucket' # None
    BY <1>1, <1>3, NoneAssumption
  <2>2. Most(0, T - T) * Rate = 0
    BY <1>1 DEF Most
  <2>3. bucket'.tokens = t /\ bucket'.last = T /\ bucket'.ttl = v
    BY <1>3
  <2>4. Left(k)' = Least(Capacity, t + Most(0, T - T) * Rate)
    BY <1>2, <2>1, <2>3 DEF Left, Refilled
  <2>5. QED
    BY <1>1, <2>1, <2>2, <2>3, <2>4 DEF Least
<1>4. CASE L >= 1
  <2>1. bucket' = [tokens |-> L - 1, last |-> T, ttl |-> Lifetime]
    BY <1>2, <1>4 DEF Script
  <2>2. bucket'.last = T /\ bucket'.ttl = Lifetime /\ Left(k)' = L - 1
    BY <1>1, <1>3, <1>4, <2>1
  <2>3. Grant' = clock /\ Lifetime' = Lifetime
    BY <1>1, <2>2 DEF Grant, Lifetime
  <2>4. Second' - Grant' \div PerSec = 0
    BY <1>1, <1>2, <2>3 DEF Second
  <2>5. Least(Capacity, Rate * 0) = 0
    BY <1>1 DEF Least
  <2> HIDE DEF L, T
  <2>6. Aged(k)'
    BY <1>1, <1>2, <1>4, <2>2, <2>3, <2>4, <2>5 DEF Aged, T
  <2>7. QED
    BY <1>4, <2>2, <2>6 DEF L
<1>5. CASE ~(L >= 1)
  <2>1. bucket # None /\ L = 0
    BY <1>1, <1>2, <1>5, NewPasses
  <2>2. bucket' = [tokens |-> L, last |-> T, ttl |-> bucket.ttl] /\ bucket.ttl \in Nat
    BY <1>1, <1>2, <1>5, <2>1 DEF Script, TypeOK
  <2>3. bucket'.last = T /\ bucket'.ttl = bucket.ttl /\ Left(k)' = L
    BY <1>1, <1>3, <2>2
  <2>4. Grant' = Grant
    BY <2>3 DEF Grant, Lifetime
  <2>5. Aged(k)'
    BY <1>1, <1>2, <2>1, <2>3, <2>4 DEF Aged
  <2>6. QED
    BY <1>5, <2>3, <2>5
<1>6. QED
  BY <1>4, <1>5

\* The tokens after a tick: the refill of a second that ends, and no more, also
\* when the key expires.
LEMMA TickRefills ==
    ASSUME TypeOK, NEW k \in Nat, Aged(k), Tick
    PROVE  /\ Second' \in {Second, Second + 1}
           /\ Second' = Second => Left(k)' <= Left(k)
           /\ Left(k)' <= Left(k) + Rate
           /\ Left(k)' \in 0..Capacity
           /\ Aged(k)'
<1>1. /\ clock \in Nat /\ clock' = clock + 1 /\ PerSec \in Nat \ {0}
      /\ Rate \in Nat \ {0} /\ Capacity \in Nat /\ Second \in Nat
      /\ Left(k) \in 0..Capacity
  BY RedisParameters, RateAssumption DEF TypeOK, Tick
<1>2. Second' \in {Second, Second + 1}
  BY <1>1, NextTick DEF Second
<1>3. CASE bucket = None
  <2>1. bucket' = None
    BY <1>3 DEF Tick
  <2>2. Left(k)' = Capacity /\ Left(k) = Capacity
    BY <1>3, <2>1 DEF Left, Refilled
  <2>3. QED
    BY <1>1, <1>2, <2>1, <2>2 DEF Aged
<1>4. CASE bucket # None
  <2>0. PICK delta \in {0, 1} : Second' = Second + delta
    BY <1>1, <1>2
  <2> DEFINE t == bucket.tokens
             d == Second + k - bucket.last
             g == Grant \div PerSec
             V == Least(Capacity, t + (d + delta) * Rate)
  <2>1. /\ t \in Nat /\ d \in Nat /\ bucket.last \in Nat
        /\ bucket.ttl \in 1..Lifetime /\ Lifetime \in Nat
    BY <1>1, <1>4, LifetimeType DEF TypeOK, Aged
  <2>2. delta \in {0, 1} /\ delta \in Nat
    OBVIOUS
  <2>3. Grant \in Nat /\ g \in Nat /\ Grant <= clock
    <3>1. Grant \in Nat /\ Grant <= clock
      BY <1>1, <1>4, <2>1 DEF Aged, Grant
    <3>2. QED
      BY <1>1, <3>1, Quotient
  <2>4. Left(k) = Least(Capacity, t + d * Rate)
    <3>1. Left(k) = Least(Capacity, t + Most(0, d) * Rate)
      BY <1>1, <1>4, <2>1 DEF Left, Refilled
    <3>2. Most(0, d) = d
      BY <2>1 DEF Most
    <3>3. QED
      BY <3>1, <3>2
  <2>5. Left(k) >= Least(Capacity, Rate * (Second - g))
    BY <1>4 DEF Aged
  <2>6. /\ (d + delta) * Rate = d * Rate + delta * Rate
        /\ d * Rate \in Nat /\ delta * Rate \in {0, Rate}
    <3> HIDE DEF d
    <3>1. d * Rate \in Nat /\ 0 * Rate = 0 /\ 1 * Rate = Rate
      BY <1>1, <2>1
    <3>2. (d + delta) * Rate = d * Rate + delta * Rate
      BY <1>1, <2>1, <2>2
    <3>3. QED
      BY <3>1, <3>2, <2>2
  <2>7. /\ Rate * (Second + delta - g) = Rate * (Second - g) + delta * Rate
        /\ Rate * (Second - g) \in Int
    <3>1. Second + delta - g = (Second - g) + delta /\ Second - g \in Int
      BY <1>1, <2>2, <2>3
    <3>2. QED
      BY <1>1, <2>2, <3>1, Scaled
  <2>8. /\ V \in 0..Capacity /\ V <= Left(k) + Rate
        /\ delta = 0 => V = Left(k)
        /\ V >= Least(Capacity, Rate * (Second + delta - g))
    <3> DEFINE x == d * Rate
               y == Rate * (Second - g)
               w == delta * Rate
    <3>1. x \in Nat /\ y \in Int /\ w \in {0, Rate} /\ (delta = 0 => w = 0)
      BY <1>1, <2>6, <2>7
    <3>2. /\ V = Least(Capacity, t + (x + w)) /\ Left(k) = Least(Capacity, t + x)
          /\ Left(k) >= Least(Capacity, y)
      BY <2>4, <2>5, <2>6
    <3>3. Rate * (Second + delta - g) = y + w
      BY <2>7
    <3> HIDE DEF x, y, w, V, t, d
    <3>4. QED
      BY <1>1, <2>1, <3>1, <3>2, <3>3 DEF Least
  <2>9. Second' = Second + delta /\ clock' \div PerSec = Second + delta
    BY <2>0 DEF Second
  <2> HIDE DEF V
  <2>10. CASE bucket.ttl = 1
    <3>1. bucket' = None /\ Left(k)' = Capacity
      BY <1>4, <2>10 DEF Tick, Left, Refilled
    <3>2. clock' = Grant + PerSec * FullSeconds
      BY <1>1, <2>1, <2>10, RefillsInTime DEF Grant
    <3>3. Second + delta = g + FullSeconds
      <4>1. (Grant + PerSec * FullSeconds) \div PerSec = g + FullSeconds
        BY <1>1, <2>3, WholeSeconds, RefillsInTime
      <4>2. QED
        BY <2>9, <3>2, <4>1
    <3>4. Second + delta - g = FullSeconds
      <4> HIDE DEF g
      <4>1. QED
        BY <1>1, <2>2, <2>3, <3>3, RefillsInTime
    <3>5. Least(Capacity, Rate * (Second + delta - g)) = Capacity
      BY <1>1, <3>4, RefillsInTime DEF Least
    <3>6. V = Capacity
      BY <1>1, <2>8, <3>5
    <3>7. QED
      <4>1. Aged(k)'
        BY <3>1 DEF Aged
      <4>2. Left(k)' = V
        BY <3>1, <3>6
      <4>3. Second' = Second => delta = 0
        BY <1>1, <2>0
      <4>4. QED
        BY <1>1, <1>2, <2>8, <4>1, <4>2, <4>3
  <2>11. CASE bucket.ttl # 1
    <3>1. bucket' = [bucket EXCEPT !.ttl = bucket.ttl - 1]
      BY <1>4, <2>11 DEF Tick
    <3>2. /\ bucket'.ttl = bucket.ttl - 1 /\ bucket'.tokens = t
          /\ bucket'.last = bucket.last /\ bucket' # None
      <4>1. bucket \in [tokens: 0..Capacity, last: Nat, ttl: 1..Lifetime]
        BY <1>4 DEF TypeOK
      <4>2. bucket.ttl - 1 \in Nat
        BY <2>1
      <4>3. bucket' \in [tokens: Nat, last: Nat, ttl: Nat]
        BY <1>1, <3>1, <4>1, <4>2
      <4>4. QED
        BY <3>1, <4>1, <4>3, NoneAssumption
    <3>3. Second' + k - bucket'.last = d + delta /\ d + delta \in Nat
      BY <1>1, <2>1, <2>2, <2>9, <3>2
    <3>4. Left(k)' = V
      <4>1. Left(k)' = Least(Capacity, t + Most(0, Second' + k - bucket'.last) * Rate)
        BY <1>1, <2>0, <2>1, <3>2 DEF Left, Refilled
      <4>2. Most(0, Second' + k - bucket'.last) = d + delta
        BY <3>3 DEF Most
      <4>3. QED
        BY <4>1, <4>2 DEF V
    <3>5. Grant' = Grant
      BY <1>1, <2>1, <3>2 DEF Grant, Lifetime
    <3>6. Aged(k)'
      <4>1. Grant' \div PerSec = g /\ Grant' >= 0
        BY <2>3, <3>5
      <4>2. V >= Least(Capacity, Rate * (Second' - Grant' \div PerSec))
        <5>1. Second' - Grant' \div PerSec = Second + delta - g
          <6> HIDE DEF g
          <6>1. QED
            BY <1>1, <2>2, <2>3, <2>9, <4>1
        <5>2. QED
          BY <2>8, <5>1
      <4>3. bucket'.last <= Second' + k
        BY <1>1, <2>1, <2>2, <2>9, <3>2, <3>3
      <4>4. QED
        BY <3>4, <4>1, <4>2, <4>3 DEF Aged
    <3>7. QED
      <4>1. Second' = Second => delta = 0
        BY <1>1, <2>0
      <4>2. QED
        BY <1>1, <1>2, <2>8, <3>4, <3>6, <4>1
  <2>12. QED
    BY <2>10, <2>11
<1>5. QED
  BY <1>3, <1>4

\* A request's script brings the second it runs in, k seconds fast.
LEMMA PromptNow ==
    ASSUME TypeOK, NEW k \in Nat, \A n \in Nodes : Skew[n] = k, Prompt,
           NEW r \in Requests, req[r] # None
    PROVE  Now(req[r]) = Second + k /\ req[r].sent \div PerSec = Second
<1>1. req[r].node \in Nodes
  BY DEF TypeOK
<1>2. QED
  BY <1>1 DEF Prompt, Now

LEMMA RedisEvaluate ==
    ASSUME TypeOK, NEW k \in Nat, \A n \in Nodes : Skew[n] = k, Prompt,
           Aged(k), RedisMeter(k),
           NEW r \in Requests, Evaluate(r) \/ EvaluateLost(r)
    PROVE  Aged(k)' /\ RedisMeter(k)'
<1> DEFINE hi == MaxTime \div PerSec
           full == Capacity * (1 + losses)
           L == Left(k)
           less == IF L >= 1 THEN L - 1 ELSE L
<1>1. /\ hi \in Nat /\ Second \in 0..hi /\ granted \in [0..hi -> Nat]
      /\ full \in Nat /\ L \in 0..Capacity /\ Capacity \in Nat
  BY RedisParameters
<1>2. /\ Script(Second + k) /\ UNCHANGED <<clock, losses>>
      /\ req[r].sent \div PerSec = Second /\ Now(req[r]) = Second + k
  BY PromptNow DEF Evaluate, EvaluateLost
<1>3. Left(k)' = less /\ Aged(k)'
  BY <1>2, ScriptTakes
<1>4. Second' = Second
  BY <1>2 DEF Second
<1>5. Metered(granted, hi, 1, Second, L, full)
  BY DEF RedisMeter
<1>6. less \in Nat /\ less <= L /\ L \in Nat
  BY <1>1
<1>7. CASE granted' = granted
  <2> HIDE DEF hi, full, L, less
  <2>1. Metered(granted, hi, 1, Second, less, full)
    BY <1>1, <1>5, <1>6, MeterLess
  <2>2. QED
    BY <1>2, <1>3, <1>4, <1>7, <2>1 DEF RedisMeter, hi, full
<1>8. CASE L >= 1 /\ granted' = CountFrom(granted, Second)
  <2>1. less + 1 <= L
    BY <1>1, <1>8
  <2> HIDE DEF hi, full, L, less
  <2>2. Metered(CountFrom(granted, Second), hi, 1, Second, less, full)
    BY <1>1, <1>5, <1>6, <2>1, MeterPass
  <2>3. QED
    BY <1>2, <1>3, <1>4, <1>8, <2>2 DEF RedisMeter, hi, full
<1>9. granted' = granted \/ (L >= 1 /\ granted' = CountFrom(granted, Second))
  BY <1>2 DEF Evaluate, EvaluateLost, Left
<1>10. QED
  BY <1>3, <1>7, <1>8, <1>9

LEMMA RedisTick ==
    ASSUME TypeOK, TypeOK', NEW k \in Nat, Aged(k), RedisMeter(k), Tick
    PROVE  Aged(k)' /\ RedisMeter(k)'
<1> DEFINE hi == MaxTime \div PerSec
           full == Capacity * (1 + losses)
           L == Left(k)
           more == Left(k)'
<1>1. /\ hi \in Nat /\ Second \in 0..hi /\ granted \in [0..hi -> Nat]
      /\ full \in Nat /\ L \in Nat /\ Capacity <= full /\ Capacity \in Nat
  BY RedisParameters
<1>2. more \in Nat /\ more <= full /\ Second' \in 0..hi
  <2>1. Left(k)' \in 0..Capacity
    BY TickRefills
  <2>2. Second' \in 0..hi
    <3>1. clock' \in Nat /\ MaxTime \in Nat /\ clock' <= MaxTime /\ PerSec \in Nat \ {0}
      BY BoundAssumption, RateAssumption DEF TypeOK
    <3>2. clock' \div PerSec \in Nat /\ clock' \div PerSec <= hi
      BY <3>1, Quotient, LaterSecond
    <3>3. QED
      BY <1>1, <3>2 DEF Second
  <2>3. QED
    BY <1>1, <2>1, <2>2
<1>3. /\ Second' \in {Second, Second + 1} /\ Aged(k)'
      /\ Second' = Second => more <= L
      /\ more <= L + Rate
  BY TickRefills
<1>4. Metered(granted, hi, 1, Second, L, full) /\ UNCHANGED <<granted, losses>>
  BY DEF RedisMeter, Tick
<1> HIDE DEF hi, full, L, more
<1>5. CASE Second' = Second
  <2>1. Metered(granted, hi, 1, Second, more, full)
    BY <1>1, <1>2, <1>3, <1>4, <1>5, MeterLess
  <2>2. QED
    BY <1>3, <1>4, <1>5, <2>1 DEF RedisMeter, hi, full, more
<1>6. CASE Second' = Second + 1
  <2>1. Second + 1 <= hi
    BY <1>1, <1>2, <1>6
  <2>2. Metered(granted, hi, 1, Second + 1, more, full)
    BY <1>1, <1>2, <1>3, <1>4, <2>1, MeterTick
  <2>3. QED
    BY <1>3, <1>4, <1>6, <2>2 DEF RedisMeter, hi, full, more
<1>7. QED
  BY <1>3, <1>5, <1>6

LEMMA RedisLoss ==
    ASSUME TypeOK, NEW k \in Nat, RedisMeter(k), RedisRestart
    PROVE  Aged(k)' /\ RedisMeter(k)'
<1> DEFINE hi == MaxTime \div PerSec
           full == Capacity * (1 + losses)
           L == Left(k)
<1>1. /\ hi \in Nat /\ Second \in 0..hi /\ granted \in [0..hi -> Nat]
      /\ full \in Nat /\ L \in Nat /\ Capacity \in Nat /\ losses \in Nat
  BY RedisParameters
<1>2. /\ bucket' = None /\ Second' = Second /\ Left(k)' = Capacity
      /\ losses' = losses + 1 /\ granted' = granted
  BY DEF RedisRestart, Left, Refilled, Second
<1>3. Capacity * (1 + (losses + 1)) = full + Capacity
  BY <1>1
<1>4. Metered(granted, hi, 1, Second, L, full)
  BY DEF RedisMeter
<1> HIDE DEF hi, full, L
<1>5. Metered(granted, hi, 1, Second, Capacity, full + Capacity)
  <2>1. Capacity <= L + Capacity
    BY <1>1
  <2>2. QED
    BY <1>1, <1>4, <2>1, MeterLoss
<1>6. RedisMeter(k)'
  BY <1>2, <1>3, <1>5 DEF RedisMeter, hi
<1>7. QED
  BY <1>2, <1>6 DEF Aged

LEMMA RedisStep ==
    ASSUME TypeOK, TypeOK', [Next]_vars, NEW k \in Nat, \A n \in Nodes : Skew[n] = k,
           Prompt, Aged(k), RedisMeter(k)
    PROVE  Aged(k)' /\ RedisMeter(k)'
<1>1. CASE UNCHANGED <<clock, bucket, losses, granted>>
  BY <1>1 DEF Aged, RedisMeter, Left, Refilled, Second, Grant, Lifetime
<1>2. QED
  BY <1>1, RedisEvaluate, RedisTick, RedisLoss DEF Next, Arrive, Fallback, vars

LEMMA RedisInit ==
    ASSUME Init, NEW k \in Nat
    PROVE  Aged(k) /\ RedisMeter(k)
<1> DEFINE hi == MaxTime \div PerSec
<1>1. Capacity \in Nat /\ Capacity * (1 + 0) = Capacity /\ PerSec \in Nat \ {0}
      /\ hi \in Nat
  BY Quotient, RateAssumption, BoundAssumption
<1>2. 0 \div PerSec = 0
  <2>1. 0 * PerSec <= 0 /\ 0 < 0 * PerSec + PerSec /\ 0 \in Nat
    BY <1>1
  <2>2. QED
    BY <1>1, <2>1, DivisionUnique
<1>3. Metered([i \in 0..hi |-> 0], hi, 1, 0, Capacity, Capacity)
  BY <1>1, MeterStart
<1>4. Left(k) = Capacity /\ Second = 0
  BY <1>2 DEF Init, Left, Refilled, Second
<1>5. QED
  BY <1>1, <1>3, <1>4 DEF Init, Aged, RedisMeter, Seconds

LEMMA RedisWindows ==
    ASSUME TypeOK, NEW k \in Nat, RedisMeter(k)
    PROVE  RedisBound
<1>1. MaxTime \div PerSec \in Nat /\ granted \in [0..(MaxTime \div PerSec) -> Nat]
  BY RedisParameters
<1>2. ASSUME NEW a \in Seconds, NEW b \in Seconds, a <= b
      PROVE  Passed(granted, a, b) <= Capacity * (1 + losses) + Rate * (b - a)
  <2>1. Passed(granted, a, b) \in Int
    BY <1>1, <1>2, PassedType DEF Seconds
  <2>2. 1 * Passed(granted, a, b) <= Capacity * (1 + losses) + Rate * (b - a)
    BY <1>2 DEF RedisMeter, Metered, Seconds
  <2>3. QED
    BY <2>1, <2>2
<1>3. QED
  BY <1>2 DEF RedisBound

\* In no window of seconds do the scripts of all nodes together let more of a
\* client's requests pass than a full bucket and the window's refill, a full
\* bucket more for each loss of Redis's data, whatever answers are lost and
\* whatever scripts are sent again, as long as the nodes' clocks agree, though
\* they may all be fast, and every script runs in the second its request came in
\* (redis.go:56-78).
THEOREM RedisBounded ==
    ASSUME NEW k \in Nat, \A n \in Nodes : Skew[n] = k
    PROVE  Spec /\ []Prompt => []RedisBound
<1> DEFINE J == TypeOK /\ Aged(k) /\ RedisMeter(k)
<1>1. Init => J
  BY InitType, RedisInit
<1>2. J /\ Prompt /\ [Next]_vars => J'
  BY TypeStep, RedisStep
<1>3. J => RedisBound
  BY RedisWindows
<1>4. QED
  BY <1>1, <1>2, <1>3, PTL DEF Spec

\* The same for any clocks that agree, when every script runs in the tick its
\* request came in, as the run MCRatePrompt has it: nothing but a script that is
\* late takes the bucket past its bound (redis.go:56-78).
THEOREM RedisBoundedAtOnce ==
    ASSUME MaxDelay = 0, NEW k \in Nat, \A n \in Nodes : Skew[n] = k
    PROVE  Spec => []RedisBound
<1> DEFINE J == TypeOK /\ \A r \in Requests : req[r] # None => req[r].sent = clock
<1>1. Init => J
  BY InitType DEF Init
<1>2. J /\ [Next]_vars => J'
  <2>1. SUFFICES ASSUME J, [Next]_vars PROVE J'
    OBVIOUS
  <2>2. TypeOK'
    BY <2>1, TypeStep
  <2>3. ASSUME NEW s \in Requests, req'[s] # None PROVE req'[s].sent = clock'
    <3>1. ASSUME NEW r \in Requests, Arrive(r) PROVE req'[s].sent = clock'
      BY <2>1, <2>3, <3>1 DEF Arrive, TypeOK
    <3>2. ASSUME NEW r \in Requests, Evaluate(r) \/ Fallback(r) PROVE req'[s].sent = clock'
      BY <2>1, <2>3, <3>2 DEF Evaluate, Fallback, TypeOK
    <3>3. CASE Tick
      <4>1. req'[s] = req[s] /\ clock - req[s].sent < 0 /\ req[s].sent = clock
        BY <2>1, <2>3, <3>3 DEF Tick
      <4>2. clock \in Int
        BY <2>1 DEF TypeOK
      <4>3. QED
        BY <4>1, <4>2
    <3>4. CASE UNCHANGED <<clock, req>>
      BY <2>1, <2>3, <3>4
    <3>5. QED
      BY <2>1, <3>1, <3>2, <3>3, <3>4 DEF Next, EvaluateLost, RedisRestart, vars
  <2>4. QED
    BY <2>2, <2>3
<1>3. J => Prompt
  BY DEF Prompt, Second
<1>4. Spec => []Prompt
  BY <1>1, <1>2, <1>3, PTL DEF Spec
<1>5. Spec /\ []Prompt => []RedisBound
  BY RedisBounded
<1>6. QED
  BY <1>4, <1>5, PTL
=============================================================================
