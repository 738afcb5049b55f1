------------------------ MODULE ClickPipelineProofs -------------------------
(***************************************************************************)
(* Proofs about ClickPipeline, for every number of processes, clicks, batch *)
(* entries, attempts and faults, and every combination of their kinds.     *)
(***************************************************************************)
EXTENDS ClickPipeline, FiniteSetTheorems, TLAPS

WorkerState == [at: {"idle", "insert", "ack"}, batch: SUBSET Stored]

Busy == \A n \in Nodes : worker[n].at = "idle" <=> worker[n].batch = {}

\* A batch is the first of what is unread: nothing unread comes before its last.
LEMMA BatchFacts ==
    ASSUME TypeOK
    PROVE  /\ Batch \subseteq Unread
           /\ Unread \subseteq Stored
           /\ Stored \subseteq Entries
           /\ \A last \in Batch : \A i \in Unread : i <= last => i \in Batch
<1>1. /\ Len(log) \in Nat /\ Len(log) <= MaxEntries /\ MaxEntries \in Nat
      /\ redis.delivered \in Nat /\ redis.stream \subseteq Stored
  BY SizeAssumption DEF TypeOK, Store
<1>2. Batch \subseteq Unread
  BY DEF Batch, FirstOf
<1>3. Unread \subseteq Stored /\ Stored \subseteq Entries
  BY <1>1 DEF Unread, Stored, Entries
<1>4. ASSUME NEW last \in Batch, NEW i \in Unread, i <= last
      PROVE  i \in Batch
  <2> DEFINE Upto(j) == {u \in Unread : u <= j}
  <2>1. last \in Nat /\ i \in Nat /\ \A u \in Unread : u \in Nat
    BY <1>1, <1>2, <1>3, <1>4 DEF Stored
  <2>2. Upto(i) \in SUBSET Upto(last)
    <3>1. ASSUME NEW u \in Unread, u <= i PROVE u <= last
      BY <1>4, <2>1, <3>1
    <3>2. QED
      BY <3>1
  <2>3. IsFiniteSet(Upto(last))
    <3>1. IsFiniteSet(Stored)
      BY <1>1, FS_Interval DEF Stored
    <3>2. Upto(last) \in SUBSET Stored
      BY <1>3
    <3>3. QED
      BY <3>1, <3>2, FS_Subset
  <2>4. Cardinality(Upto(i)) <= Cardinality(Upto(last))
    BY <2>2, <2>3, FS_Subset
  <2>5. /\ IsFiniteSet(Upto(i))
        /\ Cardinality(Upto(i)) \in Nat /\ Cardinality(Upto(last)) \in Nat
    BY <2>2, <2>3, FS_Subset, FS_CardinalityType
  <2>6. Cardinality(Upto(last)) <= BatchSize
    BY <1>4 DEF Batch, FirstOf
  <2>7. BatchSize \in Nat
    BY SizeAssumption
  <2>8. Cardinality(Upto(i)) <= BatchSize
    BY <2>4, <2>5, <2>6, <2>7
  <2>9. QED
    BY <2>8 DEF Batch, FirstOf
<1>5. QED
  BY <1>2, <1>3, <1>4

-----------------------------------------------------------------------------
(* What a step does to Redis, its image and the workers *)

\* Redis appends, delivers, drops from the pending list, or stays.
XAddStep ==
    /\ Len(log) < MaxEntries
    /\ Len(log') = Len(log) + 1 /\ log' \in Seq(Clicks)
    /\ redis'.stream = redis.stream \cup {Len(log) + 1}
    /\ redis'.group = redis.group
    /\ redis'.delivered = redis.delivered
    /\ redis'.pending = redis.pending
    /\ redis' \in [stream: SUBSET (1..Len(log')), group: BOOLEAN,
                   delivered: 0..Len(log'), pending: SUBSET (1..Len(log'))]

LEMMA AddStep ==
    ASSUME TypeOK, NEW k \in Clicks, XAdd(k)
    PROVE  XAddStep
<1>1. /\ Len(log) \in Nat /\ log \in Seq(Clicks) /\ redis \in Store
      /\ Len(log) < MaxEntries /\ MaxEntries \in Nat
  BY SizeAssumption DEF TypeOK, XAdd
<1>2. log' \in Seq(Clicks) /\ Len(log') = Len(log) + 1
  BY <1>1 DEF XAdd
<1>3. redis' = [redis EXCEPT !.stream = @ \cup {Len(log) + 1}]
  BY DEF XAdd
<1>4. /\ redis.stream \in SUBSET (1..Len(log)) /\ redis.pending \in SUBSET (1..Len(log))
      /\ redis.delivered \in 0..Len(log) /\ redis.group \in BOOLEAN
      /\ redis = [stream |-> redis.stream, group |-> redis.group,
                  delivered |-> redis.delivered, pending |-> redis.pending]
  BY <1>1 DEF Store, Stored
<1>5. redis' = [stream |-> redis.stream \cup {Len(log) + 1}, group |-> redis.group,
                delivered |-> redis.delivered, pending |-> redis.pending]
  BY <1>3, <1>4
<1>6. /\ redis.stream \cup {Len(log) + 1} \in SUBSET (1..Len(log'))
      /\ redis.pending \in SUBSET (1..Len(log')) /\ redis.delivered \in 0..Len(log')
  BY <1>1, <1>2, <1>4
<1>7. QED
  BY <1>1, <1>2, <1>4, <1>5, <1>6 DEF XAddStep

LEMMA ReadStep ==
    ASSUME TypeOK, NEW n \in Nodes, ReadClickEventsBatch(n)
    PROVE  /\ worker[n].at = "idle" /\ worker[n].batch = {}
           /\ Batch # {}
           /\ redis' \in Store
           /\ redis'.stream = redis.stream
           /\ redis'.pending = redis.pending \cup Batch
           /\ redis'.delivered \in Batch
           /\ \A i \in Batch : i <= redis'.delivered
           /\ redis.delivered < redis'.delivered
<1>1. /\ redis \in Store /\ Len(log) \in Nat /\ Batch \subseteq Unread
      /\ Unread \subseteq 1..Len(log)
  BY BatchFacts DEF TypeOK, Stored
<1>2. PICK last \in Batch :
         /\ \A i \in Batch : i <= last
         /\ redis' = [redis EXCEPT !.delivered = last, !.pending = @ \cup Batch]
  BY DEF ReadClickEventsBatch
<1>3. last \in 1..Len(log) /\ last > redis.delivered /\ redis.delivered \in Nat
  BY <1>1 DEF Unread, Store
<1>4. worker[n].at = "idle" /\ worker[n].batch = {}
  BY DEF ReadClickEventsBatch, TypeOK
<1>5. /\ redis' \in Store /\ redis'.stream = redis.stream
      /\ redis'.pending = redis.pending \cup Batch /\ redis'.delivered = last
  <2>1. /\ redis.stream \in SUBSET Stored /\ redis.pending \in SUBSET Stored
        /\ redis.group \in BOOLEAN
        /\ redis = [stream |-> redis.stream, group |-> redis.group,
                    delivered |-> redis.delivered, pending |-> redis.pending]
    BY <1>1 DEF Store
  <2>2. redis' = [stream |-> redis.stream, group |-> redis.group,
                  delivered |-> last, pending |-> redis.pending \cup Batch]
    BY <1>2, <2>1
  <2>3. redis.pending \cup Batch \in SUBSET Stored /\ last \in 0..Len(log)
    BY <1>1, <1>3, <2>1 DEF Stored
  <2>4. QED
    BY <2>1, <2>2, <2>3 DEF Store
<1>6. QED
  BY <1>2, <1>3, <1>4, <1>5

LEMMA ReadUnread ==
    ASSUME TypeOK, NEW n \in Nodes, ReadClickEventsBatch(n)
    PROVE  /\ log' = log
           /\ Unread' \subseteq Unread
           /\ \A i \in Batch : i \in Unread /\ i \notin Unread'
           /\ \A m \in Nodes :
                 \/ worker'[m] = worker[m]
                 \/ m = n /\ worker'[m] = [at |-> "insert", batch |-> Batch]
<1>1. log' = log
  BY DEF ReadClickEventsBatch
<1>2. \A i \in Unread : i \in Nat
  BY BatchFacts DEF Stored
<1>3. redis.delivered \in Nat /\ redis'.delivered \in Nat
  BY <1>2, ReadStep, BatchFacts DEF TypeOK, Store
<1>4. Unread' \subseteq Unread
  <2>1. \A i \in redis.stream : i \in Nat
    BY DEF TypeOK, Store, Stored
  <2>2. redis'.stream = redis.stream /\ redis.delivered < redis'.delivered
    BY ReadStep
  <2>3. \A i \in redis.stream : i > redis'.delivered => i > redis.delivered
    BY <1>3, <2>1, <2>2
  <2>4. QED
    BY <2>2, <2>3 DEF Unread
<1>5. \A i \in Batch : i \in Unread /\ i \notin Unread'
  BY <1>2, <1>3, ReadStep, BatchFacts DEF Unread
<1>6. \A m \in Nodes :
         \/ worker'[m] = worker[m]
         \/ m = n /\ worker'[m] = [at |-> "insert", batch |-> Batch]
  BY DEF ReadClickEventsBatch, TypeOK
<1>7. QED
  BY <1>1, <1>4, <1>5, <1>6

LEMMA AckStep ==
    ASSUME TypeOK, NEW n \in Nodes, AckClickEvents(n)
    PROVE  /\ worker[n].at = "ack"
           /\ redis' \in Store
           /\ redis'.stream = redis.stream
           /\ redis'.delivered = redis.delivered
           /\ redis'.pending \subseteq redis.pending
           /\ \A i \in redis.pending : i \notin worker[n].batch => i \in redis'.pending
<1>1. redis \in Store /\ worker[n].at = "ack"
  BY DEF TypeOK, AckClickEvents
<1>2. CASE redis' = [redis EXCEPT !.pending = Acked(worker[n].batch)]
  BY <1>1, <1>2 DEF Store, Acked
<1>3. CASE redis' = redis
  BY <1>1, <1>3
<1>4. QED
  BY <1>1, <1>2, <1>3 DEF AckClickEvents

LEMMA RestartStep ==
    ASSUME TypeOK, RedisRestart
    PROVE  /\ redis' \in Store /\ image' = redis'
           /\ redis' = image \/ (redis'.stream = {} /\ redis'.delivered = 0
                                 /\ redis'.pending = {})
           /\ UNCHANGED <<log, worker, rows>>
           /\ \A i \in Entries :
                again'[i] = IF /\ i \in redis'.stream
                               /\ redis'.delivered < i /\ i <= redis.delivered
                            THEN again[i] + 1 ELSE again[i]
<1>1. Empty \in Store /\ Empty.stream = {} /\ Empty.delivered = 0 /\ Empty.pending = {}
  BY DEF Empty, Store, TypeOK
<1>2. QED
  BY <1>1 DEF RedisRestart, TypeOK

-----------------------------------------------------------------------------
(* Type correctness *)

LEMMA InitType ==
    ASSUME Init
    PROVE  TypeOK
<1>1. log \in Seq(Clicks) /\ Len(log) = 0 /\ Stored = {}
  BY DEF Init, Stored
<1>2. redis \in Store /\ image \in Store
  BY <1>1, SwitchAssumption DEF Init, Empty, Store
<1>3. worker \in [Nodes -> WorkerState] /\ Busy
  BY DEF Init, Idle, WorkerState, Busy
<1>4. QED
  BY <1>1, <1>2, <1>3, SizeAssumption DEF Init, TypeOK, WorkerState, Busy

\* A process's worker keeps its type as the log grows.
LEMMA Grows ==
    ASSUME TypeOK, Len(log') \in Nat, Len(log) <= Len(log')
    PROVE  /\ Store \subseteq Store' /\ WorkerState \subseteq WorkerState'
           /\ image \in Store' /\ worker \in [Nodes -> WorkerState']
<1>1. Len(log) \in Nat /\ Stored \subseteq Stored' /\ 0..Len(log) \subseteq 0..Len(log')
  BY DEF TypeOK, Stored
<1>2. Store \subseteq Store' /\ WorkerState \subseteq WorkerState'
  BY <1>1 DEF Store, WorkerState
<1>3. image \in Store /\ worker \in [Nodes -> WorkerState]
  BY DEF TypeOK, WorkerState
<1>4. QED
  BY <1>2, <1>3

LEMMA RedirectType ==
    ASSUME TypeOK, NEW n \in Nodes, NEW k \in Clicks, Redirect(n, k)
    PROVE  TypeOK'
<1>1. /\ home' \in [Clicks -> Nodes \cup {NoNode}]
      /\ counting' \in [Clicks -> 0..DbAttempts]
      /\ publishing' \in [Clicks -> 0..Attempts]
  BY SizeAssumption DEF Redirect, TypeOK
<1>2. QED
  BY <1>1 DEF Redirect, TypeOK, Store, Stored

LEMMA CounterType ==
    ASSUME TypeOK, NEW k \in Clicks, IncrementClickCount(k)
    PROVE  TypeOK'
<1>1. counting \in [Clicks -> 0..DbAttempts] /\ counting[k] \in 0..DbAttempts
  BY DEF TypeOK
<1>2. 0 \in 0..DbAttempts /\ (counting[k] > 1 => counting[k] - 1 \in 0..DbAttempts)
  BY <1>1, SizeAssumption
<1>3. counting' \in [Clicks -> 0..DbAttempts]
  BY <1>1, <1>2 DEF IncrementClickCount, AfterDbError
<1>4. counter' \in Nat /\ resent' \in Nat
  BY DEF IncrementClickCount, TypeOK
<1>5. faults' \in 0..MaxFaults
  BY SizeAssumption DEF IncrementClickCount, Fault, TypeOK
<1>6. QED
  BY <1>3, <1>4, <1>5 DEF IncrementClickCount, TypeOK, Store, Stored

LEMMA PublishType ==
    ASSUME TypeOK, NEW k \in Clicks, PublishClickEvent(k)
    PROVE  TypeOK'
<1>1. publishing' \in [Clicks -> 0..Attempts]
  <2>1. /\ publishing \in [Clicks -> 0..Attempts] /\ publishing[k] \in 0..Attempts
        /\ publishing[k] > 0
    BY DEF PublishClickEvent, TypeOK
  <2>2. 0 \in 0..Attempts /\ publishing[k] - 1 \in 0..Attempts
    BY <2>1, SizeAssumption
  <2>3. QED
    BY <2>1, <2>2 DEF PublishClickEvent
<1>2. faults' \in 0..MaxFaults
  BY SizeAssumption DEF PublishClickEvent, Fault, TypeOK
<1>3. /\ log' \in Seq(Clicks) /\ Len(log') <= MaxEntries
      /\ Len(log') \in Nat /\ Len(log) <= Len(log') /\ redis' \in Store'
  <2>1. CASE XAdd(k)
    <3>1. /\ XAddStep /\ Len(log) \in Nat /\ MaxEntries \in Nat
      BY <2>1, AddStep, SizeAssumption DEF TypeOK
    <3>2. Len(log) < MaxEntries /\ Len(log') = Len(log) + 1 /\ log' \in Seq(Clicks)
      BY <3>1 DEF XAddStep
    <3>3. redis' \in Store'
      BY <3>1 DEF XAddStep, Store, Stored
    <3>4. QED
      BY <3>1, <3>2, <3>3
  <2>2. CASE UNCHANGED <<log, redis>>
    BY <2>2 DEF TypeOK, Store, Stored
  <2>3. QED
    BY <2>1, <2>2 DEF PublishClickEvent
<1>4. image \in Store' /\ worker \in [Nodes -> WorkerState']
  BY <1>3, Grows
<1>5. QED
  BY <1>1, <1>2, <1>3, <1>4 DEF PublishClickEvent, TypeOK, WorkerState

LEMMA ReadType ==
    ASSUME TypeOK, NEW n \in Nodes, ReadClickEventsBatch(n)
    PROVE  TypeOK'
<1>1. worker \in [Nodes -> WorkerState] /\ Busy
  BY DEF TypeOK, WorkerState, Busy
<1>2. /\ [at |-> "insert", batch |-> Batch] \in WorkerState
      /\ Batch # {}
  BY BatchFacts, ReadStep DEF WorkerState
<1>3. worker' \in [Nodes -> WorkerState] /\ Busy'
  BY <1>1, <1>2 DEF ReadClickEventsBatch, Busy
<1>4. faults' \in 0..MaxFaults
  BY SizeAssumption DEF ReadClickEventsBatch, Fault, TypeOK
<1>5. QED
  BY <1>3, <1>4, ReadStep
     DEF ReadClickEventsBatch, clickVars, TypeOK, WorkerState, Busy, Store, Stored

LEMMA InsertType ==
    ASSUME TypeOK, NEW n \in Nodes, InsertClickBatch(n)
    PROVE  TypeOK'
<1>1. Inserted(worker[n].batch) \in [Entries -> Nat]
  BY DEF Inserted, TypeOK
<1>2. rows' \in [Entries -> Nat]
  BY <1>1 DEF InsertClickBatch, TypeOK
<1>3. worker \in [Nodes -> WorkerState] /\ Busy /\ worker[n].at = "insert"
  BY DEF TypeOK, WorkerState, Busy, InsertClickBatch
<1>4. /\ [at |-> "ack", batch |-> worker[n].batch] \in WorkerState
      /\ Idle \in WorkerState /\ worker[n].batch # {}
  BY <1>3 DEF WorkerState, Idle, Busy
<1>5. worker' \in [Nodes -> WorkerState] /\ Busy'
  <2>1. PICK w \in {[at |-> "ack", batch |-> worker[n].batch], Idle} :
           worker' = [worker EXCEPT ![n] = w]
    BY DEF InsertClickBatch, AfterError
  <2>2. w \in WorkerState /\ (w.at = "idle" <=> w.batch = {})
    BY <1>4 DEF Idle
  <2>3. QED
    BY <1>3, <2>1, <2>2 DEF Busy
<1>6. faults' \in 0..MaxFaults
  BY SizeAssumption DEF InsertClickBatch, Fault, TypeOK
<1>7. QED
  BY <1>2, <1>5, <1>6
     DEF InsertClickBatch, clickVars, TypeOK, WorkerState, Busy, Store, Stored

LEMMA AckType ==
    ASSUME TypeOK, NEW n \in Nodes, AckClickEvents(n)
    PROVE  TypeOK'
<1>1. worker' \in [Nodes -> WorkerState] /\ Busy'
  BY DEF TypeOK, WorkerState, AckClickEvents, Idle, Busy
<1>2. faults' \in 0..MaxFaults
  BY SizeAssumption DEF AckClickEvents, Fault, TypeOK
<1>3. QED
  BY <1>1, <1>2, AckStep
     DEF AckClickEvents, clickVars, TypeOK, WorkerState, Busy, Store, Stored

LEMMA CrashType ==
    ASSUME TypeOK, NEW n \in Nodes, Crash(n)
    PROVE  TypeOK'
<1>1. worker' \in [Nodes -> WorkerState] /\ Busy'
  BY DEF TypeOK, WorkerState, Crash, Idle, Busy
<1>2. counting' \in [Clicks -> 0..DbAttempts] /\ publishing' \in [Clicks -> 0..Attempts]
  BY SizeAssumption DEF Crash, TypeOK
<1>3. faults' \in 0..MaxFaults
  BY SizeAssumption DEF Crash, Fault, TypeOK
<1>4. QED
  BY <1>1, <1>2, <1>3 DEF Crash, TypeOK, WorkerState, Busy, Store, Stored

LEMMA SnapshotType ==
    ASSUME TypeOK, RedisSnapshot
    PROVE  TypeOK'
BY DEF RedisSnapshot, clickVars, TypeOK, Store, Stored

LEMMA RestartType ==
    ASSUME TypeOK, RedisRestart
    PROVE  TypeOK'
<1>1. again' \in [Entries -> Nat] /\ faults' \in 0..MaxFaults
  BY SizeAssumption DEF RedisRestart, Fault, TypeOK
<1>2. QED
  BY <1>1, RestartStep DEF RedisRestart, clickVars, TypeOK, Store, Stored

LEMMA TypeStep ==
    ASSUME TypeOK, [Next]_vars
    PROVE  TypeOK'
<1>1. CASE UNCHANGED vars
  BY <1>1 DEF vars, clickVars, TypeOK, Store, Stored
<1>2. QED
  BY <1>1, RedirectType, CounterType, PublishType, ReadType, InsertType, AckType,
     CrashType, SnapshotType, RestartType DEF Next, Work

\* The group's pending list and its last delivered entry stay within the stream,
\* with whatever Redis comes back, and only a busy worker has a batch.
THEOREM TypeCorrect == Spec => []TypeOK
<1>1. QED
  BY InitType, TypeStep, PTL DEF Spec

-----------------------------------------------------------------------------
(* Once for each delivery *)

\* The workers that are about to insert entry i.
Inserting(i) == {n \in Nodes : worker[n].at = "insert" /\ i \in worker[n].batch}

\* Entry i is yet to be delivered.
Due(i) == i \notin Stored \/ i \in Unread

\* What there is of an entry in ClickHouse, in workers' hands and still to be
\* delivered comes from its first delivery or from one that Redis forgot.
Budget ==
    \A i \in Entries :
        rows[i] + Cardinality(Inserting(i)) + (IF Due(i) THEN 1 ELSE 0) <= 1 + again[i]

\* The image is Redis of an earlier time.
ImageOlder ==
    /\ image.stream \subseteq redis.stream
    /\ image.delivered <= redis.delivered
    /\ \A i \in image.stream :
          i <= image.delivered /\ i \in redis.pending => i \in image.pending

LEMMA InsertingFinite ==
    ASSUME NEW i
    PROVE  IsFiniteSet(Inserting(i)) /\ Cardinality(Inserting(i)) \in Nat
<1>1. Inserting(i) \in SUBSET Nodes /\ IsFiniteSet(Nodes)
  BY SizeAssumption DEF Inserting
<1>2. QED
  BY <1>1, FS_Subset, FS_CardinalityType

\* A step keeps the budget when it adds nothing to an entry's promises, or only
\* what Redis forgot.
LEMMA BudgetKept ==
    ASSUME TypeOK, TypeOK', Budget,
           \A i \in Entries :
               /\ rows'[i] + Cardinality(Inserting(i)') <= rows[i] + Cardinality(Inserting(i))
               /\ again'[i] >= again[i]
               /\ Due(i)' => Due(i) \/ again'[i] = again[i] + 1
    PROVE  Budget'
<1>1. SUFFICES ASSUME NEW i \in Entries
               PROVE  rows'[i] + Cardinality(Inserting(i)') + (IF Due(i)' THEN 1 ELSE 0)
                         <= 1 + again'[i]
  BY DEF Budget
<1>2. /\ rows[i] \in Nat /\ rows'[i] \in Nat /\ again[i] \in Nat /\ again'[i] \in Nat
  BY DEF TypeOK
<1>3. Cardinality(Inserting(i)) \in Nat
  BY InsertingFinite
<1>4. Cardinality(Inserting(i)') \in Nat
  <2>1. Inserting(i)' \in SUBSET Nodes /\ IsFiniteSet(Nodes)
    BY SizeAssumption DEF Inserting
  <2>2. QED
    BY <2>1, FS_Subset, FS_CardinalityType
<1> DEFINE now == Cardinality(Inserting(i))  next == Cardinality(Inserting(i)')
<1>5. rows[i] + now + (IF Due(i) THEN 1 ELSE 0) <= 1 + again[i]
  BY DEF Budget
<1>6. /\ rows'[i] + next <= rows[i] + now /\ again'[i] >= again[i]
      /\ Due(i)' => Due(i) \/ again'[i] = again[i] + 1
  OBVIOUS
<1> HIDE DEF now, next
<1>7. rows'[i] + next + (IF Due(i)' THEN 1 ELSE 0) <= 1 + again'[i]
  BY <1>2, <1>3, <1>4, <1>5, <1>6 DEF now, next
<1>8. QED
  BY <1>7 DEF next

LEMMA BudgetStep ==
    ASSUME TypeOK, TypeOK', ImageOlder, Budget, [Next]_vars
    PROVE  Budget'
<1>1. CASE UNCHANGED <<worker, rows, again, redis, log>>
  BY <1>1 DEF Budget, Inserting, Due, Stored, Unread
<1>2. ASSUME NEW k \in Clicks, PublishClickEvent(k) PROVE Budget'
  <2>1. CASE XAdd(k)
    <3>1. /\ \A i \in Entries : rows'[i] = rows[i] /\ again'[i] = again[i]
          /\ \A i \in Entries : Inserting(i)' = Inserting(i)
      BY <1>2 DEF PublishClickEvent, Inserting
    <3>2. XAddStep
      BY <2>1, AddStep
    <3>0. Len(log) \in Nat
      BY DEF TypeOK
    <3>3. \A i \in Entries : Due(i)' => Due(i)
      BY <3>0, <3>2 DEF XAddStep, Due, Stored, Unread, Entries
    <3>4. \A i \in Entries : rows[i] \in Nat /\ again[i] \in Nat
      BY DEF TypeOK
    <3>5. QED
      BY <3>1, <3>3, <3>4, InsertingFinite, BudgetKept
  <2>2. QED
    BY <1>1, <1>2, <2>1 DEF PublishClickEvent
<1>3. ASSUME NEW n \in Nodes, ReadClickEventsBatch(n) PROVE Budget'
  <2>1. SUFFICES ASSUME NEW i \in Entries
                 PROVE  rows'[i] + Cardinality(Inserting(i)') + (IF Due(i)' THEN 1 ELSE 0)
                           <= 1 + again'[i]
    BY DEF Budget
  <2>2. /\ rows'[i] = rows[i] /\ again'[i] = again[i] /\ log' = log
        /\ rows[i] \in Nat /\ again[i] \in Nat
    BY <1>3 DEF ReadClickEventsBatch, TypeOK
  <2>3. rows[i] + Cardinality(Inserting(i)) + (IF Due(i) THEN 1 ELSE 0) <= 1 + again[i]
    BY DEF Budget
  <2>4. Cardinality(Inserting(i)) \in Nat /\ IsFiniteSet(Inserting(i))
    BY InsertingFinite
  <2>5. CASE i \in Batch
    <3>1. Due(i)
      BY <2>5, BatchFacts DEF Due
    <3>2. ~Due(i)'
      BY <1>3, <2>2, <2>5, BatchFacts, ReadUnread DEF Due, Stored
    <3>3. Inserting(i)' = Inserting(i) \/ Inserting(i)' = Inserting(i) \cup {n}
      <4>1. Inserting(i)' \subseteq Inserting(i) \cup {n}
        BY <1>3, ReadUnread DEF Inserting
      <4>2. Inserting(i) \subseteq Inserting(i)'
        BY <1>3, <2>5, ReadUnread DEF Inserting
      <4>3. QED
        BY <4>1, <4>2
    <3>4. /\ Cardinality(Inserting(i)') <= Cardinality(Inserting(i)) + 1
          /\ Cardinality(Inserting(i)') \in Nat
      BY <2>4, <3>3, FS_AddElement
    <3>5. QED
      BY <2>2, <2>3, <2>4, <3>1, <3>2, <3>4
  <2>6. CASE i \notin Batch
    <3>1. Due(i)' => Due(i)
      BY <1>3, ReadUnread DEF Due, Stored
    <3>2. Inserting(i)' = Inserting(i)
      <4>1. \A m \in Nodes : m \in Inserting(i)' => m \in Inserting(i)
        BY <1>3, <2>6, ReadUnread DEF Inserting
      <4>2. n \notin Inserting(i)
        BY <1>3, ReadStep DEF Inserting
      <4>3. \A m \in Nodes : m \in Inserting(i) => m \in Inserting(i)'
        BY <1>3, <4>2, ReadUnread DEF Inserting
      <4>4. QED
        BY <4>1, <4>3 DEF Inserting
    <3>3. QED
      BY <2>2, <2>3, <2>4, <3>1, <3>2
  <2>7. QED
    BY <2>5, <2>6
<1>4. ASSUME NEW n \in Nodes, InsertClickBatch(n) PROVE Budget'
  <2>1. /\ UNCHANGED <<log, redis, again>>
    BY <1>4 DEF InsertClickBatch
  <2>2. \A i \in Entries : (Due(i)' <=> Due(i)) /\ again'[i] = again[i] /\ again[i] \in Nat
    BY <2>1 DEF Due, Unread, Stored, TypeOK
  <2>3. \A i \in Entries : Inserting(i)' = Inserting(i) \ {n}
    BY <1>4 DEF InsertClickBatch, AfterError, Idle, Inserting, TypeOK
  <2>4. ASSUME NEW i \in Entries
        PROVE  rows'[i] + Cardinality(Inserting(i)') <= rows[i] + Cardinality(Inserting(i))
    <3>1. Cardinality(Inserting(i)) \in Nat /\ IsFiniteSet(Inserting(i)) /\ rows[i] \in Nat
      BY InsertingFinite DEF TypeOK
    <3>2. CASE i \in worker[n].batch
      <4>1. n \in Inserting(i)
        BY <1>4, <3>2 DEF InsertClickBatch, Inserting
      <4>2. Cardinality(Inserting(i)') = Cardinality(Inserting(i)) - 1
        BY <2>3, <3>1, <4>1, FS_RemoveElement
      <4>3. rows'[i] = rows[i] \/ rows'[i] = rows[i] + 1
        BY <1>4 DEF InsertClickBatch, Inserted, TypeOK
      <4>4. QED
        BY <3>1, <4>2, <4>3
    <3>3. CASE i \notin worker[n].batch
      <4>1. Inserting(i)' = Inserting(i)
        BY <2>3, <3>3 DEF Inserting
      <4>2. rows'[i] = rows[i]
        BY <1>4, <3>3 DEF InsertClickBatch, Inserted, TypeOK
      <4>3. QED
        BY <3>1, <4>1, <4>2
    <3>4. QED
      BY <3>2, <3>3
  <2>5. QED
    BY <2>2, <2>4, BudgetKept
<1>5. ASSUME NEW n \in Nodes, AckClickEvents(n) \/ Crash(n) PROVE Budget'
  <2>1. /\ log' = log /\ rows' = rows /\ again' = again
        /\ redis'.stream = redis.stream /\ redis'.delivered = redis.delivered
    BY <1>5, AckStep DEF AckClickEvents, Crash
  <2>2. \A i \in Entries : (Due(i)' <=> Due(i)) /\ again[i] \in Nat /\ rows[i] \in Nat
    BY <2>1 DEF Due, Unread, Stored, TypeOK
  <2>3. \A i \in Entries : Inserting(i)' \in SUBSET Inserting(i)
    <3>1. \A m \in Nodes : worker'[m] = worker[m] \/ worker'[m] = Idle
      BY <1>5 DEF AckClickEvents, Crash, TypeOK
    <3>2. Idle.batch = {}
      BY DEF Idle
    <3>3. QED
      BY <3>1, <3>2 DEF Inserting
  <2>4. \A i \in Entries : /\ Cardinality(Inserting(i)') <= Cardinality(Inserting(i))
                           /\ Cardinality(Inserting(i)') \in Nat
                           /\ Cardinality(Inserting(i)) \in Nat
    BY <2>3, InsertingFinite, FS_Subset, FS_CardinalityType
  <2>5. QED
    BY <2>1, <2>2, <2>4, BudgetKept
<1>6. CASE RedisRestart
  <2>1. \A i \in Entries : /\ rows'[i] = rows[i] /\ Inserting(i)' = Inserting(i)
                           /\ rows[i] \in Nat /\ again[i] \in Nat
    BY <1>6, RestartStep DEF Inserting, TypeOK
  <2>2. ASSUME NEW i \in Entries
        PROVE  again'[i] >= again[i] /\ (Due(i)' => Due(i) \/ again'[i] = again[i] + 1)
    <3>1. again'[i] = IF /\ i \in redis'.stream
                         /\ redis'.delivered < i /\ i <= redis.delivered
                      THEN again[i] + 1 ELSE again[i]
      BY <1>6, RestartStep
    <3>2. /\ redis.delivered \in Nat /\ redis'.delivered \in Nat /\ i \in Nat
          /\ redis'.stream \subseteq redis.stream /\ log' = log
      <4>1. redis.delivered \in Nat /\ image.stream \subseteq redis.stream
        BY DEF TypeOK, Store, ImageOlder
      <4>2. redis'.delivered \in Nat
        BY <1>6, RestartStep DEF Store, TypeOK
      <4>3. redis'.stream \subseteq redis.stream /\ log' = log
        BY <1>6, <4>1, RestartStep
      <4>4. QED
        BY <4>1, <4>2, <4>3 DEF Entries
    <3>3. Due(i)' => Due(i) \/ again'[i] = again[i] + 1
      BY <2>1, <3>1, <3>2 DEF Due, Stored, Unread
    <3>4. QED
      BY <2>1, <3>1, <3>3
  <2>3. QED
    BY <2>1, <2>2, InsertingFinite, BudgetKept
<1>7. QED
  BY <1>1, <1>2, <1>3, <1>4, <1>5, <1>6
     DEF Next, Work, Redirect, IncrementClickCount, RedisSnapshot, clickVars, vars

-----------------------------------------------------------------------------
(* Nothing forgotten *)

\* What awaits its XACK is in ClickHouse.
AckStored ==
    \A n \in Nodes : \A i \in worker[n].batch : worker[n].at = "ack" => rows[i] >= 1

\* ForgottenIsStored for what Redis would come back with.
ImageForgot ==
    \A i \in image.stream :
        i <= image.delivered /\ i \notin image.pending => rows[i] >= 1

IInv ==
    /\ TypeOK /\ ImageOlder /\ Budget
    /\ AckStored /\ ForgottenIsStored /\ ImageForgot

\* No step takes rows out of ClickHouse.
LEMMA RowsGrow ==
    ASSUME TypeOK, [Next]_vars
    PROVE  \A i \in Entries : rows[i] \in Nat /\ rows'[i] \in Nat /\ rows'[i] >= rows[i]
<1>1. \A i \in Entries : rows[i] \in Nat
  BY DEF TypeOK
<1>2. rows' = rows \/ \E n \in Nodes : InsertClickBatch(n)
  BY DEF Next, Work, Redirect, IncrementClickCount, PublishClickEvent,
     ReadClickEventsBatch, AckClickEvents, Crash, RedisSnapshot, RedisRestart,
     clickVars, vars
<1>3. ASSUME NEW n \in Nodes, InsertClickBatch(n), NEW i \in Entries
      PROVE  rows'[i] \in Nat /\ rows'[i] >= rows[i]
  BY <1>1, <1>3 DEF InsertClickBatch, Inserted
<1>4. QED
  BY <1>1, <1>2, <1>3

LEMMA ImageOlderStep ==
    ASSUME TypeOK, ImageOlder, [Next]_vars
    PROVE  ImageOlder'
<1>1. CASE UNCHANGED <<redis, image>>
  BY <1>1 DEF ImageOlder
<1>2. ASSUME NEW k \in Clicks, PublishClickEvent(k), XAdd(k) PROVE ImageOlder'
  <2>1. XAddStep /\ image' = image
    BY <1>2, AddStep DEF PublishClickEvent
  <2>2. QED
    BY <2>1 DEF ImageOlder, XAddStep
<1>3. ASSUME NEW n \in Nodes, ReadClickEventsBatch(n) PROVE ImageOlder'
  <2>1. image' = image
    BY <1>3 DEF ReadClickEventsBatch
  <2>0. redis \in Store /\ image \in Store /\ redis' \in Store
    BY <1>3, ReadStep DEF TypeOK
  <2>2. /\ redis.delivered \in Nat /\ image.delivered \in Nat /\ redis'.delivered \in Nat
        /\ \A i \in image.stream : i \in Nat
    BY <2>0 DEF Store, Stored
  <2>3. \A i \in Batch : i > redis.delivered
    BY BatchFacts DEF Unread
  <2>4. image.delivered <= redis'.delivered
    BY <1>3, <2>2, ReadStep DEF ImageOlder
  <2>5. ASSUME NEW i \in image.stream, i <= image.delivered, i \in redis'.pending
        PROVE  i \in image.pending
    <3>1. i \notin Batch
      BY <2>2, <2>3, <2>5 DEF ImageOlder
    <3>2. i \in redis.pending
      BY <1>3, <2>5, <3>1, ReadStep
    <3>3. QED
      BY <2>5, <3>2 DEF ImageOlder
  <2>6. QED
    BY <1>3, <2>1, <2>4, <2>5, ReadStep DEF ImageOlder
<1>4. ASSUME NEW n \in Nodes, AckClickEvents(n) PROVE ImageOlder'
  BY <1>4, AckStep DEF ImageOlder, AckClickEvents
<1>5. CASE RedisSnapshot
  BY <1>5 DEF RedisSnapshot, ImageOlder, TypeOK, Store
<1>6. CASE RedisRestart
  <2>1. image' = redis' /\ redis' \in Store
    BY <1>6, RestartStep
  <2>2. redis'.delivered \in Nat
    BY <2>1, TypeStep DEF Store, TypeOK
  <2>3. QED
    BY <2>1, <2>2 DEF ImageOlder
<1>7. QED
  BY <1>1, <1>2, <1>3, <1>4, <1>5, <1>6
     DEF Next, Work, Redirect, IncrementClickCount, PublishClickEvent,
         InsertClickBatch, Crash, clickVars, vars

LEMMA AckStoredStep ==
    ASSUME TypeOK, AckStored, [Next]_vars
    PROVE  AckStored'
<1>1. SUFFICES ASSUME NEW n \in Nodes, NEW i \in worker'[n].batch, worker'[n].at = "ack"
               PROVE  rows'[i] >= 1
  BY DEF AckStored
<1>2. CASE worker'[n] = worker[n]
  <2>1. rows[i] >= 1 /\ i \in Entries
    BY <1>1, <1>2, BatchFacts DEF AckStored, TypeOK
  <2>2. QED
    BY <2>1, RowsGrow
<1>3. CASE InsertClickBatch(n)
  <2>1. i \in worker[n].batch /\ rows' = Inserted(worker[n].batch)
    BY <1>1, <1>3 DEF InsertClickBatch, AfterError, Idle, TypeOK
  <2>2. i \in Entries
    BY <2>1, BatchFacts DEF TypeOK
  <2>3. QED
    BY <2>1, <2>2 DEF Inserted, TypeOK
<1>4. ASSUME worker'[n] # worker[n] PROVE InsertClickBatch(n)
  <2>1. ASSUME NEW m \in Nodes, ReadClickEventsBatch(m)
        PROVE  worker'[n] = worker[n] \/ worker'[n].at = "insert"
    BY <2>1, ReadUnread
  <2>2. ASSUME NEW m \in Nodes, AckClickEvents(m) \/ Crash(m)
        PROVE  worker'[n] = worker[n] \/ worker'[n].at = "idle"
    BY <2>2 DEF AckClickEvents, Crash, Idle, TypeOK
  <2>3. ASSUME NEW m \in Nodes, InsertClickBatch(m) PROVE worker'[n] = worker[n] \/ m = n
    BY <2>3 DEF InsertClickBatch, TypeOK
  <2>4. QED
    BY <1>1, <1>4, <2>1, <2>2, <2>3 DEF Next, Work, Redirect, IncrementClickCount,
       PublishClickEvent, RedisSnapshot, RedisRestart, clickVars, vars
<1>5. QED
  BY <1>2, <1>3, <1>4

LEMMA ForgottenStep ==
    ASSUME TypeOK, AckStored, ForgottenIsStored, ImageForgot, [Next]_vars
    PROVE  ForgottenIsStored' /\ ImageForgot'
<1>1. \A i \in Entries : rows[i] >= 1 => rows'[i] >= 1
  BY RowsGrow
<1>2. redis.stream \subseteq Entries /\ image.stream \subseteq Entries
  BY BatchFacts DEF TypeOK, Store
<1>3. image' = image => ImageForgot'
  BY <1>1, <1>2 DEF ImageForgot
<1>4. redis' = redis => ForgottenIsStored'
  BY <1>1, <1>2 DEF ForgottenIsStored
<1>5. ASSUME NEW k \in Clicks, PublishClickEvent(k), XAdd(k) PROVE ForgottenIsStored'
  <2>1. XAddStep /\ Len(log) \in Nat /\ redis.delivered \in 0..Len(log) /\ rows' = rows
    BY <1>5, AddStep DEF TypeOK, Store, PublishClickEvent
  <2>2. QED
    BY <2>1 DEF ForgottenIsStored, XAddStep
<1>6. ASSUME NEW n \in Nodes, ReadClickEventsBatch(n) PROVE ForgottenIsStored'
  <2>1. SUFFICES ASSUME NEW i \in redis.stream, i <= redis'.delivered,
                        i \notin redis.pending, i \notin Batch
                 PROVE  rows'[i] >= 1
    BY <1>6, ReadStep DEF ForgottenIsStored
  <2>2. i \notin Unread
    BY <1>6, <2>1, ReadStep, BatchFacts
  <2>3. i <= redis.delivered
    BY <2>1, <2>2 DEF Unread, TypeOK, Store, Stored
  <2>4. QED
    BY <1>1, <1>2, <2>1, <2>3 DEF ForgottenIsStored
<1>7. ASSUME NEW n \in Nodes, AckClickEvents(n) PROVE ForgottenIsStored'
  <2>1. SUFFICES ASSUME NEW i \in redis.stream, i <= redis.delivered, i \notin redis'.pending
                 PROVE  rows'[i] >= 1
    BY <1>7, AckStep DEF ForgottenIsStored
  <2>2. i \notin redis.pending \/ i \in worker[n].batch
    BY <1>7, <2>1, AckStep
  <2>3. rows[i] >= 1
    BY <1>7, <2>1, <2>2, AckStep DEF ForgottenIsStored, AckStored
  <2>4. QED
    BY <1>1, <1>2, <2>3
<1>8. CASE RedisSnapshot
  BY <1>8 DEF RedisSnapshot, ForgottenIsStored, ImageForgot
<1>9. CASE RedisRestart
  BY <1>9, RestartStep DEF ForgottenIsStored, ImageForgot
<1>10. QED
  BY <1>3, <1>4, <1>5, <1>6, <1>7, <1>8, <1>9
     DEF Next, Work, Redirect, IncrementClickCount, PublishClickEvent,
         ReadClickEventsBatch, InsertClickBatch, AckClickEvents, Crash, clickVars, vars

LEMMA IInvStep ==
    ASSUME IInv, [Next]_vars
    PROVE  IInv'
BY TypeStep, BudgetStep, ImageOlderStep, AckStoredStep, ForgottenStep DEF IInv

LEMMA IInvHolds == Spec => []IInv
<1>1. Init => IInv
  <2>1. SUFFICES ASSUME Init PROVE IInv
    OBVIOUS
  <2>2. TypeOK
    BY <2>1, InitType
  <2>3. /\ redis.stream = {} /\ redis.delivered = 0 /\ redis.pending = {}
        /\ image.stream = {} /\ image.delivered = 0
    BY <2>1 DEF Init, Empty
  <2>4. ImageOlder /\ ForgottenIsStored /\ ImageForgot
    BY <2>3 DEF ImageOlder, ForgottenIsStored, ImageForgot
  <2>5. AckStored
    BY <2>1 DEF Init, Idle, AckStored
  <2>6. \A i \in Entries : Inserting(i) = {} /\ rows[i] = 0 /\ again[i] = 0
    BY <2>1 DEF Init, Idle, Inserting
  <2>7. Budget
    BY <2>6, FS_EmptySet DEF Budget
  <2>8. QED
    BY <2>2, <2>4, <2>5, <2>7 DEF IInv
<1>2. QED
  BY <1>1, IInvStep, PTL DEF Spec

\* No stream entry is written to ClickHouse more often than Redis has forgotten
\* delivering it, and once: whatever call fails or process stops.
THEOREM AtMostOnce == Spec => []StoredOnce
<1>1. ASSUME IInv, NEW i \in Entries PROVE rows[i] <= 1 + again[i]
  <2>1. /\ rows[i] \in Nat /\ again[i] \in Nat /\ Cardinality(Inserting(i)) \in Nat
        /\ rows[i] + Cardinality(Inserting(i)) + (IF Due(i) THEN 1 ELSE 0) <= 1 + again[i]
    BY <1>1, InsertingFinite DEF IInv, TypeOK, Budget
  <2>2. QED
    BY <2>1
<1>2. IInv => StoredOnce
  BY <1>1 DEF StoredOnce
<1>3. QED
  BY <1>2, IInvHolds, PTL

\* What the group has delivered and forgotten is in ClickHouse.
THEOREM NothingForgotten == Spec => []ForgottenIsStored
<1>1. IInv => ForgottenIsStored
  BY DEF IInv
<1>2. QED
  BY <1>1, IInvHolds, PTL

-----------------------------------------------------------------------------
(* The counter *)

CounterInv == TypeOK /\ Counting \subseteq Redirected /\ CountNotAbove

LEMMA CountedSets ==
    ASSUME TypeOK
    PROVE  /\ IsFiniteSet(Counting) /\ IsFiniteSet(Redirected)
           /\ Cardinality(Counting) \in Nat /\ Cardinality(Redirected) \in Nat
           /\ counter \in Nat /\ resent \in Nat
<1>1. Counting \subseteq Clicks /\ Redirected \subseteq Clicks /\ IsFiniteSet(Clicks)
  BY SizeAssumption DEF Counting, Redirected
<1>2. IsFiniteSet(Counting) /\ IsFiniteSet(Redirected)
  BY <1>1, FS_Subset
<1>3. QED
  BY <1>2, FS_CardinalityType DEF TypeOK

LEMMA RedirectSets ==
    ASSUME TypeOK, Counting \subseteq Redirected,
           NEW n \in Nodes, NEW k \in Clicks, Redirect(n, k)
    PROVE  /\ Redirected' = Redirected \cup {k} /\ Counting' = Counting \cup {k}
           /\ Cardinality(Redirected') = Cardinality(Redirected) + 1
           /\ Cardinality(Counting') = Cardinality(Counting) + 1
<1>1. Redirected' = Redirected \cup {k}
  BY SizeAssumption DEF Redirect, Redirected, TypeOK
<1>2. Counting' = Counting \cup {k}
  BY SizeAssumption DEF Redirect, Counting, TypeOK
<1>3. k \notin Redirected /\ k \notin Counting
  BY DEF Redirect, Redirected
<1>4. QED
  BY <1>1, <1>2, <1>3, CountedSets, FS_AddElement

\* An UPDATE counts one, or none, and its goroutine ends; or it is sent again.
LEMMA CountStep ==
    ASSUME TypeOK, NEW k \in Clicks, IncrementClickCount(k)
    PROVE  /\ UNCHANGED <<home, publishing, log, redis, again>>
           /\ k \in Counting
           /\ \/ /\ Counting' = Counting \ {k} /\ resent' = resent
                 /\ Cardinality(Counting') = Cardinality(Counting) - 1
              \/ faults' > faults /\ Counting' = Counting /\ resent' = resent + 1
           /\ counter' \in {counter, counter + 1}
           /\ faults' > faults \/ (counter' = counter + 1 /\ resent' = resent)
<1>1. k \in Counting /\ UNCHANGED <<home, publishing, log, redis, again>>
  BY DEF IncrementClickCount, Counting
<1>2. faults \in Nat
  BY SizeAssumption DEF TypeOK
<1>3. /\ counter' \in {counter, counter + 1}
      /\ faults' > faults \/ (counter' = counter + 1 /\ resent' = resent)
  BY <1>2 DEF IncrementClickCount, Fault
<1>4. \/ counting' = [counting EXCEPT ![k] = 0] /\ resent' = resent
      \/ /\ faults' > faults /\ counting[k] > 1 /\ resent' = resent + 1
         /\ counting' = [counting EXCEPT ![k] = counting[k] - 1]
  BY <1>2 DEF IncrementClickCount, Fault, AfterDbError
<1>5. CASE counting' = [counting EXCEPT ![k] = 0] /\ resent' = resent
  <2>1. Counting' = Counting \ {k}
    BY <1>5 DEF Counting, TypeOK
  <2>2. QED
    BY <1>1, <1>3, <1>5, <2>1, CountedSets, FS_RemoveElement
<1>6. CASE /\ faults' > faults /\ counting[k] > 1 /\ resent' = resent + 1
           /\ counting' = [counting EXCEPT ![k] = counting[k] - 1]
  <2>1. counting[k] \in Nat /\ \A j \in Clicks : j # k => counting'[j] = counting[j]
    BY <1>6, SizeAssumption DEF TypeOK
  <2>2. counting'[k] = counting[k] - 1
    BY <1>6 DEF TypeOK
  <2>3. Counting' = Counting
    BY <1>6, <2>1, <2>2 DEF Counting
  <2>4. QED
    BY <1>1, <1>3, <1>6, <2>3
<1>7. QED
  BY <1>4, <1>5, <1>6

LEMMA CrashSets ==
    ASSUME TypeOK, NEW n \in Nodes, Crash(n)
    PROVE  /\ Counting' \subseteq Counting /\ Redirected' = Redirected
           /\ Cardinality(Counting') <= Cardinality(Counting)
           /\ Cardinality(Counting') \in Nat
<1>1. Redirected' = Redirected
  BY DEF Crash, Redirected
<1>2. Counting' \in SUBSET Counting
  BY DEF Crash, Counting
<1>3. QED
  BY <1>1, <1>2, CountedSets, FS_Subset, FS_CardinalityType

LEMMA CounterStep ==
    ASSUME CounterInv, [Next]_vars
    PROVE  CounterInv'
<1>1. TypeOK /\ TypeOK'
  BY TypeStep DEF CounterInv
<1>2. counter + Cardinality(Counting) <= Cardinality(Redirected) + resent
  BY DEF CounterInv, CountNotAbove
<1>3. ASSUME NEW n \in Nodes, NEW k \in Clicks, Redirect(n, k) PROVE CounterInv'
  <2>1. counter' = counter /\ resent' = resent
    BY <1>3 DEF Redirect
  <2>2. QED
    BY <1>1, <1>2, <1>3, <2>1, CountedSets, RedirectSets DEF CounterInv, CountNotAbove
<1>4. ASSUME NEW k \in Clicks, IncrementClickCount(k) PROVE CounterInv'
  <2>1. Redirected' = Redirected
    BY <1>1, <1>4, CountStep DEF Redirected
  <2>2. Counting' \subseteq Counting
    BY <1>1, <1>4, CountStep
  <2>3. counter' + Cardinality(Counting') <= Cardinality(Redirected) + resent'
    BY <1>1, <1>2, <1>4, CountStep, CountedSets
  <2>4. QED
    BY <1>1, <2>1, <2>2, <2>3 DEF CounterInv, CountNotAbove
<1>5. ASSUME NEW n \in Nodes, Crash(n) PROVE CounterInv'
  <2>1. counter' = counter /\ resent' = resent
    BY <1>5 DEF Crash
  <2>2. QED
    BY <1>1, <1>2, <1>5, <2>1, CountedSets, CrashSets DEF CounterInv, CountNotAbove
<1>6. CASE UNCHANGED <<home, counting, resent, counter>>
  BY <1>1, <1>6 DEF CounterInv, CountNotAbove, Counting, Redirected
<1>7. QED
  BY <1>3, <1>4, <1>5, <1>6
     DEF Next, Work, PublishClickEvent, ReadClickEventsBatch, InsertClickBatch,
         AckClickEvents, RedisSnapshot, RedisRestart, clickVars, vars

\* click_count runs ahead of the redirects by no more than what database/sql has
\* sent again.
THEOREM NeverOvercounted == Spec => []CountNotAbove
<1>1. Init => CounterInv
  <2>1. Init => TypeOK
    BY InitType
  <2>2. Init => Counting = {} /\ Redirected = {} /\ counter = 0 /\ resent = 0
    BY DEF Init, Counting, Redirected
  <2>3. QED
    BY <2>1, <2>2, FS_EmptySet DEF CounterInv, CountNotAbove
<1>2. CounterInv => CountNotAbove
  BY DEF CounterInv
<1>3. QED
  BY <1>1, <1>2, CounterStep, PTL DEF Spec

-----------------------------------------------------------------------------
(* One reader for each delivery *)

LEMMA LeftStep ==
    ASSUME TypeOK, ImageOlder, [Next]_vars,
           NEW i \in Entries, LeftBehind(i), again'[i] = again[i]
    PROVE  /\ LeftBehind(i)' /\ rows'[i] = rows[i]
           /\ i \in redis.pending => i \in redis'.pending \/ i \notin redis'.stream
<1>1. /\ i \in Stored /\ i \notin Unread /\ i \in Nat
      /\ \A n \in Nodes : i \notin worker[n].batch
  BY DEF LeftBehind, Entries
<1>2. Stored \subseteq Stored'
  <2>1. CASE log' = log
    BY <2>1 DEF Stored
  <2>2. ASSUME NEW k \in Clicks, XAdd(k) PROVE Stored \subseteq Stored'
    <3>1. Len(log) \in Nat
      BY DEF TypeOK
    <3>2. Len(log') = Len(log) + 1
      BY <2>2, AddStep DEF XAddStep
    <3>3. QED
      BY <3>1, <3>2 DEF Stored
  <2>3. CASE UNCHANGED vars
    BY <2>1, <2>3 DEF vars
  <2>4. ASSUME NEW k \in Clicks, PublishClickEvent(k) PROVE Stored \subseteq Stored'
    BY <2>1, <2>2, <2>4 DEF PublishClickEvent
  <2>5. ASSUME NEW n \in Nodes, Work(n) \/ Crash(n) PROVE log' = log
    BY <2>5 DEF Work, ReadClickEventsBatch, InsertClickBatch, AckClickEvents, Crash
  <2>6. ASSUME NEW k \in Clicks, IncrementClickCount(k) \/ \E n \in Nodes : Redirect(n, k)
        PROVE  log' = log
    BY <2>6 DEF IncrementClickCount, Redirect
  <2>7. CASE RedisSnapshot \/ RedisRestart
    BY <2>1, <2>7 DEF RedisSnapshot, RedisRestart
  <2>8. QED
    BY <2>1, <2>3, <2>4, <2>5, <2>6, <2>7 DEF Next
<1>3. CASE UNCHANGED <<worker, rows, redis>>
  BY <1>1, <1>2, <1>3 DEF LeftBehind, Unread
<1>4. ASSUME NEW k \in Clicks, PublishClickEvent(k), XAdd(k)
      PROVE  LeftBehind(i)' /\ rows'[i] = rows[i] /\ redis'.pending = redis.pending
  <2>1. XAddStep /\ UNCHANGED <<worker, rows>>
    BY <1>4, AddStep DEF PublishClickEvent
  <2>2. i \notin Unread'
    <3>1. i \in 1..Len(log) /\ Len(log) \in Nat
      BY <1>1 DEF Stored, TypeOK
    <3>2. i # Len(log) + 1
      BY <3>1
    <3>3. QED
      BY <1>1, <2>1, <3>2 DEF XAddStep, Unread
  <2>3. QED
    BY <1>1, <1>2, <2>1, <2>2 DEF LeftBehind, XAddStep
<1>5. ASSUME NEW n \in Nodes, ReadClickEventsBatch(n)
      PROVE  /\ LeftBehind(i)' /\ rows'[i] = rows[i]
             /\ redis.pending \subseteq redis'.pending
  <2>1. i \notin Batch /\ i \notin Unread'
    BY <1>1, <1>5, ReadUnread
  <2>2. ASSUME NEW m \in Nodes PROVE i \notin worker'[m].batch
    <3>1. \/ worker'[m] = worker[m]
          \/ worker'[m] = [at |-> "insert", batch |-> Batch]
      BY <1>5, ReadUnread
    <3>2. QED
      BY <1>1, <2>1, <3>1
  <2>3. QED
    BY <1>1, <1>2, <1>5, <2>1, <2>2, ReadStep DEF LeftBehind, ReadClickEventsBatch
<1>6. ASSUME NEW n \in Nodes, InsertClickBatch(n)
      PROVE  LeftBehind(i)' /\ rows'[i] = rows[i] /\ redis' = redis
  <2>1. ASSUME NEW m \in Nodes PROVE i \notin worker'[m].batch
    <3>1. \/ worker'[m] = worker[m]
          \/ worker'[m].batch \in {worker[n].batch, {}}
      BY <1>6 DEF InsertClickBatch, AfterError, Idle, TypeOK
    <3>2. QED
      BY <1>1, <3>1
  <2>2. rows'[i] = rows[i]
    BY <1>1, <1>6 DEF InsertClickBatch, Inserted, TypeOK
  <2>3. redis' = redis /\ i \notin Unread'
    BY <1>1, <1>6 DEF InsertClickBatch, Unread
  <2>4. QED
    BY <1>1, <1>2, <2>1, <2>2, <2>3 DEF LeftBehind
<1>7. ASSUME NEW n \in Nodes, AckClickEvents(n)
      PROVE  /\ LeftBehind(i)' /\ rows'[i] = rows[i]
             /\ i \in redis.pending => i \in redis'.pending
  <2>1. ASSUME NEW m \in Nodes PROVE i \notin worker'[m].batch
    <3>1. worker'[m] = worker[m] \/ worker'[m].batch = {}
      BY <1>7 DEF AckClickEvents, Idle, TypeOK
    <3>2. QED
      BY <1>1, <3>1
  <2>2. i \in redis.pending => i \in redis'.pending
    BY <1>1, <1>7, AckStep
  <2>3. i \notin Unread'
    BY <1>1, <1>7, AckStep DEF Unread
  <2>4. QED
    BY <1>1, <1>2, <1>7, <2>1, <2>2, <2>3 DEF LeftBehind, AckClickEvents
<1>8. ASSUME NEW n \in Nodes, Crash(n)
      PROVE  LeftBehind(i)' /\ rows'[i] = rows[i] /\ redis' = redis
  <2>1. ASSUME NEW m \in Nodes PROVE i \notin worker'[m].batch
    <3>1. worker'[m] = worker[m] \/ worker'[m].batch = {}
      BY <1>8 DEF Crash, Idle, TypeOK
    <3>2. QED
      BY <1>1, <3>1
  <2>2. UNCHANGED <<rows, redis>> /\ i \notin Unread'
    BY <1>1, <1>8 DEF Crash, Unread
  <2>3. QED
    BY <1>1, <1>2, <2>1, <2>2 DEF LeftBehind
<1>9. CASE RedisRestart
  <2>1. /\ UNCHANGED <<worker, rows>> /\ again[i] \in Nat
        /\ redis'.delivered \in Nat /\ redis.delivered \in Nat
    BY <1>9, RestartStep DEF TypeOK, Store
  <2>2. again'[i] = IF /\ i \in redis'.stream
                       /\ redis'.delivered < i /\ i <= redis.delivered
                    THEN again[i] + 1 ELSE again[i]
    BY <1>9, RestartStep
  <2>3. ~(i \in redis'.stream /\ redis'.delivered < i /\ i <= redis.delivered)
    BY <2>1, <2>2
  <2>4. redis'.stream \subseteq redis.stream
    BY <1>9, RestartStep DEF ImageOlder
  <2>5. i \notin Unread'
    BY <1>1, <2>1, <2>3, <2>4 DEF Unread
  <2>6. i \in redis.pending => i \in redis'.pending \/ i \notin redis'.stream
    <3>1. SUFFICES ASSUME i \in redis.pending, i \in redis'.stream
                   PROVE  i \in redis'.pending
      OBVIOUS
    <3>2. redis' = image
      BY <1>9, <3>1, RestartStep
    <3>3. i <= redis.delivered
      BY <1>1, <2>1, <2>4, <3>1 DEF Unread
    <3>4. i <= image.delivered
      BY <1>1, <2>1, <2>3, <3>1, <3>2, <3>3
    <3>5. QED
      BY <3>1, <3>2, <3>4 DEF ImageOlder
  <2>7. QED
    BY <1>1, <1>2, <2>1, <2>5, <2>6 DEF LeftBehind
<1>10. QED
  BY <1>3, <1>4, <1>5, <1>6, <1>7, <1>8, <1>9
     DEF Next, Work, Redirect, IncrementClickCount, PublishClickEvent, RedisSnapshot,
         clickVars, vars

\* Nobody stores or acknowledges what an entry's reader has left behind, however
\* many workers share the consumer's name (stream.go:34 reads new entries only),
\* unless Redis forgets the delivery: so a failed batch is never stored.
THEOREM ReadOnce == Spec => NoSecondReader
<1>1. IInv /\ [Next]_vars =>
        \A i \in Entries :
          LeftBehind(i) /\ again'[i] = again[i] =>
            /\ LeftBehind(i)'
            /\ rows'[i] = rows[i]
            /\ i \in redis.pending => i \in redis'.pending \/ i \notin redis'.stream
  BY LeftStep DEF IInv
<1>2. QED
  BY <1>1, IInvHolds, PTL DEF Spec, NoSecondReader

-----------------------------------------------------------------------------
(* The two counts, faults aside *)

\* The clicks whose goroutine is still publishing.
Publishing == {k \in Clicks : publishing[k] > 0}

\* As long as nothing fails, each redirect has been counted or is about to be,
\* and has its entry in the stream or is about to get it.
OneEach ==
    /\ Counting \subseteq Redirected
    /\ Publishing \subseteq Redirected
    /\ faults = 0 =>
        /\ redis.stream = Stored
        /\ \A i \in Entries : again[i] = 0
        /\ counter + Cardinality(Counting) = Cardinality(Redirected)
        /\ Len(log) + Cardinality(Publishing) = Cardinality(Redirected)

LEMMA OneEachSets ==
    ASSUME TypeOK
    PROVE  /\ IsFiniteSet(Publishing) /\ Cardinality(Publishing) \in Nat
           /\ Len(log) \in Nat /\ faults \in Nat
<1>1. Publishing \subseteq Clicks /\ IsFiniteSet(Clicks)
  BY SizeAssumption DEF Publishing
<1>2. QED
  BY <1>1, FS_Subset, FS_CardinalityType, SizeAssumption DEF TypeOK

LEMMA RedirectOne ==
    ASSUME TypeOK, OneEach, NEW n \in Nodes, NEW k \in Clicks, Redirect(n, k)
    PROVE  OneEach'
<1>1. k \notin Redirected /\ k \notin Publishing
  BY DEF Redirect, Redirected, OneEach
<1>2. UNCHANGED <<counter, log, redis, again, faults>>
  BY DEF Redirect
<1>3. Publishing' = Publishing \cup {k}
  BY SizeAssumption DEF Redirect, Publishing, TypeOK
<1>4. Cardinality(Publishing') = Cardinality(Publishing) + 1
  BY <1>1, <1>3, OneEachSets, FS_AddElement
<1>5. QED
  BY <1>2, <1>3, <1>4, CountedSets, OneEachSets, RedirectSets DEF OneEach, Stored

LEMMA CounterOne ==
    ASSUME TypeOK, OneEach, NEW k \in Clicks, IncrementClickCount(k), faults' \in Nat
    PROVE  OneEach'
<1>1. Redirected' = Redirected /\ Publishing' = Publishing
  BY CountStep DEF Redirected, Publishing
<1>2. Counting' \subseteq Redirected'
  BY <1>1, CountStep DEF OneEach
<1>3. ASSUME faults' = 0
      PROVE  /\ faults = 0 /\ counter' = counter + 1
             /\ Cardinality(Counting') = Cardinality(Counting) - 1
  <2>1. ~(faults' > faults)
    BY <1>3, OneEachSets
  <2>2. counter' = counter + 1 /\ Cardinality(Counting') = Cardinality(Counting) - 1
    BY <2>1, CountStep
  <2>3. faults' = faults
    BY <2>1, OneEachSets DEF IncrementClickCount, Fault
  <2>4. QED
    BY <1>3, <2>2, <2>3
<1>4. QED
  BY <1>1, <1>2, <1>3, CountStep, CountedSets, OneEachSets DEF OneEach, Stored

LEMMA PublishOne ==
    ASSUME TypeOK, OneEach, NEW k \in Clicks, PublishClickEvent(k)
    PROVE  OneEach'
<1>1. /\ k \in Publishing /\ UNCHANGED <<home, counting, counter, again>>
  BY DEF PublishClickEvent, Publishing
<1>2. ASSUME faults' = 0
      PROVE  faults = 0 /\ XAdd(k) /\ publishing' = [publishing EXCEPT ![k] = 0]
  BY <1>2, OneEachSets DEF PublishClickEvent, Fault
<1>3. Redirected' = Redirected /\ Counting' = Counting
  BY <1>1 DEF Redirected, Counting
<1>4. Publishing' \subseteq Publishing
  <2>1. \A j \in Clicks : publishing'[j] > 0 => publishing[j] > 0
    BY DEF PublishClickEvent, TypeOK
  <2>2. QED
    BY <2>1 DEF Publishing
<1>5. ASSUME faults' = 0
      PROVE  /\ Len(log') + Cardinality(Publishing') = Cardinality(Redirected)
             /\ redis'.stream = Stored'
  <2>1. Publishing' = Publishing \ {k}
    BY <1>2, <1>5 DEF Publishing, TypeOK
  <2>2. Cardinality(Publishing') = Cardinality(Publishing) - 1
    BY <1>1, <2>1, OneEachSets, FS_RemoveElement
  <2>3. XAddStep /\ faults = 0
    BY <1>2, <1>5, AddStep
  <2>4. redis'.stream = Stored'
    BY <2>3, OneEachSets DEF XAddStep, OneEach, Stored
  <2>5. /\ Len(log) + Cardinality(Publishing) = Cardinality(Redirected)
        /\ Len(log') = Len(log) + 1
    BY <2>3 DEF OneEach, XAddStep
  <2>6. /\ Len(log) \in Nat /\ Cardinality(Publishing) \in Nat
        /\ Cardinality(Redirected) \in Nat
    BY CountedSets, OneEachSets
  <2>7. QED
    BY <2>2, <2>4, <2>5, <2>6
<1>6. QED
  BY <1>1, <1>2, <1>3, <1>4, <1>5 DEF OneEach

LEMMA OneEachStep ==
    ASSUME TypeOK, OneEach, [Next]_vars
    PROVE  OneEach'
<1>1. ASSUME UNCHANGED <<home, counting, publishing, counter, log, again>>,
             redis'.stream = redis.stream, faults' = 0 => faults = 0
      PROVE  OneEach'
  BY <1>1 DEF OneEach, Redirected, Counting, Publishing, Stored
<1>2. ASSUME faults' = faults + 1, home' = home,
             Counting' \subseteq Counting, Publishing' \subseteq Publishing
      PROVE  OneEach'
  BY <1>2, OneEachSets DEF OneEach, Redirected
<1>3. ASSUME NEW n \in Nodes, Work(n) PROVE OneEach'
  <2>1. redis'.stream = redis.stream
    BY <1>3, ReadStep, AckStep DEF Work, InsertClickBatch
  <2>2. faults' = 0 => faults = 0
    <3>1. faults' = faults \/ Fault
      BY <1>3 DEF Work, ReadClickEventsBatch, InsertClickBatch, AckClickEvents
    <3>2. QED
      BY <3>1, OneEachSets DEF Fault
  <2>3. UNCHANGED <<home, counting, publishing, counter, log, again>>
    BY <1>3 DEF Work, ReadClickEventsBatch, InsertClickBatch, AckClickEvents, clickVars
  <2>4. QED
    BY <1>1, <2>1, <2>2, <2>3
<1>4. ASSUME NEW n \in Nodes, Crash(n) PROVE OneEach'
  <2>1. Publishing' \subseteq Publishing
    BY <1>4 DEF Crash, Publishing
  <2>2. QED
    BY <1>2, <1>4, <2>1, CrashSets DEF Crash, Fault
<1>5. CASE RedisRestart
  BY <1>2, <1>5 DEF RedisRestart, Fault, clickVars, Counting, Publishing
<1>6. CASE RedisSnapshot \/ UNCHANGED vars
  BY <1>1, <1>6 DEF RedisSnapshot, vars, clickVars
<1>7. ASSUME NEW k \in Clicks, IncrementClickCount(k) PROVE OneEach'
  <2>1. TypeOK'
    BY TypeStep
  <2>2. faults' \in Nat
    BY <2>1, SizeAssumption DEF TypeOK
  <2>3. QED
    BY <1>7, <2>2, CounterOne
<1>8. QED
  BY <1>3, <1>4, <1>5, <1>6, <1>7, RedirectOne, PublishOne DEF Next

\* The entries up to d have one row each, the others none.
LEMMA OneRowEach ==
    ASSUME TypeOK, NEW d \in Nat, 1..d \subseteq Entries,
           \A i \in Entries : rows[i] = IF i <= d THEN 1 ELSE 0
    PROVE  TotalClicks = d
<1>1. UNION {{i} \X (1..rows[i]) : i \in Entries} = (1..d) \X {1}
  <2>1. ASSUME NEW i \in Entries, i <= d PROVE 1..rows[i] = {1} /\ i \in 1..d
    BY <2>1 DEF Entries
  <2>2. ASSUME NEW i \in Entries, ~(i <= d) PROVE 1..rows[i] = {} /\ i \notin 1..d
    BY <2>2
  <2>3. \A i \in 1..d : i \in Entries /\ i <= d
    OBVIOUS
  <2>4. \A i \in Entries : {i} \X (1..rows[i]) \subseteq (1..d) \X {1}
    BY <2>1, <2>2, Zenon
  <2>5. \A i \in 1..d : <<i, 1>> \in {i} \X (1..rows[i])
    BY <2>1, <2>3, Zenon
  <2>6. UNION {{i} \X (1..rows[i]) : i \in Entries} \subseteq (1..d) \X {1}
    BY <2>4, Zenon
  <2>7. ASSUME NEW z \in (1..d) \X {1}
        PROVE  z \in UNION {{i} \X (1..rows[i]) : i \in Entries}
    <3>1. PICK i \in 1..d : z = <<i, 1>>
      OBVIOUS
    <3>2. i \in Entries /\ z \in {i} \X (1..rows[i])
      BY <2>3, <2>5, <3>1, Zenon
    <3>3. QED
      BY <3>2, Zenon
  <2>8. QED
    BY <2>6, <2>7, Zenon
<1>2. IsFiniteSet(1..d) /\ Cardinality(1..d) = d
  BY FS_Interval
<1>3. IsFiniteSet({1}) /\ Cardinality({1}) = 1
  BY FS_Singleton
<1>4. Cardinality((1..d) \X {1}) = d * 1
  BY <1>2, <1>3, FS_Product
<1>5. d * 1 = d
  OBVIOUS
<1>6. QED
  BY <1>1, <1>4, <1>5, Zenon DEF TotalClicks

\* When everything is quiet and nothing has failed, click_count and the total of
\* the stats endpoint are the same number, however many processes shared the
\* stream and in whatever order goroutines and workers ran (url_repo.go:109,
\* clickhouse.go:83).
THEOREM CountsMeet == Spec => []CountsAgree
<1>1. Init => OneEach
  <2>1. SUFFICES ASSUME Init PROVE OneEach
    OBVIOUS
  <2>2. /\ Counting = {} /\ Redirected = {} /\ Publishing = {}
        /\ counter = 0 /\ Len(log) = 0 /\ redis.stream = {}
    BY <2>1 DEF Init, Redirected, Counting, Publishing, Empty
  <2>3. Stored = {}
    BY <2>2 DEF Stored
  <2>4. QED
    BY <2>1, <2>2, <2>3, FS_EmptySet DEF Init, OneEach
<1>2. IInv /\ OneEach /\ [Next]_vars => OneEach'
  BY OneEachStep DEF IInv
<1>3. IInv /\ OneEach => CountsAgree
  <2>1. SUFFICES ASSUME IInv, OneEach, Settled, faults = 0 PROVE counter = TotalClicks
    BY DEF CountsAgree
  <2> DEFINE d == Len(log)
  <2>2. Publishing = {} /\ Counting = {} /\ d \in Nat /\ Stored = 1..d
    BY <2>1 DEF Settled, Publishing, Counting, IInv, TypeOK, Stored
  <2>3. /\ counter + 0 = Cardinality(Redirected) /\ d + 0 = Cardinality(Redirected)
        /\ redis.stream = Stored /\ \A i \in Entries : again[i] = 0
    BY <2>1, <2>2, FS_EmptySet DEF OneEach
  <2>4. counter = d
    BY <2>1, <2>2, <2>3 DEF IInv, TypeOK
  <2>5. 1..d \subseteq Entries
    BY <2>1, <2>2, BatchFacts DEF IInv
  <2>6. \A i \in Entries : rows[i] = IF i <= d THEN 1 ELSE 0
    <3>1. ASSUME NEW i \in Entries
          PROVE  /\ rows[i] \in Nat /\ i \in Nat /\ i >= 1
                 /\ rows[i] + (IF Due(i) THEN 1 ELSE 0) <= 1
      <4>1. /\ rows[i] \in Nat /\ Cardinality(Inserting(i)) \in Nat
            /\ rows[i] + Cardinality(Inserting(i)) + (IF Due(i) THEN 1 ELSE 0) <= 1 + 0
        BY <2>1, <2>3, InsertingFinite DEF IInv, TypeOK, Budget
      <4>2. QED
        BY <4>1 DEF Entries
    <3>2. ASSUME NEW i \in Entries, i <= d PROVE rows[i] = 1
      <4>1. i \in redis.stream /\ i \notin Unread /\ i \notin redis.pending
        BY <2>1, <2>2, <2>3, <3>1, <3>2 DEF Settled
      <4>2. i <= redis.delivered
        BY <2>1, <3>1, <4>1 DEF Unread, IInv, TypeOK, Store
      <4>3. rows[i] >= 1
        BY <2>1, <4>1, <4>2 DEF IInv, ForgottenIsStored
      <4>4. QED
        BY <3>1, <4>3
    <3>3. ASSUME NEW i \in Entries, ~(i <= d) PROVE rows[i] = 0
      <4>1. Due(i)
        BY <2>2, <3>1, <3>3 DEF Due
      <4>2. QED
        BY <3>1, <4>1
    <3>4. QED
      BY <3>2, <3>3
  <2>7. TotalClicks = d
    BY <2>1, <2>2, <2>5, <2>6, OneRowEach DEF IInv
  <2>8. QED
    BY <2>4, <2>7
<1>4. QED
  BY <1>1, <1>2, <1>3, IInvHolds, PTL DEF Spec
=============================================================================
