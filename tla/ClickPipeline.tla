---------------------------- MODULE ClickPipeline ----------------------------
(***************************************************************************)
(* Click accounting in the Go API: every redirect starts two goroutines,   *)
(* one that adds to the row's click_count in Postgres and one that appends *)
(* an entry to the Redis stream stream:clicks; a worker in every process   *)
(* reads the stream as consumer group analytics_group, writes batches to   *)
(* ClickHouse and acknowledges them (url_handler.go, analytics_service.go, *)
(* stream.go, analytics_worker.go, clickhouse.go).                         *)
(*                                                                         *)
(* All clicks are on one short code.  Stream entries are numbered in the   *)
(* order of their Redis IDs; an entry that Redis loses leaves a gap.  The  *)
(* group has a pending list and remembers the last entry it delivered.     *)
(* What Redis comes back with after a restart or a failover is the image   *)
(* that its last snapshot, or its replica, has of it, or nothing.          *)
(***************************************************************************)
EXTENDS Integers, Sequences, FiniteSets

CONSTANTS
    Nodes,         \* API processes, each with a worker
    Clicks,        \* successful redirects
    NoNode,        \* where a redirect that has not happened was served
    BatchSize,     \* entries the worker asks for, 1000
    Attempts,      \* times the Redis client sends a command, 1 + MaxRetries
    DbAttempts,    \* times database/sql sends a statement, 3
    MaxEntries,    \* bound on the entries ever appended
    MaxFaults,     \* bound on the faults of a behaviour
    GroupCreated,  \* TRUE: an operator has run XGROUP CREATE, the code never does
    RedisFaults,   \* TRUE: Redis calls may fail, Redis may come back older or empty
    DbFaults,      \* TRUE: the UPDATE of click_count may fail, applied or not
    ChFaults,      \* TRUE: a ClickHouse insert may fail, applied or not
    Crashes        \* TRUE: a process may stop, or be shut down

VARIABLES
    home,        \* home[k]: the node that served click k, or NoNode
    counting,    \* counting[k]: attempts left to the goroutine that counts k
    resent,      \* history: the UPDATEs that were sent again
    publishing,  \* publishing[k]: attempts left to the goroutine that publishes k
    counter,     \* click_count of the row
    log,         \* history: the clicks appended to the stream, in order
    redis,       \* the stream's entries, the group, how far it has delivered,
                 \* and what is pending
    image,       \* what Redis would come back with
    again,       \* history: again[i]: how often Redis has forgotten delivering i
    worker,      \* worker[n]: what node n's worker does, and its batch
    rows,        \* rows[i]: the rows in ClickHouse that hold entry i
    faults       \* history: calls that failed, processes that stopped, restarts of Redis

clickVars == <<home, counting, resent, publishing, counter>>
vars == <<clickVars, log, redis, image, again, worker, rows, faults>>

ASSUME SizeAssumption ==
    /\ BatchSize \in Nat \ {0}
    /\ Attempts \in Nat \ {0}
    /\ DbAttempts \in Nat \ {0}
    /\ MaxEntries \in Nat
    /\ MaxFaults \in Nat
    /\ IsFiniteSet(Clicks) /\ IsFiniteSet(Nodes)
    /\ NoNode \notin Nodes
ASSUME SwitchAssumption ==
    {GroupCreated, RedisFaults, DbFaults, ChFaults, Crashes} \subseteq BOOLEAN

Entries == 1..MaxEntries

Idle == [at |-> "idle", batch |-> {}]

Stored == 1..Len(log)

Store == [stream: SUBSET Stored, group: BOOLEAN, delivered: 0..Len(log),
          pending: SUBSET Stored]

Empty == [stream |-> {}, group |-> FALSE, delivered |-> 0, pending |-> {}]

\* The types, and a worker has a batch exactly when it is busy with it.
TypeOK ==
    /\ home \in [Clicks -> Nodes \cup {NoNode}]
    /\ counting \in [Clicks -> 0..DbAttempts]
    /\ resent \in Nat
    /\ publishing \in [Clicks -> 0..Attempts]
    /\ counter \in Nat
    /\ log \in Seq(Clicks) /\ Len(log) <= MaxEntries
    /\ redis \in Store /\ image \in Store
    /\ again \in [Entries -> Nat]
    /\ worker \in [Nodes -> [at: {"idle", "insert", "ack"}, batch: SUBSET Stored]]
    /\ \A n \in Nodes : worker[n].at = "idle" <=> worker[n].batch = {}
    /\ rows \in [Entries -> Nat]
    /\ faults \in 0..MaxFaults

Init ==
    /\ home = [k \in Clicks |-> NoNode]
    /\ counting = [k \in Clicks |-> 0]
    /\ resent = 0
    /\ publishing = [k \in Clicks |-> 0]
    /\ counter = 0
    /\ log = <<>>
    /\ redis = [Empty EXCEPT !.group = GroupCreated]
    /\ image = Empty
    /\ again = [i \in Entries |-> 0]
    /\ worker = [n \in Nodes |-> Idle]
    /\ rows = [i \in Entries |-> 0]
    /\ faults = 0

\* What goes wrong is counted, for the bound and for the properties of behaviours
\* without faults.
Fault == faults < MaxFaults /\ faults' = faults + 1

-----------------------------------------------------------------------------
(* The redirect and its goroutines *)

Redirected == {k \in Clicks : home[k] # NoNode}

\* The clicks whose goroutine has yet to count them.
Counting == {k \in Clicks : counting[k] > 0}

\* The 302 goes out after the goroutines have been started.
Redirect(n, k) ==
    /\ home[k] = NoNode
    /\ home' = [home EXCEPT ![k] = n]
    /\ counting' = [counting EXCEPT ![k] = DbAttempts]
    /\ publishing' = [publishing EXCEPT ![k] = Attempts]
    /\ UNCHANGED <<resent, counter, log, redis, image, again, worker, rows, faults>>

\* A definition named after another one with a suffix is that operator with a
\* bug in it, which a property has to notice (README, "Mutants").
AfterDbError_Retry(k) == counting[k]
AfterDbError(k) == 0

\* One UPDATE, whose error is dropped.  When the driver reports a bad connection,
\* which may be after the commit, database/sql sends the statement again.
IncrementClickCount(k) ==
    /\ counting[k] > 0
    /\ \/ /\ counter' = counter + 1
          /\ counting' = [counting EXCEPT ![k] = 0]
          /\ UNCHANGED <<resent, faults>>
       \/ /\ DbFaults
          /\ Fault
          /\ counter' \in {counter, counter + 1}
          /\ \/ /\ counting' = [counting EXCEPT ![k] = AfterDbError(k)]
                /\ UNCHANGED resent
             \/ /\ counting[k] > 1
                /\ counting' = [counting EXCEPT ![k] = @ - 1]
                /\ resent' = resent + 1
    /\ UNCHANGED <<home, publishing, log, redis, image, again, worker, rows>>

XAdd(k) ==
    /\ Len(log) < MaxEntries
    /\ log' = Append(log, k)
    /\ redis' = [redis EXCEPT !.stream = @ \cup {Len(log) + 1}]

\* XADD: an attempt whose connection breaks, before or after Redis has executed
\* the command, is repeated by the client; the last error is logged only.
PublishClickEvent(k) ==
    /\ publishing[k] > 0
    /\ \/ /\ XAdd(k)
          /\ publishing' = [publishing EXCEPT ![k] = 0]
          /\ UNCHANGED faults
       \/ /\ RedisFaults
          /\ Fault
          /\ XAdd(k) \/ UNCHANGED <<log, redis>>
          /\ publishing' = [publishing EXCEPT ![k] = @ - 1]
       \/ /\ RedisFaults     \* the two seconds are over
          /\ Fault
          /\ UNCHANGED <<log, redis>>
          /\ publishing' = [publishing EXCEPT ![k] = 0]
    /\ UNCHANGED <<home, counting, resent, counter, image, again, worker, rows>>

-----------------------------------------------------------------------------
(* The worker *)

\* Entries that were never delivered to the group.
Unread == {i \in redis.stream : i > redis.delivered}

FirstOf(entries, n) ==
    {i \in entries : Cardinality({j \in entries : j <= i}) <= n}

\* XREADGROUP with ">": not what a consumer left pending.
Batch_WithPending == redis.pending \cup FirstOf(Unread, BatchSize)
Batch_Newest == {i \in Unread : \A j \in Unread : j <= i}
Batch == FirstOf(Unread, BatchSize)

\* Without the group, or with nothing new to read, the worker goes on waiting.
ReadClickEventsBatch(n) ==
    /\ worker[n].at = "idle"
    /\ redis.group
    /\ \E last \in Batch :
          /\ \A i \in Batch : i <= last
          /\ redis' = [redis EXCEPT !.delivered = last, !.pending = @ \cup Batch]
    /\ \/ /\ worker' = [worker EXCEPT ![n] = [at |-> "insert", batch |-> Batch]]
          /\ UNCHANGED faults
       \/ RedisFaults /\ Fault /\ UNCHANGED worker    \* the answer is lost
    /\ UNCHANGED <<clickVars, log, image, again, rows>>

Inserted(batch) == [i \in Entries |-> IF i \in batch THEN rows[i] + 1 ELSE rows[i]]

\* Where the worker goes on after an insert that returned an error.
AfterError_Ack(batch) == [at |-> "ack", batch |-> batch]
AfterError_Kept(batch) == [at |-> "idle", batch |-> batch]
AfterError(batch) == Idle

InsertClickBatch(n) ==
    LET batch == worker[n].batch IN
    /\ worker[n].at = "insert"
    /\ \/ /\ rows' = Inserted(batch)
          /\ worker' = [worker EXCEPT ![n] = [at |-> "ack", batch |-> batch]]
          /\ UNCHANGED faults
       \/ /\ ChFaults
          /\ Fault
          /\ rows' \in {rows, Inserted(batch)}
          /\ worker' = [worker EXCEPT ![n] = AfterError(batch)]
    /\ UNCHANGED <<clickVars, log, redis, image, again>>

Acked_First(batch) == redis.pending \ {i \in batch : \A j \in batch : i <= j}
Acked(batch) == redis.pending \ batch

\* XACK; a failed one leaves the batch pending for good.
AckClickEvents(n) ==
    /\ worker[n].at = "ack"
    /\ \/ /\ redis' = [redis EXCEPT !.pending = Acked(worker[n].batch)]
          /\ UNCHANGED faults
       \/ RedisFaults /\ Fault /\ UNCHANGED redis
    /\ worker' = [worker EXCEPT ![n] = Idle]
    /\ UNCHANGED <<clickVars, log, image, again, rows>>

-----------------------------------------------------------------------------
(* Faults *)

\* A process stops with its goroutines and its worker; a clean shutdown waits
\* for the HTTP handlers only.
Crash(n) ==
    /\ Crashes
    /\ Fault
    /\ counting' = [k \in Clicks |-> IF home[k] = n THEN 0 ELSE counting[k]]
    /\ publishing' = [k \in Clicks |-> IF home[k] = n THEN 0 ELSE publishing[k]]
    /\ worker' = [worker EXCEPT ![n] = Idle]
    /\ UNCHANGED <<home, resent, counter, log, redis, image, again, rows>>

\* A snapshot, or a replica that catches up.
RedisSnapshot ==
    /\ RedisFaults
    /\ faults < MaxFaults
    /\ image' = redis
    /\ UNCHANGED <<clickVars, log, redis, again, worker, rows, faults>>

\* Redis comes back with its image, or without its data: a stream without its
\* last entries, a group that has yet to deliver what it has delivered, entries
\* pending that have been acknowledged.
RedisRestart ==
    /\ RedisFaults
    /\ Fault
    /\ redis' \in {image, Empty}
    /\ image' = redis'
    /\ again' = [i \in Entries |->
                   IF i \in redis'.stream /\ redis'.delivered < i /\ i <= redis.delivered
                   THEN again[i] + 1 ELSE again[i]]
    /\ UNCHANGED <<clickVars, log, worker, rows>>

Work(n) ==
    \/ ReadClickEventsBatch(n) \/ InsertClickBatch(n) \/ AckClickEvents(n)

Next ==
    \/ \E k \in Clicks :
          \/ \E n \in Nodes : Redirect(n, k)
          \/ IncrementClickCount(k) \/ PublishClickEvent(k)
    \/ \E n \in Nodes : Work(n) \/ Crash(n)
    \/ RedisSnapshot \/ RedisRestart

Spec == Init /\ [][Next]_vars

\* Goroutines run, and the worker's ticker fires every second.
Fairness ==
    /\ \A k \in Clicks :
          WF_vars(IncrementClickCount(k)) /\ WF_vars(PublishClickEvent(k))
    /\ \A n \in Nodes : WF_vars(Work(n))

FairSpec == Spec /\ Fairness

-----------------------------------------------------------------------------
(* Properties *)

\* No entry is written to ClickHouse twice, although inserts fail without
\* saying whether they were applied, workers stop between the insert and the
\* XACK (analytics_worker.go:67-73) and all workers read under one name; but for
\* once more each time that Redis itself forgets that it delivered the entry.
StoredOnce == \A i \in Entries : rows[i] <= 1 + again[i]

\* The group forgets an entry only after it is in ClickHouse: what is delivered
\* and no longer pending has been stored, whatever calls failed in between, and
\* with whichever image Redis has come back.
ForgottenIsStored ==
    \A i \in redis.stream :
        i <= redis.delivered /\ i \notin redis.pending => rows[i] >= 1

\* Not to be delivered, and in no worker's hands: its reader is done with it, has
\* failed or has stopped, has never got the answer, or Redis has lost it.
LeftBehind(i) ==
    i \in Stored \ Unread /\ \A n \in Nodes : i \notin worker[n].batch

\* The group gives an entry to one reader, once: what that reader has left behind
\* nobody stores or acknowledges any more, however many workers share the
\* consumer's name (stream.go:34 reads new entries only), unless Redis forgets
\* the delivery.
NoSecondReader ==
    [][\A i \in Entries :
         LeftBehind(i) /\ again'[i] = again[i] =>
            /\ LeftBehind(i)'
            /\ rows'[i] = rows[i]
            /\ i \in redis.pending =>
                   i \in redis'.pending \/ i \notin redis'.stream]_vars

\* click_count, with the increments under way, exceeds the redirects answered
\* ("Count only successful redirects", url_handler.go:63) by no more than the
\* UPDATEs that database/sql has sent again.
CountNotAbove ==
    counter + Cardinality(Counting) <= Cardinality(Redirected) + resent

\* GetStatsByShortCode: SELECT count() of the code's rows.
TotalClicks == Cardinality(UNION {{i} \X (1..rows[i]) : i \in Entries})

\* When no redirect, goroutine or batch is under way, the two counts that
\* clients see, click_count in the list of links (url_repo.go:109) and the total
\* of the stats endpoint (clickhouse.go:83), agree: faults aside.
Settled ==
    /\ \A k \in Clicks : counting[k] = 0 /\ publishing[k] = 0
    /\ Unread = {} /\ redis.pending = {}
CountsAgree == Settled /\ faults = 0 => counter = TotalClicks

\* Every redirect's click gets to ClickHouse: what "asynchronous analytics" is
\* for (README.md:68).
ClickStored(k) == \E i \in 1..Len(log) : log[i] = k /\ rows[i] > 0
ClicksStored == \A k \in Clicks : (k \in Redirected) ~> (ClickStored(k) \/ faults > 0)

\* A click gets its one increment and its row, and leaves nothing pending: the
\* pipeline drains (analytics_worker.go:51).
Drains == (Redirected # {}) ~> ((Settled /\ counter = Cardinality(Redirected)) \/ faults > 0)
=============================================================================
