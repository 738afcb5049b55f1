---------------------------- MODULE EngineClicks ----------------------------
(***************************************************************************)
(* Click accounting in the Python engine (main.py and nanolink_core.py):   *)
(* a redirect appends its click to a list in the process's memory, then    *)
(* counts it in the link's row, then answers; a background thread moves    *)
(* the list, a batch at a time, to the table click_events.  All clicks are *)
(* on one link.                                                            *)
(*                                                                         *)
(* Order and failure are not those of the Go API (ClickPipeline): the      *)
(* click is published before it is counted, a failed count is a 500, and   *)
(* an SQL error ends the background thread for good, as nobody catches it. *)
(***************************************************************************)
EXTENDS Integers, Sequences, FiniteSets, SequencesExt

CONSTANTS
    Clicks,      \* requests that find the link
    BatchSize,   \* events the thread takes at once, 1000
    SqlFaults,   \* TRUE: a write to SQLite may fail ("database is locked")
    Restarts     \* TRUE: the process may stop and start again

VARIABLES
    at,          \* at[k]: where the request of click k is
    counter,     \* click_count of the row
    stream,      \* StorageManager.streams: the events, oldest first
    worker,      \* what the background thread does, and the batch it holds
    rows,        \* rows[k]: the rows of click_events for click k
    lost,        \* history: the clicks whose events are gone unstored
    stats        \* the last stats request, with what was true when it came in

vars == <<at, counter, stream, worker, rows, lost, stats>>

ASSUME SizeAssumption ==
    /\ BatchSize \in Nat \ {0}
    /\ IsFiniteSet(Clicks)
ASSUME SwitchAssumption == {SqlFaults, Restarts} \subseteq BOOLEAN

Published == {k \in Clicks : at[k] \notin {"new", "publish"}}
Answered == {k \in Clicks : at[k] = "302"}

Sleeping == [at |-> "sleep", batch |-> <<>>]

\* The types of the variables.
TypeOK ==
    /\ at \in [Clicks -> {"new", "publish", "count", "302", "500"}]
    /\ counter \in 0..Cardinality(Clicks)
    /\ stream \in Seq(Clicks)
    /\ worker \in [at: {"sleep", "slice", "write", "dead"}, batch: Seq(Clicks)]
    /\ Len(worker.batch) <= BatchSize
    /\ rows \in [Clicks -> Nat]
    /\ lost \in SUBSET Clicks
    /\ stats \in [at: {"none", "total", "200"}, total: Nat,
                  before: SUBSET Clicks]

Init ==
    /\ at = [k \in Clicks |-> "new"]
    /\ counter = 0
    /\ stream = <<>>
    /\ worker = Sleeping
    /\ rows = [k \in Clicks |-> 0]
    /\ lost = {}
    /\ stats = [at |-> "none", total |-> 0, before |-> {}]

-----------------------------------------------------------------------------
(* The redirect, after it has found the link *)

Redirect(k) ==
    /\ at[k] = "new"
    /\ at' = [at EXCEPT ![k] = "publish"]
    /\ UNCHANGED <<counter, stream, worker, rows, lost, stats>>

\* stream_lock: the background thread holds it between the slices of a pop.
Unlocked_Always == TRUE
Unlocked == worker.at # "slice"

\* publish_click_stream
PublishClickStream(k) ==
    /\ at[k] = "publish"
    /\ Unlocked
    /\ stream' = Append(stream, k)
    /\ at' = [at EXCEPT ![k] = "count"]
    /\ UNCHANGED <<counter, worker, rows, lost, stats>>

\* A definition named after another one with a suffix is that operator with a
\* bug in it, which a property has to notice (README, "Mutants").
ReplyAfterError_Redirect == "302"
ReplyAfterError == "500"

\* UPDATE and COMMIT.  Their error is the answer; the event stays published.
CountClick(k) ==
    /\ at[k] = "count"
    /\ \/ /\ counter' = counter + 1
          /\ at' = [at EXCEPT ![k] = "302"]
       \/ /\ SqlFaults
          /\ at' = [at EXCEPT ![k] = ReplyAfterError]
          /\ UNCHANGED counter
    /\ UNCHANGED <<stream, worker, rows, lost, stats>>

-----------------------------------------------------------------------------
(* The background thread *)

BatchOf_More(s) == IF Len(s) <= BatchSize THEN s ELSE SubSeq(s, 1, BatchSize + 1)
BatchOf(s) == IF Len(s) <= BatchSize THEN s ELSE SubSeq(s, 1, BatchSize)

Ready_FullBatch == Len(stream) >= BatchSize
Ready == stream # <<>>

\* pop_stream_batch takes stream_lock and copies streams[:batch_size]; an empty
\* batch sends the thread back to sleep.
CopyBatch ==
    /\ worker.at = "sleep"
    /\ Ready
    /\ worker' = [at |-> "slice", batch |-> BatchOf(stream)]
    /\ UNCHANGED <<at, counter, stream, rows, lost, stats>>

\* streams = streams[batch_size:], and the lock is free.
DropBatch ==
    /\ worker.at = "slice"
    /\ stream' = SubSeq(stream, BatchSize + 1, Len(stream))
    /\ worker' = [worker EXCEPT !.at = "write"]
    /\ UNCHANGED <<at, counter, rows, lost, stats>>

\* The INSERTs of a batch are one transaction.  An error ends the thread, and
\* the batch with it.
WriteBatch ==
    /\ worker.at = "write"
    /\ \/ /\ rows' = [k \in Clicks |-> IF k \in ToSet(worker.batch)
                                       THEN rows[k] + 1 ELSE rows[k]]
          /\ worker' = Sleeping
          /\ UNCHANGED lost
       \/ /\ SqlFaults
          /\ lost' = lost \cup ToSet(worker.batch)
          /\ worker' = [at |-> "dead", batch |-> <<>>]
          /\ UNCHANGED rows
    /\ UNCHANGED <<at, counter, stream, stats>>

-----------------------------------------------------------------------------
(* The stats endpoint *)

StatsStart ==
    /\ stats.at # "total"
    /\ stats' = [at |-> "total", total |-> 0, before |-> Answered]
    /\ UNCHANGED <<at, counter, stream, worker, rows, lost>>

\* total_clicks is the row's click_count; the breakdowns are read after it.
GetUrlStats ==
    /\ stats.at = "total"
    /\ stats' = [stats EXCEPT !.at = "200", !.total = counter]
    /\ UNCHANGED <<at, counter, stream, worker, rows, lost>>

-----------------------------------------------------------------------------

\* A new process: no events, a new thread; the database is a file.  Requests
\* under way break off, and one that has published nothing may come again.
Restart ==
    /\ Restarts
    /\ lost' = lost \cup ToSet(stream) \cup ToSet(worker.batch)
    /\ stream' = <<>>
    /\ worker' = Sleeping
    /\ at' = [k \in Clicks |-> CASE at[k] = "publish" -> "new"
                                [] at[k] = "count" -> "500"
                                [] OTHER -> at[k]]
    /\ stats' = [stats EXCEPT !.at = "none"]
    /\ UNCHANGED <<counter, rows>>

Work == CopyBatch \/ DropBatch \/ WriteBatch

Next ==
    \/ \E k \in Clicks : Redirect(k) \/ PublishClickStream(k) \/ CountClick(k)
    \/ Work
    \/ StatsStart \/ GetUrlStats
    \/ Restart

Spec == Init /\ [][Next]_vars

\* The thread wakes up every fifth of a second.
FairSpec == Spec /\ WF_vars(Work)

-----------------------------------------------------------------------------
(* Properties *)

Occurs(k, s) == Cardinality({i \in 1..Len(s) : s[i] = k})

\* A published event is in one place: in the list, in the thread's batch, in
\* click_events, or lost with a process or a failed transaction.  It is never
\* stored twice and never dropped between the two slices of a pop, whatever
\* fails (nanolink_core.py:223-227 and 244-270).
InOnePlace ==
    \A k \in Clicks :
        Occurs(k, stream) + rows[k]
            + (IF worker.at = "write" THEN Occurs(k, worker.batch) ELSE 0)
            + (IF k \in lost THEN 1 ELSE 0)
        = IF k \in Published THEN 1 ELSE 0

\* A client that asks for the stats after its redirects were answered finds all
\* of them counted ("total_clicks" of test_nanolink.py:158), although SQLite
\* fails and processes restart, and never more clicks than were published.
TotalFresh ==
    stats.at = "200" =>
        /\ Cardinality(stats.before) <= stats.total
        /\ stats.total <= Cardinality(Published)

\* A published event is stored in the end, or lost with its process, as long as
\* the background thread lives, which an SQL error ends (nanolink_core.py:251).
EventSettles ==
    \A k \in Clicks :
        (k \in Published) ~> (rows[k] = 1 \/ k \in lost \/ worker.at = "dead")
=============================================================================
