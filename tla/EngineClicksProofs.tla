------------------------- MODULE EngineClicksProofs -------------------------
(***************************************************************************)
(* Proofs about EngineClicks, for every number of clicks and every batch   *)
(* size, with faults and restarts switched on or off.                      *)
(***************************************************************************)
EXTENDS EngineClicks, FiniteSetTheorems, TLAPS

-----------------------------------------------------------------------------
(* Lists *)

\* No event is in a list twice.
Distinct(s) == \A i, j \in 1..Len(s) : s[i] = s[j] => i = j

LEMMA InToSet ==
    ASSUME NEW s \in Seq(Clicks), NEW k
    PROVE  k \in ToSet(s) <=> \E i \in 1..Len(s) : s[i] = k
BY DEF ToSet

LEMMA ToSetType ==
    ASSUME NEW s \in Seq(Clicks)
    PROVE  ToSet(s) \subseteq Clicks
<1>1. \A i \in 1..Len(s) : s[i] \in Clicks
  OBVIOUS
<1>2. QED
  BY <1>1, InToSet

LEMMA EmptyList == ToSet(<<>>) = {} /\ Distinct(<<>>) /\ <<>> \in Seq(Clicks)
BY DEF ToSet, Distinct

LEMMA Appended ==
    ASSUME NEW s \in Seq(Clicks), NEW k \in Clicks
    PROVE  /\ Append(s, k) \in Seq(Clicks)
           /\ \A j : j \in ToSet(Append(s, k)) <=> j \in ToSet(s) \/ j = k
           /\ Distinct(s) /\ k \notin ToSet(s) => Distinct(Append(s, k))
<1> DEFINE t == Append(s, k)
<1>1. /\ t \in Seq(Clicks) /\ Len(t) = Len(s) + 1 /\ t[Len(s) + 1] = k
      /\ \A i \in 1..Len(s) : t[i] = s[i]
  OBVIOUS
<1> HIDE DEF t
<1>2. Len(s) \in Nat
  OBVIOUS
<1>3. \A j : j \in ToSet(t) <=> j \in ToSet(s) \/ j = k
  BY <1>1, <1>2, InToSet
<1>4. ASSUME Distinct(s), k \notin ToSet(s) PROVE Distinct(t)
  BY <1>1, <1>2, <1>4, InToSet DEF Distinct
<1>5. QED
  BY <1>1, <1>3, <1>4 DEF t

\* Cutting a list in two.
FirstOf(s, n) == SubSeq(s, 1, n)
RestOf(s, n) == SubSeq(s, n + 1, Len(s))

LEMMA Cut ==
    ASSUME NEW s \in Seq(Clicks), NEW n \in Nat, n <= Len(s), Distinct(s)
    PROVE  /\ FirstOf(s, n) \in Seq(Clicks) /\ RestOf(s, n) \in Seq(Clicks)
           /\ Len(FirstOf(s, n)) = n
           /\ Distinct(FirstOf(s, n)) /\ Distinct(RestOf(s, n))
           /\ ToSet(FirstOf(s, n)) \cap ToSet(RestOf(s, n)) = {}
           /\ ToSet(s) = ToSet(FirstOf(s, n)) \cup ToSet(RestOf(s, n))
<1> DEFINE f == FirstOf(s, n)
           g == RestOf(s, n)
<1>0. Len(s) \in Nat
  OBVIOUS
<1>1. /\ f \in Seq(Clicks) /\ Len(f) = n
      /\ \A i \in 1..n : f[i] = s[i]
  BY <1>0 DEF FirstOf
<1>2. /\ g \in Seq(Clicks) /\ Len(g) = Len(s) - n
      /\ \A i \in 1..(Len(s) - n) : g[i] = s[n + i]
  BY <1>0 DEF RestOf
<1> HIDE DEF f, g
<1>3. Distinct(f)
  BY <1>0, <1>1 DEF Distinct
<1>4. Distinct(g)
  <2>1. SUFFICES ASSUME NEW i \in 1..(Len(s) - n), NEW j \in 1..(Len(s) - n),
                        g[i] = g[j]
                 PROVE  i = j
    BY <1>2 DEF Distinct
  <2>2. /\ n + i \in 1..Len(s) /\ n + j \in 1..Len(s)
        /\ g[i] = s[n + i] /\ g[j] = s[n + j]
    <3>1. n + i \in 1..Len(s) /\ n + j \in 1..Len(s)
      BY <1>0
    <3>2. g[i] = s[n + i] /\ g[j] = s[n + j]
      BY <1>2
    <3>3. QED
      BY <3>1, <3>2
  <2>3. n + i = n + j
    BY <2>1, <2>2 DEF Distinct
  <2>4. QED
    BY <1>0, <2>3
<1>5. ToSet(f) \cap ToSet(g) = {}
  <2>1. SUFFICES ASSUME NEW i \in 1..n, NEW j \in 1..(Len(s) - n), f[i] = g[j]
                 PROVE  FALSE
    BY <1>1, <1>2, InToSet
  <2>2. s[i] = s[n + j] /\ i \in 1..Len(s) /\ n + j \in 1..Len(s) /\ i # n + j
    BY <1>0, <1>1, <1>2, <2>1
  <2>3. QED
    BY <2>2 DEF Distinct
<1>6. ASSUME NEW k PROVE k \in ToSet(s) <=> k \in ToSet(f) \/ k \in ToSet(g)
  <2>1. ASSUME NEW i \in 1..Len(s)
        PROVE  s[i] \in ToSet(f) \/ s[i] \in ToSet(g)
    <3>1. CASE i <= n
      BY <1>0, <1>1, <3>1, InToSet
    <3>2. CASE i > n
      <4>1. i - n \in 1..(Len(s) - n) /\ n + (i - n) = i
        BY <1>0, <3>2
      <4>2. g[i - n] = s[i]
        BY <1>2, <4>1
      <4>3. QED
        BY <1>2, <4>1, <4>2, InToSet
    <3>3. QED
      BY <1>0, <3>1, <3>2
  <2>2. ASSUME NEW i \in 1..n PROVE f[i] \in ToSet(s)
    BY <1>0, <1>1, InToSet
  <2>3. ASSUME NEW i \in 1..(Len(s) - n) PROVE g[i] \in ToSet(s)
    <3>1. n + i \in 1..Len(s)
      BY <1>0
    <3>2. QED
      BY <1>2, <3>1, InToSet
  <2>4. k \in ToSet(s) => k \in ToSet(f) \/ k \in ToSet(g)
    BY <2>1, InToSet
  <2>5. k \in ToSet(f) => k \in ToSet(s)
    BY <1>1, <2>2, InToSet
  <2>6. k \in ToSet(g) => k \in ToSet(s)
    BY <1>2, <2>3, InToSet
  <2>7. QED
    BY <2>4, <2>5, <2>6
<1>7. QED
  BY <1>1, <1>2, <1>3, <1>4, <1>5, <1>6 DEF f, g

\* A pop takes the front of the list, all of it if the batch is large enough.
LEMMA Popped ==
    ASSUME NEW s \in Seq(Clicks), Distinct(s)
    PROVE  LET rest == SubSeq(s, BatchSize + 1, Len(s))
           IN  /\ BatchOf(s) \in Seq(Clicks) /\ rest \in Seq(Clicks)
               /\ Len(BatchOf(s)) <= BatchSize
               /\ Distinct(BatchOf(s)) /\ Distinct(rest)
               /\ ToSet(BatchOf(s)) \cap ToSet(rest) = {}
               /\ ToSet(s) = ToSet(BatchOf(s)) \cup ToSet(rest)
<1>0. Len(s) \in Nat /\ BatchSize \in Nat
  BY SizeAssumption
<1>1. CASE Len(s) <= BatchSize
  <2>1. SubSeq(s, BatchSize + 1, Len(s)) = <<>>
    BY <1>0, <1>1
  <2>2. QED
    BY <1>0, <1>1, <2>1, EmptyList DEF BatchOf
<1>2. CASE ~(Len(s) <= BatchSize)
  BY <1>0, <1>2, Cut DEF BatchOf, FirstOf, RestOf
<1>3. QED
  BY <1>1, <1>2

\* How often an event occurs in a list without repetitions.
LEMMA OccursOnce ==
    ASSUME NEW s \in Seq(Clicks), Distinct(s), NEW k
    PROVE  Occurs(k, s) = IF k \in ToSet(s) THEN 1 ELSE 0
<1> DEFINE P == {i \in 1..Len(s) : s[i] = k}
<1>1. CASE k \in ToSet(s)
  <2>1. PICK i \in 1..Len(s) : s[i] = k
    BY <1>1, InToSet
  <2>2. P = {i}
    BY <2>1 DEF Distinct
  <2>3. QED
    BY <1>1, <2>2, FS_Singleton DEF Occurs
<1>2. CASE k \notin ToSet(s)
  <2>1. P = {}
    BY <1>2, InToSet
  <2>2. QED
    BY <1>2, <2>1, FS_EmptySet DEF Occurs
<1>3. QED
  BY <1>1, <1>2

-----------------------------------------------------------------------------
(* Where the events are *)

Rows(k) == rows[k] = 1
InStream(k) == k \in ToSet(stream)
InBatch(k) == worker.at = "write" /\ k \in ToSet(worker.batch)
IsLost(k) == k \in lost

\* A published event is in exactly one place, and the others are in none.
PlaceAt(k) ==
    /\ rows[k] \in {0, 1}
    /\ k \in Published <=> InStream(k) \/ InBatch(k) \/ Rows(k) \/ IsLost(k)
    /\ InStream(k) => ~InBatch(k) /\ ~Rows(k) /\ ~IsLost(k)
    /\ InBatch(k) => ~Rows(k) /\ ~IsLost(k)
    /\ Rows(k) => ~IsLost(k)

\* While the thread holds the lock, its batch is the front of the list.
Places ==
    /\ Distinct(stream) /\ Distinct(worker.batch)
    /\ worker.at = "slice" => worker.batch = BatchOf(stream)
    /\ worker.at \in {"sleep", "dead"} => worker.batch = <<>>
    /\ \A k \in Clicks : PlaceAt(k)

\* The counter is the number of redirects answered.
Counted ==
    /\ counter = Cardinality(Answered)
    /\ stats.before \subseteq Answered
    /\ stats.at = "200" =>
          /\ Cardinality(stats.before) <= stats.total
          /\ stats.total <= Cardinality(Published)

\* TypeOK without the bound on the counter, which follows from Counted.
Types ==
    /\ at \in [Clicks -> {"new", "publish", "count", "302", "500"}]
    /\ stream \in Seq(Clicks)
    /\ worker \in [at: {"sleep", "slice", "write", "dead"}, batch: Seq(Clicks)]
    /\ Len(worker.batch) <= BatchSize
    /\ rows \in [Clicks -> Nat]
    /\ lost \in SUBSET Clicks
    /\ stats \in [at: {"none", "total", "200"}, total: Nat,
                  before: SUBSET Clicks]

LEMMA SubsetCounts ==
    ASSUME NEW S \in SUBSET Clicks, NEW T \in SUBSET S
    PROVE  /\ IsFiniteSet(S) /\ Cardinality(S) \in Nat /\ Cardinality(T) \in Nat
           /\ Cardinality(T) <= Cardinality(S)
<1>1. IsFiniteSet(S)
  BY SizeAssumption, FS_Subset
<1>2. IsFiniteSet(T) /\ Cardinality(T) <= Cardinality(S)
  BY <1>1, FS_Subset
<1>3. QED
  BY <1>1, <1>2, FS_CardinalityType

LEMMA CountsStep ==
    ASSUME Types, Counted, [Next]_vars
    PROVE  Counted'
<1>1. Answered \subseteq Answered' /\ Published \subseteq Published'
  BY DEF Types, Answered, Published, Next, Redirect, PublishClickStream, CountClick,
     ReplyAfterError, Work, CopyBatch, DropBatch, WriteBatch, StatsStart,
     GetUrlStats, Restart, vars
<1>2. /\ IsFiniteSet(Answered) /\ Answered' \subseteq Clicks /\ Published' \subseteq Clicks
      /\ Answered \subseteq Published /\ Published \subseteq Clicks /\ Answered \subseteq Clicks
      /\ stats.before \subseteq Clicks
  BY SubsetCounts DEF Answered, Published, Types
<1>3. /\ Cardinality(Published) <= Cardinality(Published)'
      /\ Cardinality(Answered) <= Cardinality(Published)
      /\ Cardinality(stats.before) <= Cardinality(Answered)
      /\ {Cardinality(Published), Cardinality(Published)', Cardinality(Answered),
          Cardinality(stats.before)} \subseteq Nat
  BY <1>1, <1>2, SubsetCounts DEF Counted
<1>4. counter' = Cardinality(Answered)'
  <2>1. ASSUME NEW k \in Clicks, CountClick(k)
        PROVE  counter' = Cardinality(Answered)'
    <3>1. k \notin Answered
      BY <2>1 DEF CountClick, Answered
    <3>2. CASE counter' = counter + 1 /\ at' = [at EXCEPT ![k] = "302"]
      <4>1. Answered' = Answered \cup {k}
        BY <3>2 DEF Answered, Types
      <4>2. QED
        BY <1>2, <3>1, <3>2, <4>1, FS_AddElement DEF Counted
    <3>3. CASE counter' = counter /\ at' = [at EXCEPT ![k] = "500"]
      <4>1. Answered' = Answered
        BY <2>1, <3>3 DEF Answered, Types, CountClick
      <4>2. QED
        BY <3>3, <4>1 DEF Counted
    <3>4. QED
      BY <2>1, <3>2, <3>3 DEF CountClick, ReplyAfterError
  <2>2. ASSUME NEW k \in Clicks, Redirect(k) \/ PublishClickStream(k)
        PROVE  counter' = counter /\ Answered' = Answered
    BY <2>2 DEF Redirect, PublishClickStream, Answered, Types
  <2>3. CASE Restart
    BY <2>3 DEF Restart, Answered, Counted, Types
  <2>4. CASE UNCHANGED <<at, counter>>
    BY <2>4 DEF Answered, Counted
  <2>5. QED
    BY <2>1, <2>2, <2>3, <2>4 DEF Next, Work, CopyBatch, DropBatch, WriteBatch,
       StatsStart, GetUrlStats, vars, Counted
<1>5. CASE StatsStart
  BY <1>1, <1>4, <1>5 DEF StatsStart, Counted
<1>6. CASE GetUrlStats
  <2>1. /\ stats'.before = stats.before /\ stats'.total = Cardinality(Answered)
        /\ UNCHANGED at
    BY <1>6 DEF GetUrlStats, Types, Counted
  <2>2. QED
    BY <1>1, <1>3, <1>4, <2>1 DEF Counted
<1>7. CASE Restart
  BY <1>1, <1>4, <1>7 DEF Restart, Counted, Types
<1>8. CASE UNCHANGED stats
  BY <1>1, <1>3, <1>4, <1>8 DEF Counted, Types
<1>9. QED
  BY <1>5, <1>6, <1>7, <1>8 DEF Next, Redirect, PublishClickStream, CountClick,
     Work, CopyBatch, DropBatch, WriteBatch, vars

LEMMA TypesStep ==
    ASSUME Types, Places, Counted, [Next]_vars
    PROVE  Types'
<1>1. CASE \E k \in Clicks : Redirect(k) \/ CountClick(k)
  BY <1>1 DEF Redirect, CountClick, ReplyAfterError, Types
<1>2. ASSUME NEW k \in Clicks, PublishClickStream(k) PROVE Types'
  BY <1>2, Appended DEF PublishClickStream, Types
<1>3. CASE CopyBatch
  BY <1>3, Popped DEF CopyBatch, Types, Places
<1>4. CASE DropBatch
  <2>1. stream' \in Seq(Clicks)
    BY <1>4, Popped DEF DropBatch, Types, Places
  <2>2. QED
    BY <1>4, <2>1 DEF DropBatch, Types
<1>5. CASE WriteBatch
  <2>1. worker' \in [at: {"sleep", "slice", "write", "dead"}, batch: Seq(Clicks)]
        /\ Len(worker'.batch) <= BatchSize
    <3>1. worker' = [at |-> "sleep", batch |-> <<>>] \/ worker' = [at |-> "dead", batch |-> <<>>]
      BY <1>5 DEF WriteBatch, Sleeping
    <3>2. Len(<<>>) <= BatchSize /\ <<>> \in Seq(Clicks)
      BY SizeAssumption, EmptyList
    <3>3. CASE worker' = [at |-> "sleep", batch |-> <<>>]
      BY <3>2, <3>3
    <3>4. CASE worker' = [at |-> "dead", batch |-> <<>>]
      BY <3>2, <3>4
    <3>5. QED
      BY <3>1, <3>3, <3>4
  <2>2. ToSet(worker.batch) \subseteq Clicks
    BY ToSetType DEF Types
  <2>3. rows' \in [Clicks -> Nat] /\ lost' \in SUBSET Clicks
    BY <1>5, <2>2 DEF WriteBatch, Types
  <2>4. QED
    BY <1>5, <2>1, <2>3 DEF WriteBatch, Types
<1>6. CASE StatsStart
  BY <1>6 DEF StatsStart, Answered, Types
<1>7. CASE GetUrlStats
  <2>1. counter \in Nat
    BY SubsetCounts DEF Counted, Answered
  <2>2. stats' \in [at: {"none", "total", "200"}, total: Nat, before: SUBSET Clicks]
    BY <1>7, <2>1 DEF GetUrlStats, Types
  <2>3. QED
    BY <1>7, <2>2 DEF GetUrlStats, Types
<1>8. CASE Restart
  <2>1. worker' \in [at: {"sleep", "slice", "write", "dead"}, batch: Seq(Clicks)]
        /\ Len(worker'.batch) <= BatchSize /\ stream' \in Seq(Clicks)
    BY <1>8, SizeAssumption, EmptyList DEF Restart, Sleeping
  <2>2. ToSet(worker.batch) \subseteq Clicks /\ ToSet(stream) \subseteq Clicks
    BY ToSetType DEF Types
  <2>3. lost' \in SUBSET Clicks
    BY <1>8, <2>2 DEF Restart, Types
  <2>4. at' \in [Clicks -> {"new", "publish", "count", "302", "500"}]
    BY <1>8 DEF Restart, Types
  <2>5. QED
    BY <1>8, <2>1, <2>3, <2>4 DEF Restart, Types
<1>9. CASE UNCHANGED vars
  BY <1>9 DEF vars, Types
<1>10. QED
  BY <1>1, <1>2, <1>3, <1>4, <1>5, <1>6, <1>7, <1>8, <1>9 DEF Next, Work

LEMMA PlacesStep ==
    ASSUME Types, Places, [Next]_vars
    PROVE  Places'
<1> DEFINE Lists == /\ Distinct(stream) /\ Distinct(worker.batch)
                    /\ worker.at = "slice" => worker.batch = BatchOf(stream)
                    /\ worker.at \in {"sleep", "dead"} => worker.batch = <<>>
<1>1. ASSUME NEW k \in Clicks, PublishClickStream(k) PROVE Places'
  <2>1. /\ k \notin Published /\ Published' = Published \cup {k}
        /\ worker.at # "slice"
    BY <1>1 DEF PublishClickStream, Unlocked, Published, Types
  <2>2. k \notin ToSet(stream)
    BY <2>1 DEF Places, PlaceAt, InStream
  <2>3. /\ stream' = Append(stream, k) /\ Distinct(stream')
        /\ \A j : j \in ToSet(stream') <=> j \in ToSet(stream) \/ j = k
    BY <1>1, <2>2, Appended DEF PublishClickStream, Types, Places
  <2>4. UNCHANGED <<worker, rows, lost>>
    BY <1>1 DEF PublishClickStream
  <2>5. \A j \in Clicks : PlaceAt(j)'
    BY <2>1, <2>3, <2>4 DEF Places, PlaceAt, InStream, InBatch, Rows, IsLost
  <2>6. QED
    BY <2>1, <2>3, <2>4, <2>5 DEF Places
<1>2. ASSUME UNCHANGED <<stream, worker, rows, lost>>, Published' = Published
      PROVE  Places'
  BY <1>2 DEF Places, PlaceAt, InStream, InBatch, Rows, IsLost
<1>3. ASSUME NEW k \in Clicks, Redirect(k) \/ CountClick(k) PROVE Places'
  <2>1. Published' = Published
    BY <1>3 DEF Redirect, CountClick, ReplyAfterError, Published, Types
  <2>2. QED
    BY <1>2, <1>3, <2>1 DEF Redirect, CountClick
<1>4. CASE CopyBatch
  <2>1. worker' = [at |-> "slice", batch |-> BatchOf(stream)] /\ worker.at = "sleep"
        /\ UNCHANGED <<stream, rows, lost, at>>
    BY <1>4 DEF CopyBatch
  <2>2. Distinct(worker'.batch)
    BY <2>1, Popped DEF Types, Places
  <2>3. \A j \in Clicks : PlaceAt(j)'
    BY <2>1 DEF Places, PlaceAt, InStream, InBatch, Rows, IsLost, Published
  <2>4. QED
    BY <2>1, <2>2, <2>3 DEF Places
<1>5. CASE DropBatch
  <2>1. /\ stream' = SubSeq(stream, BatchSize + 1, Len(stream))
        /\ worker.at = "slice" /\ worker'.at = "write" /\ worker'.batch = worker.batch
        /\ worker.batch = BatchOf(stream)
        /\ UNCHANGED <<at, rows, lost>>
    BY <1>5 DEF DropBatch, Types, Places
  <2>2. /\ Distinct(stream')
        /\ ToSet(worker.batch) \cap ToSet(stream') = {}
        /\ ToSet(stream) = ToSet(worker.batch) \cup ToSet(stream')
    BY <2>1, Popped DEF Types, Places
  <2>3. \A j \in Clicks : PlaceAt(j)'
    BY <2>1, <2>2 DEF Places, PlaceAt, InStream, InBatch, Rows, IsLost, Published
  <2>4. QED
    BY <2>1, <2>2, <2>3 DEF Places
<1>6. CASE WriteBatch
  <2>1. /\ worker.at = "write" /\ worker'.at \in {"sleep", "dead"} /\ worker'.batch = <<>>
        /\ UNCHANGED <<at, stream>>
        /\ \/ /\ \A j \in Clicks : rows'[j] = IF j \in ToSet(worker.batch)
                                              THEN rows[j] + 1 ELSE rows[j]
              /\ lost' = lost
           \/ /\ lost' = lost \cup ToSet(worker.batch)
              /\ rows' = rows
    BY <1>6 DEF WriteBatch, Sleeping
  <2>2. \A j \in Clicks : PlaceAt(j)'
    BY <2>1 DEF Places, PlaceAt, InStream, InBatch, Rows, IsLost, Published
  <2>3. QED
    BY <2>1, <2>2, EmptyList DEF Places
<1>7. CASE Restart
  <2>1. /\ worker'.at = "sleep" /\ worker'.batch = <<>> /\ stream' = <<>>
        /\ lost' = lost \cup ToSet(stream) \cup ToSet(worker.batch)
        /\ rows' = rows
    BY <1>7 DEF Restart, Sleeping
  <2>2. Published' = Published
    BY <1>7 DEF Restart, Published, Types
  \* The batch is in the list still, in the thread's hands, or empty.
  <2>3. ToSet(worker.batch) \subseteq ToSet(stream) \/ worker.at = "write"
    <3>1. CASE worker.at = "slice"
      BY <3>1, Popped DEF Types, Places
    <3>2. CASE worker.at \in {"sleep", "dead"}
      BY <3>2, EmptyList DEF Places
    <3>3. QED
      BY <3>1, <3>2 DEF Types
  <2>4. \A j \in Clicks : PlaceAt(j)'
    BY <2>1, <2>2, <2>3, EmptyList DEF Places, PlaceAt, InStream, InBatch, Rows, IsLost
  <2>5. QED
    BY <2>1, <2>4, EmptyList DEF Places
<1>8. CASE UNCHANGED <<at, stream, worker, rows, lost>>
  BY <1>2, <1>8 DEF Published
<1>9. QED
  BY <1>1, <1>3, <1>4, <1>5, <1>6, <1>7, <1>8 DEF Next, Work, StatsStart,
     GetUrlStats, vars

-----------------------------------------------------------------------------
(* The theorems *)

IInv == Types /\ Places /\ Counted

LEMMA Invariance == Spec => []IInv
<1>1. Init => IInv
  <2>1. SUFFICES ASSUME Init PROVE IInv
    OBVIOUS
  <2>2. Types
    BY <2>1, EmptyList, SizeAssumption DEF Init, Types, Sleeping
  <2>3. Places
    BY <2>1, EmptyList DEF Init, Sleeping, Places, PlaceAt, InStream, InBatch, Rows, IsLost,
       Published
  <2>4. Answered = {}
    BY <2>1 DEF Init, Answered
  <2>5. Counted
    BY <2>1, <2>4, FS_EmptySet DEF Init, Counted
  <2>6. QED
    BY <2>2, <2>3, <2>5 DEF IInv
<1>2. IInv /\ [Next]_vars => IInv'
  BY TypesStep, PlacesStep, CountsStep DEF IInv
<1>3. QED
  BY <1>1, <1>2, PTL DEF Spec

\* Every variable keeps its type: the counter never passes the number of clicks.
THEOREM TypeCorrect == Spec => []TypeOK
<1>1. IInv => TypeOK
  <2>1. SUFFICES ASSUME IInv PROVE counter \in 0..Cardinality(Clicks)
    BY DEF IInv, Types, TypeOK
  <2>2. Answered \in SUBSET Clicks
    BY DEF Answered
  <2>3. QED
    BY <2>1, <2>2, SubsetCounts DEF IInv, Counted
<1>2. QED
  BY <1>1, Invariance, PTL

\* A published event is in exactly one place, whatever fails and however often
\* the process restarts: none is stored twice, and none is lost but with its
\* process or its transaction (nanolink_core.py:223-227 and 244-270).
THEOREM EventsInOnePlace == Spec => []InOnePlace
<1>1. IInv => InOnePlace
  <2>1. SUFFICES ASSUME IInv, NEW k \in Clicks
                 PROVE  Occurs(k, stream) + rows[k]
                          + (IF worker.at = "write" THEN Occurs(k, worker.batch) ELSE 0)
                          + (IF k \in lost THEN 1 ELSE 0)
                        = IF k \in Published THEN 1 ELSE 0
    BY DEF InOnePlace
  <2>2. /\ Occurs(k, stream) = IF InStream(k) THEN 1 ELSE 0
        /\ Occurs(k, worker.batch) = IF k \in ToSet(worker.batch) THEN 1 ELSE 0
    BY <2>1, OccursOnce DEF IInv, Types, Places, InStream
  <2>3. PlaceAt(k)
    BY <2>1 DEF IInv, Places
  <2>4. QED
    BY <2>2, <2>3 DEF PlaceAt, InBatch, Rows, IsLost
<1>2. QED
  BY <1>1, Invariance, PTL

\* The stats answer counts every redirect that was answered before it was asked
\* for, and no click that was not published, across failures and restarts.
THEOREM StatsFresh == Spec => []TotalFresh
<1>1. IInv => TotalFresh
  BY DEF IInv, Counted, TotalFresh
<1>2. QED
  BY <1>1, Invariance, PTL
=============================================================================
