-------------------------- MODULE SnowflakeProofs ---------------------------
(***************************************************************************)
(* Proofs about Snowflake and the codes that ShortCodes makes from its     *)
(* IDs, for every number of processes, every width of the fields, every    *)
(* base and word size and every bound.                                     *)
(***************************************************************************)
EXTENDS ShortCodes, WellFoundedInduction, TLAPS

-----------------------------------------------------------------------------
(* Packing fields in a number *)

\* A larger upper field outweighs any lower one.
LEMMA Pack ==
    ASSUME NEW K \in Nat, NEW a \in Int, NEW b \in Int, a < b,
           NEW x \in 0..(K - 1), NEW y \in 0..(K - 1)
    PROVE  a * K + x < b * K + y
<1>1. PICK d \in Nat : b = a + 1 + d
  <2>1. b - a - 1 \in Nat /\ b = a + 1 + (b - a - 1)
    OBVIOUS
  <2>2. QED
    BY <2>1
<1>2. d * K >= 0
  OBVIOUS
<1>3. b * K = a * K + K + d * K
  BY <1>1
<1>4. a * K \in Int /\ d * K \in Int
  OBVIOUS
<1>5. QED
  BY <1>2, <1>3, <1>4

\* IDs are ordered by stamp first, whatever the node and the sequence number.
LEMMA StampOrder ==
    ASSUME NEW t \in Int, NEW u \in Int, t < u,
           NEW m \in 0..(NodeSpan - 1), NEW n \in 0..(NodeSpan - 1),
           NEW s \in 0..(SeqSpan - 1), NEW r \in 0..(SeqSpan - 1)
    PROVE  ID(t, m, s) < ID(u, n, r)
<1>1. t * NodeSpan + m < u * NodeSpan + n
  BY SpanAssumption, Pack
<1>2. t * NodeSpan + m \in Int /\ u * NodeSpan + n \in Int
  BY SpanAssumption
<1>3. QED
  BY <1>1, <1>2, SpanAssumption, Pack DEF ID

LEMMA IDType ==
    ASSUME NEW t \in Int, NEW n \in 0..(NodeSpan - 1), NEW s \in 0..(SeqSpan - 1)
    PROVE  ID(t, n, s) \in Int /\ (t >= 0 => ID(t, n, s) \in Nat)
BY SpanAssumption DEF ID

\* Two IDs with different node numbers differ.
LEMMA NodeOfID ==
    ASSUME NEW t \in Int, NEW u \in Int,
           NEW m \in 0..(NodeSpan - 1), NEW n \in 0..(NodeSpan - 1), m # n,
           NEW s \in 0..(SeqSpan - 1), NEW r \in 0..(SeqSpan - 1)
    PROVE  ID(t, m, s) # ID(u, n, r)
<1>1. CASE t < u
  BY <1>1, StampOrder, IDType
<1>2. CASE u < t
  BY <1>2, StampOrder, IDType
<1>3. CASE t = u
  <2> DEFINE a == t * NodeSpan + m
             b == u * NodeSpan + n
  <2>1. a \in Int /\ b \in Int /\ (a < b \/ b < a)
    BY <1>3, SpanAssumption
  <2> HIDE DEF a, b
  <2>2. a * SeqSpan + s # b * SeqSpan + r
    <3>1. a * SeqSpan + s \in Int /\ b * SeqSpan + r \in Int
      BY <2>1, SpanAssumption
    <3>2. CASE a < b
      BY <2>1, <3>1, <3>2, SpanAssumption, Pack
    <3>3. CASE b < a
      BY <2>1, <3>1, <3>3, SpanAssumption, Pack
    <3>4. QED
      BY <2>1, <3>2, <3>3
  <2>3. QED
    BY <2>2 DEF ID, a, b
<1>4. QED
  BY <1>1, <1>2, <1>3

\* Within a stamp, IDs of one node are ordered by sequence number.
LEMMA SeqOrder ==
    ASSUME NEW t \in Int, NEW n \in 0..(NodeSpan - 1),
           NEW s \in 0..(SeqSpan - 1), NEW r \in 0..(SeqSpan - 1), s < r
    PROVE  ID(t, n, s) < ID(t, n, r)
BY SpanAssumption DEF ID

-----------------------------------------------------------------------------
(* One process at a time *)

\* The generator of p goes on to a later ID, or only to the busy wait.
Advance(p) ==
    \/ \E now \in 0..MaxTime, seq \in 0..(SeqSpan - 1) :
          /\ Issue(p, now, seq)
          /\ spinning'[p] = FALSE
          /\ clock[p] <= now
          /\ lastStamp[p] <= clock[p] => now = clock[p]
          /\ \/ lastStamp[p] < now
             \/ lastStamp[p] = now /\ ~spinning[p] /\ sequence[p] < seq
    \/ /\ UNCHANGED <<lastStamp, issued>>
       /\ lastStamp[p] # -1
       /\ sequence[p] = SeqSpan - 1
       /\ ~spinning[p]
       /\ sequence' = [sequence EXCEPT ![p] = 0]
       /\ spinning' = [spinning EXCEPT ![p] = TRUE]

LEMMA NextSeqValue ==
    ASSUME TypeOK, NEW p \in Procs
    PROVE  /\ NextSeq(p) \in 0..(SeqSpan - 1)
           /\ NextSeq(p) # 0 => NextSeq(p) = sequence[p] + 1
           /\ NextSeq(p) = 0 => sequence[p] = SeqSpan - 1
<1>1. sequence[p] \in 0..(SeqSpan - 1) /\ SeqSpan \in Nat \ {0}
  BY SpanAssumption DEF TypeOK
<1>2. CASE sequence[p] = SeqSpan - 1
  <2>1. (sequence[p] + 1) % SeqSpan = 0
    BY <1>1, <1>2
  <2>2. QED
    BY <1>1, <1>2, <2>1 DEF NextSeq
<1>3. CASE sequence[p] < SeqSpan - 1
  <2>1. (sequence[p] + 1) % SeqSpan = sequence[p] + 1
    BY <1>1, <1>3
  <2>2. QED
    BY <1>1, <1>3, <2>1 DEF NextSeq
<1>4. QED
  BY <1>1, <1>2, <1>3

LEMMA GenerateAdvances ==
    ASSUME TypeOK, NEW p \in Procs, Generate(p) \/ Spin(p)
    PROVE  Advance(p)
<1>1. /\ clock[p] \in 0..MaxTime /\ lastStamp[p] \in -1..MaxTime
      /\ sequence[p] \in 0..(SeqSpan - 1) /\ SeqSpan \in Nat \ {0}
  BY SpanAssumption DEF TypeOK
<1>2. CASE Spin(p)
  BY <1>1, <1>2 DEF Spin, Past, Advance, TypeOK
<1>3. CASE Generate(p)
  <2>1. /\ Now(p) \in -1..MaxTime
        /\ lastStamp[p] <= Now(p)
        /\ clock[p] <= Now(p)
        /\ lastStamp[p] <= clock[p] => Now(p) = clock[p]
        /\ Now(p) # lastStamp[p] => Now(p) \in 0..MaxTime
        /\ Now(p) = lastStamp[p] => clock[p] <= lastStamp[p]
    BY <1>1 DEF Now
  <2>2. CASE Now(p) # lastStamp[p] /\ Issue(p, Now(p), 0) /\ UNCHANGED spinning
    BY <1>1, <1>3, <2>1, <2>2 DEF Generate, Advance
  <2>3. CASE /\ Now(p) = lastStamp[p] /\ NextSeq(p) # 0
             /\ Issue(p, Now(p), NextSeq(p)) /\ UNCHANGED spinning
    BY <1>1, <1>3, <2>1, <2>3, NextSeqValue DEF Generate, Advance
  <2>4. CASE /\ Now(p) = lastStamp[p] /\ NextSeq(p) = 0
             /\ sequence' = [sequence EXCEPT ![p] = 0]
             /\ spinning' = [spinning EXCEPT ![p] = TRUE]
             /\ UNCHANGED <<lastStamp, issued>>
    <3>1. lastStamp[p] # -1
      BY <1>1, <2>1, <2>4
    <3>2. sequence[p] = SeqSpan - 1 /\ ~spinning[p]
      BY <1>3, <2>4, NextSeqValue DEF Generate
    <3>3. QED
      BY <2>4, <3>1, <3>2 DEF Advance
  <2>5. QED
    BY <1>3, <2>2, <2>3, <2>4 DEF Generate
<1>4. QED
  BY <1>2, <1>3

-----------------------------------------------------------------------------
(* Type correctness *)

LEMMA TypeStep ==
    ASSUME TypeOK, [Next]_vars
    PROVE  TypeOK'
<1>1. ASSUME NEW p \in Procs, Generate(p) \/ Spin(p) PROVE TypeOK'
  <2>1. UNCHANGED <<clock, backs>>
    BY <1>1 DEF Generate, Spin
  <2>2. spinning' \in [Procs -> BOOLEAN]
    BY <1>1 DEF Generate, Spin, TypeOK
  <2>3. CASE \E now \in 0..MaxTime, seq \in 0..(SeqSpan - 1) : Issue(p, now, seq)
    <3>1. PICK now \in 0..MaxTime, seq \in 0..(SeqSpan - 1) : Issue(p, now, seq)
      BY <2>3
    <3>2. ID(now, NodeId[p], seq) \in Nat
      BY SpanAssumption, IDType
    <3>3. Append(issued[p], ID(now, NodeId[p], seq)) \in Seq(Nat)
      BY <3>2 DEF TypeOK
    <3>4. QED
      BY <2>1, <2>2, <3>1, <3>3 DEF TypeOK, Issue
  <2>4. CASE UNCHANGED <<lastStamp, issued>> /\ sequence' = [sequence EXCEPT ![p] = 0]
    BY <2>1, <2>2, <2>4, SpanAssumption, SMTT(20) DEF TypeOK
  <2>5. QED
    BY <1>1, <2>3, <2>4, GenerateAdvances DEF Advance
<1>2. ASSUME NEW p \in Procs, Tick(p) PROVE TypeOK'
  BY <1>2, BoundAssumption DEF Tick, TypeOK
<1>3. ASSUME NEW p \in Procs, SetBack(p) PROVE TypeOK'
  <2>1. PICK t \in 0..(clock[p] - 1) : clock' = [clock EXCEPT ![p] = t]
    BY <1>3 DEF SetBack
  <2>2. clock[p] \in 0..MaxTime /\ t \in 0..MaxTime
    BY BoundAssumption DEF TypeOK
  <2>3. backs[p] \in Nat /\ MaxBacks[p] \in Nat /\ backs[p] < MaxBacks[p]
    BY <1>3, BoundAssumption DEF SetBack, TypeOK
  <2>4. clock' \in [Procs -> 0..MaxTime]
    BY <2>1, <2>2 DEF TypeOK
  <2>5. backs' \in [Procs -> Nat] /\ \A q \in Procs : backs'[q] <= MaxBacks[q]
    <3>1. backs' = [backs EXCEPT ![p] = @ + 1] /\ backs \in [Procs -> Nat]
      BY <1>3 DEF SetBack, TypeOK
    <3>2. backs' \in [Procs -> Nat]
      BY <2>3, <3>1
    <3>3. ASSUME NEW q \in Procs PROVE backs'[q] <= MaxBacks[q]
      <4>1. CASE q = p
        BY <2>3, <3>1, <4>1
      <4>2. CASE q # p
        BY <3>1, <4>2 DEF TypeOK
      <4>3. QED
        BY <4>1, <4>2
    <3>4. QED
      BY <3>2, <3>3
  <2>6. QED
    BY <1>3, <2>4, <2>5 DEF SetBack, TypeOK
<1>4. ASSUME NEW p \in Procs, Restart(p) PROVE TypeOK'
  <2>1. clock' \in [Procs -> 0..MaxTime]
    BY <1>4, BoundAssumption DEF Restart, TypeOK
  <2>2. sequence' \in [Procs -> 0..(SeqSpan - 1)]
    BY <1>4, SpanAssumption DEF Restart, TypeOK
  <2>3. lastStamp' \in [Procs -> -1..MaxTime] /\ spinning' \in [Procs -> BOOLEAN]
    BY <1>4, BoundAssumption DEF Restart, TypeOK
  <2>4. QED
    BY <1>4, <2>1, <2>2, <2>3 DEF Restart, TypeOK
<1>5. CASE UNCHANGED vars
  BY <1>5 DEF vars, TypeOK
<1>6. QED
  BY <1>1, <1>2, <1>3, <1>4, <1>5 DEF Next

\* The generators' fields stay within their widths.
THEOREM TypeCorrect == Spec => []TypeOK
<1>1. Init => TypeOK
  BY SpanAssumption, BoundAssumption DEF Init, TypeOK
<1>2. QED
  BY <1>1, TypeStep, PTL DEF Spec

-----------------------------------------------------------------------------
(* IDs grow *)

\* What the state of a generator says of the IDs made before: without a stamp
\* it has made none, or has been restarted; and the clock of a process that may
\* be restarted has never been set back, so that it is not behind the stamp.
Consistent(p) ==
    /\ lastStamp[p] = -1 =>
          ~spinning[p] /\ (p \notin Restarted => issued[p] = <<>>)
    /\ p \in Restarted => lastStamp[p] <= clock[p]

\* The next ID lies above the generator's position, and that above all others.
IInv == TypeOK /\ (\A p \in Procs : Consistent(p)) /\ Bounded /\ Increasing

\* What IInv says of one process.
Ordered(p) ==
    /\ Consistent(p)
    /\ \A i \in 1..Len(issued[p]) :
        /\ issued[p][i] <= Position(p)
        /\ \E t \in 0..MaxTime, s \in 0..(SeqSpan - 1) :
             issued[p][i] = ID(t, NodeId[p], s)
    /\ \A i, j \in 1..Len(issued[p]) : i < j => issued[p][i] < issued[p][j]

LEMMA PositionType ==
    ASSUME TypeOK, NEW p \in Procs
    PROVE  Position(p) \in Int
<1> DEFINE s == IF spinning[p] THEN SeqSpan - 1 ELSE sequence[p]
<1>1. /\ lastStamp[p] \in Int /\ clock[p] - 1 \in Int
      /\ s \in 0..(SeqSpan - 1) /\ SeqSpan - 1 \in 0..(SeqSpan - 1)
      /\ NodeId[p] \in 0..(NodeSpan - 1)
  BY SpanAssumption DEF TypeOK
<1> HIDE DEF s
<1>2. /\ ID(lastStamp[p], NodeId[p], s) \in Int
      /\ ID(clock[p] - 1, NodeId[p], SeqSpan - 1) \in Int
  BY <1>1, IDType
<1>3. QED
  BY <1>2 DEF Position, s

LEMMA IssueOrdered ==
    ASSUME TypeOK, NEW p \in Procs, Ordered(p),
           NEW now \in 0..MaxTime, NEW seq \in 0..(SeqSpan - 1),
           Issue(p, now, seq), spinning'[p] = FALSE, UNCHANGED clock,
           clock[p] <= now, lastStamp[p] <= clock[p] => now = clock[p],
           \/ lastStamp[p] < now
           \/ lastStamp[p] = now /\ ~spinning[p] /\ sequence[p] < seq
    PROVE  Ordered(p)'
<1> DEFINE id == ID(now, NodeId[p], seq)
           s == IF spinning[p] THEN SeqSpan - 1 ELSE sequence[p]
<1>1. /\ lastStamp[p] \in Int /\ clock[p] \in Int
      /\ s \in 0..(SeqSpan - 1) /\ SeqSpan - 1 \in 0..(SeqSpan - 1)
      /\ NodeId[p] \in 0..(NodeSpan - 1)
      /\ issued[p] \in Seq(Nat) /\ now \in Int /\ now >= 0
  BY SpanAssumption DEF TypeOK
<1>2. Position(p) \in Int /\ id \in Nat
  BY <1>1, IDType, PositionType
<1>3. Position(p) < id
  <2>1. CASE lastStamp[p] = -1
    <3>1. Position(p) = ID(clock[p] - 1, NodeId[p], SeqSpan - 1)
      BY <2>1 DEF Position
    <3>2. clock[p] - 1 \in Int /\ clock[p] - 1 < now
      BY <1>1
    <3>3. QED
      BY <1>1, <3>1, <3>2, StampOrder
  <2>2. CASE lastStamp[p] # -1 /\ lastStamp[p] < now
    BY <1>1, <2>2, StampOrder DEF Position
  <2>3. CASE lastStamp[p] # -1 /\ lastStamp[p] = now /\ ~spinning[p] /\ sequence[p] < seq
    BY <1>1, <2>3, SeqOrder DEF Position
  <2>4. QED
    BY <2>1, <2>2, <2>3
<1>4. /\ lastStamp'[p] = now /\ sequence'[p] = seq
      /\ issued'[p] = Append(issued[p], id)
  BY DEF Issue, TypeOK
<1>5. Position(p)' = id
  BY <1>1, <1>4 DEF Position
<1> HIDE DEF id
<1>6. /\ Len(issued'[p]) = Len(issued[p]) + 1
      /\ issued'[p][Len(issued[p]) + 1] = id
      /\ \A i \in 1..Len(issued[p]) : issued'[p][i] = issued[p][i]
  BY <1>1, <1>2, <1>4
<1>7. \A i \in 1..Len(issued[p]) : issued[p][i] \in Nat /\ issued[p][i] < id
  <2>1. TAKE i \in 1..Len(issued[p])
  <2>2. issued[p][i] \in Nat
    BY <1>1, SMTT(20)
  <2>3. issued[p][i] <= Position(p)
    BY DEF Ordered
  <2>4. QED
    BY <1>2, <1>3, <2>2, <2>3
<1>8. \A i \in 1..Len(issued'[p]) :
        /\ issued'[p][i] <= id
        /\ \E t \in 0..MaxTime, r \in 0..(SeqSpan - 1) :
             issued'[p][i] = ID(t, NodeId[p], r)
  <2>1. TAKE i \in 1..Len(issued'[p])
  <2>2. CASE i = Len(issued[p]) + 1
    <3>1. id = ID(now, NodeId[p], seq)
      BY DEF id
    <3>2. issued'[p][i] = id
      BY <1>6, <2>2
    <3>3. \E t \in 0..MaxTime, r \in 0..(SeqSpan - 1) : id = ID(t, NodeId[p], r)
      BY <3>1
    <3>4. QED
      BY <1>2, <3>2, <3>3
  <2>3. CASE i \in 1..Len(issued[p])
    <3>1. issued'[p][i] = issued[p][i]
      BY <1>6, <2>3
    <3>2. issued[p][i] <= id
      BY <1>2, <1>7, <2>3
    <3>3. \E t \in 0..MaxTime, r \in 0..(SeqSpan - 1) :
            issued[p][i] = ID(t, NodeId[p], r)
      BY <2>3 DEF Ordered
    <3>4. QED
      BY <3>1, <3>2, <3>3
  <2>4. QED
    BY <1>1, <1>6, <2>2, <2>3
<1>9. \A i, j \in 1..Len(issued'[p]) : i < j => issued'[p][i] < issued'[p][j]
  <2>1. TAKE i, j \in 1..Len(issued'[p])
  <2>2. HAVE i < j
  <2>3. i \in 1..Len(issued[p])
    BY <1>1, <1>6, <2>2
  <2>4. CASE j = Len(issued[p]) + 1
    BY <1>6, <1>7, <2>3, <2>4
  <2>5. CASE j \in 1..Len(issued[p])
    BY <1>6, <2>2, <2>3, <2>5 DEF Ordered
  <2>6. j \in 1..Len(issued[p]) \/ j = Len(issued[p]) + 1
    BY <1>1, <1>6
  <2>7. QED
    BY <2>4, <2>5, <2>6
<1>10. Consistent(p)'
  BY <1>1, <1>4 DEF Ordered, Consistent
<1>11. QED
  BY <1>5, <1>8, <1>9, <1>10 DEF Ordered

LEMMA AdvanceOrdered ==
    ASSUME TypeOK, NEW p \in Procs, Ordered(p), Generate(p) \/ Spin(p)
    PROVE  Ordered(p)'
<1>1. UNCHANGED clock
  BY DEF Generate, Spin
<1>2. CASE \E now \in 0..MaxTime, seq \in 0..(SeqSpan - 1) :
            /\ Issue(p, now, seq)
            /\ spinning'[p] = FALSE
            /\ clock[p] <= now
            /\ lastStamp[p] <= clock[p] => now = clock[p]
            /\ \/ lastStamp[p] < now
               \/ lastStamp[p] = now /\ ~spinning[p] /\ sequence[p] < seq
  BY <1>1, <1>2, IssueOrdered
<1>3. CASE /\ UNCHANGED <<lastStamp, issued>>
           /\ lastStamp[p] # -1
           /\ sequence[p] = SeqSpan - 1
           /\ ~spinning[p]
           /\ sequence' = [sequence EXCEPT ![p] = 0]
           /\ spinning' = [spinning EXCEPT ![p] = TRUE]
  <2>1. Position(p)' = Position(p) /\ issued' = issued /\ lastStamp' = lastStamp
    BY <1>1, <1>3 DEF Position, TypeOK
  <2>2. QED
    BY <1>1, <1>3, <2>1 DEF Ordered, Consistent
<1>4. QED
  BY <1>2, <1>3, GenerateAdvances DEF Advance

\* A step that makes no ID and moves no position down keeps the order.
LEMMA RaisedOrdered ==
    ASSUME TypeOK, TypeOK', NEW p \in Procs, Ordered(p),
           issued'[p] = issued[p], Consistent(p)', Position(p) <= Position(p)'
    PROVE  Ordered(p)'
<1>1. Position(p) \in Int
  BY PositionType
<1>2. Position(p)' \in Int
  <2> DEFINE s == IF spinning'[p] THEN SeqSpan - 1 ELSE sequence'[p]
  <2>1. /\ lastStamp'[p] \in Int /\ clock'[p] - 1 \in Int
        /\ s \in 0..(SeqSpan - 1) /\ SeqSpan - 1 \in 0..(SeqSpan - 1)
        /\ NodeId[p] \in 0..(NodeSpan - 1)
    BY SpanAssumption DEF TypeOK
  <2> HIDE DEF s
  <2>2. /\ ID(lastStamp'[p], NodeId[p], s) \in Int
        /\ ID(clock'[p] - 1, NodeId[p], SeqSpan - 1) \in Int
    BY <2>1, IDType
  <2>3. QED
    BY <2>2 DEF Position, s
<1>3. \A i \in 1..Len(issued[p]) : issued[p][i] \in Nat
  BY SMTT(20) DEF TypeOK
<1>4. \A i \in 1..Len(issued[p]) : issued[p][i] <= Position(p)'
  BY <1>1, <1>2, <1>3 DEF Ordered
<1>5. QED
  BY <1>4 DEF Ordered

LEMMA TickOrdered ==
    ASSUME TypeOK, TypeOK', NEW p \in Procs, Ordered(p), Tick(p)
    PROVE  Ordered(p)'
<1>1. /\ clock[p] \in Int /\ clock'[p] = clock[p] + 1
      /\ lastStamp'[p] = lastStamp[p] /\ sequence'[p] = sequence[p]
      /\ spinning'[p] = spinning[p] /\ issued'[p] = issued[p]
      /\ lastStamp[p] \in Int
  BY DEF Tick, TypeOK
<1>2. Consistent(p)'
  BY <1>1 DEF Ordered, Consistent
<1>3. Position(p) <= Position(p)'
  <2>1. Position(p) \in Int
    BY PositionType
  <2>2. CASE lastStamp[p] = -1
    <3>1. /\ NodeId[p] \in 0..(NodeSpan - 1) /\ SeqSpan - 1 \in 0..(SeqSpan - 1)
          /\ clock[p] - 1 \in Int /\ clock'[p] - 1 \in Int
          /\ clock[p] - 1 < clock'[p] - 1
      BY <1>1, SpanAssumption
    <3>2. /\ ID(clock[p] - 1, NodeId[p], SeqSpan - 1)
               < ID(clock'[p] - 1, NodeId[p], SeqSpan - 1)
          /\ ID(clock'[p] - 1, NodeId[p], SeqSpan - 1) \in Int
      BY <3>1, StampOrder, IDType
    <3>3. QED
      BY <1>1, <2>1, <2>2, <3>2 DEF Position
  <2>3. CASE lastStamp[p] # -1
    <3>1. Position(p)' = Position(p)
      BY <1>1, <2>3 DEF Position
    <3>2. QED
      BY <2>1, <3>1
  <2>4. QED
    BY <2>2, <2>3
<1>4. QED
  BY <1>1, <1>2, <1>3, RaisedOrdered

\* A clock is only set back under a generator that has a stamp, or no ID yet.
LEMMA SetBackOrdered ==
    ASSUME \A q \in Restarted : MaxBacks[q] = 0,
           TypeOK, TypeOK', NEW p \in Procs, Ordered(p), SetBack(p)
    PROVE  Ordered(p)'
<1>1. /\ lastStamp'[p] = lastStamp[p] /\ sequence'[p] = sequence[p]
      /\ spinning'[p] = spinning[p] /\ issued'[p] = issued[p]
  BY DEF SetBack
<1>2. p \notin Restarted
  <2>1. backs[p] \in Nat /\ MaxBacks[p] \in Nat /\ backs[p] < MaxBacks[p]
    BY BoundAssumption DEF SetBack, TypeOK
  <2>2. QED
    BY <2>1
<1>3. Consistent(p)'
  BY <1>1, <1>2 DEF Ordered, Consistent
<1>4. CASE lastStamp[p] = -1
  <2>1. issued[p] = <<>>
    BY <1>2, <1>4 DEF Ordered, Consistent
  <2>2. QED
    BY <1>1, <1>3, <2>1 DEF Ordered
<1>5. CASE lastStamp[p] # -1
  <2>1. Position(p)' = Position(p)
    BY <1>1, <1>5 DEF Position
  <2>2. QED
    BY <1>1, <1>3, <2>1 DEF Ordered
<1>6. QED
  BY <1>4, <1>5

\* A restart takes the generator past everything the old process has made.
LEMMA RestartOrdered ==
    ASSUME TypeOK, TypeOK', NEW p \in Procs, Ordered(p), Restart(p)
    PROVE  Ordered(p)'
<1> DEFINE s == IF spinning[p] THEN SeqSpan - 1 ELSE sequence[p]
           top == ID(clock[p], NodeId[p], SeqSpan - 1)
<1>1. /\ clock[p] \in Int /\ clock'[p] = clock[p] + 1
      /\ lastStamp'[p] = -1 /\ ~spinning'[p] /\ issued'[p] = issued[p]
      /\ lastStamp[p] \in Int /\ clock[p] - 1 \in Int
      /\ lastStamp[p] <= clock[p]
      /\ p \in Restarted
  BY DEF Restart, TypeOK, Ordered, Consistent
<1>2. /\ NodeId[p] \in 0..(NodeSpan - 1) /\ SeqSpan - 1 \in 0..(SeqSpan - 1)
      /\ s \in 0..(SeqSpan - 1)
  BY SpanAssumption DEF TypeOK
<1>3. Consistent(p)'
  <2>1. clock'[p] \in 0..MaxTime
    BY DEF TypeOK
  <2>2. QED
    BY <1>1, <2>1 DEF Consistent
<1>4. Position(p)' = top
  BY <1>1 DEF Position
<1>5. Position(p) <= top
  <2>1. Position(p) \in Int /\ top \in Int
    BY <1>1, <1>2, IDType, PositionType
  <2>2. CASE lastStamp[p] = -1
    <3>1. Position(p) = ID(clock[p] - 1, NodeId[p], SeqSpan - 1)
      BY <2>2 DEF Position
    <3>2. clock[p] - 1 < clock[p]
      BY <1>1
    <3>3. Position(p) < top
      BY <1>1, <1>2, <3>1, <3>2, StampOrder
    <3>4. QED
      BY <2>1, <3>3
  <2>3. CASE lastStamp[p] # -1
    <3>1. Position(p) = ID(lastStamp[p], NodeId[p], s)
      BY <2>3 DEF Position
    <3> HIDE DEF s
    <3>2. CASE lastStamp[p] < clock[p]
      <4>1. Position(p) < top
        BY <1>1, <1>2, <3>1, <3>2, StampOrder
      <4>2. QED
        BY <2>1, <4>1
    <3>3. CASE lastStamp[p] = clock[p] /\ s < SeqSpan - 1
      <4>1. Position(p) < top
        BY <1>1, <1>2, <3>1, <3>3, SeqOrder
      <4>2. QED
        BY <2>1, <4>1
    <3>4. CASE lastStamp[p] = clock[p] /\ s = SeqSpan - 1
      BY <2>1, <3>1, <3>4
    <3>5. QED
      BY <1>1, <1>2, <3>2, <3>3, <3>4
  <2>4. QED
    BY <2>2, <2>3
<1> HIDE DEF top
<1>6. Position(p) <= Position(p)'
  BY <1>4, <1>5
<1>7. QED
  BY <1>1, <1>3, <1>6, RaisedOrdered

LEMMA IInvStep ==
    ASSUME \A q \in Restarted : MaxBacks[q] = 0, IInv, [Next]_vars
    PROVE  IInv'
<1>1. TypeOK' /\ TypeOK
  BY TypeStep DEF IInv
<1>2. \A p \in Procs : Ordered(p)
  BY DEF IInv, Bounded, Increasing, Ordered
<1>3. ASSUME NEW p \in Procs PROVE Ordered(p)'
  <2>1. CASE \E q \in Procs \ {p} :
               Generate(q) \/ Spin(q) \/ Tick(q) \/ SetBack(q) \/ Restart(q)
    <3>1. PICK q \in Procs \ {p} :
                 Generate(q) \/ Spin(q) \/ Tick(q) \/ SetBack(q) \/ Restart(q)
      BY <2>1
    <3>2. /\ lastStamp'[p] = lastStamp[p] /\ sequence'[p] = sequence[p]
          /\ spinning'[p] = spinning[p] /\ issued'[p] = issued[p]
          /\ clock'[p] = clock[p]
      <4>1. CASE Generate(q) \/ Spin(q)
        BY <1>1, <3>1, <4>1, ZenonT(40) DEF Generate, Spin, Issue, TypeOK
      <4>2. CASE Tick(q) \/ SetBack(q) \/ Restart(q)
        BY <1>1, <3>1, <4>2 DEF Tick, SetBack, Restart, TypeOK
      <4>3. QED
        BY <3>1, <4>1, <4>2
    <3>3. QED
      BY <1>2, <3>2 DEF Ordered, Consistent, Position
  <2>2. CASE Generate(p) \/ Spin(p)
    BY <1>1, <1>2, <2>2, AdvanceOrdered
  <2>3. CASE Tick(p)
    BY <1>1, <1>2, <2>3, TickOrdered
  <2>4. CASE SetBack(p)
    BY <1>1, <1>2, <2>4, SetBackOrdered
  <2>5. CASE Restart(p)
    BY <1>1, <1>2, <2>5, RestartOrdered
  <2>6. CASE UNCHANGED vars
    BY <1>2, <2>6 DEF Ordered, Consistent, Position, vars
  <2>7. QED
    BY <2>1, <2>2, <2>3, <2>4, <2>5, <2>6 DEF Next
<1>4. QED
  BY <1>1, <1>3 DEF IInv, Bounded, Increasing, Ordered

\* The IDs of a process grow, however many it makes in a millisecond, if its
\* clock is set back at will or it is restarted at will, and not both
\* (snowflake.go:47-61).
THEOREM IdsGrow ==
    ASSUME \A p \in Restarted : MaxBacks[p] = 0
    PROVE  Spec => [](Increasing /\ Bounded)
<1>1. Init => IInv
  <2>1. Init => TypeOK
    BY SpanAssumption, BoundAssumption DEF Init, TypeOK
  <2>2. QED
    BY <2>1 DEF Init, IInv, TypeOK, Consistent, Bounded, Increasing
<1>2. IInv /\ [Next]_vars => IInv'
  BY IInvStep
<1>3. IInv => Increasing /\ Bounded
  BY DEF IInv
<1>4. QED
  BY <1>1, <1>2, <1>3, PTL DEF Spec

\* Every ID names its process and lies below the generator's position, which
\* after a restart is the clock alone (snowflake.go:37).
THEOREM IdsBounded ==
    ASSUME \A p \in Restarted : MaxBacks[p] = 0
    PROVE  Spec => []Bounded
<1>1. Spec => [](Increasing /\ Bounded)
  BY IdsGrow
<1>2. QED
  BY <1>1, PTL

-----------------------------------------------------------------------------
(* Which IDs can be equal *)

\* An ID that is made twice is made by two processes that share a node number.
UniquePerNode ==
    \A p, q \in Procs :
        \A i \in 1..Len(issued[p]), j \in 1..Len(issued[q]) :
            issued[p][i] = issued[q][j] =>
                /\ NodeId[p] = NodeId[q]
                /\ p = q => i = j

\* A generator never makes an ID twice, and generators of different node numbers
\* never make the same one (snowflake.go:64).  This is less than "a unique 64-bit
\* Snowflake ID" (snowflake.go:41): every process has node number 1
\* (url_service.go:37), and two of them make the same ID in the same millisecond.
THEOREM IdsUnique ==
    ASSUME \A p \in Restarted : MaxBacks[p] = 0
    PROVE  Spec => []UniquePerNode
<1>1. ASSUME TypeOK, Increasing, Bounded,
             NEW p \in Procs, NEW q \in Procs,
             NEW i \in 1..Len(issued[p]), NEW j \in 1..Len(issued[q]),
             issued[p][i] = issued[q][j]
      PROVE  NodeId[p] = NodeId[q] /\ (p = q => i = j)
  <2>1. ASSUME p = q PROVE i = j
    <3>1. issued[p] \in Seq(Nat)
      BY <1>1 DEF TypeOK
    <3>2. issued[p][i] \in Nat /\ issued[p][j] \in Nat
      BY <1>1, <2>1, <3>1
    <3>3. (i < j => issued[p][i] < issued[p][j]) /\ (j < i => issued[p][j] < issued[p][i])
      BY <1>1, <2>1 DEF Increasing
    <3>4. i < j \/ j < i \/ i = j
      BY <3>1
    <3>5. QED
      BY <1>1, <2>1, <3>2, <3>3, <3>4
  <2>2. NodeId[p] = NodeId[q]
    <3>1. PICK t \in 0..MaxTime, s \in 0..(SeqSpan - 1) :
            issued[p][i] = ID(t, NodeId[p], s)
      BY <1>1 DEF Bounded
    <3>2. PICK u \in 0..MaxTime, r \in 0..(SeqSpan - 1) :
            issued[q][j] = ID(u, NodeId[q], r)
      BY <1>1 DEF Bounded
    <3>3. NodeId[p] \in 0..(NodeSpan - 1) /\ NodeId[q] \in 0..(NodeSpan - 1)
      BY SpanAssumption
    <3>4. t \in Int /\ u \in Int
      OBVIOUS
    <3>5. NodeId[p] # NodeId[q] => ID(t, NodeId[p], s) # ID(u, NodeId[q], r)
      BY <3>3, <3>4, NodeOfID
    <3>6. QED
      BY <1>1, <3>1, <3>2, <3>5
  <2>3. QED
    BY <2>1, <2>2
<1>2. TypeOK /\ Increasing /\ Bounded => UniquePerNode
  BY <1>1 DEF UniquePerNode
<1>3. Spec => []TypeOK
  BY TypeCorrect
<1>4. Spec => [](Increasing /\ Bounded)
  BY IdsGrow
<1>5. QED
  BY <1>2, <1>3, <1>4, PTL

-----------------------------------------------------------------------------
(* Induction and recursion *)

LEMMA NatLeast ==
    ASSUME NEW T, T \subseteq Nat, T # {}
    PROVE  \E m \in T : \A n \in T : m <= n
<1> DEFINE R == OpToRel(<, Nat)
<1>1. IsWellFoundedOn(R, Nat)
  BY NatLessThanWellFounded
<1>2. \A x, y \in Nat : x < y => <<x, y>> \in R
  BY DEF OpToRel
<1> HIDE DEF R
<1>3. PICK m \in T : \A n \in T : ~(<<n, m>> \in R)
  BY <1>1, WFMin
<1>4. ASSUME NEW n \in T PROVE m <= n
  <2>1. m \in Nat /\ n \in Nat
    OBVIOUS
  <2>2. ~(n < m)
    BY <1>2, <1>3, <2>1
  <2>3. QED
    BY <2>1, <2>2
<1>5. QED
  BY <1>4

\* What follows for a number from all smaller ones holds for all numbers.
LEMMA Induction ==
    ASSUME NEW P, \A n \in Nat : (\A i \in Nat : i < n => i \in P) => n \in P
    PROVE  \A n \in Nat : n \in P
<1> DEFINE T == Nat \ P
<1>1. SUFFICES ASSUME T # {} PROVE FALSE
  OBVIOUS
<1>2. PICK m \in T : \A n \in T : m <= n
  BY <1>1, NatLeast
<1>3. \A i \in Nat : i < m => i \in P
  BY <1>2
<1>4. QED
  BY <1>2, <1>3

\* What a recursive definition is made of: the value a for 0, and for any other
\* number n the value h gives for it and the one of the smaller number p[n].
Recurses(S, a, p, h) ==
    /\ a \in S
    /\ p \in [Nat -> Nat]
    /\ h \in [Nat \X S -> S]
    /\ \A n \in Nat : n > 0 => p[n] < n

\* f is the function up to n that a, p and h define by recursion.
Recursive(f, n, S, a, p, h) ==
    /\ f \in [0..n -> S]
    /\ f[0] = a
    /\ \A i \in 1..n : f[i] = h[<<i, f[p[i]]>>]

LEMMA RecursiveUnique ==
    ASSUME NEW S, NEW a, NEW p, NEW h, Recurses(S, a, p, h)
    PROVE  \A n, m \in Nat : \A f, g :
              Recursive(f, n, S, a, p, h) /\ Recursive(g, m, S, a, p, h)
                => \A i \in Nat : i <= n /\ i <= m => f[i] = g[i]
<1> SUFFICES ASSUME NEW n \in Nat, NEW m \in Nat, NEW f, NEW g,
                    Recursive(f, n, S, a, p, h), Recursive(g, m, S, a, p, h)
             PROVE  \A i \in Nat : i <= n /\ i <= m => f[i] = g[i]
  OBVIOUS
<1>0. p \in [Nat -> Nat] /\ \A i \in Nat : i > 0 => p[i] < i
  BY DEF Recurses
<1> DEFINE P == {i \in Nat : i <= n /\ i <= m => f[i] = g[i]}
<1>1. ASSUME NEW i \in Nat, \A j \in Nat : j < i => j \in P
      PROVE  i \in P
  <2>1. CASE i = 0
    BY <2>1 DEF Recursive
  <2>2. CASE i > 0 /\ i <= n /\ i <= m
    <3>1. p[i] \in Nat /\ p[i] < i
      BY <1>0, <2>2
    <3>2. f[p[i]] = g[p[i]]
      BY <1>1, <2>2, <3>1
    <3>3. i \in 1..n /\ i \in 1..m
      BY <2>2
    <3>4. f[i] = g[i]
      BY <3>2, <3>3 DEF Recursive
    <3>5. QED
      BY <3>4
  <2>3. QED
    BY <2>1, <2>2
<1> HIDE DEF P
<1>2. \A i \in Nat : i \in P
  BY <1>1, Induction
<1>3. QED
  BY <1>2 DEF P

LEMMA RecursiveExists ==
    ASSUME NEW S, NEW a, NEW p, NEW h, Recurses(S, a, p, h)
    PROVE  \A n \in Nat : \E f : Recursive(f, n, S, a, p, h)
<1>0. /\ a \in S /\ p \in [Nat -> Nat] /\ h \in [Nat \X S -> S]
      /\ \A n \in Nat : n > 0 => p[n] < n
  BY DEF Recurses
<1> DEFINE P == {n \in Nat : \E f : Recursive(f, n, S, a, p, h)}
<1>1. ASSUME NEW n \in Nat, \A i \in Nat : i < n => i \in P
      PROVE  n \in P
  <2>1. CASE n = 0
    <3>1. Recursive([i \in 0..0 |-> a], 0, S, a, p, h)
      BY <1>0 DEF Recursive
    <3>2. QED
      BY <2>1, <3>1
  <2>2. CASE n > 0
    <3>1. n - 1 \in Nat /\ n - 1 < n
      BY <2>2
    <3>2. PICK f : Recursive(f, n - 1, S, a, p, h)
      BY <1>1, <3>1
    <3> DEFINE g == [i \in 0..n |-> IF i <= n - 1 THEN f[i] ELSE h[<<n, f[p[n]]>>]]
    <3>3. p[n] \in 0..(n - 1) /\ f \in [0..(n - 1) -> S]
      BY <1>0, <2>2, <3>2 DEF Recursive
    <3>4. f[p[n]] \in S
      BY <3>3
    <3>5. h[<<n, f[p[n]]>>] \in S
      BY <1>0, <3>4
    <3>6. g \in [0..n -> S] /\ \A i \in 0..(n - 1) : g[i] = f[i]
      <4>1. \A i \in 0..n : i <= n - 1 => i \in 0..(n - 1) /\ f[i] \in S
        BY <3>3
      <4>2. \A i \in 0..n : (IF i <= n - 1 THEN f[i] ELSE h[<<n, f[p[n]]>>]) \in S
        BY <3>5, <4>1
      <4>3. \A i \in 0..(n - 1) : i \in 0..n /\ i <= n - 1
        OBVIOUS
      <4>4. QED
        BY <4>2, <4>3, Zenon
    <3>7. g[n] = h[<<n, f[p[n]]>>]
      BY <2>2
    <3> HIDE DEF g
    <3>8. \A i \in 1..n : g[i] = h[<<i, g[p[i]]>>]
      <4>1. TAKE i \in 1..n
      <4>2. p[i] \in Nat /\ p[i] < i
        BY <1>0
      <4>3. p[i] \in 0..(n - 1)
        BY <4>2
      <4>4. g[p[i]] = f[p[i]]
        BY <3>6, <4>3
      <4>5. CASE i = n
        BY <3>7, <4>4, <4>5
      <4>6. CASE i \in 1..(n - 1)
        <5>1. f[i] = h[<<i, f[p[i]]>>]
          BY <3>2, <4>6, Zenon DEF Recursive
        <5>2. i \in 0..(n - 1)
          BY <4>6
        <5>3. g[i] = f[i]
          BY <3>6, <5>2, Zenon
        <5>4. QED
          BY <4>4, <5>1, <5>3
      <4>7. QED
        BY <4>5, <4>6
    <3>9. g[0] = a
      BY <3>1, <3>2, <3>6 DEF Recursive
    <3>10. Recursive(g, n, S, a, p, h)
      BY <3>6, <3>8, <3>9 DEF Recursive
    <3>11. QED
      BY <3>10
  <2>3. QED
    BY <2>1, <2>2
<1> HIDE DEF P
<1>2. \A n \in Nat : n \in P
  BY <1>1, Induction
<1>3. QED
  BY <1>2 DEF P

\* The whole function: that there is one is what makes a recursive definition
\* mean what it says.
LEMMA Recursion ==
    ASSUME NEW S, NEW a, NEW p, NEW h, Recurses(S, a, p, h)
    PROVE  \E f \in [Nat -> S] :
              f[0] = a /\ \A n \in Nat : n > 0 => f[n] = h[<<n, f[p[n]]>>]
<1> DEFINE F(n) == CHOOSE f : Recursive(f, n, S, a, p, h)
           g == [n \in Nat |-> F(n)[n]]
<1>1. \A n \in Nat : Recursive(F(n), n, S, a, p, h)
  BY RecursiveExists
<1> HIDE DEF F
<1>2. \A n, m \in Nat : \A f, x :
        Recursive(f, n, S, a, p, h) /\ Recursive(x, m, S, a, p, h)
          => \A i \in Nat : i <= n /\ i <= m => f[i] = x[i]
  BY RecursiveUnique
<1>3. \A n \in Nat : F(n)[n] \in S
  BY <1>1 DEF Recursive
<1>4. g \in [Nat -> S]
  BY <1>3
<1>5. g[0] = a
  BY <1>1 DEF Recursive
<1>6. ASSUME NEW n \in Nat, n > 0
      PROVE  g[n] = h[<<n, g[p[n]]>>]
  <2>1. p[n] \in Nat /\ p[n] <= n
    BY <1>6 DEF Recurses
  <2>2. F(p[n])[p[n]] = F(n)[p[n]]
    <3>1. Recursive(F(p[n]), p[n], S, a, p, h) /\ Recursive(F(n), n, S, a, p, h)
      BY <1>1, <2>1, Zenon
    <3>3. \A i \in Nat : i <= p[n] /\ i <= n => F(p[n])[i] = F(n)[i]
      BY <1>2, <2>1, <3>1
    <3>4. p[n] <= p[n]
      BY <2>1
    <3>5. QED
      BY <2>1, <3>3, <3>4
  <2>3. F(n)[n] = h[<<n, F(n)[p[n]]>>]
    <3>1. n \in 1..n
      BY <1>6
    <3>2. QED
      BY <1>1, <3>1, Zenon DEF Recursive
  <2>4. QED
    BY <2>1, <2>2, <2>3
<1>7. QED
  BY <1>4, <1>5, <1>6

-----------------------------------------------------------------------------
(* Digits *)

Codes == Seq(0..(Base - 1))

LEMMA Division ==
    ASSUME NEW n \in Nat
    PROVE  /\ n \div Base \in Nat /\ n % Base \in 0..(Base - 1)
           /\ n = (n \div Base) * Base + (n % Base)
           /\ n > 0 => n \div Base < n
<1>1. Base \in Nat /\ Base >= 2
  BY CodeAssumption
<1> DEFINE q == n \div Base
           r == n % Base
<1>2. q \in Nat /\ r \in 0..(Base - 1) /\ n = q * Base + r
  BY <1>1
<1> HIDE DEF q, r
<1>3. ASSUME n > 0 PROVE q < n
  <2>1. q * Base = q * 2 + q * (Base - 2) /\ q * (Base - 2) \in Nat
    BY <1>1, <1>2
  <2>2. q * 2 <= n
    BY <1>2, <2>1
  <2>3. QED
    BY <1>2, <1>3, <2>2
<1>4. QED
  BY <1>2, <1>3, Zenon DEF q, r

\* The recursion of Digits ends.
LEMMA DigitsStep ==
    /\ Digits(0) = <<>>
    /\ \A n \in Nat : n > 0 => Digits(n) = Append(Digits(n \div Base), n % Base)
<1> DEFINE p == [n \in Nat |-> n \div Base]
           h == [x \in Nat \X Seq(Nat) |-> Append(x[2], x[1] % Base)]
           Body(f) == [n \in Nat |-> IF n = 0 THEN <<>> ELSE Append(f[n \div Base], n % Base)]
           digits == CHOOSE f : f = Body(f)
<1>1. Recurses(Seq(Nat), <<>>, p, h)
  <2>1. <<>> \in Seq(Nat)
    OBVIOUS
  <2>2. p \in [Nat -> Nat] /\ \A n \in Nat : n > 0 => p[n] < n
    BY Division
  <2>3. ASSUME NEW x \in Nat \X Seq(Nat) PROVE Append(x[2], x[1] % Base) \in Seq(Nat)
    <3>1. x[1] \in Nat /\ x[2] \in Seq(Nat)
      BY <2>3
    <3>2. x[1] % Base \in Nat
      BY <3>1, Division
    <3>3. QED
      BY <3>1, <3>2
  <2>4. QED
    BY <2>1, <2>2, <2>3 DEF Recurses
<1>2. PICK f \in [Nat -> Seq(Nat)] :
        f[0] = <<>> /\ \A n \in Nat : n > 0 => f[n] = h[<<n, f[p[n]]>>]
  <2> DEFINE S == Seq(Nat)
             e == <<>>
  <2>1. Recurses(S, e, p, h)
    BY <1>1
  <2> HIDE DEF p, h, S, e
  <2>2. \E f \in [Nat -> S] :
          f[0] = e /\ \A n \in Nat : n > 0 => f[n] = h[<<n, f[p[n]]>>]
    BY <2>1, Recursion
  <2>3. QED
    BY <2>2 DEF S, e
<1>3. f = Body(f)
  <2>1. \A n \in Nat : n > 0 => f[n] = Append(f[n \div Base], n % Base)
    <3>1. ASSUME NEW n \in Nat, n > 0 PROVE f[n] = Append(f[n \div Base], n % Base)
      <4>1. n \div Base \in Nat /\ p[n] = n \div Base
        BY Division
      <4>2. h[<<n, f[n \div Base]>>] = Append(f[n \div Base], n % Base)
        BY <4>1
      <4>3. QED
        BY <1>2, <3>1, <4>1, <4>2
    <3>2. QED
      BY <3>1
  <2>2. \A n \in Nat : f[n] = IF n = 0 THEN <<>> ELSE Append(f[n \div Base], n % Base)
    <3>1. TAKE n \in Nat
    <3>2. CASE n = 0
      BY <1>2, <3>2, Zenon
    <3>3. CASE n > 0
      <4>1. n # 0
        BY <3>3
      <4>2. QED
        BY <2>1, <3>3, <4>1, Zenon
    <3>4. QED
      BY <3>2, <3>3
  <2>3. QED
    BY <2>2
<1>4. digits = Body(digits)
  <2> HIDE DEF Body
  <2>1. QED
    BY <1>3
<1>5. \A n : Digits(n) = digits[n]
  BY DEF Digits
<1> HIDE DEF digits
<1>6. \A n \in Nat : digits[n] = IF n = 0 THEN <<>> ELSE Append(digits[n \div Base], n % Base)
  BY <1>4
<1>7. Digits(0) = <<>>
  BY <1>5, <1>6, Zenon
<1>8. ASSUME NEW n \in Nat, n > 0 PROVE Digits(n) = Append(Digits(n \div Base), n % Base)
  <2>1. n # 0
    BY <1>8
  <2>2. QED
    BY <1>5, <1>6, <2>1, Zenon
<1>9. QED
  BY <1>7, <1>8

LEMMA DigitsType == \A n \in Nat : Digits(n) \in Codes
<1> DEFINE P == {n \in Nat : Digits(n) \in Codes}
<1>1. ASSUME NEW n \in Nat, \A i \in Nat : i < n => i \in P
      PROVE  n \in P
  <2>1. CASE n = 0
    <3>1. Digits(0) = <<>>
      BY DigitsStep
    <3>2. <<>> \in Codes
      BY DEF Codes
    <3>3. QED
      BY <2>1, <3>1, <3>2
  <2>2. CASE n > 0
    <3>1. n \div Base \in P /\ n % Base \in 0..(Base - 1)
      BY <1>1, <2>2, Division
    <3>2. Append(Digits(n \div Base), n % Base) \in Codes
      BY <3>1 DEF Codes
    <3>3. QED
      BY <2>2, <3>2, DigitsStep
  <2>3. QED
    BY <2>1, <2>2
<1> HIDE DEF P
<1>2. \A n \in Nat : n \in P
  BY <1>1, Induction
<1>3. QED
  BY <1>2 DEF P

LEMMA WordType == WordSpan \in Nat \ {0}
<1>1. MaxTime + 1 \in Nat /\ MaxTime + 1 >= 1 /\ NodeSpan \in Nat /\ NodeSpan >= 1
      /\ SeqSpan \in Nat /\ SeqSpan >= 1
  BY SpanAssumption, BoundAssumption
<1> DEFINE a == (MaxTime + 1) * NodeSpan
<1>2. ASSUME NEW x \in Nat, NEW y \in Nat, x >= 1, y >= 1 PROVE x * y \in Nat /\ x * y >= 1
  BY <1>2
<1>3. a \in Nat /\ a >= 1
  BY <1>1, <1>2
<1> HIDE DEF a
<1>4. a * SeqSpan \in Nat /\ a * SeqSpan >= 1
  BY <1>1, <1>2, <1>3
<1>5. a * SeqSpan <= WordSpan /\ WordSpan \in Nat
  BY CodeAssumption DEF a
<1>6. QED
  BY <1>4, <1>5

\* v[i] is what the loop of Base62Decode holds after i characters of the code.
Values(v, code) ==
    /\ v \in [0..Len(code) -> Nat]
    /\ v[0] = 0
    /\ \A i \in 1..Len(code) : v[i] = (v[i - 1] * Base + code[i]) % WordSpan

LEMMA DecodeValue ==
    ASSUME NEW code \in Codes, NEW v, Values(v, code)
    PROVE  Base62Decode(code) = v[Len(code)]
<1> DEFINE Body(f) == [i \in 0..Len(code) |->
                          IF i = 0 THEN 0 ELSE (f[i - 1] * Base + code[i]) % WordSpan]
           num == CHOOSE f : f = Body(f)
<1>0. Len(code) \in Nat
  BY DEF Codes
<1>1. v = Body(v)
  <2>1. \A i \in 0..Len(code) :
          v[i] = IF i = 0 THEN 0 ELSE (v[i - 1] * Base + code[i]) % WordSpan
    <3>1. TAKE i \in 0..Len(code)
    <3>2. i = 0 \/ (i # 0 /\ i \in 1..Len(code))
      BY <1>0
    <3>3. QED
      BY <3>2, Zenon DEF Values
  <2>2. QED
    BY <2>1, Zenon DEF Values
<1>2. num = Body(num)
  <2> HIDE DEF Body
  <2>1. QED
    BY <1>1
<1>3. Base62Decode(code) = num[Len(code)]
  BY DEF Base62Decode
<1> HIDE DEF num
<1>4. \A i \in 0..Len(code) :
        num[i] = IF i = 0 THEN 0 ELSE (num[i - 1] * Base + code[i]) % WordSpan
  BY <1>2, Zenon
<1> DEFINE P == {i \in Nat : i <= Len(code) => num[i] = v[i]}
<1>5. ASSUME NEW i \in Nat, \A j \in Nat : j < i => j \in P
      PROVE  i \in P
  <2>1. CASE i = 0
    <3>1. 0 \in 0..Len(code)
      BY <1>0
    <3>2. num[0] = 0 /\ v[0] = 0
      BY <1>4, <3>1, Zenon DEF Values
    <3>3. QED
      BY <2>1, <3>2
  <2>2. CASE i > 0 /\ i <= Len(code)
    <3>1. i - 1 \in Nat /\ i - 1 < i /\ i - 1 <= Len(code)
      BY <1>0, <2>2
    <3>2. num[i - 1] = v[i - 1]
      BY <1>5, <3>1
    <3>3. i \in 0..Len(code) /\ i \in 1..Len(code) /\ i # 0
      BY <1>0, <2>2
    <3>4. num[i] = (num[i - 1] * Base + code[i]) % WordSpan
      BY <1>4, <3>3, Zenon
    <3>5. v[i] = (v[i - 1] * Base + code[i]) % WordSpan
      BY <3>3, Zenon DEF Values
    <3>6. num[i] = v[i]
      BY <3>2, <3>4, <3>5, Zenon
    <3>7. QED
      BY <3>6
  <2>3. CASE ~(i <= Len(code))
    BY <2>3
  <2>4. QED
    BY <2>1, <2>2, <2>3
<1> HIDE DEF P
<1>6. \A i \in Nat : i \in P
  BY <1>5, Induction
<1>7. Len(code) \in P
  BY <1>0, <1>6
<1>8. QED
  BY <1>0, <1>3, <1>7 DEF P

LEMMA ValuesExist ==
    ASSUME NEW code \in Codes
    PROVE  \E v : Values(v, code)
<1> DEFINE p == [n \in Nat |-> IF n = 0 THEN 0 ELSE n - 1]
           next(n, x) == IF n \in 1..Len(code) THEN (x * Base + code[n]) % WordSpan ELSE 0
           h == [x \in Nat \X Nat |-> next(x[1], x[2])]
           len == Len(code)
<1>1. Recurses(Nat, 0, p, h)
  <2>1. p \in [Nat -> Nat] /\ \A n \in Nat : n > 0 => p[n] < n
    OBVIOUS
  <2>2. ASSUME NEW n \in Nat, NEW x \in Nat PROVE next(n, x) \in Nat
    <3>1. CASE n \in 1..Len(code)
      <4>1. code[n] \in Nat
        BY <3>1, CodeAssumption DEF Codes
      <4>2. x * Base + code[n] \in Nat
        BY <4>1, CodeAssumption
      <4>3. (x * Base + code[n]) % WordSpan \in Nat
        BY <4>2, WordType
      <4>4. QED
        BY <3>1, <4>3
    <3>2. QED
      BY <3>1
  <2> HIDE DEF next
  <2>3. h \in [Nat \X Nat -> Nat]
    BY <2>2
  <2>4. QED
    BY <2>1, <2>3 DEF Recurses
<1>2. len \in Nat
  BY DEF Codes
<1>3. ASSUME NEW f, Recursive(f, len, Nat, 0, p, h) PROVE Values(f, code)
  <2>1. ASSUME NEW i \in 1..Len(code)
        PROVE  f[i] = (f[i - 1] * Base + code[i]) % WordSpan
    <3>1. i \in Nat /\ i - 1 \in 0..Len(code) /\ p[i] = i - 1
      BY <1>2
    <3>2. f[i - 1] \in Nat
      BY <1>3, <3>1 DEF Recursive
    <3>3. f[i] = h[<<i, f[p[i]]>>]
      BY <1>3 DEF Recursive
    <3>4. h[<<i, f[i - 1]>>] = next(i, f[i - 1])
      BY <3>1, <3>2
    <3>5. QED
      BY <2>1, <3>1, <3>3, <3>4
  <2>2. QED
    BY <1>3, <2>1 DEF Recursive, Values
<1> HIDE DEF p, h, len
<1>4. \E f : Recursive(f, len, Nat, 0, p, h)
  BY <1>1, <1>2, RecursiveExists
<1>5. QED
  BY <1>3, <1>4

LEMMA DecodeEmpty == Base62Decode(<<>>) = 0
<1>1. <<>> \in Codes /\ Len(<<>>) = 0
  BY DEF Codes
<1>2. PICK v : Values(v, <<>>)
  BY <1>1, ValuesExist
<1>3. Base62Decode(<<>>) = v[0]
  BY <1>1, <1>2, DecodeValue
<1>4. QED
  BY <1>2, <1>3 DEF Values

\* One more character.
LEMMA DecodeAppend ==
    ASSUME NEW code \in Codes, NEW d \in 0..(Base - 1)
    PROVE  Base62Decode(Append(code, d)) = (Base62Decode(code) * Base + d) % WordSpan
<1> DEFINE len == Len(code)
           longer == Append(code, d)
<1>1. /\ len \in Nat /\ longer \in Codes /\ Len(longer) = len + 1
      /\ longer[len + 1] = d /\ \A i \in 1..len : longer[i] = code[i]
  BY DEF Codes
<1>2. PICK v : Values(v, code)
  BY ValuesExist
<1> DEFINE last == (v[len] * Base + d) % WordSpan
           w == [i \in 0..(len + 1) |-> IF i <= len THEN v[i] ELSE last]
<1>3. v[len] \in Nat /\ v \in [0..len -> Nat]
  BY <1>1, <1>2 DEF Values
<1>4. last \in Nat
  <2>1. v[len] * Base + d \in Nat
    BY <1>3, CodeAssumption
  <2>2. QED
    BY <2>1, WordType
<1> HIDE DEF last, len, longer
<1>5. /\ w \in [0..(len + 1) -> Nat] /\ w[len + 1] = last
      /\ \A i \in 0..len : w[i] = v[i]
  <2>1. \A i \in 0..(len + 1) : (IF i <= len THEN v[i] ELSE last) \in Nat
    BY <1>1, <1>3, <1>4
  <2>2. \A i \in 0..len : i \in 0..(len + 1) /\ i <= len
    BY <1>1
  <2>3. len + 1 \in 0..(len + 1) /\ ~(len + 1 <= len)
    BY <1>1
  <2>4. QED
    BY <2>1, <2>2, <2>3, Zenon
<1> HIDE DEF w
<1>6. \A i \in 1..(len + 1) : w[i] = (w[i - 1] * Base + longer[i]) % WordSpan
  <2>1. TAKE i \in 1..(len + 1)
  <2>2. i - 1 \in 0..len
    BY <1>1
  <2>3. w[i - 1] = v[i - 1]
    BY <1>5, <2>2
  <2>4. CASE i = len + 1
    <3>1. i - 1 = len
      BY <1>1, <2>4
    <3>2. longer[i] = d /\ w[i] = last
      BY <1>1, <1>5, <2>4
    <3>3. QED
      BY <2>3, <3>1, <3>2 DEF last
  <2>5. CASE i \in 1..len
    <3>1. i \in 0..len
      BY <2>5
    <3>2. w[i] = v[i] /\ longer[i] = code[i]
      BY <1>1, <1>5, <2>5, <3>1
    <3>3. v[i] = (v[i - 1] * Base + code[i]) % WordSpan
      BY <1>2, <2>5, Zenon DEF Values, len
    <3>4. QED
      BY <2>3, <3>2, <3>3, Zenon
  <2>6. QED
    BY <1>1, <2>4, <2>5
<1>7. w[0] = 0
  <2>1. 0 \in 0..len /\ v[0] = 0
    BY <1>1, <1>2 DEF Values
  <2>2. QED
    BY <1>5, <2>1
<1>8. Values(w, longer)
  BY <1>1, <1>5, <1>6, <1>7 DEF Values
<1>9. Base62Decode(longer) = w[len + 1]
  BY <1>1, <1>8, DecodeValue
<1>10. Base62Decode(code) = v[len]
  BY <1>2, DecodeValue DEF len
<1>11. QED
  BY <1>5, <1>9, <1>10 DEF last, longer

\* A number below the word size comes back from its digits.
LEMMA DecodeDigits == \A n \in Nat : n < WordSpan => Base62Decode(Digits(n)) = n
<1> DEFINE P == {n \in Nat : n < WordSpan => Base62Decode(Digits(n)) = n}
<1>1. ASSUME NEW n \in Nat, \A i \in Nat : i < n => i \in P
      PROVE  n \in P
  <2>1. CASE n = 0
    BY <2>1, DigitsStep, DecodeEmpty
  <2>2. CASE n > 0 /\ n < WordSpan
    <3> DEFINE q == n \div Base
               r == n % Base
    <3>1. q \in Nat /\ q < n /\ r \in 0..(Base - 1) /\ n = q * Base + r
      BY <2>2, Division
    <3>2. Digits(n) = Append(Digits(q), r) /\ Digits(q) \in Codes
      BY <2>2, <3>1, DigitsStep, DigitsType
    <3>3. q < WordSpan
      BY <2>2, <3>1, WordType
    <3>4. Base62Decode(Digits(q)) = q
      BY <1>1, <3>1, <3>3
    <3> HIDE DEF q, r
    <3>5. Base62Decode(Digits(n)) = (q * Base + r) % WordSpan
      BY <3>1, <3>2, <3>4, DecodeAppend
    <3>6. n % WordSpan = n
      BY <2>2, WordType
    <3>7. Base62Decode(Digits(n)) = n
      BY <3>1, <3>5, <3>6, Zenon
    <3>8. QED
      BY <3>7
  <2>3. QED
    BY <2>1, <2>2
<1> HIDE DEF P
<1>2. \A n \in Nat : n \in P
  BY <1>1, Induction
<1>3. QED
  BY <1>2 DEF P

\* Zeros in front of a code do not change what it decodes to.
LEMMA DecodePadded ==
    ASSUME NEW code \in Codes, NEW m \in Nat
    PROVE  Base62Decode(Zeros(m) \o code) = Base62Decode(code)
<1> DEFINE len == Len(code)
           longer == Zeros(m) \o code
<1>0. 0 \in 0..(Base - 1)
  BY CodeAssumption
<1>1. /\ len \in Nat /\ longer \in Codes /\ Len(longer) = m + len
      /\ \A i \in 1..m : longer[i] = 0
      /\ \A i \in 1..len : longer[m + i] = code[i]
  BY <1>0 DEF Codes, Zeros
<1>2. PICK v : Values(v, code)
  BY ValuesExist
<1> DEFINE w == [i \in 0..(m + len) |-> IF i <= m THEN 0 ELSE v[i - m]]
<1>3. v \in [0..len -> Nat] /\ v[0] = 0
  BY <1>2 DEF Values
<1> HIDE DEF len, longer
<1>4. /\ w \in [0..(m + len) -> Nat]
      /\ \A i \in 0..m : w[i] = 0
      /\ \A i \in 0..len : w[m + i] = v[i]
  <2>1. \A i \in 0..(m + len) : (IF i <= m THEN 0 ELSE v[i - m]) \in Nat
    <3>1. \A i \in 0..(m + len) : ~(i <= m) => i - m \in 0..len
      BY <1>1
    <3>2. QED
      BY <1>3, <3>1
  <2>2. \A i \in 0..m : i \in 0..(m + len) /\ i <= m
    BY <1>1
  <2>3. ASSUME NEW i \in 0..len PROVE w[m + i] = v[i]
    <3>1. m + i \in 0..(m + len) /\ (m + i) - m = i /\ (m + i <= m => i = 0)
      BY <1>1
    <3>2. w[m + i] = IF m + i <= m THEN 0 ELSE v[(m + i) - m]
      BY <3>1
    <3>3. QED
      BY <1>3, <3>1, <3>2
  <2>4. QED
    BY <2>1, <2>2, <2>3, Zenon
<1> HIDE DEF w
<1>5. \A i \in 1..(m + len) : w[i] = (w[i - 1] * Base + longer[i]) % WordSpan
  <2>1. TAKE i \in 1..(m + len)
  <2>2. CASE i <= m
    <3>1. i \in 1..m /\ i \in 0..m /\ i - 1 \in 0..m
      BY <2>2
    <3>2. w[i] = 0 /\ w[i - 1] = 0 /\ longer[i] = 0
      BY <1>1, <1>4, <3>1
    <3>3. (0 * Base + 0) % WordSpan = 0
      BY WordType, CodeAssumption
    <3>4. QED
      BY <3>2, <3>3, Zenon
  <2>3. CASE i > m
    <3>1. PICK j \in 1..len : i = m + j
      <4>1. i - m \in 1..len /\ i = m + (i - m)
        BY <1>1, <2>3
      <4>2. QED
        BY <4>1
    <3>2. j \in 0..len /\ j - 1 \in 0..len /\ i - 1 = m + (j - 1)
      BY <1>1, <3>1
    <3>3. w[i] = v[j] /\ w[i - 1] = v[j - 1] /\ longer[i] = code[j]
      BY <1>1, <1>4, <3>1, <3>2
    <3>4. v[j] = (v[j - 1] * Base + code[j]) % WordSpan
      BY <1>2, Zenon DEF Values, len
    <3>5. QED
      BY <3>3, <3>4, Zenon
  <2>4. QED
    BY <1>1, <2>2, <2>3
<1>6. w[0] = 0 /\ w[m + len] = v[len]
  BY <1>1, <1>4
<1>7. Values(w, longer)
  BY <1>1, <1>4, <1>5, <1>6 DEF Values
<1>8. Base62Decode(longer) = w[m + len]
  BY <1>1, <1>7, DecodeValue
<1>9. Base62Decode(code) = v[len]
  BY <1>2, DecodeValue DEF len
<1>10. QED
  BY <1>6, <1>8, <1>9 DEF longer

\* What Base62Decode promises of Base62Encode, for every number of 64 bits:
\* also when the code has been padded to its least length in between
\* (base62.go:33, url_service.go:68).
THEOREM RoundTrip ==
    ASSUME NEW id \in Nat, id < WordSpan
    PROVE  Base62Decode(ShortCode(id)) = id
<1> DEFINE code == Base62Encode(id)
<1>1. code \in Codes /\ Base62Decode(code) = id
  <2>1. CASE id = 0
    <3>1. code = Append(<<>>, 0) /\ <<>> \in Codes /\ 0 \in 0..(Base - 1)
      BY <2>1, CodeAssumption DEF Base62Encode, Codes
    <3>2. Base62Decode(code) = (0 * Base + 0) % WordSpan
      BY <3>1, DecodeEmpty, DecodeAppend
    <3>3. (0 * Base + 0) % WordSpan = 0
      BY WordType, CodeAssumption
    <3>4. Append(<<>>, 0) \in Codes
      BY <3>1 DEF Codes
    <3>5. QED
      BY <2>1, <3>1, <3>2, <3>3, <3>4, Zenon
  <2>2. CASE id # 0
    BY <2>2, DigitsType, DecodeDigits DEF Base62Encode
  <2>3. QED
    BY <2>1, <2>2
<1>2. ShortCode(id) = Pad(code)
  BY DEF ShortCode
<1> HIDE DEF code
<1>3. CASE Len(code) < MinLen
  <2>1. MinLen - Len(code) \in Nat
    BY <1>1, <1>3, CodeAssumption DEF Codes
  <2>2. ShortCode(id) = Zeros(MinLen - Len(code)) \o code
    BY <1>2, <1>3 DEF Pad
  <2>3. QED
    BY <1>1, <2>1, <2>2, DecodePadded
<1>4. CASE ~(Len(code) < MinLen)
  BY <1>1, <1>2, <1>4 DEF Pad
<1>5. QED
  BY <1>3, <1>4

-----------------------------------------------------------------------------
(* The codes of the IDs *)

\* An ID has the generator's three fields, whatever its clock does.
Fields ==
    \A p \in Procs : \A i \in 1..Len(issued[p]) :
        \E t \in 0..MaxTime, s \in 0..(SeqSpan - 1) : issued[p][i] = ID(t, NodeId[p], s)

LEMMA FieldsStep ==
    ASSUME TypeOK, Fields, [Next]_vars
    PROVE  Fields'
<1>1. CASE UNCHANGED issued
  BY <1>1 DEF Fields
<1>2. ASSUME NEW p \in Procs, NEW now \in 0..MaxTime, NEW seq \in 0..(SeqSpan - 1),
             Issue(p, now, seq)
      PROVE  Fields'
  <2> DEFINE id == ID(now, NodeId[p], seq)
  <2>1. /\ issued[p] \in Seq(Nat) /\ issued'[p] = Append(issued[p], id)
        /\ \A q \in Procs : q # p => issued'[q] = issued[q]
    BY <1>2 DEF Issue, TypeOK
  <2>2. id \in Nat
    BY SpanAssumption, IDType
  <2>3. \E t \in 0..MaxTime, s \in 0..(SeqSpan - 1) : id = ID(t, NodeId[p], s)
    OBVIOUS
  <2> HIDE DEF id
  <2>4. /\ Len(issued'[p]) = Len(issued[p]) + 1
        /\ issued'[p][Len(issued[p]) + 1] = id
        /\ \A i \in 1..Len(issued[p]) : issued'[p][i] = issued[p][i]
        /\ Len(issued[p]) \in Nat
    BY <2>1, <2>2
  <2>5. SUFFICES ASSUME NEW q \in Procs, NEW i \in 1..Len(issued'[q])
                 PROVE  \E t \in 0..MaxTime, s \in 0..(SeqSpan - 1) :
                          issued'[q][i] = ID(t, NodeId[q], s)
    BY DEF Fields
  <2>6. CASE q # p
    BY <2>1, <2>6 DEF Fields
  <2>7. CASE q = p /\ i \in 1..Len(issued[p])
    BY <2>4, <2>7 DEF Fields
  <2>8. CASE q = p /\ i = Len(issued[p]) + 1
    BY <2>3, <2>4, <2>8
  <2>9. QED
    BY <2>4, <2>6, <2>7, <2>8
<1>3. ASSUME NEW p \in Procs, Generate(p) \/ Spin(p) PROVE Fields'
  BY <1>1, <1>2, <1>3, GenerateAdvances DEF Advance
<1>4. QED
  BY <1>1, <1>3 DEF Next, Tick, SetBack, Restart, vars

\* An ID fits in a word.
LEMMA IDFits ==
    ASSUME NEW t \in 0..MaxTime, NEW n \in 0..(NodeSpan - 1), NEW s \in 0..(SeqSpan - 1)
    PROVE  ID(t, n, s) \in Nat /\ ID(t, n, s) < WordSpan
<1> DEFINE a == t * NodeSpan + n
           b == (MaxTime + 1) * NodeSpan
<1>1. t \in Int /\ t >= 0 /\ MaxTime + 1 \in Int /\ t < MaxTime + 1
  BY BoundAssumption
<1>2. NodeSpan \in Nat /\ SeqSpan \in Nat /\ 0 \in 0..(NodeSpan - 1) /\ 0 \in 0..(SeqSpan - 1)
  BY SpanAssumption
<1>3. a \in Int /\ b \in Int /\ a < b
  <2>1. a < b + 0
    BY <1>1, <1>2, Pack
  <2>2. t * NodeSpan \in Int /\ b \in Int
    BY <1>1, <1>2
  <2>3. QED
    BY <2>1, <2>2
<1> HIDE DEF a, b
<1>4. a * SeqSpan + s < b * SeqSpan + 0
  BY <1>2, <1>3, Pack
<1>5. a * SeqSpan \in Int /\ b * SeqSpan \in Int /\ b * SeqSpan <= WordSpan
  BY <1>2, <1>3, CodeAssumption DEF b
<1>6. ID(t, n, s) = a * SeqSpan + s
  BY DEF ID, a
<1>7. ID(t, n, s) \in Nat
  BY <1>1, IDType
<1>8. QED
  BY <1>4, <1>5, <1>6, <1>7, WordType

LEMMA IssuedFits ==
    ASSUME Fields, NEW p \in Procs, NEW i \in 1..Len(issued[p])
    PROVE  issued[p][i] \in Nat /\ issued[p][i] < WordSpan
<1>1. PICK t \in 0..MaxTime, s \in 0..(SeqSpan - 1) : issued[p][i] = ID(t, NodeId[p], s)
  BY DEF Fields
<1>2. NodeId[p] \in 0..(NodeSpan - 1)
  BY SpanAssumption
<1>3. QED
  BY <1>1, <1>2, IDFits

LEMMA FieldsHold == Spec => []Fields
<1>1. Init => Fields
  BY DEF Init, Fields
<1>2. TypeOK /\ Fields /\ [Next]_vars => Fields'
  BY FieldsStep
<1>3. QED
  BY <1>1, <1>2, TypeCorrect, PTL DEF Spec

\* Every code that is given out decodes to the ID it was made from, whatever
\* the clocks do and whichever processes share a node number (base62.go:33).
THEOREM CodesDecoded == Spec => []CodesDecode
<1>1. Fields => CodesDecode
  BY IssuedFits, RoundTrip DEF CodesDecode
<1>2. QED
  BY <1>1, FieldsHold, PTL
=============================================================================
