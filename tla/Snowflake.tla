----------------------------- MODULE Snowflake ------------------------------
(***************************************************************************)
(* The ID generator of the Go API (internal/pkg/snowflake/snowflake.go),   *)
(* one per process, each with the wall clock of its own host, which may be *)
(* set back.  A mutex makes Generate atomic but for its busy wait, during  *)
(* which every other caller of the process waits: one action takes the     *)
(* lock and computes, another one ends the wait.                           *)
(***************************************************************************)
EXTENDS Integers, Sequences

CONSTANTS
    Procs,        \* API processes
    NodeId,       \* NodeId[p]: the node number of process p's generator
    NodeSpan,     \* node numbers there are, 2^nodeBits
    SeqSpan,      \* sequence numbers in a millisecond, 2^sequenceBits
    Restarted,    \* processes that may be restarted
    MaxTime,      \* bound on the clocks, in milliseconds since the epoch
    MaxBacks,     \* MaxBacks[p]: bound on how often p's clock is set back
    MaxIds        \* bound on the IDs a process makes

VARIABLES
    clock,        \* clock[p]: the wall clock process p reads
    backs,        \* backs[p]: how often that clock has been set back
    lastStamp,    \* lastStamp[p]: the stamp of p's last ID, -1 for none
    sequence,     \* sequence[p]: the sequence number within that stamp
    spinning,     \* spinning[p]: a caller holds the mutex in the busy wait
    issued        \* history: the IDs p has made, in order

vars == <<clock, backs, lastStamp, sequence, spinning, issued>>

ASSUME SpanAssumption ==
    /\ NodeSpan \in Nat \ {0}
    /\ SeqSpan \in Nat \ {0}
    /\ NodeId \in [Procs -> 0..(NodeSpan - 1)]
ASSUME BoundAssumption ==
    /\ MaxTime \in Nat /\ MaxIds \in Nat
    /\ MaxBacks \in [Procs -> Nat]
    /\ Restarted \subseteq Procs

\* Three fields in one number; the fields do not overlap, so | is +.
ID(stamp, node, seq) == (stamp * NodeSpan + node) * SeqSpan + seq

TypeOK ==
    /\ clock \in [Procs -> 0..MaxTime]
    /\ backs \in [Procs -> Nat]
    /\ \A p \in Procs : backs[p] <= MaxBacks[p]
    /\ lastStamp \in [Procs -> -1..MaxTime]
    /\ sequence \in [Procs -> 0..(SeqSpan - 1)]
    /\ spinning \in [Procs -> BOOLEAN]
    /\ issued \in [Procs -> Seq(Nat)]

\* NewNode; the clocks start anywhere.
Init ==
    /\ clock \in [Procs -> 0..MaxTime]
    /\ backs = [p \in Procs |-> 0]
    /\ lastStamp = [p \in Procs |-> -1]
    /\ sequence = [p \in Procs |-> 0]
    /\ spinning = [p \in Procs |-> FALSE]
    /\ issued = [p \in Procs |-> <<>>]

\* A clock that went backwards is read as the last stamp.
Now_Raw(p) == clock[p]
Now(p) == IF clock[p] < lastStamp[p] THEN lastStamp[p] ELSE clock[p]

\* n.sequence = (n.sequence + 1) & maxSequence
NextSeq_Wide(p) == (sequence[p] + 1) % (SeqSpan + 1)
NextSeq(p) == (sequence[p] + 1) % SeqSpan

Issue(p, now, seq) ==
    /\ lastStamp' = [lastStamp EXCEPT ![p] = now]
    /\ sequence' = [sequence EXCEPT ![p] = seq]
    /\ issued' = [issued EXCEPT ![p] = Append(@, ID(now, NodeId[p], seq))]

Generate(p) ==
    /\ ~spinning[p]
    /\ Len(issued[p]) < MaxIds
    /\ lastStamp[p] < MaxTime    \* bound: leaves the busy wait a later time
    /\ \/ /\ Now(p) # lastStamp[p]
          /\ Issue(p, Now(p), 0)
          /\ UNCHANGED spinning
       \/ /\ Now(p) = lastStamp[p]
          /\ NextSeq(p) # 0
          /\ Issue(p, Now(p), NextSeq(p))
          /\ UNCHANGED spinning
       \/ /\ Now(p) = lastStamp[p]
          /\ NextSeq(p) = 0
          /\ sequence' = [sequence EXCEPT ![p] = 0]
          /\ spinning' = [spinning EXCEPT ![p] = TRUE]
          /\ UNCHANGED <<lastStamp, issued>>
    /\ UNCHANGED <<clock, backs>>

\* The busy wait ends when the clock, read anew, has passed the last stamp.
Past_NotReread(p) == clock[p] > clock[p]
Past_Reached(p) == clock[p] >= lastStamp[p]
Past(p) == clock[p] > lastStamp[p]

Spin(p) ==
    /\ spinning[p]
    /\ Past(p)
    /\ Issue(p, clock[p], 0)
    /\ spinning' = [spinning EXCEPT ![p] = FALSE]
    /\ UNCHANGED <<clock, backs>>

Tick(p) ==
    /\ clock[p] < MaxTime
    /\ clock' = [clock EXCEPT ![p] = @ + 1]
    /\ UNCHANGED <<backs, lastStamp, sequence, spinning, issued>>

\* The host's clock is corrected, by any amount.
SetBack(p) ==
    /\ backs[p] < MaxBacks[p]
    /\ \E t \in 0..(clock[p] - 1) : clock' = [clock EXCEPT ![p] = t]
    /\ backs' = [backs EXCEPT ![p] = @ + 1]
    /\ UNCHANGED <<lastStamp, sequence, spinning, issued>>

\* A new process, with a new generator; starting it takes time.
Restart(p) ==
    /\ p \in Restarted
    /\ clock[p] < MaxTime
    /\ clock' = [clock EXCEPT ![p] = @ + 1]
    /\ lastStamp' = [lastStamp EXCEPT ![p] = -1]
    /\ sequence' = [sequence EXCEPT ![p] = 0]
    /\ spinning' = [spinning EXCEPT ![p] = FALSE]
    /\ UNCHANGED <<backs, issued>>

Next == \E p \in Procs :
            \/ Generate(p) \/ Spin(p)
            \/ Tick(p) \/ SetBack(p) \/ Restart(p)

Spec == Init /\ [][Next]_vars

\* The busy wait goes on reading the clock, and time passes.
FairSpec == Spec /\ \A p \in Procs : WF_vars(Spin(p)) /\ WF_vars(Tick(p))

-----------------------------------------------------------------------------
(* Properties *)

\* A process's IDs grow: a clock set back, a full millisecond, the wait for the
\* next one and a restart never produce an ID below an earlier one
\* (snowflake.go:47-61), unless a process that restarts had its clock set back.
Increasing ==
    \A p \in Procs : \A i, j \in 1..Len(issued[p]) :
        i < j => issued[p][i] < issued[p][j]

\* The busy wait, which every shorten request of the process may be queued
\* behind, ends (snowflake.go:55), if the clock is set back finitely often.
SpinEnds == \A p \in Procs : spinning[p] ~> ~spinning[p]

\* The highest ID the generator may have made by now: the last one of the
\* millisecond when a caller waits, and of the one before when it starts anew.
Position(p) ==
    IF lastStamp[p] = -1 THEN ID(clock[p] - 1, NodeId[p], SeqSpan - 1)
    ELSE ID(lastStamp[p], NodeId[p],
            IF spinning[p] THEN SeqSpan - 1 ELSE sequence[p])

\* Every ID carries its process's node number, and none lies above the
\* generator's position, which is what the state that survives has to ensure:
\* after a restart that is the clock alone (snowflake.go:37).
Bounded ==
    \A p \in Procs : \A i \in 1..Len(issued[p]) :
        /\ issued[p][i] <= Position(p)
        /\ \E t \in 0..MaxTime, s \in 0..(SeqSpan - 1) :
             issued[p][i] = ID(t, NodeId[p], s)
=============================================================================
