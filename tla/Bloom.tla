-------------------------------- MODULE Bloom --------------------------------
(***************************************************************************)
(* The Bloom filter of an API process (internal/pkg/bloom/bloom.go): a bit *)
(* array in 64-bit words, which goroutines read and write under a          *)
(* sync.RWMutex.  Setting a bit reads its word and writes it back, so that *)
(* two writers at once could lose a bit.  The hash is any function from a  *)
(* code and a seed to a bit.                                               *)
(*                                                                         *)
(* A writer that waits for the lock keeps new readers out.                 *)
(***************************************************************************)
EXTENDS Integers

CONSTANTS
    Threads,     \* goroutines of the process
    Codes,       \* short codes
    None,        \* no thread, no code, no answer
    M,           \* bits in the filter
    K,           \* bits per code, at least one
    WordBits,    \* bits in a word, 64
    Hash         \* Hash[c][i]: the bit of code c for seed i

VARIABLES
    bitset,      \* bitset[w]: the bits set in word w
    writer,      \* the thread that has, or waits for, the write lock, or None
    readers,     \* the threads that have the read lock
    call,        \* call[t]: where thread t is in which call
    added        \* history: the codes whose Add has returned

vars == <<bitset, writer, readers, call, added>>

ASSUME SizeAssumption ==
    /\ M \in Nat \ {0} /\ K \in Nat \ {0} /\ WordBits \in Nat \ {0}
ASSUME HashAssumption == Hash \in [Codes -> [0..(K - 1) -> 0..(M - 1)]]
ASSUME NoneAssumption == None \notin Threads /\ None \notin Codes
                         /\ None \notin [code: Codes, found: BOOLEAN]

Word(bit) == bit \div WordBits
Words == 0..Word(M - 1)

\* A thread at one point of a call: with which code, at which seed, with which
\* word in hand.
Point(at, c, i, word) == [at |-> at, code |-> c, i |-> i, word |-> word]
Idle == Point("idle", None, 0, {})

\* The types of the variables.
TypeOK ==
    /\ bitset \in [Words -> SUBSET (0..(M - 1))]
    /\ writer \in Threads \cup {None}
    /\ readers \in SUBSET Threads
    /\ call \in [Threads -> [at: {"idle", "add", "load", "store", "unlock",
                                  "contains", "test", "yes", "no"},
                             code: Codes \cup {None}, i: 0..K,
                             word: SUBSET (0..(M - 1))]]
    /\ added \in SUBSET Codes

\* NewBloomFilter
Init ==
    /\ bitset = [w \in Words |-> {}]
    /\ writer = None
    /\ readers = {}
    /\ call = [t \in Threads |-> Idle]
    /\ added = {}

\* A definition named after another one with a suffix is that operator with a
\* bug in it, which a property has to notice (README, "Mutants").
Bit_Shifted(t) == Hash[call[t].code][call[t].i] + 1

\* The bit the call of thread t is at.
Bit(t) == Hash[call[t].code][call[t].i]

Goto(t, at, i, word) ==
    call' = [call EXCEPT ![t] = Point(at, call[t].code, i, word)]

\* Each call begins before it has the lock.
Begin(t) ==
    /\ call[t].at = "idle"
    /\ \E op \in {"add", "contains"}, c \in Codes :
         call' = [call EXCEPT ![t] = Point(op, c, 0, {})]
    /\ UNCHANGED <<bitset, writer, readers, added>>

-----------------------------------------------------------------------------
(* Add *)

WriterFree_Always == TRUE
WriterFree == writer = None

\* mu.Lock: one writer at a time; it still waits for the readers there are.
Lock(t) ==
    /\ call[t].at = "add"
    /\ WriterFree
    /\ writer' = t
    /\ Goto(t, "load", 0, {})
    /\ UNCHANGED <<bitset, readers, added>>

\* bitset[word] |= 1 << bit reads the word ...
Load(t) ==
    /\ call[t].at = "load"
    /\ readers = {}
    /\ Goto(t, "store", call[t].i, bitset[Word(Bit(t))])
    /\ UNCHANGED <<bitset, writer, readers, added>>

NextSeed_Skip(i) == i + 2
NextSeed(i) == i + 1

\* ... and writes it back.
Store(t) ==
    /\ call[t].at = "store"
    /\ bitset' = [bitset EXCEPT ![Word(Bit(t))] = call[t].word \cup {Bit(t)}]
    /\ LET i == NextSeed(call[t].i) IN
       IF i < K THEN Goto(t, "load", i, {}) ELSE Goto(t, "unlock", K, {})
    /\ UNCHANGED <<writer, readers, added>>

Unlock(t) ==
    /\ call[t].at = "unlock"
    /\ writer' = None
    /\ added' = added \cup {call[t].code}
    /\ call' = [call EXCEPT ![t] = Idle]
    /\ UNCHANGED <<bitset, readers>>

-----------------------------------------------------------------------------
(* Contains *)

RLock(t) ==
    /\ call[t].at = "contains"
    /\ writer = None
    /\ readers' = readers \cup {t}
    /\ Goto(t, "test", 0, {})
    /\ UNCHANGED <<bitset, writer, added>>

\* The first bit that is not set decides.
TestBit(t) ==
    /\ call[t].at = "test"
    /\ \/ /\ Bit(t) \notin bitset[Word(Bit(t))]
          /\ Goto(t, "no", call[t].i, {})
       \/ /\ Bit(t) \in bitset[Word(Bit(t))]
          /\ call[t].i + 1 < K
          /\ Goto(t, "test", call[t].i + 1, {})
       \/ /\ Bit(t) \in bitset[Word(Bit(t))]
          /\ call[t].i + 1 = K
          /\ Goto(t, "yes", call[t].i, {})
    /\ UNCHANGED <<bitset, writer, readers, added>>

Released_OnYes(t) == IF call[t].at = "yes" THEN readers \ {t} ELSE readers
Released(t) == readers \ {t}

\* The deferred RUnlock runs on both returns.
RUnlock(t) ==
    /\ call[t].at \in {"yes", "no"}
    /\ readers' = Released(t)
    /\ call' = [call EXCEPT ![t] = Idle]
    /\ UNCHANGED <<bitset, writer, added>>

-----------------------------------------------------------------------------

\* A new process has a new filter.
Restart ==
    /\ bitset' = [w \in Words |-> {}]
    /\ writer' = None
    /\ readers' = {}
    /\ call' = [t \in Threads |-> Idle]
    /\ added' = {}

Run(t) == Load(t) \/ Store(t) \/ Unlock(t) \/ TestBit(t) \/ RUnlock(t)

Next ==
    \/ \E t \in Threads : Begin(t) \/ Lock(t) \/ RLock(t) \/ Run(t)
    \/ Restart

Spec == Init /\ [][Next]_vars

\* Goroutines run, and the mutex starves nobody: an unlock hands the lock on to
\* those that wait.
Fairness ==
    \A t \in Threads : WF_vars(Run(t)) /\ SF_vars(Lock(t)) /\ SF_vars(RLock(t))

FairSpec == Spec /\ Fairness

-----------------------------------------------------------------------------
(* Properties *)

\* A code whose Add has returned is never "Definitely does not exist"
\* (bloom.go:74), whatever adds and checks run at the same time: no bit is lost
\* between the read and the write of a word, and no check sees half an Add.
NoFalseNegatives ==
    \A t \in Threads : call[t].at = "no" => call[t].code \notin added

\* Each call gets its lock and returns, the ones that return early included
\* (bloom.go:66 and 74), unless the process stops.
CallsReturn ==
    \A t \in Threads : (call[t].at \in {"add", "contains"}) ~> (call[t].at = "idle")

AnswerOf(t) == IF call[t].at \in {"yes", "no"}
               THEN [code |-> call[t].code, found |-> call[t].at = "yes"]
               ELSE None

Abstract == INSTANCE CodeFilter WITH
    members <- added,
    answers <- [t \in Threads |-> AnswerOf(t)]

\* Adds and checks act as if each took place at one instant, on a set: what the
\* URL service builds on (bloom_service.go:22-40).
ImplementsCodeFilter == Abstract!Spec
=============================================================================
