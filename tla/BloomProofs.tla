---------------------------- MODULE BloomProofs -----------------------------
(***************************************************************************)
(* Proofs about Bloom, for every number of goroutines, codes, bits and     *)
(* hashes, and every hash function.                                        *)
(***************************************************************************)
EXTENDS Bloom, TLAPS

Bits == 0..(M - 1)
Seeds == 0..(K - 1)

IsSet(bit) == bit \in bitset[Word(bit)]

\* The first n bits of code c are set.
HasBits(c, n) == \A j \in 0..(n - 1) : IsSet(Hash[c][j])

\* Where a call is says what it knows of its code and its seed.
CallType ==
    \A t \in Threads :
        /\ call[t].at # "idle" => call[t].code \in Codes
        /\ call[t].at \in {"load", "store", "test"} => call[t].i \in Seeds
        /\ call[t].at \in {"add", "contains"} => call[t].i = 0
        /\ call[t].at = "unlock" => call[t].i = K

\* A call that writes has the write lock; one that checks has a read lock.
LockHeld ==
    \A t \in Threads :
        /\ call[t].at \in {"load", "store", "unlock"} => writer = t
        /\ call[t].at \in {"test", "yes", "no"} => t \in readers

\* Nobody reads once the writer has begun.
Exclusive ==
    \A t \in Threads : call[t].at \in {"store", "unlock"} => readers = {}

\* The word a writer has read is still the word in memory.
Fresh ==
    \A t \in Threads :
        call[t].at = "store" => call[t].word = bitset[Word(Bit(t))]

\* A writer has set the bits of the seeds it has passed.
Progress ==
    \A t \in Threads :
        call[t].at \in {"load", "store", "unlock"} =>
            HasBits(call[t].code, call[t].i)

\* All bits of an added code are set.
Complete == \A c \in added : HasBits(c, K)

\* A check that says no has seen a bit that is still not set.
Witnessed ==
    \A t \in Threads :
        call[t].at = "no" => \E j \in Seeds : ~IsSet(Hash[call[t].code][j])

IInv ==
    /\ TypeOK
    /\ CallType
    /\ LockHeld
    /\ Exclusive
    /\ Fresh
    /\ Progress
    /\ Complete
    /\ Witnessed

-----------------------------------------------------------------------------

\* Every bit lies in a word of the filter (bloom.go:57).
LEMMA WordRange ==
    ASSUME NEW bit \in Bits
    PROVE  Word(bit) \in Words
  BY SizeAssumption DEF Word, Words, Bits

\* The hash of a code is a bit (bloom.go:48).
LEMMA HashRange ==
    ASSUME NEW c \in Codes, NEW j \in Seeds
    PROVE  Hash[c][j] \in Bits
  BY HashAssumption DEF Seeds, Bits

\* The bit a call is at is a bit of the filter.
LEMMA BitRange ==
    ASSUME TypeOK, CallType, NEW t \in Threads,
           call[t].at \in {"load", "store", "test"}
    PROVE  /\ Bit(t) \in Bits
           /\ call[t].code \in Codes
           /\ Bit(t) = Hash[call[t].code][call[t].i]
<1>1. call[t].code \in Codes /\ call[t].i \in Seeds
  BY DEF CallType
<1>2. QED
  BY <1>1, HashRange DEF Bit

-----------------------------------------------------------------------------
(* The invariant holds at first *)

LEMMA InitInv ==
    ASSUME Init
    PROVE  IInv
<1>1. TypeOK
  BY SizeAssumption DEF Init, Idle, Point, TypeOK
<1>2. \A t \in Threads : call[t].at = "idle"
  BY DEF Init, Idle, Point
<1>3. added = {}
  BY DEF Init
<1>4. QED
  BY <1>1, <1>2, <1>3
  DEF IInv, CallType, LockHeld, Exclusive, Fresh, Progress, Complete, Witnessed

-----------------------------------------------------------------------------
(* One thread moves *)

Places == {"idle", "add", "load", "store", "unlock", "contains", "test", "yes", "no"}

\* The other threads stay where they are.
LEMMA Moved ==
    ASSUME TypeOK, NEW t \in Threads, NEW at \in Places,
           NEW c \in Codes \cup {None}, NEW i \in 0..K, NEW word \in SUBSET Bits,
           call' = [call EXCEPT ![t] = Point(at, c, i, word)]
    PROVE  /\ call' \in [Threads -> [at: Places, code: Codes \cup {None}, i: 0..K,
                                      word: SUBSET Bits]]
           /\ call'[t].at = at /\ call'[t].code = c
           /\ call'[t].i = i /\ call'[t].word = word
           /\ \A u \in Threads \ {t} : call'[u] = call[u]
  BY DEF TypeOK, Point, Places, Bits

LEMMA MovedOn ==
    ASSUME TypeOK, NEW t \in Threads, NEW at \in Places,
           NEW i \in 0..K, NEW word \in SUBSET Bits, Goto(t, at, i, word)
    PROVE  /\ call' \in [Threads -> [at: Places, code: Codes \cup {None}, i: 0..K,
                                      word: SUBSET Bits]]
           /\ call'[t].at = at /\ call'[t].code = call[t].code
           /\ call'[t].i = i /\ call'[t].word = word
           /\ \A u \in Threads \ {t} : call'[u] = call[u]
<1>1. call[t].code \in Codes \cup {None}
  BY DEF TypeOK
<1>2. QED
  BY <1>1, Moved DEF Goto

LEMMA BeginInv ==
    ASSUME IInv, NEW t \in Threads, Begin(t)
    PROVE  IInv'
<1>. USE DEF IInv
<1>1. PICK op \in {"add", "contains"}, c \in Codes :
          call' = [call EXCEPT ![t] = Point(op, c, 0, {})]
  BY DEF Begin
<1>2. UNCHANGED <<bitset, writer, readers, added>>
  BY DEF Begin
<1>3. /\ call' \in [Threads -> [at: Places, code: Codes \cup {None}, i: 0..K,
                                 word: SUBSET Bits]]
      /\ call'[t].at = op /\ call'[t].code = c /\ call'[t].i = 0
      /\ \A u \in Threads \ {t} : call'[u] = call[u]
  <2>1. op \in Places /\ c \in Codes \cup {None} /\ 0 \in 0..K /\ {} \in SUBSET Bits
    BY SizeAssumption DEF Places
  <2>2. QED
    BY <1>1, <2>1, Moved
<1>4. TypeOK'
  BY <1>2, <1>3 DEF TypeOK, Places, Bits
<1>5. CallType' /\ LockHeld' /\ Exclusive'
  BY <1>2, <1>3 DEF CallType, LockHeld, Exclusive
<1>6. Fresh'
  BY <1>2, <1>3 DEF Fresh, Bit
<1>7. Progress' /\ Complete' /\ Witnessed'
  BY <1>2, <1>3 DEF Progress, Complete, Witnessed, HasBits, IsSet
<1>8. QED
  BY <1>4, <1>5, <1>6, <1>7

LEMMA LockInv ==
    ASSUME IInv, NEW t \in Threads, Lock(t)
    PROVE  IInv'
<1>. USE DEF IInv
<1>1. /\ call[t].at = "add" /\ writer = None /\ writer' = t
      /\ UNCHANGED <<bitset, readers, added>>
  BY DEF Lock, WriterFree
<1>2. /\ call' \in [Threads -> [at: Places, code: Codes \cup {None}, i: 0..K,
                                 word: SUBSET Bits]]
      /\ call'[t].at = "load" /\ call'[t].code = call[t].code /\ call'[t].i = 0
      /\ \A u \in Threads \ {t} : call'[u] = call[u]
  BY SizeAssumption, MovedOn DEF Lock, Places
<1>3. TypeOK'
  BY <1>1, <1>2 DEF TypeOK, Places, Bits
<1>4. call[t].code \in Codes /\ 0 \in Seeds
  BY <1>1, SizeAssumption DEF CallType, Seeds
<1>5. CallType'
  BY <1>2, <1>4 DEF CallType
<1>6. \A u \in Threads \ {t} : call[u].at \notin {"load", "store", "unlock"}
  BY <1>1, NoneAssumption DEF LockHeld
<1>7. LockHeld' /\ Exclusive'
  BY <1>1, <1>2, <1>6 DEF LockHeld, Exclusive
<1>8. Fresh'
  BY <1>2, <1>6 DEF Fresh
<1>9. HasBits(call[t].code, 0)'
  BY DEF HasBits
<1>10. Progress'
  BY <1>2, <1>6, <1>9 DEF Progress, HasBits
<1>11. Complete' /\ Witnessed'
  BY <1>1, <1>2 DEF Complete, Witnessed, HasBits, IsSet
<1>12. QED
  BY <1>3, <1>5, <1>7, <1>8, <1>10, <1>11

LEMMA LoadInv ==
    ASSUME IInv, NEW t \in Threads, Load(t)
    PROVE  IInv'
<1>. USE DEF IInv
<1>1. /\ call[t].at = "load" /\ readers = {}
      /\ UNCHANGED <<bitset, writer, readers, added>>
  BY DEF Load
<1>2. /\ call[t].i \in Seeds /\ call[t].i \in 0..K
      /\ bitset[Word(Bit(t))] \in SUBSET Bits
      /\ "store" \in Places
  BY <1>1, BitRange, WordRange DEF CallType, TypeOK, Bits, Places
<1>3. /\ call' \in [Threads -> [at: Places, code: Codes \cup {None}, i: 0..K,
                                 word: SUBSET Bits]]
      /\ call'[t].at = "store" /\ call'[t].code = call[t].code
      /\ call'[t].i = call[t].i /\ call'[t].word = bitset[Word(Bit(t))]
      /\ \A u \in Threads \ {t} : call'[u] = call[u]
  BY <1>2, MovedOn DEF Load
<1>4. TypeOK'
  BY <1>1, <1>3 DEF TypeOK, Places, Bits
<1>5. CallType' /\ LockHeld' /\ Exclusive'
  BY <1>1, <1>2, <1>3 DEF CallType, LockHeld, Exclusive
<1>6. Fresh'
  BY <1>1, <1>3 DEF Fresh, Bit
<1>7. Progress' /\ Complete' /\ Witnessed'
  BY <1>1, <1>3 DEF Progress, Complete, Witnessed, HasBits, IsSet
<1>8. QED
  BY <1>4, <1>5, <1>6, <1>7

\* Writing a word back sets one bit and clears none.
LEMMA StoreSets ==
    ASSUME IInv, NEW t \in Threads, Store(t)
    PROVE  /\ Bit(t) \in Bits /\ Bit(t) \in bitset'[Word(Bit(t))]
           /\ \A bit \in Bits :
                  bit \in bitset[Word(bit)] => bit \in bitset'[Word(bit)]
           /\ bitset' \in [Words -> SUBSET Bits]
<1>. USE DEF IInv
<1>1. /\ call[t].at = "store"
      /\ bitset' = [bitset EXCEPT ![Word(Bit(t))] = call[t].word \cup {Bit(t)}]
  BY DEF Store
<1>2. Bit(t) \in Bits /\ Word(Bit(t)) \in Words
  BY <1>1, BitRange, WordRange
<1>3. call[t].word = bitset[Word(Bit(t))] /\ bitset \in [Words -> SUBSET Bits]
  BY <1>1 DEF Fresh, TypeOK, Bits
<1>4. /\ bitset' \in [Words -> SUBSET Bits]
      /\ bitset'[Word(Bit(t))] = bitset[Word(Bit(t))] \cup {Bit(t)}
      /\ \A w \in Words \ {Word(Bit(t))} : bitset'[w] = bitset[w]
  BY <1>1, <1>2, <1>3
<1>5. \A bit \in Bits : bit \in bitset[Word(bit)] => bit \in bitset'[Word(bit)]
  BY <1>4, WordRange
<1>6. Bit(t) \in bitset'[Word(Bit(t))]
  BY <1>4
<1>7. QED
  BY <1>2, <1>4, <1>5, <1>6

LEMMA StoreInv ==
    ASSUME IInv, NEW t \in Threads, Store(t)
    PROVE  IInv'
<1>. USE DEF IInv
<1>. DEFINE c == call[t].code
            i == call[t].i
<1>1. /\ call[t].at = "store" /\ writer = t /\ readers = {}
      /\ UNCHANGED <<writer, readers, added>>
  BY DEF Store, LockHeld, Exclusive
<1>2. c \in Codes /\ i \in Seeds /\ i + 1 \in Int
  BY <1>1 DEF CallType, Seeds
<1>3. \/ Goto(t, "load", i + 1, {}) /\ i + 1 \in Seeds
      \/ Goto(t, "unlock", K, {}) /\ i + 1 = K
  <2>1. CASE i + 1 < K
    <3>1. i + 1 \in Seeds
      BY <1>2, <2>1, SizeAssumption DEF Seeds
    <3>2. Goto(t, "load", i + 1, {})
      BY <2>1 DEF Store, NextSeed
    <3>3. QED
      BY <3>1, <3>2
  <2>2. CASE ~(i + 1 < K)
    <3>1. i + 1 = K
      BY <1>2, <2>2, SizeAssumption DEF Seeds
    <3>2. Goto(t, "unlock", K, {})
      BY <2>2 DEF Store, NextSeed
    <3>3. QED
      BY <3>1, <3>2
  <2>3. QED
    BY <2>1, <2>2
<1>4. PICK at \in {"load", "unlock"} :
          /\ at = "load" => i + 1 \in Seeds
          /\ at = "unlock" => i + 1 = K
          /\ Goto(t, at, i + 1, {})
  BY <1>3
<1>5. at \in Places /\ i + 1 \in 0..K /\ {} \in SUBSET Bits
  BY <1>4, SizeAssumption DEF Places, Seeds
<1>6. /\ call' \in [Threads -> [at: Places, code: Codes \cup {None}, i: 0..K,
                                 word: SUBSET Bits]]
      /\ call'[t].at = at /\ call'[t].code = c /\ call'[t].i = i + 1
      /\ \A u \in Threads \ {t} : call'[u] = call[u]
  BY <1>4, <1>5, MovedOn
<1>7. TypeOK'
  BY <1>1, <1>6, StoreSets DEF TypeOK, Places, Bits
<1>8. \A u \in Threads \ {t} : call[u].at \notin {"load", "store", "unlock", "no"}
  BY <1>1 DEF LockHeld
<1>9. CallType'
  BY <1>2, <1>4, <1>6 DEF CallType
<1>10. LockHeld' /\ Exclusive'
  BY <1>1, <1>4, <1>6 DEF LockHeld, Exclusive
<1>11. Fresh'
  BY <1>4, <1>6, <1>8 DEF Fresh
<1>12. \A d \in Codes : \A j \in Seeds :
           Hash[d][j] \in bitset[Word(Hash[d][j])] =>
               Hash[d][j] \in bitset'[Word(Hash[d][j])]
  BY StoreSets, HashRange
<1>13. \A j \in 0..i : Hash[c][j] \in bitset'[Word(Hash[c][j])]
  <2>1. \A j \in 0..(i - 1) : Hash[c][j] \in bitset[Word(Hash[c][j])]
    BY <1>1 DEF Progress, HasBits, IsSet
  <2>2. Hash[c][i] \in bitset'[Word(Hash[c][i])]
    BY StoreSets DEF Bit
  <2>3. \A j \in 0..i : j \in Seeds /\ (j = i \/ j \in 0..(i - 1))
    BY <1>2, SizeAssumption DEF Seeds
  <2>4. QED
    BY <1>2, <1>12, <2>1, <2>2, <2>3
<1>14. Progress'
  <2>1. call'[t].i - 1 = i
    BY <1>2, <1>6 DEF Seeds
  <2>2. QED
    BY <1>6, <1>8, <1>13, <2>1 DEF Progress, HasBits, IsSet, Word
<1>15. Complete'
  <2>1. added' = added /\ added \subseteq Codes
    BY <1>1 DEF TypeOK
  <2>2. QED
    BY <1>12, <2>1 DEF Complete, HasBits, IsSet, Word, Seeds
<1>16. Witnessed'
  BY <1>4, <1>6, <1>8 DEF Witnessed
<1>17. QED
  BY <1>7, <1>9, <1>10, <1>11, <1>14, <1>15, <1>16

LEMMA UnlockInv ==
    ASSUME IInv, NEW t \in Threads, Unlock(t)
    PROVE  IInv'
<1>. USE DEF IInv
<1>. DEFINE c == call[t].code
<1>1. /\ call[t].at = "unlock" /\ writer = t /\ readers = {} /\ writer' = None
      /\ added' = added \cup {c} /\ c \in Codes /\ call[t].i = K
      /\ UNCHANGED <<bitset, readers>>
  BY DEF Unlock, LockHeld, Exclusive, CallType
<1>2. /\ call' \in [Threads -> [at: Places, code: Codes \cup {None}, i: 0..K,
                                 word: SUBSET Bits]]
      /\ call'[t].at = "idle"
      /\ \A u \in Threads \ {t} : call'[u] = call[u]
  <2>1. /\ "idle" \in Places /\ None \in Codes \cup {None}
        /\ 0 \in 0..K /\ {} \in SUBSET Bits
    BY SizeAssumption DEF Places
  <2>2. QED
    BY <2>1, Moved DEF Unlock, Idle
<1>3. TypeOK'
  BY <1>1, <1>2 DEF TypeOK, Places, Bits
<1>4. \A u \in Threads \ {t} :
          call[u].at \notin {"load", "store", "unlock", "test", "yes", "no"}
  BY <1>1 DEF LockHeld
<1>5. CallType' /\ LockHeld' /\ Exclusive' /\ Fresh' /\ Progress' /\ Witnessed'
  BY <1>2, <1>4
  DEF CallType, LockHeld, Exclusive, Fresh, Progress, Witnessed
<1>6. HasBits(c, K)
  BY <1>1 DEF Progress
<1>7. Complete'
  BY <1>1, <1>6 DEF Complete, HasBits, IsSet, Word
<1>8. QED
  BY <1>3, <1>5, <1>7

-----------------------------------------------------------------------------
(* Checks *)

LEMMA RLockInv ==
    ASSUME IInv, NEW t \in Threads, RLock(t)
    PROVE  IInv'
<1>. USE DEF IInv
<1>1. /\ call[t].at = "contains" /\ writer = None /\ readers' = readers \cup {t}
      /\ UNCHANGED <<bitset, writer, added>>
  BY DEF RLock
<1>2. /\ call' \in [Threads -> [at: Places, code: Codes \cup {None}, i: 0..K,
                                 word: SUBSET Bits]]
      /\ call'[t].at = "test" /\ call'[t].code = call[t].code /\ call'[t].i = 0
      /\ \A u \in Threads \ {t} : call'[u] = call[u]
  <2>1. "test" \in Places /\ 0 \in 0..K /\ {} \in SUBSET Bits
    BY SizeAssumption DEF Places
  <2>2. QED
    BY <2>1, MovedOn DEF RLock
<1>3. TypeOK'
  BY <1>1, <1>2 DEF TypeOK, Places, Bits
<1>4. call[t].code \in Codes /\ 0 \in Seeds
  BY <1>1, SizeAssumption DEF CallType, Seeds
<1>5. \A u \in Threads : call[u].at \notin {"load", "store", "unlock"}
  BY <1>1, NoneAssumption DEF LockHeld
<1>6. CallType' /\ LockHeld' /\ Exclusive' /\ Fresh' /\ Progress'
  BY <1>1, <1>2, <1>4, <1>5 DEF CallType, LockHeld, Exclusive, Fresh, Progress
<1>7. Complete' /\ Witnessed'
  BY <1>1, <1>2 DEF Complete, Witnessed, HasBits, IsSet
<1>8. QED
  BY <1>3, <1>6, <1>7

\* What a check of one bit does to the call.
LEMMA TestBitCases ==
    ASSUME IInv, NEW t \in Threads, TestBit(t)
    PROVE  /\ call[t].at = "test" /\ call[t].code \in Codes /\ call[t].i \in Seeds
           /\ Bit(t) = Hash[call[t].code][call[t].i]
           /\ UNCHANGED <<bitset, writer, readers, added>>
           /\ \E at \in {"no", "test", "yes"}, i \in 0..K :
                 /\ at = "no" => ~IsSet(Bit(t))
                 /\ at = "test" => i \in Seeds
                 /\ call' \in [Threads -> [at: Places, code: Codes \cup {None},
                                           i: 0..K, word: SUBSET Bits]]
                 /\ call'[t].at = at /\ call'[t].code = call[t].code
                 /\ call'[t].i = i
                 /\ \A u \in Threads \ {t} : call'[u] = call[u]
<1>. USE DEF IInv
<1>1. /\ call[t].at = "test" /\ call[t].code \in Codes /\ call[t].i \in Seeds
      /\ Bit(t) = Hash[call[t].code][call[t].i]
      /\ UNCHANGED <<bitset, writer, readers, added>>
  BY DEF TestBit, CallType, Bit
<1>2. \E at \in {"no", "test", "yes"}, i \in 0..K :
          /\ at = "no" => ~IsSet(Bit(t))
          /\ at = "test" => i \in Seeds
          /\ Goto(t, at, i, {})
  <2>1. call[t].i \in 0..K /\ (call[t].i + 1 < K => call[t].i + 1 \in Seeds)
    BY <1>1, SizeAssumption DEF Seeds
  <2>2. Seeds \subseteq 0..K
    BY SizeAssumption DEF Seeds
  <2>3. CASE Goto(t, "no", call[t].i, {}) /\ ~IsSet(Bit(t))
    BY <2>1, <2>3
  <2>4. CASE call[t].i + 1 < K /\ Goto(t, "test", call[t].i + 1, {})
    BY <2>1, <2>2, <2>4
  <2>5. CASE Goto(t, "yes", call[t].i, {})
    BY <2>1, <2>5
  <2>6. QED
    BY <2>3, <2>4, <2>5 DEF TestBit, IsSet
<1>3. \A at \in {"no", "test", "yes"} : at \in Places
  BY DEF Places
<1>4. {} \in SUBSET Bits
  OBVIOUS
<1>5. PICK at \in {"no", "test", "yes"}, i \in 0..K :
          /\ at = "no" => ~IsSet(Bit(t))
          /\ at = "test" => i \in Seeds
          /\ Goto(t, at, i, {})
  BY <1>2
<1>6. QED
  BY <1>1, <1>3, <1>4, <1>5, MovedOn

LEMMA TestBitInv ==
    ASSUME IInv, NEW t \in Threads, TestBit(t)
    PROVE  IInv'
<1>. USE DEF IInv
<1>1. /\ call[t].at = "test" /\ call[t].code \in Codes /\ call[t].i \in Seeds
      /\ Bit(t) = Hash[call[t].code][call[t].i]
      /\ UNCHANGED <<bitset, writer, readers, added>>
  BY TestBitCases
<1>2. PICK at \in {"no", "test", "yes"}, i \in 0..K :
          /\ at = "no" => ~IsSet(Bit(t))
          /\ at = "test" => i \in Seeds
          /\ call' \in [Threads -> [at: Places, code: Codes \cup {None},
                                    i: 0..K, word: SUBSET Bits]]
          /\ call'[t].at = at /\ call'[t].code = call[t].code
          /\ call'[t].i = i
          /\ \A u \in Threads \ {t} : call'[u] = call[u]
  BY TestBitCases
<1>3. TypeOK'
  BY <1>1, <1>2 DEF TypeOK, Places, Bits
<1>4. CallType' /\ LockHeld' /\ Exclusive'
  BY <1>1, <1>2 DEF CallType, LockHeld, Exclusive
<1>5. Fresh' /\ Progress'
  BY <1>1, <1>2 DEF Fresh, Progress, Bit, HasBits, IsSet
<1>6. Complete'
  BY <1>1 DEF Complete, HasBits, IsSet
<1>7. Witnessed'
  BY <1>1, <1>2 DEF Witnessed, IsSet
<1>8. QED
  BY <1>3, <1>4, <1>5, <1>6, <1>7

LEMMA RUnlockInv ==
    ASSUME IInv, NEW t \in Threads, RUnlock(t)
    PROVE  IInv'
<1>. USE DEF IInv
<1>1. /\ call[t].at \in {"yes", "no"} /\ readers' = readers \ {t}
      /\ UNCHANGED <<bitset, writer, added>>
  BY DEF RUnlock, Released
<1>2. /\ call' \in [Threads -> [at: Places, code: Codes \cup {None}, i: 0..K,
                                 word: SUBSET Bits]]
      /\ call'[t].at = "idle"
      /\ \A u \in Threads \ {t} : call'[u] = call[u]
  <2>1. /\ "idle" \in Places /\ None \in Codes \cup {None}
        /\ 0 \in 0..K /\ {} \in SUBSET Bits
    BY SizeAssumption DEF Places
  <2>2. QED
    BY <2>1, Moved DEF RUnlock, Idle
<1>3. TypeOK'
  BY <1>1, <1>2 DEF TypeOK, Places, Bits
<1>4. CallType' /\ LockHeld' /\ Exclusive' /\ Fresh'
  BY <1>1, <1>2 DEF CallType, LockHeld, Exclusive, Fresh, Bit
<1>5. Progress' /\ Complete' /\ Witnessed'
  BY <1>1, <1>2 DEF Progress, Complete, Witnessed, HasBits, IsSet
<1>6. QED
  BY <1>3, <1>4, <1>5

LEMMA RestartInv ==
    ASSUME Restart
    PROVE  IInv'
<1>1. TypeOK'
  BY SizeAssumption DEF Restart, Idle, Point, TypeOK
<1>2. \A t \in Threads : call'[t].at = "idle"
  BY DEF Restart, Idle, Point
<1>3. added' = {}
  BY DEF Restart
<1>4. QED
  BY <1>1, <1>2, <1>3
  DEF IInv, CallType, LockHeld, Exclusive, Fresh, Progress, Complete, Witnessed

-----------------------------------------------------------------------------
(* The theorems *)

LEMMA StepInv ==
    ASSUME IInv, [Next]_vars
    PROVE  IInv'
<1>1. ASSUME NEW t \in Threads, Run(t)
      PROVE  IInv'
  BY <1>1, LoadInv, StoreInv, UnlockInv, TestBitInv, RUnlockInv DEF Run
<1>2. CASE UNCHANGED vars
  BY <1>2 DEF vars, IInv, TypeOK, CallType, LockHeld, Exclusive, Fresh, Bit,
              Progress, Complete, Witnessed, HasBits, IsSet
<1>3. QED
  BY <1>1, <1>2, BeginInv, LockInv, RLockInv, RestartInv DEF Next

\* The invariant behind the theorems below: a writer is alone once the readers
\* have left, its word is not stale, the bits it has passed are set, the bits of
\* an added code stay set, and a check that says no holds the lock under which
\* the bit it saw cannot be set (bloom.go:51-78).
THEOREM Invariance == Spec => []IInv
<1>1. Init => IInv
  BY InitInv
<1>2. IInv /\ [Next]_vars => IInv'
  BY StepInv
<1>3. QED
  BY <1>1, <1>2, PTL DEF Spec

\* The variables keep their types.
THEOREM TypeCorrect == Spec => []TypeOK
<1>1. IInv => TypeOK
  BY DEF IInv
<1>2. QED
  BY <1>1, Invariance, PTL

LEMMA NoMeansStranger ==
    ASSUME IInv, NEW t \in Threads, call[t].at = "no"
    PROVE  call[t].code \notin added
<1>1. PICK j \in Seeds : ~IsSet(Hash[call[t].code][j])
  BY DEF IInv, Witnessed
<1>2. QED
  BY <1>1 DEF IInv, Complete, HasBits, Seeds

\* A code whose Add has returned is never "Definitely does not exist"
\* (bloom.go:74), for every hash and every number of goroutines.
THEOREM NeverFalseNegative == Spec => []NoFalseNegatives
<1>1. IInv => NoFalseNegatives
  BY NoMeansStranger DEF NoFalseNegatives
<1>2. QED
  BY <1>1, Invariance, PTL

-----------------------------------------------------------------------------
(* The lock is never stuck *)

\* Whoever has a lock is in the part of a call that gives it back.
HeldByCalls ==
    /\ writer # None => call[writer].at \in {"load", "store", "unlock"}
    /\ \A t \in readers : call[t].at \in {"test", "yes", "no"}

\* The next step of thread t's call does not have to wait.
MayRun(t) ==
    \/ call[t].at \in {"add", "contains"} /\ writer = None
    \/ call[t].at = "load" /\ readers = {}
    \/ call[t].at \in {"store", "unlock", "test", "yes", "no"}

\* While a call is under way, some call can go on: nobody waits for a lock that
\* no running call will give back, and the writer that waits for the readers does
\* not wait for one of those that it keeps out.
NeverStuck ==
    (\E t \in Threads : call[t].at # "idle") => \E t \in Threads : MayRun(t)

LEMMA HeldStep ==
    ASSUME TypeOK, HeldByCalls, [Next]_vars
    PROVE  HeldByCalls'
<1>1. readers \subseteq Threads /\ writer \in Threads \cup {None} /\ None \notin Threads
  BY NoneAssumption DEF TypeOK
\* One call moves, and its place, lock and read lock with it.
<1>2. ASSUME NEW t \in Threads, NEW at,
             call'[t].at = at, \A u \in Threads \ {t} : call'[u] = call[u],
             \/ UNCHANGED <<writer, readers>>
             \/ writer' = t /\ UNCHANGED readers /\ at = "load"
             \/ writer' = None /\ UNCHANGED readers
             \/ readers' = readers \cup {t} /\ UNCHANGED writer /\ at = "test"
             \/ readers' = readers \ {t} /\ UNCHANGED writer,
             writer' = t => at \in {"load", "store", "unlock"},
             t \in readers' => at \in {"test", "yes", "no"}
      PROVE  HeldByCalls'
  BY <1>1, <1>2 DEF HeldByCalls
<1>3. ASSUME NEW t \in Threads, NEW at, NEW c, NEW i, NEW word,
             call' = [call EXCEPT ![t] = Point(at, c, i, word)]
      PROVE  call'[t].at = at /\ \A u \in Threads \ {t} : call'[u] = call[u]
  BY <1>3 DEF TypeOK, Point
<1>4. ASSUME NEW t \in Threads
      PROVE  /\ writer = t => call[t].at \in {"load", "store", "unlock"}
             /\ t \in readers => call[t].at \in {"test", "yes", "no"}
  BY <1>1 DEF HeldByCalls
<1> USE DEF Goto
<1>5. ASSUME NEW t \in Threads, Begin(t) PROVE HeldByCalls'
  BY <1>2, <1>3, <1>4, <1>5 DEF Begin
<1>6. ASSUME NEW t \in Threads, Lock(t) PROVE HeldByCalls'
  <2>1. call'[t].at = "load" /\ \A u \in Threads \ {t} : call'[u] = call[u]
    BY <1>3, <1>6 DEF Lock
  <2>2. writer' = t /\ UNCHANGED readers /\ t \notin readers
    BY <1>4, <1>6 DEF Lock
  <2>3. QED
    BY <1>2, <2>1, <2>2
<1>7. ASSUME NEW t \in Threads, RLock(t) PROVE HeldByCalls'
  <2>1. call'[t].at = "test" /\ \A u \in Threads \ {t} : call'[u] = call[u]
    BY <1>3, <1>7 DEF RLock
  <2>2. readers' = readers \cup {t} /\ UNCHANGED writer /\ writer # t
    BY <1>4, <1>7 DEF RLock
  <2>3. QED
    BY <1>2, <2>1, <2>2
<1>8. ASSUME NEW t \in Threads, Load(t) PROVE HeldByCalls'
  BY <1>2, <1>3, <1>4, <1>8 DEF Load
<1>9. ASSUME NEW t \in Threads, Store(t) PROVE HeldByCalls'
  <2>1. /\ call'[t].at \in {"load", "unlock"}
        /\ \A u \in Threads \ {t} : call'[u] = call[u]
    BY <1>3, <1>9 DEF Store
  <2>2. UNCHANGED <<writer, readers>> /\ t \notin readers
    BY <1>4, <1>9 DEF Store
  <2>3. QED
    BY <1>2, <2>1, <2>2
<1>10. ASSUME NEW t \in Threads, Unlock(t) PROVE HeldByCalls'
  BY <1>1, <1>2, <1>3, <1>4, <1>10 DEF Unlock, Idle
<1>11. ASSUME NEW t \in Threads, TestBit(t) PROVE HeldByCalls'
  <2>1. /\ call'[t].at \in {"test", "yes", "no"}
        /\ \A u \in Threads \ {t} : call'[u] = call[u]
    BY <1>3, <1>11 DEF TestBit
  <2>2. UNCHANGED <<writer, readers>> /\ writer # t
    BY <1>4, <1>11 DEF TestBit
  <2>3. QED
    BY <1>2, <2>1, <2>2
<1>12. ASSUME NEW t \in Threads, RUnlock(t) PROVE HeldByCalls'
  BY <1>2, <1>3, <1>4, <1>12 DEF RUnlock, Released, Idle
<1>13. Restart => HeldByCalls'
  BY DEF Restart, HeldByCalls
<1>14. CASE UNCHANGED vars
  BY <1>14 DEF vars, HeldByCalls
<1>15. QED
  BY <1>5, <1>6, <1>7, <1>8, <1>9, <1>10, <1>11, <1>12, <1>13, <1>14 DEF Next, Run

\* No number of goroutines, codes and seeds locks the filter up, although a writer
\* that waits for readers keeps new readers out, and a check may return early
\* (bloom.go:52 and 66): the deferred unlocks are on every path.
THEOREM LockNeverStuck == Spec => []NeverStuck
<1>1. Init => HeldByCalls
  BY DEF Init, HeldByCalls
<1>2. TypeOK /\ HeldByCalls /\ [Next]_vars => HeldByCalls'
  BY HeldStep
<1>3. TypeOK /\ HeldByCalls => NeverStuck
  <2>1. SUFFICES ASSUME TypeOK, HeldByCalls, NEW t \in Threads, call[t].at # "idle"
                 PROVE  \E u \in Threads : MayRun(u)
    BY DEF NeverStuck
  <2>2. CASE MayRun(t)
    BY <2>2
  <2>3. CASE readers # {}
    <3>1. PICK r \in readers : TRUE
      BY <2>3
    <3>2. r \in Threads /\ MayRun(r)
      BY <2>1, <3>1 DEF HeldByCalls, MayRun, TypeOK
    <3>3. QED
      BY <3>2
  <2>4. CASE readers = {} /\ writer # None
    <3>1. writer \in Threads /\ MayRun(writer)
      BY <2>1, <2>4 DEF HeldByCalls, MayRun, TypeOK
    <3>2. QED
      BY <3>1
  <2>5. CASE readers = {} /\ writer = None
    BY <2>1, <2>5 DEF MayRun, TypeOK
  <2>6. QED
    BY <2>3, <2>4, <2>5
<1>4. QED
  BY <1>1, <1>2, <1>3, TypeCorrect, PTL DEF Spec

-----------------------------------------------------------------------------
(* Refinement *)

Answers == [t \in Threads |-> AnswerOf(t)]

LEMMA SameAnswers ==
    ASSUME \A u \in Threads : call'[u].at \in {"yes", "no"} => call'[u] = call[u],
           \A u \in Threads : call[u].at \in {"yes", "no"} => call'[u] = call[u]
    PROVE  Answers' = Answers
<1>1. \A u \in Threads : AnswerOf(u)' = AnswerOf(u)
  BY DEF AnswerOf
<1>2. QED
  BY <1>1 DEF Answers

\* Every step that is not the last one of a check leaves the answers alone.
LEMMA QuietStep ==
    ASSUME IInv, NEW t \in Threads,
           call[t].at \notin {"yes", "no"}, call'[t].at \notin {"yes", "no"},
           \A u \in Threads \ {t} : call'[u] = call[u]
    PROVE  Answers' = Answers
  BY SameAnswers

\* The step after which a check knows its answer.
LEMMA AnswerStep ==
    ASSUME IInv, NEW t \in Threads, TestBit(t), call'[t].at \in {"yes", "no"}
    PROVE  \E c \in Codes : Abstract!Answer(t, c)
<1>. DEFINE c == call[t].code
            found == call'[t].at = "yes"
<1>1. /\ call[t].at = "test" /\ c \in Codes /\ call[t].i \in Seeds
      /\ Bit(t) = Hash[c][call[t].i]
      /\ added' = added
      /\ call'[t].code = c
      /\ \A u \in Threads \ {t} : call'[u] = call[u]
      /\ call'[t].at = "no" => ~IsSet(Bit(t))
  BY TestBitCases
<1>2. c \in added => found
  BY <1>1 DEF IInv, Complete, HasBits, Seeds
<1>3. Answers[t] = None
  BY <1>1 DEF Answers, AnswerOf
<1>4. AnswerOf(t)' = [code |-> c, found |-> found]
  BY <1>1 DEF AnswerOf
<1>5. \A u \in Threads \ {t} : AnswerOf(u)' = AnswerOf(u)
  BY <1>1 DEF AnswerOf
<1>6. Answers' = [Answers EXCEPT ![t] = [code |-> c, found |-> found]]
  BY <1>4, <1>5 DEF Answers
<1>7. found \in BOOLEAN
  OBVIOUS
<1>8. QED
  BY <1>1, <1>2, <1>3, <1>6, <1>7 DEF Abstract!Answer, Answers

\* The step with which a check returns.
LEMMA ReturnStep ==
    ASSUME IInv, NEW t \in Threads, RUnlock(t)
    PROVE  Abstract!Return(t)
<1>1. call[t].at \in {"yes", "no"} /\ added' = added /\ call[t].code \in Codes
  BY DEF RUnlock, IInv, CallType
<1>2. call'[t].at = "idle" /\ \A u \in Threads \ {t} : call'[u] = call[u]
  BY DEF RUnlock, Idle, Point, IInv, TypeOK
<1>3. AnswerOf(t) \in [code: Codes, found: BOOLEAN]
  BY <1>1 DEF AnswerOf
<1>4. Answers[t] # None
  BY <1>3, NoneAssumption DEF Answers
<1>5. AnswerOf(t)' = None /\ \A u \in Threads \ {t} : AnswerOf(u)' = AnswerOf(u)
  BY <1>2 DEF AnswerOf
<1>6. Answers' = [Answers EXCEPT ![t] = None]
  BY <1>5 DEF Answers
<1>7. QED
  BY <1>1, <1>4, <1>6 DEF Abstract!Return, Answers

LEMMA RefineInit ==
    ASSUME Init
    PROVE  Abstract!Init
  BY DEF Init, Abstract!Init, AnswerOf, Idle, Point

LEMMA RefineStep ==
    ASSUME IInv, [Next]_vars
    PROVE  [Abstract!Next]_<<added, Answers>>
<1>1. ASSUME NEW t \in Threads, Begin(t) \/ Lock(t) \/ RLock(t) \/ Load(t) \/ Store(t)
      PROVE  UNCHANGED <<added, Answers>>
  <2>1. /\ call[t].at \notin {"yes", "no"} /\ call'[t].at \notin {"yes", "no"}
        /\ \A u \in Threads \ {t} : call'[u] = call[u]
    BY <1>1 DEF Begin, Lock, RLock, Load, Store, Goto, Point, IInv, TypeOK
  <2>2. added' = added
    BY <1>1 DEF Begin, Lock, RLock, Load, Store
  <2>3. QED
    BY <2>1, <2>2, QuietStep
<1>2. ASSUME NEW t \in Threads, Unlock(t)
      PROVE  \E c \in Codes : Abstract!Add(c)
  <2>1. /\ call[t].at = "unlock" /\ call'[t].at = "idle"
        /\ \A u \in Threads \ {t} : call'[u] = call[u]
    BY <1>2 DEF Unlock, Idle, Point, IInv, TypeOK
  <2>2. call[t].code \in Codes /\ added' = added \cup {call[t].code}
    BY <1>2 DEF Unlock, IInv, CallType
  <2>3. Answers' = Answers
    BY <2>1, QuietStep
  <2>4. QED
    BY <2>2, <2>3 DEF Abstract!Add, Answers
<1>3. ASSUME NEW t \in Threads, TestBit(t)
      PROVE  (\E c \in Codes : Abstract!Answer(t, c)) \/ UNCHANGED <<added, Answers>>
  <2>1. CASE call'[t].at \in {"yes", "no"}
    BY <1>3, <2>1, AnswerStep
  <2>2. CASE call'[t].at \notin {"yes", "no"}
    <3>1. /\ call[t].at = "test" /\ added' = added
          /\ \A u \in Threads \ {t} : call'[u] = call[u]
      BY <1>3, TestBitCases
    <3>2. QED
      BY <2>2, <3>1, QuietStep
  <2>3. QED
    BY <2>1, <2>2
<1>4. ASSUME Restart
      PROVE  Abstract!Restart
  <2>1. added' = {} /\ \A t \in Threads : AnswerOf(t)' = None
    BY <1>4 DEF Restart, AnswerOf, Idle, Point
  <2>2. QED
    BY <2>1 DEF Abstract!Restart
<1>5. CASE UNCHANGED vars
  <2>1. \A t \in Threads : AnswerOf(t)' = AnswerOf(t)
    BY <1>5 DEF vars, AnswerOf
  <2>2. QED
    BY <1>5, <2>1 DEF vars, Answers
<1>6. CASE \E t \in Threads : Run(t)
  BY <1>1, <1>2, <1>3, <1>6, ReturnStep DEF Run, Abstract!Next
<1>7. CASE \E t \in Threads : Begin(t) \/ Lock(t) \/ RLock(t)
  BY <1>1, <1>7
<1>8. QED
  BY <1>4, <1>5, <1>6, <1>7 DEF Next, Abstract!Next

\* Adds and checks under the lock act as if each took place at one instant on a
\* set, whatever the words, the hash and the interleaving: a check never sees
\* half an Add as a refusal of a member (bloom.go:51-78).
THEOREM Refinement == Spec => ImplementsCodeFilter
<1>1. Init => Abstract!Init
  BY RefineInit
<1>2. IInv /\ [Next]_vars => [Abstract!Next]_<<added, Answers>>
  BY RefineStep
<1>3. QED
  BY <1>1, <1>2, Invariance, PTL DEF Spec, ImplementsCodeFilter, Abstract!Spec, Answers
=============================================================================
