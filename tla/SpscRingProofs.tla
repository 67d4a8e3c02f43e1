---------------------------- MODULE SpscRingProofs ----------------------------
(***************************************************************************)
(* Safety of SpscRing for every capacity, word size and number of items:   *)
(* types, the order of conflicting accesses, the bounds of stale caches,   *)
(* and that the ring implements BoundedQueue.  Then of Pipeline: the two   *)
(* threads and the ring do what one thread does that calls the engine      *)
(* directly.                                                               *)
(***************************************************************************)
EXTENDS Pipeline, TLAPS, SequenceTheorems

-----------------------------------------------------------------------------
(* Words and slots                                                         *)

\* A remainder is what is left below the divisor.
LEMMA RemainderUnique ==
    ASSUME NEW m \in Nat \ {0}, NEW k \in Int, NEW r \in 0 .. (m - 1)
    PROVE  (k * m + r) % m = r
  OBVIOUS

\* A natural number is a multiple of the divisor and its remainder.
LEMMA Decomposed ==
    ASSUME NEW m \in Nat \ {0}, NEW n \in Nat
    PROVE  n % m \in 0 .. (m - 1) /\ n \div m \in Nat /\ n = (n \div m) * m + (n % m)
  OBVIOUS

\* Unsigned subtraction of words is the distance of their counts, if that fits a word.
LEMMA WordDistance ==
    ASSUME NEW a \in Nat, NEW b \in Nat, b <= a, a - b < WordMod
    PROVE  Word(Word(a) - Word(b)) = a - b
  <1>1. WordMod \in Nat \ {0}
    BY WordModAssumption, CapacityAssumption
  <1> DEFINE ka == a \div WordMod
             kb == b \div WordMod
  <1>2. /\ a % WordMod \in Int /\ ka \in Nat /\ a = ka * WordMod + (a % WordMod)
        /\ b % WordMod \in Int /\ kb \in Nat /\ b = kb * WordMod + (b % WordMod)
    BY <1>1, Decomposed
  <1> HIDE DEF ka, kb
  <1>3. kb - ka \in Int /\ (kb - ka) * WordMod = kb * WordMod - ka * WordMod
        /\ kb * WordMod \in Int /\ ka * WordMod \in Int
    BY <1>1, <1>2
  <1>4. (a % WordMod) - (b % WordMod) = (kb - ka) * WordMod + (a - b)
    BY <1>2, <1>3
  <1>5. a - b \in 0 .. (WordMod - 1)
    BY <1>1
  <1> QED
    BY <1>1, <1>3, <1>4, <1>5, RemainderUnique DEF Word

\* Two counts less than a word apart have the same word only if they are equal.
LEMMA WordInjective ==
    ASSUME NEW a \in Nat, NEW b \in Nat, b <= a, a - b < WordMod, Word(a) = Word(b)
    PROVE  a = b
  <1>1. WordMod \in Nat \ {0}
    BY WordModAssumption, CapacityAssumption
  <1>2. Word(a) - Word(b) = 0
    BY <1>1, Decomposed DEF Word
  <1>3. 0 * WordMod + 0 = 0 /\ 0 \in 0 .. (WordMod - 1)
    BY <1>1
  <1>4. Word(0) = 0
    BY <1>1, <1>3, RemainderUnique DEF Word
  <1> QED
    BY <1>2, <1>4, WordDistance

\* The slot of a count is its remainder by the capacity, wrap or no wrap.
LEMMA SlotIsRemainder ==
    ASSUME NEW n \in Nat
    PROVE  Slot(n) = n % Capacity /\ Slot(n) \in 0 .. (Capacity - 1)
  <1>1. WordMod \in Nat \ {0} /\ Capacity \in Nat \ {0} /\ WordMod % Capacity = 0
    BY WordModAssumption, CapacityAssumption
  <1> DEFINE k == n \div WordMod
             w == n % WordMod
             c == WordMod \div Capacity
             j == w \div Capacity
             r == w % Capacity
  <1>2. k \in Nat /\ w \in Nat /\ n = k * WordMod + w
    BY <1>1, Decomposed
  <1>3. c \in Nat /\ WordMod = c * Capacity
    BY <1>1, Decomposed
  <1>4. j \in Nat /\ r \in 0 .. (Capacity - 1) /\ w = j * Capacity + r
    BY <1>1, <1>2, Decomposed
  <1>5. Slot(n) = r
    BY DEF Slot, Word
  <1> HIDE DEF k, w, c, j, r
  <1>6. k * c \in Nat /\ k * c + j \in Int /\ k * WordMod = (k * c) * Capacity
    BY <1>1, <1>2, <1>3, <1>4
  <1>7. (k * c + j) * Capacity = (k * c) * Capacity + j * Capacity
    BY <1>1, <1>4, <1>6
  <1>8. n = (k * c + j) * Capacity + r
    BY <1>1, <1>2, <1>4, <1>6, <1>7
  <1>9. n % Capacity = r
    BY <1>1, <1>4, <1>6, <1>8, RemainderUnique
  <1> QED
    BY <1>4, <1>5, <1>9

\* Counts less than a capacity apart have slots of their own.
LEMMA SlotsDistinct ==
    ASSUME NEW a \in Nat, NEW b \in Nat, b < a, a - b < Capacity
    PROVE  Slot(a) # Slot(b)
  <1>1. Capacity \in Nat \ {0}
    BY CapacityAssumption
  <1> DEFINE ka == a \div Capacity
             kb == b \div Capacity
  <1>2. /\ ka \in Nat /\ a = ka * Capacity + (a % Capacity)
        /\ kb \in Nat /\ b = kb * Capacity + (b % Capacity)
        /\ a % Capacity \in Nat /\ b % Capacity \in Nat
    BY <1>1, Decomposed
  <1> HIDE DEF ka, kb
  <1>3. SUFFICES ASSUME a % Capacity = b % Capacity
                 PROVE  FALSE
    BY SlotIsRemainder
  <1>4. a - b = ka * Capacity - kb * Capacity /\ (ka - kb) * Capacity = ka * Capacity - kb * Capacity
    BY <1>1, <1>2, <1>3
  <1>5. (ka - kb) * Capacity > 0 /\ (ka - kb) * Capacity < Capacity
    BY <1>1, <1>4
  <1>6. CASE ka - kb <= 0
    BY <1>1, <1>2, <1>5, <1>6
  <1>7. CASE ka - kb >= 1
    BY <1>1, <1>2, <1>5, <1>7
  <1> QED
    BY <1>2, <1>6, <1>7

-----------------------------------------------------------------------------
(* The inductive invariant                                                 *)

\* What a thread has acquired has become visible, what is visible has been stored;
\* the consumer stays behind the pushes it has acquired, and the producer within
\* a capacity of the pops it has acquired.
CountsInOrder ==
    /\ acquiredHead <= visibleHead /\ visibleHead <= head
    /\ head <= acquiredTail /\ acquiredTail <= visibleTail /\ visibleTail <= tail
    /\ tail - acquiredHead <= Capacity

\* The caches are the words of what was acquired.
CachesAcquired == cachedHead = Word(acquiredHead) /\ cachedTail = Word(acquiredTail)

\* The threads stop when all items are through.
DoneAtEnd == (producer = "done" <=> tail = Items) /\ (consumer = "done" <=> head = Items)

\* Slots hold the values in flight, and the copies in progress are made.
SlotsHold ==
    /\ \A n \in head .. (tail - 1) : slots[Slot(n)] = n
    /\ producer = "publish" => slots[Slot(tail)] = tail
    /\ consumer = "publish" => out = head

IInv == TypeOK /\ CountsInOrder /\ CachesAcquired /\ DoneAtEnd /\ NoDataRace /\ SlotsHold

\* The counts as numbers in their order.
LEMMA Counts ==
    ASSUME IInv
    PROVE  /\ head \in Nat /\ tail \in Nat /\ visibleHead \in Nat /\ visibleTail \in Nat
           /\ acquiredHead \in Nat /\ acquiredTail \in Nat
           /\ acquiredHead <= visibleHead /\ visibleHead <= head
           /\ head <= acquiredTail /\ acquiredTail <= visibleTail /\ visibleTail <= tail
           /\ tail <= Items /\ head <= Items /\ tail - acquiredHead <= Capacity
           /\ Items \in Nat /\ Capacity \in Nat \ {0} /\ WordMod \in Nat /\ Capacity < WordMod
  BY CapacityAssumption, WordModAssumption, ItemsAssumption DEF IInv, TypeOK, CountsInOrder

\* The full test decides the distance to the pops that were acquired, and the
\* empty test whether a push is acquired, whatever the wrap.
LEMMA TestsAreExact ==
    ASSUME NEW a \in Nat, NEW b \in Nat, b <= a, a - b <= Capacity
    PROVE  /\ Word(Word(a) - Word(b)) >= Capacity <=> a - b >= Capacity
           /\ Word(a) = Word(b) <=> a = b
  <1>1. a - b < WordMod
    BY CapacityAssumption, WordModAssumption
  <1> QED
    BY <1>1, WordDistance, WordInjective

\* A word is one of WordMod values.
LEMMA WordType ==
    ASSUME NEW n \in Nat
    PROVE  Word(n) \in 0 .. (WordMod - 1)
  BY CapacityAssumption, WordModAssumption, Decomposed DEF Word

LEMMA InitEstablishes ==
    ASSUME Init
    PROVE  IInv
  <1>1. TypeOK
    <2>1. Word(0) \in 0 .. (WordMod - 1) /\ 0 \in 0 .. Items
      BY WordType, ItemsAssumption
    <2>2. slots \in [0 .. (Capacity - 1) -> (0 .. (Items - 1)) \cup {NoValue}]
      BY DEF Init
    <2>3. received \in Seq(0 .. (Items - 1))
      BY DEF Init
    <2>4. 0 \in 0 .. (WordMod - 1)
      BY CapacityAssumption, WordModAssumption
    <2> QED
      BY <2>1, <2>2, <2>3, <2>4 DEF Init, TypeOK
  <1>2. CountsInOrder /\ DoneAtEnd /\ NoDataRace /\ SlotsHold
    BY CapacityAssumption, ItemsAssumption
       DEF Init, CountsInOrder, DoneAtEnd, NoDataRace, SlotsHold
  <1>3. CachesAcquired
    <2>1. Word(0) = 0
      <3>1. WordMod \in Nat \ {0} /\ 0 * WordMod + 0 = 0 /\ 0 \in 0 .. (WordMod - 1)
        BY CapacityAssumption, WordModAssumption
      <3> QED
        BY <3>1, RemainderUnique DEF Word
    <2> QED
      BY <2>1 DEF Init, CachesAcquired
  <1> QED
    BY <1>1, <1>2, <1>3 DEF IInv

\* Stores become visible.
LEMMA VisibilityKeeps ==
    ASSUME IInv, Visibility
    PROVE  IInv'
  <1>1. CASE TailArrives
    <2> USE <1>1 DEF TailArrives
    <2>1. visibleTail' \in 0 .. Items /\ visibleTail' <= tail
      BY Counts
    <2>2. TypeOK'
      BY <2>1 DEF IInv, TypeOK
    <2>3. CountsInOrder'
      BY <2>1, Counts DEF CountsInOrder
    <2> QED
      BY <2>2, <2>3 DEF IInv, CachesAcquired, DoneAtEnd, NoDataRace, SlotsHold
  <1>2. CASE HeadArrives
    <2> USE <1>2 DEF HeadArrives
    <2>1. visibleHead' \in 0 .. Items /\ visibleHead' <= head
      BY Counts
    <2>2. TypeOK'
      BY <2>1 DEF IInv, TypeOK
    <2>3. CountsInOrder'
      BY <2>1, Counts DEF CountsInOrder
    <2> QED
      BY <2>2, <2>3 DEF IInv, CachesAcquired, DoneAtEnd, NoDataRace, SlotsHold
  <1> QED
    BY <1>1, <1>2 DEF Visibility

LEMMA PushCheckKeeps ==
    ASSUME IInv, PushCheck
    PROVE  IInv'
  <1> USE DEF PushCheck, ringVars
  <1>1. LooksFull(cachedHead) <=> tail - acquiredHead >= Capacity
    <2>1. tail - acquiredHead <= Capacity /\ acquiredHead <= tail
      BY Counts
    <2> QED
      BY <2>1, Counts, TestsAreExact DEF IInv, CachesAcquired, LooksFull
  <1>2. producer' = "write" => tail' - acquiredHead' < Capacity
    BY <1>1, Counts
  <1>3. TypeOK' /\ CountsInOrder' /\ CachesAcquired' /\ DoneAtEnd' /\ NoDataRace' /\ SlotsHold'
    BY <1>2 DEF IInv, TypeOK, CountsInOrder, CachesAcquired, DoneAtEnd, NoDataRace, SlotsHold
  <1> QED
    BY <1>3 DEF IInv

LEMMA PushLoadKeeps ==
    ASSUME IInv, PushLoad
    PROVE  IInv'
  <1> USE DEF PushLoad
  <1>1. tail - visibleHead <= Capacity /\ visibleHead <= tail
    BY Counts
  <1>2. LooksFull(cachedHead') <=> tail - visibleHead >= Capacity
    BY <1>1, Counts, TestsAreExact DEF LooksFull
  <1>3. producer' = "write" => tail' - acquiredHead' < Capacity
    BY <1>2, Counts
  <1>4. TypeOK'
    BY Counts, WordType DEF IInv, TypeOK
  <1>5. CountsInOrder' /\ CachesAcquired'
    BY <1>1, Counts DEF IInv, CountsInOrder, CachesAcquired
  <1>6. DoneAtEnd' /\ NoDataRace' /\ SlotsHold'
    BY <1>3 DEF IInv, DoneAtEnd, NoDataRace, SlotsHold
  <1> QED
    BY <1>4, <1>5, <1>6 DEF IInv

LEMMA PushWriteKeeps ==
    ASSUME IInv, PushWrite
    PROVE  IInv'
  <1> USE DEF PushWrite
  <1>1. tail - acquiredHead < Capacity /\ tail < Items
    BY Counts DEF IInv, NoDataRace, DoneAtEnd
  <1>2. Slot(tail) \in 0 .. (Capacity - 1) /\ tail \in 0 .. (Items - 1)
    BY <1>1, Counts, SlotIsRemainder
  <1>3. slots' = [slots EXCEPT ![Slot(tail)] = tail]
        /\ slots \in [0 .. (Capacity - 1) -> (0 .. (Items - 1)) \cup {NoValue}]
    BY DEF IInv, TypeOK
  <1>4. TypeOK'
    BY <1>2, <1>3 DEF IInv, TypeOK
  <1>5. SlotsHold'
    <2>1. slots'[Slot(tail)] = tail
      BY <1>2, <1>3
    <2>2. ASSUME NEW n \in head .. (tail - 1)
          PROVE  slots'[Slot(n)] = n
      <3>1. n \in Nat /\ n < tail /\ tail - n < Capacity
        BY <1>1, Counts
      <3>2. Slot(n) # Slot(tail) /\ Slot(n) \in 0 .. (Capacity - 1)
        BY <3>1, Counts, SlotsDistinct, SlotIsRemainder
      <3>3. slots[Slot(n)] = n
        BY DEF IInv, SlotsHold
      <3> QED
        BY <1>3, <3>2, <3>3
    <2>3. Slot(tail)' = Slot(tail) /\ \A n : Slot(n)' = Slot(n)
      BY DEF Slot, Word
    <2> QED
      BY <2>1, <2>2, <2>3 DEF IInv, SlotsHold
  <1>6. CountsInOrder' /\ CachesAcquired' /\ DoneAtEnd' /\ NoDataRace'
    BY DEF IInv, CountsInOrder, CachesAcquired, DoneAtEnd, NoDataRace
  <1> QED
    BY <1>4, <1>5, <1>6 DEF IInv

LEMMA PushPublishKeeps ==
    ASSUME IInv, PushPublish
    PROVE  IInv'
  <1> USE DEF PushPublish
  <1>1. tail - acquiredHead < Capacity /\ tail < Items
    BY Counts DEF IInv, NoDataRace, DoneAtEnd
  <1>2. TypeOK'
    <2>1. tail' \in 0 .. Items
      BY <1>1, Counts
    <2> QED
      BY <2>1 DEF IInv, TypeOK
  <1>3. SlotsHold'
    <2>1. \A n \in head .. tail : slots[Slot(n)] = n
      BY Counts DEF IInv, SlotsHold
    <2>2. head' = head /\ tail' = tail + 1 /\ slots' = slots /\ tail' - 1 = tail
      BY Counts
    <2> QED
      BY <2>1, <2>2 DEF IInv, SlotsHold
  <1>4. CountsInOrder' /\ CachesAcquired' /\ DoneAtEnd' /\ NoDataRace'
    BY <1>1, Counts DEF IInv, CountsInOrder, CachesAcquired, DoneAtEnd, NoDataRace
  <1> QED
    BY <1>2, <1>3, <1>4 DEF IInv

LEMMA PopCheckKeeps ==
    ASSUME IInv, PopCheck
    PROVE  IInv'
  <1> USE DEF PopCheck, ringVars
  <1>1. Word(head) = cachedTail <=> head = acquiredTail
    <2>1. head <= acquiredTail /\ acquiredTail - head <= Capacity
      BY Counts
    <2> QED
      BY <2>1, Counts, TestsAreExact DEF IInv, CachesAcquired
  <1>2. consumer' = "read" => head' < acquiredTail' /\ head' # Items
    BY <1>1, Counts
  <1>3. TypeOK' /\ CountsInOrder' /\ CachesAcquired' /\ DoneAtEnd' /\ NoDataRace' /\ SlotsHold'
    BY <1>2 DEF IInv, TypeOK, CountsInOrder, CachesAcquired, DoneAtEnd, NoDataRace, SlotsHold
  <1> QED
    BY <1>3 DEF IInv

LEMMA PopLoadKeeps ==
    ASSUME IInv, PopLoad
    PROVE  IInv'
  <1> USE DEF PopLoad
  <1>1. head <= visibleTail /\ visibleTail - head <= Capacity
    BY Counts
  <1>2. Word(head) = cachedTail' <=> head = visibleTail
    BY <1>1, Counts, TestsAreExact
  <1>3. consumer' = "read" => head' < acquiredTail'
    BY <1>1, <1>2, Counts
  <1>4. TypeOK'
    BY Counts, WordType DEF IInv, TypeOK
  <1>5. CountsInOrder' /\ CachesAcquired'
    BY <1>1, Counts DEF IInv, CountsInOrder, CachesAcquired
  <1>6. DoneAtEnd' /\ NoDataRace' /\ SlotsHold'
    BY <1>3 DEF IInv, DoneAtEnd, NoDataRace, SlotsHold
  <1> QED
    BY <1>4, <1>5, <1>6 DEF IInv

\* A pop in progress finds the oldest value in its slot.
LEMMA PopFinds ==
    ASSUME IInv, consumer \in {"read", "publish"}
    PROVE  head < tail /\ head < Items /\ head < acquiredTail /\ slots[Slot(head)] = head
  <1>1. head < acquiredTail
    BY DEF IInv, NoDataRace
  <1>2. head \in head .. (tail - 1) /\ head < tail /\ head < Items
    BY <1>1, Counts
  <1> QED
    BY <1>1, <1>2 DEF IInv, SlotsHold

LEMMA PopReadKeeps ==
    ASSUME IInv, PopRead
    PROVE  IInv'
  <1> USE DEF PopRead, ringVars
  <1>1. out' = head /\ head \in 0 .. (Items - 1)
    BY PopFinds, Counts
  <1>2. TypeOK' /\ CountsInOrder' /\ CachesAcquired' /\ DoneAtEnd' /\ NoDataRace' /\ SlotsHold'
    BY <1>1 DEF IInv, TypeOK, CountsInOrder, CachesAcquired, DoneAtEnd, NoDataRace, SlotsHold
  <1> QED
    BY <1>2 DEF IInv

LEMMA PopPublishKeeps ==
    ASSUME IInv, PopPublish
    PROVE  IInv'
  <1> USE DEF PopPublish
  <1>1. head < tail /\ head < Items /\ head < acquiredTail /\ out = head
    BY PopFinds DEF IInv, SlotsHold
  <1>2. TypeOK'
    <2>1. head' \in 0 .. Items /\ out \in 0 .. (Items - 1)
      BY <1>1, Counts
    <2>2. received' \in Seq(0 .. (Items - 1))
      BY <2>1 DEF IInv, TypeOK
    <2> QED
      BY <2>1, <2>2 DEF IInv, TypeOK
  <1>3. SlotsHold'
    <2>1. \A n \in head' .. (tail' - 1) : n \in head .. (tail - 1)
      BY Counts
    <2>2. slots' = slots /\ tail' = tail /\ producer' = producer
      OBVIOUS
    <2> QED
      BY <2>1, <2>2 DEF IInv, SlotsHold
  <1>4. CountsInOrder' /\ CachesAcquired' /\ DoneAtEnd' /\ NoDataRace'
    BY <1>1, Counts DEF IInv, CountsInOrder, CachesAcquired, DoneAtEnd, NoDataRace
  <1> QED
    BY <1>2, <1>3, <1>4 DEF IInv

LEMMA StepKeeps ==
    ASSUME IInv, [Next]_vars
    PROVE  IInv'
  <1>1. CASE Push
    BY <1>1, PushCheckKeeps, PushLoadKeeps, PushWriteKeeps, PushPublishKeeps DEF Push
  <1>2. CASE PopAll
    BY <1>2, PopCheckKeeps, PopLoadKeeps, PopReadKeeps, PopPublishKeeps DEF PopAll
  <1>3. CASE Visibility
    BY <1>3, VisibilityKeeps
  <1>4. CASE UNCHANGED vars
    <2> USE <1>4 DEF vars, ringVars
    <2> QED
      BY DEF IInv, TypeOK, CountsInOrder, CachesAcquired, DoneAtEnd, NoDataRace, SlotsHold
  <1> QED
    BY <1>1, <1>2, <1>3, <1>4 DEF Next, Joined

-----------------------------------------------------------------------------
(* The ring is a bounded queue                                             *)

\* What is in flight are the counts from head up to tail.
LEMMA InFlight ==
    ASSUME IInv
    PROVE  [i \in 1 .. (tail - head) |-> slots[Slot(head + i - 1)]]
              = [i \in 1 .. (tail - head) |-> head + i - 1]
  <1>1. ASSUME NEW i \in 1 .. (tail - head)
        PROVE  slots[Slot(head + i - 1)] = head + i - 1
    <2>1. head + i - 1 \in head .. (tail - 1)
      BY Counts
    <2> QED
      BY <2>1 DEF IInv, SlotsHold
  <1> QED
    BY <1>1

\* The numbers from a up to b, as a queue: what a push and a pop make of it.
Numbers(a, b) == [i \in 1 .. (b - a) |-> a + i - 1]

LEMMA NumbersGrow ==
    ASSUME NEW a \in Nat, NEW b \in Nat, a <= b
    PROVE  /\ Numbers(a, b) \in Seq(Nat) /\ Len(Numbers(a, b)) = b - a
           /\ Numbers(a, b + 1) = Append(Numbers(a, b), b)
  <1>1. b - a \in Nat /\ b + 1 - a = b - a + 1
    OBVIOUS
  <1>2. Numbers(a, b) \in Seq(Nat) /\ Len(Numbers(a, b)) = b - a
    BY <1>1 DEF Numbers
  <1>3. Numbers(a, b + 1) \in Seq(Nat) /\ Len(Numbers(a, b + 1)) = b - a + 1
    BY <1>1 DEF Numbers
  <1>4. Append(Numbers(a, b), b) \in Seq(Nat) /\ Len(Append(Numbers(a, b), b)) = b - a + 1
    BY <1>2
  <1>5. ASSUME NEW i \in 1 .. (b - a + 1)
        PROVE  Numbers(a, b + 1)[i] = Append(Numbers(a, b), b)[i]
    BY <1>1, <1>2 DEF Numbers
  <1> QED
    BY <1>1, <1>2, <1>3, <1>4, <1>5, SeqEqual

LEMMA NumbersShrink ==
    ASSUME NEW a \in Nat, NEW b \in Nat, a < b
    PROVE  /\ Numbers(a, b) # <<>> /\ Head(Numbers(a, b)) = a
           /\ Numbers(a + 1, b) = Tail(Numbers(a, b))
  <1>1. b - a \in Nat \ {0} /\ b - (a + 1) = b - a - 1 /\ b - a - 1 \in Nat
    OBVIOUS
  <1>2. Numbers(a, b) \in Seq(Nat) /\ Len(Numbers(a, b)) = b - a
    BY <1>1 DEF Numbers
  <1>3. Numbers(a + 1, b) \in Seq(Nat) /\ Len(Numbers(a + 1, b)) = b - a - 1
    BY <1>1 DEF Numbers
  <1>4. Numbers(a, b) # <<>>
    BY <1>1, <1>2
  <1>5. Tail(Numbers(a, b)) \in Seq(Nat) /\ Len(Tail(Numbers(a, b))) = b - a - 1
    BY <1>1, <1>2, <1>4, HeadTailProperties
  <1>6. Head(Numbers(a, b)) = a
    BY <1>1, <1>2, <1>4 DEF Numbers
  <1>7. ASSUME NEW i \in 1 .. (b - a - 1)
        PROVE  Numbers(a + 1, b)[i] = Tail(Numbers(a, b))[i]
    BY <1>1, <1>2, <1>4 DEF Numbers
  <1> QED
    BY <1>1, <1>3, <1>4, <1>5, <1>6, <1>7, SeqEqual

\* The sequence that stands for the abstract queue.
Queue == [i \in 1 .. (tail - head) |-> slots[Slot(head + i - 1)]]

LEMMA QueueIsNumbers ==
    ASSUME IInv
    PROVE  Queue = Numbers(head, tail)
  BY InFlight DEF Queue, Numbers

\* Only the two publications change the queue: the store of tail_ appends, that of
\* head_ takes the oldest value.
LEMMA StepImplements ==
    ASSUME IInv, IInv', [Next]_vars
    PROVE  Abstract!Next \/ (Queue' = Queue /\ tail' = tail /\ received' = received)
  <1>1. Queue = Numbers(head, tail) /\ Queue' = Numbers(head', tail')
    <2>1. ASSUME NEW i \in 1 .. (tail' - head')
          PROVE  slots'[Slot(head' + i - 1)] = head' + i - 1
      <3>1. head' \in Nat /\ tail' \in Nat
        BY ItemsAssumption DEF IInv, TypeOK
      <3>2. head' + i - 1 \in head' .. (tail' - 1)
        <4> DEFINE h == head'
                   t == tail'
        <4>1. h \in Nat /\ t \in Nat /\ i \in 1 .. (t - h)
          BY <3>1
        <4> HIDE DEF h, t
        <4>2. h + i - 1 \in h .. (t - 1)
          BY <4>1
        <4> QED
          BY <4>2 DEF h, t
      <3> QED
        BY <3>2 DEF IInv, SlotsHold, Slot, Word
    <2>2. Queue' = [i \in 1 .. (tail' - head') |-> slots'[Slot(head' + i - 1)]]
      BY DEF Queue, Slot, Word
    <2> QED
      BY <2>1, <2>2, QueueIsNumbers DEF Numbers
  <1>2. CASE PushPublish
    <2>1. tail' = tail + 1 /\ head' = head /\ received' = received /\ tail < Items
      BY <1>2, Counts DEF PushPublish, IInv, DoneAtEnd
    <2>2. tail - head < Capacity
      BY <1>2, Counts DEF PushPublish, IInv, NoDataRace
    <2>3. Queue' = Append(Queue, tail) /\ Len(Queue) = tail - head
      <3>1. head \in Nat /\ tail \in Nat /\ head <= tail
        BY Counts
      <3> QED
        BY <1>1, <2>1, <3>1, NumbersGrow
    <2>4. Abstract!Push
      BY <2>1, <2>2, <2>3 DEF Abstract!Push, Queue
    <2> QED
      BY <2>4 DEF Abstract!Next
  <1>3. CASE PopPublish
    <2>1. head < tail /\ out = head
      BY <1>3, PopFinds DEF PopPublish, IInv, SlotsHold
    <2>2. head' = head + 1 /\ tail' = tail /\ received' = Append(received, out)
      BY <1>3 DEF PopPublish
    <2>3. Queue # <<>> /\ Head(Queue) = head /\ Queue' = Tail(Queue)
      BY <1>1, <2>1, <2>2, Counts, NumbersShrink
    <2>4. Abstract!Pop
      BY <2>1, <2>2, <2>3 DEF Abstract!Pop, Queue
    <2> QED
      BY <2>4 DEF Abstract!Next
  <1>4. CASE ~PushPublish /\ ~PopPublish
    <2>1. head' = head /\ tail' = tail /\ received' = received
      BY <1>4 DEF Next, Push, PopAll, Visibility, Joined, vars, ringVars, PushCheck, PushLoad,
                  PushWrite, PopCheck, PopLoad, PopRead, TailArrives, HeadArrives
    <2> QED
      BY <1>1, <2>1
  <1> QED
    BY <1>2, <1>3, <1>4

-----------------------------------------------------------------------------
(* What the consumer is given                                              *)

\* The consumer has the values pushed, in their order.
ReceivedInOrder ==
    /\ received \in Seq(Nat) /\ Len(received) = head
    /\ \A n \in 1 .. head : received[n] = n - 1

LEMMA ReceivedStep ==
    ASSUME IInv, ReceivedInOrder, [Next]_vars
    PROVE  ReceivedInOrder'
  <1>1. CASE PopPublish
    <2>1. out = head /\ received' = Append(received, out) /\ head' = head + 1 /\ head \in Nat
      BY <1>1, PopFinds, Counts DEF PopPublish, IInv, SlotsHold
    <2>2. received \in Seq(Nat) /\ Len(received) = head
      BY DEF ReceivedInOrder
    <2>3. received' \in Seq(Nat) /\ Len(received') = head'
      BY <2>1, <2>2
    <2>4. ASSUME NEW n \in 1 .. head'
          PROVE  received'[n] = n - 1
      <3>1. CASE n = head + 1
        BY <2>1, <2>2, <3>1
      <3>2. CASE n # head + 1
        <4>1. n \in 1 .. head /\ received[n] = n - 1
          BY <2>1, <3>2 DEF ReceivedInOrder
        <4> QED
          BY <2>1, <2>2, <4>1
      <3> QED
        BY <3>1, <3>2
    <2> QED
      BY <2>3, <2>4 DEF ReceivedInOrder
  <1>2. CASE ~PopPublish
    <2>1. head' = head /\ received' = received
      BY <1>2 DEF Next, Push, PopAll, Visibility, Joined, vars, ringVars, PushCheck, PushLoad,
                  PushWrite, PushPublish, PopCheck, PopLoad, PopRead, TailArrives, HeadArrives
    <2> QED
      BY <2>1 DEF ReceivedInOrder
  <1> QED
    BY <1>1, <1>2

-----------------------------------------------------------------------------
(* Theorems                                                                *)

\* The invariant holds in every state of the two threads.
THEOREM RingInvariant == RingSafety => []IInv
  <1>1. Init => IInv
    BY InitEstablishes
  <1>2. IInv /\ [Next]_vars => IInv'
    BY StepKeeps
  <1> QED
    BY <1>1, <1>2, PTL DEF RingSafety

\* Types: the consumer is never given the contents of a slot nobody wrote
\* (spsc_ring.hpp:51-60).
THEOREM RingTypeCorrect == RingSafety => []TypeOK
  <1>1. IInv => TypeOK
    BY DEF IInv
  <1> QED
    BY <1>1, RingInvariant, PTL

\* The release and acquire operations order every pair of conflicting accesses to
\* a slot (spsc_ring.hpp:42-46, 54-58).
THEOREM RingHasNoDataRace == RingSafety => []NoDataRace
  <1>1. IInv => NoDataRace
    BY DEF IInv
  <1> QED
    BY <1>1, RingInvariant, PTL

\* Stale copies of the other counter only make a thread too careful
\* (spsc_ring.hpp:41, 53).
THEOREM RingStaleCacheIsSafe == RingSafety => []StaleCacheIsSafe
  <1>1. IInv => StaleCacheIsSafe
    BY Counts DEF StaleCacheIsSafe
  <1> QED
    BY <1>1, RingInvariant, PTL

\* The ring implements a bounded FIFO queue, whatever its capacity, the width of its
\* counters and the number of items: nothing is lost, duplicated or reordered
\* (spsc_ring.hpp:39-60).
THEOREM RingImplementsQueue == RingSafety => ImplementsQueue
  <1>1. Init => Abstract!Init
    <2> SUFFICES ASSUME Init
                 PROVE  Abstract!Init
      OBVIOUS
    <2>1. tail - head = 0 /\ 1 .. 0 = {} /\ tail = 0 /\ received = <<>>
      BY DEF Init
    <2>2. [i \in 1 .. (tail - head) |-> slots[Slot(head + i - 1)]] = <<>>
      BY <2>1
    <2> QED
      BY <2>1, <2>2 DEF Abstract!Init
  <1>2. IInv /\ IInv' /\ [Next]_vars =>
          [Abstract!Next]_<<[i \in 1 .. (tail - head) |-> slots[Slot(head + i - 1)]],
                            tail, received>>
    BY StepImplements DEF Queue
  <1> QED
    BY <1>1, <1>2, RingInvariant, PTL DEF RingSafety, ImplementsQueue, Abstract!Safety

-----------------------------------------------------------------------------
(* The pipeline                                                            *)

\* The ring's invariant, and the engine has been given the messages in their order.
PipelineInv ==
    /\ IInv /\ ReceivedInOrder
    /\ ops \in Workloads /\ applied \in Nat /\ applied <= head

\* Every step of the pipeline is a step of the ring or leaves it alone.
LEMMA StepOfRing ==
    ASSUME [PipelineNext]_pipelineVars
    PROVE  [Next]_vars
  BY DEF PipelineNext, pipelineVars, FeedThread, EngineThread, PopNext, ApplyPopped,
         StoresTravel, Finished, Next

\* What a step does to the messages and to how many have been applied.
LEMMA StepOfFeed ==
    ASSUME PipelineInv, [PipelineNext]_pipelineVars
    PROVE  /\ ops' = ops
           /\ applied' = applied \/ (applied < head /\ applied' = applied + 1)
           /\ [Engine!FeedNext]_(Engine!feedVars)
  <1>1. CASE UNCHANGED engineVars
    BY <1>1 DEF engineVars, Engine!feedVars, Engine!vars
  <1>2. CASE ApplyPopped
    <2>1. applied < Len(received) /\ Engine!Apply(ops[received[applied + 1] + 1])
      BY <1>2 DEF ApplyPopped
    <2>2. applied < head /\ received[applied + 1] = applied
      BY <2>1, Counts DEF PipelineInv, ReceivedInOrder
    <2>3. head <= Items /\ Len(ops) = Items /\ head \in Nat /\ Items \in Nat
      BY Counts, WorkloadsAssumption DEF PipelineInv
    <2>4. applied < Len(ops) /\ Engine!Apply(ops[applied + 1])
      BY <2>1, <2>2, <2>3 DEF PipelineInv
    <2>5. ops' = ops /\ applied' = applied + 1
      BY <2>1 DEF Engine!Apply
    <2> QED
      BY <2>2, <2>4, <2>5 DEF Engine!FeedNext
  <1>3. CASE Engine!InCall
    BY <1>3 DEF Engine!InCall, Engine!FeedNext
  <1> QED
    BY <1>1, <1>2, <1>3
       DEF PipelineNext, pipelineVars, FeedThread, EngineThread, PopNext, StoresTravel, Finished

LEMMA PipelineInvariant == PipelineSpec => []PipelineInv
  <1>1. PipelineInit => PipelineInv
    <2> SUFFICES ASSUME PipelineInit
                 PROVE  PipelineInv
      OBVIOUS
    <2>1. IInv
      BY InitEstablishes DEF PipelineInit
    <2>2. ReceivedInOrder
      BY DEF PipelineInit, Init, ReceivedInOrder
    <2> QED
      BY <2>1, <2>2 DEF PipelineInit, PipelineInv, Init
  <1>2. PipelineInv /\ [PipelineNext]_pipelineVars => PipelineInv'
    <2> SUFFICES ASSUME PipelineInv, [PipelineNext]_pipelineVars
                 PROVE  PipelineInv'
      OBVIOUS
    <2>1. IInv' /\ ReceivedInOrder'
      BY StepOfRing, StepKeeps, ReceivedStep DEF PipelineInv
    <2>2. head' >= head /\ head' \in Nat /\ head \in Nat
      <3>1. head' = head \/ head' = head + 1
        BY StepOfRing
           DEF Next, Push, PopAll, Visibility, Joined, vars, ringVars, PushCheck, PushLoad,
               PushWrite, PushPublish, PopCheck, PopLoad, PopRead, PopPublish,
               TailArrives, HeadArrives
      <3> QED
        BY <3>1, Counts DEF PipelineInv
    <2> QED
      BY <2>1, <2>2, StepOfFeed DEF PipelineInv
  <1> QED
    BY <1>1, <1>2, PTL DEF PipelineSpec

\* Two threads and a ring apply to the engine the messages of the feed, in their
\* order, each once and each after the call before has returned (bench_ring.cpp:60-73).
THEOREM PipelineIsDirectFeed == PipelineSpec => SameAsDirectFeed
  <1>1. PipelineInit => Engine!Init /\ applied = 0
    BY DEF PipelineInit
  <1>2. PipelineInv /\ [PipelineNext]_pipelineVars => [Engine!FeedNext]_(Engine!feedVars)
    BY StepOfFeed
  <1> QED
    BY <1>1, <1>2, PipelineInvariant, PTL DEF PipelineSpec, SameAsDirectFeed, Engine!Safety

\* What is proved of the ring on its own holds of the ring in the pipeline.
THEOREM PipelineRunsRing == PipelineSpec => RingSafety
  <1>1. PipelineInit => Init
    BY DEF PipelineInit
  <1>2. [PipelineNext]_pipelineVars => [Next]_vars
    BY StepOfRing
  <1> QED
    BY <1>1, <1>2, PTL DEF PipelineSpec, RingSafety

==============================================================================
