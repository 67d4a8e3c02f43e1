------------------------------- MODULE SpscRing -------------------------------
(***************************************************************************)
(* SpscRing of spsc_ring.hpp between one producer and one consumer thread, *)
(* driven as the two-thread test drives it: the producer spins on try_push *)
(* of 0 .. Items-1, the consumer on try_pop until it has them all.         *)
(*                                                                         *)
(* head_ and tail_ are kept as exact counts of pops and pushes; the code   *)
(* compares them as unsigned words, so every comparison is made modulo     *)
(* WordMod (2^64).  Memory is weaker than sequential consistency: a store  *)
(* is visible to the other thread some time later (visibleHead,            *)
(* visibleTail), and a slot's contents are ordered for a thread only as    *)
(* far as its acquire loads have synchronised with release stores          *)
(* (acquiredHead: pops that happen before what the producer does next;     *)
(* acquiredTail: pushes that happen before what the consumer does next).   *)
(***************************************************************************)
EXTENDS Integers, Sequences

CONSTANTS Capacity,   \* slots, a power of two
          WordMod,    \* values of the counters' word, a multiple of Capacity
          Items,      \* how many values the harness sends
          NoValue     \* contents of a slot never written

ASSUME CapacityAssumption == Capacity \in Nat \ {0}
ASSUME WordModAssumption  == /\ WordMod \in Nat /\ WordMod > Capacity
                             /\ WordMod % Capacity = 0
ASSUME ItemsAssumption    == Items \in Nat

VARIABLES head, tail,                  \* head_ and tail_, as counts
          visibleHead, visibleTail,    \* the stores that have reached the other thread
          cachedHead, cachedTail,      \* cached_head_, cached_tail_ (words)
          acquiredHead, acquiredTail,  \* what happens before the thread's next step
          slots,
          producer, consumer,          \* where each thread is
          out,                         \* the value try_pop has copied
          received                     \* values the consumer was given

ringVars == <<head, tail, visibleHead, visibleTail, cachedHead, cachedTail,
              acquiredHead, acquiredTail, slots>>
vars == <<ringVars, producer, consumer, out, received>>

Word(n) == n % WordMod
Slot(n) == Word(n) % Capacity       \* slots_[n & kMask]

Init ==
    /\ head = 0 /\ tail = 0 /\ visibleHead = 0 /\ visibleTail = 0
    /\ cachedHead = 0 /\ cachedTail = 0 /\ acquiredHead = 0 /\ acquiredTail = 0
    /\ slots = [i \in 0 .. (Capacity - 1) |-> NoValue]
    /\ producer = IF Items = 0 THEN "done" ELSE "check"
    /\ consumer = IF Items = 0 THEN "done" ELSE "check"
    /\ out = NoValue /\ received = <<>>

-----------------------------------------------------------------------------
(* Stores travel.                                                          *)

TailArrives == /\ visibleTail < tail
               /\ visibleTail' = visibleTail + 1
               /\ UNCHANGED <<head, tail, visibleHead, cachedHead, cachedTail, acquiredHead,
                              acquiredTail, slots, producer, consumer, out, received>>
HeadArrives == /\ visibleHead < head
               /\ visibleHead' = visibleHead + 1
               /\ UNCHANGED <<head, tail, visibleTail, cachedHead, cachedTail, acquiredHead,
                              acquiredTail, slots, producer, consumer, out, received>>

-----------------------------------------------------------------------------
(* Producer: try_push(tail), again and again until it succeeds.            *)

\* mutant: off by one
LooksFullLate(cached) == Word(Word(tail) - cached) > Capacity
\* mutant: compares the words without unsigned subtraction
LooksFullSigned(cached) == Word(tail) - cached >= Capacity

LooksFull(cached) == Word(Word(tail) - cached) >= Capacity

PushCheck == /\ producer = "check"
             /\ producer' = IF LooksFull(cachedHead) THEN "load" ELSE "write"
             /\ UNCHANGED <<ringVars, consumer, out, received>>

\* mutant: the second full test is missing
PushLoadOnce == /\ producer = "load"
                /\ cachedHead' = Word(visibleHead)
                /\ acquiredHead' = visibleHead
                /\ producer' = "write"
                /\ UNCHANGED <<head, tail, visibleHead, visibleTail, cachedTail, acquiredTail,
                               slots, consumer, out, received>>

\* head_.load(acquire) into the cache; full against that too: false, and spin.
PushLoad == /\ producer = "load"
            /\ cachedHead' = Word(visibleHead)
            /\ acquiredHead' = visibleHead
            /\ producer' = IF LooksFull(cachedHead') THEN "check" ELSE "write"
            /\ UNCHANGED <<head, tail, visibleHead, visibleTail, cachedTail, acquiredTail,
                           slots, consumer, out, received>>

PushWrite == /\ producer = "write"
             /\ slots' = [slots EXCEPT ![Slot(tail)] = tail]
             /\ producer' = "publish"
             /\ UNCHANGED <<head, tail, visibleHead, visibleTail, cachedHead, cachedTail,
                            acquiredHead, acquiredTail, consumer, out, received>>

\* tail_.store(tail + 1, release)
PushPublish == /\ producer = "publish"
               /\ tail' = tail + 1
               /\ producer' = IF tail' = Items THEN "done" ELSE "check"
               /\ UNCHANGED <<head, visibleHead, visibleTail, cachedHead, cachedTail,
                              acquiredHead, acquiredTail, slots, consumer, out, received>>

-----------------------------------------------------------------------------
(* Consumer: try_pop until Items values have been received.                *)

\* mutant: the cache is never refreshed
PopCheckNever == /\ consumer = "check"
                 /\ consumer' = IF Word(head) = cachedTail THEN "check" ELSE "read"
                 /\ UNCHANGED <<ringVars, producer, out, received>>

PopCheck == /\ consumer = "check"
            /\ consumer' = IF Word(head) = cachedTail THEN "load" ELSE "read"
            /\ UNCHANGED <<ringVars, producer, out, received>>

\* mutant: the second empty test is missing
PopLoadOnce == /\ consumer = "load"
               /\ cachedTail' = Word(visibleTail)
               /\ acquiredTail' = visibleTail
               /\ consumer' = "read"
               /\ UNCHANGED <<head, tail, visibleHead, visibleTail, cachedHead, acquiredHead,
                              slots, producer, out, received>>

\* tail_.load(acquire) into the cache; still empty: false, and spin.
PopLoad == /\ consumer = "load"
           /\ cachedTail' = Word(visibleTail)
           /\ acquiredTail' = visibleTail
           /\ consumer' = IF Word(head) = cachedTail' THEN "check" ELSE "read"
           /\ UNCHANGED <<head, tail, visibleHead, visibleTail, cachedHead, acquiredHead,
                          slots, producer, out, received>>

PopRead == /\ consumer = "read"
           /\ out' = slots[Slot(head)]
           /\ consumer' = "publish"
           /\ UNCHANGED <<ringVars, producer, received>>

\* head_.store(head + 1, release); try_pop returns true with the value.
PopPublish == /\ consumer = "publish"
              /\ head' = head + 1
              /\ received' = Append(received, out)
              /\ out' = NoValue
              /\ consumer' = IF head' = Items THEN "done" ELSE "check"
              /\ UNCHANGED <<tail, visibleHead, visibleTail, cachedHead, cachedTail,
                             acquiredHead, acquiredTail, slots, producer>>

-----------------------------------------------------------------------------
Push == PushCheck \/ PushLoad \/ PushWrite \/ PushPublish
PopAll == PopCheck \/ PopLoad \/ PopRead \/ PopPublish
Visibility == TailArrives \/ HeadArrives

\* Both threads have joined.
Joined == producer = "done" /\ consumer = "done" /\ UNCHANGED vars

Next == Push \/ PopAll \/ Visibility \/ Joined

\* What the threads may do, however they are scheduled.
RingSafety == Init /\ [][Next]_vars

\* The threads are scheduled, and every store becomes visible in time.
Spec == RingSafety /\ WF_vars(Push) /\ WF_vars(PopAll)
             /\ WF_vars(TailArrives) /\ WF_vars(HeadArrives)

-----------------------------------------------------------------------------
(* Properties                                                              *)

\* Types; the counts are bounded by what the harness sends, and what the consumer
\* is given was once pushed: it never gets a slot nobody wrote.
TypeOK ==
    /\ {head, tail, visibleHead, visibleTail, acquiredHead, acquiredTail} \subseteq 0 .. Items
    /\ {cachedHead, cachedTail} \subseteq 0 .. (WordMod - 1)
    /\ slots \in [0 .. (Capacity - 1) -> (0 .. (Items - 1)) \cup {NoValue}]
    /\ producer \in {"check", "load", "write", "publish", "done"}
    /\ consumer \in {"check", "load", "read", "publish", "done"}
    /\ out \in (0 .. (Items - 1)) \cup {NoValue}
    /\ received \in Seq(0 .. (Items - 1))

\* A slot is written only after the read of its previous value happens before the
\* write, and read only after its write happens before the read: the release and
\* acquire operations order every pair of conflicting accesses.
NoDataRace ==
    /\ producer \in {"write", "publish"} => tail - acquiredHead < Capacity
    /\ consumer \in {"read", "publish"} => head < acquiredTail

\* A stale cached counter only makes a thread too careful: what the producer
\* believes is full bounds what is, and what the consumer believes is there is.
StaleCacheIsSafe ==
    /\ acquiredHead <= visibleHead /\ visibleHead <= head
    /\ acquiredTail <= visibleTail /\ visibleTail <= tail
    /\ head <= tail /\ tail - head <= Capacity

\* The ring is a bounded FIFO queue: nothing is lost, duplicated or reordered,
\* also where the counters wrap.
Abstract ==
    INSTANCE BoundedQueue WITH
        queue <- [i \in 1 .. (tail - head) |-> slots[Slot(head + i - 1)]],
        sent  <- tail
ImplementsQueue == Abstract!Safety

\* Both threads finish: no value is stuck in the ring, nobody spins forever.
AllDelivered == <>(producer = "done" /\ consumer = "done" /\ Len(received) = Items)
=============================================================================
