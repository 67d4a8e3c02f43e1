----------------------------- MODULE FlatHashMap -----------------------------
(***************************************************************************)
(* FlatHashMap of flat_hash_map.hpp: open addressing, linear probing, load *)
(* at most one half, and backward-shift deletion.  The mixer is any        *)
(* function of the key, fixed in the initial state; ideal() keeps its low  *)
(* bits, the remainder by the (power of two) capacity.                     *)
(***************************************************************************)
EXTENDS Integers, Sequences, FiniteSets

CONSTANTS Key, Value,
          None,            \* an unused slot, no value
          HashValue,       \* what the mixer may return
          MinCapacity,     \* smallest table (16 in the code)
          MaxReserve       \* reserve(n) is called with n up to this

ASSUME HashAssumption     == HashValue \subseteq Nat /\ HashValue # {}
ASSUME CapacityAssumption == MinCapacity \in Nat /\ MinCapacity >= 2 /\ MaxReserve \in Nat
ASSUME NoneAssumption     == None \notin Value /\ None \notin [key : Key, value : Value]

VARIABLES mix,      \* the mixer
          slots,    \* slots_ and used_: [key, value] or None, from index 0
          size,     \* size_
          result    \* what the last insert or erase returned

vars == <<mix, slots, size, result>>

Capacity(t) == Len(t)
At(t, idx) == t[idx + 1]
Ideal(t, k) == mix[k] % Capacity(t)
Index(t) == 0 .. (Capacity(t) - 1)
EmptyTable(capacity) == [i \in 1 .. capacity |-> None]

\* The slot where a probe for k ends, counted in steps from its home: the first
\* one that is unused or holds k.
Stops(t, k, d) == LET slot == At(t, (Ideal(t, k) + d) % Capacity(t))
                  IN  slot = None \/ slot.key = k
Steps(t, k) == CHOOSE d \in Index(t) : Stops(t, k, d) /\ \A e \in 0 .. (d - 1) : ~Stops(t, k, e)
Probe(t, k) == (Ideal(t, k) + Steps(t, k)) % Capacity(t)
Lookup(t, k) == IF At(t, Probe(t, k)) = None THEN None ELSE At(t, Probe(t, k)).value

Put(t, k, v) == IF At(t, Probe(t, k)) = None
                THEN [t EXCEPT ![Probe(t, k) + 1] = [key |-> k, value |-> v]]
                ELSE t

\* mutant: slots keep their index
RehashKeepsPlaces(t, capacity) ==
    [i \in 1 .. capacity |-> IF i \in DOMAIN t THEN t[i] ELSE None]

\* Every used slot, in index order, goes into a fresh table.
Rehash(t, capacity) ==
    LET Refilled[n \in 0 .. Len(t)] ==
            IF n = 0 THEN EmptyTable(capacity)
            ELSE IF t[n] = None THEN Refilled[n - 1]
            ELSE Put(Refilled[n - 1], t[n].key, t[n].value)
    IN  Refilled[Len(t)]

\* mutant: grows when the table is full
GrownWhenFull(t, n) == IF n + 1 > Capacity(t) THEN Rehash(t, Capacity(t) * 2) ELSE t

\* The load test comes before the duplicate test, so a refused insert may grow.
Grown(t, n) == IF (n + 1) * 2 > Capacity(t) THEN Rehash(t, Capacity(t) * 2) ELSE t

\* mutant: no wrap-around
MayMoveUncyclic(t, home, hole, probe) == home <= hole

\* Backward shift from the erased index on: a later member of the chain moves
\* into the hole unless its home lies after the hole in cyclic order.
MayMove(t, home, hole, probe) ==
    (probe - home) % Capacity(t) >= (probe - hole) % Capacity(t)

\* One turn of the loop of erase, d slots behind the erased one.
Turn(t, idx, d, s) ==
    LET probe == (idx + d) % Capacity(t)
        slot  == At(s.table, probe)
    IN  IF s.ended \/ slot = None THEN [s EXCEPT !.ended = TRUE]
        ELSE IF MayMove(t, Ideal(t, slot.key), s.hole, probe)
        THEN [table |-> [s.table EXCEPT ![s.hole + 1] = slot], hole |-> probe, ended |-> FALSE]
        ELSE s

ShiftOut(t, idx) ==
    LET After[d \in 0 .. (Capacity(t) - 1)] ==
            IF d = 0 THEN [table |-> t, hole |-> idx, ended |-> FALSE]
            ELSE Turn(t, idx, d, After[d - 1])
        last == After[Capacity(t) - 1]
    IN  [last.table EXCEPT ![last.hole + 1] = None]

-----------------------------------------------------------------------------
Init == /\ mix \in [Key -> HashValue]
        /\ slots = EmptyTable(MinCapacity)
        /\ size = 0 /\ result = TRUE

Insert(k, v) ==
    LET t == Grown(slots, size) IN
    /\ result' = (At(t, Probe(t, k)) = None)
    /\ slots' = Put(t, k, v)
    /\ size' = IF result' THEN size + 1 ELSE size
    /\ UNCHANGED mix

\* mutant: a miss counts as a removal
EraseCountsMiss(k) ==
    LET idx == Probe(slots, k)
        hit == At(slots, idx) # None
    IN
    /\ result' = hit
    /\ slots' = IF hit THEN ShiftOut(slots, idx) ELSE slots
    /\ size' = size - 1
    /\ UNCHANGED mix

Erase(k) ==
    LET idx == Probe(slots, k)
        hit == At(slots, idx) # None
    IN
    /\ result' = hit
    /\ slots' = IF hit THEN ShiftOut(slots, idx) ELSE slots
    /\ size' = IF hit THEN size - 1 ELSE size
    /\ UNCHANGED mix

\* The smallest table, doubled until it has n slots.
NextCapacity(n) ==
    LET Doubled[c \in 0 .. n] == IF c = 0 THEN MinCapacity ELSE 2 * Doubled[c - 1]
    IN  Doubled[CHOOSE c \in 0 .. n : Doubled[c] >= n /\ \A e \in 0 .. (c - 1) : Doubled[e] < n]
ReserveSlots(n) == /\ n * 2 > Capacity(slots)
                   /\ slots' = Rehash(slots, NextCapacity(n * 2))
                   /\ UNCHANGED <<mix, size, result>>

Next == \/ \E k \in Key : Erase(k) \/ \E v \in Value : Insert(k, v)
        \/ \E n \in 0 .. MaxReserve : ReserveSlots(n)
Spec == Init /\ [][Next]_vars

-----------------------------------------------------------------------------
(* Properties                                                              *)

\* Types of the table.
TypeOK == /\ mix \in [Key -> HashValue]
          /\ slots \in Seq([key : Key, value : Value] \cup {None})
          /\ size \in Nat /\ result \in BOOLEAN

\* Every stored key is reachable: no unused slot lies between its home and its
\* place, whatever was erased in between and wherever the chain wraps.
ChainsUnbroken ==
    \A i \in Index(slots) : At(slots, i) # None =>
        LET home == Ideal(slots, At(slots, i).key)
        IN  \A d \in 0 .. ((i - home) % Capacity(slots)) :
                At(slots, (home + d) % Capacity(slots)) # None

\* At most half the slots are used, so every probe loop meets an unused slot, and
\* size_ counts them (the rehash decisions rest on it).
LoadAtMostHalf ==
    /\ size = Cardinality({i \in Index(slots) : At(slots, i) # None})
    /\ size * 2 <= Capacity(slots)

\* Users see a map: find, insert and erase agree with one whatever the collisions.
Map == INSTANCE AbstractMap WITH contents <- [k \in Key |-> Lookup(slots, k)]
ImplementsMap == Map!Safety
=============================================================================
