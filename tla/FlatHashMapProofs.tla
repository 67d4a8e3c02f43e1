--------------------------- MODULE FlatHashMapProofs ---------------------------
(***************************************************************************)
(* The hash table is a map, whatever the mixer and however its chains      *)
(* collide, wrap around and are shifted back: types, unbroken chains, the  *)
(* load, and the refinement of AbstractMap.                                *)
(***************************************************************************)
EXTENDS FlatHashMap, DataLemmas, FiniteSetTheorems, SequenceTheorems

-----------------------------------------------------------------------------
(* Positions on a cycle                                                    *)

\* The place d steps behind h, and the steps from h to i, on a cycle of length c.
Ahead(c, h, d)    == IF h + d < c THEN h + d ELSE h + d - c
Distance(c, h, i) == IF h <= i THEN i - h ELSE i - h + c

\* A number below c is what remains of it and any multiple of c.
LEMMA RemainderUnique ==
    ASSUME NEW c \in Nat \ {0}, NEW n \in Int, NEW r \in 0 .. (c - 1)
    PROVE  (n * c + r) % c = r
  OBVIOUS

\* What the masks of the code compute, for two places of one table.
LEMMA Cyclic ==
    ASSUME NEW c \in Nat \ {0}, NEW h \in 0 .. (c - 1), NEW i \in 0 .. (c - 1)
    PROVE  /\ (h + i) % c = Ahead(c, h, i) /\ Ahead(c, h, i) \in 0 .. (c - 1)
           /\ (i - h) % c = Distance(c, h, i) /\ Distance(c, h, i) \in 0 .. (c - 1)
           /\ Ahead(c, h, Distance(c, h, i)) = i /\ Distance(c, h, Ahead(c, h, i)) = i
  <1>1. /\ Ahead(c, h, i) \in 0 .. (c - 1) /\ Distance(c, h, i) \in 0 .. (c - 1)
        /\ Ahead(c, h, Distance(c, h, i)) = i /\ Distance(c, h, Ahead(c, h, i)) = i
    BY DEF Ahead, Distance
  <1>2. (h + i) % c = Ahead(c, h, i)
    <2>1. CASE h + i < c
      BY <2>1 DEF Ahead
    <2>2. CASE ~(h + i < c)
      <3>1. h + i = 1 * c + (h + i - c) /\ h + i - c \in 0 .. (c - 1)
        BY <2>2
      <3>2. (1 * c + (h + i - c)) % c = h + i - c
        BY <3>1, RemainderUnique
      <3> QED
        BY <2>2, <3>1, <3>2 DEF Ahead
    <2> QED
      BY <2>1, <2>2
  <1>3. (i - h) % c = Distance(c, h, i)
    <2>1. CASE h <= i
      BY <2>1 DEF Distance
    <2>2. CASE ~(h <= i)
      <3>1. i - h = (-1) * c + (i - h + c) /\ i - h + c \in 0 .. (c - 1)
        BY <2>2
      <3>2. ((-1) * c + (i - h + c)) % c = i - h + c
        BY <3>1, RemainderUnique
      <3> QED
        BY <2>2, <3>1, <3>2 DEF Distance
    <2> QED
      BY <2>1, <2>2
  <1> QED
    BY <1>1, <1>2, <1>3

-----------------------------------------------------------------------------
(* Tables                                                                  *)

Entry == [key : Key, value : Value]
Used(t) == {i \in Index(t) : At(t, i) # None}
Holds(t, e) == \E i \in Used(t) : At(t, i) = e

Table(t) == t \in Seq(Entry \cup {None}) /\ Capacity(t) \in Nat /\ Capacity(t) >= 2
\* A key has one slot.
Distinct(t) == \A i, j \in Used(t) : At(t, i).key = At(t, j).key => i = j
\* No unused slot between the home of a key and its slot.
Chains(t) ==
    \A i \in Used(t), j \in Index(t) :
        LET home == Ideal(t, At(t, i).key)
        IN  Distance(Capacity(t), home, j) <= Distance(Capacity(t), home, i) => j \in Used(t)
Good(t) == Table(t) /\ Distinct(t) /\ Chains(t)
Room(t) == Used(t) # Index(t)
Mixer   == mix \in [Key -> HashValue]

\* The home of a key is a place of the table.
LEMMA IdealIsIndex ==
    ASSUME Mixer, NEW t, Table(t), NEW k \in Key
    PROVE  Ideal(t, k) \in Index(t)
  <1>1. mix[k] \in Nat
    BY HashAssumption DEF Mixer
  <1>2. \A c \in Nat \ {0} : mix[k] % c \in 0 .. (c - 1)
    BY <1>1
  <1> QED
    BY <1>2 DEF Ideal, Index, Table

\* A place holds an entry or nothing, a used place an entry.
LEMMA SlotsTyped ==
    ASSUME NEW t, Table(t), NEW i \in Index(t)
    PROVE  /\ i + 1 \in 1 .. Len(t) /\ At(t, i) \in Entry \cup {None}
           /\ i \in Used(t) => At(t, i) \in Entry /\ At(t, i).key \in Key
  <1>1. i + 1 \in 1 .. Len(t) /\ At(t, i) \in Entry \cup {None}
    BY DEF Table, Index, At, Capacity
  <1> QED
    BY <1>1 DEF Used, Entry

\* The number of used slots is a number, and below the capacity if there is room.
LEMMA UsedCounted ==
    ASSUME NEW t, Table(t)
    PROVE  /\ IsFiniteSet(Used(t)) /\ Cardinality(Used(t)) \in 0 .. Capacity(t)
           /\ Cardinality(Used(t)) < Capacity(t) => Room(t)
           /\ Room(t) => \E r \in Index(t) : At(t, r) = None
  <1>1. IsFiniteSet(Index(t)) /\ Cardinality(Index(t)) = Capacity(t)
    <2>1. Capacity(t) \in Nat /\ Capacity(t) >= 2
      BY DEF Table
    <2> HIDE DEF Capacity
    <2>2. IsFiniteSet(0 .. (Capacity(t) - 1)) /\ Cardinality(0 .. (Capacity(t) - 1)) = Capacity(t)
      BY <2>1, FS_Interval
    <2> QED
      BY <2>2 DEF Index
  <1>2. Used(t) \in SUBSET Index(t)
    BY DEF Used
  <1>3. IsFiniteSet(Used(t)) /\ Cardinality(Used(t)) <= Cardinality(Index(t))
    BY <1>1, <1>2, FS_Subset
  <1>4. Cardinality(Used(t)) \in Nat /\ Capacity(t) \in Nat
    BY <1>3, FS_CardinalityType DEF Table
  <1>5. Cardinality(Used(t)) < Capacity(t) => Room(t)
    BY <1>1, <1>4 DEF Room
  <1>6. Room(t) => \E r \in Index(t) : At(t, r) = None
    BY <1>2 DEF Room, Used
  <1> QED
    BY <1>1, <1>3, <1>4, <1>5, <1>6

\* A probe ends: at the slot of its key, or at the first unused one behind its home.
LEMMA ProbeEnds ==
    ASSUME Mixer, NEW t, Good(t), Room(t), NEW k \in Key
    PROVE  LET c    == Capacity(t)
               home == Ideal(t, k)
               end  == Probe(t, k)
           IN  /\ end \in Index(t)
               /\ At(t, end) = None \/ At(t, end).key = k
               /\ \A j \in Index(t) : Distance(c, home, j) < Distance(c, home, end) =>
                      j \in Used(t) /\ At(t, j).key # k
  <1> DEFINE c == Capacity(t)
             home == Ideal(t, k)
             T == {d \in Index(t) : Stops(t, k, d)}
  <1>1. c \in Nat \ {0} /\ home \in 0 .. (c - 1) /\ Index(t) = 0 .. (c - 1)
    <2>1. c \in Nat \ {0} /\ home \in Index(t)
      BY IdealIsIndex DEF Good, Table
    <2> QED
      BY <2>1 DEF Index
  <1>2. \A d \in Index(t) : Stops(t, k, d) <=>
            At(t, Ahead(c, home, d)) = None \/ At(t, Ahead(c, home, d)).key = k
    <2> SUFFICES ASSUME NEW d \in Index(t)
                 PROVE  (home + d) % c = Ahead(c, home, d)
      BY DEF Stops
    <2> HIDE DEF c, home
    <2> QED
      BY <1>1, Cyclic
  <1>3. T # {}
    <2>1. PICK r \in Index(t) : At(t, r) = None
      BY UsedCounted DEF Good
    <2>2. Distance(c, home, r) \in Index(t) /\ Ahead(c, home, Distance(c, home, r)) = r
      BY <1>1, <2>1, Cyclic
    <2> QED
      BY <1>2, <2>1, <2>2
  <1>4. \E d \in Index(t) : Stops(t, k, d) /\ \A e \in 0 .. (d - 1) : ~Stops(t, k, e)
    <2>1. T \in SUBSET Nat
      BY <1>1
    <2>2. PICK d \in T : \A e \in T : d <= e
      BY <1>3, <2>1, LeastElement
    <2>3. \A e \in 0 .. (d - 1) : e \in Index(t) /\ e \notin T
      BY <1>1, <2>2
    <2> QED
      BY <2>2, <2>3
  <1> DEFINE d == Steps(t, k)
  <1>5. d \in Index(t) /\ Stops(t, k, d) /\ \A e \in 0 .. (d - 1) : ~Stops(t, k, e)
    BY <1>4, Zenon DEF Steps
  <1> HIDE DEF d, c, home
  <1>6. Probe(t, k) = Ahead(c, home, d) /\ Probe(t, k) \in Index(t)
        /\ Distance(c, home, Probe(t, k)) = d
    <2>1. Probe(t, k) = (home + d) % c
      BY DEF Probe, home, d, c
    <2> QED
      BY <1>1, <1>5, <2>1, Cyclic
  <1>7. ASSUME NEW j \in Index(t), Distance(c, home, j) < Distance(c, home, Probe(t, k))
        PROVE  j \in Used(t) /\ At(t, j).key # k
    <2>1. /\ Distance(c, home, j) \in Index(t) /\ Ahead(c, home, Distance(c, home, j)) = j
          /\ Distance(c, home, j) \in 0 .. (d - 1)
      <3>1. Distance(c, home, j) \in Index(t) /\ Ahead(c, home, Distance(c, home, j)) = j
        BY <1>1, Cyclic
      <3> QED
        BY <1>1, <1>5, <1>6, <1>7, <3>1
    <2>2. ~Stops(t, k, Distance(c, home, j))
      BY <1>5, <2>1
    <2> QED
      BY <1>2, <2>1, <2>2 DEF Used
  <1> QED
    BY <1>2, <1>5, <1>6, <1>7 DEF c, home

\* A probe for a stored key ends at its slot, one for any other key at an unused one.
LEMMA ProbeFinds ==
    ASSUME Mixer, NEW t, Good(t), Room(t), NEW k \in Key
    PROVE  /\ \A i \in Used(t) : At(t, i).key = k => Probe(t, k) = i
           /\ At(t, Probe(t, k)) = None <=> \A i \in Used(t) : At(t, i).key # k
  <1> DEFINE c == Capacity(t)
             home == Ideal(t, k)
             end == Probe(t, k)
  <1>1. /\ end \in Index(t) /\ (At(t, end) = None \/ At(t, end).key = k)
        /\ \A j \in Index(t) : Distance(c, home, j) < Distance(c, home, end) =>
               j \in Used(t) /\ At(t, j).key # k
    BY ProbeEnds
  <1>2. c \in Nat \ {0} /\ home \in 0 .. (c - 1) /\ Index(t) = 0 .. (c - 1)
    BY IdealIsIndex DEF Good, Table, Index
  <1>3. ASSUME NEW i \in Used(t), At(t, i).key = k
        PROVE  end = i
    <2>1. i \in Index(t)
      BY DEF Used
    <2>2. Distance(c, home, i) \in Nat /\ Distance(c, home, end) \in Nat
      BY <1>1, <1>2, <2>1, Cyclic
    <2>3. ~(Distance(c, home, i) < Distance(c, home, end))
      BY <1>1, <1>3, <2>1
    <2>4. end \in Used(t)
      BY <1>1, <1>3, <2>2, <2>3 DEF Good, Chains
    <2>5. At(t, end).key = k
      BY <1>1, <2>4 DEF Used
    <2> QED
      BY <1>3, <2>4, <2>5 DEF Good, Distinct
  <1>4. (At(t, end) = None) <=> \A i \in Used(t) : At(t, i).key # k
    BY <1>1, <1>3 DEF Used
  <1> QED
    BY <1>3, <1>4

\* find returns what is stored under the key.
LEMMA LookupFinds ==
    ASSUME Mixer, NEW t, Good(t), Room(t), NEW k \in Key
    PROVE  /\ \A e \in Entry : Holds(t, e) /\ e.key = k => Lookup(t, k) = e.value
           /\ (\A e \in Entry : Holds(t, e) => e.key # k) => Lookup(t, k) = None
           /\ Lookup(t, k) = None <=> At(t, Probe(t, k)) = None
  <1>1. /\ \A i \in Used(t) : At(t, i).key = k => Probe(t, k) = i
        /\ At(t, Probe(t, k)) = None <=> \A i \in Used(t) : At(t, i).key # k
    BY ProbeFinds
  <1>2. \A i \in Used(t) : i \in Index(t) /\ At(t, i) # None /\ At(t, i) \in Entry
    BY SlotsTyped DEF Used, Good
  <1>3. ASSUME NEW e \in Entry, Holds(t, e), e.key = k
        PROVE  Lookup(t, k) = e.value
    BY <1>1, <1>2, <1>3 DEF Holds, Lookup
  <1>4. (\A e \in Entry : Holds(t, e) => e.key # k) => Lookup(t, k) = None
    BY <1>1, <1>2 DEF Holds, Lookup
  <1>5. Lookup(t, k) = None <=> At(t, Probe(t, k)) = None
    <2>1. CASE At(t, Probe(t, k)) = None
      BY <2>1 DEF Lookup
    <2>2. CASE At(t, Probe(t, k)) # None
      <3>1. Probe(t, k) \in Used(t)
        BY <2>2, ProbeEnds DEF Used
      <3>2. At(t, Probe(t, k)).value \in Value
        BY <1>2, <3>1 DEF Entry
      <3> QED
        BY <2>2, <3>2, NoneAssumption DEF Lookup
    <2> QED
      BY <2>1, <2>2
  <1> QED
    BY <1>3, <1>4, <1>5

-----------------------------------------------------------------------------
(* insert                                                                  *)

\* One slot of a table is written.
Write(t, x, e) == [t EXCEPT ![x + 1] = e]

\* Writing one slot changes that slot only.
LEMMA WriteSlot ==
    ASSUME NEW t, Table(t), NEW x \in Index(t), NEW e \in Entry \cup {None}
    PROVE  /\ Table(Write(t, x, e))
           /\ Capacity(Write(t, x, e)) = Capacity(t) /\ Index(Write(t, x, e)) = Index(t)
           /\ \A k \in Key : Ideal(Write(t, x, e), k) = Ideal(t, k)
           /\ \A i \in Index(t) : At(Write(t, x, e), i) = IF i = x THEN e ELSE At(t, i)
  <1> DEFINE r == Write(t, x, e)
  <1>1. t \in Seq(Entry \cup {None}) /\ x + 1 \in 1 .. Len(t) /\ Len(t) \in Nat
    BY SlotsTyped DEF Table, Capacity
  <1>2. r \in Seq(Entry \cup {None}) /\ Len(r) = Len(t)
        /\ \A n \in 1 .. Len(t) : r[n] = IF n = x + 1 THEN e ELSE t[n]
    BY <1>1 DEF Write
  <1> HIDE DEF r
  <1>3. Table(r) /\ Capacity(r) = Capacity(t) /\ Index(r) = Index(t)
    BY <1>2 DEF Table, Capacity, Index
  <1>4. \A i \in Index(t) : At(r, i) = IF i = x THEN e ELSE At(t, i)
    BY <1>1, <1>2 DEF At, Index, Capacity
  <1>5. \A k \in Key : Ideal(r, k) = Ideal(t, k)
    BY <1>3 DEF Ideal
  <1> QED
    BY <1>3, <1>4, <1>5 DEF r

\* A key that is not stored goes where its probe ends, and breaks no chain.
LEMMA PutNew ==
    ASSUME Mixer, NEW t, Good(t), Room(t), NEW k \in Key, NEW v \in Value,
           At(t, Probe(t, k)) = None
    PROVE  LET r == Put(t, k, v)
           IN  /\ Good(r) /\ Capacity(r) = Capacity(t)
               /\ Probe(t, k) \notin Used(t) /\ Used(r) = Used(t) \cup {Probe(t, k)}
               /\ \A e \in Entry : Holds(r, e) <=> Holds(t, e) \/ e = [key |-> k, value |-> v]
  <1> DEFINE r == Put(t, k, v)
             end == Probe(t, k)
             new == [key |-> k, value |-> v]
             c == Capacity(t)
  <1>1. /\ end \in Index(t) /\ new \in Entry /\ new # None /\ Table(t) /\ end \notin Used(t)
        /\ r = [t EXCEPT ![end + 1] = new]
    BY ProbeEnds, NoneAssumption DEF Put, Good, Entry, Used
  <1>2. /\ Table(r) /\ Capacity(r) = c /\ Index(r) = Index(t)
        /\ \A j \in Key : Ideal(r, j) = Ideal(t, j)
        /\ \A i \in Index(t) : At(r, i) = IF i = end THEN new ELSE At(t, i)
    <2>1. r = Write(t, end, new) /\ new \in Entry \cup {None}
      BY <1>1 DEF Write
    <2> HIDE DEF r, end, new, c
    <2>2. /\ Table(Write(t, end, new))
          /\ Capacity(Write(t, end, new)) = Capacity(t) /\ Index(Write(t, end, new)) = Index(t)
          /\ \A j \in Key : Ideal(Write(t, end, new), j) = Ideal(t, j)
          /\ \A i \in Index(t) : At(Write(t, end, new), i) = IF i = end THEN new ELSE At(t, i)
      BY <1>1, <2>1, WriteSlot
    <2> QED
      BY <2>1, <2>2 DEF c
  <1>3. /\ \A i \in Used(t) : At(t, i).key # k
        /\ \A j \in Index(t) :
              Distance(c, Ideal(t, k), j) < Distance(c, Ideal(t, k), end) => j \in Used(t)
    BY ProbeFinds, ProbeEnds
  <1> HIDE DEF r, end, new
  <1>4. Used(r) = Used(t) \cup {end}
    BY <1>1, <1>2 DEF Used
  <1>5. \A i \in Used(t) : i \in Index(t) /\ i # end /\ At(r, i) = At(t, i) /\ At(t, i) \in Entry
    BY <1>1, <1>2, SlotsTyped DEF Used
  <1>6. At(r, end) = new /\ new.key = k
    BY <1>1, <1>2 DEF new
  <1>7. Distinct(r)
    <2> SUFFICES ASSUME NEW i \in Used(r), NEW j \in Used(r), At(r, i).key = At(r, j).key
                 PROVE  i = j
      BY DEF Distinct
    <2>1. CASE i \in Used(t) /\ j \in Used(t)
      BY <1>5, <2>1 DEF Distinct, Good
    <2>2. CASE i = end \/ j = end
      BY <1>3, <1>4, <1>5, <1>6, <2>2
    <2> QED
      BY <1>4, <2>1, <2>2
  <1>8. Chains(r)
    <2> SUFFICES ASSUME NEW i \in Used(r), NEW j \in Index(t),
                        Distance(c, Ideal(t, At(r, i).key), j)
                            <= Distance(c, Ideal(t, At(r, i).key), i)
                 PROVE  j \in Used(r)
      <3>1. \A i \in Used(r) : At(r, i).key \in Key
        BY <1>4, <1>5, <1>6 DEF Entry
      <3> QED
        BY <1>2, <3>1 DEF Chains
    <2>1. CASE i \in Used(t)
      BY <1>4, <1>5, <2>1 DEF Good, Chains
    <2>2. CASE i = end /\ j # end
      <3> DEFINE home == Ideal(t, k)
      <3>1. c \in Nat \ {0} /\ Index(t) = 0 .. (c - 1) /\ home \in Index(t)
        BY <1>1, IdealIsIndex DEF Table, Index
      <3> HIDE DEF home, c
      <3>2. Distance(c, home, j) # Distance(c, home, end)
        BY <1>1, <2>2, <3>1, Cyclic
      <3>3. Distance(c, home, j) \in 0 .. (c - 1) /\ Distance(c, home, end) \in 0 .. (c - 1)
        BY <1>1, <3>1, Cyclic
      <3>4. Distance(c, home, j) < Distance(c, home, end)
        BY <1>6, <2>2, <3>1, <3>2, <3>3 DEF home, c
      <3> QED
        BY <1>3, <1>4, <3>4 DEF home
    <2> QED
      BY <1>4, <2>1, <2>2
  <1>9. \A e \in Entry : Holds(r, e) <=> Holds(t, e) \/ e = new
    BY <1>4, <1>5, <1>6 DEF Holds
  <1> QED
    BY <1>1, <1>2, <1>4, <1>7, <1>8, <1>9 DEF Good, r, end, new

\* A table with nothing in it.
LEMMA EmptyIsGood ==
    ASSUME NEW n \in Nat, n >= 2
    PROVE  /\ Good(EmptyTable(n)) /\ Capacity(EmptyTable(n)) = n
           /\ Used(EmptyTable(n)) = {} /\ Cardinality(Used(EmptyTable(n))) = 0
  <1> DEFINE t == EmptyTable(n)
  <1>1. t \in Seq(Entry \cup {None}) /\ Len(t) = n /\ \A i \in 1 .. n : t[i] = None
    BY DEF EmptyTable
  <1> HIDE DEF t
  <1>2. Table(t) /\ Capacity(t) = n
    BY <1>1 DEF Table, Capacity
  <1>3. Used(t) = {}
    BY <1>1 DEF Used, Index, Capacity, At
  <1>4. Cardinality(Used(t)) = 0
    BY <1>3, FS_EmptySet
  <1> QED
    BY <1>2, <1>3, <1>4 DEF Good, Distinct, Chains, t

-----------------------------------------------------------------------------
(* rehash                                                                  *)

\* One slot of the old table is inserted into the new one.
Refill(t, n, r) == IF t[n] = None THEN r ELSE Put(r, t[n].key, t[n].value)

\* The recursion over the old table defines the table rehash ends with.
LEMMA RehashRecursion ==
    ASSUME NEW t, Table(t), NEW n \in Nat
    PROVE  \E f : /\ f[0] = EmptyTable(n) /\ f[Len(t)] = Rehash(t, n)
                  /\ \A i \in 1 .. Len(t) : f[i] = Refill(t, i, f[i - 1])
  <1> DEFINE S == Seq(Entry \cup {None})
             base == EmptyTable(n)
             step == [i \in 1 .. Len(t) |-> [r \in S |-> Refill(t, i, r)]]
             Body(f) == [i \in 0 .. Len(t) |->
                            IF i = 0 THEN EmptyTable(n)
                            ELSE IF t[i] = None THEN f[i - 1]
                            ELSE Put(f[i - 1], t[i].key, t[i].value)]
             F == CHOOSE f : f = Body(f)
  <1>1. Len(t) \in Nat /\ \A i \in 1 .. Len(t) : t[i] \in Entry \cup {None}
    BY DEF Table
  <1>2. base \in S
    BY DEF EmptyTable
  <1>3. IsStep(S, Len(t), base, step)
    <2> SUFFICES ASSUME NEW i \in 1 .. Len(t), NEW r \in S PROVE Refill(t, i, r) \in S
      BY <1>2 DEF IsStep
    <2>1. ASSUME t[i] # None, NEW x PROVE [r EXCEPT ![x] = t[i]] \in S
      <3>1. Len(r) \in Nat /\ r \in [1 .. Len(r) -> Entry \cup {None}]
        OBVIOUS
      <3>2. [r EXCEPT ![x] = t[i]] \in [1 .. Len(r) -> Entry \cup {None}]
        BY <1>1, <3>1
      <3> QED
        BY <3>1, <3>2
    <2>2. t[i] # None => t[i] = [key |-> t[i].key, value |-> t[i].value]
      BY <1>1 DEF Entry
    <2> QED
      BY <2>1, <2>2 DEF Refill, Put
  <1> HIDE DEF S, base, step
  <1>4. PICK f : IsRecursion(S, Len(t), base, step, f)
    BY <1>1, <1>3, RecursionOnInterval
  <1>5. \A i \in 1 .. Len(t) : step[i][f[i - 1]] = Refill(t, i, f[i - 1])
    <2> SUFFICES ASSUME NEW i \in 1 .. Len(t) PROVE step[i][f[i - 1]] = Refill(t, i, f[i - 1])
      OBVIOUS
    <2>1. f[i - 1] \in S
      BY <1>1, <1>4 DEF IsRecursion
    <2> QED
      BY <2>1 DEF step
  <1>6. f = Body(f)
    BY <1>1, <1>4, <1>5 DEF Refill, base, IsRecursion
  <1>7. F = Body(F)
    BY <1>6
  <1>8. Rehash(t, n) = F[Len(t)]
    BY DEF Rehash
  <1> HIDE DEF F
  <1>9. F[0] = EmptyTable(n) /\ \A i \in 1 .. Len(t) : F[i] = Refill(t, i, F[i - 1])
    <2>1. \A i \in 0 .. Len(t) : F[i] = Body(F)[i]
      BY <1>7
    <2> QED
      BY <1>1, <2>1 DEF Refill
  <1> QED
    BY <1>8, <1>9

\* Rehashing loses nothing, doubles nothing and counts right, if the new table is larger
\* than what it has to hold.
LEMMA RehashKeeps ==
    ASSUME Mixer, NEW t, Good(t), NEW n \in Nat, n >= 2, Cardinality(Used(t)) < n
    PROVE  /\ Good(Rehash(t, n)) /\ Capacity(Rehash(t, n)) = n
           /\ Cardinality(Used(Rehash(t, n))) = Cardinality(Used(t))
           /\ \A e \in Entry : Holds(Rehash(t, n), e) <=> Holds(t, e)
  <1>1. PICK f : /\ f[0] = EmptyTable(n) /\ f[Len(t)] = Rehash(t, n)
                 /\ \A i \in 1 .. Len(t) : f[i] = Refill(t, i, f[i - 1])
    BY RehashRecursion DEF Good
  <1> DEFINE Earlier(m) == {i \in Used(t) : i < m}
             Inv(m) == /\ Good(f[m]) /\ Capacity(f[m]) = n
                       /\ Cardinality(Used(f[m])) = Cardinality(Earlier(m))
                       /\ \A e \in Entry : Holds(f[m], e) <=> \E i \in Earlier(m) : At(t, i) = e
             T == {m \in 0 .. Len(t) : Inv(m)}
  <1>2. /\ Len(t) \in Nat /\ Table(t) /\ Used(t) \subseteq 0 .. (Len(t) - 1)
        /\ \A m \in 1 .. Len(t) : t[m] = At(t, m - 1)
        /\ \A i \in Used(t) : At(t, i) \in Entry /\ At(t, i) # None
    BY SlotsTyped DEF Good, Table, Used, Index, Capacity, At
  <1>3. \A m \in Nat : /\ Earlier(m) \in SUBSET Used(t) /\ IsFiniteSet(Earlier(m))
                        /\ Cardinality(Earlier(m)) \in Nat
                        /\ Cardinality(Earlier(m)) <= Cardinality(Used(t))
    <2> TAKE m \in Nat
    <2>1. Earlier(m) \in SUBSET Used(t)
      OBVIOUS
    <2> HIDE DEF Earlier
    <2>2. IsFiniteSet(Used(t))
      BY <1>2, UsedCounted
    <2> QED
      BY <2>1, <2>2, FS_Subset, FS_CardinalityType
  <1>4. 0 \in T
    <2>1. Earlier(0) = {}
      BY <1>2
    <2>2. Good(f[0]) /\ Capacity(f[0]) = n /\ Used(f[0]) = {}
      BY <1>1, EmptyIsGood
    <2>3. Inv(0)
      <3> HIDE DEF Earlier
      <3> QED
        BY <2>1, <2>2 DEF Holds
    <2> QED
      BY <1>2, <2>3
  <1>5. \A m \in 0 .. (Len(t) - 1) : m \in T => m + 1 \in T
    <2> HIDE DEF Inv
    <2> SUFFICES ASSUME NEW m \in 0 .. (Len(t) - 1), Inv(m) PROVE Inv(m + 1)
      BY <1>2
    <2> USE DEF Inv
    <2>1. m \in Nat /\ m + 1 \in 1 .. Len(t) /\ t[m + 1] = At(t, m) /\ m \in Index(t)
      BY <1>2 DEF Index, Capacity
    <2>2. f[m + 1] = Refill(t, m + 1, f[m])
      BY <1>1, <2>1
    <2>3. CASE t[m + 1] = None
      <3>1. Earlier(m + 1) = Earlier(m)
        BY <1>2, <2>1, <2>3 DEF Used
      <3>2. f[m + 1] = f[m]
        BY <2>2, <2>3 DEF Refill
      <3> HIDE DEF Earlier
      <3> QED
        BY <3>1, <3>2
    <2>4. CASE t[m + 1] # None
      <3> DEFINE e == At(t, m)
                 r == f[m]
      <3>1. m \in Used(t) /\ e \in Entry
        BY <1>2, <2>1, <2>4 DEF Used
      <3>2. /\ e.key \in Key /\ e.value \in Value /\ e = [key |-> e.key, value |-> e.value]
            /\ f[m + 1] = Put(r, e.key, e.value)
        BY <2>1, <2>2, <2>4, <3>1 DEF Refill, Entry
      <3>3. Earlier(m + 1) = Earlier(m) \cup {m} /\ m \notin Earlier(m)
        BY <1>2, <2>1, <3>1
      <3>4. Good(r) /\ Room(r) /\ Table(r)
        <4>1. Good(r) /\ Table(r) /\ Cardinality(Used(r)) = Cardinality(Earlier(m)) /\ Capacity(r) = n
          BY DEF Good
        <4>2. Cardinality(Earlier(m)) <= Cardinality(Used(t)) /\ Cardinality(Earlier(m)) \in Nat
          BY <1>3, <2>1
        <4>3. Cardinality(Used(t)) \in Nat
          BY <1>2, UsedCounted DEF Table
        <4> HIDE DEF Earlier, r
        <4> QED
          BY <4>1, <4>2, <4>3, UsedCounted
      <3>5. \A i \in Used(r) : At(r, i).key # e.key
        <4> SUFFICES ASSUME NEW i \in Used(r) PROVE At(r, i).key # e.key
          OBVIOUS
        <4>1. At(r, i) \in Entry /\ Holds(r, At(r, i))
          BY <3>4, SlotsTyped DEF Used, Holds
        <4>2. PICK j \in Earlier(m) : At(t, j) = At(r, i)
          BY <4>1
        <4> QED
          BY <3>1, <3>3, <4>2 DEF Good, Distinct
      <3>6. At(r, Probe(r, e.key)) = None
        BY <3>2, <3>4, <3>5, ProbeFinds
      <3>7. /\ Good(f[m + 1]) /\ Capacity(f[m + 1]) = n
            /\ Probe(r, e.key) \notin Used(r) /\ Used(f[m + 1]) = Used(r) \cup {Probe(r, e.key)}
            /\ \A g \in Entry : Holds(f[m + 1], g) <=> Holds(r, g) \/ g = e
        BY <3>2, <3>4, <3>6, PutNew
      <3>8. Cardinality(Used(f[m + 1])) = Cardinality(Earlier(m + 1))
        <4>1. IsFiniteSet(Used(r))
          BY <3>4, UsedCounted
        <4>2. Cardinality(Used(r) \cup {Probe(r, e.key)}) = Cardinality(Used(r)) + 1
          BY <3>7, <4>1, FS_AddElement
        <4>3. Cardinality(Earlier(m) \cup {m}) = Cardinality(Earlier(m)) + 1
          <5> HIDE DEF Earlier
          <5> QED
            BY <1>3, <2>1, <3>3, FS_AddElement
        <4> QED
          BY <3>3, <3>7, <4>2, <4>3
      <3>9. \A g \in Entry : Holds(f[m + 1], g) <=> \E i \in Earlier(m + 1) : At(t, i) = g
        BY <3>3, <3>7
      <3> QED
        BY <3>7, <3>8, <3>9
    <2> QED
      BY <2>3, <2>4
  <1>6. Inv(Len(t))
    <2> HIDE DEF Inv
    <2>1. 0 .. Len(t) \subseteq T
      <3> HIDE DEF T
      <3> QED
        BY <1>2, <1>4, <1>5, UpTo
    <2> QED
      BY <1>2, <2>1
  <1>7. Earlier(Len(t)) = Used(t)
    BY <1>2
  <1> QED
    BY <1>1, <1>6, <1>7 DEF Holds

-----------------------------------------------------------------------------
(* erase                                                                   *)

\* Seen from an unused slot r, a table is a line: no chain goes past r.
LEMMA Line ==
    ASSUME NEW c \in Nat \ {0}, NEW r \in 0 .. (c - 1), NEW h \in 0 .. (c - 1),
           NEW i \in 0 .. (c - 1)
    PROVE  /\ Distance(c, r, i) \in 0 .. (c - 1) /\ Distance(c, r, r) = 0
           /\ Distance(c, r, i) = Distance(c, r, h) => i = h
           /\ Distance(c, r, h) <= Distance(c, r, i) =>
                  Distance(c, h, i) = Distance(c, r, i) - Distance(c, r, h)
           /\ Distance(c, h, i) < Distance(c, h, r) <=>
                  1 <= Distance(c, r, h) /\ Distance(c, r, h) <= Distance(c, r, i)
           /\ \A j \in 0 .. (c - 1) :
                  1 <= Distance(c, r, h) /\ Distance(c, r, h) <= Distance(c, r, i) =>
                     (Distance(c, h, j) <= Distance(c, h, i) <=>
                         /\ Distance(c, r, h) <= Distance(c, r, j)
                         /\ Distance(c, r, j) <= Distance(c, r, i))
  BY DEF Distance

\* The place of a slot, and of the home of the key in it, on the line behind r.
Pos(t, r, i)     == Distance(Capacity(t), r, i)
HomePos(t, r, i) == Pos(t, r, Ideal(t, At(t, i).key))
\* Slot j lies between the home of the key in slot i and i.
Spans(t, r, i, j) == HomePos(t, r, i) <= Pos(t, r, j) /\ Pos(t, r, j) <= Pos(t, r, i)

\* Cut at an unused slot the circle is a line, on which chains are unbroken iff every place
\* between an entry's home and the entry is used.
LEMMA ChainsOnLine ==
    ASSUME Mixer, NEW t, Table(t), NEW r \in Index(t), At(t, r) = None
    PROVE  Chains(t) <=> \A i \in Used(t) :
                            /\ 1 <= HomePos(t, r, i) /\ HomePos(t, r, i) <= Pos(t, r, i)
                            /\ \A j \in Index(t) : Spans(t, r, i, j) => j \in Used(t)
  <1> DEFINE c == Capacity(t)
             home(i) == Ideal(t, At(t, i).key)
  <1>1. c \in Nat \ {0} /\ Index(t) = 0 .. (c - 1) /\ r \notin Used(t)
    BY DEF Table, Index, Used
  <1>2. \A i \in Used(t) : i \in Index(t) /\ home(i) \in Index(t)
    BY SlotsTyped, IdealIsIndex DEF Used
  <1> HIDE DEF home, c
  <1>3. ASSUME NEW i \in Used(t)
        PROVE  /\ Distance(c, home(i), i) < Distance(c, home(i), r) <=>
                      1 <= HomePos(t, r, i) /\ HomePos(t, r, i) <= Pos(t, r, i)
               /\ 1 <= HomePos(t, r, i) /\ HomePos(t, r, i) <= Pos(t, r, i) =>
                     \A j \in Index(t) :
                        (Distance(c, home(i), j) <= Distance(c, home(i), i) <=> Spans(t, r, i, j))
    <2> DEFINE h == home(i)
    <2>1. h \in 0 .. (c - 1) /\ i \in 0 .. (c - 1) /\ r \in 0 .. (c - 1)
      BY <1>1, <1>2
    <2>2. /\ HomePos(t, r, i) = Distance(c, r, h) /\ Pos(t, r, i) = Distance(c, r, i)
          /\ \A j : Pos(t, r, j) = Distance(c, r, j)
      BY DEF HomePos, Pos, home, c
    <2> HIDE DEF h
    <2>3. /\ Distance(c, h, i) < Distance(c, h, r) <=>
                  1 <= Distance(c, r, h) /\ Distance(c, r, h) <= Distance(c, r, i)
          /\ \A j \in 0 .. (c - 1) :
                  1 <= Distance(c, r, h) /\ Distance(c, r, h) <= Distance(c, r, i) =>
                     (Distance(c, h, j) <= Distance(c, h, i) <=>
                         /\ Distance(c, r, h) <= Distance(c, r, j)
                         /\ Distance(c, r, j) <= Distance(c, r, i))
      BY <1>1, <2>1, Line
    <2> QED
      BY <1>1, <2>2, <2>3 DEF Spans, h
  <1>4. ASSUME NEW i \in Used(t)
        PROVE  Distance(c, home(i), i) < Distance(c, home(i), r)
                  <=> ~(Distance(c, home(i), r) <= Distance(c, home(i), i))
    <2>1. Distance(c, home(i), i) \in 0 .. (c - 1) /\ Distance(c, home(i), r) \in 0 .. (c - 1)
      BY <1>1, <1>2, Cyclic
    <2> QED
      BY <1>1, <2>1
  <1> DEFINE InChain(i, j) == Distance(c, home(i), j) <= Distance(c, home(i), i)
             Homed(i) == 1 <= HomePos(t, r, i) /\ HomePos(t, r, i) <= Pos(t, r, i)
  <1>5. Chains(t) <=> \A i \in Used(t), j \in Index(t) : InChain(i, j) => j \in Used(t)
    BY DEF Chains, home, c
  <1>6. \A i \in Used(t) : Homed(i) <=> ~InChain(i, r)
    BY <1>3, <1>4
  <1>7. \A i \in Used(t) : Homed(i) => \A j \in Index(t) : InChain(i, j) <=> Spans(t, r, i, j)
    BY <1>3
  <1> HIDE DEF InChain, Homed
  <1>8. Chains(t) <=> \A i \in Used(t) : /\ Homed(i)
                                         /\ \A j \in Index(t) : Spans(t, r, i, j) => j \in Used(t)
    BY <1>1, <1>5, <1>6, <1>7
  <1> QED
    BY <1>8 DEF Homed

Turns(t) == [table : {r \in Seq(Entry \cup {None}) : Len(r) = Len(t)},
             hole : Index(t), ended : BOOLEAN]

\* The turns from the erased slot on, and the table they end with.
LEMMA ShiftRecursion ==
    ASSUME Mixer, NEW t, Table(t), NEW idx \in Index(t)
    PROVE  \E f : /\ f[0] = [table |-> t, hole |-> idx, ended |-> FALSE]
                  /\ \A d \in 1 .. (Capacity(t) - 1) : f[d] = Turn(t, idx, d, f[d - 1])
                  /\ \A d \in 0 .. (Capacity(t) - 1) : f[d] \in Turns(t)
                  /\ ShiftOut(t, idx) = Write(f[Capacity(t) - 1].table,
                                              f[Capacity(t) - 1].hole, None)
  <1> DEFINE n == Capacity(t) - 1
             S == Turns(t)
             base == [table |-> t, hole |-> idx, ended |-> FALSE]
             step == [d \in 1 .. n |-> [s \in S |-> Turn(t, idx, d, s)]]
             Body(f) == [d \in 0 .. (Capacity(t) - 1) |->
                IF d = 0 THEN base ELSE Turn(t, idx, d, f[d - 1])]
             F == CHOOSE f : f = Body(f)
  <1>1. n \in Nat /\ n + 1 = Capacity(t) /\ Capacity(t) \in Nat \ {0} /\ Index(t) = 0 .. n
    BY DEF Table, Index
  <1>2. base \in S
    BY DEF Turns, Table
  <1>3. ASSUME NEW d \in 1 .. n, NEW s \in S
        PROVE  Turn(t, idx, d, s) \in S
    <2> DEFINE probe == (idx + d) % Capacity(t)
    <2>1. probe \in Index(t)
      <3> DEFINE c == Capacity(t)
      <3>1. c \in Nat \ {0} /\ idx \in 0 .. (c - 1) /\ d \in 0 .. (c - 1) /\ Index(t) = 0 .. (c - 1)
        BY <1>1 DEF Index
      <3> HIDE DEF c
      <3>2. (idx + d) % c = Ahead(c, idx, d) /\ Ahead(c, idx, d) \in 0 .. (c - 1)
        BY <3>1, Cyclic
      <3> QED
        BY <3>1, <3>2 DEF c
    <2>2. /\ s.table \in Seq(Entry \cup {None}) /\ Len(s.table) = Len(t) /\ s.hole \in Index(t)
          /\ s.ended \in BOOLEAN
      BY DEF Turns
    <2>3. At(s.table, probe) \in Entry \cup {None}
      BY <1>1, <2>1, <2>2 DEF At, Capacity
    <2>4. [s EXCEPT !.ended = TRUE] \in S
      BY DEF Turns
    <2>5. [table |-> [s.table EXCEPT ![s.hole + 1] = At(s.table, probe)],
           hole |-> probe, ended |-> FALSE] \in S
      <3> HIDE DEF probe
      <3> DEFINE e == At(s.table, probe)
                 w == [s.table EXCEPT ![s.hole + 1] = e]
      <3>1. Len(t) \in Nat /\ s.table \in [1 .. Len(t) -> Entry \cup {None}]
        BY <2>2 DEF Table
      <3> HIDE DEF e
      <3>2. w \in [1 .. Len(t) -> Entry \cup {None}] /\ Len(t) \in Nat
        BY <2>3, <3>1 DEF e
      <3> HIDE DEF w
      <3>3. w \in Seq(Entry \cup {None}) /\ Len(w) = Len(t)
        BY <3>2
      <3>4. [table |-> w, hole |-> probe, ended |-> FALSE] \in S
        BY <2>1, <3>3 DEF Turns
      <3> QED
        BY <3>4 DEF w, e
    <2> QED
      BY <2>4, <2>5 DEF Turn
  <1>4. IsStep(S, n, base, step)
    BY <1>2, <1>3 DEF IsStep
  <1> HIDE DEF S, base, step
  <1>5. PICK f : IsRecursion(S, n, base, step, f)
    BY <1>1, <1>4, RecursionOnInterval
  <1>6. \A d \in 1 .. n : f[d] = Turn(t, idx, d, f[d - 1])
    <2> SUFFICES ASSUME NEW d \in 1 .. n PROVE f[d] = Turn(t, idx, d, f[d - 1])
      OBVIOUS
    <2>1. f[d - 1] \in S /\ f[d] = step[d][f[d - 1]]
      BY <1>1, <1>5 DEF IsRecursion
    <2> QED
      BY <2>1 DEF step
  <1>7. f \in [0 .. n -> S] /\ f[0] = base
    BY <1>5 DEF IsRecursion
  <1>8. f = Body(f)
    BY <1>1, <1>6, <1>7
  <1>9. F = Body(F)
    BY <1>8
  <1>10. ShiftOut(t, idx) = Write(F[n].table, F[n].hole, None)
    BY DEF ShiftOut, Write, base
  <1> HIDE DEF F
  <1>11. F[0] = base /\ \A d \in 1 .. n : F[d] = Turn(t, idx, d, F[d - 1])
    <2>1. \A d \in 0 .. n : F[d] = Body(F)[d]
      BY <1>9
    <2>2. F[0] = base
      BY <1>1, <2>1
    <2>3. \A d \in 1 .. n : F[d] = Turn(t, idx, d, F[d - 1])
      BY <1>1, <2>1
    <2> QED
      BY <2>2, <2>3
  <1>12. \A d \in 0 .. n : F[d] \in S
    <2> DEFINE T == {d \in 0 .. n : F[d] \in S}
    <2>1. 0 \in T
      BY <1>1, <1>2, <1>11
    <2>2. \A d \in 0 .. (n - 1) : d \in T => d + 1 \in T
      <3> SUFFICES ASSUME NEW d \in 0 .. (n - 1), F[d] \in S PROVE F[d + 1] \in S
        BY <1>1
      <3>1. d + 1 \in 1 .. n /\ (d + 1) - 1 = d
        BY <1>1
      <3>2. F[d + 1] = Turn(t, idx, d + 1, F[(d + 1) - 1])
        BY <1>11, <3>1
      <3> QED
        BY <1>3, <3>1, <3>2
    <2> HIDE DEF T
    <2>3. 0 .. n \subseteq T
      BY <1>1, <2>1, <2>2, UpTo
    <2> QED
      BY <2>3 DEF T
  <1> QED
    BY <1>10, <1>11, <1>12 DEF S, base

\* The table with the hole taken out: what erase would end with if it ended here.
Emptied(s) == Write(s.table, s.hole, None)

\* The table of a turn, and with its hole emptied, slot by slot.
LEMMA EmptiedSlots ==
    ASSUME NEW t, Table(t), NEW s \in Turns(t)
    PROVE  /\ Table(s.table) /\ Capacity(s.table) = Capacity(t) /\ Index(s.table) = Index(t)
           /\ s.hole \in Index(t)
           /\ Table(Emptied(s)) /\ Capacity(Emptied(s)) = Capacity(t)
           /\ Index(Emptied(s)) = Index(t)
           /\ \A i \in Index(t) :
                 At(Emptied(s), i) = IF i = s.hole THEN None ELSE At(s.table, i)
           /\ Used(Emptied(s)) = Used(s.table) \ {s.hole}
  <1>1. /\ Table(s.table) /\ Capacity(s.table) = Capacity(t) /\ Index(s.table) = Index(t)
        /\ s.hole \in Index(s.table)
    BY DEF Turns, Table, Capacity, Index
  <1>2. /\ Table(Emptied(s)) /\ Capacity(Emptied(s)) = Capacity(s.table)
        /\ Index(Emptied(s)) = Index(s.table)
        /\ \A i \in Index(s.table) :
              At(Emptied(s), i) = IF i = s.hole THEN None ELSE At(s.table, i)
    BY <1>1, WriteSlot DEF Emptied
  <1>3. Used(Emptied(s)) = Used(s.table) \ {s.hole}
    BY <1>1, <1>2 DEF Used
  <1> QED
    BY <1>1, <1>2, <1>3

\* Places on the line behind r.
LEMMA Places ==
    ASSUME NEW t, Table(t), NEW r \in Index(t)
    PROVE  /\ \A i \in Index(t) : Pos(t, r, i) \in 0 .. (Capacity(t) - 1)
           /\ Pos(t, r, r) = 0
           /\ \A i, j \in Index(t) : Pos(t, r, i) = Pos(t, r, j) => i = j
           /\ \A h, i \in Index(t) : Pos(t, r, h) <= Pos(t, r, i) =>
                 Distance(Capacity(t), h, i) = Pos(t, r, i) - Pos(t, r, h)
  <1>1. Capacity(t) \in Nat \ {0} /\ Index(t) = 0 .. (Capacity(t) - 1)
    BY DEF Table, Index
  <1> QED
    BY <1>1, Line DEF Pos

\* Where the turns look: at the next place of the line, or past its end at r.
LEMMA NextPlace ==
    ASSUME NEW t, Table(t), NEW r \in Index(t), NEW i \in Index(t), NEW d \in 1 .. (Capacity(t) - 1),
           Pos(t, r, i) + d <= Capacity(t)
    PROVE  LET x == (i + d) % Capacity(t)
           IN  /\ x \in Index(t)
               /\ Pos(t, r, i) + d < Capacity(t) => Pos(t, r, x) = Pos(t, r, i) + d
               /\ Pos(t, r, i) + d = Capacity(t) => x = r
  <1> DEFINE c == Capacity(t)
  <1>1. /\ c \in Nat \ {0} /\ Index(t) = 0 .. (c - 1)
        /\ d \in 0 .. (c - 1) /\ i \in 0 .. (c - 1) /\ r \in 0 .. (c - 1)
    BY DEF Table, Index
  <1>2. Pos(t, r, i) = Distance(c, r, i) /\ \A x : Pos(t, r, x) = Distance(c, r, x)
    BY DEF Pos
  <1> HIDE DEF c
  <1>3. (i + d) % c = Ahead(c, i, d) /\ Ahead(c, i, d) \in 0 .. (c - 1)
    BY <1>1, Cyclic
  <1>4. Distance(c, r, i) + d <= c
    BY <1>2 DEF c
  <1>5. /\ Distance(c, r, i) + d < c => Distance(c, r, Ahead(c, i, d)) = Distance(c, r, i) + d
        /\ Distance(c, r, i) + d = c => Ahead(c, i, d) = r
    BY <1>1, <1>4 DEF Distance, Ahead
  <1>6. /\ Pos(t, r, i) + d < c => Pos(t, r, (i + d) % c) = Pos(t, r, i) + d
        /\ Pos(t, r, i) + d = c => (i + d) % c = r
        /\ (i + d) % c \in Index(t)
    BY <1>1, <1>2, <1>3, <1>5
  <1> QED
    BY <1>6 DEF c

\* The invariant of the turns, d turns after the slot idx was emptied, on the line
\* behind the unused slot r.
Shifting(t, r, idx, d, s) ==
    LET u == Emptied(s)
    IN  /\ s \in Turns(t) /\ Used(s.table) = Used(t) /\ s.hole \in Used(t)
        \* the turns are still on the line, and what lies ahead of them is untouched
        /\ ~s.ended => /\ Pos(t, r, idx) + d < Capacity(t)
                       /\ Pos(t, r, s.hole) <= Pos(t, r, idx) + d
                       /\ \A i \in Index(t) : Pos(t, r, i) > Pos(t, r, idx) + d =>
                              At(s.table, i) = At(t, i)
        \* only the erased entry is gone
        /\ Distinct(u)
        /\ \A e \in Entry : Holds(u, e) <=> Holds(t, e) /\ e # At(t, idx)
        \* only a slot ahead of the turns can have the hole in its chain
        /\ \A i \in Used(u) :
              /\ 1 <= HomePos(u, r, i) /\ HomePos(u, r, i) <= Pos(u, r, i)
              /\ \A j \in Index(t) : Spans(u, r, i, j) =>
                    \/ j \in Used(u)
                    \/ j = s.hole /\ ~s.ended /\ Pos(t, r, i) > Pos(t, r, idx) + d

\* Before the first turn the hole is the erased place.
LEMMA ShiftStarts ==
    ASSUME Mixer, NEW t, Good(t), NEW r \in Index(t), At(t, r) = None, NEW idx \in Used(t)
    PROVE  Shifting(t, r, idx, 0, [table |-> t, hole |-> idx, ended |-> FALSE])
  <1> DEFINE s == [table |-> t, hole |-> idx, ended |-> FALSE]
             u == Emptied(s)
  <1>1. idx \in Index(t) /\ Table(t) /\ t \in Seq(Entry \cup {None})
    BY DEF Used, Good, Table
  <1>2. s \in Turns(t) /\ s.table = t /\ s.hole = idx /\ ~s.ended
    BY <1>1 DEF Turns
  <1> HIDE DEF s
  <1>3. /\ Table(u) /\ Capacity(u) = Capacity(t) /\ Index(u) = Index(t)
        /\ \A i \in Index(t) : At(u, i) = IF i = idx THEN None ELSE At(t, i)
        /\ Used(u) = Used(t) \ {idx}
    BY <1>1, <1>2, EmptiedSlots
  <1>4. /\ \A i \in Index(t) : Pos(t, r, i) \in 0 .. (Capacity(t) - 1)
        /\ \A i, j \in Index(t) : Pos(t, r, i) = Pos(t, r, j) => i = j
    BY <1>1, Places
  <1>5. \A i \in Used(t) : /\ 1 <= HomePos(t, r, i) /\ HomePos(t, r, i) <= Pos(t, r, i)
                           /\ \A j \in Index(t) : Spans(t, r, i, j) => j \in Used(t)
    BY <1>1, ChainsOnLine DEF Good
  <1> HIDE DEF u
  <1>6. \A i \in Used(u) : i \in Used(t) /\ i \in Index(t) /\ At(u, i) = At(t, i) /\ i # idx
    BY <1>3 DEF Used
  <1>7. \A i \in Used(u) : HomePos(u, r, i) = HomePos(t, r, i) /\ Pos(u, r, i) = Pos(t, r, i)
    BY <1>3, <1>6 DEF HomePos, Pos, Ideal
  <1>8. \A i \in Used(u), j \in Index(t) : Spans(u, r, i, j) <=> Spans(t, r, i, j)
    BY <1>3, <1>7 DEF Spans, Pos
  <1>9. Distinct(u)
    BY <1>6 DEF Distinct, Good
  <1>10. \A e \in Entry : Holds(u, e) <=> Holds(t, e) /\ e # At(t, idx)
    BY <1>3, <1>6 DEF Holds, Good, Distinct
  <1>11. ASSUME NEW i \in Used(u), NEW j \in Index(t), Spans(u, r, i, j)
         PROVE  j \in Used(u) \/ (j = idx /\ Pos(t, r, i) > Pos(t, r, idx) + 0)
    <2>1. j \in Used(t)
      BY <1>5, <1>6, <1>8, <1>11
    <2>2. ASSUME j = idx PROVE Pos(t, r, i) > Pos(t, r, idx)
      <3>1. Pos(t, r, idx) <= Pos(t, r, i)
        BY <1>6, <1>8, <1>11, <2>2 DEF Spans
      <3>2. Pos(t, r, i) # Pos(t, r, idx)
        BY <1>1, <1>4, <1>6
      <3> QED
        BY <1>1, <1>4, <1>6, <3>1, <3>2
    <2> QED
      BY <1>1, <1>3, <1>4, <2>1, <2>2
  <1>12. Pos(t, r, idx) + 0 < Capacity(t) /\ Pos(t, r, idx) <= Pos(t, r, idx) + 0
    BY <1>1, <1>4 DEF Table
  <1> QED
    BY <1>1, <1>2, <1>5, <1>6, <1>7, <1>9, <1>10, <1>11, <1>12 DEF Shifting, u, s

\* What the invariant says, slot by slot, of a table and its hole.
LEMMA ShiftingSlots ==
    ASSUME Mixer, NEW t, Good(t), NEW r \in Index(t), At(t, r) = None, NEW idx \in Used(t),
           NEW d \in Nat, NEW s, Shifting(t, r, idx, d, s)
    PROVE  LET u == Emptied(s)
               Home(i) == Pos(t, r, Ideal(t, At(u, i).key))
           IN  /\ Capacity(u) = Capacity(t) /\ Index(u) = Index(t) /\ Capacity(s.table) = Capacity(t)
               /\ Index(s.table) = Index(t) /\ s.hole \in Index(t) /\ Table(s.table) /\ Table(u)
               /\ Used(u) = Used(t) \ {s.hole}
               /\ \A i \in Used(u) : /\ i \in Index(t) /\ i # s.hole /\ At(u, i) = At(s.table, i)
                                     /\ At(u, i) \in Entry /\ At(u, i) # None
                                     /\ Ideal(t, At(u, i).key) \in Index(t)
                                     /\ 1 <= Home(i) /\ Home(i) <= Pos(t, r, i)
               /\ \A i \in Used(u), j \in Index(t) :
                     Home(i) <= Pos(t, r, j) /\ Pos(t, r, j) <= Pos(t, r, i) =>
                        \/ j \in Used(u)
                        \/ j = s.hole /\ ~s.ended /\ Pos(t, r, i) > Pos(t, r, idx) + d
  <1> DEFINE u == Emptied(s)
             Home(i) == Pos(t, r, Ideal(t, At(u, i).key))
  <1>1. s \in Turns(t) /\ Table(t) /\ Used(s.table) = Used(t)
    BY DEF Shifting, Good
  <1>2. /\ Table(s.table) /\ Capacity(s.table) = Capacity(t) /\ Index(s.table) = Index(t)
        /\ s.hole \in Index(t) /\ Table(u) /\ Capacity(u) = Capacity(t) /\ Index(u) = Index(t)
        /\ \A i \in Index(t) : At(u, i) = IF i = s.hole THEN None ELSE At(s.table, i)
        /\ Used(u) = Used(t) \ {s.hole}
    BY <1>1, EmptiedSlots
  <1>3. \A i \in Used(u) : /\ 1 <= HomePos(u, r, i) /\ HomePos(u, r, i) <= Pos(u, r, i)
                           /\ \A j \in Index(t) : Spans(u, r, i, j) =>
                                 \/ j \in Used(u)
                                 \/ j = s.hole /\ ~s.ended /\ Pos(t, r, i) > Pos(t, r, idx) + d
    BY DEF Shifting
  <1> HIDE DEF u
  <1>4. \A i \in Used(u) : HomePos(u, r, i) = Home(i) /\ Pos(u, r, i) = Pos(t, r, i)
    BY <1>2 DEF HomePos, Pos, Ideal
  <1>5. \A i, j : Pos(u, r, j) = Pos(t, r, j)
    BY <1>2 DEF Pos
  <1>6. \A i \in Used(u) : /\ i \in Index(t) /\ i # s.hole /\ At(u, i) = At(s.table, i)
                           /\ At(u, i) \in Entry /\ At(u, i) # None
                           /\ Ideal(t, At(u, i).key) \in Index(t)
    <2> SUFFICES ASSUME NEW i \in Used(u)
                 PROVE  /\ i \in Index(t) /\ i # s.hole /\ At(u, i) = At(s.table, i)
                        /\ At(u, i) \in Entry /\ At(u, i) # None
                        /\ Ideal(t, At(u, i).key) \in Index(t)
      OBVIOUS
    <2>1. i \in Index(u) /\ At(u, i) # None
      BY DEF Used
    <2>2. At(u, i) \in Entry /\ At(u, i).key \in Key
      BY <1>2, <2>1, SlotsTyped
    <2> QED
      BY <1>1, <1>2, <2>1, <2>2, IdealIsIndex
  <1>7. \A i \in Used(u), j \in Index(t) :
           Home(i) <= Pos(t, r, j) /\ Pos(t, r, j) <= Pos(t, r, i) =>
              \/ j \in Used(u)
              \/ j = s.hole /\ ~s.ended /\ Pos(t, r, i) > Pos(t, r, idx) + d
    BY <1>3, <1>4, <1>5 DEF Spans
  <1>8. \A i \in Used(u) : 1 <= Home(i) /\ Home(i) <= Pos(t, r, i)
    BY <1>3, <1>4
  <1> QED
    BY <1>2, <1>6, <1>7, <1>8 DEF u

\* One turn on: at the end of the line or of the chain, the turns end; a slot that
\* may fill the hole does, and leaves the hole where it was.
LEMMA ShiftTurns ==
    ASSUME Mixer, NEW t, Good(t), NEW r \in Index(t), At(t, r) = None, NEW idx \in Used(t),
           NEW d \in 0 .. (Capacity(t) - 2), NEW s, Shifting(t, r, idx, d, s)
    PROVE  Shifting(t, r, idx, d + 1, Turn(t, idx, d + 1, s))
  <1> DEFINE c == Capacity(t)
             u == Emptied(s)
             P(i) == Pos(t, r, i)
             Home(i) == P(Ideal(t, At(u, i).key))
             at == P(idx) + d
             x == (idx + (d + 1)) % c
             slot == At(s.table, x)
             next == Turn(t, idx, d + 1, s)
  <1>1. /\ s \in Turns(t) /\ s.ended \in BOOLEAN /\ Table(t) /\ idx \in Index(t) /\ Used(s.table) = Used(t)
        /\ s.hole \in Used(t) /\ Used(t) \subseteq Index(t) /\ r \notin Used(t) /\ c \in Nat /\ c >= 2
    BY DEF Shifting, Good, Turns, Used, Table
  <1>2. /\ Capacity(u) = c /\ Index(u) = Index(t) /\ Capacity(s.table) = c
        /\ Index(s.table) = Index(t) /\ s.hole \in Index(t) /\ Table(s.table) /\ Table(u)
        /\ Used(u) = Used(t) \ {s.hole}
        /\ \A i \in Used(u) : /\ i \in Index(t) /\ i # s.hole /\ At(u, i) = At(s.table, i)
                              /\ At(u, i) \in Entry /\ At(u, i) # None
                              /\ Ideal(t, At(u, i).key) \in Index(t)
                              /\ 1 <= Home(i) /\ Home(i) <= P(i)
        /\ \A i \in Used(u), j \in Index(t) : Home(i) <= P(j) /\ P(j) <= P(i) =>
              j \in Used(u) \/ (j = s.hole /\ ~s.ended /\ P(i) > at)
    BY <1>1, ShiftingSlots
  <1>3. /\ \A i \in Index(t) : P(i) \in 0 .. (c - 1)
        /\ P(r) = 0 /\ \A i, j \in Index(t) : P(i) = P(j) => i = j
        /\ \A h, i \in Index(t) : P(h) <= P(i) => Distance(c, h, i) = P(i) - P(h)
    BY <1>1, Places
  <1>4. ~s.ended => /\ at < c /\ P(s.hole) <= at
                    /\ \A i \in Index(t) : P(i) > at => At(s.table, i) = At(t, i)
    BY DEF Shifting
  <1>5. /\ Distinct(u)
        /\ \A e \in Entry : Holds(u, e) <=> Holds(t, e) /\ e # At(t, idx)
    BY DEF Shifting
  <1>6. \A v : Capacity(v) = c =>
           \A i, j : /\ HomePos(v, r, i) = P(Ideal(t, At(v, i).key)) /\ Pos(v, r, i) = P(i)
                     /\ Spans(v, r, i, j) <=> P(Ideal(t, At(v, i).key)) <= P(j) /\ P(j) <= P(i)
    BY DEF HomePos, Pos, Spans, Ideal
  <1> DEFINE moved == [table |-> [s.table EXCEPT ![s.hole + 1] = slot], hole |-> x, ended |-> FALSE]
  <1>6a. next = IF s.ended \/ slot = None THEN [s EXCEPT !.ended = TRUE]
                ELSE IF MayMove(t, Ideal(t, slot.key), s.hole, x) THEN moved ELSE s
    BY DEF Turn
  <1> HIDE DEF u, P, c, x, slot, next, moved
  \* When the turns end, no chain may need the hole.
  <1>7. ASSUME s.ended \/ \A i \in Used(u) : P(i) > at => Home(i) > P(s.hole)
        PROVE  Shifting(t, r, idx, d + 1, [s EXCEPT !.ended = TRUE])
    <2> DEFINE v == [s EXCEPT !.ended = TRUE]
    <2>1. v \in Turns(t) /\ v.table = s.table /\ v.hole = s.hole /\ v.ended
      BY <1>1 DEF Turns
    <2> HIDE DEF v
    <2>2. Emptied(v) = u
      BY <2>1 DEF Emptied, u
    <2>3. \A i \in Used(u) : /\ 1 <= HomePos(u, r, i) /\ HomePos(u, r, i) <= Pos(u, r, i)
                             /\ \A j \in Index(t) : Spans(u, r, i, j) => j \in Used(u)
      <3> SUFFICES ASSUME NEW i \in Used(u), NEW j \in Index(t), Home(i) <= P(j), P(j) <= P(i)
                   PROVE  j \in Used(u)
        BY <1>2, <1>6
      <3>1. ASSUME j = s.hole, ~s.ended, P(i) > at PROVE FALSE
        <4>1. Home(i) > P(s.hole)
          BY <1>7, <3>1
        <4>2. Home(i) \in Nat /\ P(s.hole) \in Nat
          BY <1>1, <1>2, <1>3
        <4> QED
          BY <3>1, <4>1, <4>2
      <3> QED
        BY <1>2, <3>1
    <2> QED
      BY <1>1, <1>5, <2>1, <2>2, <2>3 DEF Shifting, v
  <1>8. CASE s.ended
    <2>1. next = [s EXCEPT !.ended = TRUE]
      BY <1>8, <1>6a
    <2> QED
      BY <1>7, <1>8, <2>1 DEF next
  <1>9. CASE ~s.ended
    <2>1. /\ P(idx) \in 0 .. (c - 1) /\ P(s.hole) \in 0 .. (c - 1) /\ P(s.hole) <= at /\ at < c
          /\ d \in 0 .. (c - 2) /\ at \in Nat
      BY <1>1, <1>2, <1>3, <1>4, <1>9 DEF c
    <2>2. /\ x \in Index(t)
          /\ at + 1 < c => P(x) = at + 1
          /\ at + 1 = c => x = r
      <3>1. d + 1 \in 1 .. (Capacity(t) - 1) /\ Pos(t, r, idx) + (d + 1) <= Capacity(t)
        BY <1>1, <2>1 DEF c, P
      <3> QED
        BY <1>1, <2>1, <3>1, NextPlace DEF x, c, P
    <2>3. slot # None => x \in Used(t) /\ at + 1 < c
      <3>1. slot # None => x \in Used(s.table)
        BY <1>2, <2>2 DEF slot, Used
      <3> QED
        BY <1>1, <2>1, <2>2, <3>1
    <2>4. CASE slot = None
      <3>1. next = [s EXCEPT !.ended = TRUE]
        BY <1>6a, <2>4
      <3>2. x \notin Used(t)
        BY <1>1, <2>2, <2>4 DEF Used, slot
      <3>3. ASSUME NEW i \in Used(u), P(i) > at PROVE Home(i) > P(s.hole)
        <4>1. P(i) \in 0 .. (c - 1) /\ Home(i) \in 0 .. (c - 1)
          BY <1>2, <1>3
        <4>2. P(x) = at + 1
          BY <1>1, <2>1, <2>2, <3>3, <4>1
        <4>3. CASE Home(i) > P(s.hole)
          BY <4>3
        <4>4. CASE Home(i) <= P(s.hole)
          <5>1. Home(i) <= P(x) /\ P(x) <= P(i)
            BY <2>1, <3>3, <4>1, <4>2, <4>4
          <5>2. x \in Used(u) \/ x = s.hole
            BY <1>2, <2>2, <5>1
          <5> QED
            BY <1>1, <1>2, <3>2, <5>2
        <4> QED
          BY <2>1, <4>1, <4>3, <4>4
      <3> QED
        BY <1>7, <3>1, <3>3 DEF next
    <2>5. CASE slot # None
      <3> DEFINE home == Ideal(t, slot.key)
      <3>1. x \in Used(t) /\ P(x) = at + 1 /\ x # s.hole
        BY <2>1, <2>2, <2>3, <2>5
      <3>2. x \in Used(u) /\ At(u, x) = slot /\ slot \in Entry
        BY <1>1, <1>2, <3>1 DEF slot
      <3>3. home \in Index(t) /\ P(home) \in 0 .. (c - 1) /\ 1 <= P(home) /\ P(home) <= P(x)
        BY <1>2, <1>3, <3>2
      <3>4. MayMove(t, home, s.hole, x) <=> P(home) <= P(s.hole)
        <4>1. Distance(c, s.hole, x) = P(x) - P(s.hole) /\ Distance(c, home, x) = P(x) - P(home)
          BY <1>2, <1>3, <2>1, <2>2, <3>1, <3>3
        <4>2. /\ (x - home) % c = Distance(c, home, x)
              /\ (x - s.hole) % c = Distance(c, s.hole, x)
          <5>1. /\ c \in Nat \ {0} /\ x \in 0 .. (c - 1) /\ home \in 0 .. (c - 1)
                /\ s.hole \in 0 .. (c - 1)
            BY <1>1, <1>2, <2>2, <3>3 DEF Index, c
          <5> HIDE DEF home
          <5> QED
            BY <5>1, Cyclic
        <4> HIDE DEF home
        <4>3. MayMove(t, home, s.hole, x) <=> P(x) - P(home) >= P(x) - P(s.hole)
          BY <4>1, <4>2 DEF MayMove, c
        <4> QED
          BY <2>1, <3>1, <3>3, <4>3
      <3>5. CASE P(home) <= P(s.hole)
        <4> DEFINE v == Emptied(moved)
        <4>1. next = moved
          BY <1>9, <1>6a, <2>5, <3>4, <3>5
        <4>2. /\ moved.table = Write(s.table, s.hole, slot) /\ moved.hole = x /\ ~moved.ended
              /\ moved \in [table : {moved.table}, hole : {x}, ended : BOOLEAN]
          BY DEF moved, Write
        <4> HIDE DEF moved
        <4>3. /\ Table(moved.table) /\ Capacity(moved.table) = c /\ Index(moved.table) = Index(t)
              /\ \A i \in Index(t) : At(moved.table, i) = IF i = s.hole THEN slot ELSE At(s.table, i)
          BY <1>2, <3>2, <4>2, WriteSlot
        <4>4. moved \in Turns(t)
          BY <2>2, <4>2, <4>3 DEF Turns, Table, Capacity, c
        <4>5. Used(moved.table) = Used(t)
          BY <1>1, <1>2, <2>5, <4>3 DEF Used
        <4>6. /\ Capacity(v) = c /\ Used(v) = Used(t) \ {x}
              /\ \A i \in Index(t) : At(v, i) = IF i = x THEN None ELSE At(moved.table, i)
          BY <1>1, <4>2, <4>4, <4>5, EmptiedSlots DEF c
        <4> HIDE DEF v
        <4>7. /\ s.hole \in Used(v) /\ At(v, s.hole) = slot
              /\ \A i \in Used(v) : i = s.hole \/ (i \in Used(u) /\ i # x /\ At(v, i) = At(u, i))
          BY <1>1, <1>2, <3>1, <4>3, <4>6
        <4>8. \A i \in Used(u) : i = x \/ (i \in Used(v) /\ i # s.hole /\ At(v, i) = At(u, i))
          BY <1>1, <1>2, <3>1, <4>3, <4>6
        <4>9. Distinct(v)
          BY <1>5, <3>2, <4>7 DEF Distinct
        <4>10. \A e \in Entry : Holds(v, e) <=> Holds(u, e)
          BY <3>2, <4>7, <4>8 DEF Holds
        <4> DEFINE NewHome(i) == P(Ideal(t, At(v, i).key))
        <4>11. \A i \in Used(v) : 1 <= NewHome(i) /\ NewHome(i) <= P(i)
          BY <1>2, <3>3, <3>5, <4>7
        <4>12. \A i \in Used(v), j \in Index(t) : NewHome(i) <= P(j) /\ P(j) <= P(i) =>
                  j \in Used(v) \/ (j = x /\ P(i) > at + 1)
          <5> SUFFICES ASSUME NEW i \in Used(v), NEW j \in Index(t), NewHome(i) <= P(j), P(j) <= P(i)
                       PROVE  j \in Used(v) \/ (j = x /\ P(i) > at + 1)
            OBVIOUS
          <5>1. P(j) \in Nat /\ P(i) \in Nat /\ P(home) \in Nat /\ P(s.hole) \in Nat /\ i \in Index(t)
            BY <1>1, <1>2, <1>3, <2>1, <3>3, <4>7
          <5>2. CASE i = s.hole
            <6>1. P(home) <= P(j) /\ P(j) <= P(x) /\ j # x
              BY <2>1, <3>1, <4>7, <5>1, <5>2
            <6>2. j \in Used(t)
              BY <1>1, <1>2, <3>2, <6>1
            <6> QED
              BY <4>6, <6>1, <6>2
          <5>3. CASE i \in Used(u) /\ i # x /\ At(v, i) = At(u, i)
            <6>1. j \in Used(t)
              BY <1>1, <1>2, <5>3
            <6>2. j = x => P(i) > at + 1
              <7>1. P(i) # P(x)
                BY <1>3, <2>2, <5>1, <5>3
              <7> QED
                BY <2>1, <3>1, <5>1, <7>1
            <6> QED
              BY <4>6, <6>1, <6>2
          <5> QED
            BY <4>7, <5>2, <5>3
        <4>13. \A i \in Used(v) :
                  /\ 1 <= HomePos(v, r, i) /\ HomePos(v, r, i) <= Pos(v, r, i)
                  /\ \A j \in Index(t) : Spans(v, r, i, j) =>
                        j \in Used(v) \/ (j = x /\ P(i) > at + 1)
          BY <1>6, <4>6, <4>11, <4>12
        <4>14. \A i \in Index(t) : P(i) > at + 1 => At(moved.table, i) = At(t, i)
          BY <1>3, <1>4, <1>9, <2>1, <4>3
        <4>15. at + 1 = P(idx) + (d + 1) /\ P(x) <= at + 1 /\ at + 1 < c
          BY <2>1, <2>3, <2>5, <3>1
        <4>16. \A e \in Entry : Holds(v, e) <=> Holds(t, e) /\ e # At(t, idx)
          BY <1>5, <4>10
        <4>17. Shifting(t, r, idx, d + 1, moved)
          <5> HIDE DEF at
          <5> QED
            BY <3>1, <4>2, <4>4, <4>5, <4>9, <4>13, <4>14, <4>15, <4>16 DEF Shifting, P, c, v
        <4> QED
          BY <4>1, <4>17 DEF next
      <3>6. CASE ~(P(home) <= P(s.hole))
        <4>1. next = s
          BY <1>9, <1>6a, <2>5, <3>4, <3>6
        <4>2. s.hole \in Index(t) /\ P(s.hole) <= at + 1 /\ at + 1 < c
          BY <1>2, <2>1, <2>3, <2>5
        <4>3. \A i \in Index(t) : P(i) > at + 1 => At(s.table, i) = At(t, i)
          BY <1>3, <1>4, <1>9, <2>1
        <4>4. \A i \in Used(u), j \in Index(t) : Home(i) <= P(j) /\ P(j) <= P(i) =>
                 j \in Used(u) \/ (j = s.hole /\ P(i) > at + 1)
          <5> SUFFICES ASSUME NEW i \in Used(u), Home(i) <= P(s.hole), P(s.hole) <= P(i), P(i) > at
                       PROVE  P(i) > at + 1
            BY <1>2
          <5>1. P(i) # P(x)
            BY <1>2, <1>3, <2>2, <3>2, <3>6
          <5>2. P(i) \in 0 .. (c - 1) /\ P(i) # at + 1
            BY <1>2, <1>3, <3>1, <5>1
          <5> QED
            BY <2>1, <5>2
        <4>5. \A i \in Used(u) :
                 /\ 1 <= HomePos(u, r, i) /\ HomePos(u, r, i) <= Pos(u, r, i)
                 /\ \A j \in Index(t) : Spans(u, r, i, j) =>
                       j \in Used(u) \/ (j = s.hole /\ P(i) > at + 1)
          BY <1>2, <1>6, <4>4
        <4>6. at + 1 = P(idx) + (d + 1)
          BY <2>1
        <4>7. Shifting(t, r, idx, d + 1, s)
          <5> HIDE DEF at
          <5> QED
            BY <1>1, <1>5, <1>9, <4>2, <4>3, <4>5, <4>6 DEF Shifting, P, c, u
        <4> QED
          BY <4>1, <4>7 DEF next
      <3> QED
        BY <3>5, <3>6
    <2> QED
      BY <2>4, <2>5
  <1> QED
    BY <1>8, <1>9 DEF next

\* The backward shift removes the erased entry and nothing else, empties one slot, and
\* breaks no chain.
LEMMA ShiftOutKeeps ==
    ASSUME Mixer, NEW t, Good(t), Room(t), NEW idx \in Used(t)
    PROVE  LET u == ShiftOut(t, idx)
           IN  /\ Good(u) /\ Capacity(u) = Capacity(t)
               /\ Cardinality(Used(u)) = Cardinality(Used(t)) - 1
               /\ \A e \in Entry : Holds(u, e) <=> Holds(t, e) /\ e # At(t, idx)
  <1>1. PICK r \in Index(t) : At(t, r) = None
    BY UsedCounted DEF Good
  <1> DEFINE n == Capacity(t) - 1
  <1>2. /\ n \in Nat /\ n = Capacity(t) - 1 /\ Table(t) /\ Capacity(t) \in Nat /\ Capacity(t) >= 2
        /\ idx \in Index(t) /\ Index(t) = 0 .. n /\ r # idx
    BY <1>1 DEF Good, Table, Used, Index
  <1>3. PICK f : /\ f[0] = [table |-> t, hole |-> idx, ended |-> FALSE]
                 /\ \A d \in 1 .. (Capacity(t) - 1) : f[d] = Turn(t, idx, d, f[d - 1])
                 /\ ShiftOut(t, idx) = Write(f[Capacity(t) - 1].table, f[Capacity(t) - 1].hole, None)
    BY <1>2, ShiftRecursion
  <1> HIDE DEF n
  <1> DEFINE T == {d \in 0 .. n : Shifting(t, r, idx, d, f[d])}
  <1>4. 0 \in T
    BY <1>1, <1>2, <1>3, ShiftStarts
  <1>5. \A d \in 0 .. (n - 1) : d \in T => d + 1 \in T
    <2> SUFFICES ASSUME NEW d \in 0 .. (n - 1), Shifting(t, r, idx, d, f[d])
                 PROVE  Shifting(t, r, idx, d + 1, f[d + 1])
      BY <1>2
    <2>1. d \in 0 .. (Capacity(t) - 2) /\ d + 1 \in 1 .. (Capacity(t) - 1) /\ (d + 1) - 1 = d
      BY <1>2
    <2>2. f[d + 1] = Turn(t, idx, d + 1, f[d])
      BY <1>3, <2>1
    <2>3. Shifting(t, r, idx, d + 1, Turn(t, idx, d + 1, f[d]))
      BY <1>1, <2>1, ShiftTurns
    <2> QED
      BY <2>2, <2>3
  <1>6. Shifting(t, r, idx, n, f[n])
    <2> HIDE DEF T
    <2>1. 0 .. n \subseteq T
      BY <1>2, <1>4, <1>5, UpTo
    <2> QED
      BY <1>2, <2>1 DEF T
  <1> DEFINE s == f[n]
             u == Emptied(s)
  <1>7. ShiftOut(t, idx) = u
    BY <1>2, <1>3 DEF Emptied
  <1> HIDE DEF u, s
  <1>8. /\ s \in Turns(t) /\ Used(s.table) = Used(t) /\ s.hole \in Used(t)
        /\ ~s.ended => Pos(t, r, idx) + n < Capacity(t)
        /\ Distinct(u) /\ \A e \in Entry : Holds(u, e) <=> Holds(t, e) /\ e # At(t, idx)
        /\ \A i \in Used(u) :
              /\ 1 <= HomePos(u, r, i) /\ HomePos(u, r, i) <= Pos(u, r, i)
              /\ s.ended => \A j \in Index(t) : Spans(u, r, i, j) => j \in Used(u)
    BY <1>6 DEF Shifting, u, s
  <1>9. /\ Table(u) /\ Capacity(u) = Capacity(t) /\ Index(u) = Index(t)
        /\ Used(u) = Used(t) \ {s.hole} /\ r \notin Used(t)
    BY <1>1, <1>2, <1>8, EmptiedSlots DEF Used, u
  <1>10. s.ended
    <2>1. Pos(t, r, idx) # 0 /\ Pos(t, r, idx) \in Nat
      <3>1. Pos(t, r, idx) \in 0 .. n /\ Pos(t, r, r) = 0
            /\ (Pos(t, r, idx) = Pos(t, r, r) => idx = r)
        BY <1>2, Places
      <3> QED
        BY <1>2, <3>1
    <2> QED
      BY <1>2, <1>8, <2>1
  <1>11. Chains(u)
    <2>1. r \in Index(u) /\ At(u, r) = None
      BY <1>9 DEF Used
    <2> QED
      BY <1>8, <1>9, <1>10, <2>1, ChainsOnLine
  <1>12. Cardinality(Used(u)) = Cardinality(Used(t)) - 1
    <2>1. IsFiniteSet(Used(t))
      BY <1>2, UsedCounted
    <2> QED
      BY <1>8, <1>9, <2>1, FS_RemoveElement
  <1> QED
    BY <1>7, <1>8, <1>9, <1>11, <1>12 DEF Good

-----------------------------------------------------------------------------
(* reserve                                                                 *)

\* The capacity reserve picks is one of the doubled ones, and large enough.
LEMMA NextCapacityFits ==
    ASSUME NEW n \in Nat
    PROVE  NextCapacity(n) \in Nat /\ NextCapacity(n) >= n /\ NextCapacity(n) >= MinCapacity
  <1> DEFINE base == MinCapacity
             step == [i \in 1 .. n |-> [m \in Nat |-> 2 * m]]
             Body(f) == [c \in 0 .. n |-> IF c = 0 THEN base ELSE 2 * f[c - 1]]
             F == CHOOSE f : f = Body(f)
             Fits(c) == F[c] >= n /\ \A e \in 0 .. (c - 1) : F[e] < n
  <1>1. base \in Nat /\ base >= 2
    BY CapacityAssumption
  <1>2. IsStep(Nat, n, base, step)
    BY <1>1 DEF IsStep
  <1> HIDE DEF base, step
  <1>3. PICK f : IsRecursion(Nat, n, base, step, f)
    BY <1>2, RecursionOnInterval
  <1>4. \A i \in 1 .. n : f[i] = 2 * f[i - 1]
    <2> SUFFICES ASSUME NEW i \in 1 .. n PROVE f[i] = 2 * f[i - 1]
      OBVIOUS
    <2>1. f[i - 1] \in Nat /\ f[i] = step[i][f[i - 1]]
      BY <1>3 DEF IsRecursion
    <2> QED
      BY <2>1 DEF step
  <1>5. f = Body(f)
    BY <1>3, <1>4 DEF IsRecursion
  <1>6. F = Body(F)
    BY <1>5
  <1>7. NextCapacity(n) = F[CHOOSE c \in 0 .. n : Fits(c)]
    BY DEF NextCapacity, base
  <1> HIDE DEF F
  <1>8. F[0] = base /\ \A c \in 1 .. n : F[c] = 2 * F[c - 1]
    <2>1. \A c \in 0 .. n : F[c] = Body(F)[c]
      BY <1>6
    <2> QED
      BY <2>1
  <1> DEFINE T == {c \in 0 .. n : F[c] \in Nat /\ F[c] >= base /\ F[c] >= c + 1}
  <1>9. 0 \in T
    BY <1>1, <1>8
  <1>10. \A c \in 0 .. (n - 1) : c \in T => c + 1 \in T
    <2> SUFFICES ASSUME NEW c \in 0 .. (n - 1), c \in T
                 PROVE  F[c + 1] \in Nat /\ F[c + 1] >= base /\ F[c + 1] >= (c + 1) + 1
      OBVIOUS
    <2>1. c + 1 \in 1 .. n /\ (c + 1) - 1 = c
      OBVIOUS
    <2>2. F[c + 1] = 2 * F[c]
      BY <1>8, <2>1
    <2> QED
      BY <1>1, <2>2
  <1>11. \A c \in 0 .. n : F[c] \in Nat /\ F[c] >= base /\ F[c] >= c + 1
    <2> HIDE DEF T
    <2>1. 0 .. n \subseteq T
      BY <1>9, <1>10, UpTo
    <2> QED
      BY <2>1 DEF T
  <1>12. \E c \in 0 .. n : Fits(c)
    <2> DEFINE L == {c \in 0 .. n : F[c] >= n}
    <2>1. L \in SUBSET Nat /\ L # {}
      BY <1>11
    <2>2. PICK c \in L : \A e \in L : c <= e
      <3> HIDE DEF L
      <3> QED
        BY <2>1, LeastElement
    <2>3. \A e \in 0 .. (c - 1) : F[e] < n
      BY <1>11, <2>2
    <2> QED
      BY <2>2, <2>3
  <1>13. PICK c \in 0 .. n : Fits(c) /\ NextCapacity(n) = F[c]
    <2> HIDE DEF Fits
    <2> QED
      BY <1>7, <1>12
  <1> QED
    BY <1>11, <1>13 DEF base

-----------------------------------------------------------------------------
(* The map                                                                 *)

\* What find returns, in terms of what is stored.
LEMMA LookupCases ==
    ASSUME Mixer, NEW t, Good(t), Room(t), NEW k \in Key
    PROVE  \/ Lookup(t, k) = None /\ \A e \in Entry : Holds(t, e) => e.key # k
           \/ \E e \in Entry : Holds(t, e) /\ e.key = k /\ Lookup(t, k) = e.value /\ Lookup(t, k) # None
  <1>1. CASE \E e \in Entry : Holds(t, e) /\ e.key = k
    <2>1. PICK e \in Entry : Holds(t, e) /\ e.key = k
      BY <1>1
    <2>2. Lookup(t, k) = e.value
      BY <2>1, LookupFinds
    <2>3. e.value # None
      BY NoneAssumption DEF Entry
    <2> QED
      BY <2>1, <2>2, <2>3
  <1>2. CASE \A e \in Entry : Holds(t, e) => e.key # k
    BY <1>2, LookupFinds
  <1> QED
    BY <1>1, <1>2

\* Tables that hold the same under a key return the same for it.
LEMMA LookupSame ==
    ASSUME Mixer, NEW t, Good(t), Room(t), NEW u, Good(u), Room(u), NEW k \in Key,
           \A e \in Entry : e.key = k => (Holds(u, e) <=> Holds(t, e))
    PROVE  Lookup(u, k) = Lookup(t, k)
  <1>1. CASE \E e \in Entry : Holds(t, e) /\ e.key = k
    <2>1. PICK e \in Entry : Holds(t, e) /\ e.key = k
      BY <1>1
    <2>2. Lookup(t, k) = e.value
      BY <2>1, LookupFinds
    <2>3. Lookup(u, k) = e.value
      BY <2>1, LookupFinds
    <2> QED
      BY <2>2, <2>3
  <1>2. CASE \A e \in Entry : Holds(t, e) => e.key # k
    <2>1. Lookup(t, k) = None
      BY <1>2, LookupFinds
    <2>2. \A e \in Entry : Holds(u, e) => e.key # k
      BY <1>2
    <2>3. Lookup(u, k) = None
      BY <2>2, LookupFinds
    <2> QED
      BY <2>1, <2>3
  <1> QED
    BY <1>1, <1>2

\* The inductive invariant: the table is good and half empty, and size_ counts it.
Counted(t, n) == n = Cardinality(Used(t)) /\ n * 2 <= Capacity(t)
IInv == Mixer /\ Good(slots) /\ Counted(slots, size) /\ result \in BOOLEAN

\* A table that is at most half full has an unused slot.
LEMMA CountedHasRoom ==
    ASSUME NEW t, Good(t), NEW n, Counted(t, n)
    PROVE  n \in Nat /\ Room(t) /\ Capacity(t) \in Nat /\ Capacity(t) >= 2 /\ IsFiniteSet(Used(t))
  <1>1. Capacity(t) \in Nat /\ Capacity(t) >= 2 /\ Table(t)
    BY DEF Good, Table
  <1>2. /\ Cardinality(Used(t)) \in 0 .. Capacity(t) /\ IsFiniteSet(Used(t))
        /\ Cardinality(Used(t)) < Capacity(t) => Room(t)
    BY <1>1, UsedCounted
  <1> QED
    BY <1>1, <1>2 DEF Counted

\* A table with room for one more that holds what t holds.
LEMMA GrownKeeps ==
    ASSUME Mixer, NEW t, Good(t), NEW n, Counted(t, n)
    PROVE  LET u == Grown(t, n)
           IN  /\ Good(u) /\ Counted(u, n) /\ (n + 1) * 2 <= Capacity(u)
               /\ \A e \in Entry : Holds(u, e) <=> Holds(t, e)
  <1>1. n \in Nat /\ Capacity(t) \in Nat /\ Capacity(t) >= 2
    BY CountedHasRoom
  <1>2. n = Cardinality(Used(t)) /\ n * 2 <= Capacity(t)
    BY DEF Counted
  <1>3. CASE (n + 1) * 2 > Capacity(t)
    <2> DEFINE m == Capacity(t) * 2
               u == Rehash(t, m)
    <2>1. m \in Nat /\ m >= 2 /\ Cardinality(Used(t)) < m
      BY <1>1, <1>2
    <2> HIDE DEF m
    <2>2. /\ Good(u) /\ Capacity(u) = m /\ Cardinality(Used(u)) = Cardinality(Used(t))
          /\ \A e \in Entry : Holds(u, e) <=> Holds(t, e)
      BY <2>1, RehashKeeps
    <2>3. n * 2 <= m /\ (n + 1) * 2 <= m
      BY <1>1, <1>2 DEF m
    <2>4. Grown(t, n) = u
      BY <1>3 DEF Grown, m
    <2> QED
      BY <1>2, <2>2, <2>3, <2>4 DEF Counted
  <1>4. CASE ~((n + 1) * 2 > Capacity(t))
    BY <1>1, <1>4 DEF Grown
  <1> QED
    BY <1>3, <1>4

\* insert, find and erase on a table.
LEMMA InsertStep ==
    ASSUME Mixer, NEW t, Good(t), NEW n, Counted(t, n), NEW k \in Key, NEW v \in Value
    PROVE  LET u == Grown(t, n)
               new == At(u, Probe(u, k)) = None
               r == Put(u, k, v)
           IN  /\ Good(r) /\ Counted(r, IF new THEN n + 1 ELSE n)
               /\ new <=> Lookup(t, k) = None
               /\ Lookup(r, k) = IF new THEN v ELSE Lookup(t, k)
               /\ \A j \in Key \ {k} : Lookup(r, j) = Lookup(t, j)
  <1> DEFINE u == Grown(t, n)
             new == At(u, Probe(u, k)) = None
             r == Put(u, k, v)
             e == [key |-> k, value |-> v]
  <1>1. /\ Good(u) /\ Counted(u, n) /\ (n + 1) * 2 <= Capacity(u)
        /\ \A g \in Entry : Holds(u, g) <=> Holds(t, g)
    BY GrownKeeps
  <1>2. Room(t) /\ n \in Nat
    BY CountedHasRoom
  <1> HIDE DEF u, r
  <1>3. Room(u) /\ IsFiniteSet(Used(u)) /\ Capacity(u) \in Nat
    BY <1>1, CountedHasRoom
  <1>4. \A j \in Key : Lookup(u, j) = Lookup(t, j)
    BY <1>1, <1>2, <1>3, LookupSame
  <1>5. new <=> Lookup(t, k) = None
    BY <1>1, <1>3, <1>4, LookupFinds
  <1>6. CASE new
    <2>1. /\ Good(r) /\ Capacity(r) = Capacity(u)
          /\ Probe(u, k) \notin Used(u) /\ Used(r) = Used(u) \cup {Probe(u, k)}
          /\ \A g \in Entry : Holds(r, g) <=> Holds(u, g) \/ g = e
      BY <1>1, <1>3, <1>6, PutNew DEF r
    <2>2. Cardinality(Used(r)) = n + 1
      BY <1>1, <1>3, <2>1, FS_AddElement DEF Counted
    <2>3. Counted(r, n + 1)
      BY <1>1, <2>1, <2>2 DEF Counted
    <2>4. Room(r)
      BY <2>1, <2>3, CountedHasRoom
    <2>5. Lookup(r, k) = v
      <3>1. e \in Entry /\ e.key = k /\ e.value = v /\ Holds(r, e)
        BY <2>1 DEF Entry
      <3> HIDE DEF e
      <3> QED
        BY <2>1, <2>4, <3>1, LookupFinds
    <2>6. \A j \in Key \ {k} : Lookup(r, j) = Lookup(u, j)
      <3> SUFFICES ASSUME NEW j \in Key \ {k} PROVE Lookup(r, j) = Lookup(u, j)
        OBVIOUS
      <3>1. \A g \in Entry : g.key = j => (Holds(r, g) <=> Holds(u, g))
        BY <2>1
      <3> QED
        BY <1>1, <1>3, <2>1, <2>4, <3>1, LookupSame
    <2> QED
      BY <1>4, <1>5, <1>6, <2>1, <2>3, <2>5, <2>6 DEF u, r
  <1>7. CASE ~new
    <2>1. r = u
      BY <1>7 DEF Put, r
    <2> QED
      BY <1>1, <1>4, <1>5, <1>7, <2>1 DEF u, r
  <1> QED
    BY <1>6, <1>7

\* Erasing a key keeps the table good and counted, and forgets that key only.
LEMMA EraseStep ==
    ASSUME Mixer, NEW t, Good(t), NEW n, Counted(t, n), NEW k \in Key
    PROVE  LET idx == Probe(t, k)
               hit == At(t, idx) # None
               r == IF hit THEN ShiftOut(t, idx) ELSE t
           IN  /\ Good(r) /\ Counted(r, IF hit THEN n - 1 ELSE n)
               /\ hit <=> Lookup(t, k) # None
               /\ Lookup(r, k) = None
               /\ \A j \in Key \ {k} : Lookup(r, j) = Lookup(t, j)
  <1> DEFINE idx == Probe(t, k)
             hit == At(t, idx) # None
             u == ShiftOut(t, idx)
  <1>1. Room(t) /\ n \in Nat /\ Capacity(t) \in Nat
    BY CountedHasRoom
  <1>2. hit <=> Lookup(t, k) # None
    BY <1>1, LookupFinds
  <1>3. CASE ~hit
    BY <1>2, <1>3
  <1>4. CASE hit
    <2>1. idx \in Used(t) /\ At(t, idx).key = k
      BY <1>1, <1>4, ProbeEnds DEF Used
    <2> HIDE DEF idx, u
    <2>2. /\ Good(u) /\ Capacity(u) = Capacity(t)
          /\ Cardinality(Used(u)) = Cardinality(Used(t)) - 1
          /\ \A e \in Entry : Holds(u, e) <=> Holds(t, e) /\ e # At(t, idx)
      BY <1>1, <2>1, ShiftOutKeeps DEF u
    <2>3. Counted(u, n - 1) /\ Room(u)
      <3>1. Counted(u, n - 1)
        BY <1>1, <2>2 DEF Counted
      <3> QED
        BY <2>2, <3>1, CountedHasRoom
    <2>4. Lookup(u, k) = None
      <3>1. \A e \in Entry : Holds(u, e) => e.key # k
        BY <2>1, <2>2 DEF Holds, Good, Distinct
      <3> QED
        BY <2>2, <2>3, <3>1, LookupFinds
    <2>5. \A j \in Key \ {k} : Lookup(u, j) = Lookup(t, j)
      <3> SUFFICES ASSUME NEW j \in Key \ {k} PROVE Lookup(u, j) = Lookup(t, j)
        OBVIOUS
      <3>1. \A e \in Entry : e.key = j => (Holds(u, e) <=> Holds(t, e))
        BY <2>1, <2>2
      <3> QED
        BY <1>1, <2>2, <2>3, <3>1, LookupSame
    <2> QED
      BY <1>2, <1>4, <2>2, <2>3, <2>4, <2>5 DEF idx, u
  <1> QED
    BY <1>3, <1>4

\* Reserving keeps the table good and counted, and forgets no key.
LEMMA ReserveStep ==
    ASSUME Mixer, NEW t, Good(t), NEW n, Counted(t, n), NEW m \in Nat, m * 2 > Capacity(t)
    PROVE  LET r == Rehash(t, NextCapacity(m * 2))
           IN  /\ Good(r) /\ Counted(r, n)
               /\ \A j \in Key : Lookup(r, j) = Lookup(t, j)
  <1> DEFINE c == NextCapacity(m * 2)
             r == Rehash(t, c)
  <1>1. Room(t) /\ n \in Nat /\ Capacity(t) \in Nat /\ Capacity(t) >= 2
    BY CountedHasRoom
  <1>2. n = Cardinality(Used(t)) /\ n * 2 <= Capacity(t)
    BY DEF Counted
  <1>3. c \in Nat /\ c >= m * 2
    BY NextCapacityFits
  <1> HIDE DEF c
  <1>4. c >= 2 /\ Cardinality(Used(t)) < c /\ n * 2 <= c
    BY <1>1, <1>2, <1>3
  <1>5. /\ Good(r) /\ Capacity(r) = c /\ Cardinality(Used(r)) = Cardinality(Used(t))
        /\ \A e \in Entry : Holds(r, e) <=> Holds(t, e)
    BY <1>3, <1>4, RehashKeeps
  <1>6. Counted(r, n)
    BY <1>2, <1>4, <1>5 DEF Counted
  <1> HIDE DEF r
  <1>7. \A j \in Key : Lookup(r, j) = Lookup(t, j)
    BY <1>1, <1>5, <1>6, CountedHasRoom, LookupSame
  <1> QED
    BY <1>5, <1>6, <1>7 DEF r, c

\* The mixer never changes, so what a table is after a step is what it was before.
LEMMA MixerFixed ==
    ASSUME mix' = mix
    PROVE  /\ Mixer' <=> Mixer
           /\ Good(slots)' <=> Good(slots')
           /\ Counted(slots, size)' <=> Counted(slots', size')
           /\ \A k \in Key : Lookup(slots, k)' = Lookup(slots', k)
  <1>1. Mixer' <=> Mixer
    BY DEF Mixer
  <1>2. Good(slots)' <=> Good(slots')
    BY DEF Good, Table, Distinct, Chains, Used, Index, At, Capacity, Ideal, Distance
  <1>3. Counted(slots, size)' <=> Counted(slots', size')
    BY DEF Counted, Used, Index, At, Capacity
  <1>4. \A k \in Key : Lookup(slots, k)' = Lookup(slots', k)
    BY DEF Lookup, Probe, Steps, Stops, Index, At, Capacity, Ideal
  <1> QED
    BY <1>1, <1>2, <1>3, <1>4

\* What users see.
Contents == [k \in Key |-> Lookup(slots, k)]

\* An empty table is an empty map.
LEMMA InitMaps == Init => IInv /\ Map!Init
  <1> SUFFICES ASSUME Init PROVE IInv /\ Map!Init
    OBVIOUS
  <1>1. Mixer /\ slots = EmptyTable(MinCapacity) /\ size = 0 /\ result = TRUE
    BY DEF Init, Mixer
  <1>2. /\ Good(slots) /\ Capacity(slots) = MinCapacity
        /\ Used(slots) = {} /\ Cardinality(Used(slots)) = 0
    BY <1>1, CapacityAssumption, EmptyIsGood
  <1>3. Counted(slots, size)
    BY <1>1, <1>2, CapacityAssumption DEF Counted
  <1>4. Room(slots)
    BY <1>2, <1>3, CountedHasRoom
  <1>5. \A k \in Key : Lookup(slots, k) = None
    BY <1>1, <1>2, <1>4, LookupFinds DEF Holds
  <1> QED
    BY <1>1, <1>2, <1>3, <1>5 DEF IInv, Map!Init

\* Every call keeps the table good and counted, and is a step of the map.
LEMMA StepMaps ==
    IInv /\ [Next]_vars => IInv' /\ [Map!Next]_<<Contents, result>>
  <1> SUFFICES ASSUME IInv, [Next]_vars
               PROVE  IInv' /\ [Map!Next]_<<Contents, result>>
    OBVIOUS
  <1>1. Mixer /\ Good(slots) /\ Counted(slots, size) /\ result \in BOOLEAN
    BY DEF IInv
  <1>2. ASSUME NEW k \in Key, NEW v \in Value, Insert(k, v)
        PROVE  IInv' /\ [Map!Next]_<<Contents, result>>
    <2> DEFINE u == Grown(slots, size)
               new == At(u, Probe(u, k)) = None
    <2>1. /\ Good(Put(u, k, v)) /\ Counted(Put(u, k, v), IF new THEN size + 1 ELSE size)
          /\ new <=> Lookup(slots, k) = None
          /\ Lookup(Put(u, k, v), k) = IF new THEN v ELSE Lookup(slots, k)
          /\ \A j \in Key \ {k} : Lookup(Put(u, k, v), j) = Lookup(slots, j)
      BY <1>1, InsertStep
    <2>2. /\ result' = new /\ slots' = Put(u, k, v) /\ mix' = mix
          /\ size' = IF new THEN size + 1 ELSE size
      BY <1>2 DEF Insert
    <2> HIDE DEF u, new
    <2>3. Contents' = [Contents EXCEPT ![k] = IF new THEN v ELSE Contents[k]]
      BY <2>1, <2>2, MixerFixed DEF Contents
    <2>4. /\ Contents' = IF Contents[k] = None THEN [Contents EXCEPT ![k] = v] ELSE Contents
          /\ result' = (Contents[k] = None)
      <3>1. Contents[k] = Lookup(slots, k) /\ Contents = [Contents EXCEPT ![k] = Contents[k]]
        BY DEF Contents
      <3>2. new <=> Contents[k] = None
        BY <2>1, <3>1
      <3>3. result' = (Contents[k] = None)
        BY <2>2, <3>2 DEF new
      <3> HIDE DEF Contents
      <3>4. Contents' = IF Contents[k] = None THEN [Contents EXCEPT ![k] = v] ELSE Contents
        BY <2>3, <3>1, <3>2
      <3> QED
        BY <3>3, <3>4
    <2>5. IInv'
      <3>1. Good(slots') /\ Counted(slots', size') /\ result' \in BOOLEAN
        BY <2>1, <2>2 DEF new
      <3> QED
        BY <1>1, <2>2, <3>1, MixerFixed DEF IInv
    <2> QED
      BY <2>4, <2>5 DEF Map!Next, Map!Insert, Contents
  <1>3. ASSUME NEW k \in Key, Erase(k)
        PROVE  IInv' /\ [Map!Next]_<<Contents, result>>
    <2> DEFINE idx == Probe(slots, k)
               hit == At(slots, idx) # None
               r == IF hit THEN ShiftOut(slots, idx) ELSE slots
    <2>1. /\ Good(r) /\ Counted(r, IF hit THEN size - 1 ELSE size)
          /\ hit <=> Lookup(slots, k) # None
          /\ Lookup(r, k) = None
          /\ \A j \in Key \ {k} : Lookup(r, j) = Lookup(slots, j)
      BY <1>1, EraseStep
    <2>2. /\ result' = hit /\ slots' = r /\ mix' = mix
          /\ size' = IF hit THEN size - 1 ELSE size
      BY <1>3 DEF Erase
    <2> HIDE DEF r, hit
    <2>3. Contents' = [Contents EXCEPT ![k] = None]
      BY <2>1, <2>2, MixerFixed DEF Contents
    <2>4. result' = (Contents[k] # None)
      BY <2>1, <2>2 DEF Contents, hit
    <2>5. IInv'
      <3>1. Good(slots') /\ Counted(slots', size') /\ result' \in BOOLEAN
        BY <2>1, <2>2 DEF hit
      <3> QED
        BY <1>1, <2>2, <3>1, MixerFixed DEF IInv
    <2> QED
      BY <2>3, <2>4, <2>5 DEF Map!Next, Map!Erase, Contents
  <1>4. ASSUME NEW n \in 0 .. MaxReserve, ReserveSlots(n)
        PROVE  IInv' /\ [Map!Next]_<<Contents, result>>
    <2> DEFINE r == Rehash(slots, NextCapacity(n * 2))
    <2>1. n \in Nat /\ n * 2 > Capacity(slots)
      BY <1>4, CapacityAssumption DEF ReserveSlots
    <2>2. /\ Good(r) /\ Counted(r, size)
          /\ \A j \in Key : Lookup(r, j) = Lookup(slots, j)
      BY <1>1, <2>1, ReserveStep
    <2>3. slots' = r /\ mix' = mix /\ size' = size /\ result' = result
      BY <1>4 DEF ReserveSlots
    <2> HIDE DEF r
    <2>4. Contents' = Contents
      BY <2>2, <2>3, MixerFixed DEF Contents
    <2> QED
      BY <1>1, <2>2, <2>3, <2>4, MixerFixed DEF IInv
  <1>5. ASSUME UNCHANGED vars
        PROVE  IInv' /\ [Map!Next]_<<Contents, result>>
    <2>1. mix' = mix /\ slots' = slots /\ size' = size /\ result' = result
      BY <1>5 DEF vars
    <2>2. Contents' = Contents
      BY <2>1, MixerFixed DEF Contents
    <2> QED
      BY <1>1, <2>1, <2>2, MixerFixed DEF IInv
  <1> QED
    BY <1>2, <1>3, <1>4, <1>5 DEF Next

\* Entries have different keys, every probe chain is unbroken, and the count is right and at most
\* half the capacity, whatever insert, erase and reserve did before.
THEOREM TableInvariant == Spec => []IInv
  <1>1. Init => IInv
    BY InitMaps
  <1>2. IInv /\ [Next]_vars => IInv'
    BY StepMaps
  <1> QED
    BY <1>1, <1>2, PTL DEF Spec

\* Types, whatever the calls (flat_hash_map.hpp:21-122).
THEOREM TableTypeCorrect == Spec => []TypeOK
  <1>1. IInv => TypeOK
    BY CountedHasRoom DEF IInv, Mixer, Good, Table, Entry, TypeOK
  <1> QED
    BY <1>1, TableInvariant, PTL

\* Backward-shift deletion and rehashing never cut a key off from its home: the chains of
\* every reachable table are unbroken, for every mixer and every capacity
\* (flat_hash_map.hpp:66-84).
THEOREM ChainsNeverBreak == Spec => []ChainsUnbroken
  <1>1. IInv => ChainsUnbroken
    <2> SUFFICES ASSUME IInv, NEW i \in Index(slots), At(slots, i) # None,
                        NEW d \in 0 .. ((i - Ideal(slots, At(slots, i).key)) % Capacity(slots))
                 PROVE  At(slots, (Ideal(slots, At(slots, i).key) + d) % Capacity(slots)) # None
      BY DEF ChainsUnbroken
    <2> DEFINE home == Ideal(slots, At(slots, i).key)
               c == Capacity(slots)
    <2>1. i \in Used(slots) /\ Mixer /\ Good(slots) /\ Table(slots)
      BY DEF Used, IInv, Good
    <2>2. /\ c \in Nat \ {0} /\ Index(slots) = 0 .. (c - 1) /\ i \in 0 .. (c - 1)
          /\ home \in 0 .. (c - 1)
      BY <2>1, SlotsTyped, IdealIsIndex DEF Table, Index
    <2>3. \A j \in Index(slots) : Distance(c, home, j) <= Distance(c, home, i) => j \in Used(slots)
      BY <2>1 DEF Good, Chains
    <2>4. d \in 0 .. ((i - home) % c)
      OBVIOUS
    <2> HIDE DEF home, c
    <2>5. (i - home) % c = Distance(c, home, i) /\ Distance(c, home, i) \in 0 .. (c - 1)
      BY <2>2, Cyclic
    <2>6. d \in 0 .. (c - 1) /\ d <= Distance(c, home, i)
      BY <2>2, <2>4, <2>5
    <2>7. /\ (home + d) % c = Ahead(c, home, d) /\ Ahead(c, home, d) \in 0 .. (c - 1)
          /\ Distance(c, home, Ahead(c, home, d)) = d
      BY <2>2, <2>6, Cyclic
    <2>8. (home + d) % c \in Used(slots)
      BY <2>2, <2>3, <2>6, <2>7
    <2> QED
      BY <2>8 DEF Used, home, c
  <1> QED
    BY <1>1, TableInvariant, PTL

\* The load never passes one half and size_ is exact: every probe loop of find, insert and
\* erase meets an unused slot (flat_hash_map.hpp:33-84).
THEOREM LoadNeverAboveHalf == Spec => []LoadAtMostHalf
  <1>1. IInv => LoadAtMostHalf
    BY DEF IInv, Counted, Used, LoadAtMostHalf
  <1> QED
    BY <1>1, TableInvariant, PTL

\* find, insert, erase and reserve are those of a map: what erase shifts and what rehash
\* moves, no lookup can tell (flat_hash_map.hpp:21-122).
THEOREM TableIsMap == Spec => ImplementsMap
  <1>1. Init => Map!Init
    BY InitMaps
  <1>2. IInv /\ [Next]_vars => [Map!Next]_<<[k \in Key |-> Lookup(slots, k)], result>>
    BY StepMaps DEF Contents
  <1> QED
    BY <1>1, <1>2, TableInvariant, PTL DEF Spec, ImplementsMap, Map!Safety
=============================================================================
