--------------------------- MODULE BookMirrorProofs ---------------------------
(***************************************************************************)
(* The book mirror in its two settings.                                    *)
(*                                                                         *)
(* Behind an exchange it follows without loss, for every finite set of     *)
(* prices and every set of quantities: the mirror ends each window at the  *)
(* exchange's book, never trades with itself on the way, and its ids stay  *)
(* those of the engine.                                                    *)
(*                                                                         *)
(* In the replay of a capture, for every number of ids and snapshots:      *)
(* what the sequence check counts, where each snapshot ends up, and what a *)
(* half-written last line can lose, whatever the mirror does with the      *)
(* updates; and what the mirror does.  It trades with itself only behind a *)
(* gap or a cut line, and keeps its types even then; from a seed that      *)
(* carries the whole book, as long as no gap is counted, it is the         *)
(* exchange's book and fails no validation.                                *)
(***************************************************************************)
EXTENDS MirroredExchange, Replay, TLAPS, FiniteSetTheorems, FunctionTheorems, SequenceTheorems

-----------------------------------------------------------------------------
(* The quantity of a FIFO of one order                                     *)

\* A fold over nothing is its base.
LEMMA TotalOfNone == TotalQty(<<>>) = 0
  <1> DEFINE G(f) == [s \in SUBSET {} |->
                        IF s = {} THEN 0 ELSE f[s \ {Max(s)}] + <<>>[Max(s)].remaining]
             g == [s \in SUBSET {} |-> 0]
             f == CHOOSE f : f = G(f)
  <1>1. DOMAIN <<>> = {}
    OBVIOUS
  <1>2. TotalQty(<<>>) = f[{}]
    BY <1>1 DEF TotalQty, FoldLeft, MapThenFoldSet
  <1>3. g = G(g)
    OBVIOUS
  <1>4. f = G(f)
    <2> HIDE DEF G
    <2> QED
      BY <1>3
  <1> HIDE DEF f
  <1> QED
    BY <1>2, <1>4

\* A fold over one order is its quantity.
LEMMA TotalOfOne ==
    ASSUME NEW x, x.remaining \in Nat
    PROVE  TotalQty(<<x>>) = x.remaining
  <1> DEFINE G(f) == [s \in SUBSET {1} |->
                        IF s = {} THEN 0 ELSE f[s \ {Max(s)}] + <<x>>[Max(s)].remaining]
             g == [s \in SUBSET {1} |-> IF s = {} THEN 0 ELSE x.remaining]
             f == CHOOSE f : f = G(f)
  <1>1. DOMAIN <<x>> = {1}
    OBVIOUS
  <1>2. TotalQty(<<x>>) = f[{1}]
    BY <1>1 DEF TotalQty, FoldLeft, MapThenFoldSet
  <1>3. Max({1}) = 1
    BY DEF Max
  <1>4. g = G(g)
    <2>1. ASSUME NEW s \in SUBSET {1}
          PROVE  g[s] = IF s = {} THEN 0 ELSE g[s \ {Max(s)}] + <<x>>[Max(s)].remaining
      <3>1. CASE s = {}
        BY <3>1
      <3>2. CASE s = {1}
        <4>1. s \ {Max(s)} = {} /\ <<x>>[Max(s)] = x
          BY <1>3, <3>2
        <4>2. {} \in SUBSET {1} /\ g[{}] = 0 /\ s # {}
          BY <3>2
        <4>3. g[s] = x.remaining
          BY <3>2
        <4> QED
          BY <4>1, <4>2, <4>3
      <3> QED
        BY <3>1, <3>2
    <2> QED
      BY <2>1
  <1>5. f = G(f)
    <2> HIDE DEF G
    <2> QED
      BY <1>4
  <1> HIDE DEF f
  <1>6. f[{}] = 0
    BY <1>5
  <1>7. f[{1}] = f[{}] + x.remaining
    <2>1. /\ {1} \in SUBSET {1} /\ {1} # {} /\ {1} \ {Max({1})} = {}
          /\ <<x>>[Max({1})] = x
      BY <1>3
    <2> QED
      BY <1>5, <2>1
  <1> QED
    BY <1>2, <1>6, <1>7

-----------------------------------------------------------------------------
(* What a record lists                                                     *)

\* The levels that a sequence of updates names.
Named(us) == {Id(us[i]) : i \in DOMAIN us}
\* Every update says what the levels say.
Tells(us, levels) == \A i \in DOMAIN us : us[i].qty = levels[us[i].side][us[i].price]

\* A sequence of all elements of a finite set has each of them, and no other.
LEMMA SeqOfSet ==
    ASSUME NEW S, IsFiniteSet(S), NEW f \in SetToSeqs(S)
    PROVE  f \in Seq(S) /\ \A x \in S : \E i \in DOMAIN f : f[i] = x
  <1> DEFINE D == 1 .. Cardinality(S)
  <1>1. Cardinality(S) \in Nat
    BY FS_CardinalityType
  <1>2. f \in [D -> S] /\ \A i, j \in D : i # j => f[i] # f[j]
    BY DEF SetToSeqs
  <1>3. f \in Seq(S)
    BY <1>1, <1>2
  <1>4. f \in Injection(D, S)
    BY <1>2 DEF Injection, IsInjective
  <1>5. IsFiniteSet(D) /\ Cardinality(D) = Cardinality(S)
    BY <1>1, FS_Interval
  <1>6. f \in Surjection(D, S)
    BY <1>4, <1>5, FS_Injection
  <1> QED
    BY <1>2, <1>3, <1>6 DEF Surjection

\* A record of some levels names exactly these, with the exchange's quantities.
LEMMA ListingTells ==
    ASSUME NEW levels \in ExchangeBook, NEW touched \in SUBSET Level,
           NEW us \in Listings(levels, touched)
    PROVE  us \in Seq(Update) /\ Named(us) = touched /\ Tells(us, levels)
  <1> DEFINE U(side) == UpdatesOf(levels, touched, side)
             Entry(l) == [side |-> l[1], price |-> l[2], qty |-> levels[l[1]][l[2]]]
  <1>1. ASSUME NEW side \in Side
        PROVE  /\ IsFiniteSet(U(side)) /\ U(side) \subseteq Update
               /\ \A x : x \in U(side) <=> \E l \in touched : l[1] = side /\ x = Entry(l)
    <2> DEFINE Of == touched \cap ({side} \X Price)
    <2>1. IsFiniteSet(Of)
      BY PriceAssumption, FS_Product, FS_Singleton, FS_Subset
    <2>2. U(side) = {Entry(l) : l \in Of}
      BY DEF UpdatesOf
    <2>3. [l \in Of |-> Entry(l)] \in Surjection(Of, {Entry(l) : l \in Of})
      BY DEF Surjection
    <2>4. \A l \in Of : Entry(l) \in Update
      BY DEF Update, ExchangeBook, Level
    <2>5. \A l \in touched : l \in Of <=> l[1] = side
      BY DEF Level
    <2> QED
      BY <2>1, <2>2, <2>3, <2>4, <2>5, FS_Surjection
  <1> HIDE DEF U
  <1>2. PICK bids \in SetToSeqs(U("Bid")), asks \in SetToSeqs(U("Ask")) : us = bids \o asks
    BY DEF Listings, U
  <1>3. /\ bids \in Seq(U("Bid")) /\ asks \in Seq(U("Ask"))
        /\ \A x \in U("Bid") : \E i \in DOMAIN bids : bids[i] = x
        /\ \A x \in U("Ask") : \E i \in DOMAIN asks : asks[i] = x
    BY <1>1, SeqOfSet DEF Side
  <1>4. bids \in Seq(Update) /\ asks \in Seq(Update)
    BY <1>1, <1>3 DEF Side
  <1>5. us \in Seq(Update) /\ \A i \in DOMAIN us :
            us[i] \in U("Bid") \/ us[i] \in U("Ask")
    BY <1>2, <1>3, <1>4
  <1>6. \A x : x \in U("Bid") \/ x \in U("Ask") => \E i \in DOMAIN us : us[i] = x
    <2>1. \A i \in DOMAIN bids : i \in DOMAIN us /\ us[i] = bids[i]
      BY <1>2, <1>4
    <2>2. \A i \in DOMAIN asks : Len(bids) + i \in DOMAIN us /\ us[Len(bids) + i] = asks[i]
      BY <1>2, <1>4
    <2> QED
      BY <1>3, <2>1, <2>2
  <1>7. \A i \in DOMAIN us : \E l \in touched : us[i] = Entry(l)
    BY <1>1, <1>5 DEF Side
  <1>8. \A l \in touched : \E i \in DOMAIN us : us[i] = Entry(l)
    <2> SUFFICES ASSUME NEW l \in touched PROVE \E i \in DOMAIN us : us[i] = Entry(l)
      OBVIOUS
    <2>1. l[1] \in Side
      BY DEF Level
    <2>2. Entry(l) \in U("Bid") \/ Entry(l) \in U("Ask")
      BY <1>1, <2>1 DEF Side
    <2> QED
      BY <1>6, <2>2
  <1>9. \A l \in touched : Id(Entry(l)) = l
    BY DEF Id, Level
  <1>10. Named(us) = touched
    BY <1>7, <1>8, <1>9 DEF Named
  <1>11. Tells(us, levels)
    BY <1>7 DEF Tells
  <1> QED
    BY <1>5, <1>10, <1>11

-----------------------------------------------------------------------------
(* A mirror on its way to a book                                           *)

One(l, q) == [id |-> l, participant |-> "mirror", remaining |-> q]

\* Quantity of the order that stands for a level, and of the level in the book ahead.
Depth(l) == IF book[l[1]][l[2]] = <<>> THEN 0 ELSE book[l[1]][l[2]][1].remaining
Goal(g, l) == g[l[1]][l[2]]

\* A level of quantity q is one order of that quantity, and none when q is zero.
Stands(l, q) == IF q = 0 THEN book[l[1]][l[2]] = <<>> /\ live[l] = None
                ELSE /\ book[l[1]][l[2]] = <<One(l, q)>>
                     /\ live[l] = [side |-> l[1], price |-> l[2]]

OneOrderPerLevel ==
    /\ book \in [Side -> [Price -> Seq(Engine!Order)]]
    /\ live \in [Level -> Engine!LiveRef \cup {None}]
    /\ \A l \in Level : Depth(l) \in Nat /\ Stands(l, Depth(l))

\* The order of a call in progress brings its level to the quantity ahead, and
\* may be a new one only when no level above that is left.
CallInProgress(g) ==
    /\ pc \in {"idle", "match"}
    /\ pc = "match" =>
          /\ call \in {"snapshot", "pass2"}
          /\ taker \in [kind : {"GTC", "modify"}, id : Level, participant : {"mirror"},
                        side : Side, price : Price, remaining : Nat \ {0}]
          /\ taker.id = <<taker.side, taker.price>>
          /\ taker.remaining = Goal(g, taker.id) /\ Depth(taker.id) = 0

InFlight == IF pc = "match" THEN {taker.id} ELSE {}

\* The levels that may still differ from the book ahead.
Pending == CASE call = "idle" -> {}
             [] call = "pass1" -> Named(updates)
             [] OTHER -> Named(todo) \cup InFlight

\* The updates of the call in progress lead the mirror to the book g, and between
\* calls it is there.
Follows(g) ==
    /\ OneOrderPerLevel /\ CallInProgress(g)
    /\ call \in {"idle", "snapshot", "pass1", "pass2"}
    /\ call = "idle" => pc = "idle"
    /\ updates \in Seq(Update) /\ Tells(updates, g)
    /\ todo \in Seq(Update) /\ Tells(todo, g)
    /\ tracked = {l \in Level : Depth(l) > 0} \cup InFlight
    /\ \A l \in Level \ Pending : Depth(l) = Goal(g, l)
    /\ \A l \in Level : Depth(l) > Goal(g, l) => call = "pass1" /\ l \in Named(todo)

-----------------------------------------------------------------------------
(* What a step of the engine does to the levels                            *)

\* The step gives one level the quantity q and leaves every other level alone.
Becomes(l0, q) ==
    /\ OneOrderPerLevel'
    /\ \A l \in Level : Depth(l)' = IF l = l0 THEN q ELSE Depth(l)

\* A level that is emptied or given one order has that quantity afterwards.
LEMMA LevelBecomes ==
    ASSUME OneOrderPerLevel, NEW side \in Side, NEW p \in Price, NEW q \in Nat,
           NEW ref, NEW fifo,
           q = 0 => fifo = <<>> /\ ref = None,
           q # 0 => fifo = <<One(<<side, p>>, q)>> /\ ref = [side |-> side, price |-> p],
           book' = [book EXCEPT ![side][p] = fifo],
           live' = [live EXCEPT ![<<side, p>>] = ref]
    PROVE  Becomes(<<side, p>>, q)
  <1> DEFINE l0 == <<side, p>>
             x == One(l0, q)
  <1>1. l0 \in Level /\ x \in Engine!Order
    BY DEF Level, One, Engine!Order
  <1> HIDE DEF x
  <1>2. fifo \in Seq(Engine!Order)
    <2>1. <<>> \in Seq(Engine!Order) /\ <<x>> \in Seq(Engine!Order)
      BY <1>1
    <2> QED
      BY <2>1 DEF x
  <1>3. ref \in Engine!LiveRef \cup {None}
    BY DEF Engine!LiveRef, Engine!Side, Side
  <1>4. /\ book' \in [Side -> [Price -> Seq(Engine!Order)]]
        /\ live' \in [Level -> Engine!LiveRef \cup {None}]
    BY <1>2, <1>3 DEF OneOrderPerLevel
  <1>5. book'[side][p] = fifo /\ live'[l0] = ref
    BY <1>1 DEF OneOrderPerLevel
  <1>6. Depth(l0)' = q /\ Stands(l0, q)'
    <2>1. CASE q = 0
      BY <1>5, <2>1 DEF Depth, Stands
    <2>2. CASE q # 0
      <3>1. fifo = <<x>>
        BY <2>2 DEF x
      <3>2. fifo # <<>> /\ fifo[1] = x
        BY <3>1
      <3>3. x.remaining = q
        BY DEF x, One
      <3>4. Depth(l0)' = q
        BY <1>5, <3>2, <3>3 DEF Depth
      <3> QED
        BY <1>5, <2>2, <3>4 DEF Stands
    <2> QED
      BY <2>1, <2>2
  <1>7. ASSUME NEW l \in Level, l # l0
        PROVE  book'[l[1]][l[2]] = book[l[1]][l[2]] /\ live'[l] = live[l]
    <2>1. l[1] \in Side /\ l[2] \in Price /\ (l[1] # side \/ l[2] # p)
      BY <1>7 DEF Level
    <2> QED
      BY <1>7, <2>1 DEF OneOrderPerLevel
  <1>8. \A l \in Level : l # l0 =>
            Depth(l)' = Depth(l) /\ (Stands(l, Depth(l)) => Stands(l, Depth(l))')
    BY <1>7 DEF Depth, Stands
  <1> QED
    BY <1>4, <1>6, <1>8 DEF OneOrderPerLevel, Becomes

\* The same of a level as such: emptied, and given one order.
LEMMA LevelEmptied ==
    ASSUME OneOrderPerLevel, NEW l \in Level,
           book' = [book EXCEPT ![l[1]][l[2]] = <<>>], live' = [live EXCEPT ![l] = None]
    PROVE  Becomes(l, 0)
  <1>1. l[1] \in Side /\ l[2] \in Price /\ <<l[1], l[2]>> = l
    BY DEF Level
  <1>2. live' = [live EXCEPT ![<<l[1], l[2]>>] = None]
    BY <1>1
  <1>3. Becomes(<<l[1], l[2]>>, 0)
    BY <1>1, <1>2, LevelBecomes
  <1> QED
    BY <1>1, <1>3

LEMMA LevelSet ==
    ASSUME OneOrderPerLevel, NEW l \in Level, NEW q \in Nat \ {0},
           book' = [book EXCEPT ![l[1]][l[2]] = <<One(l, q)>>],
           live' = [live EXCEPT ![l] = [side |-> l[1], price |-> l[2]]]
    PROVE  Becomes(l, q)
  <1>1. l[1] \in Side /\ l[2] \in Price /\ <<l[1], l[2]>> = l
    BY DEF Level
  <1>2. live' = [live EXCEPT ![<<l[1], l[2]>>] = [side |-> l[1], price |-> l[2]]]
    BY <1>1
  <1>3. Becomes(<<l[1], l[2]>>, q)
    BY <1>1, <1>2, LevelBecomes, ZenonT(60)
  <1> QED
    BY <1>1, <1>3

\* The only order of a level is found, and its quantity is the level's.
LEMMA FoundAlone ==
    ASSUME OneOrderPerLevel, NEW l \in Level, NEW i, Engine!RestsAt(l, i)
    PROVE  /\ i = 1 /\ live[l] = [side |-> l[1], price |-> l[2]]
           /\ Depth(l) \in Nat \ {0} /\ book[l[1]][l[2]] = <<One(l, Depth(l))>>
  <1>1. Depth(l) \in Nat /\ Stands(l, Depth(l))
    BY DEF OneOrderPerLevel
  <1>2. live[l] # None /\ i \in DOMAIN book[live[l].side][live[l].price]
    BY DEF Engine!RestsAt
  <1>3. Depth(l) # 0
    BY <1>1, <1>2 DEF Stands
  <1>4. book[l[1]][l[2]] = <<One(l, Depth(l))>> /\ live[l] = [side |-> l[1], price |-> l[2]]
    BY <1>1, <1>3 DEF Stands
  <1>5. live[l].side = l[1] /\ live[l].price = l[2]
    BY <1>4
  <1>6. i \in DOMAIN <<One(l, Depth(l))>>
    BY <1>2, <1>4, <1>5
  <1> QED
    BY <1>1, <1>3, <1>4, <1>6

\* An id is live just when its level has quantity; depth_at and open_qty read it.
LEMMA LiveIsDeep ==
    ASSUME OneOrderPerLevel, NEW l \in Level
    PROVE  /\ live[l] = None <=> Depth(l) = 0
           /\ OpenQty(l) = Depth(l)
           /\ DepthAt(l[1], l[2]) = Depth(l)
  <1>1. Depth(l) \in Nat /\ Stands(l, Depth(l))
    BY SMTT(60) DEF OneOrderPerLevel
  <1>2. CASE Depth(l) = 0
    BY <1>1, <1>2, TotalOfNone DEF Stands, OpenQty, DepthAt
  <1>3. CASE Depth(l) # 0
    <2> DEFINE x == One(l, Depth(l))
               fifo == book[l[1]][l[2]]
    <2>1. fifo = <<x>> /\ live[l] = [side |-> l[1], price |-> l[2]]
      BY <1>1, <1>3 DEF Stands
    <2>2. x.id = l /\ x.remaining = Depth(l)
      BY DEF One
    <2>3. live[l] # None
      BY <2>1, NoneAssumption DEF Level, Side
    <2>4. TotalQty(<<x>>) = Depth(l)
      <3> HIDE DEF x
      <3> QED
        BY <1>1, <2>2, TotalOfOne
    <2>5. DepthAt(l[1], l[2]) = Depth(l)
      BY <2>1, <2>4 DEF DepthAt
    <2>6. OpenQty(l) = Depth(l)
      <3> DEFINE at == book[live[l].side][live[l].price]
                 c == CHOOSE i \in DOMAIN at : at[i].id = l
      <3>1. DOMAIN at = {1} /\ at[1] = x
        <4>1. live[l].side = l[1] /\ live[l].price = l[2]
          BY <2>1
        <4>2. at = <<x>>
          BY <2>1, <4>1
        <4> HIDE DEF at, x
        <4> QED
          BY <4>2
      <3>2. OpenQty(l) = at[c].remaining
        BY <2>3 DEF OpenQty
      <3> HIDE DEF at
      <3>3. c = 1
        BY <2>2, <3>1
      <3> QED
        BY <2>2, <3>1, <3>2, <3>3
    <2> QED
      BY <1>3, <2>3, <2>5, <2>6
  <1> QED
    BY <1>2, <1>3

\* Taking the only order of a level out empties the level.
LEMMA UnrestEmpties ==
    ASSUME OneOrderPerLevel, NEW l \in Level, NEW i, Engine!RestsAt(l, i),
           Engine!Unrest(live[l].side, live[l].price, i)
    PROVE  Becomes(l, 0)
  <1> DEFINE x == One(l, Depth(l))
  <1>1. /\ i = 1 /\ live[l] = [side |-> l[1], price |-> l[2]]
        /\ book[l[1]][l[2]] = <<x>>
    BY FoundAlone
  <1>2. l = <<l[1], l[2]>> /\ l[1] \in Side /\ l[2] \in Price /\ x.id = l
    BY DEF Level, One
  <1> HIDE DEF x
  <1>3. RemoveAt(<<x>>, 1) = <<>>
    BY DEF RemoveAt
  <1>4. live[l].side = l[1] /\ live[l].price = l[2]
    BY <1>1, SMTT(60)
  <1>5. /\ book' = [book EXCEPT ![l[1]][l[2]] = RemoveAt(book[l[1]][l[2]], 1)]
        /\ live' = [live EXCEPT ![book[l[1]][l[2]][1].id] = None]
    BY <1>1, <1>4 DEF Engine!Unrest, RemoveAt, Engine!RemoveAt
  <1>6. book[l[1]][l[2]][1].id = l
    BY <1>1, <1>2
  <1>7. /\ book' = [book EXCEPT ![l[1]][l[2]] = <<>>]
        /\ live' = [live EXCEPT ![l] = None]
    BY <1>1, <1>3, <1>5, <1>6
  <1> QED
    BY <1>7, LevelEmptied

\* A modify in place gives the level the new quantity.
LEMMA ReduceSets ==
    ASSUME OneOrderPerLevel, NEW l \in Level, NEW i, NEW q \in Nat \ {0},
           Engine!Reduce(l, i, l[2], q)
    PROVE  /\ Becomes(l, q)
           /\ event' = None /\ UNCHANGED <<pc, taker>>
  <1> DEFINE x == One(l, Depth(l))
  <1>1. Engine!RestsAt(l, i)
    BY DEF Engine!Reduce
  <1>2. /\ i = 1 /\ live[l] = [side |-> l[1], price |-> l[2]]
        /\ book[l[1]][l[2]] = <<x>>
    BY <1>1, FoundAlone
  <1>3. l = <<l[1], l[2]>> /\ l[1] \in Side /\ l[2] \in Price
    BY DEF Level
  <1>4. live[l].side = l[1] /\ live[l].price = l[2]
    BY <1>2
  <1>5. /\ book' = [book EXCEPT ![l[1]][l[2]][1].remaining = q]
        /\ live' = live /\ event' = None /\ UNCHANGED <<pc, taker>>
    BY <1>2, <1>4 DEF Engine!Reduce
  <1>6. [<<x>> EXCEPT ![1].remaining = q] = <<One(l, q)>>
    BY DEF One
  <1>7. /\ book' = [book EXCEPT ![l[1]][l[2]] = <<One(l, q)>>]
        /\ live' = [live EXCEPT ![l] = [side |-> l[1], price |-> l[2]]]
    BY <1>2, <1>3, <1>5, <1>6 DEF OneOrderPerLevel
  <1> QED
    BY <1>5, <1>7, LevelSet

\* A cancel/replace empties the level and brings a new order for it.
LEMMA ReplaceEmpties ==
    ASSUME OneOrderPerLevel, NEW l \in Level, NEW i, NEW q,
           Engine!Replace(l, i, l[2], q)
    PROVE  /\ Becomes(l, 0) /\ ~(q <= Depth(l))
           /\ event' = None /\ pc' = "match"
           /\ taker' = [kind |-> "modify", id |-> l, participant |-> "mirror", side |-> l[1],
                        price |-> l[2], remaining |-> q]
  <1> DEFINE x == One(l, Depth(l))
  <1>1. Engine!RestsAt(l, i)
    BY DEF Engine!Replace
  <1>2. /\ i = 1 /\ live[l] = [side |-> l[1], price |-> l[2]]
        /\ book[l[1]][l[2]] = <<x>>
    BY <1>1, FoundAlone
  <1>3. live[l].side = l[1] /\ live[l].price = l[2]
    BY <1>2
  <1>4. x.participant = "mirror" /\ x.remaining = Depth(l)
    BY DEF One
  <1> HIDE DEF x
  <1>5. book[live[l].side][live[l].price][i] = x
    BY <1>2, <1>3
  <1>6. /\ Engine!Unrest(live[l].side, live[l].price, i)
        /\ ~Engine!CanReduce(x, live[l], l[2], q)
        /\ Engine!StartMatch("modify", l, x.participant, live[l].side, l[2], q)
        /\ event' = None
    BY <1>5 DEF Engine!Replace
  <1>7. Becomes(l, 0)
    BY <1>1, <1>6, UnrestEmpties
  <1>8. ~(q <= Depth(l))
    BY <1>3, <1>4, <1>6 DEF Engine!CanReduce
  <1>9. pc' = "match" /\ taker' = [kind |-> "modify", id |-> l, participant |-> "mirror",
                                   side |-> l[1], price |-> l[2], remaining |-> q]
    BY <1>3, <1>4, <1>6 DEF Engine!StartMatch
  <1> QED
    BY <1>6, <1>7, <1>8, <1>9

\* An order that rests gives its level its quantity.
LEMMA RestSets ==
    ASSUME OneOrderPerLevel, NEW g, CallInProgress(g), Engine!Rest
    PROVE  /\ pc = "match" /\ pc' = "idle" /\ event' = None
           /\ Becomes(taker.id, taker.remaining)
  <1> DEFINE l == taker.id
             q == taker.remaining
             x == One(l, q)
  <1>1. /\ pc = "match" /\ pc' = "idle" /\ event' = None
        /\ book' = [book EXCEPT ![taker.side][taker.price] =
                        Append(@, [id |-> l, participant |-> taker.participant, remaining |-> q])]
        /\ live' = [live EXCEPT ![l] = [side |-> taker.side, price |-> taker.price]]
    BY DEF Engine!Rest, Engine!LoopEnds, Engine!Return
  <1>2. /\ l = <<taker.side, taker.price>> /\ taker.side \in Side /\ taker.price \in Price
        /\ q \in Nat \ {0} /\ taker.participant = "mirror" /\ l \in Level /\ Depth(l) = 0
    BY <1>1 DEF CallInProgress
  <1>3. book[taker.side][taker.price] = <<>>
    <2>1. Stands(l, 0)
      BY <1>2 DEF OneOrderPerLevel
    <2> QED
      BY <1>2, <2>1 DEF Stands
  <1>4. [id |-> l, participant |-> taker.participant, remaining |-> q] = x
    BY <1>2 DEF One
  <1> HIDE DEF x
  <1>6. Append(<<>>, x) = <<x>>
    OBVIOUS
  <1>7. l[1] = taker.side /\ l[2] = taker.price
    BY <1>2
  <1>8. book' = [book EXCEPT ![l[1]][l[2]] = <<x>>]
    BY <1>1, <1>3, <1>4, <1>6, <1>7
  <1>9. live' = [live EXCEPT ![l] = [side |-> l[1], price |-> l[2]]]
    BY <1>1, <1>7
  <1> QED
    BY <1>1, <1>2, <1>8, <1>9, LevelSet DEF x

-----------------------------------------------------------------------------
(* Every step of the mirror leads on                                       *)

\* No level that stands crosses the order of a call in progress, because no level is
\* above the book ahead and that is not crossed: the order can only rest.
LEMMA OnlyRests ==
    ASSUME NEW g \in Books, Follows(g), Uncrossed(g), Engine!Continue PROVE Engine!Rest
  <1>1. pc = "match"
    BY DEF Follows, CallInProgress, Engine!Continue, Engine!StpCancelIncoming,
           Engine!StpCancelResting, Engine!Trade, Engine!RemoveFilled, Engine!FullyMatched,
           Engine!DropRemainder, Engine!Rest, Engine!LoopEnds, Engine!Matching
  <1>2. /\ call # "pass1" /\ taker.kind \in {"GTC", "modify"} /\ taker.remaining \in Nat \ {0}
        /\ taker.side \in Side /\ taker.price \in Price
        /\ taker.remaining = g[taker.side][taker.price]
    BY <1>1 DEF Follows, CallInProgress, Goal
  <1>3. ASSUME NEW p \in Price, book[Engine!Facing][p] # <<>>
        PROVE  ~Engine!Crosses(taker, p)
    <2> DEFINE l == <<Engine!Facing, p>>
    <2>1. Engine!Facing \in Side
      BY DEF Engine!Facing, Engine!Opposite, Side
    <2>2. l \in Level
      BY <2>1 DEF Level
    <2>3. Depth(l) \in Nat /\ Depth(l) # 0
      BY <1>3, <2>2 DEF Follows, OneOrderPerLevel, Stands
    <2>4. ~(Depth(l) > Goal(g, l))
      BY <1>2, <2>2 DEF Follows
    <2>5. g[Engine!Facing][p] \in Nat
      BY <2>1, QtyAssumption DEF Books
    <2>6. g[Engine!Facing][p] > 0
      BY <2>3, <2>4, <2>5 DEF Goal
    <2>7. g[taker.side][taker.price] > 0
      BY <1>2
    <2>8. taker.price \in Int /\ p \in Int
      BY <1>2, PriceAssumption
    <2>10. CASE taker.side = "Bid"
      BY <1>2, <2>6, <2>7, <2>8, <2>10
         DEF Uncrossed, Engine!Crosses, Engine!Facing, Engine!Opposite
    <2>11. CASE taker.side = "Ask"
      BY <1>2, <2>6, <2>7, <2>8, <2>11
         DEF Uncrossed, Engine!Crosses, Engine!Facing, Engine!Opposite
    <2> QED
      BY <1>2, <2>10, <2>11 DEF Side
  <1>4. \A p \in Price : ~Engine!Matching(p)
    BY <1>3 DEF Engine!Matching, Engine!IsBest, Engine!Levels
  <1>5. \A p \in Price : /\ ~Engine!StpCancelIncoming(p) /\ ~Engine!StpCancelResting(p)
                         /\ ~Engine!Trade(p) /\ ~Engine!RemoveFilled(p)
    BY <1>1, <1>4 DEF Engine!StpCancelIncoming, Engine!StpCancelResting, Engine!Trade,
                      Engine!RemoveFilled
  <1>6. ~Engine!FullyMatched /\ ~Engine!DropRemainder
    BY <1>2 DEF Engine!FullyMatched, Engine!DropRemainder
  <1> QED
    BY <1>5, <1>6 DEF Engine!Continue

\* What is known of an update when the mirror gets to it.
LEMMA Visited ==
    ASSUME NEW g \in Books, Follows(g), NEW u, Visiting, u = Head(todo), todo' = Tail(todo)
    PROVE  /\ u \in Update /\ Id(u) \in Level /\ Id(u)[1] = u.side /\ Id(u)[2] = u.price
           /\ u.qty \in Nat /\ u.qty = Goal(g, Id(u))
           /\ Depth(Id(u)) \in Nat /\ OpenQty(Id(u)) = Depth(Id(u))
           /\ Id(u) \in tracked <=> Depth(Id(u)) > 0
           /\ live[Id(u)] = None <=> Depth(Id(u)) = 0
           /\ todo' \in Seq(Update) /\ Tells(todo', g)
           /\ Named(todo) = Named(todo') \cup {Id(u)}
           /\ InFlight = {}
  <1>1. todo \in Seq(Update) /\ todo # <<>> /\ pc = "idle"
    BY DEF Visiting, Follows
  <1>2. /\ u = todo[1] /\ 1 \in DOMAIN todo /\ u \in Update /\ todo' \in Seq(Update)
        /\ DOMAIN todo' = 1 .. (Len(todo) - 1) /\ DOMAIN todo = 1 .. Len(todo)
        /\ Len(todo) \in Nat
        /\ \A i \in DOMAIN todo' : i + 1 \in DOMAIN todo /\ todo'[i] = todo[i + 1]
    BY <1>1
  <1>3. /\ Id(u) \in Level /\ Id(u)[1] = u.side /\ Id(u)[2] = u.price /\ u.qty \in Nat
    BY <1>2, QtyAssumption DEF Id, Update, Level
  <1>4. u.qty = Goal(g, Id(u))
    BY <1>2, <1>3 DEF Follows, Tells, Goal
  <1>5. Tells(todo', g)
    BY <1>2 DEF Follows, Tells
  <1>6. Named(todo) = Named(todo') \cup {Id(u)}
    <2>1. ASSUME NEW i \in DOMAIN todo, i # 1
          PROVE  i - 1 \in DOMAIN todo' /\ todo'[i - 1] = todo[i]
      <3>1. i \in Int /\ i - 1 \in DOMAIN todo' /\ (i - 1) + 1 = i
        BY <1>2, <2>1
      <3> QED
        BY <1>2, <3>1
    <2>2. Named(todo) \subseteq Named(todo') \cup {Id(u)}
      BY <1>2, <2>1, ZenonT(60) DEF Named
    <2>3. Id(u) \in Named(todo)
      BY <1>2 DEF Named
    <2>4. Named(todo') \subseteq Named(todo)
      <3> SUFFICES ASSUME NEW i \in DOMAIN todo' PROVE Id(todo'[i]) \in Named(todo)
        BY DEF Named
      <3>1. i + 1 \in DOMAIN todo /\ Id(todo'[i]) = Id(todo[i + 1])
        BY <1>2
      <3> QED
        BY <3>1 DEF Named
    <2> QED
      BY <2>2, <2>3, <2>4
  <1>7. InFlight = {}
    BY <1>1 DEF InFlight
  <1>8. OneOrderPerLevel /\ Depth(Id(u)) \in Nat
    BY <1>3 DEF Follows, OneOrderPerLevel
  <1>9. /\ live[Id(u)] = None <=> Depth(Id(u)) = 0
        /\ OpenQty(Id(u)) = Depth(Id(u))
    BY <1>3, <1>8, LiveIsDeep
  <1>10. Id(u) \in tracked <=> Depth(Id(u)) > 0
    BY <1>3, <1>7 DEF Follows
  <1> QED
    BY <1>2, <1>3, <1>4, <1>5, <1>6, <1>7, <1>8, <1>9, <1>10

\* A visit that gives the level the update's quantity keeps the invariant, in a
\* reduction of the first pass and in any visit after it.
LEMMA SetToGoal ==
    ASSUME NEW g \in Books, Follows(g), NEW u, Visit(u), UNCHANGED pc,
           Becomes(Id(u), u.qty),
           tracked' = IF u.qty = 0 THEN tracked \ {Id(u)} ELSE tracked \cup {Id(u)}
    PROVE  Follows(g)'
  <1> DEFINE l0 == Id(u)
  <1>1. /\ l0 \in Level /\ u.qty \in Nat /\ u.qty = Goal(g, l0)
        /\ todo' \in Seq(Update) /\ Tells(todo', g)
        /\ Named(todo) = Named(todo') \cup {l0} /\ InFlight = {}
    BY Visited DEF Visit
  <1>2. pc = "idle" /\ pc' = "idle" /\ call' = call /\ updates' = updates /\ call # "idle"
    BY DEF Visit, Visiting
  <1>3. CallInProgress(g)' /\ InFlight' = {}
    BY <1>2 DEF CallInProgress, InFlight
  <1>4. OneOrderPerLevel' /\ \A l \in Level : Depth(l)' = IF l = l0 THEN u.qty ELSE Depth(l)
    BY DEF Becomes
  <1>5. tracked' = {l \in Level : Depth(l)' > 0}
    BY <1>1, <1>4 DEF Follows
  <1>6. Tells(updates, g)'
    BY <1>2 DEF Follows, Tells
  <1> HIDE DEF l0
  <1>7. \A l \in Level \ Pending' : Depth(l)' = Goal(g, l)
    <2>1. \A l \in Level \ Pending' : l = l0 \/ l \in Level \ Pending
      BY <1>1, <1>2, <1>3 DEF Pending, Follows
    <2> QED
      BY <1>1, <1>4, <2>1 DEF Follows
  <1>8. \A l \in Level : Depth(l)' > Goal(g, l) => call' = "pass1" /\ l \in Named(todo)'
    <2>1. ~(u.qty > Goal(g, l0))
      BY <1>1
    <2> QED
      BY <1>1, <1>2, <1>4, <2>1 DEF Follows
  <1> QED
    BY <1>1, <1>2, <1>3, <1>4, <1>5, <1>6, <1>7, <1>8 DEF Follows

\* A visit that leaves the order of the level in flight keeps the invariant.
LEMMA SetInFlight ==
    ASSUME NEW g \in Books, Follows(g), NEW u, Visit(u),
           u.qty > 0, call # "pass1", Becomes(Id(u), 0), pc' = "match",
           NEW kind \in {"GTC", "modify"},
           taker' = [kind |-> kind, id |-> Id(u), participant |-> "mirror", side |-> u.side,
                     price |-> u.price, remaining |-> u.qty],
           tracked' = tracked \cup {Id(u)}
    PROVE  Follows(g)'
  <1> DEFINE l0 == Id(u)
  <1>1. /\ l0 \in Level /\ u.qty \in Nat /\ u.qty = Goal(g, l0) /\ u \in Update
        /\ todo' \in Seq(Update) /\ Tells(todo', g)
        /\ Named(todo) = Named(todo') \cup {l0} /\ InFlight = {}
    BY Visited DEF Visit
  <1>2. call' = call /\ updates' = updates /\ call \in {"snapshot", "pass2"}
    BY DEF Visit, Visiting, Follows
  <1>3. OneOrderPerLevel' /\ \A l \in Level : Depth(l)' = IF l = l0 THEN 0 ELSE Depth(l)
    BY DEF Becomes
  <1>4. taker'.id = l0 /\ InFlight' = {l0}
    BY DEF InFlight
  <1>5. CallInProgress(g)'
    <2>1. taker' \in [kind : {"GTC", "modify"}, id : Level, participant : {"mirror"},
                      side : Side, price : Price, remaining : Nat \ {0}]
      BY <1>1 DEF Update
    <2>2. taker'.id = <<taker'.side, taker'.price>> /\ taker'.remaining = Goal(g, l0)
      BY <1>1 DEF Id
    <2>3. Depth(l0)' = 0
      BY <1>1, <1>3
    <2>4. Depth(taker.id)' = 0 /\ Goal(g, taker'.id) = Goal(g, l0)
      BY <1>4, <2>3 DEF Depth, Goal
    <2> QED
      BY <1>2, <2>1, <2>2, <2>4 DEF CallInProgress
  <1>6. tracked' = {l \in Level : Depth(l)' > 0} \cup InFlight'
    BY <1>1, <1>3, <1>4 DEF Follows
  <1>7. Tells(updates, g)'
    BY <1>2 DEF Follows, Tells
  <1> HIDE DEF l0
  <1>8. \A l \in Level \ Pending' : Depth(l)' = Goal(g, l)
    <2>1. Pending' = Named(todo') \cup {l0} /\ Pending = Named(todo)
      BY <1>1, <1>2, <1>4 DEF Pending
    <2> QED
      BY <1>1, <1>3, <2>1 DEF Follows
  <1>9. \A l \in Level : ~(Depth(l)' > Goal(g, l))
    <2>1. ~(0 > Goal(g, l0))
      BY <1>1
    <2> QED
      BY <1>2, <1>3, <2>1 DEF Follows
  <1> QED
    BY <1>1, <1>2, <1>3, <1>5, <1>6, <1>7, <1>8, <1>9 DEF Follows

\* At first the mirror stands at the empty book.
NoLevels == [side \in Side |-> [p \in Price |-> 0]]

LEMMA MirrorInitOK == MirrorInit => NoLevels \in Books /\ Follows(NoLevels) /\ NoSelfMatch
  <1> SUFFICES ASSUME MirrorInit
               PROVE  NoLevels \in Books /\ Follows(NoLevels) /\ NoSelfMatch
    OBVIOUS
  <1>1. /\ book = [side \in Side |-> [p \in Price |-> <<>>]] /\ live = [l \in Level |-> None]
        /\ pc = "idle" /\ event = None /\ tracked = {} /\ call = "idle"
        /\ updates = <<>> /\ todo = <<>>
    BY DEF MirrorInit, Engine!Init, Engine!Side, Side
  <1>2. \A l \in Level : /\ l[1] \in Side /\ l[2] \in Price
                         /\ book[l[1]][l[2]] = <<>> /\ live[l] = None /\ Goal(NoLevels, l) = 0
    BY <1>1 DEF Level, Goal, NoLevels
  <1>3. \A l \in Level : Depth(l) = 0 /\ Stands(l, 0)
    BY <1>2 DEF Depth, Stands
  <1>4. OneOrderPerLevel
    BY <1>1, <1>3 DEF OneOrderPerLevel
  <1>5. /\ updates \in Seq(Update) /\ Tells(updates, NoLevels)
        /\ todo \in Seq(Update) /\ Tells(todo, NoLevels)
    BY <1>1 DEF Tells
  <1>6. CallInProgress(NoLevels) /\ InFlight = {} /\ NoSelfMatch
    BY <1>1 DEF CallInProgress, InFlight, NoSelfMatch
  <1>7. NoLevels \in Books
    BY QtyAssumption DEF Books, NoLevels
  <1>8. tracked = {l \in Level : Depth(l) > 0} \cup InFlight
    BY <1>1, <1>3, <1>6
  <1>9. \A l \in Level : Depth(l) = Goal(NoLevels, l) /\ ~(Depth(l) > Goal(NoLevels, l))
    BY <1>2, <1>3
  <1> QED
    BY <1>1, <1>4, <1>5, <1>6, <1>7, <1>8, <1>9 DEF Follows

\* A call begins with updates that name every level in which the books differ.
LEMMA StartOK ==
    ASSUME NEW g \in Books, Follows(g), NEW new \in Books, NEW us \in Seq(Update),
           Tells(us, new), NEW name \in {"snapshot", "pass1"}, Start(name, us),
           name = "snapshot" => \A l \in Level : Depth(l) = 0,
           \A l \in Level \ Named(us) : g[l[1]][l[2]] = new[l[1]][l[2]]
    PROVE  Follows(new)'
  <1>1. /\ call = "idle" /\ pc = "idle" /\ call' = name /\ updates' = us /\ todo' = us
        /\ UNCHANGED <<engineVars, tracked>>
    BY DEF Start
  <1>2. pc' = "idle" /\ CallInProgress(new)' /\ InFlight' = {} /\ InFlight = {}
    BY <1>1, SMTT(60) DEF CallInProgress, InFlight, engineVars
  <1>3. OneOrderPerLevel' /\ \A l : Depth(l)' = Depth(l)
    BY <1>1 DEF OneOrderPerLevel, Depth, Stands, engineVars, Follows
  <1>4. tracked' = {l \in Level : Depth(l)' > 0} \cup InFlight'
    BY <1>1, <1>2, <1>3 DEF Follows
  <1>5. /\ updates' \in Seq(Update) /\ Tells(updates, new)' /\ todo' \in Seq(Update)
        /\ Tells(todo, new)'
    BY <1>1 DEF Tells
  <1>6. Pending' = Named(us)
    BY <1>1, <1>2 DEF Pending, Named
  <1>7. \A l \in Level : Depth(l) = Goal(g, l)
    BY <1>1 DEF Follows, Pending
  <1>8. \A l \in Level \ Named(us) : Depth(l)' = Goal(new, l)
    BY <1>3, <1>7 DEF Goal
  <1>9. \A l \in Level : Goal(new, l) \in Nat
    BY QtyAssumption DEF Goal, Books, Level
  <1>10. \A l \in Level : Depth(l)' > Goal(new, l) => call' = "pass1" /\ l \in Named(todo)'
    <2>1. CASE name = "snapshot"
      BY <1>3, <1>9, <2>1
    <2>2. CASE name = "pass1"
      <3>1. Named(todo)' = Named(us)
        BY <1>1 DEF Named
      <3>2. \A l \in Level \ Named(us) : ~(Depth(l)' > Goal(new, l))
        BY <1>8, <1>9
      <3> QED
        BY <1>1, <2>2, <3>1, <3>2
    <2> QED
      BY <2>1, <2>2
  <1> QED
    BY <1>1, <1>2, <1>3, <1>4, <1>5, <1>6, <1>8, <1>10 DEF Follows

\* An update that is not due has nothing left to take away.
LEMMA SkipOK == ASSUME NEW g \in Books, Follows(g), Skip PROVE Follows(g)'
  <1> DEFINE u == Head(todo)
             l0 == Id(u)
  <1>1. /\ l0 \in Level /\ u.qty \in Nat /\ u.qty = Goal(g, l0)
        /\ Depth(l0) \in Nat /\ OpenQty(l0) = Depth(l0)
        /\ l0 \in tracked <=> Depth(l0) > 0
        /\ todo' \in Seq(Update) /\ Tells(todo', g)
        /\ Named(todo) = Named(todo') \cup {l0} /\ InFlight = {}
    BY Visited DEF Skip
  <1>2. /\ pc = "idle" /\ call # "idle" /\ ~IsDue(u)
        /\ UNCHANGED <<engineVars, tracked, call, updates>>
    BY DEF Skip, Visiting
  <1>3. CallInProgress(g)' /\ InFlight' = {}
    BY <1>2 DEF CallInProgress, InFlight, engineVars
  <1>4. OneOrderPerLevel' /\ \A l : Depth(l)' = Depth(l)
    BY <1>2 DEF OneOrderPerLevel, Depth, Stands, engineVars, Follows
  <1>5. pc' = "idle"
    BY <1>2 DEF engineVars
  <1>6. Tells(updates, g)'
    BY <1>2 DEF Follows, Tells
  <1> HIDE DEF u, l0
  <1>7. /\ call = "pass1" => ~(Goal(g, l0) < Depth(l0))
        /\ call # "pass1" => Goal(g, l0) < Depth(l0)
    <2>1. Goal(g, l0) < Depth(l0) => Depth(l0) > 0
      BY <1>1
    <2>2. IsReduction(u) <=> Goal(g, l0) < Depth(l0)
      BY <1>1, <2>1 DEF IsReduction, l0
    <2>3. call \in {"snapshot", "pass1", "pass2"}
      BY <1>2 DEF Follows
    <2> QED
      BY <1>2, <2>2, <2>3 DEF IsDue
  <1>8. call = "pass1"
    BY <1>1, <1>7 DEF Follows
  <1>9. \A l \in Level \ Pending' : Depth(l)' = Goal(g, l)
    BY <1>2, <1>4, <1>8 DEF Follows, Pending, Named
  <1>10. \A l \in Level : Depth(l)' > Goal(g, l) => l \in Named(todo')
    BY <1>1, <1>4, <1>7, <1>8 DEF Follows
  <1>11. tracked' = {l \in Level : Depth(l)' > 0} \cup InFlight'
    BY <1>1, <1>2, <1>3, <1>4 DEF Follows
  <1> QED
    BY <1>1, <1>2, <1>3, <1>4, <1>5, <1>6, <1>8, <1>9, <1>10, <1>11 DEF Follows, Named

\* What a visit finds: the level's quantity, and whether it may grow.
LEMMA DueAt ==
    ASSUME NEW g \in Books, Follows(g), NEW u, Visit(u)
    PROVE  /\ OneOrderPerLevel /\ pc = "idle" /\ Id(u) \in Level
           /\ Id(u)[1] = u.side /\ Id(u)[2] = u.price
           /\ u.qty \in Nat /\ Depth(Id(u)) \in Nat
           /\ OpenQty(Id(u)) = Depth(Id(u))
           /\ Id(u) \in tracked <=> Depth(Id(u)) > 0
           /\ live[Id(u)] = None <=> Depth(Id(u)) = 0
           /\ call = "pass1" => u.qty < Depth(Id(u))
  <1>1. Visiting /\ u = Head(todo) /\ todo' = Tail(todo) /\ IsDue(u)
    BY DEF Visit
  <1>2. /\ Id(u) \in Level /\ Id(u)[1] = u.side /\ Id(u)[2] = u.price /\ u.qty \in Nat
        /\ Depth(Id(u)) \in Nat /\ OpenQty(Id(u)) = Depth(Id(u))
        /\ Id(u) \in tracked <=> Depth(Id(u)) > 0
        /\ live[Id(u)] = None <=> Depth(Id(u)) = 0
    BY <1>1, Visited
  <1>3. call = "pass1" => u.qty < Depth(Id(u))
    BY <1>1, <1>2 DEF IsDue, IsReduction
  <1> QED
    BY <1>1, <1>2, <1>3 DEF Visiting, Follows

LEMMA NothingToDoOK ==
    ASSUME NEW g \in Books, Follows(g), NEW u, NothingToDo(u) PROVE Follows(g)'
  <1>1. Visit(u) /\ UNCHANGED <<engineVars, tracked>>
    BY DEF NothingToDo
  <1>2. /\ u.qty \in Nat /\ Depth(Id(u)) \in Nat /\ OpenQty(Id(u)) = Depth(Id(u))
        /\ Id(u) \in tracked <=> Depth(Id(u)) > 0
    BY <1>1, DueAt
  <1>3. u.qty = Depth(Id(u))
    BY <1>2, SMTT(60) DEF NothingToDo
  <1>4. OneOrderPerLevel' /\ \A l : Depth(l)' = Depth(l)
    BY <1>1 DEF OneOrderPerLevel, Depth, Stands, engineVars, Follows
  <1>5. Becomes(Id(u), u.qty)
    BY <1>3, <1>4 DEF Becomes
  <1>6. pc' = pc
    BY <1>1 DEF engineVars
  <1>7. tracked' = IF u.qty = 0 THEN tracked \ {Id(u)} ELSE tracked \cup {Id(u)}
    BY <1>1, <1>2, <1>3
  <1> QED
    BY <1>1, <1>5, <1>6, <1>7, SetToGoal

LEMMA AddLevelOK ==
    ASSUME NEW g \in Books, Follows(g), NEW u, AddLevel(u) PROVE Follows(g)'
  <1>1. /\ Visit(u) /\ Id(u) \notin tracked /\ u.qty > 0 /\ tracked' = tracked \cup {Id(u)}
        /\ Engine!AddLimit(Id(u), "mirror", u.side, u.price, u.qty, "GTC")
    BY DEF AddLevel
  <1>2. /\ OneOrderPerLevel /\ u.qty \in Nat /\ Depth(Id(u)) \in Nat
        /\ Id(u) \in tracked <=> Depth(Id(u)) > 0
        /\ call = "pass1" => u.qty < Depth(Id(u))
    BY <1>1, DueAt
  <1>3. Depth(Id(u)) = 0 /\ call # "pass1"
    BY <1>1, <1>2
  <1>4. /\ pc' = "match" /\ UNCHANGED <<book, live>>
        /\ taker' = [kind |-> "GTC", id |-> Id(u), participant |-> "mirror", side |-> u.side,
                     price |-> u.price, remaining |-> u.qty]
    BY <1>1 DEF Engine!AddLimit, Engine!StartMatch
  <1>5. Becomes(Id(u), 0)
    BY <1>2, <1>3, <1>4 DEF Becomes, OneOrderPerLevel, Depth, Stands
  <1> QED
    BY <1>1, <1>3, <1>4, <1>5, SetInFlight

LEMMA RemoveLevelOK ==
    ASSUME NEW g \in Books, Follows(g), NEW u, RemoveLevel(u) PROVE Follows(g)'
  <1>1. /\ Visit(u) /\ Id(u) \in tracked /\ u.qty = 0 /\ tracked' = tracked \ {Id(u)}
        /\ (\E i \in 1 .. Cardinality(Level) : Engine!Cancel(Id(u), i))
              \/ Engine!RejectUnknown(Id(u))
    BY DEF RemoveLevel
  <1>2. /\ OneOrderPerLevel /\ Id(u) \in Level /\ Depth(Id(u)) \in Nat
        /\ Id(u) \in tracked <=> Depth(Id(u)) > 0
        /\ live[Id(u)] = None <=> Depth(Id(u)) = 0
    BY <1>1, DueAt
  <1>3. ~Engine!RejectUnknown(Id(u))
    BY <1>1, <1>2 DEF Engine!RejectUnknown
  <1>4. PICK i : Engine!Cancel(Id(u), i)
    BY <1>1, <1>3
  <1>5. /\ Engine!RestsAt(Id(u), i)
        /\ Engine!Unrest(live[Id(u)].side, live[Id(u)].price, i)
        /\ UNCHANGED pc
    BY <1>4 DEF Engine!Cancel
  <1>6. Becomes(Id(u), u.qty)
    BY <1>1, <1>2, <1>5, UnrestEmpties
  <1> QED
    BY <1>1, <1>5, <1>6, SetToGoal

LEMMA SetLevelOK ==
    ASSUME NEW g \in Books, Follows(g), NEW u, SetLevel(u) PROVE Follows(g)'
  <1>1. /\ Visit(u) /\ Id(u) \in tracked /\ u.qty > 0 /\ tracked' = tracked
        /\ \/ \E i \in 1 .. Cardinality(Level) :
                 Engine!Reduce(Id(u), i, u.price, u.qty) \/ Engine!Replace(Id(u), i, u.price, u.qty)
           \/ Engine!RejectUnknown(Id(u))
    BY DEF SetLevel
  <1>2. /\ OneOrderPerLevel /\ Id(u) \in Level /\ Depth(Id(u)) \in Nat /\ u.qty \in Nat
        /\ Id(u)[1] = u.side /\ Id(u)[2] = u.price
        /\ Id(u) \in tracked <=> Depth(Id(u)) > 0
        /\ live[Id(u)] = None <=> Depth(Id(u)) = 0
        /\ call = "pass1" => u.qty < Depth(Id(u))
    BY <1>1, DueAt
  <1>3. ~Engine!RejectUnknown(Id(u)) /\ u.qty \in Nat \ {0}
    BY <1>1, <1>2 DEF Engine!RejectUnknown
  <1>4. PICK i : \/ Engine!Reduce(Id(u), i, Id(u)[2], u.qty)
                 \/ Engine!Replace(Id(u), i, Id(u)[2], u.qty)
    BY <1>1, <1>2, <1>3
  <1>5. CASE Engine!Reduce(Id(u), i, Id(u)[2], u.qty)
    <2>1. Becomes(Id(u), u.qty) /\ UNCHANGED <<pc, taker>>
      BY <1>2, <1>3, <1>5, ReduceSets
    <2>2. tracked' = IF u.qty = 0 THEN tracked \ {Id(u)} ELSE tracked \cup {Id(u)}
      BY <1>1, <1>3
    <2> QED
      BY <1>1, <2>1, <2>2, SetToGoal
  <1>6. CASE Engine!Replace(Id(u), i, Id(u)[2], u.qty)
    <2>1. /\ Becomes(Id(u), 0) /\ ~(u.qty <= Depth(Id(u)))
          /\ pc' = "match"
          /\ taker' = [kind |-> "modify", id |-> Id(u), participant |-> "mirror",
                       side |-> Id(u)[1], price |-> Id(u)[2], remaining |-> u.qty]
      BY <1>2, <1>6, ReplaceEmpties
    <2>2. call # "pass1" /\ tracked' = tracked \cup {Id(u)}
      BY <1>1, <1>2, <2>1
    <2> QED
      BY <1>1, <1>2, <2>1, <2>2, SetInFlight
  <1> QED
    BY <1>4, <1>5, <1>6

\* As long as nothing trades, an order that is in flight comes to rest.
LEMMA RestsOrTrades ==
    ASSUME NEW g, Follows(g), Engine!Continue, NoSelfMatch' PROVE Engine!Rest
  <1>1. pc \in {"idle", "match"}
    BY DEF Follows, CallInProgress
  <1>2. pc = "match"
    BY <1>1 DEF Engine!Continue, Engine!StpCancelIncoming, Engine!StpCancelResting, Engine!Trade,
           Engine!RemoveFilled, Engine!FullyMatched, Engine!DropRemainder, Engine!Rest,
           Engine!LoopEnds, Engine!Matching
  <1>3. taker.kind \in {"GTC", "modify"} /\ taker.remaining \in Nat \ {0}
    BY <1>2 DEF Follows, CallInProgress
  <1>4. ~Engine!FullyMatched /\ ~Engine!DropRemainder
    BY <1>3 DEF Engine!FullyMatched, Engine!DropRemainder
  <1>5. \A p \in Price : ~Engine!StpCancelIncoming(p) /\ ~Engine!StpCancelResting(p)
    BY DEF Engine!StpCancelIncoming, Engine!StpCancelResting
  <1>6. \A p \in Price : ~Engine!RemoveFilled(p)
    BY <1>2 DEF Engine!RemoveFilled
  <1>7. ASSUME NEW p \in Price, Engine!Trade(p) PROVE FALSE
    <2> DEFINE maker == Engine!Oldest(p)
               fill  == IF taker.remaining < maker.remaining THEN taker.remaining
                                                             ELSE maker.remaining
    <2>1. Engine!Facing \in Side /\ book[Engine!Facing][p] # <<>>
      BY <1>7 DEF Engine!Trade, Engine!Matching, Engine!IsBest, Engine!Levels, Engine!Facing,
                  Engine!Opposite, Side
    <2>2. book[Engine!Facing][p] \in Seq(Engine!Order)
      BY <2>1 DEF Follows, OneOrderPerLevel
    <2>3. maker \in Engine!Order
      BY <2>1, <2>2 DEF Engine!Oldest
    <2>4. maker.id \in Level /\ maker.remaining \in Nat
      BY <2>3 DEF Engine!Order
    <2>5. event' = Engine!Traded(taker, maker, p, fill)
      BY <1>7 DEF Engine!Trade
    <2>6. taker.id \in Level /\ taker.side \in Side
      BY <1>2 DEF Follows, CallInProgress
    <2> HIDE DEF maker
    <2>7. fill \in Nat
      BY <1>3, <2>4
    <2> HIDE DEF fill
    <2>8. event' # None /\ event'.type = "trade"
      BY <2>4, <2>5, <2>6, <2>7, NoEventAssumption DEF Engine!Traded
    <2> QED
      BY <2>8 DEF NoSelfMatch
  <1> QED
    BY <1>4, <1>5, <1>6, <1>7 DEF Engine!Continue

LEMMA EngineRunsOK ==
    ASSUME NEW g \in Books, Follows(g), EngineRuns, NoSelfMatch' PROVE Follows(g)'
  <1> DEFINE l0 == taker.id
             q == taker.remaining
  <1>1. Engine!Rest /\ UNCHANGED mirrorVars
    BY RestsOrTrades DEF EngineRuns
  <1>2. OneOrderPerLevel /\ CallInProgress(g)
    BY DEF Follows
  <1>3. pc = "match" /\ pc' = "idle" /\ Becomes(l0, q)
    BY <1>1, <1>2, RestSets
  <1>4. /\ call \in {"snapshot", "pass2"} /\ l0 \in Level /\ q \in Nat \ {0} /\ q = Goal(g, l0)
    BY <1>2, <1>3 DEF CallInProgress
  <1>5. tracked' = tracked /\ call' = call /\ updates' = updates /\ todo' = todo
    BY <1>1 DEF mirrorVars
  <1>6. InFlight = {l0} /\ InFlight' = {} /\ CallInProgress(g)'
    BY <1>3 DEF InFlight, CallInProgress
  <1> HIDE DEF l0, q
  <1>7. OneOrderPerLevel' /\ \A l \in Level : Depth(l)' = IF l = l0 THEN q ELSE Depth(l)
    BY <1>3 DEF Becomes
  <1>8. tracked' = {l \in Level : Depth(l)' > 0} \cup InFlight'
    <2>1. q > 0
      BY <1>4
    <2> QED
      BY <1>4, <1>5, <1>6, <1>7, <2>1 DEF Follows
  <1>9. Tells(updates, g)' /\ Tells(todo, g)'
    BY <1>5 DEF Follows, Tells
  <1>10. \A l \in Level \ Pending' : Depth(l)' = Goal(g, l)
    <2>1. Pending = Named(todo) \cup {l0} /\ Pending' = Named(todo)
      BY <1>4, <1>5, <1>6 DEF Pending, Named
    <2> QED
      BY <1>4, <1>7, <2>1 DEF Follows
  <1>11. \A l \in Level : ~(Depth(l)' > Goal(g, l))
    <2>1. ~(q > Goal(g, l0))
      BY <1>4
    <2> QED
      BY <1>4, <1>7, <2>1 DEF Follows
  <1> QED
    BY <1>3, <1>4, <1>5, <1>6, <1>7, <1>8, <1>9, <1>10, <1>11 DEF Follows

\* The first pass leaves no level above the exchange's; the second leaves none pending.
LEMMA EndLoopOK == ASSUME NEW g \in Books, Follows(g), EndLoop PROVE Follows(g)'
  <1>1. /\ call # "idle" /\ pc = "idle" /\ todo = <<>>
        /\ call' = IF call = "pass1" THEN "pass2" ELSE "idle"
        /\ todo' = IF call = "pass1" THEN updates ELSE <<>>
        /\ UNCHANGED <<engineVars, tracked, updates>>
    BY DEF EndLoop
  <1>2. CallInProgress(g)' /\ InFlight = {} /\ InFlight' = {} /\ pc' = "idle"
    BY <1>1 DEF CallInProgress, InFlight, engineVars
  <1>3. OneOrderPerLevel' /\ \A l : Depth(l)' = Depth(l)
    BY <1>1 DEF OneOrderPerLevel, Depth, Stands, engineVars, Follows
  <1>4. tracked' = {l \in Level : Depth(l)' > 0} \cup InFlight'
    BY <1>1, <1>2, <1>3 DEF Follows
  <1>5. /\ todo' \in Seq(Update) /\ Tells(todo, g)' /\ Tells(updates, g)'
    BY <1>1 DEF Follows, Tells
  <1>6. Named(todo) = {}
    BY <1>1 DEF Named
  <1>7. Pending \subseteq Pending'
    <2>1. CASE call = "pass1"
      BY <1>1, <2>1 DEF Pending, Named
    <2>2. CASE call # "pass1"
      BY <1>1, <1>2, <1>6, <2>2 DEF Pending
    <2> QED
      BY <2>1, <2>2
  <1>8. \A l \in Level \ Pending' : Depth(l)' = Goal(g, l)
    BY <1>3, <1>7 DEF Follows
  <1>9. \A l \in Level : ~(Depth(l)' > Goal(g, l))
    BY <1>3, <1>6 DEF Follows
  <1> QED
    BY <1>1, <1>2, <1>3, <1>4, <1>5, <1>8, <1>9 DEF Follows

\* The mirror keeps on its way as long as it does not trade with itself, and it never
\* does on the way to a book that is not crossed.
LEMMA MirrorRunsOK ==
    ASSUME NEW g \in Books, Follows(g), MirrorRuns, NoSelfMatch' PROVE Follows(g)'
  <1>1. ASSUME NEW u \in Update, NothingToDo(u) \/ AddLevel(u) \/ RemoveLevel(u) \/ SetLevel(u)
        PROVE  Follows(g)'
    BY <1>1, NothingToDoOK, AddLevelOK, RemoveLevelOK, SetLevelOK
  <1> QED
    BY <1>1, SkipOK, EngineRunsOK, EndLoopOK DEF MirrorRuns

LEMMA MirrorIsQuiet ==
    ASSUME NEW g \in Books, Follows(g), Uncrossed(g), NoSelfMatch, MirrorRuns PROVE NoSelfMatch'
  <1>1. CASE EngineRuns
    <2>1. Engine!Rest
      BY <1>1, OnlyRests DEF EngineRuns
    <2> QED
      BY <2>1 DEF NoSelfMatch, Engine!Rest
  <1>2. CASE UNCHANGED event
    BY <1>2 DEF NoSelfMatch
  <1>3. CASE Skip \/ EndLoop
    BY <1>2, <1>3 DEF Skip, EndLoop, engineVars
  <1>4. ASSUME NEW u \in Update, NothingToDo(u) PROVE NoSelfMatch'
    BY <1>2, <1>4 DEF NothingToDo, engineVars
  <1>5. ASSUME NEW u \in Update, AddLevel(u) PROVE NoSelfMatch'
    BY <1>5 DEF AddLevel, Engine!AddLimit, Engine!Accepted, NoSelfMatch
  <1>6. ASSUME NEW u, Engine!RejectUnknown(u) PROVE NoSelfMatch'
    BY <1>6 DEF Engine!RejectUnknown, Engine!Rejected, NoSelfMatch
  <1>7. ASSUME NEW u \in Update, RemoveLevel(u) PROVE NoSelfMatch'
    <2>1. ASSUME NEW i, Engine!Cancel(Id(u), i) PROVE NoSelfMatch'
      BY <2>1 DEF Engine!Cancel, Engine!Cancelled, NoSelfMatch
    <2> QED
      BY <1>6, <1>7, <2>1 DEF RemoveLevel
  <1>8. ASSUME NEW u \in Update, SetLevel(u) PROVE NoSelfMatch'
    <2>1. ASSUME NEW i, Engine!Reduce(Id(u), i, u.price, u.qty) PROVE NoSelfMatch'
      BY <2>1 DEF Engine!Reduce, NoSelfMatch
    <2>2. ASSUME NEW i, Engine!Replace(Id(u), i, u.price, u.qty) PROVE NoSelfMatch'
      BY <2>2 DEF Engine!Replace, NoSelfMatch
    <2> QED
      BY <1>6, <1>8, <2>1, <2>2, SMTT(60) DEF SetLevel
  <1> QED
    BY <1>1, <1>3, <1>4, <1>5, <1>7, <1>8 DEF MirrorRuns

LEMMA MirrorStands ==
    ASSUME NEW g \in Books, Follows(g), UNCHANGED <<engineVars, mirrorVars>> PROVE Follows(g)'
  <1>1. /\ book' = book /\ live' = live /\ pc' = pc /\ taker' = taker
        /\ tracked' = tracked /\ call' = call /\ updates' = updates /\ todo' = todo
    BY SMTT(60) DEF engineVars, mirrorVars
  <1>2. OneOrderPerLevel' /\ \A l : Depth(l)' = Depth(l)
    BY <1>1 DEF OneOrderPerLevel, Depth, Stands, Follows
  <1>3. CallInProgress(g)' /\ InFlight' = InFlight /\ Pending' = Pending
    BY <1>1 DEF Follows, CallInProgress, InFlight, Pending, Named, Depth
  <1>4. Tells(updates, g)' /\ Tells(todo, g)' /\ Named(todo)' = Named(todo)
    BY <1>1 DEF Follows, Tells, Named
  <1> QED
    BY <1>1, <1>2, <1>3, <1>4 DEF Follows

\* Between calls the mirror is there, and its ids are the live ones.
LEMMA MirrorArrives ==
    ASSUME NEW g \in Books, Follows(g)
    PROVE  /\ call = "idle" => \A side \in Side, p \in Price : DepthAt(side, p) = g[side][p]
           /\ pc = "idle" => tracked = {l \in Level : live[l] # None}
  <1>1. ASSUME call = "idle", NEW side \in Side, NEW p \in Price
        PROVE  DepthAt(side, p) = g[side][p]
    <2> DEFINE l == <<side, p>>
    <2>1. l \in Level
      BY DEF Level
    <2>2. Depth(l) = Goal(g, l)
      BY <1>1, <2>1 DEF Follows, Pending
    <2>3. DepthAt(l[1], l[2]) = Depth(l)
      BY <2>1, LiveIsDeep DEF Follows
    <2> QED
      BY <2>2, <2>3 DEF Goal
  <1>2. ASSUME pc = "idle" PROVE tracked = {l \in Level : live[l] # None}
    <2>1. tracked = {l \in Level : Depth(l) > 0}
      BY <1>2 DEF Follows, InFlight
    <2>2. \A l \in Level : Depth(l) \in Nat /\ (live[l] = None <=> Depth(l) = 0)
      BY LiveIsDeep DEF Follows, OneOrderPerLevel
    <2> QED
      BY <2>1, <2>2
  <1> QED
    BY <1>1, <1>2

-----------------------------------------------------------------------------
(* Behind an exchange                                                      *)

MirroredInv == /\ windowBook \in ExchangeBook
               /\ Follows(windowBook) /\ NoSelfMatch

LEMMA MirroredInitOK == MirroredInit => MirroredInv
  <1> SUFFICES ASSUME MirroredInit PROVE MirroredInv
    OBVIOUS
  <1>1. MirrorInit /\ windowBook = NoLevels
    BY DEF MirroredInit, NoLevels
  <1>2. windowBook \in ExchangeBook
    BY <1>1, QtyAssumption DEF ExchangeBook, Uncrossed, Side, NoLevels
  <1> QED
    BY <1>1, <1>2, MirrorInitOK DEF MirroredInv

\* A call begins with a record that names every level that differs.
LEMMA MirrorStarts ==
    ASSUME MirroredInv, NEW new \in ExchangeBook, NEW us \in Seq(Update), Tells(us, new),
           NEW name \in {"snapshot", "pass1"}, Start(name, us), windowBook' = new,
           name = "snapshot" => \A l \in Level : Depth(l) = 0,
           \A l \in Level \ Named(us) : windowBook[l[1]][l[2]] = new[l[1]][l[2]]
    PROVE  MirroredInv'
  <1>1. windowBook \in Books /\ new \in Books
    BY DEF MirroredInv, ExchangeBook, Books
  <1>2. Follows(new)'
    <2> SUFFICES ASSUME NEW g, g = windowBook PROVE Follows(new)'
      OBVIOUS
    <2> QED
      BY <1>1, StartOK DEF MirroredInv
  <1>3. Follows(windowBook)'
    BY <1>2 DEF Follows, CallInProgress, Tells, Goal
  <1>4. NoSelfMatch'
    BY DEF MirroredInv, NoSelfMatch, Start, engineVars
  <1> QED
    BY <1>3, <1>4 DEF MirroredInv

LEMMA SnapshotOK == ASSUME MirroredInv, Snapshot PROVE MirroredInv'
  <1> DEFINE old == windowBook
  <1> PICK new \in ExchangeBook : \E us \in Listings(new, Listed(new)) :
          Start("snapshot", us) /\ windowBook' = new
    BY DEF Snapshot, ApplySnapshot
  <1>1. PICK us \in Listings(new, Listed(new)) : Start("snapshot", us) /\ windowBook' = new
    OBVIOUS
  <1>2. Follows(old) /\ old \in Books /\ new \in Books
    BY DEF MirroredInv, ExchangeBook, Books
  <1>3. \A l \in Level : Depth(l) = 0
    BY <1>2 DEF Follows, OneOrderPerLevel, Snapshot
  <1>4. \A l \in Level : old[l[1]][l[2]] = 0
    BY <1>1, <1>2, <1>3 DEF Follows, Pending, Start, Goal
  <1>5. Listed(new) \in SUBSET Level
    BY DEF Listed
  <1>6. us \in Seq(Update) /\ Named(us) = Listed(new) /\ Tells(us, new)
    BY <1>5, ListingTells
  <1>7. ASSUME NEW l \in Level \ Listed(new) PROVE new[l[1]][l[2]] = 0
    <2>1. l[1] \in Side /\ l[2] \in Price
      BY DEF Level
    <2>2. new[l[1]][l[2]] \in Nat
      BY <1>2, <2>1, QtyAssumption DEF Books
    <2>3. ~(new[l[1]][l[2]] > 0)
      BY <1>7 DEF Listed
    <2> QED
      BY <2>2, <2>3
  <1> QED
    BY <1>1, <1>2, <1>3, <1>4, <1>6, <1>7, MirrorStarts

LEMMA WindowOK == ASSUME MirroredInv, Window PROVE MirroredInv'
  <1> PICK new \in ExchangeBook : \E same \in SUBSET (Level \ Differing(windowBook, new)) :
          \E us \in Listings(new, Differing(windowBook, new) \cup same) :
              Start("pass1", us) /\ windowBook' = new
    BY DEF Window, ApplyDiff
  <1> PICK same \in SUBSET (Level \ Differing(windowBook, new)) :
          \E us \in Listings(new, Differing(windowBook, new) \cup same) :
              Start("pass1", us) /\ windowBook' = new
    OBVIOUS
  <1> DEFINE touched == Differing(windowBook, new) \cup same
  <1>1. PICK us \in Listings(new, touched) : Start("pass1", us) /\ windowBook' = new
    OBVIOUS
  <1>2. touched \in SUBSET Level
    BY DEF Differing
  <1>3. \A l \in Level \ touched : windowBook[l[1]][l[2]] = new[l[1]][l[2]]
    BY DEF Differing
  <1>4. us \in Seq(Update) /\ Named(us) = touched /\ Tells(us, new)
    BY <1>2, ListingTells
  <1> QED
    BY <1>1, <1>3, <1>4, MirrorStarts

LEMMA MirrorTurnOK == ASSUME MirroredInv, MirrorTurn PROVE MirroredInv'
  <1> SUFFICES ASSUME NEW g, g = windowBook, g = windowBook' PROVE MirroredInv'
    BY DEF MirrorTurn
  <1>1. g \in Books /\ Uncrossed(g) /\ Follows(g) /\ NoSelfMatch /\ MirrorRuns
    BY DEF MirroredInv, ExchangeBook, Books, MirrorTurn
  <1>2. NoSelfMatch'
    BY <1>1, MirrorIsQuiet
  <1>3. Follows(g)'
    BY <1>1, <1>2, MirrorRunsOK
  <1>4. Follows(windowBook)'
    BY <1>3 DEF Follows, CallInProgress, Tells, Goal
  <1> QED
    BY <1>2, <1>4 DEF MirroredInv

LEMMA MirroredStutterOK == ASSUME MirroredInv, UNCHANGED mirroredVars PROVE MirroredInv'
  <1> SUFFICES ASSUME NEW g, g = windowBook, g = windowBook' PROVE MirroredInv'
    BY DEF mirroredVars
  <1>1. g \in Books /\ Follows(g) /\ UNCHANGED <<engineVars, mirrorVars>>
    BY DEF MirroredInv, ExchangeBook, Books, mirroredVars
  <1>2. Follows(g)'
    BY <1>1, MirrorStands
  <1>3. Follows(windowBook)'
    BY <1>2 DEF Follows, CallInProgress, Tells, Goal
  <1>4. NoSelfMatch'
    BY <1>1 DEF MirroredInv, NoSelfMatch, engineVars
  <1> QED
    BY <1>3, <1>4 DEF MirroredInv

\* Every step of the exchange and of the mirror keeps the invariant.
THEOREM MirroredInductive == MirroredSpec => []MirroredInv
  <1>1. MirroredInv /\ [MirroredNext]_mirroredVars => MirroredInv'
    BY SnapshotOK, WindowOK, MirrorTurnOK, MirroredStutterOK DEF MirroredNext
  <1> QED
    BY <1>1, MirroredInitOK, PTL DEF MirroredSpec

-----------------------------------------------------------------------------
(* Theorems                                                                *)

\* The mirror never trades with itself: while it only takes away, no call can match;
\* once it adds, no level of its own is above the exchange's, which is not crossed.
THEOREM MirrorNeverMatches == MirroredSpec => []NoSelfMatch
  <1>1. MirroredInv => NoSelfMatch
    BY DEF MirroredInv
  <1> QED
    BY <1>1, MirroredInductive, PTL

\* Between the calls of the engine the mirror's ids are exactly the live ones: no
\* update is lost in a call that the engine rejects.
THEOREM TrackedStaysLive == MirroredSpec => []TrackedIsLive
  <1>1. MirroredInv => TrackedIsLive
    BY MirrorArrives DEF MirroredInv, ExchangeBook, Books, TrackedIsLive
  <1> QED
    BY <1>1, MirroredInductive, PTL

\* Between calls the mirrored depth is the exchange's at every level, whatever the
\* windows changed and in whatever order their records listed the levels.
THEOREM MirrorFollowsExchange == MirroredSpec => []MirrorEqualsExchange
  <1>1. MirroredInv => MirrorEqualsExchange
    BY MirrorArrives DEF MirroredInv, ExchangeBook, Books, MirrorEqualsExchange
  <1> QED
    BY <1>1, MirroredInductive, PTL

-----------------------------------------------------------------------------
(* The levels of a diff                                                    *)

\* A list of some prices of a side, each once, with the quantities of a book.
Lists(us, levels, side, prices) ==
    /\ us \in Seq(Update) /\ Len(us) = Cardinality(prices) /\ Cardinality(prices) \in Nat
    /\ \A i \in DOMAIN us : /\ us[i].side = side /\ us[i].price \in prices
                            /\ us[i].qty = levels[side][us[i].price]
    /\ \A p \in prices : \E i \in DOMAIN us : us[i].price = p

\* A ladder lists each of its prices, and lists nothing else.
LEMMA LadderLists ==
    ASSUME NEW levels \in Books, NEW side \in Side, NEW prices \in SUBSET Price
    PROVE  Lists(Ladder(levels, side, prices), levels, side, prices)
  <1> DEFINE n == Cardinality(prices)
             Ahead(p) == {q \in prices : Engine!Better(side, q, p)}
             rank == [p \in prices |-> Cardinality(Ahead(p)) + 1]
             Ranked(i) == CHOOSE p \in prices : Cardinality(Ahead(p)) = i - 1
             At(p) == [side |-> side, price |-> p, qty |-> levels[side][p]]
             ladder == [i \in 1 .. n |-> At(Ranked(i))]
  <1>1. prices \subseteq Int /\ IsFiniteSet(prices) /\ n \in Nat
    BY PriceAssumption, FS_Subset, FS_CardinalityType
  <1>2. \A p \in prices : IsFiniteSet(Ahead(p)) /\ Cardinality(Ahead(p)) \in 0 .. (n - 1)
    <2> SUFFICES ASSUME NEW p \in prices
                 PROVE  IsFiniteSet(Ahead(p)) /\ Cardinality(Ahead(p)) \in 0 .. (n - 1)
      OBVIOUS
    <2>1. Ahead(p) \in SUBSET prices /\ p \notin Ahead(p)
      BY <1>1 DEF Engine!Better
    <2>2. IsFiniteSet(Ahead(p)) /\ Cardinality(Ahead(p)) <= n /\ Cardinality(Ahead(p)) # n
      BY <1>1, <2>1, FS_Subset
    <2> QED
      BY <1>1, <2>2, FS_CardinalityType
  <1>3. \A p, q \in prices : rank[p] = rank[q] => p = q
    <2>0. \A p, q \in prices : p = q \/ Engine!Better(side, p, q) \/ Engine!Better(side, q, p)
      BY <1>1 DEF Engine!Better
    <2> SUFFICES ASSUME NEW p \in prices, NEW q \in prices, Engine!Better(side, p, q)
                 PROVE  rank[p] # rank[q]
      <3> HIDE DEF rank
      <3> QED
        BY <2>0
    <2>1. Ahead(p) \in SUBSET Ahead(q) /\ p \in Ahead(q) /\ p \notin Ahead(p)
      <3>1. \A x \in prices : Engine!Better(side, x, p) => Engine!Better(side, x, q)
        BY <1>1 DEF Engine!Better
      <3>2. ~Engine!Better(side, p, p)
        BY <1>1 DEF Engine!Better
      <3> QED
        BY <3>1, <3>2
    <2>2. Cardinality(Ahead(p)) # Cardinality(Ahead(q))
      BY <1>2, <2>1, FS_Subset
    <2>3. Cardinality(Ahead(p)) \in Nat /\ Cardinality(Ahead(q)) \in Nat
      BY <1>1, <1>2
    <2> HIDE DEF Ahead
    <2> QED
      BY <2>2, <2>3
  <1>4. rank \in [prices -> 1 .. n]
    BY <1>1, <1>2
  <1>5. \A i \in 1 .. n : \E p \in prices : rank[p] = i
    <2>1. rank \in Injection(prices, 1 .. n)
      BY <1>3, <1>4 DEF Injection, IsInjective
    <2>2. IsFiniteSet(1 .. n) /\ Cardinality(1 .. n) = n
      BY <1>1, FS_Interval
    <2>3. rank \in Surjection(prices, 1 .. n)
      BY <2>1, <2>2, FS_Injection
    <2> QED
      BY <2>3 DEF Surjection
  <1>6. \A i \in 1 .. n : Ranked(i) \in prices /\ rank[Ranked(i)] = i
    <2> SUFFICES ASSUME NEW i \in 1 .. n
                 PROVE  Ranked(i) \in prices /\ rank[Ranked(i)] = i
      OBVIOUS
    <2>1. PICK p \in prices : rank[p] = i
      BY <1>5
    <2>2. Cardinality(Ahead(p)) \in Nat /\ rank[p] = Cardinality(Ahead(p)) + 1
      BY <1>1, <1>2
    <2>3. Cardinality(Ahead(p)) = i - 1
      <3> HIDE DEF rank, Ahead
      <3> QED
        BY <2>1, <2>2
    <2>4. Ranked(i) \in prices /\ Cardinality(Ahead(Ranked(i))) = i - 1
      BY <2>3
    <2>5. rank[Ranked(i)] = Cardinality(Ahead(Ranked(i))) + 1
      BY <2>4
    <2> HIDE DEF Ranked, rank, Ahead
    <2> QED
      BY <2>4, <2>5
  <1>7. Ladder(levels, side, prices) = ladder
    BY DEF Ladder
  <1>8. \A i \in 1 .. n : At(Ranked(i)) \in Update
    BY <1>6 DEF Books, Update
  <1>9. ladder \in Seq(Update) /\ DOMAIN ladder = 1 .. n /\ Len(ladder) = n
    <2> HIDE DEF At, Ranked
    <2> QED
      BY <1>1, <1>8
  <1>10. \A p \in prices : \E i \in DOMAIN ladder : ladder[i].price = p
    <2> SUFFICES ASSUME NEW p \in prices PROVE ladder[rank[p]].price = p /\ rank[p] \in 1 .. n
      BY <1>9
    <2>1. rank[p] \in 1 .. n
      BY <1>4
    <2>2. Ranked(rank[p]) = p
      BY <1>3, <1>6, <2>1
    <2> QED
      BY <2>1, <2>2
  <1>11. \A i \in DOMAIN ladder : /\ ladder[i].side = side /\ ladder[i].price \in prices
                                  /\ ladder[i].qty = levels[side][ladder[i].price]
    <2> SUFFICES ASSUME NEW i \in 1 .. n
                 PROVE  /\ ladder[i].side = side /\ ladder[i].price \in prices
                        /\ ladder[i].qty = levels[side][ladder[i].price]
      BY <1>9
    <2>1. Ranked(i) \in prices
      BY <1>6
    <2>2. ladder[i] = At(Ranked(i))
      OBVIOUS
    <2> HIDE DEF ladder, Ranked
    <2> QED
      BY <2>1, <2>2
  <1> HIDE DEF ladder
  <1> QED
    BY <1>1, <1>7, <1>9, <1>10, <1>11 DEF Lists

-----------------------------------------------------------------------------
(* The tokens of a line                                                    *)

Tokens == {Capture!Token(name) : name \in {"type", "b", "[", "a", "torn"}}
              \cup {Capture!Number(name, n) : name \in {"U", "u"}, n \in Nat}
              \cup {Capture!Entry(u) : u \in Update}

\* The first sequence of a concatenation, and the second behind it.
LEMMA Concatenation ==
    ASSUME NEW S, NEW s \in Seq(S), NEW t \in Seq(S)
    PROVE  /\ s \o t \in Seq(S) /\ Len(s \o t) = Len(s) + Len(t)
           /\ \A i \in 1 .. Len(s) : (s \o t)[i] = s[i]
           /\ \A i \in 1 .. Len(t) : (s \o t)[Len(s) + i] = t[i]
  <1>1. Len(s) \in Nat /\ Len(t) \in Nat
    BY LenProperties
  <1>2. \A i \in 1 .. Len(s) + Len(t) :
           (s \o t)[i] = IF i <= Len(s) THEN s[i] ELSE t[i - Len(s)]
    BY ConcatProperties
  <1>3. ASSUME NEW i \in 1 .. Len(t)
        PROVE  (s \o t)[Len(s) + i] = t[i]
    <2>1. Len(s) + i \in 1 .. Len(s) + Len(t) /\ ~(Len(s) + i <= Len(s)) /\ (Len(s) + i) - Len(s) = i
      BY <1>1
    <2> QED
      BY <1>2, <2>1
  <1>4. \A i \in 1 .. Len(s) : (s \o t)[i] = s[i]
    BY <1>1, <1>2
  <1>5. s \o t \in Seq(S) /\ Len(s \o t) = Len(s) + Len(t)
    BY ConcatProperties
  <1> QED
    BY <1>3, <1>4, <1>5

\* The token at each place of a diff line.
LEMMA LineTokens ==
    ASSUME NEW first \in Nat, NEW last \in Nat, NEW bids \in Seq(Update), NEW asks \in Seq(Update)
    PROVE  LET line == Capture!DiffLine(first, last, bids, asks)
               m == Len(bids)
           IN  /\ line \in Seq(Tokens) /\ Len(line) = 7 + m + Len(asks)
               /\ line[1] = Capture!Token("type")
               /\ line[2] = Capture!Number("U", first) /\ line[3] = Capture!Number("u", last)
               /\ line[4] = Capture!Token("b") /\ line[5] = Capture!Token("[")
               /\ \A i \in 1 .. m : line[5 + i] = Capture!Entry(bids[i])
               /\ line[6 + m] = Capture!Token("a") /\ line[7 + m] = Capture!Token("[")
               /\ \A i \in 1 .. Len(asks) : line[7 + m + i] = Capture!Entry(asks[i])
  <1> DEFINE Entries(us) == [i \in DOMAIN us |-> Capture!Entry(us[i])]
             head  == <<Capture!Token("type"), Capture!Number("U", first), Capture!Number("u", last)>>
             openB == <<Capture!Token("b"), Capture!Token("[")>>
             openA == <<Capture!Token("a"), Capture!Token("[")>>
             m == Len(bids)
             k == Len(asks)
             s1 == head \o openB
             s2 == s1 \o Entries(bids)
             s3 == s2 \o openA
             s4 == s3 \o Entries(asks)
  <1>1. Capture!DiffLine(first, last, bids, asks) = s4
    BY DEF Capture!DiffLine
  <1>2. /\ Capture!Token("type") \in Tokens /\ Capture!Token("b") \in Tokens
        /\ Capture!Token("a") \in Tokens /\ Capture!Token("[") \in Tokens
        /\ Capture!Number("U", first) \in Tokens /\ Capture!Number("u", last) \in Tokens
        /\ \A u \in Update : Capture!Entry(u) \in Tokens
    BY DEF Tokens
  <1>3. /\ head \in Seq(Tokens) /\ Len(head) = 3
        /\ head[1] = Capture!Token("type") /\ head[2] = Capture!Number("U", first)
        /\ head[3] = Capture!Number("u", last)
    BY <1>2
  <1>4. /\ openB \in Seq(Tokens) /\ Len(openB) = 2
        /\ openB[1] = Capture!Token("b") /\ openB[2] = Capture!Token("[")
    BY <1>2
  <1>5. /\ openA \in Seq(Tokens) /\ Len(openA) = 2
        /\ openA[1] = Capture!Token("a") /\ openA[2] = Capture!Token("[")
    BY <1>2
  <1>6. ASSUME NEW us \in Seq(Update)
        PROVE  /\ Entries(us) \in Seq(Tokens) /\ Len(Entries(us)) = Len(us)
               /\ \A i \in 1 .. Len(us) : Entries(us)[i] = Capture!Entry(us[i])
    <2>1. Len(us) \in Nat /\ DOMAIN us = 1 .. Len(us) /\ \A i \in 1 .. Len(us) : us[i] \in Update
      BY LenProperties, ElementOfSeq
    <2>2. \A i \in 1 .. Len(us) : Capture!Entry(us[i]) \in Tokens
      BY <1>2, <2>1
    <2> QED
      BY <2>1, <2>2
  <1>7. m \in Nat /\ k \in Nat
    BY LenProperties
  <1> HIDE DEF head, openB, openA, Entries, m, k
  <1>8. /\ s1 \in Seq(Tokens) /\ Len(s1) = 5
        /\ \A i \in 1 .. 3 : s1[i] = head[i]
        /\ \A i \in 1 .. 2 : s1[3 + i] = openB[i]
    <2>1. head \in Seq(Tokens) /\ openB \in Seq(Tokens)
      BY <1>3, <1>4
    <2>2. /\ s1 \in Seq(Tokens) /\ Len(s1) = Len(head) + Len(openB)
          /\ \A i \in 1 .. Len(head) : s1[i] = head[i]
          /\ \A i \in 1 .. Len(openB) : s1[Len(head) + i] = openB[i]
      BY <2>1, Concatenation
    <2> HIDE DEF s1
    <2> QED
      BY <1>3, <1>4, <2>2
  <1> HIDE DEF s1
  <1>9. /\ s2 \in Seq(Tokens) /\ Len(s2) = 5 + m
        /\ \A i \in 1 .. 5 : s2[i] = s1[i]
        /\ \A i \in 1 .. m : s2[5 + i] = Entries(bids)[i]
    <2>1. s1 \in Seq(Tokens) /\ Entries(bids) \in Seq(Tokens)
      BY <1>6, <1>8
    <2>2. /\ s2 \in Seq(Tokens) /\ Len(s2) = Len(s1) + Len(Entries(bids))
          /\ \A i \in 1 .. Len(s1) : s2[i] = s1[i]
          /\ \A i \in 1 .. Len(Entries(bids)) : s2[Len(s1) + i] = Entries(bids)[i]
      BY <2>1, Concatenation
    <2>3. Len(Entries(bids)) = m
      BY <1>6 DEF m
    <2> HIDE DEF s2
    <2> QED
      BY <1>8, <2>2, <2>3
  <1> HIDE DEF s2
  <1>10. /\ s3 \in Seq(Tokens) /\ Len(s3) = 7 + m
         /\ \A i \in 1 .. 5 + m : s3[i] = s2[i]
         /\ \A i \in 1 .. 2 : s3[5 + m + i] = openA[i]
    <2>1. s2 \in Seq(Tokens) /\ openA \in Seq(Tokens)
      BY <1>5, <1>9
    <2>2. /\ s3 \in Seq(Tokens) /\ Len(s3) = Len(s2) + Len(openA)
          /\ \A i \in 1 .. Len(s2) : s3[i] = s2[i]
          /\ \A i \in 1 .. Len(openA) : s3[Len(s2) + i] = openA[i]
      BY <2>1, Concatenation
    <2> HIDE DEF s3
    <2> QED
      BY <1>5, <1>7, <1>9, <2>2
  <1> HIDE DEF s3
  <1>11. /\ s4 \in Seq(Tokens) /\ Len(s4) = 7 + m + k
         /\ \A i \in 1 .. 7 + m : s4[i] = s3[i]
         /\ \A i \in 1 .. k : s4[7 + m + i] = Entries(asks)[i]
    <2>1. s3 \in Seq(Tokens) /\ Entries(asks) \in Seq(Tokens)
      BY <1>6, <1>10
    <2>2. /\ s4 \in Seq(Tokens) /\ Len(s4) = Len(s3) + Len(Entries(asks))
          /\ \A i \in 1 .. Len(s3) : s4[i] = s3[i]
          /\ \A i \in 1 .. Len(Entries(asks)) : s4[Len(s3) + i] = Entries(asks)[i]
      BY <2>1, Concatenation
    <2>3. Len(Entries(asks)) = k
      BY <1>6 DEF k
    <2> HIDE DEF s4
    <2> QED
      BY <1>10, <2>2, <2>3
  <1>12. /\ \A i \in 1 .. 5 : s4[i] = s1[i]
         /\ \A i \in 1 .. m : s4[5 + i] = Entries(bids)[i]
         /\ s4[6 + m] = openA[1] /\ s4[7 + m] = openA[2]
    <2> HIDE DEF s4
    <2>1. /\ \A i \in 1 .. 5 + m : i \in 1 .. 7 + m /\ s4[i] = s2[i]
          /\ s4[5 + m + 1] = openA[1] /\ s4[5 + m + 2] = openA[2]
      BY <1>7, <1>10, <1>11, SMTT(60)
    <2> QED
      BY <1>7, <1>9, <2>1
  <1> HIDE DEF s4
  <1>13. /\ \A i \in 1 .. m : Entries(bids)[i] = Capture!Entry(bids[i])
         /\ \A i \in 1 .. k : Entries(asks)[i] = Capture!Entry(asks[i])
    BY <1>6 DEF m, k
  <1> QED
    BY <1>1, <1>3, <1>4, <1>5, <1>8, <1>11, <1>12, <1>13, SMTT(60) DEF m, k

\* A line that was not written to its end: a part of the line, and perhaps a torn token.
LEMMA CutTokens ==
    ASSUME NEW line \in Seq(Tokens), NEW cut \in Capture!Cuts(line)
    PROVE  \E n \in 0 .. Len(line) :
              /\ cut \in Seq(Tokens)
              /\ \/ Len(cut) = n
                 \/ n < Len(line) /\ Len(cut) = n + 1 /\ cut[n + 1] = Capture!Torn
              /\ \A i \in 1 .. n : cut[i] = line[i]
  <1> DEFINE Part(n) == SubSeq(line, 1, n)
             written == {Part(n) : n \in 0 .. Len(line)}
  <1>1. Len(line) \in Nat
    BY LenProperties
  <1>2. ASSUME NEW n \in 0 .. Len(line)
        PROVE  Part(n) \in Seq(Tokens) /\ Len(Part(n)) = n /\ \A i \in 1 .. n : Part(n)[i] = line[i]
    <2>1. \A i \in 1 .. n : line[i] \in Tokens
      BY <1>1, ElementOfSeq
    <2> QED
      BY <1>1, <2>1, SubSeqProperties
  <1>3. cut \in written \cup {Append(w, Capture!Torn) : w \in written \ {line}}
    BY DEF Capture!Cuts
  <1> HIDE DEF Part
  <1>4. CASE cut \in written
    BY <1>2, <1>4
  <1>5. CASE cut \in {Append(w, Capture!Torn) : w \in written \ {line}}
    <2>1. PICK n \in 0 .. Len(line) : Part(n) # line /\ cut = Append(Part(n), Capture!Torn)
      BY <1>5
    <2>2. n < Len(line)
      BY <1>1, <2>1, SubSeqFull DEF Part
    <2>3. Capture!Torn \in Tokens
      BY DEF Tokens, Capture!Torn
    <2> QED
      BY <1>2, <2>1, <2>2, <2>3
  <1> QED
    BY <1>3, <1>4, <1>5

-----------------------------------------------------------------------------
(* The parser                                                              *)

\* Find returns the first place of a token, or zero.
LEMMA FindsFirst ==
    ASSUME NEW line \in Seq(Tokens), NEW name, NEW i \in 1 .. Len(line),
           line[i].name = name, \A j \in 1 .. Len(line) : j < i => line[j].name # name
    PROVE  Capture!Find(line, name) = i
  <1> DEFINE I == {j \in 1 .. Len(line) : line[j].name = name}
  <1>1. Capture!Find(line, name) = IF I # {} THEN Capture!Min(I) ELSE 0
    BY DEF Capture!Find, Capture!SelectInSeq
  <1>2. Len(line) \in Nat
    BY LenProperties
  <1>3. i \in I /\ \A j \in I : i <= j
    BY <1>2
  <1> HIDE DEF I
  <1>4. I \subseteq Int
    BY <1>2 DEF I
  <1>5. Capture!Min(I) = i
    <2>1. i \in Int /\ \A j \in I : j <= i => j = i
      BY <1>3, <1>4
    <2> QED
      BY <1>3, <1>4, <2>1 DEF Capture!Min
  <1> QED
    BY <1>1, <1>3, <1>5

LEMMA FindsNone ==
    ASSUME NEW line \in Seq(Tokens), NEW name, \A j \in 1 .. Len(line) : line[j].name # name
    PROVE  Capture!Find(line, name) = 0
  <1> DEFINE I == {j \in 1 .. Len(line) : line[j].name = name}
  <1>1. Capture!Find(line, name) = IF I # {} THEN Capture!Min(I) ELSE 0
    BY DEF Capture!Find, Capture!SelectInSeq
  <1>2. I = {}
    OBVIOUS
  <1> QED
    BY <1>1, <1>2

\* The levels behind a key: those up to the first token that is none.
LEMMA LevelsUpTo ==
    ASSUME NEW line \in Seq(Tokens), NEW key, NEW open \in 2 .. Len(line),
           Capture!Find(line, key) = open - 1, line[open].name = "[",
           NEW last \in open .. Len(line),
           \A i \in (open + 1) .. last : line[i].name = "level",
           last < Len(line) => line[last + 1].name # "level"
    PROVE  Capture!ParseLevels(line, key) =
              IF last < Len(line) /\ line[last + 1].name = "torn" THEN None
              ELSE [i \in 1 .. (last - open) |-> line[open + i].update]
  <1> DEFINE list == {n \in open .. Len(line) :
                         \A i \in (open + 1) .. n : Capture!IsAt(line, i, "level")}
             end == CHOOSE n \in list : n + 1 \notin list
  <1>1. Len(line) \in Nat /\ DOMAIN line = 1 .. Len(line)
    BY LenProperties
  <1>2. list = open .. last
    <2>1. \A n \in open .. last : n \in list
      BY <1>1 DEF Capture!IsAt
    <2>2. \A n \in open .. Len(line) : n > last => n \notin list
      <3> SUFFICES ASSUME NEW n \in open .. Len(line), n > last, n \in list PROVE FALSE
        OBVIOUS
      <3>1. last + 1 \in (open + 1) .. n /\ last < Len(line)
        BY <1>1
      <3>2. Capture!IsAt(line, last + 1, "level")
        BY <3>1
      <3> QED
        BY <3>1, <3>2 DEF Capture!IsAt
    <2>3. list \subseteq open .. Len(line)
      OBVIOUS
    <2> HIDE DEF list
    <2>4. ASSUME NEW n \in list PROVE n \in open .. last
      BY <1>1, <2>2, <2>3
    <2> QED
      BY <2>1, <2>4
  <1>3. end = last
    <2> HIDE DEF list
    <2>1. ASSUME NEW n \in list PROVE n + 1 \notin list <=> n = last
      BY <1>1, <1>2
    <2>2. last \in list
      BY <1>1, <1>2
    <2>3. end \in list /\ end + 1 \notin list
      BY <2>1, <2>2
    <2> HIDE DEF end
    <2> QED
      BY <2>1, <2>3
  <1>4. open = Capture!Find(line, key) + 1
    BY <1>1
  <1>5. Capture!ParseLevels(line, key) =
           IF open = 1 \/ ~Capture!IsAt(line, open, "[") \/ Capture!IsAt(line, end + 1, "torn")
           THEN None ELSE [i \in 1 .. (end - open) |-> line[open + i].update]
    BY <1>4 DEF Capture!ParseLevels
  <1>6. open # 1 /\ Capture!IsAt(line, open, "[")
    BY <1>1 DEF Capture!IsAt
  <1>7. Capture!IsAt(line, last + 1, "torn") <=> last < Len(line) /\ line[last + 1].name = "torn"
    BY <1>1 DEF Capture!IsAt
  <1> HIDE DEF end
  <1> QED
    BY <1>3, <1>5, <1>6, <1>7

\* What is read from a diff line: its ids, all of its bids, and some of its asks.
Reads(diff, first, last, bids, asks, us) ==
    /\ diff = [first |-> first, last |-> last, updates |-> us] /\ us \in Seq(Update)
    /\ \A i \in DOMAIN bids : \E j \in DOMAIN us : us[j] = bids[i]
    /\ \A j \in DOMAIN us : \/ \E i \in DOMAIN bids : us[j] = bids[i]
                            \/ \E i \in DOMAIN asks : us[j] = asks[i]

\* A diff line that was written to its end or not: it is refused, or yields its ids, all
\* of its bids and some of its asks; and a whole line yields all of these.
LEMMA ParseOfCut ==
    ASSUME NEW first \in Nat, NEW last \in Nat, NEW bids \in Seq(Update), NEW asks \in Seq(Update),
           NEW cut \in Capture!Cuts(Capture!DiffLine(first, last, bids, asks)),
           NEW diff, diff = Capture!ParseDiff(cut)
    PROVE  /\ \/ diff = None
              \/ \E us : /\ Reads(diff, first, last, bids, asks, us) /\ diff # None
                         /\ cut = Capture!DiffLine(first, last, bids, asks) =>
                               \A i \in DOMAIN asks : \E j \in DOMAIN us : us[j] = asks[i]
           /\ cut = Capture!DiffLine(first, last, bids, asks) => diff # None
  <1> DEFINE line == Capture!DiffLine(first, last, bids, asks)
             m == Len(bids)
             k == Len(asks)
  <1>1. /\ line \in Seq(Tokens) /\ Len(line) = 7 + m + k
        /\ line[1] = Capture!Token("type")
        /\ line[2] = Capture!Number("U", first) /\ line[3] = Capture!Number("u", last)
        /\ line[4] = Capture!Token("b") /\ line[5] = Capture!Token("[")
        /\ \A i \in 1 .. m : line[5 + i] = Capture!Entry(bids[i])
        /\ line[6 + m] = Capture!Token("a") /\ line[7 + m] = Capture!Token("[")
        /\ \A i \in 1 .. k : line[7 + m + i] = Capture!Entry(asks[i])
    BY LineTokens, ZenonT(60)
  <1>2. m \in Nat /\ k \in Nat /\ DOMAIN bids = 1 .. m /\ DOMAIN asks = 1 .. k
    BY LenProperties
  <1>3. (\A i \in 1 .. m : bids[i] \in Update) /\ (\A i \in 1 .. k : asks[i] \in Update)
    BY ElementOfSeq
  <1> HIDE DEF line, m, k
  <1>4. PICK n \in 0 .. Len(line) :
           /\ cut \in Seq(Tokens)
           /\ \/ Len(cut) = n
              \/ n < Len(line) /\ Len(cut) = n + 1 /\ cut[n + 1] = Capture!Torn
           /\ \A i \in 1 .. n : cut[i] = line[i]
    BY <1>1, CutTokens DEF line
  <1>5. n \in Nat /\ Len(cut) \in Nat /\ n <= Len(cut) /\ Len(cut) <= n + 1 /\ n <= 7 + m + k
    BY <1>1, <1>2, <1>4, SMTT(60)
  <1>6. \A i \in 1 .. Len(cut) : i > n => cut[i].name = "torn"
    BY <1>4, <1>5 DEF Capture!Torn, Capture!Token
  <1>7. /\ 1 <= n => cut[1].name = "type"
        /\ 2 <= n => cut[2].name = "U" /\ cut[2].value = first
        /\ 3 <= n => cut[3].name = "u" /\ cut[3].value = last
        /\ 4 <= n => cut[4].name = "b"
        /\ 5 <= n => cut[5].name = "["
    <2>1. \A i \in 1 .. n : cut[i] = line[i]
      BY <1>4
    <2>2. /\ line[1].name = "type" /\ line[2].name = "U" /\ line[2].value = first
          /\ line[3].name = "u" /\ line[3].value = last
          /\ line[4].name = "b" /\ line[5].name = "["
      BY <1>1 DEF Capture!Token, Capture!Number
    <2>3. \A i \in 1 .. 5 : i <= n => cut[i] = line[i]
      BY <1>5, <2>1
    <2> QED
      BY <2>2, <2>3
  <1>8. /\ \A i \in 1 .. m : 5 + i <= n => cut[5 + i].name = "level" /\ cut[5 + i].update = bids[i]
        /\ \A i \in 6 .. (5 + m) : i <= n => cut[i].name = "level"
        /\ 6 + m <= n => cut[6 + m].name = "a"
        /\ 7 + m <= n => cut[7 + m].name = "["
        /\ \A i \in 1 .. k : 7 + m + i <= n =>
              cut[7 + m + i].name = "level" /\ cut[7 + m + i].update = asks[i]
    <2>1. \A i \in 1 .. n : cut[i] = line[i]
      BY <1>4
    <2>2. ASSUME NEW i \in 1 .. m, 5 + i <= n
          PROVE  cut[5 + i].name = "level" /\ cut[5 + i].update = bids[i]
      <3>1. 5 + i \in 1 .. n
        BY <1>2, <1>5, <2>2
      <3>2. cut[5 + i] = Capture!Entry(bids[i])
        BY <1>1, <2>1, <3>1
      <3> QED
        BY <3>2 DEF Capture!Entry
    <2>3. ASSUME NEW i \in 1 .. k, 7 + m + i <= n
          PROVE  cut[7 + m + i].name = "level" /\ cut[7 + m + i].update = asks[i]
      <3>1. 7 + m + i \in 1 .. n
        BY <1>2, <1>5, <2>3
      <3>2. cut[7 + m + i] = Capture!Entry(asks[i])
        BY <1>1, <2>1, <3>1
      <3> QED
        BY <3>2 DEF Capture!Entry
    <2>4. 6 + m <= n => cut[6 + m].name = "a"
      BY <1>1, <1>2, <1>5, <2>1 DEF Capture!Token
    <2>5. 7 + m <= n => cut[7 + m].name = "["
      BY <1>1, <1>2, <1>5, <2>1 DEF Capture!Token
    <2>6. ASSUME NEW i \in 6 .. (5 + m), i <= n PROVE cut[i].name = "level"
      <3>1. PICK j \in 1 .. m : i = 5 + j
        <4>1. i - 5 \in 1 .. m /\ i = 5 + (i - 5)
          BY <1>2
        <4> QED
          BY <4>1
      <3> QED
        BY <2>2, <2>6, <3>1
    <2> QED
      BY <2>2, <2>3, <2>4, <2>5, <2>6
  <1> DEFINE Levels(key) == Capture!ParseLevels(cut, key)
  <1>9. diff = IF ~Capture!IsAt(cut, 1, "type") \/ Capture!FindNumber(cut, "U") = None
                   \/ Capture!FindNumber(cut, "u") = None \/ Levels("b") = None \/ Levels("a") = None
               THEN None
               ELSE [first |-> Capture!FindNumber(cut, "U"), last |-> Capture!FindNumber(cut, "u"),
                     updates |-> Levels("b") \o Levels("a")]
    BY DEF Capture!ParseDiff
  <1>10. CASE n < 6 + m
    <2>1. ASSUME NEW i \in 1 .. Len(cut) PROVE cut[i].name # "a"
      <3>1. CASE i > n
        BY <1>6, <3>1
      <3>2. CASE i <= n /\ i <= 5
        BY <1>7, <3>2
      <3>3. CASE i <= n /\ i > 5
        <4>1. i \in 6 .. (5 + m)
          BY <1>2, <1>5, <1>10, <3>3
        <4> QED
          BY <1>8, <3>3, <4>1
      <3> QED
        BY <1>5, <3>1, <3>2, <3>3
    <2>2. Capture!Find(cut, "a") = 0
      BY <1>4, <2>1, FindsNone
    <2>3. Levels("a") = None
      BY <2>2 DEF Capture!ParseLevels
    <2>4. diff = None
      BY <1>9, <2>3
    <2>5. cut # line
      BY <1>1, <1>2, <1>5, <1>6, <1>10, <2>1 DEF Capture!Token
    <2> QED
      BY <2>4, <2>5 DEF line
  <1>11. CASE n >= 6 + m
    <2>0. /\ Len(cut) >= 6
          /\ cut[1].name = "type" /\ cut[2].name = "U" /\ cut[2].value = first
          /\ cut[3].name = "u" /\ cut[3].value = last /\ cut[4].name = "b" /\ cut[5].name = "["
      BY <1>2, <1>5, <1>7, <1>11, SMTT(60)
    <2>1. /\ Capture!IsAt(cut, 1, "type")
          /\ Capture!FindNumber(cut, "U") = first /\ Capture!FindNumber(cut, "u") = last
      <3>1. Capture!Find(cut, "U") = 2 /\ Capture!Find(cut, "u") = 3
        <4>1. /\ 2 \in 1 .. Len(cut) /\ \A j \in 1 .. Len(cut) : j < 2 => j = 1
              /\ 3 \in 1 .. Len(cut) /\ \A j \in 1 .. Len(cut) : j < 3 => j = 1 \/ j = 2
          BY <1>5, <2>0, SMTT(60)
        <4>2. /\ \A j \in 1 .. Len(cut) : j < 2 => cut[j].name # "U"
              /\ \A j \in 1 .. Len(cut) : j < 3 => cut[j].name # "u"
          BY <2>0, <4>1
        <4>3. Capture!Find(cut, "U") = 2
          BY <1>4, <2>0, <4>1, <4>2, FindsFirst
        <4>4. Capture!Find(cut, "u") = 3
          <5>1. cut \in Seq(Tokens) /\ 3 \in 1 .. Len(cut) /\ cut[3].name = "u"
            BY <1>4, <2>0, <4>1
          <5> QED
            BY <4>2, <5>1, FindsFirst
        <4> QED
          BY <4>3, <4>4
      <3>2. DOMAIN cut = 1 .. Len(cut)
        BY <1>4, LenProperties
      <3> QED
        BY <1>5, <2>0, <3>1, <3>2 DEF Capture!IsAt, Capture!FindNumber
    <2>2. Levels("b") = [i \in 1 .. m |-> cut[5 + i].update]
      <3>1. Capture!Find(cut, "b") = 4
        <4>1. 4 \in 1 .. Len(cut) /\ \A j \in 1 .. Len(cut) : j < 4 => j = 1 \/ j = 2 \/ j = 3
          BY <1>5, <2>0, SMTT(60)
        <4>2. \A j \in 1 .. Len(cut) : j < 4 => cut[j].name # "b"
          BY <2>0, <4>1
        <4> QED
          BY <1>4, <2>0, <4>1, <4>2, FindsFirst, ZenonT(60)
      <3>2. 5 + m < Len(cut) /\ cut[5 + m + 1].name = "a"
        BY <1>2, <1>5, <1>8, <1>11
      <3>3. ASSUME NEW i \in 6 .. (5 + m) PROVE cut[i].name = "level"
        <4>1. i <= n
          BY <1>2, <1>5, <1>11
        <4> QED
          BY <1>8, <4>1
      <3> DEFINE end == 5 + m
                 open == 5
      <3>4. open \in 2 .. Len(cut) /\ end \in open .. Len(cut) /\ end - open = m
        BY <1>2, <1>5, <3>2
      <3>5. /\ Capture!Find(cut, "b") = open - 1 /\ cut[open].name = "["
            /\ \A i \in (open + 1) .. end : cut[i].name = "level"
            /\ end < Len(cut) => cut[end + 1].name # "level"
            /\ cut[end + 1].name # "torn"
        BY <2>0, <3>1, <3>2, <3>3
      <3> HIDE DEF end, open
      <3>6. Levels("b") = IF end < Len(cut) /\ cut[end + 1].name = "torn" THEN None
                          ELSE [i \in 1 .. (end - open) |-> cut[open + i].update]
        BY <1>4, <3>4, <3>5, LevelsUpTo, SMTT(60)
      <3>7. ~(end < Len(cut) /\ cut[end + 1].name = "torn")
        BY <3>5
      <3> HIDE DEF Levels
      <3> QED
        BY <3>4, <3>6, <3>7 DEF open
    <2>3. Levels("b") = bids
      <3>1. \A i \in 1 .. m : cut[5 + i].update = bids[i]
        BY <1>2, <1>8, <1>11
      <3>2. bids = [i \in 1 .. m |-> bids[i]]
        BY <1>2, LenProperties
      <3> QED
        BY <2>2, <3>1, <3>2
    <2>4. /\ \/ Levels("a") = None
             \/ /\ Levels("a") \in Seq(Update) /\ Levels("a") # None
                /\ \A i \in 1 .. Len(Levels("a")) : i \in 1 .. k /\ Levels("a")[i] = asks[i]
                /\ cut = line => Len(Levels("a")) = k
          /\ cut = line => Levels("a") # None
      <3>1. Capture!Find(cut, "a") = 6 + m
        <4>1. 6 + m \in 1 .. Len(cut) /\ cut[6 + m].name = "a"
          BY <1>2, <1>5, <1>8, <1>11
        <4>2. ASSUME NEW i \in 1 .. Len(cut), i < 6 + m PROVE cut[i].name # "a"
          <5>1. CASE i <= 5
            <6>1. i \in {1, 2, 3, 4, 5}
              BY <5>1
            <6> QED
              BY <2>0, <6>1
          <5>2. CASE i > 5
            <6>1. i \in 6 .. (5 + m) /\ i <= n
              BY <1>2, <1>5, <1>11, <4>2, <5>2
            <6> QED
              BY <1>8, <6>1
          <5> QED
            BY <5>1, <5>2
        <4> QED
          BY <1>4, <4>1, <4>2, FindsFirst
      <3>2. CASE n = 6 + m
        <4>1. ~Capture!IsAt(cut, 7 + m, "[")
          <5>1. DOMAIN cut = 1 .. Len(cut)
            BY <1>4, LenProperties
          <5> QED
            BY <1>2, <1>6, <3>2, <5>1 DEF Capture!IsAt
        <4>2. Levels("a") = None
          BY <1>2, <3>1, <4>1 DEF Capture!ParseLevels
        <4>3. cut # line
          <5>1. 7 + m \in 1 .. Len(line) /\ line[7 + m].name = "[" /\ DOMAIN line = 1 .. Len(line)
            BY <1>1, <1>2, LenProperties DEF Capture!Token
          <5> QED
            BY <4>1, <5>1 DEF Capture!IsAt
        <4> QED
          BY <4>2, <4>3
      <3>3. CASE n > 6 + m
        <4> DEFINE open == 7 + m
        <4>1. open \in 2 .. Len(cut) /\ n \in open .. Len(cut)
          BY <1>2, <1>5, <3>3
        <4>2. /\ Capture!Find(cut, "a") = open - 1 /\ cut[open].name = "["
              /\ n < Len(cut) => cut[n + 1].name # "level"
          BY <1>2, <1>5, <1>6, <1>8, <3>1, <3>3
        <4>3. ASSUME NEW i \in 1 .. (n - open)
              PROVE  cut[open + i].name = "level" /\ cut[open + i].update = asks[i] /\ i \in 1 .. k
          <5>1. i \in 1 .. k /\ 7 + m + i <= n
            BY <1>2, <1>5, <4>1
          <5> QED
            BY <1>8, <5>1
        <4>4. ASSUME NEW i \in (open + 1) .. n PROVE cut[i].name = "level"
          <5>1. i - open \in 1 .. (n - open) /\ open + (i - open) = i
            BY <1>2, <4>1
          <5> QED
            BY <4>3, <5>1
        <4> HIDE DEF open
        <4>5. Levels("a") = IF n < Len(cut) /\ cut[n + 1].name = "torn" THEN None
                            ELSE [i \in 1 .. (n - open) |-> cut[open + i].update]
          BY <1>4, <4>1, <4>2, <4>4, LevelsUpTo, ZenonT(60)
        <4> DEFINE asksRead == [i \in 1 .. (n - open) |-> cut[open + i].update]
        <4>6. /\ asksRead \in Seq(Update) /\ Len(asksRead) = n - open
              /\ \A i \in 1 .. Len(asksRead) : i \in 1 .. k /\ asksRead[i] = asks[i]
          <5>1. n - open \in Nat
            BY <4>1
          <5>2. \A i \in 1 .. (n - open) : cut[open + i].update \in Update
            BY <1>3, <4>3
          <5>3. asksRead \in Seq(Update) /\ Len(asksRead) = n - open
            BY <5>1, <5>2
          <5> QED
            BY <4>3, <5>3
        <4>7. cut = line => ~(n < Len(cut) /\ cut[n + 1].name = "torn")
          <5> SUFFICES ASSUME cut = line, n < Len(cut), cut[n + 1].name = "torn" PROVE FALSE
            OBVIOUS
          <5>1. n + 1 - (7 + m) \in 1 .. k /\ 7 + m + (n + 1 - (7 + m)) = n + 1
            BY <1>1, <1>2, <1>5, <3>3
          <5>2. line[n + 1] = Capture!Entry(asks[n + 1 - (7 + m)])
            BY <1>1, <5>1
          <5> QED
            BY <5>2 DEF Capture!Entry
        <4>8. cut = line => n - open = k
          <5>1. cut = line => Len(cut) = 7 + m + k
            BY <1>1
          <5>2. n < Len(cut) => cut[n + 1].name = "torn" /\ Len(cut) = n + 1
            BY <1>5, <1>6
          <5> QED
            BY <1>2, <1>5, <4>7, <5>1, <5>2 DEF open
        <4>9. asksRead # None
          BY <4>6, NulloptAssumption
        <4> HIDE DEF asksRead
        <4>10. Levels("a") = IF n < Len(cut) /\ cut[n + 1].name = "torn" THEN None ELSE asksRead
          BY <4>5 DEF asksRead
        <4> HIDE DEF Levels
        <4> QED
          BY <4>6, <4>7, <4>8, <4>9, <4>10
      <3> QED
        BY <1>5, <1>2, <1>11, <3>2, <3>3
    <2>5. first # None /\ last # None /\ bids # None
      BY NulloptAssumption
    <2>6. CASE Levels("a") = None
      BY <1>9, <2>4, <2>6 DEF line
    <2>7. CASE Levels("a") # None
      <3> DEFINE us == bids \o Levels("a")
      <3>1. diff = [first |-> first, last |-> last, updates |-> us]
        BY <1>9, <2>1, <2>3, <2>5, <2>7
      <3>2. /\ Levels("a") \in Seq(Update)
            /\ \A i \in 1 .. Len(Levels("a")) : i \in 1 .. k /\ Levels("a")[i] = asks[i]
            /\ cut = line => Len(Levels("a")) = k
        BY <2>4, <2>7
      <3> DEFINE read == Levels("a")
      <3> HIDE DEF Levels
      <3>3. /\ us \in Seq(Update) /\ Len(us) = m + Len(read)
            /\ \A i \in 1 .. m : us[i] = bids[i]
            /\ \A i \in 1 .. Len(read) : us[m + i] = read[i]
        BY <3>2, Concatenation DEF m
      <3> HIDE DEF read
      <3>4. DOMAIN us = 1 .. Len(us) /\ Len(read) \in Nat
        BY <3>2, <3>3, LenProperties DEF read
      <3> HIDE DEF us
      <3>5. \A i \in DOMAIN bids : i \in DOMAIN us /\ us[i] = bids[i]
        BY <1>2, <3>3, <3>4
      <3>6. diff # None
        <4>1. diff \in [first : Nat, last : Nat, updates : Seq(Update)]
          BY <3>1, <3>3
        <4> QED
          BY <4>1, NulloptAssumption
      <3>7. ASSUME NEW j \in DOMAIN us
            PROVE  \/ \E i \in DOMAIN bids : us[j] = bids[i]
                   \/ \E i \in DOMAIN asks : us[j] = asks[i]
        <4>1. CASE j <= m
          <5>1. j \in 1 .. m
            BY <1>2, <3>3, <3>4, <4>1
          <5> QED
            BY <1>2, <3>3, <5>1
        <4>2. CASE j > m
          <5>1. j - m \in 1 .. Len(read) /\ m + (j - m) = j
            BY <1>2, <3>3, <3>4, <4>2
          <5>2. us[j] = asks[j - m] /\ j - m \in 1 .. k
            BY <3>2, <3>3, <5>1 DEF read
          <5> QED
            BY <1>2, <5>2
        <4> QED
          BY <1>2, <3>3, <3>4, <4>1, <4>2
      <3>8. ASSUME cut = line, NEW i \in DOMAIN asks PROVE \E j \in DOMAIN us : us[j] = asks[i]
        <4>1. i \in 1 .. Len(read) /\ read[i] = asks[i]
          BY <1>2, <3>2, <3>8 DEF read
        <4>2. m + i \in DOMAIN us /\ us[m + i] = asks[i]
          BY <1>2, <3>3, <3>4, <4>1
        <4> QED
          BY <4>2
      <3>9. Reads(diff, first, last, bids, asks, us)
        BY <3>1, <3>3, <3>5, <3>7 DEF Reads
      <3> QED
        BY <3>6, <3>8, <3>9 DEF line
    <2> QED
      BY <2>6, <2>7
  <1> QED
    BY <1>2, <1>5, <1>10, <1>11

-----------------------------------------------------------------------------
(* The inductive invariant                                                 *)

Diff == [first : Nat, last : Nat, updates : Seq(Update), after : Books]
Ids(diff) == diff.first .. diff.last

\* The diffs to be read are windows of the stream, in its order.
CaptureInv ==
    /\ exchange \in Books /\ lastId \in Nat
    /\ window \in [first : Nat, touched : SUBSET Level]
    /\ 1 <= window.first /\ window.first <= lastId + 1
    /\ window.touched # {} => window.first <= lastId
    /\ wire \in Seq(Diff)
    /\ \A i \in DOMAIN wire :
          1 <= wire[i].first /\ wire[i].first <= wire[i].last /\ wire[i].last < window.first
    /\ \A i, j \in DOMAIN wire : i < j => wire[i].last < wire[j].first
    /\ missed \subseteq 1 .. (window.first - 1)

\* An id above lastU is still to be read or was missed, and never both; the gaps so
\* far are those that the missed ids below lastU left.
SequenceInv ==
    /\ lastU \in Nat /\ gaps \in Nat /\ synced \in BOOLEAN
    /\ \A n \in (lastU + 1) .. (window.first - 1) :
          n \in missed \/ \E i \in DOMAIN wire : n \in Ids(wire[i])
    /\ \A n \in missed : \A i \in DOMAIN wire : n \notin Ids(wire[i])
    /\ synced => lastU < window.first /\ \A i \in DOMAIN wire : lastU < wire[i].first
    /\ stage = "empty" => lastU = 0 /\ gaps = 0
    /\ stage # "empty" => (gaps > 0 <=> \E n \in missed : n <= lastU)

\* Before the seed every snapshot is a target; after it each is counted once.
AccountInv ==
    /\ IsFiniteSet(snapIds) /\ snapIds \subseteq 0 .. lastId
    /\ IsFiniteSet(targets) /\ \A snap \in targets : snap.id \in snapIds
    /\ pass \in Nat /\ fail \in Nat /\ unreachable \in Nat
    /\ stage = "empty" => /\ pass = 0 /\ fail = 0 /\ unreachable = 0
                          /\ Cardinality(targets) = Cardinality(snapIds)
    /\ SnapshotsAccountedFor

IInv == CaptureInv /\ SequenceInv /\ AccountInv /\ CutLosesAsksOnly

LEMMA InitOK == Init => IInv
  <1> SUFFICES ASSUME Init PROVE IInv
    OBVIOUS
  <1>1. CaptureInv
    <2>1. exchange \in Books /\ lastId = 0 /\ wire = <<>> /\ missed = {}
      BY DEF Init
    <2>2. window = [first |-> 1, touched |-> {}]
      BY DEF Init
    <2>3. DOMAIN wire = {} /\ wire \in Seq(Diff)
      BY <2>1
    <2> QED
      BY <2>1, <2>2, <2>3 DEF CaptureInv
  <1>2. SequenceInv
    <2>1. /\ lastU = 0 /\ gaps = 0 /\ synced = FALSE /\ stage = "empty" /\ missed = {}
          /\ wire = <<>> /\ window.first = 1
      BY DEF Init
    <2>2. (lastU + 1) .. (window.first - 1) = {}
      BY <2>1
    <2> QED
      BY <2>1, <2>2 DEF SequenceInv
  <1>3. AccountInv
    BY FS_EmptySet DEF Init, AccountInv, SnapshotsAccountedFor
  <1>4. CutLosesAsksOnly
    BY DEF Init, CutLosesAsksOnly
  <1> QED
    BY <1>1, <1>2, <1>3, <1>4 DEF IInv

-----------------------------------------------------------------------------
(* The window is closed                                                    *)

\* A diff with the ids of the window, the exchange's quantities, and all of its bids.
Reports(diff) ==
    /\ diff.first = window.first /\ diff.last = lastId /\ diff.after = exchange
    /\ Tells(diff.updates, exchange)
    /\ \A l \in window.touched : l[1] = "Bid" => l \in Named(diff.updates)

\* What a line adds to the capture: nothing, or a diff of the window; a whole line adds
\* one that lists every level.
LEMMA WrittenOK ==
    ASSUME CaptureInv, NEW line \in Capture!Cuts(Line)
    PROVE  /\ \/ Written(line) = wire
              \/ \E diff \in Diff :
                    /\ Written(line) = Append(wire, diff) /\ Reports(diff)
                    /\ line = Line => window.touched \subseteq Named(diff.updates)
           /\ line = Line => Written(line) # wire
  <1> DEFINE Prices(side) == {p \in Price : <<side, p>> \in window.touched}
             bids == Touched("Bid")
             asks == Touched("Ask")
             read == Capture!ParseDiff(line)
             diff == [first |-> read.first, last |-> read.last, updates |-> read.updates,
                      after |-> exchange]
  <1>1. Lists(bids, exchange, "Bid", Prices("Bid")) /\ Lists(asks, exchange, "Ask", Prices("Ask"))
    <2>1. ASSUME NEW side \in Side PROVE Lists(Touched(side), exchange, side, Prices(side))
      <3>1. Touched(side) = Ladder(exchange, side, Prices(side)) /\ Prices(side) \in SUBSET Price
        BY DEF Touched
      <3>2. exchange \in Books
        BY DEF CaptureInv
      <3> HIDE DEF Prices
      <3> QED
        BY <3>1, <3>2, LadderLists
    <2>2. "Bid" \in Side /\ "Ask" \in Side
      BY DEF Side
    <2> HIDE DEF Prices
    <2> QED
      BY <2>1, <2>2
  <1>2. line \in Capture!Cuts(Capture!DiffLine(window.first, lastId, bids, asks))
    BY DEF Line
  <1>3. window.first \in Nat /\ lastId \in Nat
    BY DEF CaptureInv
  <1> HIDE DEF bids, asks
  <1>a. bids \in Seq(Update) /\ asks \in Seq(Update)
    BY <1>1 DEF Lists
  <1>b. Line = Capture!DiffLine(window.first, lastId, bids, asks)
    BY DEF Line, bids, asks
  <1>4. /\ \/ read = None
           \/ \E us : /\ Reads(read, window.first, lastId, bids, asks, us) /\ read # None
                      /\ line = Line => \A i \in DOMAIN asks : \E j \in DOMAIN us : us[j] = asks[i]
        /\ line = Line => read # None
    <2> SUFFICES ASSUME NEW first \in Nat, first = window.first, NEW last \in Nat, last = lastId
                 PROVE  /\ \/ read = None
                           \/ \E us : /\ Reads(read, first, last, bids, asks, us) /\ read # None
                                      /\ line = Line => \A i \in DOMAIN asks :
                                                           \E j \in DOMAIN us : us[j] = asks[i]
                        /\ line = Line => read # None
      BY <1>3
    <2>1. /\ Line = Capture!DiffLine(first, last, bids, asks)
          /\ line \in Capture!Cuts(Capture!DiffLine(first, last, bids, asks))
      BY <1>2, <1>b
    <2> HIDE DEF read
    <2>2. read = Capture!ParseDiff(line)
      BY DEF read
    <2>3. /\ \/ read = None
             \/ \E us : /\ Reads(read, first, last, bids, asks, us) /\ read # None
                        /\ line = Capture!DiffLine(first, last, bids, asks) =>
                              \A i \in DOMAIN asks : \E j \in DOMAIN us : us[j] = asks[i]
          /\ line = Capture!DiffLine(first, last, bids, asks) => read # None
      BY <1>a, <2>1, <2>2, ParseOfCut
    <2> QED
      BY <2>1, <2>3
  <1>5. Written(line) = IF read = None THEN wire ELSE Append(wire, diff)
    BY DEF Written
  <1> HIDE DEF read, Prices
  <1>6. CASE read = None
    BY <1>4, <1>5, <1>6
  <1>7. CASE read # None
    <2> PICK us : /\ Reads(read, window.first, lastId, bids, asks, us)
                  /\ line = Line => \A i \in DOMAIN asks : \E j \in DOMAIN us : us[j] = asks[i]
      BY <1>4, <1>7
    <2>1. /\ read = [first |-> window.first, last |-> lastId, updates |-> us] /\ us \in Seq(Update)
          /\ \A i \in DOMAIN bids : \E j \in DOMAIN us : us[j] = bids[i]
          /\ \A j \in DOMAIN us : \/ \E i \in DOMAIN bids : us[j] = bids[i]
                                  \/ \E i \in DOMAIN asks : us[j] = asks[i]
      BY DEF Reads
    <2>2. diff \in Diff /\ diff.first = window.first /\ diff.last = lastId /\ diff.after = exchange
      BY <1>3, <2>1 DEF Diff, CaptureInv
    <2>3. diff.updates = us
      BY <2>1
    <2>4. ASSUME NEW l \in window.touched
          PROVE  /\ l[1] = "Bid" => l \in Named(us)
                 /\ l[1] = "Ask" /\ line = Line => l \in Named(us)
      <3>1. l = <<l[1], l[2]>> /\ l[2] \in Price
        BY DEF CaptureInv, Level
      <3>2. ASSUME l[1] = "Bid" PROVE l \in Named(us)
        <4>1. l[2] \in Prices("Bid")
          BY <3>1, <3>2 DEF Prices
        <4>2. PICK i \in DOMAIN bids : bids[i].price = l[2] /\ bids[i].side = "Bid"
          BY <1>1, <4>1 DEF Lists
        <4>3. PICK j \in DOMAIN us : us[j] = bids[i]
          BY <2>1
        <4> QED
          BY <3>1, <3>2, <4>2, <4>3 DEF Id, Named
      <3>3. ASSUME l[1] = "Ask", line = Line PROVE l \in Named(us)
        <4>1. l[2] \in Prices("Ask")
          BY <3>1, <3>3 DEF Prices
        <4>2. PICK i \in DOMAIN asks : asks[i].price = l[2] /\ asks[i].side = "Ask"
          BY <1>1, <4>1 DEF Lists
        <4>3. PICK j \in DOMAIN us : us[j] = asks[i]
          BY <3>3
        <4> QED
          BY <3>1, <3>3, <4>2, <4>3 DEF Id, Named
      <3> QED
        BY <3>2, <3>3
    <2>5. line = Line => window.touched \subseteq Named(us)
      <3>1. \A l \in window.touched : l[1] = "Bid" \/ l[1] = "Ask"
        BY DEF CaptureInv, Level, Side
      <3> QED
        BY <2>4, <3>1
    <2>6. Tells(us, exchange)
      <3>1. \A i \in DOMAIN bids : bids[i].qty = exchange[bids[i].side][bids[i].price]
        BY <1>1 DEF Lists
      <3>2. \A i \in DOMAIN asks : asks[i].qty = exchange[asks[i].side][asks[i].price]
        BY <1>1 DEF Lists
      <3> QED
        BY <2>1, <3>1, <3>2 DEF Tells
    <2> HIDE DEF diff
    <2>7. Reports(diff)
      BY <2>2, <2>3, <2>4, <2>6 DEF Reports
    <2>8. Append(wire, diff) # wire
      <3>1. Len(Append(wire, diff)) = Len(wire) + 1 /\ Len(wire) \in Nat
        BY <2>2 DEF CaptureInv
      <3> QED
        BY <3>1
    <2> QED
      BY <1>5, <1>7, <2>2, <2>3, <2>5, <2>7, <2>8
  <1> QED
    BY <1>6, <1>7

\* One more diff is to be read.
WireGrows(diff) ==
    /\ wire' \in Seq(Diff) /\ DOMAIN wire' = 1 .. (Len(wire) + 1)
    /\ \A i \in 1 .. Len(wire) : wire'[i] = wire[i]
    /\ wire'[Len(wire) + 1] = diff

LEMMA AppendGrows ==
    ASSUME CaptureInv, NEW diff \in Diff, wire' = Append(wire, diff)
    PROVE  WireGrows(diff)
  BY DEF CaptureInv, WireGrows

\* The diff of the window reaches the capture.
LEMMA DiffWritten ==
    ASSUME CaptureInv, SequenceInv, window.touched # {},
           NEW diff \in Diff, diff.first = window.first, diff.last = lastId,
           WireGrows(diff), window' = [first |-> lastId + 1, touched |-> {}],
           UNCHANGED <<exchange, lastId, missed, stage, lastU, synced, gaps>>
    PROVE  CaptureInv' /\ SequenceInv'
  <1> DEFINE n == Len(wire)
  <1>1. /\ wire \in Seq(Diff) /\ n \in Nat /\ DOMAIN wire = 1 .. n
        /\ wire' \in Seq(Diff) /\ DOMAIN wire' = 1 .. (n + 1)
        /\ \A i \in 1 .. n : wire'[i] = wire[i]
        /\ wire'[n + 1] = diff /\ diff.first = window.first /\ diff.last = lastId
    BY LenProperties DEF CaptureInv, WireGrows
  <1>2. /\ lastId \in Nat /\ window.first \in Nat /\ 1 <= window.first /\ window.first <= lastId
        /\ window'.first = lastId + 1 /\ window'.touched = {}
    BY DEF CaptureInv
  <1>3. \A i \in 1 .. n : wire[i].first \in Nat /\ wire[i].last \in Nat
    <2>1. \A i \in 1 .. n : wire[i] \in Diff
      BY <1>1, ElementOfSeq
    <2> QED
      BY <2>1 DEF Diff
  <1> HIDE DEF n
  <1>4. CaptureInv'
    <2>1. \A i \in DOMAIN wire' : 1 <= wire'[i].first /\ wire'[i].first <= wire'[i].last
                                    /\ wire'[i].last < window'.first
      <3> SUFFICES ASSUME NEW i \in 1 .. (n + 1)
                   PROVE  1 <= wire'[i].first /\ wire'[i].first <= wire'[i].last
                            /\ wire'[i].last < window'.first
        BY <1>1
      <3>1. CASE i = n + 1
        BY <1>1, <1>2, <3>1
      <3>2. CASE i \in 1 .. n
        <4>1. wire'[i] = wire[i]
          BY <1>1, <3>2
        <4>2. 1 <= wire[i].first /\ wire[i].first <= wire[i].last /\ wire[i].last < window.first
          BY <1>1, <3>2 DEF CaptureInv
        <4>3. wire[i].last \in Nat
          BY <1>3, <3>2
        <4> QED
          BY <1>2, <4>1, <4>2, <4>3
      <3> QED
        BY <1>1, <3>1, <3>2
    <2>2. \A i, j \in DOMAIN wire' : i < j => wire'[i].last < wire'[j].first
      <3> SUFFICES ASSUME NEW i \in 1 .. (n + 1), NEW j \in 1 .. (n + 1), i < j
                   PROVE  wire'[i].last < wire'[j].first
        BY <1>1
      <3>1. i \in 1 .. n
        BY <1>1
      <3>2. CASE j = n + 1
        BY <1>1, <1>2, <3>1, <3>2 DEF CaptureInv
      <3>3. CASE j \in 1 .. n
        BY <1>1, <3>1, <3>3 DEF CaptureInv
      <3> QED
        BY <1>1, <3>2, <3>3
    <2>3. missed' \subseteq 1 .. (window'.first - 1)
      BY <1>2 DEF CaptureInv
    <2>4. exchange' \in Books /\ lastId' \in Nat /\ window' \in [first : Nat, touched : SUBSET Level]
      BY <1>2 DEF CaptureInv
    <2> QED
      BY <1>1, <1>2, <2>1, <2>2, <2>3, <2>4 DEF CaptureInv
  <1>5. \A i \in 1 .. n : Ids(wire'[i]) = Ids(wire[i])
    BY <1>1 DEF Ids
  <1>6. Ids(wire'[n + 1]) = window.first .. lastId
    BY <1>1, <1>2 DEF Ids
  <1>7. lastU \in Nat /\ missed \subseteq 1 .. (window.first - 1)
    BY DEF SequenceInv, CaptureInv
  <1>8. \A i \in (lastU' + 1) .. (window'.first - 1) :
           i \in missed' \/ \E j \in DOMAIN wire' : i \in Ids(wire'[j])
    <2> SUFFICES ASSUME NEW i \in (lastU + 1) .. lastId, i \notin missed
                 PROVE  \E j \in 1 .. (n + 1) : i \in Ids(wire'[j])
      BY <1>1, <1>2
    <2>1. CASE i >= window.first
      BY <1>1, <1>2, <1>6, <1>7, <2>1
    <2>2. CASE i < window.first
      <3>1. i \in (lastU + 1) .. (window.first - 1)
        BY <1>2, <1>7, <2>2
      <3>2. PICK j \in 1 .. n : i \in Ids(wire[j])
        BY <1>1, <3>1 DEF SequenceInv
      <3> QED
        BY <1>1, <1>5, <3>2
    <2> QED
      BY <1>2, <1>7, <2>1, <2>2
  <1>9. \A i \in missed' : \A j \in DOMAIN wire' : i \notin Ids(wire'[j])
    <2> SUFFICES ASSUME NEW i \in missed, NEW j \in 1 .. (n + 1)
                 PROVE  i \notin Ids(wire'[j])
      BY <1>1
    <2>1. CASE j = n + 1
      BY <1>2, <1>6, <1>7, <2>1
    <2>2. CASE j \in 1 .. n
      BY <1>1, <1>5, <2>2 DEF SequenceInv
    <2> QED
      BY <1>1, <2>1, <2>2
  <1>10. synced' => lastU' < window'.first /\ \A j \in DOMAIN wire' : lastU' < wire'[j].first
    <2> SUFFICES ASSUME synced
                 PROVE  lastU < lastId + 1 /\ \A j \in 1 .. (n + 1) : lastU < wire'[j].first
      BY <1>1, <1>2
    <2>1. lastU < window.first /\ \A j \in 1 .. n : lastU < wire[j].first
      BY <1>1 DEF SequenceInv
    <2> QED
      BY <1>1, <1>2, <1>7, <2>1
  <1>11. SequenceInv'
    BY <1>8, <1>9, <1>10 DEF SequenceInv
  <1> QED
    BY <1>4, <1>11

\* The diff of the window does not reach the capture.
LEMMA DiffLost ==
    ASSUME CaptureInv, SequenceInv, window.touched # {},
           missed' = MissedWindow, window' = [first |-> lastId + 1, touched |-> {}],
           UNCHANGED <<exchange, lastId, wire, stage, lastU, synced, gaps>>
    PROVE  CaptureInv' /\ SequenceInv'
  <1>1. /\ lastId \in Nat /\ window.first \in Nat /\ 1 <= window.first /\ window.first <= lastId
        /\ window'.first = lastId + 1 /\ window'.touched = {} /\ lastU \in Nat
    BY DEF CaptureInv, SequenceInv
  <1>2. missed' = missed \cup {i \in window.first .. lastId : i > lastU}
    BY DEF MissedWindow
  <1>3. DOMAIN wire = 1 .. Len(wire) /\ \A i \in DOMAIN wire : wire[i].first \in Nat /\ wire[i].last \in Nat
    <2>1. DOMAIN wire = 1 .. Len(wire) /\ \A i \in DOMAIN wire : wire[i] \in Diff
      BY LenProperties, ElementOfSeq DEF CaptureInv
    <2> QED
      BY <2>1 DEF Diff
  <1>4. \A i \in DOMAIN wire : 1 <= wire[i].first /\ wire[i].first <= wire[i].last
                                 /\ wire[i].last < window.first
    BY DEF CaptureInv
  <1>5. CaptureInv'
    <2>1. \A i \in DOMAIN wire' : 1 <= wire'[i].first /\ wire'[i].first <= wire'[i].last
                                    /\ wire'[i].last < window'.first
      BY <1>1, <1>3, <1>4
    <2>2. ASSUME NEW i \in missed' PROVE i \in 1 .. (window'.first - 1)
      <3>1. missed \subseteq 1 .. (window.first - 1)
        BY DEF CaptureInv
      <3>2. CASE i \in missed
        BY <1>1, <3>1, <3>2
      <3>3. CASE i \in window.first .. lastId
        BY <1>1, <3>3
      <3> QED
        BY <1>2, <3>2, <3>3
    <2>3. exchange' \in Books /\ lastId' \in Nat /\ window' \in [first : Nat, touched : SUBSET Level]
      BY <1>1 DEF CaptureInv
    <2> QED
      BY <1>1, <2>1, <2>2, <2>3 DEF CaptureInv
  <1>6. \A i \in DOMAIN wire : Ids(wire'[i]) = Ids(wire[i]) /\ Ids(wire[i]) \subseteq 1 .. (window.first - 1)
    BY <1>1, <1>3, <1>4 DEF Ids
  <1>7. missed \subseteq 1 .. (window.first - 1)
    BY DEF CaptureInv
  <1>8. \A i \in (lastU' + 1) .. (window'.first - 1) :
           i \in missed' \/ \E j \in DOMAIN wire' : i \in Ids(wire'[j])
    <2> SUFFICES ASSUME NEW i \in (lastU + 1) .. lastId, i \notin missed'
                 PROVE  \E j \in DOMAIN wire : i \in Ids(wire'[j])
      BY <1>1
    <2>1. i \in (lastU + 1) .. (window.first - 1) /\ i \notin missed
      BY <1>1, <1>2
    <2>2. PICK j \in DOMAIN wire : i \in Ids(wire[j])
      BY <2>1 DEF SequenceInv
    <2> QED
      BY <1>6, <2>2
  <1>9. \A i \in missed' : \A j \in DOMAIN wire' : i \notin Ids(wire'[j])
    <2> SUFFICES ASSUME NEW i \in missed', NEW j \in DOMAIN wire
                 PROVE  i \notin Ids(wire[j])
      BY <1>6
    <2>1. CASE i \in missed
      BY <2>1 DEF SequenceInv
    <2>2. CASE i \in window.first .. lastId
      BY <1>1, <1>6, <2>2
    <2> QED
      BY <1>2, <2>1, <2>2
  <1>10. stage' # "empty" => (gaps' > 0 <=> \E i \in missed' : i <= lastU')
    <2>1. (\E i \in missed' : i <= lastU) <=> \E i \in missed : i <= lastU
      BY <1>1, <1>2
    <2> QED
      BY <2>1 DEF SequenceInv
  <1>11. synced' => lastU' < window'.first /\ \A j \in DOMAIN wire' : lastU' < wire'[j].first
    BY <1>1 DEF SequenceInv
  <1>12. SequenceInv'
    BY <1>8, <1>9, <1>10, <1>11 DEF SequenceInv
  <1> QED
    BY <1>5, <1>12

-----------------------------------------------------------------------------
(* The exchange's steps                                                    *)

\* Nothing that the invariant is about changes.
LEMMA StutterOK ==
    ASSUME IInv, UNCHANGED <<exchange, lastId, window, snapIds, cutOff, wire, stage, lastU, synced,
                             targets, gaps, unreachable, pass, fail, missed>>
    PROVE  IInv'
  BY DEF IInv, CaptureInv, SequenceInv, AccountInv, SnapshotsAccountedFor, CutLosesAsksOnly, Ids

\* The snapshots are not touched, and the file does not begin or end.
LEMMA AccountsStay ==
    ASSUME AccountInv, UNCHANGED <<snapIds, targets, unreachable, pass, fail>>,
           lastId \in Nat, lastId' \in Nat, lastId' >= lastId,
           stage' = stage \/ (stage \notin {"empty", "ended"} /\ stage' \notin {"empty", "ended"})
    PROVE  AccountInv'
  <1>1. snapIds' \subseteq 0 .. lastId'
    BY DEF AccountInv
  <1> QED
    BY <1>1 DEF AccountInv, SnapshotsAccountedFor

LEMMA ChangeLevelOK ==
    ASSUME IInv, NEW l \in Level, NEW q \in Qty, ChangeLevel(l, q)
    PROVE  IInv'
  <1>1. /\ exchange' = [exchange EXCEPT ![l[1]][l[2]] = q] /\ lastId' = lastId + 1
        /\ window' = [window EXCEPT !.touched = @ \cup {l}]
        /\ UNCHANGED <<snapIds, cutOff, wire, stage, lastU, synced, targets, gaps, unreachable, pass,
                       fail, missed>>
    BY DEF ChangeLevel, replayVars
  <1>2. /\ window \in [first : Nat, touched : SUBSET Level] /\ window.first <= lastId + 1
        /\ lastId \in Nat /\ exchange \in Books
    BY DEF IInv, CaptureInv
  <1>3. /\ window' \in [first : Nat, touched : SUBSET Level] /\ window'.first = window.first
        /\ window'.first <= lastId'
    BY <1>1, <1>2
  <1>4. exchange' \in Books
    BY <1>1, <1>2 DEF Books, Level
  <1>5. CaptureInv'
    BY <1>1, <1>2, <1>3, <1>4 DEF IInv, CaptureInv
  <1>6. SequenceInv'
    BY <1>1, <1>3 DEF IInv, SequenceInv
  <1>7. AccountInv'
    BY <1>1, <1>2, AccountsStay DEF IInv
  <1>8. CutLosesAsksOnly'
    BY <1>1, SMTT(60) DEF IInv, CutLosesAsksOnly
  <1> QED
    BY <1>5, <1>6, <1>7, <1>8 DEF IInv

\* A whole line is read as the diff it was written from.
LEMMA LineIsCut == CaptureInv => Line \in Capture!Cuts(Line)
  <1> SUFFICES ASSUME CaptureInv PROVE Line \in Capture!Cuts(Line)
    OBVIOUS
  <1>1. Touched("Bid") \in Seq(Update) /\ Touched("Ask") \in Seq(Update)
    <2>1. \A side \in Side : {p \in Price : <<side, p>> \in window.touched} \in SUBSET Price
      OBVIOUS
    <2>2. exchange \in Books /\ "Bid" \in Side /\ "Ask" \in Side
      BY DEF CaptureInv, Side
    <2> QED
      BY <2>1, <2>2, LadderLists DEF Touched, Lists
  <1>2. window.first \in Nat /\ lastId \in Nat
    BY DEF CaptureInv
  <1>3. Line \in Seq(Tokens)
    BY <1>1, <1>2, LineTokens DEF Line
  <1>4. SubSeq(Line, 1, Len(Line)) = Line /\ Len(Line) \in 0 .. Len(Line)
    BY <1>3, SubSeqFull, LenProperties
  <1> QED
    BY <1>4, ZenonT(60) DEF Capture!Cuts

LEMMA CloseWindowOK ==
    ASSUME IInv, CloseWindow
    PROVE  IInv'
  <1>1. /\ window.touched # {} /\ window' = [first |-> lastId + 1, touched |-> {}]
        /\ UNCHANGED <<exchange, lastId, snapIds, cutOff, stage, lastU, synced, targets, gaps,
                       unreachable, pass, fail>>
        /\ \/ wire' = Written(Line) /\ UNCHANGED missed
           \/ missed' = MissedWindow /\ UNCHANGED wire
    BY DEF CloseWindow, replayVars
  <1>2. CaptureInv /\ SequenceInv /\ AccountInv /\ CutLosesAsksOnly
    BY DEF IInv
  <1>3. CaptureInv' /\ SequenceInv'
    <2>1. CASE wire' = Written(Line) /\ UNCHANGED missed
      <3>1. PICK diff \in Diff : Written(Line) = Append(wire, diff) /\ Reports(diff)
        BY <1>2, LineIsCut, WrittenOK
      <3>2. WireGrows(diff)
        BY <1>2, <2>1, <3>1, AppendGrows
      <3> QED
        BY <1>1, <1>2, <2>1, <3>1, <3>2, DiffWritten DEF Reports
    <2>2. CASE missed' = MissedWindow /\ UNCHANGED wire
      BY <1>1, <1>2, <2>2, DiffLost
    <2> QED
      BY <1>1, <2>1, <2>2
  <1>4. AccountInv'
    <2>1. lastId \in Nat
      BY <1>2 DEF CaptureInv
    <2> QED
      BY <1>1, <1>2, <2>1, AccountsStay
  <1>5. CutLosesAsksOnly'
    BY <1>1, <1>2 DEF CutLosesAsksOnly
  <1> QED
    BY <1>3, <1>4, <1>5 DEF IInv

\* The bids of a half-written line are all there, or the line is refused.
LEMMA StopInLineOK ==
    ASSUME IInv, NEW line \in Capture!Cuts(Line), StopInLine(line)
    PROVE  IInv'
  <1> DEFINE listed == IF Written(line) = wire THEN window.touched
                       ELSE {Id(u) : u \in ToSet(Last(Written(line)).updates)}
  <1>1. /\ window.touched # {} /\ window' = [first |-> lastId + 1, touched |-> {}]
        /\ wire' = Written(line) /\ cutOff' = window.touched \ listed
        /\ missed' = IF wire' = wire THEN MissedWindow ELSE missed
        /\ UNCHANGED <<exchange, lastId, snapIds, stage, lastU, synced, targets, gaps, unreachable,
                       pass, fail>>
    BY DEF StopInLine, replayVars
  <1>2. CaptureInv /\ SequenceInv /\ AccountInv
    BY DEF IInv
  <1>3. /\ window.touched \subseteq Level /\ wire \in Seq(Diff) /\ lastId \in Nat
    BY <1>2 DEF CaptureInv
  <1>4. CASE Written(line) = wire
    <2>1. CaptureInv' /\ SequenceInv'
      BY <1>1, <1>2, <1>4, DiffLost
    <2>2. CutLosesAsksOnly'
      BY <1>1, <1>4 DEF CutLosesAsksOnly
    <2> QED
      BY <1>1, <1>2, <1>3, <2>1, <2>2, AccountsStay DEF IInv
  <1>5. CASE Written(line) # wire
    <2>1. PICK diff \in Diff :
             /\ Written(line) = Append(wire, diff)
             /\ diff.first = window.first /\ diff.last = lastId
             /\ \A l \in window.touched : l[1] = "Bid" => l \in Named(diff.updates)
      BY <1>2, <1>5, WrittenOK DEF Reports
    <2>2. WireGrows(diff)
      BY <1>1, <1>2, <2>1, AppendGrows
    <2>3. CaptureInv' /\ SequenceInv'
      BY <1>1, <1>2, <1>5, <2>1, <2>2, DiffWritten
    <2>4. Last(Written(line)) = diff
      BY <1>3, <2>1 DEF Last
    <2>5. \A l \in cutOff' : l[1] = "Ask"
      <3> SUFFICES ASSUME NEW l \in window.touched, l \notin listed, l[1] # "Ask" PROVE FALSE
        BY <1>1
      <3>1. l[1] = "Bid"
        BY <1>3 DEF Level, Side
      <3>2. PICK j \in DOMAIN diff.updates : Id(diff.updates[j]) = l
        BY <2>1, <3>1 DEF Named
      <3>3. diff.updates[j] \in ToSet(diff.updates)
        BY DEF ToSet
      <3> QED
        BY <1>5, <2>4, <3>2, <3>3
    <2>6. CutLosesAsksOnly'
      BY <2>5 DEF CutLosesAsksOnly
    <2> QED
      BY <1>1, <1>2, <1>3, <2>3, <2>6, AccountsStay DEF IInv
  <1> QED
    BY <1>4, <1>5

\* A snapshot that repeats an id changes nothing, any other is one more target.
LEMMA TakeSnapshotOK ==
    ASSUME IInv, TakeSnapshot
    PROVE  IInv'
  <1>0. CASE lastId \in snapIds
    <2>1. snapIds' = snapIds /\ targets' = targets
      BY <1>0 DEF TakeSnapshot, Emplaced
    <2> QED
      BY <2>1, StutterOK DEF TakeSnapshot
  <1> SUFFICES ASSUME lastId \notin snapIds PROVE IInv'
    BY <1>0
  <1> DEFINE snap == [id |-> lastId, book |-> exchange]
  <1>1. /\ lastId \notin snapIds /\ snapIds' = snapIds \cup {lastId} /\ targets' = targets \cup {snap}
        /\ stage \in {"empty", "reading"}
        /\ UNCHANGED <<exchange, lastId, window, cutOff, wire, stage, lastU, synced, gaps, unreachable,
                       pass, fail, missed>>
    BY DEF TakeSnapshot, Emplaced, Capturing, BetweenRecords
  <1>2. CaptureInv'
    BY <1>1 DEF IInv, CaptureInv
  <1>3. SequenceInv'
    BY <1>1 DEF IInv, SequenceInv
  <1>4. CutLosesAsksOnly'
    BY <1>1 DEF IInv, CutLosesAsksOnly
  <1>5. /\ AccountInv /\ lastId \in Nat /\ snap.id = lastId
        /\ IsFiniteSet(snapIds) /\ IsFiniteSet(targets)
    BY DEF IInv, AccountInv, CaptureInv
  <1>6. snap \notin targets
    BY <1>1, <1>5 DEF AccountInv
  <1> HIDE DEF snap
  <1>7. /\ IsFiniteSet(snapIds') /\ Cardinality(snapIds') = Cardinality(snapIds) + 1
        /\ IsFiniteSet(targets') /\ Cardinality(targets') = Cardinality(targets) + 1
    BY <1>1, <1>5, <1>6, FS_AddElement
  <1>8. Cardinality(snapIds) \in Nat /\ Cardinality(targets) \in Nat
    BY <1>5, FS_CardinalityType
  <1>9. snapIds' \subseteq 0 .. lastId' /\ \A t \in targets' : t.id \in snapIds'
    BY <1>1, <1>5 DEF AccountInv
  <1>10. SnapshotsAccountedFor'
    BY <1>1, <1>5, <1>7, <1>8 DEF AccountInv, SnapshotsAccountedFor
  <1>11. AccountInv'
    BY <1>1, <1>5, <1>7, <1>8, <1>9, <1>10 DEF AccountInv
  <1> QED
    BY <1>2, <1>3, <1>4, <1>11 DEF IInv

-----------------------------------------------------------------------------
(* The records                                                             *)

LEMMA SeedOK ==
    ASSUME IInv, NEW snap \in targets, Seed(snap)
    PROVE  IInv'
  <1>1. /\ stage = "empty" /\ stage' = "reading" /\ lastU' = snap.id /\ synced' = FALSE
        /\ targets' = targets \ {snap} /\ missed' = {i \in missed : i > snap.id}
        /\ UNCHANGED <<exchange, lastId, window, snapIds, cutOff, wire, gaps, unreachable, pass, fail>>
    BY DEF Seed, exchangeVars
  <1>2. CaptureInv /\ SequenceInv /\ AccountInv /\ CutLosesAsksOnly
    BY DEF IInv
  <1>3. snap.id \in Nat /\ missed \subseteq Nat /\ window.first \in Nat
    <2>1. snap.id \in 0 .. lastId /\ lastId \in Nat
      BY <1>2 DEF AccountInv, CaptureInv
    <2>2. missed \subseteq 1 .. (window.first - 1) /\ window.first \in Nat
      BY <1>2 DEF CaptureInv
    <2> QED
      BY <2>1, <2>2
  <1>4. CaptureInv'
    BY <1>1, <1>2 DEF CaptureInv
  <1>5. SequenceInv'
    <2>1. \A n \in (lastU' + 1) .. (window'.first - 1) :
             n \in missed' \/ \E i \in DOMAIN wire' : n \in Ids(wire'[i])
      <3> SUFFICES ASSUME NEW n \in (snap.id + 1) .. (window.first - 1)
                   PROVE  n \in missed' \/ \E i \in DOMAIN wire : n \in Ids(wire[i])
        BY <1>1
      <3>1. n \in (lastU + 1) .. (window.first - 1) /\ n > snap.id
        BY <1>1, <1>2, <1>3 DEF SequenceInv
      <3>2. n \in missed \/ \E i \in DOMAIN wire : n \in Ids(wire[i])
        BY <1>2, <3>1 DEF SequenceInv
      <3> QED
        BY <1>1, <3>1, <3>2
    <2>2. gaps' = 0 /\ \A n \in missed' : ~(n <= lastU')
      BY <1>1, <1>2, <1>3 DEF SequenceInv
    <2>3. \A n \in missed' : \A i \in DOMAIN wire' : n \notin Ids(wire'[i])
      BY <1>1, <1>2 DEF SequenceInv
    <2>4. stage' # "empty" => (gaps' > 0 <=> \E n \in missed' : n <= lastU')
      BY <2>2
    <2>5. lastU' \in Nat /\ gaps' \in Nat /\ synced' = FALSE /\ stage' # "empty"
      BY <1>1, <1>3, <2>2
    <2> QED
      BY <2>1, <2>3, <2>4, <2>5 DEF SequenceInv
  <1>6. AccountInv'
    <2>1. /\ IsFiniteSet(targets') /\ Cardinality(targets') = Cardinality(targets) - 1
          /\ Cardinality(targets) \in Nat
      BY <1>1, <1>2, FS_RemoveElement, FS_CardinalityType DEF AccountInv
    <2>2. SnapshotsAccountedFor'
      BY <1>1, <1>2, <2>1 DEF AccountInv, SnapshotsAccountedFor
    <2> QED
      BY <1>1, <1>2, <2>1, <2>2 DEF AccountInv
  <1>7. CutLosesAsksOnly'
    BY <1>1, <1>2 DEF CutLosesAsksOnly
  <1> QED
    BY <1>4, <1>5, <1>6, <1>7 DEF IInv

\* The first of the diffs is taken.
WireShrinks ==
    /\ Len(wire) \in Nat /\ DOMAIN wire = 1 .. Len(wire) /\ 1 <= Len(wire)
    /\ NextDiff = wire[1] /\ \A i \in DOMAIN wire : wire[i].first \in Nat /\ wire[i].last \in Nat
    /\ wire' \in Seq(Diff) /\ DOMAIN wire' = 1 .. (Len(wire) - 1)
    /\ \A i \in 1 .. (Len(wire) - 1) : wire'[i] = wire[i + 1]

LEMMA TakeDiffShrinks ==
    ASSUME CaptureInv, TakeDiff
    PROVE  WireShrinks
  <1>1. wire \in Seq(Diff) /\ wire # <<>> /\ wire' = Tail(wire)
    BY DEF CaptureInv, TakeDiff
  <1>2. Len(wire) \in Nat /\ DOMAIN wire = 1 .. Len(wire) /\ 1 <= Len(wire)
    BY <1>1, EmptySeq, LenProperties
  <1>3. \A i \in DOMAIN wire : wire[i] \in Diff
    BY <1>1, <1>2, ElementOfSeq
  <1>4. NextDiff = wire[1]
    BY <1>1 DEF NextDiff
  <1>5. wire' \in Seq(Diff) /\ Len(wire') = Len(wire) - 1 /\ DOMAIN wire' = 1 .. Len(wire')
    BY <1>1, HeadTailProperties, LenProperties
  <1>6. \A i \in 1 .. (Len(wire) - 1) : wire'[i] = wire[i + 1]
    BY <1>1, <1>5, HeadTailProperties
  <1> QED
    BY <1>2, <1>3, <1>4, <1>5, <1>6 DEF WireShrinks, Diff

\* What is left to read is still in the order of the stream, and behind what was read.
LEMMA DiffTaken ==
    ASSUME CaptureInv, WireShrinks, UNCHANGED <<exchange, lastId, window>>,
           missed' \subseteq 1 .. (window.first - 1)
    PROVE  /\ CaptureInv'
           /\ 1 <= NextDiff.first /\ NextDiff.first <= NextDiff.last /\ NextDiff.last < window.first
           /\ NextDiff.first \in Nat /\ NextDiff.last \in Nat
           /\ \A i \in DOMAIN wire' : NextDiff.last < wire'[i].first /\ wire'[i].first \in Nat
           /\ \A i \in DOMAIN wire' : \E j \in DOMAIN wire : wire'[i] = wire[j]
           /\ \A n \in Nat : (\E i \in DOMAIN wire : n \in Ids(wire[i])) =>
                  n \in Ids(NextDiff) \/ \E i \in DOMAIN wire' : n \in Ids(wire'[i])
  <1> DEFINE n == Len(wire)
  <1>1. /\ n \in Nat /\ DOMAIN wire = 1 .. n /\ 1 <= n /\ NextDiff = wire[1]
        /\ \A i \in 1 .. n : wire[i].first \in Nat /\ wire[i].last \in Nat
        /\ wire' \in Seq(Diff) /\ DOMAIN wire' = 1 .. (n - 1)
        /\ \A i \in 1 .. (n - 1) : wire'[i] = wire[i + 1]
    BY DEF WireShrinks
  <1> HIDE DEF n
  <1>2. /\ \A i \in 1 .. n : 1 <= wire[i].first /\ wire[i].first <= wire[i].last
                               /\ wire[i].last < window.first
        /\ \A i, j \in 1 .. n : i < j => wire[i].last < wire[j].first
    BY <1>1 DEF CaptureInv
  <1>3. \A i \in 1 .. (n - 1) : i + 1 \in 1 .. n /\ 1 < i + 1
    BY <1>1
  <1>4. \A i, j \in 1 .. (n - 1) : i < j => wire'[i].last < wire'[j].first
    <2> SUFFICES ASSUME NEW i \in 1 .. (n - 1), NEW j \in 1 .. (n - 1), i < j
                 PROVE  wire[i + 1].last < wire[j + 1].first
      BY <1>1
    <2>1. i + 1 < j + 1
      BY <1>1
    <2> QED
      BY <1>2, <1>3, <2>1
  <1>5. \A i \in 1 .. (n - 1) : 1 <= wire'[i].first /\ wire'[i].first <= wire'[i].last
                                  /\ wire'[i].last < window'.first
    BY <1>1, <1>2, <1>3
  <1>6. CaptureInv'
    BY <1>1, <1>4, <1>5 DEF CaptureInv
  <1>7. 1 \in 1 .. n
    BY <1>1
  <1>8. \A i \in 1 .. (n - 1) : NextDiff.last < wire'[i].first /\ wire'[i].first \in Nat
    BY <1>1, <1>2, <1>3, <1>7
  <1>9. ASSUME NEW x \in Nat, NEW i \in 1 .. n, x \in Ids(wire[i])
        PROVE  x \in Ids(NextDiff) \/ \E j \in 1 .. (n - 1) : x \in Ids(wire'[j])
    <2>1. CASE i = 1
      BY <1>1, <1>9, <2>1
    <2>2. CASE i > 1
      <3>1. i - 1 \in 1 .. (n - 1) /\ (i - 1) + 1 = i
        BY <1>1, <2>2
      <3>2. wire'[i - 1] = wire[i]
        BY <1>1, <3>1
      <3> QED
        BY <1>9, <3>1, <3>2
    <2> QED
      BY <1>1, <2>1, <2>2
  <1> QED
    BY <1>1, <1>2, <1>3, <1>6, <1>7, <1>8, <1>9

LEMMA IgnoreDiffOK ==
    ASSUME IInv, IgnoreDiff
    PROVE  IInv'
  <1>1. /\ stage = "empty" /\ missed' = missed \cup Ids(NextDiff)
        /\ UNCHANGED <<exchange, lastId, window, snapIds, cutOff, stage, lastU, synced, targets, gaps,
                       unreachable, pass, fail>>
    BY DEF IgnoreDiff, exchangeVars, replayVars, Ids
  <1>2. CaptureInv /\ SequenceInv /\ AccountInv /\ CutLosesAsksOnly /\ WireShrinks
    BY TakeDiffShrinks DEF IInv, IgnoreDiff
  <1>3. /\ NextDiff = wire[1] /\ 1 \in DOMAIN wire
        /\ 1 <= NextDiff.first /\ NextDiff.last < window.first /\ NextDiff.first \in Nat
        /\ NextDiff.last \in Nat /\ window.first \in Nat
    BY <1>2 DEF WireShrinks, CaptureInv
  <1>4. Ids(NextDiff) \subseteq 1 .. (window.first - 1)
    BY <1>3 DEF Ids
  <1>5. missed' \subseteq 1 .. (window.first - 1)
    BY <1>1, <1>2, <1>4 DEF CaptureInv
  <1>6. /\ CaptureInv'
        /\ \A i \in DOMAIN wire' : NextDiff.last < wire'[i].first /\ wire'[i].first \in Nat
        /\ \A i \in DOMAIN wire' : \E j \in DOMAIN wire : wire'[i] = wire[j]
        /\ \A n \in Nat : (\E i \in DOMAIN wire : n \in Ids(wire[i])) =>
               n \in Ids(NextDiff) \/ \E i \in DOMAIN wire' : n \in Ids(wire'[i])
    BY <1>1, <1>2, <1>5, DiffTaken
  <1>7. SequenceInv'
    <2>1. lastU \in Nat
      BY <1>2 DEF SequenceInv
    <2>2. \A n \in (lastU' + 1) .. (window'.first - 1) :
             n \in missed' \/ \E i \in DOMAIN wire' : n \in Ids(wire'[i])
      <3> SUFFICES ASSUME NEW n \in (lastU + 1) .. (window.first - 1), n \notin missed'
                   PROVE  \E i \in DOMAIN wire' : n \in Ids(wire'[i])
        BY <1>1
      <3>1. n \in Nat /\ \E i \in DOMAIN wire : n \in Ids(wire[i])
        BY <1>1, <1>2, <2>1 DEF SequenceInv
      <3> QED
        BY <1>1, <1>6, <3>1
    <2>3. \A n \in missed' : \A i \in DOMAIN wire' : n \notin Ids(wire'[i])
      <3> SUFFICES ASSUME NEW n \in missed', NEW i \in DOMAIN wire' PROVE n \notin Ids(wire'[i])
        OBVIOUS
      <3>1. CASE n \in missed
        BY <1>2, <1>6, <3>1 DEF SequenceInv
      <3>2. CASE n \in Ids(NextDiff)
        BY <1>3, <1>6, <3>2 DEF Ids
      <3> QED
        BY <1>1, <3>1, <3>2
    <2>4. synced' => lastU' < window'.first /\ \A i \in DOMAIN wire' : lastU' < wire'[i].first
      BY <1>1, <1>2, <1>6 DEF SequenceInv
    <2> QED
      BY <1>1, <1>2, <2>2, <2>3, <2>4 DEF SequenceInv
  <1>8. AccountInv'
    BY <1>1, <1>2, AccountsStay DEF CaptureInv
  <1>9. CutLosesAsksOnly'
    BY <1>1, <1>2 DEF CutLosesAsksOnly
  <1> QED
    BY <1>6, <1>7, <1>8, <1>9 DEF IInv

LEMMA SkipDiffOK ==
    ASSUME IInv, SkipDiff
    PROVE  IInv'
  <1>1. /\ stage = "reading" /\ NextDiff.last <= lastU
        /\ UNCHANGED <<exchange, lastId, window, snapIds, cutOff, stage, lastU, synced, targets, gaps,
                       unreachable, pass, fail, missed>>
    BY DEF SkipDiff, exchangeVars, replayVars
  <1>2. CaptureInv /\ SequenceInv /\ AccountInv /\ CutLosesAsksOnly /\ WireShrinks
    BY TakeDiffShrinks DEF IInv, SkipDiff
  <1>3. missed' \subseteq 1 .. (window.first - 1)
    BY <1>1, <1>2 DEF CaptureInv
  <1>4. /\ CaptureInv' /\ NextDiff.first \in Nat /\ NextDiff.last \in Nat
        /\ \A i \in DOMAIN wire' : \E j \in DOMAIN wire : wire'[i] = wire[j]
        /\ \A n \in Nat : (\E i \in DOMAIN wire : n \in Ids(wire[i])) =>
               n \in Ids(NextDiff) \/ \E i \in DOMAIN wire' : n \in Ids(wire'[i])
    BY <1>1, <1>2, <1>3, DiffTaken
  <1>5. SequenceInv'
    <2>1. lastU \in Nat
      BY <1>2 DEF SequenceInv
    <2>2. \A n \in (lastU' + 1) .. (window'.first - 1) :
             n \in missed' \/ \E i \in DOMAIN wire' : n \in Ids(wire'[i])
      <3> SUFFICES ASSUME NEW n \in (lastU + 1) .. (window.first - 1), n \notin missed
                   PROVE  \E i \in DOMAIN wire' : n \in Ids(wire'[i])
        BY <1>1
      <3>1. n \in Nat /\ n > lastU /\ \E i \in DOMAIN wire : n \in Ids(wire[i])
        BY <1>1, <1>2, <2>1 DEF SequenceInv
      <3>2. n \notin Ids(NextDiff)
        BY <1>1, <1>4, <2>1, <3>1 DEF Ids
      <3> QED
        BY <1>4, <3>1, <3>2
    <2>3. \A n \in missed' : \A i \in DOMAIN wire' : n \notin Ids(wire'[i])
      BY <1>1, <1>2, <1>4 DEF SequenceInv
    <2>4. synced' => lastU' < window'.first /\ \A i \in DOMAIN wire' : lastU' < wire'[i].first
      BY <1>1, <1>2, <1>4 DEF SequenceInv
    <2> QED
      BY <1>1, <1>2, <2>2, <2>3, <2>4 DEF SequenceInv
  <1>6. AccountInv'
    BY <1>1, <1>2, AccountsStay DEF CaptureInv
  <1>7. CutLosesAsksOnly'
    BY <1>1, <1>2 DEF CutLosesAsksOnly
  <1> QED
    BY <1>4, <1>5, <1>6, <1>7 DEF IInv

\* A gap is counted exactly when an id below the diff was missed.
LEMMA ApplyNextDiffOK ==
    ASSUME IInv, ApplyNextDiff
    PROVE  IInv'
  <1>1. /\ stage = "reading" /\ stage' = "validating" /\ NextDiff.last > lastU
        /\ gaps' = IF IsGap(NextDiff) THEN gaps + 1 ELSE gaps
        /\ synced' = TRUE /\ lastU' = NextDiff.last
        /\ UNCHANGED <<exchange, lastId, window, snapIds, cutOff, targets, unreachable, pass, fail,
                       missed>>
    BY DEF ApplyNextDiff, exchangeVars
  <1>2. CaptureInv /\ SequenceInv /\ AccountInv /\ CutLosesAsksOnly /\ WireShrinks
    BY TakeDiffShrinks DEF IInv, ApplyNextDiff
  <1>3. missed' \subseteq 1 .. (window.first - 1)
    BY <1>1, <1>2 DEF CaptureInv
  <1>4. /\ CaptureInv' /\ NextDiff.first \in Nat /\ NextDiff.last \in Nat
        /\ NextDiff.first <= NextDiff.last /\ NextDiff.last < window.first
        /\ \A i \in DOMAIN wire' : NextDiff.last < wire'[i].first /\ wire'[i].first \in Nat
        /\ \A i \in DOMAIN wire' : \E j \in DOMAIN wire : wire'[i] = wire[j]
        /\ \A n \in Nat : (\E i \in DOMAIN wire : n \in Ids(wire[i])) =>
               n \in Ids(NextDiff) \/ \E i \in DOMAIN wire' : n \in Ids(wire'[i])
    BY <1>1, <1>2, <1>3, DiffTaken
  <1>5. /\ lastU \in Nat /\ gaps \in Nat /\ missed \subseteq Nat /\ window.first \in Nat
        /\ NextDiff = wire[1] /\ 1 \in DOMAIN wire
    BY <1>2 DEF SequenceInv, CaptureInv, WireShrinks
  <1>6. IsGap(NextDiff) <=> NextDiff.first > lastU + 1
    <2>1. synced => lastU < NextDiff.first
      BY <1>2, <1>5 DEF SequenceInv
    <2> QED
      BY <1>4, <1>5, <2>1 DEF IsGap
  <1>7. NextDiff.first > lastU + 1 => \E n \in missed : lastU < n /\ n <= NextDiff.last
    <2> SUFFICES ASSUME NextDiff.first > lastU + 1 PROVE lastU + 1 \in missed /\ lastU + 1 <= NextDiff.last
      BY <1>5
    <2>1. lastU + 1 \in (lastU + 1) .. (window.first - 1) /\ lastU + 1 <= NextDiff.last /\ lastU + 1 \in Nat
      BY <1>4, <1>5
    <2>2. lastU + 1 \notin Ids(NextDiff)
      BY <1>4, <1>5 DEF Ids
    <2>3. \A i \in DOMAIN wire' : lastU + 1 \notin Ids(wire'[i])
      BY <1>4, <1>5, <2>1 DEF Ids
    <2>4. ~\E i \in DOMAIN wire : lastU + 1 \in Ids(wire[i])
      BY <1>4, <2>1, <2>2, <2>3
    <2> QED
      BY <1>2, <2>1, <2>4 DEF SequenceInv
  <1>8. NextDiff.first <= lastU + 1 => \A n \in missed : n <= NextDiff.last => n <= lastU
    <2> SUFFICES ASSUME NextDiff.first <= lastU + 1, NEW n \in missed, n <= NextDiff.last, ~(n <= lastU)
                 PROVE  FALSE
      OBVIOUS
    <2>1. n \in Ids(NextDiff)
      BY <1>4, <1>5 DEF Ids
    <2> QED
      BY <1>2, <1>5, <2>1 DEF SequenceInv
  <1>9. SequenceInv'
    <2>1. gaps > 0 <=> \E n \in missed : n <= lastU
      BY <1>1, <1>2 DEF SequenceInv
    <2>2. gaps' > 0 <=> \E n \in missed' : n <= lastU'
      <3>1. CASE NextDiff.first > lastU + 1
        <4>1. gaps' = gaps + 1
          BY <1>1, <1>6, <3>1
        <4> QED
          BY <1>1, <1>5, <1>7, <3>1, <4>1
      <3>2. CASE NextDiff.first <= lastU + 1
        <4>1. gaps' = gaps
          BY <1>1, <1>4, <1>5, <1>6, <3>2
        <4>2. (\E n \in missed : n <= NextDiff.last) <=> \E n \in missed : n <= lastU
          BY <1>1, <1>4, <1>5, <1>8, <3>2
        <4> QED
          BY <1>1, <2>1, <4>1, <4>2
      <3> QED
        BY <1>4, <1>5, <3>1, <3>2
    <2>3. \A n \in (lastU' + 1) .. (window'.first - 1) :
             n \in missed' \/ \E i \in DOMAIN wire' : n \in Ids(wire'[i])
      <3> SUFFICES ASSUME NEW n \in (NextDiff.last + 1) .. (window.first - 1), n \notin missed
                   PROVE  \E i \in DOMAIN wire' : n \in Ids(wire'[i])
        BY <1>1
      <3>1. n \in (lastU + 1) .. (window.first - 1) /\ n \in Nat /\ n > NextDiff.last
        BY <1>1, <1>4, <1>5
      <3>2. \E i \in DOMAIN wire : n \in Ids(wire[i])
        BY <1>2, <3>1 DEF SequenceInv
      <3>3. n \notin Ids(NextDiff)
        BY <1>4, <3>1 DEF Ids
      <3> QED
        BY <1>4, <3>1, <3>2, <3>3
    <2>4. \A n \in missed' : \A i \in DOMAIN wire' : n \notin Ids(wire'[i])
      BY <1>1, <1>2, <1>4 DEF SequenceInv
    <2>5. lastU' \in Nat /\ gaps' \in Nat /\ synced' \in BOOLEAN /\ stage' # "empty"
      BY <1>1, <1>4, <1>5
    <2>6. lastU' < window'.first /\ \A i \in DOMAIN wire' : lastU' < wire'[i].first
      BY <1>1, <1>4
    <2> QED
      BY <2>2, <2>3, <2>4, <2>5, <2>6 DEF SequenceInv
  <1>10. AccountInv'
    BY <1>1, <1>2, AccountsStay DEF CaptureInv
  <1>11. CutLosesAsksOnly'
    BY <1>1, <1>2 DEF CutLosesAsksOnly
  <1> QED
    BY <1>4, <1>9, <1>10, <1>11 DEF IInv

LEMMA ValidateOK ==
    ASSUME IInv, Validate
    PROVE  IInv'
  <1> DEFINE reached == {snap \in targets : snap.id <= lastU}
             passing == {snap \in reached : Hit(snap) /\ Passes(snap)}
             failing == {snap \in reached : Hit(snap) /\ ~Passes(snap)}
  <1>1. /\ stage = "validating" /\ stage' = "reading"
        /\ pass' = pass + Cardinality(passing) /\ fail' = fail + Cardinality(failing)
        /\ unreachable' = unreachable + Cardinality(reached \ (passing \cup failing))
        /\ targets' = targets \ reached
        /\ UNCHANGED <<exchange, lastId, window, snapIds, cutOff, wire, lastU, synced, gaps, missed>>
    BY DEF Validate, exchangeVars
  <1>2. CaptureInv /\ SequenceInv /\ AccountInv /\ CutLosesAsksOnly
    BY DEF IInv
  <1>3. CaptureInv' /\ CutLosesAsksOnly'
    BY <1>1, <1>2 DEF CaptureInv, CutLosesAsksOnly
  <1>4. SequenceInv'
    BY <1>1, <1>2 DEF SequenceInv
  <1>5. /\ reached \in SUBSET targets /\ passing \in SUBSET reached /\ failing \in SUBSET reached
        /\ passing \cap failing = {}
    OBVIOUS
  <1> HIDE DEF reached, passing, failing
  <1>6. IsFiniteSet(targets) /\ IsFiniteSet(reached) /\ IsFiniteSet(passing) /\ IsFiniteSet(failing)
    BY <1>2, <1>5, FS_Subset DEF AccountInv
  <1>7. /\ Cardinality(targets) \in Nat /\ Cardinality(reached) \in Nat
        /\ Cardinality(passing) \in Nat /\ Cardinality(failing) \in Nat
    BY <1>6, FS_CardinalityType
  <1>8. /\ IsFiniteSet(targets') /\ Cardinality(targets') \in Nat
        /\ Cardinality(targets') = Cardinality(targets) - Cardinality(reached)
    <2>1. targets \cap reached = reached
      BY <1>5
    <2>2. /\ IsFiniteSet(targets \ reached)
          /\ Cardinality(targets \ reached) = Cardinality(targets) - Cardinality(reached)
      BY <1>6, <2>1, FS_Difference, Zenon
    <2> QED
      BY <1>1, <2>2, FS_CardinalityType
  <1>9. Cardinality(passing \cup failing) = Cardinality(passing) + Cardinality(failing)
    <2>1. Cardinality(passing \cap failing) = 0
      BY <1>5, FS_EmptySet
    <2>2. Cardinality(passing \cup failing) =
             Cardinality(passing) + Cardinality(failing) - Cardinality(passing \cap failing)
      BY <1>6, FS_Union, Zenon
    <2> QED
      BY <1>7, <2>1, <2>2
  <1> DEFINE compared == passing \cup failing
  <1>10. /\ Cardinality(reached \ compared) \in Nat
         /\ Cardinality(reached \ compared) =
               Cardinality(reached) - Cardinality(passing) - Cardinality(failing)
    <2>1. reached \cap compared = compared
      BY <1>5
    <2>2. Cardinality(compared) = Cardinality(passing) + Cardinality(failing)
      BY <1>9
    <2> HIDE DEF compared
    <2>3. /\ IsFiniteSet(reached \ compared)
          /\ Cardinality(reached \ compared) = Cardinality(reached) - Cardinality(compared)
      BY <1>6, <2>1, FS_Difference, ZenonT(60)
    <2> QED
      BY <1>7, <2>2, <2>3, FS_CardinalityType
  <1>11. SnapshotsAccountedFor'
    <2>1. 1 + Cardinality(targets) + pass + fail + unreachable = Cardinality(snapIds)
      BY <1>1, <1>2 DEF AccountInv, SnapshotsAccountedFor
    <2>2. pass \in Nat /\ fail \in Nat /\ unreachable \in Nat
      BY <1>2 DEF AccountInv
    <2>3. 1 + Cardinality(targets') + pass' + fail' + unreachable' = Cardinality(snapIds)
      BY <1>1, <1>7, <1>8, <1>10, <2>1, <2>2
    <2> QED
      BY <1>1, <2>3 DEF SnapshotsAccountedFor
  <1>12. AccountInv'
    <2>1. pass' \in Nat /\ fail' \in Nat /\ unreachable' \in Nat
      BY <1>1, <1>2, <1>7, <1>10 DEF AccountInv
    <2> QED
      BY <1>1, <1>2, <1>8, <1>11, <2>1 DEF AccountInv
  <1> QED
    BY <1>3, <1>4, <1>12 DEF IInv

LEMMA EndOfFileOK ==
    ASSUME IInv, EndOfFile
    PROVE  IInv'
  <1>1. /\ stage = "reading" /\ stage' = "ended"
        /\ unreachable' = unreachable + Cardinality(targets)
        /\ UNCHANGED <<exchange, lastId, window, snapIds, cutOff, wire, lastU, synced, targets, gaps,
                       pass, fail, missed>>
    BY DEF EndOfFile, exchangeVars
  <1>2. CaptureInv' /\ SequenceInv' /\ CutLosesAsksOnly'
    BY <1>1 DEF IInv, CaptureInv, SequenceInv, CutLosesAsksOnly
  <1>3. AccountInv /\ Cardinality(targets) \in Nat
    BY FS_CardinalityType DEF IInv, AccountInv
  <1>4. AccountInv'
    BY <1>1, <1>3 DEF AccountInv, SnapshotsAccountedFor
  <1> QED
    BY <1>2, <1>4 DEF IInv

-----------------------------------------------------------------------------
(* The exchange's past: a diff and a snapshot tell of books that are gone   *)

Markets == {levels \in Books : Market(levels)}

\* From one id to another nothing changes but some levels.
Still(past, lo, hi, levels) ==
    \A m, n \in lo .. hi : \A l \in Level \ levels : Goal(past[m], l) = Goal(past[n], l)

\* A diff of the stream, cut or not, names every level that changes in its window.
Recorded(past, diff, cut) ==
    /\ diff.after = past[diff.last] /\ Tells(diff.updates, diff.after)
    /\ Still(past, diff.first - 1, diff.last, Named(diff.updates) \cup cut)

\* The levels that are cut off a diff: only the last line is half written.
CutFrom(i) == IF i = Len(wire) /\ cutOff # None THEN cutOff ELSE {}

\* past has the exchange's book at every id; what is on the wire, the snapshots and the
\* book that the mirror is to show are taken from it.
StreamPast(past) ==
    /\ past \in [0 .. lastId -> Markets] /\ past[lastId] = exchange
    /\ Still(past, window.first - 1, lastId, window.touched)
WirePast(past) == \A i \in DOMAIN wire : Recorded(past, wire[i], CutFrom(i))
ReadPast(past) ==
    /\ \A snap \in targets : snap.id \in 0 .. lastId /\ snap.book = past[snap.id]
    /\ lastU \in 0 .. lastId /\ asOf = past[lastU]
PastInv == \E past : StreamPast(past) /\ WirePast(past) /\ ReadPast(past)

\* A diff to be read is a window that was closed.
LEMMA DiffOfWire ==
    ASSUME CaptureInv, NEW i \in DOMAIN wire
    PROVE  /\ wire[i].first \in Nat /\ wire[i].last \in Nat /\ wire[i].last <= lastId
           /\ 1 <= wire[i].first /\ wire[i].first <= wire[i].last
           /\ wire[i].updates \in Seq(Update) /\ wire[i].after \in Books
  <1>1. i \in 1 .. Len(wire) /\ wire \in Seq(Diff)
    BY LenProperties DEF CaptureInv
  <1>2. wire[i] \in Diff
    BY <1>1, ElementOfSeq
  <1>3. 1 <= wire[i].first /\ wire[i].first <= wire[i].last /\ wire[i].last < window.first
    BY DEF CaptureInv
  <1>4. window.first \in Nat /\ lastId \in Nat /\ window.first <= lastId + 1
    BY DEF CaptureInv
  <1> QED
    BY <1>2, <1>3, <1>4 DEF Diff

\* A longer past, and more levels.
LEMMA StillLonger ==
    ASSUME NEW past, NEW longer, NEW lo, NEW hi, NEW levels, NEW more, levels \subseteq more,
           \A n \in lo .. hi : longer[n] = past[n], Still(past, lo, hi, levels)
    PROVE  Still(longer, lo, hi, more)
  <1> SUFFICES ASSUME NEW m \in lo .. hi, NEW n \in lo .. hi, NEW l \in Level \ more
               PROVE  Goal(longer[m], l) = Goal(longer[n], l)
    BY DEF Still
  <1>1. Goal(past[m], l) = Goal(past[n], l)
    BY DEF Still
  <1>2. longer[m] = past[m] /\ longer[n] = past[n]
    OBVIOUS
  <1> QED
    BY <1>1, <1>2

LEMMA PastInit == Init => PastInv
  <1> SUFFICES ASSUME Init, NEW past, past = [n \in 0 .. 0 |-> exchange] PROVE PastInv
    OBVIOUS
  <1>1. /\ exchange \in Markets /\ lastId = 0 /\ window.first = 1 /\ window.touched = {}
        /\ wire = <<>> /\ targets = {} /\ lastU = 0 /\ asOf = exchange
    BY DEF Init, Markets
  <1>2. 0 \in 0 .. 0 /\ \A n \in 0 .. 0 : n = 0
    OBVIOUS
  <1>3. past[0] = exchange /\ past \in [0 .. 0 -> Markets]
    BY <1>1, <1>2
  <1>4. Still(past, 0, 0, {})
    BY <1>2 DEF Still
  <1>5. StreamPast(past)
    BY <1>1, <1>3, <1>4 DEF StreamPast
  <1>6. WirePast(past)
    BY <1>1 DEF WirePast
  <1>7. ReadPast(past)
    BY <1>1, <1>2, <1>3 DEF ReadPast
  <1> QED
    BY <1>5, <1>6, <1>7 DEF PastInv

\* The past is the same, and of the snapshots some may be forgotten.
LEMMA PastStays ==
    ASSUME PastInv, targets' \subseteq targets,
           UNCHANGED <<exchange, lastId, window, wire, cutOff, lastU, asOf>>
    PROVE  PastInv'
  <1> PICK past : StreamPast(past) /\ WirePast(past) /\ ReadPast(past)
    BY DEF PastInv
  <1>1. StreamPast(past)'
    BY DEF StreamPast
  <1>2. WirePast(past)'
    BY DEF WirePast, CutFrom
  <1>3. ReadPast(past)'
    BY DEF ReadPast
  <1> QED
    BY <1>1, <1>2, <1>3 DEF PastInv

LEMMA ChangeLevelPast ==
    ASSUME CaptureInv, PastInv, NEW l \in Level, NEW q \in Qty, ChangeLevel(l, q)
    PROVE  PastInv'
  <1> PICK past : StreamPast(past) /\ WirePast(past) /\ ReadPast(past)
    BY DEF PastInv
  <1> SUFFICES ASSUME NEW now, now = exchange', NEW longer,
                      longer = [n \in 0 .. lastId + 1 |-> IF n = lastId + 1 THEN now ELSE past[n]]
               PROVE  PastInv'
    OBVIOUS
  <1>1. /\ exchange' = [exchange EXCEPT ![l[1]][l[2]] = q] /\ Market(exchange')
        /\ lastId' = lastId + 1 /\ window' = [window EXCEPT !.touched = @ \cup {l}]
        /\ UNCHANGED <<cutOff, wire, targets, lastU, asOf>>
    BY DEF ChangeLevel, replayVars
  <1>2. /\ window \in [first : Nat, touched : SUBSET Level] /\ lastId \in Nat /\ exchange \in Books
        /\ 1 <= window.first /\ window.first <= lastId + 1
    BY DEF CaptureInv
  <1>3. window'.first = window.first /\ window'.touched = window.touched \cup {l}
    BY <1>1, <1>2
  <1>4. now \in Markets
    <2>1. exchange' \in Books
      BY <1>1, <1>2 DEF Books, Level
    <2> QED
      BY <1>1, <2>1 DEF Markets, Market
  <1>5. \A k \in Level \ {l} : Goal(now, k) = Goal(exchange, k)
    BY <1>1, <1>2, SMTT(60) DEF Goal, Level, Books
  <1>6. /\ longer \in [0 .. lastId + 1 -> Markets] /\ longer[lastId + 1] = now
        /\ \A n \in 0 .. lastId : longer[n] = past[n]
    BY <1>2, <1>4 DEF StreamPast
  <1> HIDE DEF StreamPast
  <1>7. StreamPast(longer)'
    <2>1. ASSUME NEW n \in (window.first - 1) .. (lastId + 1), NEW k \in Level \ (window.touched \cup {l})
          PROVE  Goal(longer[n], k) = Goal(exchange, k)
      <3>1. CASE n = lastId + 1
        BY <1>5, <1>6, <3>1
      <3>2. CASE n # lastId + 1
        <4>1. n \in (window.first - 1) .. lastId /\ n \in 0 .. lastId /\ lastId \in (window.first - 1) .. lastId
          BY <1>2, <3>2
        <4>2. Goal(past[n], k) = Goal(past[lastId], k)
          BY <4>1 DEF StreamPast, Still
        <4> QED
          BY <1>6, <4>1, <4>2 DEF StreamPast
      <3> QED
        BY <3>1, <3>2
    <2>2. Still(longer, window.first - 1, lastId + 1, window.touched \cup {l})
      BY <2>1 DEF Still
    <2>3. Still(longer, window'.first - 1, lastId', window'.touched)
      BY <1>1, <1>3, <2>2, Zenon
    <2> QED
      BY <1>1, <1>6, <2>3 DEF StreamPast
  <1>8. WirePast(longer)'
    <2> SUFFICES ASSUME NEW i \in DOMAIN wire PROVE Recorded(longer, wire[i], CutFrom(i))
      BY <1>1 DEF WirePast, CutFrom
    <2>1. Recorded(past, wire[i], CutFrom(i))
      BY DEF WirePast
    <2>2. /\ wire[i].first \in Nat /\ wire[i].last \in Nat /\ 1 <= wire[i].first
          /\ wire[i].first <= wire[i].last /\ wire[i].last <= lastId
      BY DiffOfWire
    <2>3. \A n \in (wire[i].first - 1) .. wire[i].last : longer[n] = past[n]
      BY <1>2, <1>6, <2>2
    <2>4. longer[wire[i].last] = past[wire[i].last]
      BY <2>2, <2>3, SMTT(60)
    <2>5. Still(longer, wire[i].first - 1, wire[i].last, Named(wire[i].updates) \cup CutFrom(i))
      <3> DEFINE levels == Named(wire[i].updates) \cup CutFrom(i)
                 lo == wire[i].first - 1
                 hi == wire[i].last
      <3>1. Still(past, lo, hi, levels) /\ \A n \in lo .. hi : longer[n] = past[n]
        BY <2>1, <2>3 DEF Recorded
      <3> HIDE DEF levels, lo, hi
      <3>2. Still(longer, lo, hi, levels)
        BY <3>1, StillLonger
      <3> QED
        BY <3>2 DEF levels, lo, hi
    <2> QED
      BY <2>1, <2>4, <2>5 DEF Recorded
  <1>9. ReadPast(longer)'
    BY <1>1, <1>2, <1>6 DEF ReadPast
  <1> QED
    BY <1>7, <1>8, <1>9 DEF PastInv

\* The diff of the window is written, to its end or not.
LEMMA WrittenPast ==
    ASSUME CaptureInv, PastInv, cutOff = None, window.touched # {}, NEW diff \in Diff,
           Reports(diff), WireGrows(diff), window' = [first |-> lastId + 1, touched |-> {}],
           NEW cut, cut = IF cutOff' # None THEN cutOff' ELSE {},
           window.touched \subseteq Named(diff.updates) \cup cut,
           UNCHANGED <<exchange, lastId, targets, lastU, asOf>>
    PROVE  PastInv'
  <1> PICK past : StreamPast(past) /\ WirePast(past) /\ ReadPast(past)
    BY DEF PastInv
  <1> DEFINE n == Len(wire)
  <1>1. /\ n \in Nat /\ DOMAIN wire = 1 .. n /\ DOMAIN wire' = 1 .. (n + 1) /\ Len(wire') = n + 1
        /\ \A i \in 1 .. n : wire'[i] = wire[i]
        /\ wire'[n + 1] = diff
    BY LenProperties DEF CaptureInv, WireGrows
  <1>2. lastId \in Nat /\ window'.first = lastId + 1 /\ window'.touched = {}
    BY DEF CaptureInv
  <1>3. StreamPast(past)'
    <2>1. Still(past, lastId, lastId, {})
      <3>1. \A i \in lastId .. lastId : i = lastId
        BY <1>2
      <3> QED
        BY <3>1 DEF Still
    <2>2. Still(past, window.first - 1, lastId, window.touched)'
      BY <1>2, <2>1 DEF Still
    <2> QED
      BY <2>2 DEF StreamPast
  <1>4. Recorded(past, diff, cut)
    <2>1. Still(past, window.first - 1, lastId, Named(diff.updates) \cup cut)
      BY StillLonger DEF StreamPast
    <2> QED
      BY <2>1 DEF Reports, Recorded, StreamPast
  <1>5. WirePast(past)'
    <2> SUFFICES ASSUME NEW i \in 1 .. (n + 1) PROVE Recorded(past, wire'[i], CutFrom(i)')
      BY <1>1 DEF WirePast, Recorded, Tells, Still, Named, CutFrom
    <2>1. CASE i = n + 1
      <3>1. CutFrom(i)' = cut
        BY <1>1, <2>1 DEF CutFrom
      <3> QED
        BY <1>1, <1>4, <2>1, <3>1
    <2>2. CASE i \in 1 .. n
      <3>1. CutFrom(i)' = {} /\ CutFrom(i) = {}
        BY <1>1, <2>2 DEF CutFrom
      <3>2. Recorded(past, wire[i], CutFrom(i))
        BY <1>1, <2>2 DEF WirePast
      <3> QED
        BY <1>1, <2>2, <3>1, <3>2
    <2> QED
      BY <1>1, <2>1, <2>2, SMTT(60)
  <1>6. ReadPast(past)'
    BY DEF ReadPast
  <1> QED
    BY <1>3, <1>5, <1>6 DEF PastInv

\* The diff of the window is lost, or its line is refused.
LEMMA LostPast ==
    ASSUME CaptureInv, PastInv, cutOff = None, cutOff' \in {None, {}},
           window' = [first |-> lastId + 1, touched |-> {}],
           UNCHANGED <<exchange, lastId, wire, targets, lastU, asOf>>
    PROVE  PastInv'
  <1> PICK past : StreamPast(past) /\ WirePast(past) /\ ReadPast(past)
    BY DEF PastInv
  <1>1. lastId \in Nat /\ window'.first = lastId + 1 /\ window'.touched = {}
    BY DEF CaptureInv
  <1>2. StreamPast(past)'
    <2>1. Still(past, lastId, lastId, {})
      <3>1. \A i \in lastId .. lastId : i = lastId
        BY <1>1
      <3> QED
        BY <3>1 DEF Still
    <2>2. Still(past, window.first - 1, lastId, window.touched)'
      BY <1>1, <2>1 DEF Still
    <2> QED
      BY <2>2 DEF StreamPast
  <1>3. \A i : CutFrom(i)' = {} /\ CutFrom(i) = {}
    BY DEF CutFrom
  <1>4. WirePast(past)'
    BY <1>3 DEF WirePast
  <1>5. ReadPast(past)'
    BY DEF ReadPast
  <1> QED
    BY <1>2, <1>4, <1>5 DEF PastInv

LEMMA TakeSnapshotPast == ASSUME CaptureInv, PastInv, TakeSnapshot PROVE PastInv'
  <1> PICK past : StreamPast(past) /\ WirePast(past) /\ ReadPast(past)
    BY DEF PastInv
  <1>1. /\ targets' \subseteq targets \cup {[id |-> lastId, book |-> exchange]}
        /\ UNCHANGED <<exchange, lastId, window, cutOff, wire, lastU, asOf>>
    BY DEF TakeSnapshot, Emplaced
  <1>2. StreamPast(past)'
    BY <1>1 DEF StreamPast
  <1>3. WirePast(past)'
    BY <1>1 DEF WirePast, CutFrom
  <1>4. ReadPast(past)'
    <2>1. lastId \in 0 .. lastId /\ exchange = past[lastId]
      BY DEF CaptureInv, StreamPast
    <2> QED
      BY <1>1, <2>1 DEF ReadPast
  <1> QED
    BY <1>2, <1>3, <1>4 DEF PastInv

LEMMA SeedPast == ASSUME PastInv, NEW snap \in targets, Seed(snap) PROVE PastInv'
  <1> PICK past : StreamPast(past) /\ WirePast(past) /\ ReadPast(past)
    BY DEF PastInv
  <1>1. /\ targets' \subseteq targets /\ lastU' = snap.id /\ asOf' = snap.book
        /\ UNCHANGED <<exchange, lastId, window, cutOff, wire>>
    BY DEF Seed, exchangeVars
  <1>2. StreamPast(past)'
    BY <1>1 DEF StreamPast
  <1>3. WirePast(past)'
    BY <1>1 DEF WirePast, CutFrom
  <1>4. ReadPast(past)'
    BY <1>1 DEF ReadPast
  <1> QED
    BY <1>2, <1>3, <1>4 DEF PastInv

\* The next diff is taken, and is what the mirror is to show or changes nothing.
LEMMA TakenPast ==
    ASSUME CaptureInv, PastInv, WireShrinks, UNCHANGED <<exchange, lastId, window, cutOff, targets>>,
           \/ UNCHANGED <<lastU, asOf>>
           \/ lastU' = NextDiff.last /\ asOf' = NextDiff.after
    PROVE  PastInv'
  <1> PICK past : StreamPast(past) /\ WirePast(past) /\ ReadPast(past)
    BY DEF PastInv
  <1> DEFINE n == Len(wire)
  <1>1. /\ n \in Nat /\ DOMAIN wire = 1 .. n /\ 1 <= n /\ NextDiff = wire[1]
        /\ wire' \in Seq(Diff) /\ DOMAIN wire' = 1 .. (n - 1)
        /\ \A i \in 1 .. (n - 1) : wire'[i] = wire[i + 1]
    BY DEF WireShrinks
  <1>2. Len(wire') = n - 1
    <2>1. Len(wire') \in Nat /\ DOMAIN wire' = 1 .. Len(wire')
      BY <1>1, LenProperties
    <2> HIDE DEF n
    <2> QED
      BY <1>1, <2>1, SMTT(60)
  <1> HIDE DEF n
  <1>3. StreamPast(past)'
    BY DEF StreamPast
  <1>4. WirePast(past)'
    <2> SUFFICES ASSUME NEW i \in 1 .. (n - 1) PROVE Recorded(past, wire'[i], CutFrom(i)')
      BY <1>1 DEF WirePast, Recorded, Tells, Still, Named, CutFrom
    <2>1. i + 1 \in 1 .. n /\ (i = n - 1 <=> i + 1 = n)
      BY <1>1
    <2>2. CutFrom(i)' = CutFrom(i + 1)
      BY <1>2, <2>1 DEF CutFrom, n
    <2>3. Recorded(past, wire[i + 1], CutFrom(i + 1))
      BY <1>1, <2>1 DEF WirePast
    <2> QED
      BY <1>1, <2>2, <2>3, SMTT(60)
  <1>5. ReadPast(past)'
    <2>1. 1 \in DOMAIN wire
      BY <1>1
    <2>2. NextDiff.after = past[NextDiff.last]
      BY <1>1, <2>1 DEF WirePast, Recorded
    <2>3. NextDiff.last \in 0 .. lastId
      <3>1. wire[1].last < window.first /\ 1 <= wire[1].first /\ wire[1].first <= wire[1].last
        BY <2>1 DEF CaptureInv
      <3>2. wire[1].first \in Nat /\ wire[1].last \in Nat /\ window.first \in Nat /\ lastId \in Nat
            /\ window.first <= lastId + 1
        BY <2>1 DEF WireShrinks, CaptureInv
      <3> QED
        BY <1>1, <3>1, <3>2
    <2> QED
      BY <2>2, <2>3 DEF ReadPast
  <1> QED
    BY <1>3, <1>4, <1>5 DEF PastInv

LEMMA CloseWindowPast == ASSUME IInv, PastInv, CloseWindow PROVE PastInv'
  <1>1. /\ cutOff = None /\ cutOff' = None
        /\ window.touched # {} /\ window' = [first |-> lastId + 1, touched |-> {}]
        /\ UNCHANGED <<exchange, lastId, targets, lastU, asOf>>
        /\ wire' = Written(Line) \/ UNCHANGED wire
    BY DEF CloseWindow, Capturing, replayVars
  <1>2. CaptureInv
    BY DEF IInv
  <1>3. CASE wire' = Written(Line)
    <2>1. PICK diff \in Diff : /\ Written(Line) = Append(wire, diff) /\ Reports(diff)
                               /\ window.touched \subseteq Named(diff.updates)
      BY <1>2, LineIsCut, WrittenOK
    <2>2. WireGrows(diff)
      BY <1>2, <1>3, <2>1, AppendGrows
    <2>3. window.touched \subseteq Named(diff.updates) \cup {}
      BY <2>1
    <2> QED
      BY <1>1, <1>2, <2>1, <2>2, <2>3, WrittenPast
  <1>4. CASE UNCHANGED wire
    BY <1>1, <1>2, <1>4, LostPast
  <1> QED
    BY <1>1, <1>3, <1>4

LEMMA StopInLinePast ==
    ASSUME IInv, PastInv, NEW line \in Capture!Cuts(Line), StopInLine(line) PROVE PastInv'
  <1> DEFINE listed == IF Written(line) = wire THEN window.touched
                       ELSE {Id(u) : u \in ToSet(Last(Written(line)).updates)}
  <1>1. /\ cutOff = None /\ wire' = Written(line) /\ cutOff' = window.touched \ listed
        /\ window.touched # {} /\ window' = [first |-> lastId + 1, touched |-> {}]
        /\ UNCHANGED <<exchange, lastId, targets, lastU, asOf>>
    BY DEF StopInLine, Capturing, replayVars
  <1>2. CaptureInv /\ window.touched \subseteq Level /\ wire \in Seq(Diff)
    BY DEF IInv, CaptureInv
  <1>3. CASE Written(line) = wire
    BY <1>1, <1>2, <1>3, LostPast
  <1>4. CASE Written(line) # wire
    <2>1. PICK diff \in Diff : Written(line) = Append(wire, diff) /\ Reports(diff)
      BY <1>2, <1>4, WrittenOK
    <2>2. WireGrows(diff)
      BY <1>1, <1>2, <2>1, AppendGrows
    <2>3. Last(Written(line)) = diff
      BY <1>2, <2>1 DEF Last
    <2>4. window.touched \subseteq Named(diff.updates) \cup cutOff'
      <3>1. listed \subseteq Named(diff.updates)
        BY <1>4, <2>3 DEF ToSet, Named
      <3> HIDE DEF listed
      <3> QED
        BY <1>1, <3>1
    <2>5. cutOff' # None
      BY <1>1, <1>2, NulloptAssumption
    <2> QED
      BY <1>1, <1>2, <2>1, <2>2, <2>4, <2>5, WrittenPast
  <1> QED
    BY <1>3, <1>4

LEMMA PastKept == ASSUME IInv, PastInv, [Next]_vars PROVE PastInv'
  <1> USE DEF exchangeVars, replayVars
  <1>1. ASSUME NEW l \in Level, NEW q \in Qty, ChangeLevel(l, q) PROVE PastInv'
    BY <1>1, ChangeLevelPast DEF IInv
  <1>2. ASSUME NEW line \in Capture!Cuts(Line), StopInLine(line) PROVE PastInv'
    BY <1>2, StopInLinePast
  <1>3. CASE TakeSnapshot
    BY <1>3, TakeSnapshotPast DEF IInv
  <1>4. CASE IgnoreDiff \/ SkipDiff \/ ApplyNextDiff
    <2>1. TakeDiff /\ UNCHANGED <<exchange, lastId, window, cutOff, targets>>
      BY <1>4 DEF IgnoreDiff, SkipDiff, ApplyNextDiff
    <2>2. UNCHANGED <<lastU, asOf>> \/ (lastU' = NextDiff.last /\ asOf' = NextDiff.after)
      BY <1>4 DEF IgnoreDiff, SkipDiff, ApplyNextDiff
    <2>3. WireShrinks
      BY <2>1, TakeDiffShrinks DEF IInv
    <2> QED
      BY <2>1, <2>2, <2>3, TakenPast DEF IInv
  <1>5. CASE MirrorStep
    BY <1>5, PastStays DEF MirrorStep
  <1>6. CASE Validate
    BY <1>6, PastStays DEF Validate
  <1>7. CASE EndOfFile
    BY <1>7, PastStays DEF EndOfFile
  <1>8. CASE UNCHANGED vars
    BY <1>8, PastStays DEF vars
  <1>9. CASE Ended \/ TurnedAway
    BY <1>8, <1>9 DEF Ended, TurnedAway
  <1> QED
    BY <1>1, <1>2, <1>3, <1>4, <1>5, <1>6, <1>7, <1>8, <1>9, CloseWindowPast, SeedPast
       DEF Next, ExchangeRuns, ReplayRuns

-----------------------------------------------------------------------------
(* What the mirror is told, and what it shows                               *)

\* The seed lists every level of the exchange, however many there are.
SeedIsWhole == SnapshotDepth >= Cardinality(Price)
Filled(levels, side) == {p \in Price : levels[side][p] > 0}

\* A list that is cut at a depth.
LEMMA TopLists ==
    ASSUME NEW levels \in Books, NEW side \in Side, NEW n \in Nat,
           NEW us, us = Top(n, levels, side)
    PROVE  /\ us \in Seq(Update) /\ Tells(us, levels)
           /\ n >= Cardinality(Price) =>
                 /\ us = Ladder(levels, side, Filled(levels, side))
                 /\ \A p \in Filled(levels, side) : <<side, p>> \in Named(us)
           /\ n > 0 /\ Filled(levels, side) # {} => 1 \in DOMAIN us
  <1> DEFINE prices == Filled(levels, side)
             ladder == Ladder(levels, side, prices)
             m == IF n < Len(ladder) THEN n ELSE Len(ladder)
  <1>0. us = SubSeq(ladder, 1, m)
    <2>1. us = First(n, ladder)
      BY DEF Top, Filled
    <2> HIDE DEF ladder
    <2> QED
      BY <2>1 DEF First
  <1>1. prices \in SUBSET Price /\ IsFiniteSet(prices) /\ Cardinality(prices) <= Cardinality(Price)
        /\ Cardinality(Price) \in Nat
    BY PriceAssumption, FS_Subset, FS_CardinalityType DEF Filled
  <1>2. Lists(ladder, levels, side, prices)
    BY <1>1, LadderLists
  <1> HIDE DEF ladder, prices
  <1>m. m = IF n < Len(ladder) THEN n ELSE Len(ladder)
    OBVIOUS
  <1> HIDE DEF m
  <1>3. /\ ladder \in Seq(Update) /\ Len(ladder) = Cardinality(prices) /\ Len(ladder) \in Nat
        /\ DOMAIN ladder = 1 .. Len(ladder)
    BY <1>2, LenProperties DEF Lists
  <1>4. m \in Nat /\ m <= Len(ladder) /\ (n >= Cardinality(Price) => m = Len(ladder))
    BY <1>1, <1>m, <1>3
  <1>5. \A i \in 1 .. m : ladder[i] \in Update
    BY <1>3, <1>4, ElementOfSeq
  <1>6. us \in Seq(Update) /\ Len(us) = m /\ DOMAIN us = 1 .. m /\ \A i \in 1 .. m : us[i] = ladder[i]
    <2>1. /\ us \in Seq(Update) /\ Len(us) = IF 1 <= m THEN m - 1 + 1 ELSE 0
          /\ \A i \in 1 .. m - 1 + 1 : us[i] = ladder[1 + i - 1]
      BY <1>0, <1>4, <1>5, SubSeqProperties
    <2>2. Len(us) = m
      BY <1>4, <2>1
    <2>3. DOMAIN us = 1 .. m
      BY <2>1, <2>2, LenProperties
    <2>4. \A i \in 1 .. m : us[i] = ladder[i]
      BY <1>4, <2>1
    <2> QED
      BY <2>1, <2>2, <2>3, <2>4
  <1>7. ASSUME NEW i \in DOMAIN us PROVE us[i].qty = levels[us[i].side][us[i].price]
    <2>1. us[i] = ladder[i] /\ i \in DOMAIN ladder /\ us[i] \in Update
      BY <1>3, <1>4, <1>5, <1>6
    <2>2. us[i].side = side /\ us[i].qty = levels[side][us[i].price]
      BY <1>2, <2>1 DEF Lists
    <2> QED
      BY <2>1, <2>2
  <1>8. ASSUME n >= Cardinality(Price) PROVE us = ladder
    <2>1. SubSeq(ladder, 1, Len(ladder)) = ladder
      BY <1>3, SubSeqFull
    <2>2. m = Len(ladder)
      BY <1>4, <1>8
    <2> QED
      BY <1>0, <2>1, <2>2
  <1>9. ASSUME n >= Cardinality(Price), NEW p \in prices PROVE <<side, p>> \in Named(us)
    <2>1. PICK i \in DOMAIN ladder : ladder[i].price = p
      BY <1>2 DEF Lists
    <2>2. ladder[i].side = side
      BY <1>2 DEF Lists
    <2>3. us = ladder
      BY <1>8, <1>9
    <2> QED
      BY <2>1, <2>2, <2>3, Zenon DEF Named, Id
  <1>10. ASSUME n > 0, prices # {} PROVE 1 \in DOMAIN us
    <2>1. Cardinality(prices) # 0
      BY <1>1, <1>10, FS_EmptySet
    <2>2. Len(ladder) > 0
      BY <1>3, <2>1
    <2>3. m > 0 /\ 1 \in 1 .. m
      BY <1>m, <1>4, <1>10, <2>2
    <2> QED
      BY <1>6, <2>3
  <1>11. Tells(us, levels)
    BY <1>7 DEF Tells
  <1>12. n >= Cardinality(Price) => us = ladder /\ \A p \in prices : <<side, p>> \in Named(us)
    BY <1>8, <1>9
  <1> QED
    BY <1>6, <1>10, <1>11, <1>12, Zenon DEF ladder, prices

\* The updates of a snapshot, and what they leave out.
LEMMA SeedLists ==
    ASSUME NEW snap, snap.book \in Books,
           NEW us, us = Carried(snap, "Bid") \o Carried(snap, "Ask")
    PROVE  /\ us \in Seq(Update) /\ Tells(us, snap.book)
           /\ SeedIsWhole => \A l \in Level : Goal(snap.book, l) > 0 => l \in Named(us)
  <1> DEFINE bids == Carried(snap, "Bid")
             asks == Carried(snap, "Ask")
  <1>1. "Bid" \in Side /\ "Ask" \in Side /\ SnapshotDepth \in Nat
    BY DepthAssumption DEF Side
  <1>2. /\ bids \in Seq(Update) /\ Tells(bids, snap.book)
        /\ SeedIsWhole => \A p \in Filled(snap.book, "Bid") : <<"Bid", p>> \in Named(bids)
    BY <1>1, TopLists DEF Carried, SeedIsWhole
  <1>3. /\ asks \in Seq(Update) /\ Tells(asks, snap.book)
        /\ SeedIsWhole => \A p \in Filled(snap.book, "Ask") : <<"Ask", p>> \in Named(asks)
    BY <1>1, TopLists DEF Carried, SeedIsWhole
  <1>4. us = bids \o asks
    OBVIOUS
  <1> HIDE DEF bids, asks
  <1>5. /\ us \in Seq(Update) /\ Len(us) = Len(bids) + Len(asks)
        /\ \A i \in 1 .. Len(bids) : us[i] = bids[i]
        /\ \A i \in 1 .. Len(asks) : us[Len(bids) + i] = asks[i]
    <2>1. bids \in Seq(Update) /\ asks \in Seq(Update)
      BY <1>2, <1>3
    <2>2. /\ bids \o asks \in Seq(Update) /\ Len(bids \o asks) = Len(bids) + Len(asks)
          /\ \A i \in 1 .. Len(bids) : (bids \o asks)[i] = bids[i]
          /\ \A i \in 1 .. Len(asks) : (bids \o asks)[Len(bids) + i] = asks[i]
      BY <2>1, Concatenation
    <2> QED
      BY <1>4, <2>2
  <1>6. /\ Len(bids) \in Nat /\ DOMAIN bids = 1 .. Len(bids)
        /\ Len(asks) \in Nat /\ DOMAIN asks = 1 .. Len(asks)
        /\ DOMAIN us = 1 .. Len(us)
    BY <1>2, <1>3, <1>5, LenProperties
  <1>7. Tells(us, snap.book)
    <2> SUFFICES ASSUME NEW i \in 1 .. Len(us)
                 PROVE  us[i].qty = snap.book[us[i].side][us[i].price]
      BY <1>6 DEF Tells
    <2>1. CASE i \in 1 .. Len(bids)
      <3>1. us[i] = bids[i] /\ i \in DOMAIN bids
        BY <1>5, <1>6, <2>1
      <3> QED
        BY <1>2, <3>1 DEF Tells
    <2>2. CASE i \notin 1 .. Len(bids)
      <3> DEFINE j == i - Len(bids)
      <3>1. j \in 1 .. Len(asks) /\ Len(bids) + j = i
        BY <1>5, <1>6, <2>2
      <3> HIDE DEF j
      <3>2. us[i] = asks[j] /\ j \in DOMAIN asks
        BY <1>5, <1>6, <3>1
      <3> QED
        BY <1>3, <3>2 DEF Tells
    <2> QED
      BY <2>1, <2>2
  <1>8. Named(bids) \subseteq Named(us) /\ Named(asks) \subseteq Named(us)
    <2>1. ASSUME NEW i \in DOMAIN bids PROVE Id(bids[i]) \in Named(us)
      <3>1. us[i] = bids[i] /\ i \in DOMAIN us
        BY <1>5, <1>6
      <3> QED
        BY <3>1 DEF Named
    <2>2. ASSUME NEW i \in DOMAIN asks PROVE Id(asks[i]) \in Named(us)
      <3>1. us[Len(bids) + i] = asks[i] /\ Len(bids) + i \in DOMAIN us
        BY <1>5, <1>6
      <3> QED
        BY <3>1 DEF Named
    <2> QED
      BY <2>1, <2>2 DEF Named
  <1>9. ASSUME SeedIsWhole, NEW l \in Level, Goal(snap.book, l) > 0 PROVE l \in Named(us)
    <2>1. PICK side \in Side, p \in Price : l = <<side, p>>
      BY DEF Level
    <2>2. p \in Filled(snap.book, side)
      BY <1>9, <2>1 DEF Filled, Goal
    <2>3. CASE side = "Bid"
      BY <1>2, <1>8, <1>9, <2>1, <2>2, <2>3
    <2>4. CASE side = "Ask"
      BY <1>3, <1>8, <1>9, <2>1, <2>2, <2>4
    <2> QED
      BY <2>3, <2>4 DEF Side
  <1> QED
    BY <1>5, <1>7, <1>9

\* The levels that are named take the new quantity, the others keep the old one.
Told(us, new, old) ==
    [side \in Side |-> [p \in Price |-> IF <<side, p>> \in Named(us) THEN new[side][p] ELSE old[side][p]]]

Merges(told, us, new, old) ==
    \A l \in Level : Goal(told, l) = IF l \in Named(us) THEN Goal(new, l) ELSE Goal(old, l)

LEMMA ToldOK ==
    ASSUME NEW new \in Books, NEW old \in Books, NEW us \in Seq(Update), Tells(us, new),
           NEW told, told = Told(us, new, old)
    PROVE  told \in Books /\ Tells(us, told) /\ Merges(told, us, new, old)
  <1>1. told \in Books
    BY DEF Told, Books
  <1>2. \A side \in Side, p \in Price :
           told[side][p] = IF <<side, p>> \in Named(us) THEN new[side][p] ELSE old[side][p]
    BY DEF Told
  <1>3. ASSUME NEW i \in DOMAIN us PROVE us[i].qty = told[us[i].side][us[i].price]
    <2>1. us[i] \in Update
      BY ElementOfSeq, LenProperties
    <2>2. us[i].side \in Side /\ us[i].price \in Price
      BY <2>1 DEF Update
    <2>3. <<us[i].side, us[i].price>> \in Named(us)
      BY DEF Named, Id
    <2> QED
      BY <1>2, <2>2, <2>3 DEF Tells
  <1>4. ASSUME NEW l \in Level
        PROVE  Goal(told, l) = IF l \in Named(us) THEN Goal(new, l) ELSE Goal(old, l)
    <2>1. l[1] \in Side /\ l[2] \in Price /\ l = <<l[1], l[2]>>
      BY DEF Level
    <2> QED
      BY <1>2, <2>1 DEF Goal
  <1> QED
    BY <1>1, <1>3, <1>4 DEF Tells, Merges

-----------------------------------------------------------------------------
(* The mirror of the replay                                                 *)

\* A level of the mirror is as shown, or the seed did not carry it.
Shows(g, shown, l) == Goal(g, l) = Goal(shown, l) \/ (Goal(g, l) = 0 /\ ~SeedIsWhole)

\* Without a gap, the book that the mirror follows is the exchange's at lastU, but for
\* the levels that were cut off.
Reached(g) == IF stage = "empty" THEN g = NoLevels
              ELSE gaps = 0 => \A l \in Level \ Lost : Shows(g, asOf, l)
FollowInv ==
    /\ trades \in Nat
    /\ stage = "empty" => trades = 0 /\ call = "idle"
    /\ trades = 0 => NoSelfMatch /\ \E g \in Books : Follows(g) /\ Reached(g)
    /\ PhantomMeansGap

LEMMA FollowInit == Init => FollowInv
  <1> SUFFICES ASSUME Init PROVE FollowInv
    OBVIOUS
  <1>1. MirrorInit /\ stage = "empty" /\ trades = 0 /\ call = "idle"
    BY DEF Init, MirrorInit
  <1>2. NoLevels \in Books /\ Follows(NoLevels) /\ NoSelfMatch
    BY <1>1, MirrorInitOK
  <1>3. Reached(NoLevels)
    BY <1>1 DEF Reached
  <1>4. PhantomMeansGap
    BY <1>1 DEF PhantomMeansGap
  <1> QED
    BY <1>1, <1>2, <1>3, <1>4 DEF FollowInv

\* The mirror rests, and nothing that it is to show changes.
LEMMA FollowStays ==
    ASSUME FollowInv, UNCHANGED <<engineVars, mirrorVars, trades, gaps, asOf>>, Lost \subseteq Lost',
           stage' = stage \/ (stage # "empty" /\ stage' # "empty")
    PROVE  FollowInv'
  <1>1. trades' \in Nat /\ (stage' = "empty" => trades' = 0 /\ call' = "idle")
    BY DEF FollowInv, mirrorVars
  <1>2. ASSUME trades = 0 PROVE NoSelfMatch' /\ \E g \in Books : Follows(g)' /\ Reached(g)'
    <2>1. PICK g \in Books : Follows(g) /\ Reached(g)
      BY <1>2 DEF FollowInv
    <2>2. Follows(g)'
      BY <2>1, MirrorStands
    <2>3. Reached(g)'
      BY <2>1 DEF Reached
    <2>4. NoSelfMatch'
      BY <1>2 DEF FollowInv, NoSelfMatch, engineVars
    <2> QED
      BY <2>2, <2>3, <2>4
  <1>3. PhantomMeansGap'
    BY DEF FollowInv, PhantomMeansGap
  <1> QED
    BY <1>1, <1>2, <1>3 DEF FollowInv

LEMMA SeedFollows ==
    ASSUME IInv, PastInv, FollowInv, NEW snap \in targets, Seed(snap) PROVE FollowInv'
  <1>1. /\ stage = "empty" /\ stage' = "reading" /\ asOf' = snap.book
        /\ UNCHANGED <<gaps, trades>>
        /\ ApplySnapshot(Carried(snap, "Bid") \o Carried(snap, "Ask"))
    BY DEF Seed
  <1>2. /\ trades = 0 /\ call = "idle" /\ NoSelfMatch /\ Follows(NoLevels) /\ NoLevels \in Books
    BY <1>1 DEF FollowInv, Reached
  <1>3. snap.book \in Books
    BY DEF PastInv, StreamPast, ReadPast, Markets
  <1> SUFFICES ASSUME NEW us, us = Carried(snap, "Bid") \o Carried(snap, "Ask"),
                      NEW new, new = snap.book, NEW told, told = Told(us, new, NoLevels)
               PROVE  FollowInv'
    OBVIOUS
  <1>4. /\ us \in Seq(Update) /\ Tells(us, new) /\ new \in Books
        /\ SeedIsWhole => \A l \in Level : Goal(new, l) > 0 => l \in Named(us)
    BY <1>3, SeedLists
  <1>5. told \in Books /\ Tells(us, told) /\ Merges(told, us, new, NoLevels)
    BY <1>2, <1>4, ToldOK
  <1>6. \A l \in Level : Goal(NoLevels, l) = 0 /\ Goal(new, l) \in Nat
    BY <1>4, QtyAssumption DEF Goal, NoLevels, Books, Level
  <1>7. \A l \in Level : Depth(l) = 0
    BY <1>2, <1>6 DEF Follows, Pending
  <1>8. \A l \in Level \ Named(us) : NoLevels[l[1]][l[2]] = told[l[1]][l[2]]
    BY <1>5 DEF Goal, Merges
  <1>9. Start("snapshot", us)
    BY <1>1 DEF ApplySnapshot
  <1>10. Follows(told)'
    BY <1>2, <1>4, <1>5, <1>7, <1>8, <1>9, StartOK
  <1>11. \A l \in Level : Shows(told, new, l)
    BY <1>4, <1>5, <1>6 DEF Shows, Merges
  <1>12. Reached(told)'
    BY <1>1, <1>11 DEF Reached
  <1>13. NoSelfMatch'
    BY <1>2, <1>9 DEF NoSelfMatch, Start, engineVars
  <1>14. PhantomMeansGap'
    BY <1>1, <1>2 DEF PhantomMeansGap
  <1> QED
    BY <1>1, <1>2, <1>5, <1>10, <1>12, <1>13, <1>14 DEF FollowInv

\* A diff that follows on leaves out nothing that changed, but what was cut off.
LEMMA DiffFollowsOn ==
    ASSUME IInv, PastInv, ApplyNextDiff, gaps' = 0, NEW l \in Level,
           l \notin Named(NextDiff.updates), l \notin Lost'
    PROVE  gaps = 0 /\ Goal(NextDiff.after, l) = Goal(asOf, l)
  <1>1. /\ TakeDiff /\ NextDiff.last > lastU /\ gaps' = IF IsGap(NextDiff) THEN gaps + 1 ELSE gaps
        /\ wire # <<>> /\ wire' = Tail(wire) /\ UNCHANGED <<lastId, cutOff>>
    BY DEF ApplyNextDiff, TakeDiff, exchangeVars
  <1>2. CaptureInv /\ gaps \in Nat /\ lastU \in Nat
    BY DEF IInv, SequenceInv
  <1>3. gaps = 0 /\ ~IsGap(NextDiff)
    BY <1>1, <1>2
  <1>4. WireShrinks
    BY <1>1, <1>2, TakeDiffShrinks
  <1>5. 1 \in DOMAIN wire /\ NextDiff = wire[1]
    BY <1>4 DEF WireShrinks
  <1>6. NextDiff.first \in Nat /\ NextDiff.last \in Nat
    BY <1>2, <1>5, DiffOfWire
  <1>7. lastU \in (NextDiff.first - 1) .. NextDiff.last /\ NextDiff.last \in (NextDiff.first - 1) .. NextDiff.last
    BY <1>1, <1>2, <1>3, <1>6 DEF IsGap
  <1> PICK past : StreamPast(past) /\ WirePast(past) /\ ReadPast(past)
    BY DEF PastInv
  <1>8. Recorded(past, NextDiff, CutFrom(1))
    BY <1>5 DEF WirePast
  <1>9. l \notin CutFrom(1)
    <2>1. CASE Len(wire) = 1 /\ cutOff # None
      <3>1. wire' = <<>>
        <4>1. Len(wire') = 0
          BY <1>4, <2>1, LenProperties DEF WireShrinks
        <4> QED
          BY <1>4, <4>1, EmptySeq DEF WireShrinks
      <3>2. Lost' = cutOff
        BY <1>1, <2>1, <3>1 DEF Lost
      <3> QED
        BY <2>1, <3>2 DEF CutFrom
    <2>2. CASE ~(Len(wire) = 1 /\ cutOff # None)
      BY <2>2 DEF CutFrom
    <2> QED
      BY <2>1, <2>2
  <1>10. Goal(past[lastU], l) = Goal(past[NextDiff.last], l)
    BY <1>7, <1>8, <1>9 DEF Recorded, Still
  <1> QED
    BY <1>3, <1>8, <1>10 DEF Recorded, ReadPast

LEMMA ApplyFollows == ASSUME IInv, PastInv, FollowInv, ApplyNextDiff PROVE FollowInv'
  <1>1. /\ stage = "reading" /\ stage' = "validating" /\ call = "idle" /\ wire # <<>>
        /\ TakeDiff /\ asOf' = NextDiff.after /\ trades' = trades
        /\ gaps' = IF IsGap(NextDiff) THEN gaps + 1 ELSE gaps
        /\ ApplyDiff(NextDiff.updates)
    BY DEF ApplyNextDiff, TakeDiff, BetweenRecords
  <1>2. gaps \in Nat /\ (gaps > 0 => gaps' > 0)
    BY <1>1 DEF IInv, SequenceInv
  <1>3. Lost = {}
    BY <1>1 DEF Lost
  <1>4. PhantomMeansGap'
    BY <1>1, <1>2, <1>3 DEF FollowInv, PhantomMeansGap
  <1>5. ASSUME trades = 0 PROVE NoSelfMatch' /\ \E g \in Books : Follows(g)' /\ Reached(g)'
    <2>1. PICK old \in Books : Follows(old) /\ Reached(old)
      BY <1>5 DEF FollowInv
    <2> SUFFICES ASSUME NEW us, us = NextDiff.updates, NEW new, new = NextDiff.after,
                        NEW told, told = Told(us, new, old)
                 PROVE  NoSelfMatch' /\ \E g \in Books : Follows(g)' /\ Reached(g)'
      OBVIOUS
    <2>2. us \in Seq(Update) /\ new \in Books /\ Tells(us, new)
      <3>1. CaptureInv /\ WireShrinks
        BY <1>1, TakeDiffShrinks DEF IInv
      <3>2. 1 \in DOMAIN wire /\ NextDiff = wire[1]
        BY <3>1 DEF WireShrinks
      <3> QED
        BY <3>1, <3>2, DiffOfWire DEF PastInv, WirePast, Recorded
    <2>3. told \in Books /\ Tells(us, told) /\ Merges(told, us, new, old)
      BY <2>2, ToldOK
    <2>4. \A l \in Level \ Named(us) : old[l[1]][l[2]] = told[l[1]][l[2]]
      BY <2>3 DEF Goal, Merges
    <2>5. Start("pass1", us)
      BY <1>1 DEF ApplyDiff
    <2>6. Follows(told)'
      BY <2>1, <2>2, <2>3, <2>4, <2>5, StartOK
    <2>7. ASSUME gaps' = 0, NEW l \in Level, l \notin Lost' PROVE Shows(told, new, l)
      <3>1. CASE l \in Named(us)
        BY <2>3, <3>1 DEF Shows, Merges
      <3>2. CASE l \notin Named(us)
        <4>1. gaps = 0 /\ Goal(new, l) = Goal(asOf, l)
          BY <2>7, <3>2, DiffFollowsOn
        <4>2. Shows(old, asOf, l)
          BY <1>1, <1>3, <2>1, <4>1 DEF Reached
        <4> QED
          BY <2>3, <3>2, <4>1, <4>2 DEF Shows, Merges
      <3> QED
        BY <3>1, <3>2
    <2>8. Reached(told)'
      BY <1>1, <2>7 DEF Reached
    <2>9. NoSelfMatch'
      BY <1>5, <2>5 DEF FollowInv, NoSelfMatch, Start, engineVars
    <2> QED
      BY <2>3, <2>6, <2>8, <2>9
  <1> QED
    BY <1>1, <1>4, <1>5 DEF FollowInv

LEMMA MirrorStepFollows == ASSUME IInv, PastInv, FollowInv, MirrorStep PROVE FollowInv'
  <1>1. /\ MirrorRuns /\ UNCHANGED <<stage, gaps, asOf, wire, cutOff>>
        /\ trades' = IF event' # None /\ event'.type = "trade" THEN trades + 1 ELSE trades
    BY DEF MirrorStep, exchangeVars, replayVars
  <1>2. stage # "empty" /\ stage' # "empty"
    <2>1. call # "idle"
      BY <1>1 DEF MirrorRuns, Skip, EngineRuns, EndLoop, NothingToDo, AddLevel, RemoveLevel, SetLevel,
                  Visit, Visiting
    <2> QED
      BY <1>1, <2>1 DEF FollowInv
  <1>3. trades \in Nat /\ trades' \in Nat /\ (trades' = 0 => trades = 0 /\ NoSelfMatch')
    BY <1>1 DEF FollowInv, NoSelfMatch
  <1>4. Lost' = Lost
    BY <1>1 DEF Lost
  <1>5. ASSUME trades' = 0 PROVE NoSelfMatch' /\ \E g \in Books : Follows(g)' /\ Reached(g)'
    <2>1. PICK g \in Books : Follows(g) /\ Reached(g)
      BY <1>3, <1>5 DEF FollowInv
    <2>2. Follows(g)'
      BY <1>1, <1>3, <1>5, <2>1, MirrorRunsOK
    <2>3. Reached(g)'
      BY <1>1, <1>4, <2>1 DEF Reached
    <2> QED
      BY <1>3, <1>5, <2>2, <2>3
  <1>6. PhantomMeansGap'
    <2>0. gaps \in Nat
      BY DEF IInv, SequenceInv
    <2> SUFFICES ASSUME trades = 0, trades' > 0, gaps = 0, Lost = {} PROVE FALSE
      BY <1>1, <1>3, <1>4, <2>0 DEF FollowInv, PhantomMeansGap
    <2>1. PICK g \in Books : Follows(g) /\ Reached(g)
      BY DEF FollowInv
    <2>2. \A l \in Level : Shows(g, asOf, l)
      BY <1>2, <2>1 DEF Reached
    <2>3. asOf \in Books /\ Market(asOf)
      BY DEF PastInv, StreamPast, ReadPast, Markets
    <2>4. Uncrossed(g)
      <3> SUFFICES ASSUME NEW b \in Price, NEW a \in Price, g["Bid"][b] > 0, g["Ask"][a] > 0
                   PROVE  b < a
        BY DEF Uncrossed
      <3>1. <<"Bid", b>> \in Level /\ <<"Ask", a>> \in Level
        BY DEF Level, Side
      <3>2. Shows(g, asOf, <<"Bid", b>>) /\ Shows(g, asOf, <<"Ask", a>>)
        BY <2>2, <3>1
      <3>3. asOf["Bid"][b] > 0 /\ asOf["Ask"][a] > 0
        BY <3>2 DEF Shows, Goal
      <3> QED
        BY <2>3, <3>3 DEF Market
    <2>5. NoSelfMatch'
      BY <1>1, <2>1, <2>4, MirrorIsQuiet DEF FollowInv
    <2> QED
      BY <1>1, <2>5 DEF NoSelfMatch
  <1> QED
    BY <1>2, <1>3, <1>5, <1>6 DEF FollowInv

\* The exchange's steps lose nothing that was not lost.
LEMMA ExchangeFollows == ASSUME FollowInv, ExchangeRuns PROVE FollowInv'
  <1>1. Capturing /\ UNCHANGED <<engineVars, mirrorVars, trades, gaps, asOf, stage>>
    BY DEF ExchangeRuns, ChangeLevel, CloseWindow, TakeSnapshot, StopInLine, replayVars
  <1>2. Lost = {}
    BY <1>1 DEF Capturing, Lost
  <1> QED
    BY <1>1, <1>2, FollowStays

LEMMA FollowKept == ASSUME IInv, PastInv, FollowInv, [Next]_vars PROVE FollowInv'
  <1>1. CASE UNCHANGED vars
    <2>1. Lost' = Lost
      BY <1>1 DEF vars, exchangeVars, Lost
    <2> QED
      BY <1>1, <2>1, FollowStays DEF vars, replayVars
  <1>2. CASE IgnoreDiff \/ SkipDiff
    <2>1. Lost = {} /\ UNCHANGED <<engineVars, mirrorVars, trades, gaps, asOf, stage>>
      BY <1>2 DEF IgnoreDiff, SkipDiff, TakeDiff, Lost, replayVars
    <2> QED
      BY <2>1, FollowStays
  <1>3. CASE Validate \/ EndOfFile
    <2>1. /\ Lost' = Lost /\ UNCHANGED <<engineVars, mirrorVars, trades, gaps, asOf>>
          /\ stage # "empty" /\ stage' # "empty"
      BY <1>3 DEF Validate, EndOfFile, exchangeVars, Lost
    <2> QED
      BY <2>1, FollowStays
  <1>4. CASE Ended \/ TurnedAway
    BY <1>1, <1>4 DEF Ended, TurnedAway
  <1> QED
    BY <1>1, <1>2, <1>3, <1>4, ExchangeFollows, SeedFollows, ApplyFollows, MirrorStepFollows
       DEF Next, ReplayRuns

\* The mirrored book of a gap-free replay between two calls.
LEMMA MirrorsAsOf ==
    ASSUME SeedIsWhole, FollowInv, Settled, gaps = 0, trades = 0
    PROVE  GapFreeMirrors
  <1> SUFFICES ASSUME NEW side \in Side, NEW p \in Price, <<side, p>> \notin Lost
               PROVE  OurBook[side][p] = asOf[side][p]
    BY DEF GapFreeMirrors
  <1>1. PICK g \in Books : Follows(g) /\ Reached(g)
    BY DEF FollowInv
  <1>2. DepthAt(side, p) = g[side][p]
    BY <1>1, MirrorArrives DEF Settled
  <1>3. <<side, p>> \in Level \ Lost
    BY DEF Level
  <1>4. Shows(g, asOf, <<side, p>>)
    BY <1>1, <1>3 DEF Settled, Reached
  <1>5. g[side][p] = asOf[side][p]
    BY <1>4 DEF Shows, Goal
  <1> QED
    BY <1>2, <1>5 DEF OurBook

\* Two lists of one book agree as deep as both go, and one level at least is compared.
LEMMA AlikePasses ==
    ASSUME SeedIsWhole, NEW snap, snap.book \in Books, Market(snap.book), OurBook = snap.book
    PROVE  Passes(snap)
  <1>1. CompareDepth \in Nat /\ CompareDepth > 0 /\ SnapshotDepth \in Nat
    BY DepthAssumption
  <1>2. ASSUME NEW side \in Side PROVE Ours(side) = Theirs(snap, side)
    <2>1. Carried(snap, side) = Ladder(snap.book, side, Filled(snap.book, side))
      BY <1>1, TopLists DEF Carried, SeedIsWhole
    <2>2. Ours(side) = First(CompareDepth, Ladder(snap.book, side, Filled(snap.book, side)))
      BY DEF Ours, Top, Filled
    <2> QED
      BY <2>1, <2>2, Zenon DEF Theirs
  <1>3. PICK side \in Side, p \in Price : snap.book[side][p] > 0
    BY DEF Market
  <1>4. 1 \in DOMAIN Ours(side)
    <2>1. Filled(snap.book, side) # {}
      BY <1>3 DEF Filled
    <2>2. Ours(side) = Top(CompareDepth, snap.book, side)
      BY DEF Ours
    <2> QED
      BY <1>1, <2>1, <2>2, TopLists
  <1>5. Compared(snap, side) # {}
    BY <1>2, <1>4 DEF Compared
  <1> QED
    BY <1>2, <1>5 DEF Passes

\* A comparison of a gap-free replay passes.
LEMMA ValidateFails ==
    ASSUME SeedIsWhole, IInv, PastInv, FollowInv, GapFreeValidates, Validate
    PROVE  GapFreeValidates'
  <1> DEFINE reached == {snap \in targets : snap.id <= lastU}
             passing == {snap \in reached : Hit(snap) /\ Passes(snap)}
             failing == {snap \in reached : Hit(snap) /\ ~Passes(snap)}
  <1>1. /\ stage = "validating" /\ call = "idle" /\ fail' = fail + Cardinality(failing)
        /\ UNCHANGED <<gaps, wire, cutOff>>
    BY DEF Validate, exchangeVars
  <1>2. Lost' = Lost
    BY <1>1 DEF Lost
  <1> SUFFICES ASSUME gaps = 0, Lost = {} PROVE fail' = 0
    BY <1>1, <1>2 DEF GapFreeValidates
  <1>3. trades = 0
    BY DEF FollowInv, PhantomMeansGap
  <1>4. \A side \in Side, p \in Price : OurBook[side][p] = asOf[side][p]
    BY <1>1, <1>3, MirrorsAsOf DEF Settled, GapFreeMirrors
  <1>5. asOf \in Books /\ Market(asOf) /\ \A snap \in targets : snap.id = lastU => snap.book = asOf
    BY DEF PastInv, StreamPast, ReadPast, Markets
  <1>6. OurBook = asOf
    BY <1>4, <1>5 DEF OurBook, Books
  <1>7. \A snap \in targets : Hit(snap) => Passes(snap)
    BY <1>5, <1>6, AlikePasses DEF Hit
  <1>8. failing = {}
    BY <1>7
  <1>9. fail = 0
    BY DEF GapFreeValidates
  <1> HIDE DEF failing
  <1> QED
    BY <1>1, <1>8, <1>9, FS_EmptySet

\* Nothing else fails a validation, and what was missed or lost stays so.
LEMMA ValidatesKept ==
    ASSUME SeedIsWhole, IInv, PastInv, FollowInv, GapFreeValidates, [Next]_vars
    PROVE  GapFreeValidates'
  <1>0. gaps \in Nat
    BY DEF IInv, SequenceInv
  <1>1. ASSUME UNCHANGED <<fail, gaps>>, Lost \subseteq Lost' PROVE GapFreeValidates'
    BY <1>1 DEF GapFreeValidates
  <1>2. CASE ExchangeRuns
    <2>1. Capturing /\ UNCHANGED <<fail, gaps>>
      BY <1>2 DEF ExchangeRuns, ChangeLevel, CloseWindow, TakeSnapshot, StopInLine, replayVars
    <2>2. Lost = {}
      BY <2>1 DEF Capturing, Lost
    <2> QED
      BY <1>1, <2>1, <2>2
  <1>3. CASE IgnoreDiff \/ SkipDiff
    <2>1. Lost = {} /\ UNCHANGED <<fail, gaps>>
      BY <1>3 DEF IgnoreDiff, SkipDiff, TakeDiff, Lost, replayVars
    <2> QED
      BY <1>1, <2>1
  <1>4. CASE ApplyNextDiff
    <2>1. /\ Lost = {} /\ fail' = fail
          /\ gaps' = IF IsGap(NextDiff) THEN gaps + 1 ELSE gaps
      BY <1>4 DEF ApplyNextDiff, TakeDiff, Lost
    <2> QED
      BY <1>0, <2>1 DEF GapFreeValidates
  <1>5. CASE MirrorStep \/ EndOfFile \/ UNCHANGED vars \/ \E snap \in targets : Seed(snap)
    <2>1. Lost' = Lost /\ UNCHANGED <<fail, gaps>>
      BY <1>5 DEF MirrorStep, EndOfFile, Seed, vars, exchangeVars, replayVars, Lost
    <2> QED
      BY <1>1, <2>1
  <1>6. CASE Ended \/ TurnedAway
    BY <1>5, <1>6 DEF Ended, TurnedAway
  <1> QED
    BY <1>2, <1>3, <1>4, <1>5, <1>6, ValidateFails DEF Next, ReplayRuns

-----------------------------------------------------------------------------
(* Types                                                                    *)

\* The engine's own invariants hold of the mirror's engine; the ledger plays no part.
EngineProofs == INSTANCE ReferenceEngineProofs WITH
              OrderId <- Level, Participant <- {"mirror"}, StpPolicies <- {"None"},
              stp <- "None", ledger <- event

LEMMA EngineTypeKept ==
    ASSUME EngineProofs!TypeOK, EngineProofs!Next \/ UNCHANGED engineVars PROVE EngineProofs!TypeOK'
  <1>1. None \notin EngineProofs!LiveRef
    BY NoneAssumption DEF EngineProofs!LiveRef, EngineProofs!Side
  <1>2. None \notin EngineProofs!Trades /\ None \notin EngineProofs!Cancels
    BY NoEventAssumption DEF EngineProofs!Trades, EngineProofs!Cancels, EngineProofs!Side, Side
  <1>3. {"None"} \subseteq {"None", "CancelIncoming", "CancelResting"}
    OBVIOUS
  <1>4. EngineProofs!TypeOK /\ [EngineProofs!Next]_(EngineProofs!vars) => EngineProofs!TypeOK'
    BY <1>1, <1>2, <1>3, PriceAssumption, QtyAssumption, EngineProofs!TypeInductive
  <1> QED
    BY <1>4 DEF engineVars, EngineProofs!vars

LEMMA EngineTypes == EngineProofs!TypeOK => Engine!TypeOK
  BY DEF EngineProofs!TypeOK, EngineProofs!LiveRef, EngineProofs!Order, EngineProofs!Taker,
         EngineProofs!Side, EngineProofs!Tif, Engine!TypeOK, Engine!LiveRef, Engine!Order,
         Engine!Taker, Engine!Side, Engine!Tif

LEMMA EngineTypesInit == Engine!Init => EngineProofs!TypeOK
  <1> SUFFICES ASSUME Engine!Init PROVE EngineProofs!TypeOK
    OBVIOUS
  <1>1. book = [side \in {"Bid", "Ask"} |-> [p \in Price |-> <<>>]] /\ live = [l \in Level |-> None]
        /\ pc = "idle" /\ taker = None
    BY DEF Engine!Init, Engine!Side
  <1> QED
    BY <1>1 DEF EngineProofs!TypeOK, EngineProofs!Side

LEMMA SameStart ==
    ASSUME NEW id \in Level, NEW side \in Side, NEW price \in Price, NEW qty \in Qty,
           Engine!AddLimit(id, "mirror", side, price, qty, "GTC")
    PROVE  EngineProofs!Next
  <1>1. EngineProofs!AddLimit(id, "mirror", side, price, qty, "GTC")
    BY DEF Engine!AddLimit, Engine!ValidNew, Engine!StartMatch, Engine!Accepted,
           EngineProofs!AddLimit, EngineProofs!ValidNew, EngineProofs!StartMatch, EngineProofs!Accepted
  <1>2. side \in EngineProofs!Side /\ "GTC" \in EngineProofs!Tif /\ "mirror" \in {"mirror"}
    BY DEF EngineProofs!Side, EngineProofs!Tif, Side
  <1> QED
    BY <1>1, <1>2 DEF EngineProofs!Next, EngineProofs!Enter

LEMMA SameReject == ASSUME NEW id \in Level, Engine!RejectUnknown(id) PROVE EngineProofs!Next
  <1>1. EngineProofs!RejectUnknown(id)
    BY DEF Engine!RejectUnknown, Engine!Rejected, EngineProofs!RejectUnknown, EngineProofs!Rejected
  <1> QED
    BY <1>1 DEF EngineProofs!Next, EngineProofs!Enter

LEMMA SameRemoval == \A s, i : EngineProofs!RemoveAt(s, i) = Engine!RemoveAt(s, i)
  BY DEF EngineProofs!RemoveAt, Engine!RemoveAt

LEMMA SameUnrest ==
    /\ \A side, price, i : Engine!Unrest(side, price, i) => EngineProofs!Unrest(side, price, i)
    /\ \A id, i : Engine!RestsAt(id, i) => EngineProofs!RestsAt(id, i)
  <1>1. ASSUME NEW id, NEW i, Engine!RestsAt(id, i) PROVE EngineProofs!RestsAt(id, i)
    BY <1>1 DEF Engine!RestsAt, EngineProofs!RestsAt
  <1>2. ASSUME NEW side, NEW price, NEW i, Engine!Unrest(side, price, i)
        PROVE  EngineProofs!Unrest(side, price, i)
    <2>1. book' = [book EXCEPT ![side][price] = EngineProofs!RemoveAt(@, i)]
      BY <1>2, SameRemoval DEF Engine!Unrest
    <2>2. live' = [live EXCEPT ![book[side][price][i].id] = None]
      BY <1>2, SameRemoval DEF Engine!Unrest
    <2> QED
      BY <2>1, <2>2 DEF EngineProofs!Unrest
  <1> QED
    BY <1>1, <1>2

LEMMA SameCancel == ASSUME NEW id \in Level, NEW i, Engine!Cancel(id, i) PROVE EngineProofs!Next
  <1>1. EngineProofs!Cancel(id, i)
    BY SameUnrest DEF Engine!Cancel, Engine!Cancelled, EngineProofs!Cancel, EngineProofs!Cancelled
  <1>2. live[id] # None /\ i \in DOMAIN book[live[id].side][live[id].price]
    BY DEF Engine!Cancel, Engine!RestsAt
  <1> QED
    BY <1>1, <1>2 DEF EngineProofs!Next, EngineProofs!Enter

LEMMA SameModify ==
    ASSUME NEW id \in Level, NEW i, NEW price \in Price, NEW qty \in Qty,
           Engine!Reduce(id, i, price, qty) \/ Engine!Replace(id, i, price, qty)
    PROVE  EngineProofs!Next
  <1>1. Engine!Reduce(id, i, price, qty) => EngineProofs!Reduce(id, i, price, qty)
    BY SameUnrest, Zenon
       DEF Engine!Reduce, Engine!CanReduce, EngineProofs!Reduce, EngineProofs!CanReduce
  <1>3. Engine!Replace(id, i, price, qty) => EngineProofs!Replace(id, i, price, qty)
    BY SameUnrest, ZenonT(60)
       DEF Engine!Replace, Engine!CanReduce, Engine!StartMatch, EngineProofs!Replace,
           EngineProofs!CanReduce, EngineProofs!StartMatch
  <1>2. live[id] # None /\ i \in DOMAIN book[live[id].side][live[id].price]
    BY ZenonT(60) DEF Engine!Reduce, Engine!Replace, Engine!RestsAt
  <1> QED
    BY <1>1, <1>2, <1>3 DEF EngineProofs!Next, EngineProofs!Enter

LEMMA SameContinue == Engine!Continue => EngineProofs!Next
  <1> USE DEF Engine!Matching, Engine!Facing, Engine!Opposite, Engine!IsBest, Engine!Levels,
              Engine!Better, Engine!Crosses, Engine!SelfTrade, Engine!Oldest,
              Engine!Return, Engine!LoopEnds, Engine!Cancelled, Engine!Traded,
              EngineProofs!Matching, EngineProofs!Facing, EngineProofs!Opposite,
              EngineProofs!IsBest, EngineProofs!Levels, EngineProofs!Better, EngineProofs!Crosses,
              EngineProofs!SelfTrade, EngineProofs!Oldest,
              EngineProofs!Return, EngineProofs!LoopEnds, EngineProofs!Cancelled, EngineProofs!Traded
  <1>1. ASSUME NEW p \in Price, Engine!StpCancelIncoming(p) PROVE EngineProofs!StpCancelIncoming(p)
    BY <1>1 DEF Engine!StpCancelIncoming, EngineProofs!StpCancelIncoming
  <1>2. ASSUME NEW p \in Price, Engine!StpCancelResting(p) PROVE EngineProofs!StpCancelResting(p)
    BY <1>2, SameUnrest DEF Engine!StpCancelResting, EngineProofs!StpCancelResting
  <1>3. ASSUME NEW p \in Price, Engine!Trade(p) PROVE EngineProofs!Trade(p)
    BY <1>3 DEF Engine!Trade, EngineProofs!Trade
  <1>4. ASSUME NEW p \in Price, Engine!RemoveFilled(p) PROVE EngineProofs!RemoveFilled(p)
    BY <1>4, SameUnrest DEF Engine!RemoveFilled, EngineProofs!RemoveFilled
  <1>5. Engine!FullyMatched => EngineProofs!FullyMatched
    BY DEF Engine!FullyMatched, EngineProofs!FullyMatched
  <1>6. Engine!DropRemainder => EngineProofs!DropRemainder
    BY DEF Engine!DropRemainder, EngineProofs!DropRemainder
  <1>7. Engine!Rest => EngineProofs!Rest
    BY DEF Engine!Rest, EngineProofs!Rest
  <1> QED
    BY <1>1, <1>2, <1>3, <1>4, <1>5, <1>6, <1>7
       DEF Engine!Continue, EngineProofs!Next, EngineProofs!Continue

\* The second sequence ends with the first.
Ends(s, t) ==
    Len(s) <= Len(t) /\ \A i \in 1 .. Len(s) : s[i] = t[(Len(t) - Len(s)) + i]

LEMMA EndIsSuffix ==
    ASSUME NEW S, NEW s \in Seq(S), NEW t \in Seq(S), Ends(s, t) PROVE IsSuffix(s, t)
  <1> DEFINE rs == Reverse(s)
             rt == Reverse(t)
             m == Len(s)
             n == Len(t)
  <1>1. m \in Nat /\ n \in Nat /\ m <= n /\ \A i \in 1 .. m : s[i] = t[(n - m) + i]
    BY LenProperties DEF Ends
  <1>2. \A i \in 1 .. m : s[i] \in S
    BY ElementOfSeq
  <1>3. \A i \in 1 .. n : t[i] \in S
    BY ElementOfSeq
  <1>4. rs = [i \in 1 .. m |-> s[(m - i) + 1]] /\ rt = [i \in 1 .. n |-> t[(n - i) + 1]]
    BY DEF Reverse
  <1> HIDE DEF rs, rt, m, n
  <1>5. rs \in Seq(S) /\ Len(rs) = m
    BY <1>1, <1>2, <1>4
  <1>6. rt \in Seq(S) /\ Len(rt) = n
    BY <1>1, <1>3, <1>4
  <1>7. ASSUME NEW i \in 1 .. m PROVE rs[i] = rt[i]
    <2>1. (m - i) + 1 \in 1 .. m /\ (n - m) + ((m - i) + 1) = (n - i) + 1 /\ i \in 1 .. n
      BY <1>1
    <2>2. s[(m - i) + 1] = t[(n - i) + 1]
      BY <1>1, <2>1
    <2> QED
      BY <1>4, <2>1, <2>2
  <1>8. /\ SubSeq(rt, 1, m) \in Seq(S) /\ Len(SubSeq(rt, 1, m)) = m
        /\ \A i \in 1 .. m : SubSeq(rt, 1, m)[i] = rt[i]
    <2>1. \A i \in 1 .. m : rt[i] \in S
      BY <1>1, <1>6, ElementOfSeq
    <2>2. /\ SubSeq(rt, 1, m) \in Seq(S)
          /\ Len(SubSeq(rt, 1, m)) = IF 1 <= m THEN m - 1 + 1 ELSE 0
          /\ \A i \in 1 .. m - 1 + 1 : SubSeq(rt, 1, m)[i] = rt[1 + i - 1]
      BY <1>1, <2>1, SubSeqProperties
    <2>3. Len(SubSeq(rt, 1, m)) = m
      BY <1>1, <2>2
    <2>4. \A i \in 1 .. m : SubSeq(rt, 1, m)[i] = rt[i]
      BY <1>1, <2>2
    <2> QED
      BY <2>2, <2>3, <2>4
  <1>9. SubSeq(rs, 1, m) = rs
    BY <1>5, SubSeqFull
  <1>10. rs = SubSeq(rt, 1, m)
    BY <1>5, <1>7, <1>8, SeqEqual
  <1>11. IsPrefix(rs, rt)
    BY <1>1, <1>5, <1>6, <1>9, <1>10 DEF IsPrefix
  <1> QED
    BY <1>11 DEF IsSuffix, rs, rt

LEMMA EndsShorter ==
    ASSUME NEW S, NEW s \in Seq(S), NEW t \in Seq(S), Ends(s, t), s # <<>>
    PROVE  Tail(s) \in Seq(S) /\ Ends(Tail(s), t)
  <1>1. /\ Len(s) \in Nat /\ Len(s) > 0 /\ Len(t) \in Nat
        /\ Len(s) <= Len(t) /\ \A i \in 1 .. Len(s) : s[i] = t[(Len(t) - Len(s)) + i]
    BY EmptySeq, LenProperties DEF Ends
  <1>2. /\ Tail(s) \in Seq(S) /\ Len(Tail(s)) = Len(s) - 1
        /\ \A i \in 1 .. Len(Tail(s)) : Tail(s)[i] = s[i + 1]
    BY HeadTailProperties
  <1>3. ASSUME NEW i \in 1 .. Len(Tail(s))
        PROVE  Tail(s)[i] = t[(Len(t) - Len(Tail(s))) + i]
    <2>1. /\ i + 1 \in 1 .. Len(s)
          /\ (Len(t) - Len(s)) + (i + 1) = (Len(t) - Len(Tail(s))) + i
      BY <1>1, <1>2
    <2>2. Tail(s)[i] = s[i + 1]
      BY <1>2
    <2>3. s[i + 1] = t[(Len(t) - Len(s)) + (i + 1)]
      BY <1>1, <2>1
    <2> QED
      BY <2>1, <2>2, <2>3
  <1>4. Len(Tail(s)) <= Len(t)
    BY <1>1, <1>2
  <1> QED
    BY <1>2, <1>3, <1>4 DEF Ends

\* Types of the mirror, and what is to do is the end of what was given.
MirrorTypes ==
    /\ EngineProofs!TypeOK
    /\ tracked \subseteq Level /\ call \in {"idle", "snapshot", "pass1", "pass2"}
    /\ call = "idle" => pc = "idle" /\ todo = <<>>
    /\ updates \in Seq(Update) /\ todo \in Seq(Update) /\ Ends(todo, updates)

LEMMA MirrorTyped == MirrorTypes => MirrorTypeOK
  BY EngineTypes, EndIsSuffix DEF MirrorTypes, MirrorTypeOK

LEMMA MirrorTypesInit == MirrorInit => MirrorTypes
  <1> SUFFICES ASSUME MirrorInit PROVE MirrorTypes
    OBVIOUS
  <1>1. EngineProofs!TypeOK
    BY EngineTypesInit DEF MirrorInit
  <1>2. tracked = {} /\ call = "idle" /\ pc = "idle" /\ updates = <<>> /\ todo = <<>>
    BY DEF MirrorInit, Engine!Init
  <1>3. <<>> \in Seq(Update) /\ Ends(<<>>, <<>>)
    BY DEF Ends
  <1> QED
    BY <1>1, <1>2, <1>3 DEF MirrorTypes

\* A call begins with all of its updates.
LEMMA StartTyped ==
    ASSUME MirrorTypes, NEW us \in Seq(Update), NEW name \in {"snapshot", "pass1"}, Start(name, us)
    PROVE  MirrorTypes'
  <1>1. call' = name /\ updates' = us /\ todo' = us /\ UNCHANGED <<engineVars, tracked>>
    BY DEF Start
  <1>2. EngineProofs!TypeOK'
    BY <1>1, EngineTypeKept DEF MirrorTypes
  <1>3. Ends(us, us)
    <2>1. Len(us) \in Nat
      BY LenProperties
    <2> QED
      BY <2>1 DEF Ends
  <1>4. Ends(todo, updates)'
    BY <1>1, <1>3 DEF Ends
  <1> QED
    BY <1>1, <1>2, <1>4 DEF MirrorTypes

LEMMA MirrorRestsTyped ==
    ASSUME MirrorTypes, UNCHANGED <<engineVars, mirrorVars>> PROVE MirrorTypes'
  <1>1. EngineProofs!TypeOK'
    BY EngineTypeKept DEF MirrorTypes
  <1>2. Ends(todo, updates)'
    BY DEF MirrorTypes, mirrorVars, Ends
  <1> QED
    BY <1>1, <1>2 DEF MirrorTypes, mirrorVars, engineVars

\* A visit takes one update away, and the engine takes one step at most.
LEMMA VisitTyped ==
    ASSUME MirrorTypes, Visiting, todo' = Tail(todo), UNCHANGED <<call, updates>>,
           EngineProofs!Next \/ UNCHANGED engineVars, tracked' \subseteq Level
    PROVE  MirrorTypes'
  <1>1. EngineProofs!TypeOK'
    BY EngineTypeKept DEF MirrorTypes
  <1>2. Tail(todo) \in Seq(Update) /\ Ends(Tail(todo), updates)
    BY EndsShorter DEF MirrorTypes, Visiting
  <1>3. Ends(todo, updates)'
    BY <1>2 DEF Ends
  <1> QED
    BY <1>1, <1>2, <1>3 DEF MirrorTypes, Visiting

LEMMA MirrorRunsTyped == ASSUME MirrorTypes, MirrorRuns PROVE MirrorTypes'
  <1>1. CASE Skip
    BY <1>1, VisitTyped DEF Skip, MirrorTypes
  <1>2. CASE EngineRuns
    <2>1. EngineProofs!TypeOK'
      BY <1>2, SameContinue, EngineTypeKept DEF EngineRuns, MirrorTypes
    <2>2. Ends(todo, updates)'
      BY <1>2 DEF EngineRuns, mirrorVars, MirrorTypes, Ends
    <2> QED
      BY <1>2, <2>1, <2>2 DEF EngineRuns, mirrorVars, MirrorTypes
  <1>3. CASE EndLoop
    <2>1. EngineProofs!TypeOK'
      BY <1>3, EngineTypeKept DEF EndLoop, MirrorTypes
    <2>2. todo' \in Seq(Update) /\ Ends(todo, updates)'
      <3>1. Len(updates) \in Nat /\ updates' = updates /\ todo' \in {updates, <<>>}
        BY <1>3, LenProperties DEF EndLoop, MirrorTypes
      <3>2. Ends(updates, updates) /\ Ends(<<>>, updates)
        BY <3>1 DEF Ends
      <3>3. Ends(todo, updates)'
        BY <3>1, <3>2 DEF Ends
      <3>4. todo' \in Seq(Update)
        <4>1. updates \in Seq(Update) /\ <<>> \in Seq(Update)
          BY DEF MirrorTypes
        <4> QED
          BY <3>1, <4>1
      <3> QED
        BY <3>3, <3>4
    <2> QED
      BY <1>3, <2>1, <2>2 DEF EndLoop, MirrorTypes, engineVars
  <1>4. ASSUME NEW u \in Update, NothingToDo(u) \/ AddLevel(u) \/ RemoveLevel(u) \/ SetLevel(u)
        PROVE  MirrorTypes'
    <2>1. Id(u) \in Level /\ u.side \in Side /\ u.price \in Price /\ u.qty \in Qty
      BY DEF Id, Level, Update
    <2>2. Visiting /\ todo' = Tail(todo) /\ UNCHANGED <<call, updates>> /\ tracked' \subseteq Level
      BY <1>4, <2>1 DEF NothingToDo, AddLevel, RemoveLevel, SetLevel, Visit, MirrorTypes
    <2>3. CASE NothingToDo(u)
      BY <2>2, <2>3, VisitTyped DEF NothingToDo
    <2>4. CASE AddLevel(u)
      BY <2>1, <2>2, <2>4, SameStart, VisitTyped DEF AddLevel
    <2>5. CASE RemoveLevel(u)
      BY <2>1, <2>2, <2>5, SameCancel, SameReject, VisitTyped DEF RemoveLevel
    <2>6. CASE SetLevel(u)
      BY <2>1, <2>2, <2>6, SameModify, SameReject, VisitTyped DEF SetLevel
    <2> QED
      BY <1>4, <2>3, <2>4, <2>5, <2>6
  <1> QED
    BY <1>1, <1>2, <1>3, <1>4 DEF MirrorRuns

\* Types of the replay that the other invariants do not have.
ReplayTypes ==
    /\ MirrorTypes
    /\ stage \in {"empty", "reading", "validating", "ended"}
    /\ stage = "validating" => synced
    /\ cutOff = None \/ cutOff \subseteq Level

LEMMA ReplayTypesKept == ASSUME IInv, PastInv, ReplayTypes, [Next]_vars PROVE ReplayTypes'
  <1> USE DEF exchangeVars, replayVars
  <1>1. ASSUME UNCHANGED <<engineVars, mirrorVars>> PROVE MirrorTypes'
    BY <1>1, MirrorRestsTyped DEF ReplayTypes
  <1>2. ASSUME MirrorTypes', UNCHANGED <<stage, synced, cutOff>> PROVE ReplayTypes'
    BY <1>2 DEF ReplayTypes
  <1>3. CASE \E l \in Level, q \in Qty : ChangeLevel(l, q)
    BY <1>1, <1>2, <1>3 DEF ChangeLevel
  <1>4. CASE CloseWindow \/ TakeSnapshot
    BY <1>1, <1>2, <1>4 DEF CloseWindow, TakeSnapshot
  <1>5. ASSUME NEW line \in Capture!Cuts(Line), StopInLine(line) PROVE ReplayTypes'
    <2>1. cutOff' \subseteq window.touched /\ UNCHANGED <<engineVars, mirrorVars, stage, synced>>
      BY <1>5 DEF StopInLine
    <2>2. window.touched \subseteq Level
      BY DEF IInv, CaptureInv
    <2> QED
      BY <1>1, <2>1, <2>2 DEF ReplayTypes
  <1>6. ASSUME NEW snap \in targets, Seed(snap) PROVE ReplayTypes'
    <2> SUFFICES ASSUME NEW us, us = Carried(snap, "Bid") \o Carried(snap, "Ask") PROVE ReplayTypes'
      OBVIOUS
    <2>1. snap.book \in Books
      BY DEF PastInv, StreamPast, ReadPast, Markets
    <2>2. us \in Seq(Update)
      BY <2>1, SeedLists
    <2>3. Start("snapshot", us) /\ stage' = "reading" /\ UNCHANGED cutOff
      BY <1>6 DEF Seed, ApplySnapshot
    <2> QED
      BY <2>2, <2>3, StartTyped DEF ReplayTypes
  <1>7. CASE ApplyNextDiff
    <2>1. /\ TakeDiff /\ Start("pass1", NextDiff.updates) /\ synced' = TRUE
          /\ stage' = "validating" /\ UNCHANGED cutOff
      BY <1>7 DEF ApplyNextDiff, ApplyDiff
    <2>2. CaptureInv /\ WireShrinks
      BY <2>1, TakeDiffShrinks DEF IInv
    <2>3. NextDiff.updates \in Seq(Update)
      BY <2>2, DiffOfWire DEF WireShrinks
    <2> QED
      BY <2>1, <2>3, StartTyped DEF ReplayTypes
  <1>8. CASE IgnoreDiff \/ SkipDiff
    BY <1>1, <1>2, <1>8 DEF IgnoreDiff, SkipDiff
  <1>9. CASE MirrorStep
    <2>1. MirrorTypes'
      BY <1>9, MirrorRunsTyped DEF MirrorStep, ReplayTypes
    <2> QED
      BY <1>2, <1>9, <2>1 DEF MirrorStep
  <1>10. CASE Validate \/ EndOfFile
    <2>1. UNCHANGED <<engineVars, mirrorVars, cutOff>> /\ stage' \in {"reading", "ended"}
      BY <1>10 DEF Validate, EndOfFile
    <2> QED
      BY <1>1, <2>1 DEF ReplayTypes
  <1>11. CASE UNCHANGED vars
    BY <1>1, <1>2, <1>11 DEF vars
  <1>12. CASE Ended \/ TurnedAway
    BY <1>11, <1>12 DEF Ended, TurnedAway
  <1> QED
    BY <1>3, <1>4, <1>5, <1>6, <1>7, <1>8, <1>9, <1>10, <1>11, <1>12
       DEF Next, ExchangeRuns, ReplayRuns

LEMMA ReplayTyped == IInv /\ PastInv /\ FollowInv /\ ReplayTypes => TypeOK
  <1> SUFFICES ASSUME IInv, PastInv, FollowInv, ReplayTypes PROVE TypeOK
    OBVIOUS
  <1>1. MirrorTypeOK
    BY MirrorTyped DEF ReplayTypes
  <1>2. exchange \in Books /\ asOf \in Books /\ lastU \in 0 .. lastId
    BY DEF PastInv, StreamPast, ReadPast, Markets, IInv, CaptureInv
  <1>3. ASSUME NEW i \in DOMAIN wire
        PROVE  wire[i].first \in 1 .. wire[i].last /\ wire[i].last < window.first
    <2>1. /\ wire[i].first \in Nat /\ wire[i].last \in Nat
          /\ 1 <= wire[i].first /\ wire[i].first <= wire[i].last
      BY DiffOfWire DEF IInv
    <2>2. wire[i].last < window.first
      BY DEF IInv, CaptureInv
    <2> QED
      BY <2>1, <2>2
  <1>4. {trades, gaps, unreachable, pass, fail} \subseteq Nat
    BY DEF FollowInv, IInv, SequenceInv, AccountInv
  <1> QED
    BY <1>1, <1>2, <1>3, <1>4 DEF TypeOK, ReplayTypes

-----------------------------------------------------------------------------
(* Theorems                                                                *)

\* The invariant is inductive, for every capture and whatever the mirror does.
THEOREM Inductive == Spec => []IInv
  <1>1. IInv /\ [Next]_vars => IInv'
    <2> SUFFICES ASSUME IInv, [Next]_vars PROVE IInv'
      OBVIOUS
    <2>1. CASE ExchangeRuns
      BY <2>1, ChangeLevelOK, CloseWindowOK, TakeSnapshotOK, StopInLineOK DEF ExchangeRuns
    <2>2. CASE ReplayRuns
      <3>1. CASE MirrorStep
        BY <3>1, StutterOK DEF MirrorStep, exchangeVars, replayVars
      <3>2. CASE Ended \/ TurnedAway
        BY <3>2, StutterOK DEF Ended, TurnedAway, vars, exchangeVars, replayVars
      <3> QED
        BY <2>2, <3>1, <3>2, SeedOK, IgnoreDiffOK, SkipDiffOK, ApplyNextDiffOK, ValidateOK, EndOfFileOK
           DEF ReplayRuns
    <2>3. CASE UNCHANGED vars
      BY <2>3, StutterOK DEF vars, exchangeVars, replayVars
    <2> QED
      BY <2>1, <2>2, <2>3 DEF Next
  <1> QED
    BY <1>1, InitOK, PTL DEF Spec

\* Gaps are counted exactly when an id after the seed was missed, wherever in the
\* stream the seed lands, and whichever diffs are lost, stale or cut off.
THEOREM GapsAreExact == Spec => []GapsAreLosses
  <1>1. IInv => GapsAreLosses
    BY DEF IInv, SequenceInv, GapsAreLosses, Settled
  <1> QED
    BY <1>1, Inductive, PTL

\* Each id at which a capture has snapshots is the seed's, a target or in one counter,
\* and none in two, however often the capture repeats it.
THEOREM SnapshotsAreCounted == Spec => []SnapshotsAccountedFor
  <1>1. IInv => SnapshotsAccountedFor
    BY DEF IInv, AccountInv
  <1> QED
    BY <1>1, Inductive, PTL

\* However many levels a line lists and wherever it ends, no bid of it is lost
\* unless the line is refused.
THEOREM BidsAreNotCut == Spec => []CutLosesAsksOnly
  <1>1. IInv => CutLosesAsksOnly
    BY DEF IInv
  <1> QED
    BY <1>1, Inductive, PTL

\* The diffs and snapshots of a capture are windows and books of one past of the
\* exchange, and the mirror follows a book of that past: an invariant, for every
\* capture, whichever diffs are lost.
THEOREM ReplayInductive == Spec => [](PastInv /\ FollowInv)
  <1>1. Init => PastInv /\ FollowInv
    BY PastInit, FollowInit
  <1>2. IInv /\ PastInv /\ FollowInv /\ [Next]_vars => (PastInv /\ FollowInv)'
    BY PastKept, FollowKept
  <1> QED
    BY <1>1, <1>2, Inductive, PTL DEF Spec

\* The mirror trades with itself only behind a gap or a line that was cut off, however
\* many levels the seed carried: the anomaly is never the mirror's own making.
THEOREM PhantomsComeFromGaps == Spec => []PhantomMeansGap
  <1>1. FollowInv => PhantomMeansGap
    BY DEF FollowInv
  <1> QED
    BY <1>1, ReplayInductive, PTL

\* From a seed that carries the whole book, and as long as no gap is counted, the
\* mirrored book is the exchange's at lastU, but for what was cut off the last line.
THEOREM MirrorsWithoutGap == ASSUME SeedIsWhole PROVE Spec => []GapFreeMirrors
  <1>1. FollowInv => GapFreeMirrors
    BY MirrorsAsOf DEF GapFreeMirrors
  <1> QED
    BY <1>1, ReplayInductive, PTL

\* From such a seed, a replay without a gap fails no validation.
THEOREM ValidatesWithoutGap == ASSUME SeedIsWhole PROVE Spec => []GapFreeValidates
  <1>1. Init => GapFreeValidates
    BY DEF Init, GapFreeValidates
  <1>2. /\ IInv /\ PastInv /\ FollowInv /\ GapFreeValidates /\ [Next]_vars
        => GapFreeValidates'
    BY ValidatesKept
  <1> QED
    BY <1>1, <1>2, Inductive, ReplayInductive, PTL DEF Spec

\* Types of the replay, of its mirror and of the engine under it, whatever is lost and
\* whatever the mirror trades with itself behind a gap.
THEOREM ReplayTypeCorrect == Spec => []TypeOK
  <1>1. Init => ReplayTypes
    BY MirrorTypesInit DEF Init, ReplayTypes
  <1>2. IInv /\ PastInv /\ ReplayTypes /\ [Next]_vars => ReplayTypes'
    BY ReplayTypesKept
  <1> QED
    BY <1>1, <1>2, ReplayTyped, Inductive, ReplayInductive, PTL DEF Spec
===============================================================================
