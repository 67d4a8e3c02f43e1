--------------------------- MODULE MarketMakerProofs ---------------------------
(***************************************************************************)
(* Safety of MarketMaker for every quote size, cap, set of prices, books   *)
(* and prints: how far the position can overshoot the cap, that quotes are *)
(* passive, and that the queue estimate stays within its level.            *)
(***************************************************************************)
EXTENDS MarketMaker, TLAPS

-----------------------------------------------------------------------------
(* Arithmetic of the quote simulator                                       *)

\* Whole division, as a number between two products.
LEMMA Division ==
    ASSUME NEW m \in Nat, NEW d \in Nat \ {0}
    PROVE  /\ m \div d \in Nat
           /\ (m \div d) * d <= m
           /\ m < (m \div d) * d + d
  OBVIOUS

\* A factor that is not zero can be cancelled.
LEMMA Cancellation ==
    ASSUME NEW x \in Int, NEW y \in Int, NEW k \in Nat \ {0}, x * k < y * k
    PROVE  x < y
  OBVIOUS

\* Both factors of a product may grow.
LEMMA ProductMonotone ==
    ASSUME NEW x \in Int, NEW y \in Int, NEW k \in Nat, x <= y
    PROVE  x * k <= y * k
  OBVIOUS

\* A shrinking level takes from ahead of us at most what left it, and leaves at
\* most what is in it.
LEMMA ProratedBounds ==
    ASSUME NEW ahead \in Nat, NEW old \in Nat \ {0}, NEW new \in Nat, new < old,
           ahead <= Grain * old
    PROVE  /\ Prorated(ahead, old, new) \in Nat
           /\ Prorated(ahead, old, new) <= Grain * new
           /\ Prorated(ahead, old, new) <= ahead
           /\ ahead - Prorated(ahead, old, new) <= Grain * (old - new)
  <1> DEFINE m == ahead * new + old - 1
             d == m \div old
             k == old - new
  <1>0. ahead * new \in Nat /\ m \in Nat /\ Grain \in Nat /\ k \in Nat \ {0}
    BY GrainAssumption
  <1>1. d \in Nat /\ d * old <= m /\ m < d * old + old
    BY <1>0, Division
  <1>2. Prorated(ahead, old, new) = d
    BY DEF Prorated
  <1>3. ahead * new <= (Grain * old) * new
    BY <1>0, ProductMonotone
  <1>4. (Grain * old) * new = (Grain * new) * old /\ Grain * new \in Nat /\ Grain * k \in Nat
    BY <1>0
  <1> HIDE DEF d
  <1>5. d <= Grain * new
    <2>1. d * old < (Grain * new) * old + old
      BY <1>0, <1>1, <1>3, <1>4
    <2>2. (Grain * new) * old + old = (Grain * new + 1) * old
      BY <1>0, <1>4
    <2>3. d < Grain * new + 1
      BY <1>0, <1>1, <1>4, <2>1, <2>2, Cancellation
    <2> QED
      BY <1>0, <1>1, <1>4, <2>3
  <1>6. d <= ahead
    <2>1. ahead * new <= ahead * old
      BY <1>0
    <2>2. d * old < ahead * old + old
      BY <1>0, <1>1, <2>1
    <2>3. ahead * old + old = (ahead + 1) * old
      OBVIOUS
    <2>4. d < ahead + 1
      BY <1>1, <2>2, <2>3, Cancellation
    <2> QED
      BY <1>1, <2>4
  <1>7. ahead - d <= Grain * k
    <2>1. ahead * k = ahead * old - ahead * new
      OBVIOUS
    <2>2. (ahead - d) * old = ahead * old - d * old
      BY <1>1
    <2>3. ahead * new < d * old + 1
      BY <1>0, <1>1
    <2>4. (ahead - d) * old <= ahead * k
      BY <1>0, <1>1, <2>1, <2>2, <2>3
    <2>5. ahead * k <= (Grain * old) * k
      BY <1>0, ProductMonotone
    <2>6. (Grain * old) * k = (Grain * k) * old
      BY <1>0
    <2>7. (ahead - d) * old < (Grain * k + 1) * old
      BY <1>0, <1>1, <1>4, <2>4, <2>5, <2>6
    <2>8. ahead - d < Grain * k + 1
      BY <1>0, <1>1, <1>4, <2>7, Cancellation
    <2> QED
      BY <1>0, <1>1, <1>4, <2>8
  <1> QED
    BY <1>1, <1>2, <1>5, <1>6, <1>7

-----------------------------------------------------------------------------
(* One quote                                                               *)

\* No more is ahead of a quote than its level holds.
AheadWithinSeen(q) == q.queue_ahead <= Grain * q.level_qty_seen

\* A quote only moves forward, and by no more than left its level.
FallsWithLevel(q, r) ==
    /\ r.queue_ahead <= q.queue_ahead
    /\ q.queue_ahead - r.queue_ahead <= Grain * Monus(q.level_qty_seen, r.level_qty_seen)

\* An order of which a part is filled is the same order.
LEMMA ReducedKeeps ==
    ASSUME NEW r \in VirtualQuote, NEW n \in Int
    PROVE  LET left == [r EXCEPT !.remaining = @ - n]
           IN  /\ r.remaining - n \in 1 .. Size => left \in VirtualQuote
               /\ left.price = r.price /\ left.remaining = r.remaining - n
               /\ left.queue_ahead = r.queue_ahead /\ left.level_qty_seen = r.level_qty_seen
  BY DEF VirtualQuote

\* A print leaves the quote, with what it did not fill, or nothing.
LEMMA ConsumeKeeps ==
    ASSUME NEW side \in Side, NEW q \in VirtualQuote, NEW t \in Trade, AheadWithinSeen(q)
    PROVE  /\ FillQty(side, q, t) \in 0 .. q.remaining
           /\ Consume(side, q, t) = None => FillQty(side, q, t) = q.remaining
           /\ Consume(side, q, t) # None =>
                 /\ Consume(side, q, t) \in VirtualQuote
                 /\ Consume(side, q, t).price = q.price
                 /\ Consume(side, q, t).remaining = q.remaining - FillQty(side, q, t)
                 /\ Consume(side, q, t).level_qty_seen <= q.level_qty_seen
                 /\ AheadWithinSeen(Consume(side, q, t))
                 /\ FallsWithLevel(q, Consume(side, q, t))
  <1> DEFINE fill == FillQty(side, q, t)
             eaten == IF t.price = q.price THEN AfterPrint(q, t) ELSE q
             left == [eaten EXCEPT !.remaining = @ - fill]
  <1>1. /\ q.price \in Int /\ q.remaining \in 1 .. Size /\ q.queue_ahead \in Nat
        /\ q.level_qty_seen \in Nat /\ t.price \in Int /\ t.qty \in Nat /\ Grain \in Nat \ {0}
        /\ Size \in Nat /\ Grain * t.qty \in Nat /\ Grain * q.level_qty_seen \in Nat
    <2>1. /\ q.price \in Int /\ q.remaining \in 1 .. Size /\ q.queue_ahead \in Nat
          /\ q.level_qty_seen \in Nat
      BY DEF VirtualQuote
    <2>2. t.price \in Int /\ t.qty \in Nat
      BY PriceAssumption, QtyAssumption DEF Trade
    <2> QED
      BY <2>1, <2>2, GrainAssumption, SizeAssumption
  <1>2. fill \in 0 .. q.remaining
    <2>1. Monus(Grain * t.qty, q.queue_ahead) \in Nat
      BY <1>1 DEF Monus
    <2>2. Monus(Grain * t.qty, q.queue_ahead) \div Grain \in Nat
      BY <1>1, <2>1, Division
    <2> QED
      BY <1>1, <2>2 DEF FillQty, Smaller
  <1>3. /\ eaten \in VirtualQuote /\ eaten.price = q.price /\ eaten.remaining = q.remaining
        /\ eaten.level_qty_seen <= q.level_qty_seen
        /\ AheadWithinSeen(eaten) /\ FallsWithLevel(q, eaten)
    <2>1. CASE t.price # q.price
      BY <2>1, <1>1 DEF FallsWithLevel, AheadWithinSeen, Monus
    <2>2. CASE t.price = q.price
      <3> DEFINE ahead == Monus(q.queue_ahead, Grain * t.qty)
                 seen == Monus(q.level_qty_seen, t.qty)
      <3>1. eaten = Queued(q, ahead, seen)
        BY <2>2 DEF AfterPrint
      <3>2. /\ eaten \in VirtualQuote /\ eaten.price = q.price /\ eaten.remaining = q.remaining
            /\ eaten.queue_ahead = ahead /\ eaten.level_qty_seen = seen
        BY <1>1, <3>1 DEF VirtualQuote, Monus, Queued
      <3> HIDE DEF eaten
      <3>3. CASE q.level_qty_seen > t.qty
        <4>1. Grain * (q.level_qty_seen - t.qty) = Grain * q.level_qty_seen - Grain * t.qty
          BY <1>1
        <4>2. Grain * (q.level_qty_seen - t.qty) \in Nat
          BY <1>1, <3>3
        <4>3. seen = q.level_qty_seen - t.qty /\ Monus(q.level_qty_seen, seen) = t.qty
          BY <1>1, <3>3 DEF Monus
        <4>4. /\ ahead \in Nat /\ ahead <= q.queue_ahead /\ q.queue_ahead - ahead <= Grain * t.qty
              /\ ahead = 0 \/ ahead = q.queue_ahead - Grain * t.qty
          BY <1>1 DEF Monus
        <4> HIDE DEF ahead, seen
        <4>5. ahead <= Grain * seen
          BY <1>1, <4>1, <4>2, <4>3, <4>4 DEF AheadWithinSeen
        <4>6. seen <= q.level_qty_seen
          BY <1>1, <4>3
        <4> QED
          BY <3>2, <4>3, <4>4, <4>5, <4>6 DEF FallsWithLevel, AheadWithinSeen
      <3>4. CASE ~(q.level_qty_seen > t.qty)
        <4>1. Grain * q.level_qty_seen <= Grain * t.qty
          BY <1>1, <3>4
        <4>2. seen = 0 /\ Monus(q.level_qty_seen, seen) = q.level_qty_seen /\ ahead = 0
          BY <1>1, <3>4, <4>1 DEF Monus, AheadWithinSeen
        <4> QED
          BY <1>1, <3>2, <4>2 DEF FallsWithLevel, AheadWithinSeen
      <3> QED
        BY <3>3, <3>4
    <2> QED
      BY <2>1, <2>2
  <1>4. Consume(side, q, t) = IF fill = q.remaining THEN None ELSE left
    BY <1>3 DEF Consume, EmitFill
  <1> HIDE DEF fill, eaten
  <1>5. CASE fill = q.remaining
    BY <1>2, <1>4, <1>5 DEF fill
  <1>6. CASE fill # q.remaining
    <2>1. /\ left \in VirtualQuote /\ left.price = q.price
          /\ left.remaining = q.remaining - fill
          /\ left.queue_ahead = eaten.queue_ahead /\ left.level_qty_seen = eaten.level_qty_seen
      <3>1. fill \in Int /\ q.remaining - fill \in 1 .. Size
        <4>1. q.remaining \in Int /\ Size \in Int /\ 1 <= q.remaining /\ q.remaining <= Size
          BY <1>1
        <4>2. fill \in Int /\ 0 <= fill /\ fill <= q.remaining
          BY <1>2, <4>1
        <4> QED
          BY <1>6, <4>1, <4>2
      <3> QED
        BY <1>3, <3>1, ReducedKeeps
    <2>2. left # None
      BY <2>1, NoneAssumption
    <2> QED
      BY <1>2, <1>3, <1>4, <1>6, <2>1, <2>2 DEF AheadWithinSeen, FallsWithLevel, fill
  <1> QED
    BY <1>5, <1>6

\* A level update keeps the quote and its bounds.
LEMMA LevelUpdateKeeps ==
    ASSUME NEW q \in VirtualQuote, NEW new \in Nat, AheadWithinSeen(q)
    PROVE  /\ OnLevelUpdate(q, new) \in VirtualQuote
           /\ OnLevelUpdate(q, new).price = q.price
           /\ OnLevelUpdate(q, new).remaining = q.remaining
           /\ OnLevelUpdate(q, new).level_qty_seen = new
           /\ AheadWithinSeen(OnLevelUpdate(q, new))
           /\ FallsWithLevel(q, OnLevelUpdate(q, new))
  <1> DEFINE old == q.level_qty_seen
             ahead == IF new < old THEN Prorated(q.queue_ahead, old, new) ELSE q.queue_ahead
  <1>1. q.queue_ahead \in Nat /\ old \in Nat /\ Grain \in Nat
    BY GrainAssumption DEF VirtualQuote
  <1>2. /\ ahead \in Nat /\ ahead <= Grain * new /\ ahead <= q.queue_ahead
        /\ q.queue_ahead - ahead <= Grain * Monus(old, new)
    <2>1. CASE new < old
      BY <1>1, <2>1, ProratedBounds DEF AheadWithinSeen, Monus
    <2>2. CASE ~(new < old)
      <3>1. Grain * old <= Grain * new
        BY <1>1, <2>2
      <3>2. Monus(old, new) = 0
        BY <1>1, <2>2 DEF Monus
      <3> QED
        BY <1>1, <2>2, <3>1, <3>2 DEF AheadWithinSeen
    <2> QED
      BY <2>1, <2>2
  <1>3. OnLevelUpdate(q, new) = Queued(q, ahead, new)
    BY DEF OnLevelUpdate
  <1> HIDE DEF ahead
  <1> QED
    BY <1>1, <1>2, <1>3 DEF VirtualQuote, Queued, AheadWithinSeen, FallsWithLevel

\* A new quote is at the back of its level.
LEMMA PlaceStarts ==
    ASSUME NEW price \in Int, NEW level \in Nat
    PROVE  /\ Place(price, Size, level) \in VirtualQuote
           /\ Place(price, Size, level).price = price
           /\ Place(price, Size, level).remaining = Size
           /\ Place(price, Size, level).level_qty_seen = level
           /\ AheadWithinSeen(Place(price, Size, level))
  BY SizeAssumption, GrainAssumption DEF Place, VirtualQuote, AheadWithinSeen

-----------------------------------------------------------------------------
(* The inductive invariant                                                 *)

\* Nothing is quoted and no diff is in the works before the book is seeded.
QuotesNeedSeed == ~seeded => quote = NoQuotes /\ phase = "read"

\* The fills of a side that wait to be booked are of one quote at most, and until
\* the next quote is placed that quote is open or filled, not both.
LoadWithinSize ==
    \A side \in Side :
        /\ unbooked[side] <= Size
        /\ phase # "book" => unbooked[side] + Remaining(side) <= Size

\* QuotesPassive, from the moment the quotes are placed.
PassiveFromPlacing ==
    phase \in {"read", "book"} /\ HasBoth(depth) =>
        /\ \A side \in Side : quote[side] # None => ~Crossed(side, quote[side].price)
        /\ quote["Bid"] # None /\ quote["Ask"] # None =>
              quote["Bid"].price < quote["Ask"].price

QueuesWithinSeen == \A side \in Side : quote[side] # None => AheadWithinSeen(quote[side])

SeenWithinDepth ==
    phase # "update" /\ HasBoth(depth) =>
        \A side \in Side : quote[side] # None =>
            quote[side].level_qty_seen <= DepthAt(side, quote[side].price)

IInv == /\ TypeOK /\ QuotesNeedSeed /\ LoadWithinSize /\ ExposureBounded
        /\ PassiveFromPlacing /\ QueuesWithinSeen /\ SeenWithinDepth

\* What QueueFallsWithLevel says of a step.
QuotesFall ==
    \A side \in Side :
        quote[side] # None /\ quote'[side] # None /\ quote'[side].price = quote[side].price =>
            FallsWithLevel(quote[side], quote'[side])

\* The invariant that quotes and the book take part in, taken apart for one side.
LEMMA QuoteFacts ==
    ASSUME IInv, NEW side \in Side
    PROVE  /\ quote[side] = None \/ quote[side] \in VirtualQuote
           /\ quote[side] # None =>
                 /\ quote[side].price \in Int /\ quote[side].remaining \in 1 .. Size
                 /\ quote[side].queue_ahead \in Nat /\ quote[side].level_qty_seen \in Nat
                 /\ AheadWithinSeen(quote[side]) /\ Remaining(side) = quote[side].remaining
           /\ quote[side] = None => Remaining(side) = 0
           /\ unbooked[side] \in Nat /\ Remaining(side) \in 0 .. Size
  <1>1. quote[side] \in VirtualQuote \cup {None} /\ unbooked[side] \in Nat
    BY DEF IInv, TypeOK
  <1>2. CASE quote[side] = None
    BY <1>1, <1>2, SizeAssumption DEF Remaining
  <1>3. CASE quote[side] # None
    <2>1. quote[side] \in VirtualQuote
      BY <1>1, <1>3
    <2>2. /\ quote[side].price \in Int /\ quote[side].remaining \in 1 .. Size
          /\ quote[side].queue_ahead \in Nat /\ quote[side].level_qty_seen \in Nat
      BY <2>1 DEF VirtualQuote
    <2>3. Remaining(side) = quote[side].remaining
      BY <1>3 DEF Remaining
    <2>4. AheadWithinSeen(quote[side])
      BY <1>3 DEF IInv, QueuesWithinSeen
    <2>5. Remaining(side) \in 0 .. Size
      BY <2>2, <2>3, SizeAssumption
    <2> QED
      BY <1>1, <1>3, <2>1, <2>2, <2>3, <2>4, <2>5
  <1> QED
    BY <1>2, <1>3

\* A level of a book holds a natural quantity.
LEMMA DepthFacts ==
    ASSUME TypeOK, NEW side \in Side, NEW p
    PROVE  DepthAt(side, p) \in Nat
  BY DEF TypeOK, DepthAt

\* A book whose quantities are natural numbers is of the mirrored book's type.
LEMMA BookType ==
    ASSUME NEW S \in SUBSET Nat, NEW b \in [Side -> [Price -> S]]
    PROVE  b \in [Side -> [Price -> Nat]]
  <1>1. ASSUME NEW side \in Side
        PROVE  b[side] \in [Price -> Nat]
    <2>1. b[side] \in [Price -> S]
      OBVIOUS
    <2> QED
      BY <2>1
  <1> QED
    BY <1>1

LEMMA InitEstablishes ==
    ASSUME Init
    PROVE  IInv
  <1>1. /\ quote \in [Side -> VirtualQuote \cup {None}] /\ \A side \in Side : quote[side] = None
        /\ unbooked \in [Side -> Nat] /\ \A side \in Side : unbooked[side] = 0
        /\ inventory = 0 /\ quote = NoQuotes
    BY DEF Init, NoQuotes, Nothing
  <1>2. TypeOK
    <2>1. depth \in [Side -> [Price -> Nat]]
      <3>1. {0} \in SUBSET Nat
        OBVIOUS
      <3> QED
        BY <3>1, BookType DEF Init
    <2>2. seeded = FALSE /\ vol = "empty" /\ inventory = 0 /\ phase = "read"
      BY DEF Init
    <2>3. seeded \in BOOLEAN
      BY <2>2
    <2>4. vol \in {"empty", "one", "ready"} /\ inventory \in Int
      BY <2>2
    <2>5. phase \in {"read", "update", "requote", "book"}
      BY <2>2
    <2> QED
      BY <1>1, <2>1, <2>3, <2>4, <2>5 DEF TypeOK
  <1>3. \A side \in Side : Remaining(side) = 0
    BY <1>1 DEF Remaining
  <1>4. "Bid" \in Side /\ "Ask" \in Side
    BY DEF Side
  <1>5. LoadWithinSize /\ ExposureBounded
    BY <1>1, <1>3, <1>4, SizeAssumption
       DEF LoadWithinSize, ExposureBounded, Position, Limit
  <1>6. PassiveFromPlacing /\ QueuesWithinSeen /\ SeenWithinDepth /\ QuotesNeedSeed
    BY <1>1, <1>4
       DEF Init, PassiveFromPlacing, QueuesWithinSeen, SeenWithinDepth, QuotesNeedSeed
  <1> QED
    BY <1>2, <1>5, <1>6 DEF IInv

LEMMA SnapshotKeeps ==
    ASSUME IInv, NEW b \in Books, Snapshot(b)
    PROVE  IInv' /\ QuotesFall
  <1> USE DEF Snapshot
  <1>1. quote' = NoQuotes /\ \A side \in Side : quote'[side] = None
    BY DEF IInv, QuotesNeedSeed, NoQuotes
  <1>2. TypeOK'
    <2>1. depth' \in [Side -> [Price -> Nat]]
      BY BookType, BooksAssumption, QtyAssumption
    <2> QED
      BY <2>1 DEF IInv, TypeOK
  <1>3. LoadWithinSize' /\ ExposureBounded'
    BY DEF IInv, LoadWithinSize, ExposureBounded, Remaining, Position
  <1>4. "Bid" \in Side /\ "Ask" \in Side
    BY DEF Side
  <1>5. PassiveFromPlacing' /\ QueuesWithinSeen' /\ SeenWithinDepth' /\ QuotesNeedSeed' /\ QuotesFall
    BY <1>1, <1>4
       DEF PassiveFromPlacing, QueuesWithinSeen, SeenWithinDepth, QuotesNeedSeed, QuotesFall
  <1> QED
    BY <1>2, <1>3, <1>5 DEF IInv

LEMMA OnDiffKeeps ==
    ASSUME IInv, NEW b \in Books, OnDiff(b)
    PROVE  IInv' /\ QuotesFall
  <1> USE DEF OnDiff
  <1>1. TypeOK'
    <2>1. depth' \in [Side -> [Price -> Nat]]
      BY BookType, BooksAssumption, QtyAssumption
    <2>2. vol' \in {"empty", "one", "ready"}
      BY DEF IInv, TypeOK, Sampled
    <2>3. phase' \in {"read", "update"}
      OBVIOUS
    <2> QED
      BY <2>1, <2>2, <2>3 DEF IInv, TypeOK
  <1>2. phase = "read" /\ (phase' = "update" \/ ~HasBoth(depth)')
    BY DEF HasBoth
  <1>3. LoadWithinSize' /\ ExposureBounded' /\ QueuesWithinSeen' /\ QuotesNeedSeed'
    <2>1. \A side \in Side : Remaining(side)' = Remaining(side)
      BY DEF Remaining
    <2>2. LoadWithinSize'
      BY <1>2, <2>1 DEF IInv, LoadWithinSize
    <2>3. ExposureBounded'
      BY <2>1 DEF IInv, ExposureBounded, Position, Side
    <2>4. QueuesWithinSeen' /\ QuotesNeedSeed'
      BY DEF IInv, QueuesWithinSeen, QuotesNeedSeed
    <2> QED
      BY <2>2, <2>3, <2>4
  <1>4. PassiveFromPlacing' /\ SeenWithinDepth'
    BY <1>2 DEF PassiveFromPlacing, SeenWithinDepth
  <1>5. QuotesFall
    <2> SUFFICES ASSUME NEW side \in Side, quote[side] # None
                 PROVE  FallsWithLevel(quote[side], quote'[side])
      BY DEF QuotesFall
    <2> QED
      BY QuoteFacts, GrainAssumption DEF FallsWithLevel, Monus
  <1> QED
    BY <1>1, <1>3, <1>4, <1>5 DEF IInv

\* The sides that a step treats alike, one after the other.
LEMMA Sides == Side = {"Bid", "Ask"} /\ "Bid" \in Side /\ "Ask" \in Side /\ "Bid" # "Ask"
  BY DEF Side

\* Moving lots from the open quotes to the fills does not raise the exposure.
LEMMA FillsKeepExposure ==
    ASSUME IInv, inventory' = inventory,
           \A side \in Side : /\ unbooked'[side] \in Nat /\ Remaining(side)' \in Nat
                              /\ unbooked'[side] >= unbooked[side]
                              /\ unbooked'[side] + Remaining(side)' = unbooked[side] + Remaining(side)
    PROVE  ExposureBounded'
  <1>1. /\ unbooked["Bid"] \in Nat /\ unbooked["Ask"] \in Nat
        /\ Remaining("Bid") \in Nat /\ Remaining("Ask") \in Nat
    BY QuoteFacts, Sides
  <1>2. inventory \in Int /\ Limit \in Int
    BY SizeAssumption DEF IInv, TypeOK, Limit
  <1>3. Limit' = Limit
    BY DEF Limit
  <1>4. /\ inventory + unbooked["Bid"] - unbooked["Ask"] + Remaining("Bid") <= Limit
        /\ inventory + unbooked["Bid"] - unbooked["Ask"] - Remaining("Ask") >= -Limit
    BY <1>1, <1>2 DEF IInv, ExposureBounded, Position
  <1>5. /\ unbooked'["Bid"] \in Nat /\ unbooked'["Ask"] \in Nat
        /\ Remaining("Bid")' \in Nat /\ Remaining("Ask")' \in Nat
        /\ unbooked'["Bid"] >= unbooked["Bid"] /\ unbooked'["Ask"] >= unbooked["Ask"]
        /\ unbooked'["Bid"] + Remaining("Bid")' = unbooked["Bid"] + Remaining("Bid")
        /\ unbooked'["Ask"] + Remaining("Ask")' = unbooked["Ask"] + Remaining("Ask")
    BY Sides
  <1>6. /\ inventory + unbooked'["Bid"] - unbooked'["Ask"] + Remaining("Bid")' <= Limit
        /\ inventory + unbooked'["Bid"] - unbooked'["Ask"] - Remaining("Ask")' >= -Limit
    BY <1>1, <1>2, <1>4, <1>5
  <1> QED
    BY <1>1, <1>2, <1>3, <1>5, <1>6 DEF ExposureBounded, Position

LEMMA OnTradeKeeps ==
    ASSUME IInv, NEW t \in Trade, OnTrade(t)
    PROVE  IInv' /\ QuotesFall
  <1> DEFINE hit == IF t.buyer_is_maker THEN "Bid" ELSE "Ask"
             q == quote[hit]
             fill == FillQty(hit, q, t)
             left == Consume(hit, q, t)
  <1>1. /\ phase = "read" /\ phase' = "read" /\ seeded /\ HasBoth(depth) /\ q # None
        /\ quote' = [quote EXCEPT ![hit] = left]
        /\ unbooked' = [unbooked EXCEPT ![hit] = unbooked[hit] + fill]
        /\ seeded' = seeded /\ depth' = depth /\ vol' = vol /\ inventory' = inventory
    BY DEF OnTrade
  <1>2. hit \in Side /\ q \in VirtualQuote /\ AheadWithinSeen(q)
    BY <1>1, QuoteFacts, Sides
  <1>3. /\ fill \in 0 .. q.remaining
        /\ left = None => fill = q.remaining
        /\ left # None =>
              /\ left \in VirtualQuote /\ left.price = q.price
              /\ left.remaining = q.remaining - fill
              /\ left.level_qty_seen <= q.level_qty_seen
              /\ AheadWithinSeen(left) /\ FallsWithLevel(q, left)
    BY <1>2, ConsumeKeeps
  <1>4. /\ q.price \in Int /\ q.remaining \in 1 .. Size /\ q.level_qty_seen \in Nat
        /\ unbooked[hit] \in Nat /\ Remaining(hit) = q.remaining /\ fill \in Nat
    BY <1>1, <1>2, <1>3, QuoteFacts
  <1> HIDE DEF hit, fill, left
  <1>5. /\ quote' \in [Side -> VirtualQuote \cup {None}] /\ unbooked' \in [Side -> Nat]
        /\ quote'[hit] = left /\ unbooked'[hit] = unbooked[hit] + fill
        /\ \A side \in Side : side # hit =>
              quote'[side] = quote[side] /\ unbooked'[side] = unbooked[side]
    BY <1>1, <1>2, <1>3, <1>4 DEF IInv, TypeOK
  <1>6. TypeOK' /\ QuotesNeedSeed'
    BY <1>1, <1>5 DEF IInv, TypeOK, QuotesNeedSeed
  <1>7. ASSUME NEW side \in Side
        PROVE  /\ unbooked'[side] \in Nat /\ Remaining(side)' \in Nat
               /\ unbooked'[side] >= unbooked[side]
               /\ unbooked'[side] + Remaining(side)' = unbooked[side] + Remaining(side)
    <2>1. CASE side = hit
      <3>1. Remaining(hit)' = q.remaining - fill
        BY <1>3, <1>4, <1>5 DEF Remaining
      <3> QED
        BY <1>3, <1>4, <1>5, <2>1, <3>1
    <2>2. CASE side # hit
      BY <1>5, <2>2, QuoteFacts DEF Remaining
    <2> QED
      BY <2>1, <2>2
  <1>8. LoadWithinSize'
    <2>1. ASSUME NEW side \in Side
          PROVE  unbooked'[side] <= Size /\ unbooked'[side] + Remaining(side)' <= Size
      BY <1>1, <1>7, SizeAssumption DEF IInv, LoadWithinSize
    <2> QED
      BY <2>1 DEF LoadWithinSize
  <1>9. ExposureBounded'
    BY <1>1, <1>7, FillsKeepExposure
  <1>10. \A side \in Side : quote'[side] # None =>
            /\ quote[side] # None /\ quote'[side].price = quote[side].price
            /\ quote'[side].level_qty_seen <= quote[side].level_qty_seen
            /\ quote'[side].level_qty_seen \in Nat
            /\ AheadWithinSeen(quote'[side]) /\ FallsWithLevel(quote[side], quote'[side])
    <2> SUFFICES ASSUME NEW side \in Side, quote'[side] # None
                 PROVE  /\ quote[side] # None /\ quote'[side].price = quote[side].price
                        /\ quote'[side].level_qty_seen <= quote[side].level_qty_seen
                        /\ quote'[side].level_qty_seen \in Nat
                        /\ AheadWithinSeen(quote'[side])
                        /\ FallsWithLevel(quote[side], quote'[side])
      OBVIOUS
    <2>1. CASE side = hit
      BY <1>1, <1>3, <1>5, <2>1 DEF VirtualQuote
    <2>2. CASE side # hit
      BY <1>5, <2>2, QuoteFacts, GrainAssumption DEF FallsWithLevel, Monus
    <2> QED
      BY <2>1, <2>2
  <1>11. QueuesWithinSeen' /\ QuotesFall
    BY <1>10 DEF QueuesWithinSeen, QuotesFall
  <1>12. SeenWithinDepth'
    <2> SUFFICES ASSUME NEW side \in Side, quote'[side] # None
                 PROVE  quote'[side].level_qty_seen <= DepthAt(side, quote[side].price)'
      BY DEF SeenWithinDepth
    <2>1. DepthAt(side, quote[side].price)' = DepthAt(side, quote[side].price)
      BY <1>1, <1>10 DEF DepthAt
    <2>2. DepthAt(side, quote[side].price) \in Nat /\ quote[side].level_qty_seen \in Nat
      BY <1>10, DepthFacts, QuoteFacts DEF IInv
    <2>3. quote[side].level_qty_seen <= DepthAt(side, quote[side].price)
      BY <1>1, <1>10 DEF IInv, SeenWithinDepth
    <2> QED
      BY <1>10, <2>1, <2>2, <2>3
  <1>13. PassiveFromPlacing'
    <2>1. \A side \in Side : quote'[side] # None => ~Crossed(side, quote[side].price)'
      BY <1>1, <1>10 DEF IInv, PassiveFromPlacing, Crossed, Listed
    <2>2. quote'["Bid"] # None /\ quote'["Ask"] # None => quote'["Bid"].price < quote'["Ask"].price
      BY <1>1, <1>10, Sides DEF IInv, PassiveFromPlacing
    <2> QED
      BY <2>1, <2>2 DEF PassiveFromPlacing
  <1> QED
    BY <1>6, <1>8, <1>9, <1>11, <1>12, <1>13 DEF IInv

LEMMA UpdateQuotesKeeps ==
    ASSUME IInv, UpdateQuotes
    PROVE  IInv' /\ QuotesFall
  <1> DEFINE hit == {side \in Side : quote[side] # None /\ Crossed(side, quote[side].price)}
             level(side) == DepthAt(side, quote[side].price)
             gain(side) == IF side \in hit THEN quote[side].remaining ELSE 0
             next(side) == IF quote[side] = None \/ side \in hit THEN None
                           ELSE OnLevelUpdate(quote[side], level(side))
  <1>1. /\ phase = "update" /\ phase' = "requote"
        /\ quote' = [side \in Side |-> next(side)]
        /\ unbooked' = [side \in Side |-> unbooked[side] + gain(side)]
        /\ seeded' = seeded /\ depth' = depth /\ vol' = vol /\ inventory' = inventory
    BY DEF UpdateQuotes
  <1>2. ASSUME NEW side \in Side
        PROVE  /\ next(side) \in VirtualQuote \cup {None} /\ unbooked[side] + gain(side) \in Nat
               /\ next(side) # None =>
                     /\ quote[side] # None /\ next(side).price = quote[side].price
                     /\ next(side).remaining = quote[side].remaining
                     /\ next(side).level_qty_seen = level(side)
                     /\ AheadWithinSeen(next(side)) /\ FallsWithLevel(quote[side], next(side))
               /\ unbooked'[side] \in Nat /\ Remaining(side)' \in Nat
               /\ unbooked'[side] >= unbooked[side]
               /\ unbooked'[side] + Remaining(side)' = unbooked[side] + Remaining(side)
    <2>1. unbooked'[side] = unbooked[side] + gain(side) /\ quote'[side] = next(side)
      BY <1>1
    <2>2. unbooked[side] \in Nat /\ level(side) \in Nat
      BY QuoteFacts, DepthFacts DEF IInv
    <2>3. CASE quote[side] = None
      <3>1. next(side) = None /\ gain(side) = 0
        BY <2>3
      <3> QED
        BY <2>1, <2>2, <2>3, <3>1 DEF Remaining
    <2>4. CASE quote[side] # None /\ side \in hit
      <3>1. next(side) = None /\ gain(side) = quote[side].remaining
        BY <2>4
      <3>2. quote[side].remaining \in Nat /\ Remaining(side) = quote[side].remaining
        BY <2>4, QuoteFacts, SizeAssumption
      <3>3. Remaining(side)' = 0
        BY <2>1, <3>1 DEF Remaining
      <3> QED
        BY <2>1, <2>2, <3>1, <3>2, <3>3
    <2>5. CASE quote[side] # None /\ side \notin hit
      <3>1. next(side) = OnLevelUpdate(quote[side], level(side)) /\ gain(side) = 0
        BY <2>5
      <3>2. quote[side] \in VirtualQuote /\ AheadWithinSeen(quote[side])
        BY <2>5, QuoteFacts
      <3>3. /\ next(side) \in VirtualQuote /\ next(side).price = quote[side].price
            /\ next(side).remaining = quote[side].remaining
            /\ next(side).level_qty_seen = level(side)
            /\ AheadWithinSeen(next(side)) /\ FallsWithLevel(quote[side], next(side))
        BY <2>2, <3>1, <3>2, LevelUpdateKeeps, SMTT(60)
      <3>4. next(side) # None
        BY <3>3, NoneAssumption
      <3>5. Remaining(side)' = Remaining(side) /\ Remaining(side) \in Nat
        BY <2>1, <2>5, <3>3, <3>4, QuoteFacts, SizeAssumption DEF Remaining
      <3> HIDE DEF next, gain, level
      <3> QED
        BY <2>1, <2>2, <2>5, <3>1, <3>3, <3>5
    <2> QED
      BY <2>3, <2>4, <2>5
  <1> HIDE DEF next, gain
  <1>3. \A side \in Side : quote'[side] = next(side)
    BY <1>1
  <1>4. TypeOK' /\ QuotesNeedSeed'
    <2>1. quote' \in [Side -> VirtualQuote \cup {None}] /\ unbooked' \in [Side -> Nat]
      BY <1>1, <1>2
    <2> QED
      BY <1>1, <2>1 DEF IInv, TypeOK, QuotesNeedSeed
  <1>5. LoadWithinSize'
    <2>1. ASSUME NEW side \in Side
          PROVE  unbooked'[side] <= Size /\ unbooked'[side] + Remaining(side)' <= Size
      BY <1>1, <1>2, SizeAssumption DEF IInv, LoadWithinSize
    <2> QED
      BY <2>1 DEF LoadWithinSize
  <1>6. ExposureBounded'
    BY <1>1, <1>2, FillsKeepExposure
  <1>7. QueuesWithinSeen' /\ QuotesFall
    BY <1>2, <1>3 DEF QueuesWithinSeen, QuotesFall
  <1>8. PassiveFromPlacing'
    BY <1>1 DEF PassiveFromPlacing
  <1>9. SeenWithinDepth'
    <2> SUFFICES ASSUME NEW side \in Side, quote'[side] # None
                 PROVE  quote'[side].level_qty_seen <= DepthAt(side, quote[side].price)'
      BY DEF SeenWithinDepth
    <2>1. DepthAt(side, quote[side].price)' = level(side) /\ quote'[side].level_qty_seen = level(side)
      BY <1>1, <1>2, <1>3 DEF DepthAt
    <2>2. level(side) \in Nat
      BY DepthFacts DEF IInv
    <2> QED
      BY <2>1, <2>2
  <1> QED
    BY <1>4, <1>5, <1>6, <1>7, <1>8, <1>9 DEF IInv

LEMMA BookFillsKeeps ==
    ASSUME IInv, BookFills
    PROVE  IInv' /\ QuotesFall
  <1>1. /\ phase = "book" /\ phase' = "read" /\ unbooked' = Nothing
        /\ inventory' = inventory + unbooked["Bid"] - unbooked["Ask"]
        /\ seeded' = seeded /\ depth' = depth /\ vol' = vol /\ quote' = quote
    BY DEF BookFills
  <1>2. /\ unbooked["Bid"] \in Nat /\ unbooked["Ask"] \in Nat /\ inventory \in Int
        /\ Remaining("Bid") \in Int /\ Remaining("Ask") \in Int
    BY QuoteFacts, Sides, SizeAssumption DEF IInv, TypeOK
  <1>3. unbooked' \in [Side -> Nat] /\ \A side \in Side : unbooked'[side] = 0
    BY <1>1 DEF Nothing
  <1>4. TypeOK' /\ QuotesNeedSeed'
    BY <1>1, <1>2, <1>3 DEF IInv, TypeOK, QuotesNeedSeed
  <1>5. \A side \in Side : Remaining(side)' = Remaining(side) /\ Remaining(side) \in 0 .. Size
    BY <1>1, QuoteFacts DEF Remaining
  <1>6. LoadWithinSize'
    BY <1>3, <1>5, SizeAssumption DEF LoadWithinSize
  <1>7. ExposureBounded'
    <2>1. Position' = Position /\ Limit' = Limit /\ Position \in Int
      BY <1>1, <1>2, <1>3, Sides DEF Position, Limit
    <2>2. Remaining("Bid")' = Remaining("Bid") /\ Remaining("Ask")' = Remaining("Ask")
      BY <1>5, Sides
    <2> QED
      BY <2>1, <2>2 DEF IInv, ExposureBounded
  <1>8. PassiveFromPlacing' /\ QueuesWithinSeen' /\ SeenWithinDepth'
    BY <1>1 DEF IInv, PassiveFromPlacing, QueuesWithinSeen, SeenWithinDepth,
                HasBoth, Crossed, Listed, DepthAt
  <1>9. QuotesFall
    BY <1>1, QuoteFacts, GrainAssumption DEF QuotesFall, FallsWithLevel, Monus
  <1> QED
    BY <1>4, <1>6, <1>7, <1>8, <1>9 DEF IInv

\* What the requoting leaves on a side: nothing, the same quote, or a new one.
LEMMA ReplacedFacts ==
    ASSUME IInv, NEW side \in Side, NEW desired \in Int \cup {None}
    PROVE  \/ Replaced(side, desired) = None
           \/ /\ desired \in Int
              /\ Replaced(side, desired) \in VirtualQuote
              /\ Replaced(side, desired).price = desired
              /\ AheadWithinSeen(Replaced(side, desired))
              /\ \/ quote[side] # None /\ Replaced(side, desired) = quote[side]
                 \/ /\ quote[side] = None \/ quote[side].price # desired
                    /\ Replaced(side, desired).remaining = Size
                    /\ Replaced(side, desired).level_qty_seen = DepthAt(side, desired)
  <1>1. CASE desired = None
    BY <1>1 DEF Replaced
  <1>2. CASE desired # None
    <2>1. CASE quote[side] # None /\ quote[side].price = desired
      <3>1. Replaced(side, desired) = quote[side]
        BY <1>2, <2>1 DEF Replaced
      <3> QED
        BY <1>2, <2>1, <3>1, QuoteFacts
    <2>2. CASE quote[side] = None \/ quote[side].price # desired
      <3>1. Replaced(side, desired) = Place(desired, Size, DepthAt(side, desired))
        BY <1>2, <2>2 DEF Replaced
      <3>2. DepthAt(side, desired) \in Nat /\ desired \in Int
        BY <1>2, DepthFacts DEF IInv
      <3> QED
        BY <2>2, <3>1, <3>2, PlaceStarts
    <2> QED
      BY <2>1, <2>2
  <1> QED
    BY <1>1, <1>2

\* What clamp lets through: both prices behind the touch, the bid below the ask,
\* and no side at the cap.
LEMMA ClampFacts ==
    ASSUME NEW rb \in Int, NEW ra \in Int, NEW bb \in Int, NEW ba \in Int
    PROVE  LET want == Clamp(rb, ra, bb, ba)
           IN  /\ want["Bid"] \in Int \cup {None} /\ want["Ask"] \in Int \cup {None}
               /\ want["Bid"] # None => want["Bid"] < ba /\ inventory < Cap
               /\ want["Ask"] # None => want["Ask"] > bb /\ inventory > -Cap
               /\ want["Bid"] # None /\ want["Ask"] # None => want["Bid"] < want["Ask"]
  <1> DEFINE bid == Smaller(rb, ba - 1)
             ask == Larger(Larger(ra, bb + 1), bid + 1)
  <1>1. bid \in Int /\ bid < ba /\ ask \in Int /\ ask > bb /\ bid < ask
    BY DEF Smaller, Larger
  <1>2. /\ Clamp(rb, ra, bb, ba)["Bid"] = IF inventory < Cap THEN bid ELSE None
        /\ Clamp(rb, ra, bb, ba)["Ask"] = IF inventory > -Cap THEN ask ELSE None
    BY DEF Clamp
  <1> HIDE DEF bid, ask
  <1> QED
    BY <1>1, <1>2

\* Requoting, whatever is wanted within the limits of ClampFacts.
LEMMA QuotesPlaced ==
    ASSUME IInv, phase = "requote", phase' = "book",
           UNCHANGED <<seeded, depth, vol, unbooked, inventory>>,
           NEW want, want["Bid"] \in Int \cup {None}, want["Ask"] \in Int \cup {None},
           quote' = [side \in Side |-> Replaced(side, want[side])],
           want["Bid"] # None => inventory < Cap /\ ~Crossed("Bid", want["Bid"]),
           want["Ask"] # None => inventory > -Cap /\ ~Crossed("Ask", want["Ask"]),
           want["Bid"] # None /\ want["Ask"] # None => want["Bid"] < want["Ask"]
    PROVE  IInv' /\ QuotesFall
  <1>1. \A side \in Side : /\ quote'[side] = Replaced(side, want[side])
                           /\ want[side] \in Int \cup {None}
    BY Sides
  <1>2. ASSUME NEW side \in Side
        PROVE  \/ quote'[side] = None
               \/ /\ want[side] \in Int /\ quote'[side] \in VirtualQuote
                  /\ quote'[side].price = want[side] /\ AheadWithinSeen(quote'[side])
                  /\ \/ quote[side] # None /\ quote'[side] = quote[side]
                     \/ /\ quote[side] = None \/ quote[side].price # want[side]
                        /\ quote'[side].remaining = Size
                        /\ quote'[side].level_qty_seen = DepthAt(side, want[side])
    BY <1>1, ReplacedFacts
  <1>3. ASSUME NEW side \in Side
        PROVE  /\ Remaining(side)' \in Nat
               /\ \/ Remaining(side)' <= Remaining(side)
                  \/ want[side] # None /\ Remaining(side)' = Size
    <2>1. CASE quote'[side] = None
      BY <2>1, QuoteFacts, SizeAssumption DEF Remaining
    <2>2. CASE quote'[side] # None
      <3>1. Remaining(side)' = quote'[side].remaining
        BY <2>2 DEF Remaining
      <3>2. CASE quote'[side] = quote[side]
        BY <2>2, <3>1, <3>2, QuoteFacts, SizeAssumption
      <3>3. CASE quote'[side] # quote[side]
        BY <1>2, <2>2, <3>1, <3>3, SizeAssumption, NoneAssumption
      <3> QED
        BY <3>2, <3>3
    <2> QED
      BY <2>1, <2>2
  <1>4. TypeOK' /\ QuotesNeedSeed'
    <2>1. quote' \in [Side -> VirtualQuote \cup {None}]
      BY <1>1, <1>2
    <2> QED
      BY <2>1 DEF IInv, TypeOK, QuotesNeedSeed
  <1>5. \A side \in Side : /\ unbooked'[side] = unbooked[side] /\ unbooked[side] \in Nat
                           /\ Remaining(side) \in Nat /\ unbooked[side] + Remaining(side) <= Size
                           /\ unbooked[side] <= Size
    BY QuoteFacts, SizeAssumption DEF IInv, LoadWithinSize
  <1>6. LoadWithinSize'
    BY <1>5 DEF LoadWithinSize
  <1>7. ExposureBounded'
    <2>1. /\ unbooked["Bid"] \in 0 .. Size /\ unbooked["Ask"] \in 0 .. Size
          /\ Remaining("Bid") \in Nat /\ Remaining("Ask") \in Nat
          /\ Remaining("Bid")' \in Nat /\ Remaining("Ask")' \in Nat
          /\ inventory \in Int /\ Cap \in Nat /\ Size \in Nat
      BY <1>3, <1>5, Sides, SizeAssumption DEF IInv, TypeOK
    <2>2. /\ Remaining("Bid")' <= Remaining("Bid") \/ (inventory < Cap /\ Remaining("Bid")' = Size)
          /\ Remaining("Ask")' <= Remaining("Ask") \/ (inventory > -Cap /\ Remaining("Ask")' = Size)
      BY <1>3, Sides
    <2>3. /\ inventory + unbooked["Bid"] - unbooked["Ask"] + Remaining("Bid") <= Cap - 1 + 2 * Size
          /\ inventory + unbooked["Bid"] - unbooked["Ask"] - Remaining("Ask") >= -(Cap - 1 + 2 * Size)
      BY <2>1 DEF IInv, ExposureBounded, Position, Limit
    <2>4. /\ inventory + unbooked["Bid"] - unbooked["Ask"] + Remaining("Bid")' <= Cap - 1 + 2 * Size
          /\ inventory + unbooked["Bid"] - unbooked["Ask"] - Remaining("Ask")' >= -(Cap - 1 + 2 * Size)
      BY <2>1, <2>2, <2>3
    <2> QED
      BY <2>1, <2>4 DEF ExposureBounded, Position, Limit
  <1>8. PassiveFromPlacing'
    <2>1. \A side \in Side : quote'[side] # None =>
             /\ want[side] # None /\ quote'[side].price = want[side]
             /\ ~Crossed(side, quote[side].price)'
      <3> SUFFICES ASSUME NEW side \in Side, quote'[side] # None
                   PROVE  /\ want[side] # None /\ quote'[side].price = want[side]
                          /\ ~Crossed(side, quote[side].price)'
        OBVIOUS
      <3>1. want[side] # None /\ quote'[side].price = want[side]
        BY <1>2, NoneAssumption
      <3>2. ~Crossed(side, want[side])
        BY <3>1, Sides
      <3> QED
        BY <3>1, <3>2 DEF Crossed, Listed
    <2> QED
      BY <2>1, Sides DEF PassiveFromPlacing
  <1>9. QueuesWithinSeen'
    BY <1>2 DEF QueuesWithinSeen
  <1>10. SeenWithinDepth'
    <2> SUFFICES ASSUME HasBoth(depth), NEW side \in Side, quote'[side] # None
                 PROVE  quote'[side].level_qty_seen <= DepthAt(side, quote[side].price)'
      BY DEF SeenWithinDepth, HasBoth
    <2>1. DepthAt(side, quote[side].price)' = DepthAt(side, want[side])
      BY <1>2 DEF DepthAt
    <2>2. DepthAt(side, want[side]) \in Nat
      BY DepthFacts DEF IInv
    <2>3. CASE quote'[side] = quote[side]
      BY <1>2, <2>1, <2>3 DEF IInv, SeenWithinDepth
    <2>4. CASE quote'[side] # quote[side]
      BY <1>2, <2>1, <2>2, <2>4
    <2> QED
      BY <2>3, <2>4
  <1>11. QuotesFall
    <2> SUFFICES ASSUME NEW side \in Side, quote[side] # None, quote'[side] # None,
                        quote'[side].price = quote[side].price
                 PROVE  FallsWithLevel(quote[side], quote'[side])
      BY DEF QuotesFall
    <2>1. quote'[side] = quote[side]
      BY <1>2
    <2> QED
      BY <2>1, QuoteFacts, GrainAssumption DEF FallsWithLevel, Monus
  <1> QED
    BY <1>4, <1>6, <1>7, <1>8, <1>9, <1>10, <1>11 DEF IInv

LEMMA RequoteKeeps ==
    ASSUME IInv, NEW rb \in RawPrice, NEW ra \in RawPrice, Requote(rb, ra)
    PROVE  IInv' /\ QuotesFall
  <1>1. PICK bb \in Price, ba \in Price :
            /\ IsBest("Bid", bb) /\ IsBest("Ask", ba)
            /\ quote' = [side \in Side |-> Replaced(side, Clamp(rb, ra, bb, ba)[side])]
    BY DEF Requote
  <1> DEFINE want == Clamp(rb, ra, bb, ba)
  <1>2. /\ want["Bid"] \in Int \cup {None} /\ want["Ask"] \in Int \cup {None}
        /\ want["Bid"] # None => want["Bid"] < ba /\ inventory < Cap
        /\ want["Ask"] # None => want["Ask"] > bb /\ inventory > -Cap
        /\ want["Bid"] # None /\ want["Ask"] # None => want["Bid"] < want["Ask"]
    BY PriceAssumption, ClampFacts
  <1> HIDE DEF want
  <1>3. ASSUME want["Bid"] # None
        PROVE  ~Crossed("Bid", want["Bid"])
    <2>1. want["Bid"] \in Int /\ want["Bid"] < ba /\ ba \in Int
      BY <1>2, <1>3, PriceAssumption
    <2>2. \A a \in Listed("Ask") : a \in Int /\ ba <= a
      BY <1>1, PriceAssumption DEF IsBest, Listed
    <2> QED
      BY <2>1, <2>2 DEF Crossed
  <1>4. ASSUME want["Ask"] # None
        PROVE  ~Crossed("Ask", want["Ask"])
    <2>1. want["Ask"] \in Int /\ want["Ask"] > bb /\ bb \in Int
      BY <1>2, <1>4, PriceAssumption
    <2>2. \A b \in Listed("Bid") : b \in Int /\ b <= bb
      BY <1>1, PriceAssumption DEF IsBest, Listed
    <2> QED
      BY <2>1, <2>2 DEF Crossed
  <1>5. /\ phase = "requote" /\ phase' = "book" /\ UNCHANGED <<seeded, depth, vol, unbooked, inventory>>
        /\ quote' = [side \in Side |-> Replaced(side, want[side])]
    BY <1>1 DEF Requote, want
  <1> QED
    BY <1>2, <1>3, <1>4, <1>5, QuotesPlaced

LEMMA NoRequoteKeeps ==
    ASSUME IInv, NoRequote
    PROVE  IInv' /\ QuotesFall
  <1>1. NoQuotes["Bid"] = None /\ NoQuotes["Ask"] = None
    BY Sides DEF NoQuotes
  <1>2. quote' = [side \in Side |-> Replaced(side, NoQuotes[side])]
    BY DEF NoRequote, Replaced, NoQuotes
  <1>3. /\ phase = "requote" /\ phase' = "book"
        /\ UNCHANGED <<seeded, depth, vol, unbooked, inventory>>
    BY DEF NoRequote
  <1> QED
    BY <1>1, <1>2, <1>3, QuotesPlaced

\* A step keeps the invariant, and the quotes that stay only move forward.
LEMMA StepKeeps ==
    ASSUME IInv, [Next]_vars
    PROVE  IInv' /\ QuotesFall
  <1>1. CASE \E b \in Books : Snapshot(b) \/ OnDiff(b)
    BY <1>1, SnapshotKeeps, OnDiffKeeps
  <1>2. CASE \E t \in Trade : OnTrade(t)
    BY <1>2, OnTradeKeeps
  <1>3. CASE \E raw_bid, raw_ask \in RawPrice : Requote(raw_bid, raw_ask)
    BY <1>3, RequoteKeeps
  <1>4. CASE UpdateQuotes
    BY <1>4, UpdateQuotesKeeps
  <1>5. CASE NoRequote
    BY <1>5, NoRequoteKeeps
  <1>6. CASE BookFills
    BY <1>6, BookFillsKeeps
  <1>7. CASE UNCHANGED vars
    <2> USE <1>7 DEF vars
    <2>1. TypeOK' /\ QuotesNeedSeed' /\ QueuesWithinSeen'
      BY DEF IInv, TypeOK, QuotesNeedSeed, QueuesWithinSeen
    <2>2. \A side \in Side : Remaining(side)' = Remaining(side)
      BY DEF Remaining
    <2>3. LoadWithinSize'
      BY <2>2 DEF IInv, LoadWithinSize
    <2>4. ExposureBounded'
      BY <2>2, Sides DEF IInv, ExposureBounded, Position, Limit
    <2>5. PassiveFromPlacing' /\ SeenWithinDepth'
      BY DEF IInv, PassiveFromPlacing, SeenWithinDepth, HasBoth, Crossed, Listed, DepthAt
    <2>6. QuotesFall
      BY QuoteFacts, GrainAssumption DEF QuotesFall, FallsWithLevel, Monus
    <2> QED
      BY <2>1, <2>3, <2>4, <2>5, <2>6 DEF IInv
  <1> QED
    BY <1>1, <1>2, <1>3, <1>4, <1>5, <1>6, <1>7 DEF Next

-----------------------------------------------------------------------------
(* Theorems                                                                *)

\* The invariant holds in every state the simulator reaches.
THEOREM Invariant == Spec => []IInv
  <1>1. Init => IInv
    BY InitEstablishes
  <1>2. IInv /\ [Next]_vars => IInv'
    BY StepKeeps
  <1> QED
    BY <1>1, <1>2, PTL DEF Spec

\* Types: no unsigned quantity of a quote or a fill goes below zero
\* (quote_sim.hpp:121, 137), and an open quote is never empty nor above its size.
THEOREM MakerTypeCorrect == Spec => []TypeOK
  <1>1. IInv => TypeOK
    BY DEF IInv
  <1> QED
    BY <1>1, Invariant, PTL

\* However books, prints and strategies go, the position with all open quotes
\* filled stays within the cap plus almost two quotes (mm_sim.cpp:173-191).
THEOREM ExposureAlwaysBounded == Spec => []ExposureBounded
  <1>1. IInv => ExposureBounded
    BY DEF IInv
  <1> QED
    BY <1>1, Invariant, PTL

\* Between diffs no quote crosses the book nor the other quote (strategies.hpp:66-78).
THEOREM QuotesAlwaysPassive == Spec => []QuotesPassive
  <1>1. IInv => QuotesPassive
    BY DEF IInv, PassiveFromPlacing, QuotesPassive
  <1> QED
    BY <1>1, Invariant, PTL

\* The queue estimate stays within the level as last seen, and that within the
\* level of the book (quote_sim.hpp:86-96, 119-126).
THEOREM QueueAlwaysWithinLevel == Spec => []QueueWithinLevel
  <1>1. IInv => QueueWithinLevel
    BY DEF IInv, QueuesWithinSeen, AheadWithinSeen, SeenWithinDepth, QueueWithinLevel
  <1> QED
    BY <1>1, Invariant, PTL

\* A quote that stays at its price never falls back in its queue, and advances by
\* no more than left its level (quote_sim.hpp:15-19, mm_sim.cpp:185).
THEOREM QueueAlwaysFallsWithLevel == Spec => QueueFallsWithLevel
  <1>1. IInv /\ [Next]_vars => QuotesFall
    BY StepKeeps
  <1>2. QuotesFall =>
          \A side \in Side :
            quote[side] # None /\ quote'[side] # None /\ quote'[side].price = quote[side].price =>
              /\ quote'[side].queue_ahead <= quote[side].queue_ahead
              /\ quote[side].queue_ahead - quote'[side].queue_ahead <=
                    Grain * Monus(quote[side].level_qty_seen, quote'[side].level_qty_seen)
    BY DEF QuotesFall, FallsWithLevel
  <1> QED
    BY <1>1, <1>2, Invariant, PTL DEF Spec, QueueFallsWithLevel
=============================================================================
