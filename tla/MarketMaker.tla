------------------------------ MODULE MarketMaker ------------------------------
(***************************************************************************)
(* The record loop of strategy/mm_sim.cpp: a snapshot seeds the mirrored   *)
(* book, trade prints meet the virtual quotes, and every diff moves the    *)
(* book, updates the quotes against it, asks the strategy for new ones and *)
(* only then books the fills.  The book after a diff is any uncrossed one, *)
(* which is what the engine behind the mirror can hold.                    *)
(*                                                                         *)
(* Of the fills not yet booked only their quantities are kept.  A strategy *)
(* is any pair of raw prices put through clamp.  Of timestamps it matters  *)
(* whether a diff is later than the one before and the warm-up is over.    *)
(***************************************************************************)
EXTENDS QuoteSimulator

CONSTANTS Price, Qty,
          Books,      \* the books a diff or snapshot may leave
          TradeQty,   \* quantities of trade prints
          RawPrice,   \* what a strategy computes before clamp
          Size,       \* p.size
          Cap         \* p.q_max * p.size, the inventory cap in lots

Uncrossed(b) == \A p, q \in Price : b["Bid"][p] > 0 /\ b["Ask"][q] > 0 => p < q

ASSUME PriceAssumption == Price \subseteq Int /\ RawPrice \subseteq Int
ASSUME QtyAssumption   == Qty \subseteq Nat /\ TradeQty \subseteq Nat
ASSUME BooksAssumption == \A b \in Books : b \in [Side -> [Price -> Qty]] /\ Uncrossed(b)
ASSUME SizeAssumption  == Size \in Nat \ {0} /\ Cap \in Nat

\* An active quote.
VirtualQuote == [price : Int, remaining : 1 .. Size, queue_ahead : Nat, level_qty_seen : Nat]

ASSUME NoneAssumption == None \notin VirtualQuote /\ None \notin Int

VARIABLES seeded,
          depth,      \* the mirrored book: quantity of each level
          vol,        \* VarianceEstimator: "empty", "one" sample, "ready"
          quote,      \* bid_ and ask_ of the quote simulator
          unbooked,   \* lots bought and sold in the fills from fills_seen on
          inventory,  \* acct.inventory_lots
          phase       \* "read" the next record, or where the handling of a diff is

vars == <<seeded, depth, vol, quote, unbooked, inventory, phase>>

Trade == [buyer_is_maker : BOOLEAN, price : Price, qty : TradeQty]
Nothing == [side \in Side |-> 0]
NoQuotes == [side \in Side |-> None]

Listed(side) == {p \in Price : depth[side][p] > 0}
HasBoth(b) == \A side \in Side : \E p \in Price : b[side][p] > 0
DepthAt(side, p) == IF p \in Price THEN depth[side][p] ELSE 0

Init == /\ seeded = FALSE /\ depth \in [Side -> [Price -> {0}]] /\ vol = "empty"
        /\ quote = NoQuotes /\ unbooked = Nothing /\ inventory = 0 /\ phase = "read"

-----------------------------------------------------------------------------
\* Only the first snapshot is used.
Snapshot(b) == /\ phase = "read" /\ ~seeded
               /\ seeded' = TRUE /\ depth' = b
               /\ UNCHANGED <<vol, quote, unbooked, inventory, phase>>

\* A sell aggressor consumes bids, a buy aggressor asks.
OnTrade(t) ==
    LET side == IF t.buyer_is_maker THEN "Bid" ELSE "Ask" IN
    /\ phase = "read" /\ seeded /\ HasBoth(depth) /\ quote[side] # None
    /\ quote' = [quote EXCEPT ![side] = Consume(side, @, t)]
    /\ unbooked' = [unbooked EXCEPT ![side] = @ + FillQty(side, quote[side], t)]
    /\ UNCHANGED <<seeded, depth, vol, inventory, phase>>

\* ready() needs two samples and time between them.
Sampled(later) == CASE vol = "empty"              -> "one"
                    [] vol = "one" /\ later       -> "ready"
                    [] OTHER                      -> vol

\* A diff that leaves a side empty ends here: no update, no quotes, no booking.
OnDiff(b) ==
    /\ phase = "read" /\ seeded
    /\ depth' = b
    /\ IF HasBoth(b)
       THEN phase' = "update" /\ \E later \in BOOLEAN : vol' = Sampled(later)
       ELSE UNCHANGED <<phase, vol>>
    /\ UNCHANGED <<seeded, quote, unbooked, inventory>>

\* The opposite best has reached our price.
Crossed(side, price) == IF side = "Bid" THEN \E a \in Listed("Ask") : a <= price
                                        ELSE \E b \in Listed("Bid") : b >= price

\* on_level_update, and on_cross if the book went through us.
UpdateQuotes ==
    LET hit == {side \in Side : quote[side] # None /\ Crossed(side, quote[side].price)} IN
    /\ phase = "update" /\ phase' = "requote"
    /\ quote' = [side \in Side |->
           IF quote[side] = None \/ side \in hit THEN None
           ELSE OnLevelUpdate(quote[side], DepthAt(side, quote[side].price))]
    /\ unbooked' = [side \in Side |->
           unbooked[side] + IF side \in hit THEN quote[side].remaining ELSE 0]
    /\ UNCHANGED <<seeded, depth, vol, inventory>>

-----------------------------------------------------------------------------
\* mutant: the touch itself is thought passive
ClampToTouch(raw_bid, raw_ask, best_bid, best_ask) ==
    LET bid == Smaller(raw_bid, best_ask)
        ask == Larger(raw_ask, best_bid)
    IN  [Bid |-> IF inventory < Cap THEN bid ELSE None,
         Ask |-> IF inventory > -Cap THEN Larger(ask, bid + 1) ELSE None]

\* mutant: quotes at the cap too
ClampAtCap(raw_bid, raw_ask, best_bid, best_ask) ==
    LET bid == Smaller(raw_bid, best_ask - 1)
        ask == Larger(raw_ask, best_bid + 1)
    IN  [Bid |-> IF inventory <= Cap THEN bid ELSE None,
         Ask |-> IF inventory >= -Cap THEN Larger(ask, bid + 1) ELSE None]

\* Prices behind the opposite touch, and no side beyond the cap: by the booked
\* inventory, which lacks the fills since the last booking.
Clamp(raw_bid, raw_ask, best_bid, best_ask) ==
    LET bid == Smaller(raw_bid, best_ask - 1)
        ask == Larger(raw_ask, best_bid + 1)
    IN  [Bid |-> IF inventory < Cap THEN bid ELSE None,
         Ask |-> IF inventory > -Cap THEN Larger(ask, bid + 1) ELSE None]

\* mutant: the quote is placed again at its own price
ReplacedAlways(side, desired) ==
    IF desired = None THEN None ELSE Place(desired, Size, DepthAt(side, desired))

\* An unwanted quote is cancelled, one at the desired price stays where it is in
\* the queue, any other is cancelled and placed anew.
Replaced(side, desired) ==
    IF desired = None THEN None
    ELSE IF quote[side] # None /\ quote[side].price = desired THEN quote[side]
    ELSE Place(desired, Size, DepthAt(side, desired))

IsBest(side, p) == /\ p \in Listed(side)
                   /\ \A q \in Listed(side) : IF side = "Bid" THEN q <= p ELSE q >= p

\* Quotes of the strategy, once it is warm; the half spread is not negative.
Requote(raw_bid, raw_ask) ==
    /\ phase = "requote" /\ vol = "ready" /\ raw_bid <= raw_ask
    /\ \E bb, ba \in Price :
          /\ IsBest("Bid", bb) /\ IsBest("Ask", ba)
          /\ LET want == Clamp(raw_bid, raw_ask, bb, ba)
             IN  quote' = [side \in Side |-> Replaced(side, want[side])]
    /\ phase' = "book"
    /\ UNCHANGED <<seeded, depth, vol, unbooked, inventory>>

\* During the warm-up nothing is wanted.
NoRequote == /\ phase = "requote"
             /\ quote' = NoQuotes /\ phase' = "book"
             /\ UNCHANGED <<seeded, depth, vol, unbooked, inventory>>

BookFills == /\ phase = "book" /\ phase' = "read"
             /\ inventory' = inventory + unbooked["Bid"] - unbooked["Ask"]
             /\ unbooked' = Nothing
             /\ UNCHANGED <<seeded, depth, vol, quote>>

Next == \/ \E b \in Books : Snapshot(b) \/ OnDiff(b)
        \/ \E t \in Trade : OnTrade(t)
        \/ \E raw_bid, raw_ask \in RawPrice : Requote(raw_bid, raw_ask)
        \/ UpdateQuotes \/ NoRequote \/ BookFills

Spec == Init /\ [][Next]_vars

-----------------------------------------------------------------------------
(* Properties                                                              *)

\* Types; no unsigned quantity goes below zero, and a quote is never more than Size.
TypeOK ==
    /\ seeded \in BOOLEAN /\ depth \in [Side -> [Price -> Nat]]
    /\ vol \in {"empty", "one", "ready"}
    /\ quote \in [Side -> VirtualQuote \cup {None}]
    /\ unbooked \in [Side -> Nat] /\ inventory \in Int
    /\ phase \in {"read", "update", "requote", "book"}

Remaining(side) == IF quote[side] = None THEN 0 ELSE quote[side].remaining
\* What we own, booked or not.
Position == inventory + unbooked["Bid"] - unbooked["Ask"]

\* How far the position can get, if every open quote fills as well: almost two
\* quotes beyond the cap.  One because fills since the last booking are not in the
\* inventory that clamp looks at (mm_sim.cpp:173), one because a whole quote is
\* placed as long as the cap is not reached (strategies.hpp:75-76).
Limit == Cap - 1 + 2 * Size
ExposureBounded == /\ Position + Remaining("Bid") <= Limit
                   /\ Position - Remaining("Ask") >= -Limit

\* "Never cross the market (these are passive quotes)" (strategies.hpp:66): while
\* the book has two sides and no diff is in the works, no quote is at or beyond the
\* opposite touch, though books change under quotes that stay and diffs that
\* empty a side leave quotes alone.
QuotesPassive ==
    phase = "read" /\ HasBoth(depth) =>
        /\ \A side \in Side : quote[side] # None => ~Crossed(side, quote[side].price)
        /\ quote["Bid"] # None /\ quote["Ask"] # None =>
              quote["Bid"].price < quote["Ask"].price

\* The estimate is never worse than the back of the level, as the book shows it.
QueueWithinLevel ==
    phase = "read" /\ HasBoth(depth) =>
        \A side \in Side : quote[side] # None =>
            /\ quote[side].queue_ahead <= Grain * quote[side].level_qty_seen
            /\ quote[side].level_qty_seen <= DepthAt(side, quote[side].price)

\* A quote that stays at its price only moves forward in the queue, and by no more
\* than has left its level: growth never improves our position (quote_sim.hpp:19),
\* and a requote at the same price keeps it (mm_sim.cpp:182).
QueueFallsWithLevel ==
    [][\A side \in Side :
          quote[side] # None /\ quote'[side] # None /\ quote'[side].price = quote[side].price =>
              /\ quote'[side].queue_ahead <= quote[side].queue_ahead
              /\ quote[side].queue_ahead - quote'[side].queue_ahead <=
                    Grain * Monus(quote[side].level_qty_seen, quote'[side].level_qty_seen)]_vars

\* "never quote a side that would push inventory past the cap" (strategies.hpp:66-67)
InventoryWithinCap == inventory \in -Cap .. Cap
=============================================================================
