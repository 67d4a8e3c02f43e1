--------------------------- MODULE ReferenceEngine ---------------------------
(***************************************************************************)
(* The naive matching engine of testing/reference_engine.hpp: what the     *)
(* fast engine of engine.hpp promises.  One std::map of price -> FIFO per  *)
(* side, a map of live order ids, one order-entry call at a time.          *)
(*                                                                         *)
(* A call is cut at every handler callback and at every visit of a maker,  *)
(* so that each step emits at most one event and the states a handler can  *)
(* observe in the middle of a call are states of the model.  A price whose *)
(* FIFO is empty stands for a price that is absent from the std::map.      *)
(***************************************************************************)
EXTENDS Integers, SequencesExt

CONSTANTS OrderId,      \* ids the callers use
          Participant,  \* owners of orders
          Price,        \* prices in ticks that limit orders carry
          Qty,          \* quantities that requests carry
          StpPolicies,  \* the self-trade policies the engine is built with
          None          \* no live reference, no taker, no event

ASSUME PriceAssumption == Price \subseteq Int
ASSUME QtyAssumption   == Qty \subseteq Nat
ASSUME StpAssumption   == StpPolicies \subseteq {"None", "CancelIncoming", "CancelResting"}

Side == {"Bid", "Ask"}
Tif  == {"GTC", "IOC"}

Order   == [id : OrderId, participant : Participant, remaining : Nat]
LiveRef == [side : Side, price : Price]
Taker   == [kind : Tif \cup {"market", "modify"}, id : OrderId, participant : Participant,
            side : Side, price : Int, remaining : Nat]

ASSUME NoneAssumption == None \notin LiveRef

VARIABLES book,   \* bids_ and asks_: the FIFO of each side and price, oldest first
          live,   \* live_: where each live id rests
          stp,    \* stp_
          pc,     \* "idle", "match": at the head of the matching loop,
                  \* "filled": on_trade has returned and the maker has nothing left
          taker,  \* arguments and locals of the call in progress
          event   \* the event the last step emitted, or None

vars == <<book, live, stp, pc, taker, event>>

-----------------------------------------------------------------------------
Opposite(side) == IF side = "Bid" THEN "Ask" ELSE "Bid"

\* a is closer to the touch than b: the order of the two std::maps
Better(side, a, b) == IF side = "Bid" THEN a > b ELSE a < b

Levels(side) == {p \in Price : book[side][p] # <<>>}
IsBest(side, p) == p \in Levels(side) /\ \A q \in Levels(side) : ~Better(side, q, p)

\* mutant: an equal price does not trade
CrossesStrictly(t, p) == \/ t.kind = "market"
                         \/ t.side = "Bid" /\ p < t.price
                         \/ t.side = "Ask" /\ p > t.price
\* The taker may trade at price p of the other side.
Crosses(t, p) == \/ t.kind = "market"
                 \/ t.side = "Bid" /\ p <= t.price
                 \/ t.side = "Ask" /\ p >= t.price

Accepted(id, side, price, qty) ==
    [type |-> "accept", id |-> id, side |-> side, price |-> price, qty |-> qty]
Traded(t, maker, price, fill) ==
    [type |-> "trade", taker |-> t.id, maker |-> maker.id, price |-> price, qty |-> fill,
     side |-> t.side]
Cancelled(id, reason) == [type |-> "cancel", id |-> id, reason |-> reason]
Rejected(id, reason)  == [type |-> "reject", id |-> id, reason |-> reason]

Init == /\ book = [side \in Side |-> [p \in Price |-> <<>>]]
        /\ live = [id \in OrderId |-> None]
        /\ stp \in StpPolicies
        /\ pc = "idle" /\ taker = None /\ event = None

-----------------------------------------------------------------------------
(* Entry of the calls.                                                     *)

ValidNew(id, qty) == qty # 0 /\ live[id] = None

\* validate_new fails: add_limit and add_market both return at once.
RejectNew(id, qty) ==
    /\ pc = "idle" /\ ~ValidNew(id, qty)
    /\ event' = Rejected(id, IF qty = 0 THEN "ZeroQty" ELSE "DuplicateOrderId")
    /\ UNCHANGED <<book, live, stp, pc, taker>>

StartMatch(kind, id, participant, side, price, qty) ==
    /\ pc' = "match"
    /\ taker' = [kind |-> kind, id |-> id, participant |-> participant, side |-> side,
                 price |-> price, remaining |-> qty]

AddLimit(id, participant, side, price, qty, tif) ==
    /\ pc = "idle" /\ ValidNew(id, qty)
    /\ StartMatch(tif, id, participant, side, price, qty)
    /\ event' = Accepted(id, side, price, qty)
    /\ UNCHANGED <<book, live, stp>>

AddMarket(id, participant, side, qty) ==
    /\ pc = "idle" /\ ValidNew(id, qty)
    /\ StartMatch("market", id, participant, side, 0, qty)
    /\ event' = Accepted(id, side, 0, qty)
    /\ UNCHANGED <<book, live, stp>>

\* cancel and modify of an id that is not live
RejectUnknown(id) ==
    /\ pc = "idle" /\ live[id] = None
    /\ event' = Rejected(id, "UnknownOrderId")
    /\ UNCHANGED <<book, live, stp, pc, taker>>

\* The i-th order of a level leaves the book and its id dies.
Unrest(side, price, i) ==
    /\ book' = [book EXCEPT ![side][price] = RemoveAt(@, i)]
    /\ live' = [live EXCEPT ![book[side][price][i].id] = None]

\* order id is found by the scan of its level
RestsAt(id, i) ==
    /\ live[id] # None
    /\ i \in DOMAIN book[live[id].side][live[id].price]
    /\ book[live[id].side][live[id].price][i].id = id

\* cancel, and modify to quantity zero
Cancel(id, i) ==
    /\ pc = "idle" /\ RestsAt(id, i)
    /\ Unrest(live[id].side, live[id].price, i)
    /\ event' = Cancelled(id, "User")
    /\ UNCHANGED <<stp, pc, taker>>

\* mutant: growth keeps the place too
CanReduceAny(order, ref, price, qty) == price = ref.price
\* A smaller quantity at the same price keeps the place in the queue.
CanReduce(order, ref, price, qty) == price = ref.price /\ qty <= order.remaining

Reduce(id, i, price, qty) ==
    LET ref == live[id] IN
    /\ pc = "idle" /\ RestsAt(id, i) /\ qty # 0
    /\ CanReduce(book[ref.side][ref.price][i], ref, price, qty)
    /\ book' = [book EXCEPT ![ref.side][ref.price][i].remaining = qty]
    /\ event' = None
    /\ UNCHANGED <<live, stp, pc, taker>>

\* Any other modify is a cancel/replace that may match; it emits no event of its own.
Replace(id, i, price, qty) ==
    LET ref   == live[id]
        order == book[ref.side][ref.price][i]
    IN
    /\ pc = "idle" /\ RestsAt(id, i) /\ qty # 0
    /\ ~CanReduce(order, ref, price, qty)
    /\ Unrest(ref.side, ref.price, i)
    /\ StartMatch("modify", id, order.participant, ref.side, price, qty)
    /\ event' = None
    /\ UNCHANGED stp

-----------------------------------------------------------------------------
(* The matching loop.  The inner loop stays on one level while that level  *)
(* has orders and the taker has quantity; nothing better than it appears   *)
(* meanwhile, so each visit of a maker is a visit of the best level.       *)

Facing == Opposite(taker.side)
Oldest(p) == book[Facing][p][1]
Matching(p) == /\ pc = "match" /\ taker.remaining > 0
               /\ IsBest(Facing, p) /\ Crosses(taker, p)
SelfTrade(maker) == maker.participant = taker.participant /\ stp # "None"

Return == pc' = "idle" /\ taker' = None

\* The incoming order is cancelled: what it already traded stands, nothing rests.
StpCancelIncoming(p) ==
    /\ Matching(p) /\ SelfTrade(Oldest(p)) /\ stp = "CancelIncoming"
    /\ event' = Cancelled(taker.id, "SelfTradePrevention")
    /\ Return
    /\ UNCHANGED <<book, live, stp>>

\* mutant: the live map keeps the id of the order that was pulled
StpCancelRestingKeepsId(p) ==
    /\ Matching(p) /\ SelfTrade(Oldest(p)) /\ stp = "CancelResting"
    /\ book' = [book EXCEPT ![Facing][p] = Tail(@)]
    /\ event' = Cancelled(Oldest(p).id, "SelfTradePrevention")
    /\ UNCHANGED <<live, stp, pc, taker>>
\* mutant: the event names the incoming order
StpCancelRestingNamesTaker(p) ==
    /\ Matching(p) /\ SelfTrade(Oldest(p)) /\ stp = "CancelResting"
    /\ Unrest(Facing, p, 1)
    /\ event' = Cancelled(taker.id, "SelfTradePrevention")
    /\ UNCHANGED <<stp, pc, taker>>

\* The resting order is cancelled and matching goes on.
StpCancelResting(p) ==
    /\ Matching(p) /\ SelfTrade(Oldest(p)) /\ stp = "CancelResting"
    /\ Unrest(Facing, p, 1)
    /\ event' = Cancelled(Oldest(p).id, "SelfTradePrevention")
    /\ UNCHANGED <<stp, pc, taker>>

\* mutant: the fill is the taker's quantity, whatever the maker has left
TradeUnbounded(p) ==
    LET maker == Oldest(p)
        fill  == taker.remaining
    IN
    /\ Matching(p) /\ ~SelfTrade(maker)
    /\ taker' = [taker EXCEPT !.remaining = @ - fill]
    /\ book' = [book EXCEPT ![Facing][p][1].remaining = @ - fill]
    /\ event' = Traded(taker, maker, p, fill)
    /\ pc' = IF maker.remaining = fill THEN "filled" ELSE "match"
    /\ UNCHANGED <<live, stp>>

\* One trade at the maker's price; on_trade runs before a filled maker is removed.
Trade(p) ==
    LET maker == Oldest(p)
        fill  == IF taker.remaining < maker.remaining THEN taker.remaining ELSE maker.remaining
    IN
    /\ Matching(p) /\ ~SelfTrade(maker)
    /\ taker' = [taker EXCEPT !.remaining = @ - fill]
    /\ book' = [book EXCEPT ![Facing][p][1].remaining = @ - fill]
    /\ event' = Traded(taker, maker, p, fill)
    /\ pc' = IF maker.remaining = fill THEN "filled" ELSE "match"
    /\ UNCHANGED <<live, stp>>

\* mutant: a filled maker stays at the front
RemoveFilledNever(p) ==
    /\ pc = "filled" /\ IsBest(Facing, p)
    /\ pc' = "match" /\ event' = None
    /\ UNCHANGED <<book, live, stp, taker>>

RemoveFilled(p) ==
    /\ pc = "filled" /\ IsBest(Facing, p)
    /\ Unrest(Facing, p, 1)
    /\ pc' = "match" /\ event' = None
    /\ UNCHANGED <<stp, taker>>

\* The loop ends: no quantity is left, or the best opposite level (so every
\* opposite level) is out of the taker's reach.
LoopEnds == /\ pc = "match"
            /\ \/ taker.remaining = 0
               \/ \A p \in Levels(Facing) : ~Crosses(taker, p)

FullyMatched ==
    /\ LoopEnds /\ taker.remaining = 0
    /\ Return /\ event' = None
    /\ UNCHANGED <<book, live, stp>>

DropRemainder ==
    /\ LoopEnds /\ taker.remaining > 0 /\ taker.kind \in {"IOC", "market"}
    /\ event' = Cancelled(taker.id,
                          IF taker.kind = "IOC" THEN "IocRemainder" ELSE "MarketRemainder")
    /\ Return
    /\ UNCHANGED <<book, live, stp>>

Rest ==
    LET order == [id |-> taker.id, participant |-> taker.participant,
                  remaining |-> taker.remaining]
    IN
    /\ LoopEnds /\ taker.remaining > 0 /\ taker.kind \in {"GTC", "modify"}
    /\ book' = [book EXCEPT ![taker.side][taker.price] = Append(@, order)]
    /\ live' = [live EXCEPT ![taker.id] = [side |-> taker.side, price |-> taker.price]]
    /\ Return /\ event' = None
    /\ UNCHANGED stp

-----------------------------------------------------------------------------
Enter ==
    \/ \E id \in OrderId, qty \in Qty : RejectNew(id, qty)
    \/ \E id \in OrderId : RejectUnknown(id)
    \/ \E id \in OrderId, participant \in Participant, side \in Side, qty \in Qty :
          \/ \E price \in Price, tif \in Tif : AddLimit(id, participant, side, price, qty, tif)
          \/ AddMarket(id, participant, side, qty)
    \/ \E id \in OrderId :
          live[id] # None /\ \E i \in DOMAIN book[live[id].side][live[id].price] :
             \/ Cancel(id, i)
             \/ \E price \in Price, qty \in Qty :
                   Reduce(id, i, price, qty) \/ Replace(id, i, price, qty)

Continue ==
    \/ \E p \in Price : \/ StpCancelIncoming(p) \/ StpCancelResting(p)
                        \/ Trade(p) \/ RemoveFilled(p)
    \/ FullyMatched \/ DropRemainder \/ Rest

Next == Enter \/ Continue

\* A call that has begun runs on the caller's thread until it returns.
Spec == Init /\ [][Next]_vars /\ WF_vars(Continue)

-----------------------------------------------------------------------------
(* Properties                                                              *)

\* Types of the engine's state and of the call in progress.
TypeOK ==
    /\ book \in [Side -> [Price -> Seq(Order)]]
    /\ live \in [OrderId -> LiveRef \cup {None}]
    /\ stp \in {"None", "CancelIncoming", "CancelResting"}
    /\ pc \in {"idle", "match", "filled"}
    /\ pc = "idle" => taker = None
    /\ pc # "idle" => taker \in Taker
    /\ pc # "idle" /\ taker.kind # "market" => taker.price \in Price

\* The live map and the book describe the same orders, in every state a handler
\* can observe: find_order (149-155) never throws "live map points at missing
\* order", unrest never misses, and no id rests twice.
LiveRefsResolve ==
    /\ \A id \in OrderId : live[id] # None =>
          \E i \in DOMAIN book[live[id].side][live[id].price] : RestsAt(id, i)
    /\ \A side \in Side, p \in Price : \A i \in DOMAIN book[side][p] :
          /\ live[book[side][p][i].id] = [side |-> side, price |-> p]
          /\ \A j \in DOMAIN book[side][p] : book[side][p][j].id = book[side][p][i].id => j = i

\* The book is never crossed or locked, not even inside a call, after a
\* cancel/replace, or after self-trade prevention ended a match early.
NotCrossed == \A b \in Levels("Bid"), a \in Levels("Ask") : b < a

\* An order with nothing left exists only between on_trade and the removal of
\* the filled maker, and is then the front of the best level facing the taker.
EmptyOrderIsFilledMaker ==
    \A side \in Side, p \in Price : \A i \in DOMAIN book[side][p] :
        book[side][p][i].remaining = 0
          <=> pc = "filled" /\ side = Facing /\ IsBest(side, p) /\ i = 1

\* What one step may do to a level's FIFO: orders that stay keep their relative
\* order and never grow, and whoever joins stands behind everybody who stayed.
\* So no modify, self-trade cancel or partial fill wins or costs priority.
FairStep(old, new) ==
    \A i, j \in DOMAIN new : i < j =>
        \A m \in DOMAIN old : old[m].id = new[j].id =>
            \E k \in 1 .. (m - 1) : old[k].id = new[i].id
NoGrowth(old, new) ==
    \A i \in DOMAIN new, m \in DOMAIN old :
        old[m].id = new[i].id => new[i].remaining <= old[m].remaining
PriorityKept ==
    [][\A side \in Side, p \in Price :
          /\ FairStep(book[side][p], book'[side][p])
          /\ NoGrowth(book[side][p], book'[side][p])]_vars

\* Every order-entry call returns: the matching loops terminate.
CallReturns == pc # "idle" ~> pc = "idle"
=============================================================================
