---------------------------- MODULE MatchingEngine ----------------------------
(***************************************************************************)
(* MatchingEngine of engine.hpp over the book of book.hpp and the pools of *)
(* pool.hpp: orders are nodes of intrusive FIFO lists, price levels nodes  *)
(* of one intrusive list per side, and both are recycled through LIFO free *)
(* lists.  Pointers are positions in the two memories, Nil is nullptr.     *)
(* orders_by_id_ and levels_by_price_ are maps here (FlatHashMap has a     *)
(* module of its own).                                                     *)
(*                                                                         *)
(* Calls are cut as in ReferenceEngine, plus at the turns of the nested    *)
(* loops of match_incoming, whose pointers live from one turn to the next. *)
(***************************************************************************)
EXTENDS Integers, SequencesExt, Pool

CONSTANTS OrderId, Participant, Price, Qty, StpPolicies, None,
          QtyMod,           \* Qty is unsigned: totals are kept modulo this (2^64)
          OrderSlab,        \* objects per slab of the two pools
          LevelSlab,
          ExpectedOrders,   \* what the constructor reserves
          ExpectedLevels

ASSUME PriceAssumption == Price \subseteq Int
ASSUME QtyAssumption   == QtyMod \in Nat \ {0} /\ Qty \subseteq 0 .. (QtyMod - 1)
ASSUME SlabAssumption  == /\ {OrderSlab, LevelSlab} \subseteq Nat \ {0}
                          /\ {ExpectedOrders, ExpectedLevels} \subseteq Nat

ASSUME StpAssumption   == StpPolicies \subseteq {"None", "CancelIncoming", "CancelResting"}

Side == {"Bid", "Ask"}
Tif  == {"GTC", "IOC"}
Nil  == 0

Taker == [kind : Tif \cup {"market", "modify"}, id : OrderId, participant : Participant,
          side : Side, price : Int, remaining : 0 .. (QtyMod - 1)]

ASSUME NoneAssumption == None \notin Taker /\ None \notin [side : Side, price : Price]

\* A node nobody owns, and what alloc value-initialises.
BlankOrder == [prev |-> Nil, next |-> Nil, level |-> Nil, id |-> None, remaining |-> 0,
               price |-> 0, participant |-> None, side |-> "Bid"]
BlankLevel == [better |-> Nil, worse |-> Nil, front |-> Nil, back |-> Nil, price |-> 0,
               total_qty |-> 0, order_count |-> 0]

VARIABLES heap,    \* the book, the pools, their memories and orders_by_id_
          stp,     \* stp_
          pc,      \* "idle"; "outer", "inner": heads of the two matching loops;
                   \* "filled": on_trade has returned and the maker has nothing left
          taker,   \* arguments and locals of the call in progress
          cursor,  \* lvl, maker and next of match_incoming
          event    \* what the last step a caller or handler can see emitted, or None

vars == <<heap, stp, pc, taker, cursor, event>>

NoCursor == [lvl |-> Nil, price |-> 0, maker |-> Nil, next |-> Nil]

Opposite(side) == IF side = "Bid" THEN "Ask" ELSE "Bid"
Better(side, a, b) == IF side = "Bid" THEN a > b ELSE a < b
Wrap(n) == n % QtyMod

-----------------------------------------------------------------------------
(* BookSide.  Each operator takes the heap and returns the heap it leaves. *)

PushOrder(h, lvl, order) ==
    LET back   == h.levels[lvl].back
        linked == IF back # Nil THEN [h EXCEPT !.orders[back].next = order]
                                ELSE [h EXCEPT !.levels[lvl].front = order]
    IN  [linked EXCEPT !.orders[order].level = lvl,
                       !.orders[order].prev = back,
                       !.orders[order].next = Nil,
                       !.levels[lvl].back = order,
                       !.levels[lvl].total_qty = Wrap(@ + h.orders[order].remaining),
                       !.levels[lvl].order_count = @ + 1]

RemoveLevel(h, side, lvl) ==
    LET l == h.levels[lvl]
        a == IF l.better # Nil THEN [h EXCEPT !.levels[l.better].worse = l.worse]
                               ELSE [h EXCEPT !.best[side] = l.worse]
        b == IF l.worse # Nil THEN [a EXCEPT !.levels[l.worse].better = l.better] ELSE a
    IN  [b EXCEPT !.byPrice[side][l.price] = Nil,
                  !.levelPool = Dealloc(@, lvl),
                  !.levels[lvl] = BlankLevel]

Unlink(h, order) ==
    LET o == h.orders[order]
        a == IF o.prev # Nil THEN [h EXCEPT !.orders[o.prev].next = o.next]
                             ELSE [h EXCEPT !.levels[o.level].front = o.next]
        b == IF o.next # Nil THEN [a EXCEPT !.orders[o.next].prev = o.prev]
                             ELSE [a EXCEPT !.levels[o.level].back = o.prev]
    IN  [b EXCEPT !.levels[o.level].total_qty = Wrap(@ - o.remaining),
                  !.levels[o.level].order_count = @ - 1]

\* mutant: the level is torn down when its (wrapped) total is zero
RemoveOrderByQty(h, order) ==
    LET lvl == h.orders[order].level
        g   == Unlink(h, order)
    IN  IF g.levels[lvl].total_qty = 0 THEN RemoveLevel(g, h.orders[order].side, lvl) ELSE g

\* The last order of a level takes the level along.
RemoveOrder(h, order) ==
    LET lvl == h.orders[order].level
        g   == Unlink(h, order)
    IN  IF g.levels[lvl].order_count = 0 THEN RemoveLevel(g, h.orders[order].side, lvl) ELSE g

\* Memory of a pool after an allocation: new slabs are blank, the object too.
Provide(mem, pool, obj, blank) ==
    [n \in 1 .. pool.capacity |-> IF n \in DOMAIN mem /\ n # obj THEN mem[n] ELSE blank]

\* mutant: always behind the best level
LastBetterFirstHop(h, side, price) == h.best[side]

\* A new level goes behind the last level better than it.
LastBetter(h, side, price) ==
    LET Walk[pos \in DOMAIN h.levels] ==
            LET worse == h.levels[pos].worse
            IN  IF worse # Nil /\ Better(side, h.levels[worse].price, price)
                THEN Walk[worse] ELSE pos
    IN  Walk[h.best[side]]

CreateLevel(h, side, price) ==
    LET lvl  == Allocated(h.levelPool, LevelSlab)
        pool == Alloc(h.levelPool, LevelSlab)
        best == h.best[side]
        g    == [h EXCEPT !.levelPool = pool,
                          !.levels = [Provide(@, pool, lvl, BlankLevel)
                                        EXCEPT ![lvl].price = price],
                          !.byPrice[side][price] = lvl]
    IN  IF best = Nil \/ Better(side, price, h.levels[best].price)
        THEN LET a == [g EXCEPT !.levels[lvl].worse = best, !.best[side] = lvl]
             IN  IF best # Nil THEN [a EXCEPT !.levels[best].better = lvl] ELSE a
        ELSE LET pos   == LastBetter(h, side, price)
                 worse == h.levels[pos].worse
                 a     == [g EXCEPT !.levels[lvl].better = pos, !.levels[lvl].worse = worse,
                                    !.levels[pos].worse = lvl]
             IN  IF worse # Nil THEN [a EXCEPT !.levels[worse].better = lvl] ELSE a

GetOrCreateLevel(h, side, price) ==
    IF h.byPrice[side][price] # Nil THEN h ELSE CreateLevel(h, side, price)

-----------------------------------------------------------------------------
(* Orders                                                                  *)

\* An order node is taken from the pool, filled in and queued.
RestOrder(h, t) ==
    LET order == Allocated(h.orderPool, OrderSlab)
        pool  == Alloc(h.orderPool, OrderSlab)
        g     == [h EXCEPT !.orderPool = pool,
                           !.orders = [Provide(@, pool, order, BlankOrder)
                                         EXCEPT ![order] = [BlankOrder EXCEPT
                                            !.id = t.id, !.participant = t.participant,
                                            !.side = t.side, !.price = t.price,
                                            !.remaining = t.remaining]],
                           !.ordersById[t.id] = order]
        k     == GetOrCreateLevel(g, t.side, t.price)
    IN  PushOrder(k, k.byPrice[t.side][t.price], order)

FreeOrder(h, order) == [h EXCEPT !.orderPool = Dealloc(@, order), !.orders[order] = BlankOrder]

\* remove_resting: the id, the place in the book, and the node.
RemoveResting(h, order) ==
    FreeOrder(RemoveOrder([h EXCEPT !.ordersById[h.orders[order].id] = Nil], order), order)

Accepted(id, side, price, qty) ==
    [type |-> "accept", id |-> id, side |-> side, price |-> price, qty |-> qty]
Traded(t, maker, price, fill) ==
    [type |-> "trade", taker |-> t.id, maker |-> maker.id, price |-> price, qty |-> fill,
     side |-> t.side]
Cancelled(id, reason) == [type |-> "cancel", id |-> id, reason |-> reason]
Rejected(id, reason)  == [type |-> "reject", id |-> id, reason |-> reason]

EmptyHeap ==
    LET orderPool == Reserve(ExpectedOrders, OrderSlab)
        levelPool == Reserve(ExpectedLevels, LevelSlab)
    IN  [orders     |-> [n \in 1 .. orderPool.capacity |-> BlankOrder],
         levels     |-> [n \in 1 .. levelPool.capacity |-> BlankLevel],
         orderPool  |-> orderPool,
         levelPool  |-> levelPool,
         best       |-> [side \in Side |-> Nil],
         byPrice    |-> [side \in Side |-> [p \in Price |-> Nil]],
         ordersById |-> [id \in OrderId |-> Nil]]

Init == /\ heap = EmptyHeap
        /\ stp \in StpPolicies
        /\ pc = "idle" /\ taker = None /\ cursor = NoCursor /\ event = None

-----------------------------------------------------------------------------
(* Entry of the calls                                                      *)

Find(id) == heap.ordersById[id]
ValidNew(id, qty) == qty # 0 /\ Find(id) = Nil

\* validate_new fails: add_limit and add_market both return at once.
RejectNew(id, qty) ==
    /\ pc = "idle" /\ ~ValidNew(id, qty)
    /\ event' = Rejected(id, IF qty = 0 THEN "ZeroQty" ELSE "DuplicateOrderId")
    /\ UNCHANGED <<heap, stp, pc, taker, cursor>>

StartMatch(kind, id, participant, side, price, qty) ==
    /\ pc' = "outer"
    /\ taker' = [kind |-> kind, id |-> id, participant |-> participant, side |-> side,
                 price |-> price, remaining |-> qty]
    /\ UNCHANGED cursor

AddLimit(id, participant, side, price, qty, tif) ==
    /\ pc = "idle" /\ ValidNew(id, qty)
    /\ StartMatch(tif, id, participant, side, price, qty)
    /\ event' = Accepted(id, side, price, qty)
    /\ UNCHANGED <<heap, stp>>

AddMarket(id, participant, side, qty) ==
    /\ pc = "idle" /\ ValidNew(id, qty)
    /\ StartMatch("market", id, participant, side, 0, qty)
    /\ event' = Accepted(id, side, 0, qty)
    /\ UNCHANGED <<heap, stp>>

\* cancel and modify of an id that is not live
RejectUnknown(id) ==
    /\ pc = "idle" /\ Find(id) = Nil
    /\ event' = Rejected(id, "UnknownOrderId")
    /\ UNCHANGED <<heap, stp, pc, taker, cursor>>

\* cancel, and modify to quantity zero
Cancel(id) ==
    /\ pc = "idle" /\ Find(id) # Nil
    /\ heap' = RemoveResting(heap, Find(id))
    /\ event' = Cancelled(id, "User")
    /\ UNCHANGED <<stp, pc, taker, cursor>>

\* mutant: growth keeps the place too
CanReduceAny(order, price, qty) == price = order.price

\* A smaller quantity at the same price keeps the place in the queue.
CanReduce(order, price, qty) == price = order.price /\ qty <= order.remaining

\* mutant: the level's total is forgotten
ResizeOrderOnly(h, order, qty) == [h EXCEPT !.orders[order].remaining = qty]

Resize(h, order, qty) ==
    [h EXCEPT !.levels[h.orders[order].level].total_qty =
                  Wrap(@ - (h.orders[order].remaining - qty)),
              !.orders[order].remaining = qty]

Reduce(id, price, qty) ==
    /\ pc = "idle" /\ Find(id) # Nil /\ qty # 0
    /\ CanReduce(heap.orders[Find(id)], price, qty)
    /\ heap' = Resize(heap, Find(id), qty)
    /\ event' = None
    /\ UNCHANGED <<stp, pc, taker, cursor>>

\* Any other modify is a cancel/replace that may match; it emits no event of its own.
Replace(id, price, qty) ==
    LET order == heap.orders[Find(id)] IN
    /\ pc = "idle" /\ Find(id) # Nil /\ qty # 0
    /\ ~CanReduce(order, price, qty)
    /\ heap' = RemoveResting(heap, Find(id))
    /\ StartMatch("modify", id, order.participant, order.side, price, qty)
    /\ event' = None
    /\ UNCHANGED stp

-----------------------------------------------------------------------------
(* match_incoming                                                          *)

Facing    == Opposite(taker.side)
BestLevel == heap.best[Facing]
Maker     == heap.orders[cursor.maker]

Crosses(t, p) == \/ t.kind = "market"
                 \/ t.side = "Bid" /\ t.price >= p
                 \/ t.side = "Ask" /\ t.price <= p

LoopEnds == /\ pc = "outer"
            /\ \/ taker.remaining = 0
               \/ BestLevel = Nil
               \/ BestLevel # Nil /\ ~Crosses(taker, heap.levels[BestLevel].price)

\* One more level: the outer loop reads best() afresh.
EnterLevel ==
    /\ pc = "outer" /\ ~LoopEnds
    /\ pc' = "inner"
    /\ cursor' = [lvl |-> BestLevel, price |-> heap.levels[BestLevel].price,
                  maker |-> heap.levels[BestLevel].front, next |-> Nil]
    /\ UNCHANGED <<heap, stp, taker, event>>

LeaveLevel ==
    /\ pc = "inner" /\ (cursor.maker = Nil \/ taker.remaining = 0)
    /\ pc' = "outer" /\ cursor' = NoCursor
    /\ UNCHANGED <<heap, stp, taker, event>>

AtMaker == pc = "inner" /\ cursor.maker # Nil /\ taker.remaining > 0
SelfTrade == Maker.participant = taker.participant /\ stp # "None"

Return == pc' = "idle" /\ taker' = None /\ cursor' = NoCursor

\* The incoming order is cancelled: what it already traded stands, nothing rests.
StpCancelIncoming ==
    /\ AtMaker /\ SelfTrade /\ stp = "CancelIncoming"
    /\ event' = Cancelled(taker.id, "SelfTradePrevention")
    /\ Return
    /\ UNCHANGED <<heap, stp>>

\* mutant: the loop does not move off the pulled order
StpCancelRestingStays ==
    /\ AtMaker /\ SelfTrade /\ stp = "CancelResting"
    /\ heap' = RemoveResting(heap, cursor.maker)
    /\ event' = Cancelled(Maker.id, "SelfTradePrevention")
    /\ UNCHANGED <<stp, pc, taker, cursor>>

\* The resting order is cancelled and matching goes on with the next one, whose
\* pointer was read before the removal.
StpCancelResting ==
    /\ AtMaker /\ SelfTrade /\ stp = "CancelResting"
    /\ heap' = RemoveResting(heap, cursor.maker)
    /\ event' = Cancelled(Maker.id, "SelfTradePrevention")
    /\ cursor' = [cursor EXCEPT !.maker = Maker.next]
    /\ UNCHANGED <<stp, pc, taker>>

\* mutant: the fill is the taker's quantity, whatever the maker has left
TradeUnbounded ==
    LET fill   == taker.remaining
        filled == Maker.remaining = fill
    IN
    /\ AtMaker /\ ~SelfTrade
    /\ taker' = [taker EXCEPT !.remaining = @ - fill]
    /\ heap' = [heap EXCEPT !.orders[cursor.maker].remaining = @ - fill,
                            !.levels[cursor.lvl].total_qty = Wrap(@ - fill)]
    /\ event' = Traded(taker, Maker, cursor.price, fill)
    /\ pc' = IF filled THEN "filled" ELSE "inner"
    /\ cursor' = IF filled THEN [cursor EXCEPT !.next = Maker.next]
                           ELSE [cursor EXCEPT !.maker = Maker.next]
    /\ UNCHANGED stp

Trade ==
    LET fill   == IF taker.remaining < Maker.remaining THEN taker.remaining ELSE Maker.remaining
        filled == Maker.remaining = fill
    IN
    /\ AtMaker /\ ~SelfTrade
    /\ taker' = [taker EXCEPT !.remaining = @ - fill]
    /\ heap' = [heap EXCEPT !.orders[cursor.maker].remaining = @ - fill,
                            !.levels[cursor.lvl].total_qty = Wrap(@ - fill)]
    /\ event' = Traded(taker, Maker, cursor.price, fill)
    /\ pc' = IF filled THEN "filled" ELSE "inner"
    /\ cursor' = IF filled THEN [cursor EXCEPT !.next = Maker.next]
                           ELSE [cursor EXCEPT !.maker = Maker.next]
    /\ UNCHANGED stp

\* mutant: a filled maker stays
RemoveFilledNever ==
    /\ pc = "filled"
    /\ pc' = "inner" /\ event' = None
    /\ cursor' = [cursor EXCEPT !.maker = cursor.next, !.next = Nil]
    /\ UNCHANGED <<heap, stp, taker>>

\* The filled maker goes, with its id, its node and maybe its level.
RemoveFilled ==
    /\ pc = "filled"
    /\ heap' = RemoveResting(heap, cursor.maker)
    /\ pc' = "inner" /\ event' = None
    /\ cursor' = [cursor EXCEPT !.maker = cursor.next, !.next = Nil]
    /\ UNCHANGED <<stp, taker>>

FullyMatched ==
    /\ LoopEnds /\ taker.remaining = 0
    /\ Return /\ event' = None
    /\ UNCHANGED <<heap, stp>>

DropRemainder ==
    /\ LoopEnds /\ taker.remaining > 0 /\ taker.kind \in {"IOC", "market"}
    /\ event' = Cancelled(taker.id,
                          IF taker.kind = "IOC" THEN "IocRemainder" ELSE "MarketRemainder")
    /\ Return
    /\ UNCHANGED <<heap, stp>>

Rest ==
    /\ LoopEnds /\ taker.remaining > 0 /\ taker.kind \in {"GTC", "modify"}
    /\ heap' = RestOrder(heap, taker)
    /\ Return /\ event' = None
    /\ UNCHANGED stp

-----------------------------------------------------------------------------
Enter ==
    \/ \E id \in OrderId, qty \in Qty : RejectNew(id, qty)
    \/ \E id \in OrderId : RejectUnknown(id) \/ Cancel(id)
    \/ \E id \in OrderId, participant \in Participant, side \in Side, qty \in Qty :
          \/ \E price \in Price, tif \in Tif : AddLimit(id, participant, side, price, qty, tif)
          \/ AddMarket(id, participant, side, qty)
    \/ \E id \in OrderId, price \in Price, qty \in Qty :
          Reduce(id, price, qty) \/ Replace(id, price, qty)

Continue ==
    \/ EnterLevel \/ LeaveLevel
    \/ StpCancelIncoming \/ StpCancelResting \/ Trade \/ RemoveFilled
    \/ FullyMatched \/ DropRemainder \/ Rest

Next == Enter \/ Continue

\* A call that has begun runs on the caller's thread until it returns.
Spec == Init /\ [][Next]_vars /\ WF_vars(Continue)

-----------------------------------------------------------------------------
(* What the pointers stand for                                             *)

\* The orders reachable from one along next, oldest first.
Fifo(h, first) ==
    LET From[n \in 0 .. Len(h.orders)] ==
            IF n = Nil THEN <<>> ELSE <<n>> \o From[h.orders[n].next]
    IN  From[first]

\* The levels reachable from one along worse.
Ladder(h, side) ==
    LET From[n \in 0 .. Len(h.levels)] ==
            IF n = Nil THEN <<>> ELSE <<n>> \o From[h.levels[n].worse]
    IN  From[h.best[side]]

AsOrder(h, n) == [id |-> h.orders[n].id, participant |-> h.orders[n].participant,
                  remaining |-> h.orders[n].remaining]
Queue(h, side, p) ==
    LET lvl  == h.byPrice[side][p]
        fifo == Fifo(h, h.levels[lvl].front)
    IN  IF lvl = Nil THEN <<>> ELSE [i \in DOMAIN fifo |-> AsOrder(h, fifo[i])]

\* The variables of the reference engine.
BookOf(h) == [side \in Side |-> [p \in Price |-> Queue(h, side, p)]]
LiveOf(h) == [id \in OrderId |->
                IF h.ordersById[id] = Nil THEN None
                ELSE [side  |-> h.orders[h.ordersById[id]].side,
                      price |-> h.orders[h.ordersById[id]].price]]

\* The engine is the reference engine with the pointers read as sequences, and
\* the turns of the inner loop hidden.
Reference ==
    INSTANCE ReferenceEngine WITH
        book  <- BookOf(heap),
        live  <- LiveOf(heap),
        pc    <- IF pc \in {"outer", "inner"} THEN "match" ELSE pc,
        event <- event

-----------------------------------------------------------------------------
(* Properties                                                              *)

OrderNode == [prev : Nat, next : Nat, level : Nat, id : OrderId \cup {None},
              remaining : 0 .. (QtyMod - 1), price : Int,
              participant : Participant \cup {None}, side : Side]
LevelNode == [better : Nat, worse : Nat, front : Nat, back : Nat, price : Int,
              total_qty : 0 .. (QtyMod - 1), order_count : Nat]

\* Types of the engine's memory and of the call in progress.
TypeOK ==
    /\ heap.orders \in Seq(OrderNode) /\ heap.levels \in Seq(LevelNode)
    /\ heap.orderPool \in PoolState /\ heap.orderPool.capacity = Len(heap.orders)
    /\ heap.levelPool \in PoolState /\ heap.levelPool.capacity = Len(heap.levels)
    /\ heap.best \in [Side -> 0 .. Len(heap.levels)]
    /\ heap.byPrice \in [Side -> [Price -> 0 .. Len(heap.levels)]]
    /\ heap.ordersById \in [OrderId -> 0 .. Len(heap.orders)]
    /\ stp \in {"None", "CancelIncoming", "CancelResting"}
    /\ pc \in {"idle", "outer", "inner", "filled"}
    /\ pc = "idle" => taker = None
    /\ pc # "idle" => taker \in Taker
    /\ cursor \in [lvl : 0 .. Len(heap.levels), price : Int,
                   maker : 0 .. Len(heap.orders), next : 0 .. Len(heap.orders)]

SumOfRemaining(h, fifo) ==
    LET Total[n \in 0 .. Len(fifo)] ==
            IF n = 0 THEN 0 ELSE Total[n - 1] + h.orders[fifo[n]].remaining
    IN  Total[Len(fifo)]

\* Each level's FIFO is one doubly linked list of orders that belong to it, and
\* count and total describe it (the total modulo 2^64: a level whose total has
\* wrapped to zero is still a level, with the orders the count says).
FifoIntact ==
    \A side \in Side : \A lvl \in ToSet(Ladder(heap, side)) :
        LET l    == heap.levels[lvl]
            fifo == Fifo(heap, l.front)
        IN  /\ fifo # <<>> /\ l.back = Last(fifo)
            /\ l.order_count = Len(fifo)
            /\ l.total_qty = Wrap(SumOfRemaining(heap, fifo))
            /\ \A i \in DOMAIN fifo :
                  LET o == heap.orders[fifo[i]]
                  IN  /\ o.level = lvl /\ o.side = side /\ o.price = l.price
                      /\ o.prev = IF i = 1 THEN Nil ELSE fifo[i - 1]

\* The two structures of a BookSide agree: the level list is doubly linked, runs
\* strictly from best to worst, and holds exactly the levels the price map holds.
LadderIntact ==
    \A side \in Side :
        LET ladder == Ladder(heap, side) IN
        /\ \A i \in DOMAIN ladder :
              LET l == heap.levels[ladder[i]] IN
              /\ l.better = IF i = 1 THEN Nil ELSE ladder[i - 1]
              /\ i > 1 => Better(side, heap.levels[ladder[i - 1]].price, l.price)
              /\ heap.byPrice[side][l.price] = ladder[i]
        /\ \A p \in Price : heap.byPrice[side][p] # Nil =>
              heap.byPrice[side][p] \in ToSet(ladder)

\* Every node is either free, once, or linked in the book, and every linked order
\* is the one its id finds: nothing leaks and nothing is freed twice.
NoLeak ==
    LET linked(lvl) == ToSet(Fifo(heap, heap.levels[lvl].front))
        levels == ToSet(Ladder(heap, "Bid")) \cup ToSet(Ladder(heap, "Ask"))
        orders == UNION {linked(lvl) : lvl \in levels}
    IN  /\ InUse(heap.levelPool) = levels
        /\ InUse(heap.orderPool) = orders
        /\ orders = {heap.ordersById[id] : id \in OrderId} \ {Nil}
        /\ \A id \in OrderId : Find(id) # Nil => heap.orders[Find(id)].id = id
        /\ \A pool \in {heap.levelPool, heap.orderPool} :
              /\ IsInjective(pool.free)
              /\ pool.live + Len(pool.free) = pool.capacity

\* The pointers match_incoming holds over a removal or a callback are live when
\* it uses them next: lvl is still the best level and maker its oldest order.
NoUseAfterFree ==
    /\ AtMaker \/ pc = "filled" =>
          /\ cursor.lvl = BestLevel /\ cursor.lvl \in InUse(heap.levelPool)
          /\ cursor.maker \in InUse(heap.orderPool)
          /\ heap.levels[cursor.lvl].front = cursor.maker
          /\ heap.levels[cursor.lvl].price = cursor.price
    /\ pc = "filled" => cursor.next = Maker.next

\* The engine does what the reference engine does, event for event: the claim
\* of the differential test, for every sequence of calls.
ImplementsReference == Reference!Init /\ [][Reference!Next]_(Reference!vars)

\* What a call has left to do: quantity and resting orders, which every turn that
\* matters consumes, and where in the two loops it is.
Work == 4 * (taker.remaining + Cardinality({id \in OrderId : Find(id) # Nil}))
        + (CASE pc = "outer"             -> 2
             [] pc = "inner" /\ AtMaker  -> 1
             [] pc = "inner" /\ ~AtMaker -> 3
             [] pc = "filled"            -> 1)

\* Every turn of the two matching loops is progress: what is left is a natural
\* number and falls with each, so every order-entry call returns.
TurnsAreProgress ==
    [][pc # "idle" /\ pc' # "idle" => Work > 0 /\ Work' < Work]_vars
=============================================================================
