------------------------------ MODULE BookLemmas ------------------------------
(***************************************************************************)
(* What the operations of the fast engine's book do to its linked lists,   *)
(* its price index, its totals and its memory, for every set of ids,       *)
(* owners, prices and quantities and every slab size.                      *)
(***************************************************************************)
EXTENDS MatchingEngine, DataLemmas, FiniteSetTheorems

-----------------------------------------------------------------------------
(* What the operators on the heap leave, field by field                    *)

Heap == [orders : Seq(OrderNode), levels : Seq(LevelNode),
         orderPool : PoolState, levelPool : PoolState,
         best : [Side -> Nat], byPrice : [Side -> [Price -> Nat]], ordersById : [OrderId -> Nat]]

\* The parts of a heap, and of its memories.
LEMMA HeapFields ==
    ASSUME NEW h \in Heap
    PROVE  /\ h.orders \in Seq(OrderNode) /\ h.levels \in Seq(LevelNode)
           /\ h.orderPool \in PoolState /\ h.levelPool \in PoolState
           /\ h.best \in [Side -> Nat] /\ h.byPrice \in [Side -> [Price -> Nat]]
           /\ h.ordersById \in [OrderId -> Nat]
           /\ Len(h.orders) \in Nat /\ Len(h.levels) \in Nat
           /\ \A n \in 1 .. Len(h.orders) : h.orders[n] \in OrderNode
           /\ \A l \in 1 .. Len(h.levels) : h.levels[l] \in LevelNode
           /\ h = [orders |-> h.orders, levels |-> h.levels, orderPool |-> h.orderPool,
                   levelPool |-> h.levelPool, best |-> h.best, byPrice |-> h.byPrice,
                   ordersById |-> h.ordersById]
  <1>1. /\ h.orders \in Seq(OrderNode) /\ h.levels \in Seq(LevelNode)
        /\ h.orderPool \in PoolState /\ h.levelPool \in PoolState
        /\ h.best \in [Side -> Nat] /\ h.byPrice \in [Side -> [Price -> Nat]]
        /\ h.ordersById \in [OrderId -> Nat]
        /\ h = [orders |-> h.orders, levels |-> h.levels, orderPool |-> h.orderPool,
                levelPool |-> h.levelPool, best |-> h.best, byPrice |-> h.byPrice,
                ordersById |-> h.ordersById]
    BY DEF Heap
  <1> QED
    BY <1>1

\* A heap is the record of its parts.
LEMMA HeapRecord ==
    ASSUME NEW h \in Heap
    PROVE  h = [orders |-> h.orders, levels |-> h.levels, orderPool |-> h.orderPool,
                levelPool |-> h.levelPool, best |-> h.best, byPrice |-> h.byPrice,
                ordersById |-> h.ordersById]
  BY HeapFields

PutOrder(h, n, x) == [h EXCEPT !.orders = [h.orders EXCEPT ![n] = x]]
PutLevel(h, l, x) == [h EXCEPT !.levels = [h.levels EXCEPT ![l] = x]]

\* Writing one order node.
LEMMA OrderPut ==
    ASSUME NEW h \in Heap, NEW n \in 1 .. Len(h.orders), NEW x \in OrderNode
    PROVE  /\ PutOrder(h, n, x) \in Heap
           /\ Len(PutOrder(h, n, x).orders) = Len(h.orders)
           /\ \A k \in 1 .. Len(h.orders) :
                 PutOrder(h, n, x).orders[k] = IF k = n THEN x ELSE h.orders[k]
           /\ PutOrder(h, n, x).levels = h.levels
           /\ PutOrder(h, n, x).orderPool = h.orderPool /\ PutOrder(h, n, x).levelPool = h.levelPool
           /\ PutOrder(h, n, x).best = h.best /\ PutOrder(h, n, x).byPrice = h.byPrice
           /\ PutOrder(h, n, x).ordersById = h.ordersById
  <1> DEFINE r == [h.orders EXCEPT ![n] = x]
             g == PutOrder(h, n, x)
  <1>1. /\ r \in Seq(OrderNode) /\ Len(r) = Len(h.orders)
        /\ \A k \in 1 .. Len(h.orders) : r[k] = IF k = n THEN x ELSE h.orders[k]
    BY HeapFields, SequenceUpdated
  <1>2. g = [h EXCEPT !.orders = r]
    BY DEF PutOrder
  <1> HIDE DEF r, g
  <1>3. g = [orders |-> r, levels |-> h.levels, orderPool |-> h.orderPool,
                   levelPool |-> h.levelPool, best |-> h.best, byPrice |-> h.byPrice,
                   ordersById |-> h.ordersById]
    BY <1>2, HeapRecord
  <1>4. g \in Heap
    <2>1. /\ h.levels \in Seq(LevelNode) /\ h.orderPool \in PoolState /\ h.levelPool \in PoolState
          /\ h.best \in [Side -> Nat] /\ h.byPrice \in [Side -> [Price -> Nat]]
          /\ h.ordersById \in [OrderId -> Nat] /\ h.orders \in Seq(OrderNode)
      BY HeapFields
    <2> QED
      BY <1>1, <1>3, <2>1 DEF Heap
  <1> QED
    BY <1>1, <1>3, <1>4 DEF g

\* Writing one level node.
LEMMA LevelPut ==
    ASSUME NEW h \in Heap, NEW l \in 1 .. Len(h.levels), NEW x \in LevelNode
    PROVE  /\ PutLevel(h, l, x) \in Heap
           /\ Len(PutLevel(h, l, x).levels) = Len(h.levels)
           /\ \A k \in 1 .. Len(h.levels) :
                 PutLevel(h, l, x).levels[k] = IF k = l THEN x ELSE h.levels[k]
           /\ PutLevel(h, l, x).orders = h.orders
           /\ PutLevel(h, l, x).orderPool = h.orderPool /\ PutLevel(h, l, x).levelPool = h.levelPool
           /\ PutLevel(h, l, x).best = h.best /\ PutLevel(h, l, x).byPrice = h.byPrice
           /\ PutLevel(h, l, x).ordersById = h.ordersById
  <1> DEFINE r == [h.levels EXCEPT ![l] = x]
             g == PutLevel(h, l, x)
  <1>1. /\ r \in Seq(LevelNode) /\ Len(r) = Len(h.levels)
        /\ \A k \in 1 .. Len(h.levels) : r[k] = IF k = l THEN x ELSE h.levels[k]
    BY HeapFields, SequenceUpdated
  <1>2. g = [h EXCEPT !.levels = r]
    BY DEF PutLevel
  <1> HIDE DEF r, g
  <1>3. g = [orders |-> h.orders, levels |-> r, orderPool |-> h.orderPool,
                   levelPool |-> h.levelPool, best |-> h.best, byPrice |-> h.byPrice,
                   ordersById |-> h.ordersById]
    BY <1>2, HeapRecord
  <1>4. g \in Heap
    <2>1. /\ h.levels \in Seq(LevelNode) /\ h.orderPool \in PoolState /\ h.levelPool \in PoolState
          /\ h.best \in [Side -> Nat] /\ h.byPrice \in [Side -> [Price -> Nat]]
          /\ h.ordersById \in [OrderId -> Nat] /\ h.orders \in Seq(OrderNode)
      BY HeapFields
    <2> QED
      BY <1>1, <1>3, <2>1 DEF Heap
  <1> QED
    BY <1>1, <1>3, <1>4 DEF g

\* The fields of an order node.
LEMMA OrderFields ==
    ASSUME NEW o \in OrderNode, NEW v \in Nat
    PROVE  /\ o.prev \in Nat /\ o.next \in Nat /\ o.level \in Nat /\ o.id \in OrderId \cup {None}
           /\ o.remaining \in 0 .. (QtyMod - 1) /\ o.price \in Int
           /\ o.participant \in Participant \cup {None} /\ o.side \in Side
           /\ [o EXCEPT !.next = v] \in OrderNode /\ [o EXCEPT !.prev = v] \in OrderNode
           /\ [o EXCEPT !.next = v] = [prev |-> o.prev, next |-> v, level |-> o.level, id |-> o.id,
                remaining |-> o.remaining, price |-> o.price, participant |-> o.participant, side |-> o.side]
           /\ [o EXCEPT !.prev = v] = [prev |-> v, next |-> o.next, level |-> o.level, id |-> o.id,
                remaining |-> o.remaining, price |-> o.price, participant |-> o.participant, side |-> o.side]
  BY DEF OrderNode

\* The fields of a level node.
LEMMA LevelFields ==
    ASSUME NEW l \in LevelNode, NEW v \in Nat
    PROVE  /\ l.better \in Nat /\ l.worse \in Nat /\ l.front \in Nat /\ l.back \in Nat
           /\ l.price \in Int /\ l.total_qty \in 0 .. (QtyMod - 1) /\ l.order_count \in Nat
           /\ [l EXCEPT !.front = v] = [better |-> l.better, worse |-> l.worse, front |-> v,
                back |-> l.back, price |-> l.price, total_qty |-> l.total_qty,
                order_count |-> l.order_count]
           /\ [l EXCEPT !.back = v] = [better |-> l.better, worse |-> l.worse, front |-> l.front,
                back |-> v, price |-> l.price, total_qty |-> l.total_qty,
                order_count |-> l.order_count]
           /\ [l EXCEPT !.better = v] = [better |-> v, worse |-> l.worse, front |-> l.front,
                back |-> l.back, price |-> l.price, total_qty |-> l.total_qty,
                order_count |-> l.order_count]
           /\ [l EXCEPT !.worse = v] = [better |-> l.better, worse |-> v, front |-> l.front,
                back |-> l.back, price |-> l.price, total_qty |-> l.total_qty,
                order_count |-> l.order_count]
           /\ [l EXCEPT !.front = v] \in LevelNode /\ [l EXCEPT !.back = v] \in LevelNode
           /\ [l EXCEPT !.better = v] \in LevelNode /\ [l EXCEPT !.worse = v] \in LevelNode
  BY DEF LevelNode

\* The same memories, pools and indexes, whatever the nodes hold.
SameFrame(h, g) ==
    /\ g \in Heap
    /\ Len(g.orders) = Len(h.orders) /\ Len(g.levels) = Len(h.levels)
    /\ g.orderPool = h.orderPool /\ g.levelPool = h.levelPool
    /\ g.best = h.best /\ g.byPrice = h.byPrice /\ g.ordersById = h.ordersById
\* What an order is, apart from its place.
SameOrder(a, b) ==
    /\ a.id = b.id /\ a.remaining = b.remaining /\ a.price = b.price
    /\ a.participant = b.participant /\ a.side = b.side

\* What is left of h when order o has been taken out of its level's list.
Unlinked(h, g, o) ==
    /\ SameFrame(h, g)
    /\ \A n \in 1 .. Len(h.orders) :
          /\ g.orders[n].next = IF n = o.prev THEN o.next ELSE h.orders[n].next
          /\ g.orders[n].prev = IF n = o.next THEN o.prev ELSE h.orders[n].prev
          /\ g.orders[n].level = h.orders[n].level
          /\ SameOrder(g.orders[n], h.orders[n])
    /\ \A l \in 1 .. Len(h.levels) :
          /\ g.levels[l].better = h.levels[l].better /\ g.levels[l].worse = h.levels[l].worse
          /\ g.levels[l].price = h.levels[l].price
          /\ l # o.level => g.levels[l] = h.levels[l]
    /\ g.levels[o.level].front = IF o.prev = Nil THEN o.next ELSE h.levels[o.level].front
    /\ g.levels[o.level].back = IF o.next = Nil THEN o.prev ELSE h.levels[o.level].back
    /\ g.levels[o.level].total_qty = Wrap(h.levels[o.level].total_qty - o.remaining)
    /\ g.levels[o.level].order_count = h.levels[o.level].order_count - 1

\* Unlinking an order joins its neighbours and takes it off its level.
LEMMA UnlinkFields ==
    ASSUME NEW h \in Heap, NEW order \in 1 .. Len(h.orders),
           h.orders[order].prev \in 0 .. Len(h.orders), h.orders[order].next \in 0 .. Len(h.orders),
           h.orders[order].level \in 1 .. Len(h.levels),
           h.levels[h.orders[order].level].order_count # 0
    PROVE  Unlinked(h, Unlink(h, order), h.orders[order])
  <1> DEFINE o == h.orders[order]
             O == 1 .. Len(h.orders)
             L == 1 .. Len(h.levels)
             a == IF o.prev # Nil THEN [h EXCEPT !.orders[o.prev].next = o.next]
                                ELSE [h EXCEPT !.levels[o.level].front = o.next]
             b == IF o.next # Nil THEN [a EXCEPT !.orders[o.next].prev = o.prev]
                             ELSE [a EXCEPT !.levels[o.level].back = o.prev]
             g == Unlink(h, order)
             lvl == o.level
  <1>0. /\ \A n \in O : h.orders[n] \in OrderNode
        /\ \A l \in L : h.levels[l] \in LevelNode
    BY HeapFields
  <1>1. /\ o \in OrderNode /\ o.prev \in Nat /\ o.next \in Nat /\ lvl \in L /\ h.levels[lvl] \in LevelNode
        /\ o.prev # Nil => o.prev \in O
        /\ o.next # Nil => o.next \in O
        /\ \A n \in O : h.orders[n] \in OrderNode
        /\ \A l \in L : h.levels[l] \in LevelNode
        /\ o.remaining \in 0 .. (QtyMod - 1)
        /\ h.levels[lvl].order_count # 0
    <2>1. o \in OrderNode
      BY <1>0
    <2>2. o.remaining \in 0 .. (QtyMod - 1) /\ o.prev \in Nat /\ o.next \in Nat
      BY <2>1 DEF OrderNode
    <2>3. lvl \in L /\ h.levels[lvl].order_count # 0
      OBVIOUS
    <2>4. /\ o.prev # Nil => o.prev \in O
          /\ o.next # Nil => o.next \in O
      <3>1. o.prev \in 0 .. Len(h.orders) /\ o.next \in 0 .. Len(h.orders)
        OBVIOUS
      <3> HIDE DEF o
      <3> QED
        BY <3>1 DEF Nil
    <2> HIDE DEF o, lvl, O, L
    <2> QED
      BY <1>0, <2>1, <2>2, <2>3, <2>4
  <1>2. /\ Len(a.orders) = Len(h.orders) /\ Len(a.levels) = Len(h.levels)
        /\ SameFrame(h, a)
        /\ \A n \in O : a.orders[n] = IF n = o.prev THEN [h.orders[n] EXCEPT !.next = o.next] ELSE h.orders[n]
        /\ \A l \in L : a.levels[l] = IF l = lvl /\ o.prev = Nil THEN [h.levels[l] EXCEPT !.front = o.next]
                                      ELSE h.levels[l]
    <2>1. CASE o.prev # Nil
      <3> DEFINE x == [h.orders[o.prev] EXCEPT !.next = o.next]
      <3>1. a = PutOrder(h, o.prev, x)
        <4> DEFINE p == o.prev
                   q == o.next
        <4>1. p \in 1 .. Len(h.orders)
          BY <1>1, <2>1
        <4>2. a = [h EXCEPT !.orders[p].next = q]
          BY <2>1
        <4> HIDE DEF p, q, a
        <4>3. [h EXCEPT !.orders[p].next = q] = PutOrder(h, p, [h.orders[p] EXCEPT !.next = q])
          BY <4>1, HeapRecord DEF PutOrder
        <4> QED
          BY <4>2, <4>3 DEF p, q
      <3>2. x \in OrderNode
        BY <1>1, <2>1, OrderFields
      <3> HIDE DEF a, x
      <3>3. /\ a \in Heap /\ Len(a.orders) = Len(h.orders)
            /\ \A k \in O : a.orders[k] = IF k = o.prev THEN x ELSE h.orders[k]
            /\ a.levels = h.levels
            /\ a.orderPool = h.orderPool /\ a.levelPool = h.levelPool
            /\ a.best = h.best /\ a.byPrice = h.byPrice /\ a.ordersById = h.ordersById
        BY <1>1, <2>1, <3>1, <3>2, OrderPut, SMTT(60)
      <3> QED
        BY <2>1, <3>3 DEF x, SameFrame
    <2>2. CASE o.prev = Nil
      <3> DEFINE x == [h.levels[lvl] EXCEPT !.front = o.next]
      <3>1. a = PutLevel(h, lvl, x)
        <4> DEFINE q == o.next
        <4>1. lvl \in 1 .. Len(h.levels)
          BY <1>1
        <4>2. a = [h EXCEPT !.levels[lvl].front = q]
          BY <2>2
        <4> HIDE DEF lvl, q, a
        <4>3. [h EXCEPT !.levels[lvl].front = q] = PutLevel(h, lvl, [h.levels[lvl] EXCEPT !.front = q])
          BY <4>1, HeapRecord DEF PutLevel
        <4> QED
          BY <4>2, <4>3 DEF q
      <3>2. x \in LevelNode
        BY <1>1, LevelFields
      <3> HIDE DEF a, x, lvl
      <3>3. /\ a \in Heap /\ Len(a.levels) = Len(h.levels)
            /\ \A k \in L : a.levels[k] = IF k = lvl THEN x ELSE h.levels[k]
            /\ a.orders = h.orders
            /\ a.orderPool = h.orderPool /\ a.levelPool = h.levelPool
            /\ a.best = h.best /\ a.byPrice = h.byPrice /\ a.ordersById = h.ordersById
        BY <1>1, <3>1, <3>2, LevelPut
      <3>4. \A n \in O : n # o.prev
        BY <2>2 DEF Nil
      <3> QED
        BY <2>2, <3>3, <3>4 DEF x, SameFrame
    <2> QED
      BY <2>1, <2>2, Zenon
  <1> DEFINE t == Wrap(b.levels[lvl].total_qty - o.remaining)
             c == b.levels[lvl].order_count - 1
  <1>3. g = [b EXCEPT !.levels[lvl].total_qty = Wrap(@ - o.remaining), !.levels[lvl].order_count = @ - 1]
    BY DEF Unlink
  <1> HIDE DEF a
  <1>4. /\ SameFrame(h, b)
        /\ \A n \in O : b.orders[n] = IF n = o.next THEN [a.orders[n] EXCEPT !.prev = o.prev] ELSE a.orders[n]
        /\ \A l \in L : b.levels[l] = IF l = lvl /\ o.next = Nil THEN [a.levels[l] EXCEPT !.back = o.prev]
                                      ELSE a.levels[l]
    <2>0. /\ a \in Heap /\ a.levels[lvl] \in LevelNode /\ Len(a.orders) = Len(h.orders)
          /\ Len(a.levels) = Len(h.levels)
          /\ o.next # Nil => a.orders[o.next] \in OrderNode
      BY <1>1, <1>2, HeapFields DEF SameFrame
    <2>1. CASE o.next # Nil
      <3> DEFINE x == [a.orders[o.next] EXCEPT !.prev = o.prev]
      <3>1. b = PutOrder(a, o.next, x)
        <4> DEFINE p == o.next
                   q == o.prev
        <4>1. p \in 1 .. Len(a.orders)
          BY <1>1, <2>0, <2>1
        <4>2. b = [a EXCEPT !.orders[p].prev = q]
          BY <2>1
        <4> HIDE DEF p, q, b
        <4>3. [a EXCEPT !.orders[p].prev = q] = PutOrder(a, p, [a.orders[p] EXCEPT !.prev = q])
          BY <4>1, <2>0, HeapRecord DEF PutOrder
        <4> QED
          BY <4>2, <4>3 DEF p, q
      <3>2. x \in OrderNode
        BY <1>1, <2>0, <2>1, OrderFields
      <3> HIDE DEF b, x
      <3>3. /\ b \in Heap /\ Len(b.orders) = Len(a.orders)
            /\ \A k \in O : b.orders[k] = IF k = o.next THEN x ELSE a.orders[k]
            /\ b.levels = a.levels
            /\ b.orderPool = a.orderPool /\ b.levelPool = a.levelPool
            /\ b.best = a.best /\ b.byPrice = a.byPrice /\ b.ordersById = a.ordersById
        BY <1>1, <2>0, <2>1, <3>1, <3>2, OrderPut, SMTT(60)
      <3> QED
        BY <1>2, <2>1, <3>3 DEF x, SameFrame
    <2>2. CASE o.next = Nil
      <3> DEFINE x == [a.levels[lvl] EXCEPT !.back = o.prev]
      <3>1. b = PutLevel(a, lvl, x)
        <4> DEFINE q == o.prev
        <4>1. lvl \in 1 .. Len(a.levels)
          BY <1>1, <2>0
        <4>2. b = [a EXCEPT !.levels[lvl].back = q]
          BY <2>2
        <4> HIDE DEF lvl, q, b
        <4>3. [a EXCEPT !.levels[lvl].back = q] = PutLevel(a, lvl, [a.levels[lvl] EXCEPT !.back = q])
          BY <4>1, <2>0, HeapRecord DEF PutLevel
        <4> QED
          BY <4>2, <4>3 DEF q
      <3>2. x \in LevelNode
        BY <1>1, <2>0, LevelFields
      <3> HIDE DEF b, x, lvl
      <3>3. /\ b \in Heap /\ Len(b.levels) = Len(a.levels)
            /\ \A k \in L : b.levels[k] = IF k = lvl THEN x ELSE a.levels[k]
            /\ b.orders = a.orders
            /\ b.orderPool = a.orderPool /\ b.levelPool = a.levelPool
            /\ b.best = a.best /\ b.byPrice = a.byPrice /\ b.ordersById = a.ordersById
        BY <1>1, <2>0, <3>1, <3>2, LevelPut, SMTT(60)
      <3>4. \A n \in O : n # o.next
        BY <2>2 DEF Nil
      <3> QED
        BY <1>2, <2>2, <3>3, <3>4 DEF x, SameFrame
    <2> QED
      BY <2>1, <2>2, Zenon
  <1> HIDE DEF b
  <1>5. /\ lvl \in 1 .. Len(b.levels) /\ b \in Heap /\ b.levels[lvl] \in LevelNode
        /\ Len(b.levels) = Len(h.levels) /\ Len(b.orders) = Len(h.orders)
    BY <1>1, <1>4, HeapFields DEF SameFrame
  <1> DEFINE x == [b.levels[lvl] EXCEPT !.total_qty = t, !.order_count = c]
  <1>6. g = PutLevel(b, lvl, x)
    <2> HIDE DEF lvl, o, g
    <2>1. g = [b EXCEPT !.levels[lvl].total_qty = t, !.levels[lvl].order_count = c]
      BY <1>3
    <2> HIDE DEF t, c
    <2> QED
      BY <1>5, <2>1, HeapRecord, ZenonT(60) DEF PutLevel
  <1>7. ASSUME NEW l \in L
        PROVE  /\ b.levels[l].better = h.levels[l].better /\ b.levels[l].worse = h.levels[l].worse
               /\ b.levels[l].price = h.levels[l].price
               /\ b.levels[l].total_qty = h.levels[l].total_qty
               /\ b.levels[l].order_count = h.levels[l].order_count
               /\ l # lvl => b.levels[l] = h.levels[l]
               /\ b.levels[l].front = IF l = lvl /\ o.prev = Nil THEN o.next ELSE h.levels[l].front
               /\ b.levels[l].back = IF l = lvl /\ o.next = Nil THEN o.prev ELSE h.levels[l].back
    <2>1. h.levels[l] \in LevelNode /\ a.levels[l] \in LevelNode
      BY <1>0, <1>2, HeapFields DEF SameFrame
    <2>2. /\ a.levels[l] = IF l = lvl /\ o.prev = Nil THEN [h.levels[l] EXCEPT !.front = o.next]
                           ELSE h.levels[l]
          /\ b.levels[l] = IF l = lvl /\ o.next = Nil THEN [a.levels[l] EXCEPT !.back = o.prev]
                           ELSE a.levels[l]
      BY <1>2, <1>4
    <2> HIDE DEF lvl, o
    <2> QED
      BY <2>1, <2>2, ZenonT(60) DEF LevelNode
  <1>8. ASSUME NEW n \in O
        PROVE  /\ b.orders[n].next = IF n = o.prev THEN o.next ELSE h.orders[n].next
               /\ b.orders[n].prev = IF n = o.next THEN o.prev ELSE h.orders[n].prev
               /\ b.orders[n].level = h.orders[n].level
               /\ SameOrder(b.orders[n], h.orders[n])
    <2>1. h.orders[n] \in OrderNode /\ a.orders[n] \in OrderNode
      BY <1>0, <1>2, HeapFields DEF SameFrame
    <2>2. /\ a.orders[n] = IF n = o.prev THEN [h.orders[n] EXCEPT !.next = o.next] ELSE h.orders[n]
          /\ b.orders[n] = IF n = o.next THEN [a.orders[n] EXCEPT !.prev = o.prev] ELSE a.orders[n]
      BY <1>2, <1>4
    <2> HIDE DEF o
    <2> QED
      BY <2>1, <2>2 DEF OrderNode, SameOrder
  <1>9. t \in 0 .. (QtyMod - 1) /\ c \in Nat
    <2>1. b.levels[lvl].total_qty \in Int /\ o.remaining \in Int
      <3>1. \A i \in 0 .. (QtyMod - 1) : i \in Int
        BY QtyAssumption
      <3>2. b.levels[lvl].total_qty \in 0 .. (QtyMod - 1)
        BY <1>5 DEF LevelNode
      <3> QED
        BY <1>1, <3>1, <3>2
    <2>2. t \in 0 .. (QtyMod - 1)
      BY <2>1, QtyAssumption, SMTT(60) DEF Wrap
    <2>3. b.levels[lvl].order_count \in Nat /\ b.levels[lvl].order_count # 0
      BY <1>1, <1>5, <1>7 DEF LevelNode
    <2>4. c \in Nat
      BY <2>3, SMTT(60)
    <2> HIDE DEF t, c
    <2> QED
      BY <2>2, <2>4
  <1>10. /\ x \in LevelNode
         /\ x.better = b.levels[lvl].better /\ x.worse = b.levels[lvl].worse
         /\ x.front = b.levels[lvl].front /\ x.back = b.levels[lvl].back
         /\ x.price = b.levels[lvl].price /\ x.total_qty = t /\ x.order_count = c
    <2> HIDE DEF t, c, lvl
    <2> QED
      BY <1>5, <1>9 DEF LevelNode
  <1> HIDE DEF x, g, lvl
  <1>11. /\ g \in Heap /\ Len(g.levels) = Len(h.levels)
         /\ \A k \in L : g.levels[k] = IF k = lvl THEN x ELSE b.levels[k]
         /\ g.orders = b.orders
         /\ g.orderPool = b.orderPool /\ g.levelPool = b.levelPool
         /\ g.best = b.best /\ g.byPrice = b.byPrice /\ g.ordersById = b.ordersById
    BY <1>5, <1>6, <1>10, LevelPut
  <1>12. SameFrame(h, g)
    BY <1>4, <1>5, <1>11 DEF SameFrame
  <1>13. \A l \in L : /\ g.levels[l].better = h.levels[l].better /\ g.levels[l].worse = h.levels[l].worse
                      /\ g.levels[l].price = h.levels[l].price
                      /\ l # lvl => g.levels[l] = h.levels[l]
    BY <1>7, <1>10, <1>11
  <1>14. /\ g.levels[lvl].front = IF o.prev = Nil THEN o.next ELSE h.levels[lvl].front
         /\ g.levels[lvl].back = IF o.next = Nil THEN o.prev ELSE h.levels[lvl].back
         /\ g.levels[lvl].total_qty = Wrap(h.levels[lvl].total_qty - o.remaining)
         /\ g.levels[lvl].order_count = h.levels[lvl].order_count - 1
    BY <1>1, <1>7, <1>10, <1>11
  <1>15. lvl = o.level
    BY DEF lvl
  <1> HIDE DEF o
  <1>16. ASSUME NEW n \in O
         PROVE  /\ g.orders[n].next = IF n = o.prev THEN o.next ELSE h.orders[n].next
                /\ g.orders[n].prev = IF n = o.next THEN o.prev ELSE h.orders[n].prev
                /\ g.orders[n].level = h.orders[n].level
                /\ SameOrder(g.orders[n], h.orders[n])
    <2>1. g.orders[n] = b.orders[n]
      BY <1>11
    <2> QED
      BY <1>8, <2>1
  <1>17. Unlinked(h, g, o)
    BY <1>12, <1>13, <1>14, <1>15, <1>16 DEF Unlinked
  <1> QED
    BY <1>17 DEF g, o

\* What a level is, apart from its place.
SameLevel(a, b) ==
    /\ a.price = b.price /\ a.front = b.front /\ a.back = b.back
    /\ a.total_qty = b.total_qty /\ a.order_count = b.order_count

\* What is left of h when level lvl has been taken out of the ladder of its side.
LevelRemoved(h, g, side, lvl, l) ==
    /\ g \in Heap /\ g.orders = h.orders /\ Len(g.levels) = Len(h.levels)
    /\ g.orderPool = h.orderPool /\ g.ordersById = h.ordersById
    /\ g.levelPool = Dealloc(h.levelPool, lvl)
    /\ g.levels[lvl] = BlankLevel
    /\ \A k \in 1 .. Len(h.levels) : k # lvl =>
          /\ g.levels[k].worse = IF k = l.better THEN l.worse ELSE h.levels[k].worse
          /\ g.levels[k].better = IF k = l.worse THEN l.better ELSE h.levels[k].better
          /\ SameLevel(g.levels[k], h.levels[k])
    /\ g.best = [h.best EXCEPT ![side] = IF l.better = Nil THEN l.worse ELSE h.best[side]]
    /\ g.byPrice = [h.byPrice EXCEPT ![side] = [h.byPrice[side] EXCEPT ![l.price] = Nil]]

\* A blank level is a level.
LEMMA BlankLevelTyped == BlankLevel \in LevelNode
  <1>1. 0 \in 0 .. (QtyMod - 1) /\ 0 \in Nat /\ 0 \in Int
    BY QtyAssumption
  <1> QED
    BY <1>1 DEF BlankLevel, LevelNode, Nil

\* Removing a level joins its neighbours, and blanks and frees it.
LEMMA RemoveLevelFields ==
    ASSUME NEW h \in Heap, NEW side \in Side, NEW lvl \in 1 .. Len(h.levels),
           h.levels[lvl].better \in 0 .. Len(h.levels), h.levels[lvl].worse \in 0 .. Len(h.levels),
           h.levels[lvl].price \in Price, Dealloc(h.levelPool, lvl) \in PoolState
    PROVE  LevelRemoved(h, RemoveLevel(h, side, lvl), side, lvl, h.levels[lvl])
  <1> DEFINE l == h.levels[lvl]
             L == 1 .. Len(h.levels)
             a == IF l.better # Nil THEN [h EXCEPT !.levels[l.better].worse = l.worse]
                               ELSE [h EXCEPT !.best[side] = l.worse]
             b == IF l.worse # Nil THEN [a EXCEPT !.levels[l.worse].better = l.better] ELSE a
             g == RemoveLevel(h, side, lvl)
             better == l.better
             worse == l.worse
             best2 == [h.best EXCEPT ![side] = IF better = Nil THEN worse ELSE h.best[side]]
  <1>0. \A k \in L : h.levels[k] \in LevelNode
    BY HeapFields
  <1>1. /\ better \in Nat /\ worse \in Nat /\ l \in LevelNode
        /\ better # Nil => better \in 1 .. Len(h.levels)
        /\ worse # Nil => worse \in 1 .. Len(h.levels)
    <2>1. better \in 0 .. Len(h.levels) /\ worse \in 0 .. Len(h.levels) /\ Len(h.levels) \in Nat
      BY HeapFields
    <2>2. l \in LevelNode
      BY <1>0
    <2> HIDE DEF l, better, worse
    <2> QED
      BY <2>1, <2>2 DEF Nil
  <1>2. /\ a \in Heap /\ a.orders = h.orders /\ Len(a.levels) = Len(h.levels)
        /\ a.orderPool = h.orderPool /\ a.levelPool = h.levelPool
        /\ a.ordersById = h.ordersById /\ a.byPrice = h.byPrice
        /\ a.best = best2
        /\ \A k \in L : a.levels[k] = IF k = better THEN [h.levels[k] EXCEPT !.worse = worse] ELSE h.levels[k]
    <2>1. CASE better # Nil
      <3> DEFINE x == [h.levels[better] EXCEPT !.worse = worse]
      <3>1. a = [h EXCEPT !.levels[better].worse = worse]
        BY <2>1
      <3>2. best2 = [h.best EXCEPT ![side] = h.best[side]]
        BY <2>1
      <3> HIDE DEF a, better, worse, best2
      <3>3. a = PutLevel(h, better, x)
        BY <1>1, <2>1, <3>1, HeapRecord DEF PutLevel
      <3>4. x \in LevelNode
        BY <1>0, <1>1, <2>1, LevelFields
      <3> HIDE DEF x
      <3>5. /\ a \in Heap /\ Len(a.levels) = Len(h.levels)
            /\ \A k \in L : a.levels[k] = IF k = better THEN x ELSE h.levels[k]
            /\ a.orders = h.orders
            /\ a.orderPool = h.orderPool /\ a.levelPool = h.levelPool
            /\ a.best = h.best /\ a.byPrice = h.byPrice /\ a.ordersById = h.ordersById
        BY <1>1, <2>1, <3>3, <3>4, LevelPut
      <3>6. best2 = h.best
        BY <3>2, HeapFields
      <3> QED
        BY <3>5, <3>6 DEF x
    <2>2. CASE better = Nil
      <3>1. a = [h EXCEPT !.best[side] = worse] /\ best2 = [h.best EXCEPT ![side] = worse]
        BY <2>2
      <3> HIDE DEF a, better, worse, best2
      <3>2. /\ a.orders = h.orders /\ a.levels = h.levels
            /\ a.orderPool = h.orderPool /\ a.levelPool = h.levelPool
            /\ a.ordersById = h.ordersById /\ a.byPrice = h.byPrice /\ a.best = best2
            /\ a = [orders |-> h.orders, levels |-> h.levels, orderPool |-> h.orderPool,
                    levelPool |-> h.levelPool, best |-> best2, byPrice |-> h.byPrice,
                    ordersById |-> h.ordersById]
        BY <3>1, HeapRecord
      <3>3. best2 \in [Side -> Nat]
        BY <1>1, <3>1, HeapFields
      <3>4. a \in Heap
        BY <3>2, <3>3, HeapFields DEF Heap
      <3>5. \A k \in L : k # better
        BY <2>2, SMTT(60) DEF Nil
      <3> QED
        BY <3>2, <3>4, <3>5
    <2> QED
      BY <2>1, <2>2
  <1> HIDE DEF a
  <1>3. /\ b \in Heap /\ b.orders = h.orders /\ Len(b.levels) = Len(h.levels)
        /\ b.orderPool = h.orderPool /\ b.levelPool = h.levelPool
        /\ b.ordersById = h.ordersById /\ b.byPrice = h.byPrice
        /\ b.best = best2
        /\ \A k \in L : b.levels[k] = IF k = worse THEN [a.levels[k] EXCEPT !.better = better] ELSE a.levels[k]
    <2>1. CASE worse # Nil
      <3> DEFINE x == [a.levels[worse] EXCEPT !.better = better]
      <3>1. b = [a EXCEPT !.levels[worse].better = better]
        BY <2>1
      <3> HIDE DEF b, better, worse, best2
      <3>2. worse \in 1 .. Len(a.levels) /\ worse \in L /\ a.levels[worse] \in LevelNode
        BY <1>1, <1>2, <2>1, HeapFields
      <3>3. b = PutLevel(a, worse, x)
        BY <1>2, <3>1, <3>2, HeapRecord DEF PutLevel
      <3>4. x \in LevelNode
        BY <1>1, <3>2, LevelFields
      <3> HIDE DEF x
      <3>5. /\ b \in Heap /\ Len(b.levels) = Len(a.levels)
            /\ \A k \in 1 .. Len(a.levels) : b.levels[k] = IF k = worse THEN x ELSE a.levels[k]
            /\ b.orders = a.orders
            /\ b.orderPool = a.orderPool /\ b.levelPool = a.levelPool
            /\ b.best = a.best /\ b.byPrice = a.byPrice /\ b.ordersById = a.ordersById
        BY <1>2, <3>2, <3>3, <3>4, LevelPut
      <3> QED
        BY <1>2, <3>5 DEF x
    <2>2. CASE worse = Nil
      <3>1. b = a
        BY <2>2
      <3> HIDE DEF b, better, worse, best2
      <3>2. \A k \in L : k # worse
        BY <2>2 DEF Nil
      <3> QED
        BY <1>2, <3>1, <3>2
    <2> QED
      BY <2>1, <2>2
  <1> HIDE DEF b
  <1> DEFINE pool == Dealloc(h.levelPool, lvl)
             prices == [h.byPrice EXCEPT ![side] = [h.byPrice[side] EXCEPT ![l.price] = Nil]]
             levels == [b.levels EXCEPT ![lvl] = BlankLevel]
  <1>4. g = [b EXCEPT !.byPrice[side][l.price] = Nil, !.levelPool = Dealloc(@, lvl),
                      !.levels[lvl] = BlankLevel]
    BY DEF RemoveLevel, a, b
  <1>5. prices \in [Side -> [Price -> Nat]] /\ pool \in PoolState
    <2>1. h.byPrice \in [Side -> [Price -> Nat]] /\ l.price \in Price /\ Nil \in Nat
      BY HeapFields DEF Nil
    <2> HIDE DEF l
    <2> QED
      BY <2>1
  <1>6. /\ levels \in Seq(LevelNode) /\ Len(levels) = Len(h.levels)
        /\ \A k \in L : levels[k] = IF k = lvl THEN BlankLevel ELSE b.levels[k]
    <2>1. b.levels \in Seq(LevelNode) /\ Len(b.levels) = Len(h.levels)
      BY <1>3, HeapFields
    <2> QED
      BY <2>1, BlankLevelTyped, SequenceUpdated
  <1>7. g = [orders |-> b.orders, levels |-> levels, orderPool |-> b.orderPool,
             levelPool |-> pool, best |-> b.best, byPrice |-> prices,
             ordersById |-> b.ordersById]
    <2> HIDE DEF g
    <2>1. b = [orders |-> b.orders, levels |-> b.levels, orderPool |-> b.orderPool,
               levelPool |-> h.levelPool, best |-> b.best, byPrice |-> h.byPrice,
               ordersById |-> b.ordersById]
      BY <1>3, HeapRecord
    <2> DEFINE p == l.price
    <2> HIDE DEF l, p
    <2>2. g = [b EXCEPT !.byPrice[side][p] = Nil, !.levelPool = pool, !.levels[lvl] = BlankLevel]
      BY <1>3, <1>4 DEF p
    <2> HIDE DEF pool
    <2>3. g = [b EXCEPT !.byPrice = [h.byPrice EXCEPT ![side] = [h.byPrice[side] EXCEPT ![p] = Nil]],
                        !.levelPool = pool, !.levels = levels]
      BY <1>3, <2>1, <2>2
    <2>4. prices = [h.byPrice EXCEPT ![side] = [h.byPrice[side] EXCEPT ![p] = Nil]]
      BY DEF p
    <2> HIDE DEF prices, levels
    <2> QED
      BY <2>1, <2>3, <2>4
  <1> HIDE DEF g, pool, prices, levels
  <1>8. g \in Heap
    <2>1. /\ b.orders \in Seq(OrderNode) /\ b.orderPool \in PoolState
          /\ b.best \in [Side -> Nat] /\ b.ordersById \in [OrderId -> Nat]
      BY <1>3, HeapFields
    <2> QED
      BY <1>5, <1>6, <1>7, <2>1 DEF Heap
  <1>9. ASSUME NEW k \in L, k # lvl
        PROVE  /\ g.levels[k].worse = IF k = better THEN worse ELSE h.levels[k].worse
               /\ g.levels[k].better = IF k = worse THEN better ELSE h.levels[k].better
               /\ SameLevel(g.levels[k], h.levels[k])
    <2>1. h.levels[k] \in LevelNode /\ a.levels[k] \in LevelNode
      BY <1>0, <1>2, HeapFields
    <2>2. /\ a.levels[k] = IF k = better THEN [h.levels[k] EXCEPT !.worse = worse] ELSE h.levels[k]
          /\ b.levels[k] = IF k = worse THEN [a.levels[k] EXCEPT !.better = better] ELSE a.levels[k]
          /\ g.levels[k] = b.levels[k]
      BY <1>2, <1>3, <1>6, <1>7, <1>9
    <2> HIDE DEF better, worse
    <2> QED
      BY <1>1, <2>1, <2>2 DEF LevelNode, SameLevel
  <1> HIDE DEF l
  <1>10. /\ g.orders = h.orders /\ Len(g.levels) = Len(h.levels)
         /\ g.orderPool = h.orderPool /\ g.ordersById = h.ordersById
         /\ g.levelPool = Dealloc(h.levelPool, lvl)
         /\ g.levels[lvl] = BlankLevel
         /\ g.best = best2 /\ g.byPrice = prices
    BY <1>3, <1>6, <1>7 DEF pool
  <1> QED
    BY <1>8, <1>9, <1>10 DEF LevelRemoved, g, l, prices

\* What is left of h when the node of an order has been given back.
OrderFreed(h, g, order) ==
    /\ g \in Heap /\ g.levels = h.levels /\ Len(g.orders) = Len(h.orders)
    /\ g.orderPool = Dealloc(h.orderPool, order) /\ g.levelPool = h.levelPool
    /\ g.best = h.best /\ g.byPrice = h.byPrice /\ g.ordersById = h.ordersById
    /\ g.orders[order] = BlankOrder
    /\ \A n \in 1 .. Len(h.orders) : n # order => g.orders[n] = h.orders[n]

\* A blank order is an order.
LEMMA BlankOrderTyped == BlankOrder \in OrderNode
  <1>1. 0 \in 0 .. (QtyMod - 1) /\ 0 \in Nat /\ 0 \in Int /\ "Bid" \in Side
    BY QtyAssumption DEF Side
  <1> QED
    BY <1>1 DEF BlankOrder, OrderNode, Nil

\* Freeing an order blanks it and returns it to the pool.
LEMMA FreeOrderFields ==
    ASSUME NEW h \in Heap, NEW order \in 1 .. Len(h.orders), Dealloc(h.orderPool, order) \in PoolState
    PROVE  OrderFreed(h, FreeOrder(h, order), order)
  <1> DEFINE g == FreeOrder(h, order)
             pool == Dealloc(h.orderPool, order)
             orders == [h.orders EXCEPT ![order] = BlankOrder]
  <1>1. /\ orders \in Seq(OrderNode) /\ Len(orders) = Len(h.orders)
        /\ \A k \in 1 .. Len(h.orders) : orders[k] = IF k = order THEN BlankOrder ELSE h.orders[k]
    BY HeapFields, BlankOrderTyped, SequenceUpdated
  <1>2. g = [h EXCEPT !.orderPool = pool, !.orders = orders]
    BY HeapRecord DEF FreeOrder
  <1> HIDE DEF g, pool, orders
  <1>3. g = [orders |-> orders, levels |-> h.levels, orderPool |-> pool,
             levelPool |-> h.levelPool, best |-> h.best, byPrice |-> h.byPrice,
             ordersById |-> h.ordersById]
    <2>1. h = [orders |-> h.orders, levels |-> h.levels, orderPool |-> h.orderPool,
               levelPool |-> h.levelPool, best |-> h.best, byPrice |-> h.byPrice,
               ordersById |-> h.ordersById]
      BY HeapRecord
    <2> QED
      BY <1>2, <2>1
  <1>4. g \in Heap
    <2>1. /\ h.levels \in Seq(LevelNode) /\ h.levelPool \in PoolState /\ h.best \in [Side -> Nat]
          /\ h.byPrice \in [Side -> [Price -> Nat]] /\ h.ordersById \in [OrderId -> Nat]
          /\ pool \in PoolState
      BY HeapFields DEF pool
    <2> QED
      BY <1>1, <1>3, <2>1 DEF Heap
  <1>5. g.orderPool = Dealloc(h.orderPool, order)
    BY <1>3 DEF pool
  <1> QED
    BY <1>1, <1>3, <1>4, <1>5 DEF OrderFreed, g

\* What is left of h when an order has been queued behind back, the last of level lvl.
Pushed(h, g, lvl, order, back) ==
    /\ SameFrame(h, g)
    /\ g.orders[order].prev = back /\ g.orders[order].next = Nil /\ g.orders[order].level = lvl
    /\ \A n \in 1 .. Len(h.orders) :
          /\ SameOrder(g.orders[n], h.orders[n])
          /\ n # order =>
                /\ g.orders[n].next = IF n = back THEN order ELSE h.orders[n].next
                /\ g.orders[n].prev = h.orders[n].prev
                /\ g.orders[n].level = h.orders[n].level
    /\ \A l \in 1 .. Len(h.levels) :
          /\ g.levels[l].better = h.levels[l].better /\ g.levels[l].worse = h.levels[l].worse
          /\ g.levels[l].price = h.levels[l].price
          /\ l # lvl => g.levels[l] = h.levels[l]
    /\ g.levels[lvl].front = IF back = Nil THEN order ELSE h.levels[lvl].front
    /\ g.levels[lvl].back = order
    /\ g.levels[lvl].total_qty = Wrap(h.levels[lvl].total_qty + h.orders[order].remaining)
    /\ g.levels[lvl].order_count = h.levels[lvl].order_count + 1

\* Pushing an order links it behind the last of its level.
LEMMA PushOrderFields ==
    ASSUME NEW h \in Heap, NEW order \in 1 .. Len(h.orders), NEW lvl \in 1 .. Len(h.levels),
           h.levels[lvl].back \in 0 .. Len(h.orders), h.levels[lvl].back # order
    PROVE  Pushed(h, PushOrder(h, lvl, order), lvl, order, h.levels[lvl].back)
  <1> DEFINE back == h.levels[lvl].back
             O == 1 .. Len(h.orders)
             L == 1 .. Len(h.levels)
             a == IF back # Nil THEN [h EXCEPT !.orders[back].next = order]
                                ELSE [h EXCEPT !.levels[lvl].front = order]
             x == [a.orders[order] EXCEPT !.level = lvl, !.prev = back, !.next = Nil]
             t == Wrap(a.levels[lvl].total_qty + h.orders[order].remaining)
             c == a.levels[lvl].order_count + 1
             y == [a.levels[lvl] EXCEPT !.back = order, !.total_qty = t, !.order_count = c]
             b == PutOrder(a, order, x)
             g == PushOrder(h, lvl, order)
  <1>0. /\ \A n \in O : h.orders[n] \in OrderNode
        /\ \A l \in L : h.levels[l] \in LevelNode
        /\ order \in O /\ lvl \in L /\ order \in Nat /\ lvl \in Nat /\ order # Nil
    BY HeapFields DEF Nil
  <1>1. back \in Nat /\ back # order /\ (back # Nil => back \in O)
    <2>1. back \in 0 .. Len(h.orders) /\ Len(h.orders) \in Nat /\ back # order
      BY HeapFields, SMTT(60)
    <2> HIDE DEF back
    <2> QED
      BY <2>1 DEF Nil
  <1>2. /\ SameFrame(h, a)
        /\ \A n \in O : a.orders[n] = IF n = back THEN [h.orders[n] EXCEPT !.next = order] ELSE h.orders[n]
        /\ \A l \in L : a.levels[l] = IF l = lvl /\ back = Nil THEN [h.levels[l] EXCEPT !.front = order]
                                      ELSE h.levels[l]
    <2>1. CASE back # Nil
      <3> DEFINE z == [h.orders[back] EXCEPT !.next = order]
      <3>1. a = [h EXCEPT !.orders[back].next = order]
        BY <2>1
      <3> HIDE DEF a, back
      <3>2. a = PutOrder(h, back, z)
        BY <1>1, <2>1, <3>1, HeapRecord DEF PutOrder
      <3>3. z \in OrderNode
        BY <1>0, <1>1, <2>1, OrderFields
      <3> HIDE DEF z
      <3>4. /\ a \in Heap /\ Len(a.orders) = Len(h.orders)
            /\ \A k \in O : a.orders[k] = IF k = back THEN z ELSE h.orders[k]
            /\ a.levels = h.levels
            /\ a.orderPool = h.orderPool /\ a.levelPool = h.levelPool
            /\ a.best = h.best /\ a.byPrice = h.byPrice /\ a.ordersById = h.ordersById
        BY <1>1, <2>1, <3>2, <3>3, OrderPut
      <3> QED
        BY <2>1, <3>4 DEF z, SameFrame
    <2>2. CASE back = Nil
      <3> DEFINE z == [h.levels[lvl] EXCEPT !.front = order]
      <3>1. a = [h EXCEPT !.levels[lvl].front = order]
        BY <2>2
      <3> HIDE DEF a, back
      <3>2. a = PutLevel(h, lvl, z)
        BY <3>1, HeapRecord DEF PutLevel
      <3>3. z \in LevelNode
        BY <1>0, LevelFields
      <3> HIDE DEF z
      <3>4. /\ a \in Heap /\ Len(a.levels) = Len(h.levels)
            /\ \A k \in L : a.levels[k] = IF k = lvl THEN z ELSE h.levels[k]
            /\ a.orders = h.orders
            /\ a.orderPool = h.orderPool /\ a.levelPool = h.levelPool
            /\ a.best = h.best /\ a.byPrice = h.byPrice /\ a.ordersById = h.ordersById
        BY <3>2, <3>3, LevelPut
      <3>5. \A n \in O : n # back
        BY <2>2, SMTT(60) DEF Nil
      <3> QED
        BY <2>2, <3>4, <3>5 DEF z, SameFrame
    <2> QED
      BY <2>1, <2>2
  <1>3. g = [a EXCEPT !.orders[order].level = lvl, !.orders[order].prev = back,
                      !.orders[order].next = Nil, !.levels[lvl].back = order,
                      !.levels[lvl].total_qty = Wrap(@ + h.orders[order].remaining),
                      !.levels[lvl].order_count = @ + 1]
    BY Zenon DEF PushOrder, a
  <1> HIDE DEF a
  <1>4. /\ a \in Heap /\ Len(a.orders) = Len(h.orders) /\ Len(a.levels) = Len(h.levels)
        /\ a.orders[order] \in OrderNode /\ a.levels[lvl] \in LevelNode
        /\ order \in 1 .. Len(a.orders) /\ lvl \in 1 .. Len(a.levels)
    BY <1>0, <1>2, HeapFields DEF SameFrame
  <1>5. /\ x \in OrderNode /\ x.level = lvl /\ x.prev = back /\ x.next = Nil
        /\ SameOrder(x, a.orders[order])
    <2> HIDE DEF back
    <2>1. Nil \in Nat
      BY DEF Nil
    <2> QED
      BY <1>0, <1>1, <1>4, <2>1 DEF OrderNode, SameOrder
  <1>6. t \in 0 .. (QtyMod - 1) /\ c \in Nat
    <2>1. \A i \in 0 .. (QtyMod - 1) : i \in Int
      BY QtyAssumption
    <2>2. /\ a.levels[lvl].total_qty \in 0 .. (QtyMod - 1) /\ a.levels[lvl].order_count \in Nat
          /\ h.orders[order].remaining \in 0 .. (QtyMod - 1)
      BY <1>0, <1>4 DEF LevelNode, OrderNode
    <2>3. a.levels[lvl].total_qty \in Int /\ h.orders[order].remaining \in Int
      BY <2>1, <2>2
    <2>4. t \in 0 .. (QtyMod - 1)
      <3> DEFINE i == a.levels[lvl].total_qty
                 j == h.orders[order].remaining
      <3>1. i \in Int /\ j \in Int
        BY <2>3
      <3> HIDE DEF i, j
      <3>2. Wrap(i + j) \in 0 .. (QtyMod - 1)
        BY <3>1, QtyAssumption DEF Wrap
      <3> QED
        BY <3>2 DEF i, j
    <2>5. c \in Nat
      BY <2>2, SMTT(60)
    <2> HIDE DEF t, c
    <2> QED
      BY <2>4, <2>5
  <1>7. /\ y \in LevelNode /\ y.back = order /\ y.total_qty = t /\ y.order_count = c
        /\ y.front = a.levels[lvl].front /\ y.better = a.levels[lvl].better
        /\ y.worse = a.levels[lvl].worse /\ y.price = a.levels[lvl].price
    <2> HIDE DEF t, c
    <2> QED
      BY <1>0, <1>4, <1>6 DEF LevelNode
  <1> HIDE DEF back, t, c, g
  <1>8. g = [[a EXCEPT !.orders[order].level = lvl, !.orders[order].prev = back,
                       !.orders[order].next = Nil]
                EXCEPT !.levels[lvl].back = order, !.levels[lvl].total_qty = t,
                       !.levels[lvl].order_count = c]
    <2>1. [a EXCEPT !.orders[order].level = lvl, !.orders[order].prev = back,
                    !.orders[order].next = Nil].levels[lvl] = a.levels[lvl]
      <3>1. a = [orders |-> a.orders, levels |-> a.levels, orderPool |-> a.orderPool,
                 levelPool |-> a.levelPool, best |-> a.best, byPrice |-> a.byPrice,
                 ordersById |-> a.ordersById]
        BY <1>4, HeapRecord
      <3> QED
        BY <3>1
    <2> QED
      BY <1>3 DEF t, c
  <1>9a. [a EXCEPT !.orders[order].level = lvl, !.orders[order].prev = back,
                   !.orders[order].next = Nil] = b
    <2> DEFINE u == a.orders
               u1 == [u EXCEPT ![order] = [u[order] EXCEPT !.level = lvl]]
               u2 == [u1 EXCEPT ![order] = [u1[order] EXCEPT !.prev = back]]
               u3 == [u2 EXCEPT ![order] = [u2[order] EXCEPT !.next = Nil]]
    <2>1. a = [orders |-> u, levels |-> a.levels, orderPool |-> a.orderPool,
               levelPool |-> a.levelPool, best |-> a.best, byPrice |-> a.byPrice,
               ordersById |-> a.ordersById]
      BY <1>4, HeapRecord
    <2>2. u \in Seq(OrderNode) /\ order \in DOMAIN u /\ u[order] = a.orders[order]
      BY <1>4, HeapFields
    <2>3. u3 = [u EXCEPT ![order] = x]
      <3> HIDE DEF u
      <3>1. u1[order] = [u[order] EXCEPT !.level = lvl]
        BY <2>2
      <3>2. u2 = [u EXCEPT ![order] = [u1[order] EXCEPT !.prev = back]]
        BY <2>2
      <3>3. u2[order] = [u1[order] EXCEPT !.prev = back]
        BY <2>2, <3>2
      <3> HIDE DEF u1
      <3>4. u3 = [u EXCEPT ![order] = [u2[order] EXCEPT !.next = Nil]]
        BY <2>2, <3>2
      <3> HIDE DEF u2, u3
      <3> QED
        BY <2>2, <3>1, <3>3, <3>4
    <2>4. [a EXCEPT !.orders[order].level = lvl, !.orders[order].prev = back,
                    !.orders[order].next = Nil] = [a EXCEPT !.orders = u3]
      <3> HIDE DEF u
      <3>1. [a EXCEPT !.orders[order].level = lvl] = [a EXCEPT !.orders = u1]
        BY <2>1
      <3> HIDE DEF u1
      <3>2. [[a EXCEPT !.orders = u1] EXCEPT !.orders[order].prev = back] = [a EXCEPT !.orders = u2]
        BY <2>1
      <3> HIDE DEF u2
      <3>3. [[a EXCEPT !.orders = u2] EXCEPT !.orders[order].next = Nil] = [a EXCEPT !.orders = u3]
        BY <2>1
      <3> HIDE DEF u3
      <3> QED
        BY <3>1, <3>2, <3>3
    <2> QED
      BY <2>3, <2>4 DEF PutOrder
  <1>9. /\ b \in Heap /\ Len(b.orders) = Len(a.orders)
        /\ \A k \in 1 .. Len(a.orders) : b.orders[k] = IF k = order THEN x ELSE a.orders[k]
        /\ b.levels = a.levels
        /\ b.orderPool = a.orderPool /\ b.levelPool = a.levelPool
        /\ b.best = a.best /\ b.byPrice = a.byPrice /\ b.ordersById = a.ordersById
    <2> HIDE DEF x
    <2> QED
      BY <1>4, <1>5, OrderPut
  <1> HIDE DEF b
  <1>9b. g = PutLevel(b, lvl, y)
    <2>1. g = [b EXCEPT !.levels[lvl].back = order, !.levels[lvl].total_qty = t,
                        !.levels[lvl].order_count = c]
      BY <1>8, <1>9a
    <2>2. [b EXCEPT !.levels[lvl].back = order, !.levels[lvl].total_qty = t,
                    !.levels[lvl].order_count = c]
          = PutLevel(b, lvl, [b.levels[lvl] EXCEPT !.back = order, !.total_qty = t,
                                                   !.order_count = c])
      BY <1>4, <1>9, HeapRecord, ZenonT(60) DEF PutLevel
    <2> QED
      BY <1>9, <2>1, <2>2, SMTT(60)
  <1> HIDE DEF x, y
  <1>10. /\ g \in Heap /\ Len(g.levels) = Len(b.levels)
         /\ \A k \in 1 .. Len(b.levels) : g.levels[k] = IF k = lvl THEN y ELSE b.levels[k]
         /\ g.orders = b.orders
         /\ g.orderPool = b.orderPool /\ g.levelPool = b.levelPool
         /\ g.best = b.best /\ g.byPrice = b.byPrice /\ g.ordersById = b.ordersById
    BY <1>4, <1>7, <1>9, <1>9b, LevelPut
  <1>11. SameFrame(h, g)
    BY <1>2, <1>9, <1>10 DEF SameFrame
  <1>12. /\ \A n \in O : g.orders[n] = IF n = order THEN x ELSE a.orders[n]
         /\ \A l \in L : g.levels[l] = IF l = lvl THEN y ELSE a.levels[l]
    BY <1>4, <1>9, <1>10
  <1>13. ASSUME NEW n \in O
         PROVE  /\ SameOrder(g.orders[n], h.orders[n])
                /\ n # order =>
                      /\ g.orders[n].next = IF n = back THEN order ELSE h.orders[n].next
                      /\ g.orders[n].prev = h.orders[n].prev
                      /\ g.orders[n].level = h.orders[n].level
    <2>1. h.orders[n] \in OrderNode
      BY <1>0
    <2>2. a.orders[n] = IF n = back THEN [h.orders[n] EXCEPT !.next = order] ELSE h.orders[n]
      BY <1>2
    <2>3. SameOrder(a.orders[n], h.orders[n])
      BY <2>1, <2>2 DEF OrderNode, SameOrder
    <2>4. g.orders[n] = IF n = order THEN x ELSE a.orders[n]
      BY <1>12
    <2> HIDE DEF back
    <2>5. SameOrder(g.orders[n], h.orders[n])
      BY <1>5, <2>3, <2>4 DEF SameOrder
    <2>6. /\ a.orders[n].next = IF n = back THEN order ELSE h.orders[n].next
          /\ a.orders[n].prev = h.orders[n].prev
          /\ a.orders[n].level = h.orders[n].level
      BY <2>1, <2>2 DEF OrderNode
    <2> QED
      BY <2>4, <2>5, <2>6
  <1>14. ASSUME NEW l \in L
         PROVE  /\ g.levels[l].better = h.levels[l].better /\ g.levels[l].worse = h.levels[l].worse
                /\ g.levels[l].price = h.levels[l].price
                /\ l # lvl => g.levels[l] = h.levels[l]
                /\ l = lvl =>
                      /\ g.levels[l].front = IF back = Nil THEN order ELSE h.levels[l].front
                      /\ g.levels[l].back = order
                      /\ g.levels[l].total_qty = t /\ g.levels[l].order_count = c
                      /\ a.levels[l].total_qty = h.levels[l].total_qty
                      /\ a.levels[l].order_count = h.levels[l].order_count
    <2>1. h.levels[l] \in LevelNode
      BY <1>0
    <2>2. a.levels[l] = IF l = lvl /\ back = Nil THEN [h.levels[l] EXCEPT !.front = order]
                        ELSE h.levels[l]
      BY <1>2
    <2>3. g.levels[l] = IF l = lvl THEN y ELSE a.levels[l]
      BY <1>12
    <2> HIDE DEF back, t, c
    <2>4. /\ a.levels[l].better = h.levels[l].better /\ a.levels[l].worse = h.levels[l].worse
          /\ a.levels[l].price = h.levels[l].price
          /\ a.levels[l].total_qty = h.levels[l].total_qty
          /\ a.levels[l].order_count = h.levels[l].order_count
          /\ l # lvl => a.levels[l] = h.levels[l]
          /\ l = lvl => a.levels[l].front = IF back = Nil THEN order ELSE h.levels[l].front
      BY <2>1, <2>2 DEF LevelNode
    <2> QED
      BY <1>7, <2>3, <2>4
  <1>15. g.orders[order] = x
    BY <1>0, <1>12
  <1> HIDE DEF back
  <1>16. /\ g.orders[order].prev = back /\ g.orders[order].next = Nil /\ g.orders[order].level = lvl
    BY <1>5, <1>15
  <1>17. /\ g.levels[lvl].front = IF back = Nil THEN order ELSE h.levels[lvl].front
         /\ g.levels[lvl].back = order
         /\ g.levels[lvl].total_qty = Wrap(h.levels[lvl].total_qty + h.orders[order].remaining)
         /\ g.levels[lvl].order_count = h.levels[lvl].order_count + 1
    BY <1>0, <1>14 DEF t, c
  <1>18. Pushed(h, g, lvl, order, back)
    BY <1>11, <1>13, <1>14, <1>16, <1>17 DEF Pushed
  <1> QED
    BY <1>18 DEF g, back

-----------------------------------------------------------------------------
(* Taking orders, creating levels, changing quantities                     *)

\* Memory after an allocation: what was there stays, the rest is blank.
LEMMA ProvideShape ==
    ASSUME NEW S, NEW mem \in Seq(S), NEW pool \in PoolState, pool.capacity >= Len(mem),
           NEW obj, NEW blank \in S
    PROVE  /\ Provide(mem, pool, obj, blank) \in Seq(S)
           /\ Len(Provide(mem, pool, obj, blank)) = pool.capacity
           /\ \A n \in 1 .. pool.capacity : Provide(mem, pool, obj, blank)[n] =
                 IF n \in 1 .. Len(mem) /\ n # obj THEN mem[n] ELSE blank
  <1> DEFINE c == pool.capacity
             r == Provide(mem, pool, obj, blank)
  <1>1. c \in Nat /\ DOMAIN mem = 1 .. Len(mem) /\ \A n \in 1 .. Len(mem) : mem[n] \in S
    BY DEF PoolState
  <1>2. r = [n \in 1 .. c |-> IF n \in 1 .. Len(mem) /\ n # obj THEN mem[n] ELSE blank]
    BY <1>1 DEF Provide
  <1> HIDE DEF r, c
  <1>3. r \in [1 .. c -> S]
    BY <1>1, <1>2
  <1>4. r \in Seq(S) /\ Len(r) = c
    BY <1>1, <1>3
  <1> QED
    BY <1>2, <1>4 DEF r, c

-----------------------------------------------------------------------------
\* A new node with an incoming order's particulars.
FilledIn(t) == [BlankOrder EXCEPT !.id = t.id, !.participant = t.participant, !.side = t.side,
                                  !.price = t.price, !.remaining = t.remaining]
\* The first step of RestOrder.
TakeOrder(h, t) ==
    LET order == Allocated(h.orderPool, OrderSlab)
        pool  == Alloc(h.orderPool, OrderSlab)
    IN  [h EXCEPT !.orderPool = pool,
                  !.orders = [Provide(@, pool, order, BlankOrder) EXCEPT ![order] = FilledIn(t)],
                  !.ordersById[t.id] = order]

\* What is left of h when node order of pool has been filled in with t.
OrderTaken(h, g, t, order, pool) ==
    /\ g \in Heap /\ g.levels = h.levels /\ g.levelPool = h.levelPool
    /\ g.best = h.best /\ g.byPrice = h.byPrice
    /\ g.orderPool = pool /\ Len(g.orders) = pool.capacity
    /\ g.orders[order] = FilledIn(t)
    /\ \A n \in 1 .. pool.capacity : n # order =>
          g.orders[n] = IF n \in 1 .. Len(h.orders) THEN h.orders[n] ELSE BlankOrder
    /\ g.ordersById = [h.ordersById EXCEPT ![t.id] = order]

\* The order node a call fills in is one.
LEMMA FilledInTyped ==
    ASSUME NEW t \in Taker
    PROVE  /\ FilledIn(t) \in OrderNode
           /\ FilledIn(t).prev = Nil /\ FilledIn(t).next = Nil /\ FilledIn(t).level = Nil
           /\ FilledIn(t).id = t.id /\ FilledIn(t).participant = t.participant
           /\ FilledIn(t).side = t.side /\ FilledIn(t).price = t.price
           /\ FilledIn(t).remaining = t.remaining
  <1>1. /\ t.id \in OrderId /\ t.participant \in Participant /\ t.side \in Side
        /\ t.price \in Int /\ t.remaining \in 0 .. (QtyMod - 1)
    BY DEF Taker
  <1>2. FilledIn(t) = [prev |-> Nil, next |-> Nil, level |-> Nil, id |-> t.id,
             remaining |-> t.remaining, price |-> t.price, participant |-> t.participant,
             side |-> t.side]
    <2> DEFINE i == t.id
               p == t.participant
               s == t.side
               c == t.price
               r == t.remaining
               b1 == [BlankOrder EXCEPT !.id = i]
               b2 == [b1 EXCEPT !.participant = p]
               b3 == [b2 EXCEPT !.side = s]
               b4 == [b3 EXCEPT !.price = c]
               b5 == [b4 EXCEPT !.remaining = r]
    <2>1. FilledIn(t) = b5
      BY DEF FilledIn
    <2> HIDE DEF i, p, s, c, r, b5
    <2>2. b1 = [prev |-> Nil, next |-> Nil, level |-> Nil, id |-> i, remaining |-> 0,
                price |-> 0, participant |-> None, side |-> "Bid"]
      BY DEF BlankOrder
    <2> HIDE DEF b1
    <2>3. b2 = [prev |-> Nil, next |-> Nil, level |-> Nil, id |-> i, remaining |-> 0,
                price |-> 0, participant |-> p, side |-> "Bid"]
      BY <2>2
    <2> HIDE DEF b2
    <2>4. b3 = [prev |-> Nil, next |-> Nil, level |-> Nil, id |-> i, remaining |-> 0,
                price |-> 0, participant |-> p, side |-> s]
      BY <2>3
    <2> HIDE DEF b3
    <2>5. b4 = [prev |-> Nil, next |-> Nil, level |-> Nil, id |-> i, remaining |-> 0,
                price |-> c, participant |-> p, side |-> s]
      BY <2>4
    <2> HIDE DEF b4
    <2>6. b5 = [prev |-> Nil, next |-> Nil, level |-> Nil, id |-> i, remaining |-> r,
                price |-> c, participant |-> p, side |-> s]
      BY <2>5 DEF b5
    <2> QED
      BY <2>1, <2>6 DEF i, p, s, c, r
  <1>3. Nil \in Nat
    BY DEF Nil
  <1>4. FilledIn(t) \in OrderNode
    <2>1. t.id \in OrderId \cup {None} /\ t.participant \in Participant \cup {None}
      BY <1>1
    <2> QED
      BY <1>1, <1>2, <1>3, <2>1 DEF OrderNode
  <1> QED
    BY <1>2, <1>4

\* Taking a node from the pool changes that node, the pool and the index by id.
LEMMA TakeOrderFields ==
    ASSUME NEW h \in Heap, NEW t \in Taker, NEW order, NEW pool,
           order = Allocated(h.orderPool, OrderSlab), pool = Alloc(h.orderPool, OrderSlab),
           pool \in PoolState, pool.capacity >= Len(h.orders), order \in 1 .. pool.capacity
    PROVE  OrderTaken(h, TakeOrder(h, t), t, order, pool)
  <1> DEFINE g == TakeOrder(h, t)
             mem == Provide(h.orders, pool, order, BlankOrder)
             orders == [mem EXCEPT ![order] = FilledIn(t)]
             ids == [h.ordersById EXCEPT ![t.id] = order]
  <1>1. /\ mem \in Seq(OrderNode) /\ Len(mem) = pool.capacity
        /\ \A n \in 1 .. pool.capacity :
              mem[n] = IF n \in 1 .. Len(h.orders) /\ n # order THEN h.orders[n] ELSE BlankOrder
    <2>1. h.orders \in Seq(OrderNode) /\ BlankOrder \in OrderNode
      BY HeapFields, BlankOrderTyped
    <2> HIDE DEF mem
    <2>2. mem = Provide(h.orders, pool, order, BlankOrder)
      BY DEF mem
    <2> QED
      BY <2>1, <2>2, ProvideShape
  <1> HIDE DEF mem
  <1>2. /\ orders \in Seq(OrderNode) /\ Len(orders) = Len(mem)
        /\ \A k \in 1 .. Len(mem) : orders[k] = IF k = order THEN FilledIn(t) ELSE mem[k]
    <2>1. order \in 1 .. Len(mem)
      BY <1>1
    <2> QED
      BY <1>1, <2>1, FilledInTyped, SequenceUpdated
  <1>3. g = [h EXCEPT !.orderPool = pool, !.orders = orders, !.ordersById = ids]
    <2>1. g = [h EXCEPT !.orderPool = pool,
                  !.orders = [Provide(@, pool, order, BlankOrder) EXCEPT ![order] = FilledIn(t)],
                  !.ordersById[t.id] = order]
      BY DEF TakeOrder
    <2>2. h = [orders |-> h.orders, levels |-> h.levels, orderPool |-> h.orderPool,
               levelPool |-> h.levelPool, best |-> h.best, byPrice |-> h.byPrice,
               ordersById |-> h.ordersById]
      BY HeapRecord
    <2> HIDE DEF g
    <2> QED
      BY <2>1, <2>2 DEF mem
  <1> HIDE DEF g, orders
  <1>4. ids \in [OrderId -> Nat]
    <2>1. pool.capacity \in Nat /\ order \in Nat
      BY DEF PoolState
    <2> QED
      BY <2>1, HeapFields
  <1> HIDE DEF ids
  <1>5. g = [orders |-> orders, levels |-> h.levels, orderPool |-> pool,
             levelPool |-> h.levelPool, best |-> h.best, byPrice |-> h.byPrice,
             ordersById |-> ids]
    <2>1. h = [orders |-> h.orders, levels |-> h.levels, orderPool |-> h.orderPool,
               levelPool |-> h.levelPool, best |-> h.best, byPrice |-> h.byPrice,
               ordersById |-> h.ordersById]
      BY HeapRecord
    <2> QED
      BY <1>3, <2>1
  <1>6. g \in Heap
    <2>1. /\ h.levels \in Seq(LevelNode) /\ h.levelPool \in PoolState /\ h.best \in [Side -> Nat]
          /\ h.byPrice \in [Side -> [Price -> Nat]]
      BY HeapFields
    <2> QED
      BY <1>2, <1>4, <1>5, <2>1 DEF Heap
  <1>7. /\ orders[order] = FilledIn(t)
        /\ \A n \in 1 .. pool.capacity : n # order =>
              orders[n] = IF n \in 1 .. Len(h.orders) THEN h.orders[n] ELSE BlankOrder
    BY <1>1, <1>2
  <1>8. g.ordersById = [h.ordersById EXCEPT ![t.id] = order]
    BY <1>5 DEF ids
  <1> QED
    BY <1>1, <1>2, <1>5, <1>6, <1>7, <1>8 DEF OrderTaken, g

-----------------------------------------------------------------------------
SetWorse(h, l, v)  == [h EXCEPT !.levels[l].worse = v]
SetBetter(h, l, v) == [h EXCEPT !.levels[l].better = v]

\* The link of level l down, or up, its ladder has been set to v, and nothing else.
WorseSet(h, g, l, v) ==
    /\ SameFrame(h, g) /\ g.orders = h.orders
    /\ \A k \in 1 .. Len(h.levels) :
          /\ g.levels[k].worse = IF k = l THEN v ELSE h.levels[k].worse
          /\ g.levels[k].better = h.levels[k].better
          /\ SameLevel(g.levels[k], h.levels[k])
BetterSet(h, g, l, v) ==
    /\ SameFrame(h, g) /\ g.orders = h.orders
    /\ \A k \in 1 .. Len(h.levels) :
          /\ g.levels[k].better = IF k = l THEN v ELSE h.levels[k].better
          /\ g.levels[k].worse = h.levels[k].worse
          /\ SameLevel(g.levels[k], h.levels[k])

\* Setting the worse link of a level.
LEMMA WorseSetBy ==
    ASSUME NEW h \in Heap, NEW l \in 1 .. Len(h.levels), NEW v \in Nat
    PROVE  WorseSet(h, SetWorse(h, l, v), l, v)
  <1> DEFINE g == SetWorse(h, l, v)
             x == [h.levels[l] EXCEPT !.worse = v]
  <1>1. \A k \in 1 .. Len(h.levels) : h.levels[k] \in LevelNode
    BY HeapFields
  <1>2. x \in LevelNode /\ x.worse = v /\ x.better = h.levels[l].better /\ SameLevel(x, h.levels[l])
    BY <1>1 DEF LevelNode, SameLevel
  <1>3. g = PutLevel(h, l, x)
    BY HeapRecord DEF SetWorse, PutLevel
  <1> HIDE DEF g, x
  <1>4. /\ g \in Heap /\ Len(g.levels) = Len(h.levels)
        /\ \A k \in 1 .. Len(h.levels) : g.levels[k] = IF k = l THEN x ELSE h.levels[k]
        /\ g.orders = h.orders
        /\ g.orderPool = h.orderPool /\ g.levelPool = h.levelPool
        /\ g.best = h.best /\ g.byPrice = h.byPrice /\ g.ordersById = h.ordersById
    BY <1>2, <1>3, LevelPut
  <1>5. SameFrame(h, g)
    BY <1>4 DEF SameFrame
  <1>6. \A k \in 1 .. Len(h.levels) : SameLevel(h.levels[k], h.levels[k])
    BY DEF SameLevel
  <1>7. WorseSet(h, g, l, v)
    BY <1>2, <1>4, <1>5, <1>6 DEF WorseSet
  <1> QED
    BY <1>7 DEF g

\* Setting the better link of a level.
LEMMA BetterSetBy ==
    ASSUME NEW h \in Heap, NEW l \in 1 .. Len(h.levels), NEW v \in Nat
    PROVE  BetterSet(h, SetBetter(h, l, v), l, v)
  <1> DEFINE g == SetBetter(h, l, v)
             x == [h.levels[l] EXCEPT !.better = v]
  <1>1. \A k \in 1 .. Len(h.levels) : h.levels[k] \in LevelNode
    BY HeapFields
  <1>2. x \in LevelNode /\ x.better = v /\ x.worse = h.levels[l].worse /\ SameLevel(x, h.levels[l])
    BY <1>1 DEF LevelNode, SameLevel
  <1>3. g = PutLevel(h, l, x)
    BY HeapRecord DEF SetBetter, PutLevel
  <1> HIDE DEF g, x
  <1>4. /\ g \in Heap /\ Len(g.levels) = Len(h.levels)
        /\ \A k \in 1 .. Len(h.levels) : g.levels[k] = IF k = l THEN x ELSE h.levels[k]
        /\ g.orders = h.orders
        /\ g.orderPool = h.orderPool /\ g.levelPool = h.levelPool
        /\ g.best = h.best /\ g.byPrice = h.byPrice /\ g.ordersById = h.ordersById
    BY <1>2, <1>3, LevelPut
  <1>5. SameFrame(h, g)
    BY <1>4 DEF SameFrame
  <1>6. \A k \in 1 .. Len(h.levels) : SameLevel(h.levels[k], h.levels[k])
    BY DEF SameLevel
  <1>7. BetterSet(h, g, l, v)
    BY <1>2, <1>4, <1>5, <1>6 DEF BetterSet
  <1> QED
    BY <1>7 DEF g

\* The new level of CreateLevel before it is linked.
TakeLevel(h, side, price) ==
    LET lvl  == Allocated(h.levelPool, LevelSlab)
        pool == Alloc(h.levelPool, LevelSlab)
    IN  [h EXCEPT !.levelPool = pool,
                  !.levels = [Provide(@, pool, lvl, BlankLevel) EXCEPT ![lvl].price = price],
                  !.byPrice[side][price] = lvl]

OldLevel(h, k) == IF k \in 1 .. Len(h.levels) THEN h.levels[k] ELSE BlankLevel

LevelTaken(h, g, side, price, lvl, pool) ==
    /\ g \in Heap /\ g.orders = h.orders /\ g.orderPool = h.orderPool
    /\ g.ordersById = h.ordersById
    /\ g.levelPool = pool /\ Len(g.levels) = pool.capacity
    /\ g.levels[lvl] = [BlankLevel EXCEPT !.price = price]
    /\ \A k \in 1 .. pool.capacity : k # lvl => g.levels[k] = OldLevel(h, k)
    /\ g.best = h.best
    /\ g.byPrice = [h.byPrice EXCEPT ![side] = [h.byPrice[side] EXCEPT ![price] = lvl]]

\* Taking a level from the pool changes that level, the pool and the index by price.
LEMMA TakeLevelFields ==
    ASSUME NEW h \in Heap, NEW side \in Side, NEW price \in Price, NEW lvl, NEW pool,
           lvl = Allocated(h.levelPool, LevelSlab), pool = Alloc(h.levelPool, LevelSlab),
           pool \in PoolState, pool.capacity >= Len(h.levels), lvl \in 1 .. pool.capacity
    PROVE  LevelTaken(h, TakeLevel(h, side, price), side, price, lvl, pool)
  <1> DEFINE g == TakeLevel(h, side, price)
             mem == Provide(h.levels, pool, lvl, BlankLevel)
             new == [BlankLevel EXCEPT !.price = price]
             levels == [mem EXCEPT ![lvl] = new]
             prices == [h.byPrice[side] EXCEPT ![price] = lvl]
             index == [h.byPrice EXCEPT ![side] = prices]
  <1>1. /\ mem \in Seq(LevelNode) /\ Len(mem) = pool.capacity
        /\ \A n \in 1 .. pool.capacity :
              mem[n] = IF n \in 1 .. Len(h.levels) /\ n # lvl THEN h.levels[n] ELSE BlankLevel
    <2>1. h.levels \in Seq(LevelNode) /\ BlankLevel \in LevelNode
      BY HeapFields, BlankLevelTyped
    <2> HIDE DEF mem
    <2>2. mem = Provide(h.levels, pool, lvl, BlankLevel)
      BY DEF mem
    <2> QED
      BY <2>1, <2>2, ProvideShape
  <1>2. new \in LevelNode
    BY BlankLevelTyped, PriceAssumption DEF LevelNode
  <1>3. g = [h EXCEPT !.levelPool = pool, !.levels = levels, !.byPrice = index]
    <2>1. g = [h EXCEPT !.levelPool = pool,
                  !.levels = [Provide(@, pool, lvl, BlankLevel) EXCEPT ![lvl].price = price],
                  !.byPrice[side][price] = lvl]
      BY DEF TakeLevel
    <2>2. h = [orders |-> h.orders, levels |-> h.levels, orderPool |-> h.orderPool,
               levelPool |-> h.levelPool, best |-> h.best, byPrice |-> h.byPrice,
               ordersById |-> h.ordersById]
      BY HeapRecord
    <2>3. g = [h EXCEPT !.levelPool = pool, !.levels = [mem EXCEPT ![lvl].price = price],
                        !.byPrice = index]
      <3> HIDE DEF g
      <3> QED
        BY <2>1, <2>2
    <2>4. [mem EXCEPT ![lvl].price = price] = levels
      <3> HIDE DEF mem
      <3>1. mem[lvl] = BlankLevel
        BY <1>1
      <3> QED
        BY <3>1
    <2> HIDE DEF g, levels, index, mem
    <2> QED
      BY <2>3, <2>4
  <1> HIDE DEF mem, new
  <1>4. /\ levels \in Seq(LevelNode) /\ Len(levels) = Len(mem)
        /\ \A k \in 1 .. Len(mem) : levels[k] = IF k = lvl THEN new ELSE mem[k]
    <2>1. lvl \in 1 .. Len(mem)
      BY <1>1
    <2> QED
      BY <1>1, <1>2, <2>1, SequenceUpdated
  <1> HIDE DEF g, levels
  <1>5. index \in [Side -> [Price -> Nat]]
    <2>1. pool.capacity \in Nat /\ lvl \in Nat
      BY DEF PoolState
    <2>2. h.byPrice \in [Side -> [Price -> Nat]] /\ h.byPrice[side] \in [Price -> Nat]
      BY HeapFields
    <2>3. prices \in [Price -> Nat]
      BY <2>1, <2>2
    <2> HIDE DEF prices
    <2> QED
      BY <2>2, <2>3
  <1> HIDE DEF index
  <1>6. g = [orders |-> h.orders, levels |-> levels, orderPool |-> h.orderPool,
             levelPool |-> pool, best |-> h.best, byPrice |-> index,
             ordersById |-> h.ordersById]
    <2>1. h = [orders |-> h.orders, levels |-> h.levels, orderPool |-> h.orderPool,
               levelPool |-> h.levelPool, best |-> h.best, byPrice |-> h.byPrice,
               ordersById |-> h.ordersById]
      BY HeapRecord
    <2> QED
      BY <1>3, <2>1
  <1>7. g \in Heap
    <2>1. /\ h.orders \in Seq(OrderNode) /\ h.orderPool \in PoolState /\ h.best \in [Side -> Nat]
          /\ h.ordersById \in [OrderId -> Nat]
      BY HeapFields
    <2> QED
      BY <1>4, <1>5, <1>6, <2>1 DEF Heap
  <1>8. /\ levels[lvl] = new
        /\ \A k \in 1 .. pool.capacity : k # lvl => levels[k] = OldLevel(h, k)
    BY <1>1, <1>4 DEF OldLevel
  <1>9. g.byPrice = [h.byPrice EXCEPT ![side] = prices] /\ g.levels[lvl] = [BlankLevel EXCEPT !.price = price]
    BY <1>6, <1>8 DEF index, new
  <1> QED
    BY <1>1, <1>4, <1>6, <1>7, <1>8, <1>9 DEF LevelTaken, g

SetBest(h, side, v) == [h EXCEPT !.best[side] = v]
BestSet(h, g, side, v) ==
    /\ g \in Heap /\ g.orders = h.orders /\ g.levels = h.levels
    /\ g.orderPool = h.orderPool /\ g.levelPool = h.levelPool
    /\ g.byPrice = h.byPrice /\ g.ordersById = h.ordersById
    /\ g.best = [h.best EXCEPT ![side] = v]

\* Setting the best level of a side.
LEMMA BestSetBy ==
    ASSUME NEW h \in Heap, NEW side \in Side, NEW v \in Nat
    PROVE  BestSet(h, SetBest(h, side, v), side, v)
  <1> DEFINE g == SetBest(h, side, v)
             best == [h.best EXCEPT ![side] = v]
  <1>1. best \in [Side -> Nat]
    BY HeapFields
  <1>2. g = [h EXCEPT !.best = best]
    BY HeapRecord DEF SetBest
  <1> HIDE DEF g, best
  <1>3. g = [orders |-> h.orders, levels |-> h.levels, orderPool |-> h.orderPool,
             levelPool |-> h.levelPool, best |-> best, byPrice |-> h.byPrice,
             ordersById |-> h.ordersById]
    <2>1. h = [orders |-> h.orders, levels |-> h.levels, orderPool |-> h.orderPool,
               levelPool |-> h.levelPool, best |-> h.best, byPrice |-> h.byPrice,
               ordersById |-> h.ordersById]
      BY HeapRecord
    <2> QED
      BY <1>2, <2>1
  <1>4. g \in Heap
    <2>1. /\ h.orders \in Seq(OrderNode) /\ h.orderPool \in PoolState /\ h.levels \in Seq(LevelNode)
          /\ h.levelPool \in PoolState
          /\ h.ordersById \in [OrderId -> Nat] /\ h.byPrice \in [Side -> [Price -> Nat]]
      BY HeapFields
    <2> QED
      BY <1>1, <1>3, <2>1 DEF Heap
  <1>5. g.best = [h.best EXCEPT ![side] = v]
    BY <1>3 DEF best
  <1> QED
    BY <1>3, <1>4, <1>5 DEF BestSet, g

\* What is left of h when level lvl has been put into its ladder between pos and worse.
LevelLinked(h, g, side, price, lvl, pool, pos, worse) ==
    /\ g \in Heap /\ g.orders = h.orders /\ g.orderPool = h.orderPool
    /\ g.ordersById = h.ordersById
    /\ g.levelPool = pool /\ Len(g.levels) = pool.capacity
    /\ g.levels[lvl].better = pos /\ g.levels[lvl].worse = worse
    /\ SameLevel(g.levels[lvl], [BlankLevel EXCEPT !.price = price])
    /\ \A k \in 1 .. pool.capacity : k # lvl =>
          /\ g.levels[k].worse = IF k = pos THEN lvl ELSE OldLevel(h, k).worse
          /\ g.levels[k].better = IF k = worse THEN lvl ELSE OldLevel(h, k).better
          /\ SameLevel(g.levels[k], OldLevel(h, k))
    /\ g.best = [h.best EXCEPT ![side] = IF pos = Nil THEN lvl ELSE h.best[side]]
    /\ g.byPrice = [h.byPrice EXCEPT ![side] = [h.byPrice[side] EXCEPT ![price] = lvl]]

AtHead(h, side, price) ==
    h.best[side] = Nil \/ Better(side, price, h.levels[h.best[side]].price)
\* The level a new one goes behind, Nil for none, and the one it goes in front of.
LevelAbove(h, side, price) == IF AtHead(h, side, price) THEN Nil ELSE LastBetter(h, side, price)
LevelBelow(h, side, price) == IF AtHead(h, side, price) THEN h.best[side]
                              ELSE h.levels[LastBetter(h, side, price)].worse

\* A created level stands between its two neighbours, the rest is as it was.
LEMMA CreateLevelFields ==
    ASSUME NEW h \in Heap, NEW side \in Side, NEW price \in Price, NEW lvl, NEW pool,
           lvl = Allocated(h.levelPool, LevelSlab), pool = Alloc(h.levelPool, LevelSlab),
           pool \in PoolState, pool.capacity >= Len(h.levels), lvl \in 1 .. pool.capacity,
           NEW pos \in 0 .. Len(h.levels), NEW worse \in 0 .. Len(h.levels),
           pos # lvl, worse # lvl,
           pos = LevelAbove(h, side, price), worse = LevelBelow(h, side, price),
           ~AtHead(h, side, price) => pos # Nil
    PROVE  LevelLinked(h, CreateLevel(h, side, price), side, price, lvl, pool, pos, worse)
  <1> DEFINE g == CreateLevel(h, side, price)
             t == TakeLevel(h, side, price)
             new == [BlankLevel EXCEPT !.price = price]
             c == pool.capacity
             a == IF AtHead(h, side, price) THEN SetBest(SetWorse(t, lvl, worse), side, lvl)
                  ELSE SetWorse(SetWorse(SetBetter(t, lvl, pos), lvl, worse), pos, lvl)
             b == IF worse # Nil THEN SetBetter(a, worse, lvl) ELSE a
  <1>1. g = b
    <2> DEFINE below == h.best[side]
               last == LastBetter(h, side, price)
               next == h.levels[last].worse
               al == Allocated(h.levelPool, LevelSlab)
               a1 == SetBest(SetWorse(t, al, below), side, al)
               a2 == SetWorse(SetWorse(SetBetter(t, al, last), al, next), last, al)
    <2>1. g = IF below = Nil \/ Better(side, price, h.levels[below].price)
              THEN IF below # Nil THEN SetBetter(a1, below, al) ELSE a1
              ELSE IF next # Nil THEN SetBetter(a2, next, al) ELSE a2
      BY DEF CreateLevel, TakeLevel, SetWorse, SetBetter, SetBest
    <2>2. al = lvl
      OBVIOUS
    <2>3. AtHead(h, side, price) <=> below = Nil \/ Better(side, price, h.levels[below].price)
      BY DEF AtHead
    <2>4. CASE AtHead(h, side, price)
      <3>1. worse = below
        BY <2>4 DEF LevelBelow
      <3>2. a = a1
        BY <2>2, <2>4, <3>1
      <3>3. b = IF worse # Nil THEN SetBetter(a1, worse, lvl) ELSE a1
        BY <3>2
      <3> HIDE DEF a1, a2, b, g, al, below, last, next
      <3> QED
        BY <2>1, <2>2, <2>3, <2>4, <3>1, <3>3
    <2>5. CASE ~AtHead(h, side, price)
      <3>1. pos = last /\ worse = next
        BY <2>5 DEF LevelBelow, LevelAbove
      <3>2. a = a2
        BY <2>2, <2>5, <3>1
      <3>3. b = IF worse # Nil THEN SetBetter(a2, worse, lvl) ELSE a2
        BY <3>2
      <3> HIDE DEF a1, a2, b, g, al, below, last, next
      <3> QED
        BY <2>1, <2>2, <2>3, <2>5, <3>1, <3>3
    <2> QED
      BY <2>4, <2>5, SMTT(60)
  <1>2. LevelTaken(h, t, side, price, lvl, pool)
    BY TakeLevelFields
  <1>3. /\ c \in Nat /\ lvl \in Nat /\ lvl # Nil /\ pos \in Nat /\ worse \in Nat
        /\ pos # Nil => pos \in 1 .. c
        /\ worse # Nil => worse \in 1 .. c
    <2>1. c \in Nat /\ Len(h.levels) \in Nat
      BY HeapFields DEF PoolState
    <2> QED
      BY <2>1 DEF Nil
  <1> HIDE DEF g, t, c
  <1>4. /\ t \in Heap /\ t.orders = h.orders /\ t.orderPool = h.orderPool
        /\ t.ordersById = h.ordersById
        /\ t.levelPool = pool /\ Len(t.levels) = c
        /\ t.levels[lvl] = new
        /\ \A k \in 1 .. c : k # lvl => t.levels[k] = OldLevel(h, k)
        /\ t.best = h.best
        /\ t.byPrice = [h.byPrice EXCEPT ![side] = [h.byPrice[side] EXCEPT ![price] = lvl]]
        /\ lvl \in 1 .. c
    BY <1>2, SMTT(60) DEF LevelTaken, c
  <1>5. /\ a \in Heap /\ a.orders = t.orders /\ a.orderPool = t.orderPool
        /\ a.ordersById = t.ordersById /\ a.levelPool = t.levelPool /\ Len(a.levels) = c
        /\ a.byPrice = t.byPrice
        /\ a.best = [h.best EXCEPT ![side] = IF pos = Nil THEN lvl ELSE h.best[side]]
        /\ a.levels[lvl].worse = worse /\ a.levels[lvl].better = pos
        /\ SameLevel(a.levels[lvl], t.levels[lvl])
        /\ \A k \in 1 .. c : k # lvl =>
              /\ a.levels[k].worse = IF k = pos THEN lvl ELSE t.levels[k].worse
              /\ a.levels[k].better = t.levels[k].better
              /\ SameLevel(a.levels[k], t.levels[k])
    <2>1. CASE AtHead(h, side, price)
      <3> DEFINE u == SetWorse(t, lvl, worse)
                 v == SetBest(u, side, lvl)
      <3>1. WorseSet(t, u, lvl, worse)
        BY <1>3, <1>4, WorseSetBy
      <3>2. a = v /\ pos = Nil
        BY <2>1 DEF LevelAbove
      <3> HIDE DEF u, v, a
      <3>3. u \in Heap
        BY <3>1 DEF WorseSet, SameFrame
      <3>4. BestSet(u, v, side, lvl)
        BY <1>3, <3>3, BestSetBy DEF v
      <3>5. /\ a \in Heap /\ a.orders = u.orders /\ a.levels = u.levels
            /\ a.orderPool = u.orderPool /\ a.levelPool = u.levelPool
            /\ a.byPrice = u.byPrice /\ a.ordersById = u.ordersById
            /\ a.best = [u.best EXCEPT ![side] = lvl]
        BY <3>2, <3>4 DEF BestSet
      <3>6. /\ Len(u.levels) = c /\ u.best = h.best /\ u.orders = t.orders
            /\ u.orderPool = t.orderPool /\ u.levelPool = t.levelPool
            /\ u.byPrice = t.byPrice /\ u.ordersById = t.ordersById
            /\ \A k \in 1 .. c :
                  /\ u.levels[k].worse = IF k = lvl THEN worse ELSE t.levels[k].worse
                  /\ u.levels[k].better = t.levels[k].better
                  /\ SameLevel(u.levels[k], t.levels[k])
        BY <1>4, <3>1 DEF WorseSet, SameFrame
      <3>7. t.levels[lvl].better = pos
        <4>1. new.better = Nil
          BY DEF BlankLevel
        <4> QED
          BY <1>4, <3>2, <4>1
      <3>8. \A k \in 1 .. c : k # pos
        BY <3>2 DEF Nil
      <3> QED
        BY <1>4, <3>2, <3>5, <3>6, <3>7, <3>8, ZenonT(60)
    <2>2. CASE ~AtHead(h, side, price)
      <3> DEFINE u == SetBetter(t, lvl, pos)
                 v == SetWorse(u, lvl, worse)
                 w == SetWorse(v, pos, lvl)
      <3>0. pos # Nil /\ pos \in 1 .. c
        BY <1>3, <2>2
      <3>1. BetterSet(t, u, lvl, pos)
        BY <1>3, <1>4, BetterSetBy
      <3>2. a = w
        BY <2>2
      <3> HIDE DEF u, a
      <3>3. u \in Heap /\ lvl \in 1 .. Len(u.levels)
        BY <1>4, <3>1 DEF BetterSet, SameFrame
      <3>4. WorseSet(u, v, lvl, worse)
        BY <1>3, <3>3, WorseSetBy
      <3> HIDE DEF v
      <3>5. v \in Heap /\ pos \in 1 .. Len(v.levels)
        BY <1>4, <3>0, <3>1, <3>4 DEF BetterSet, WorseSet, SameFrame
      <3>6. WorseSet(v, w, pos, lvl)
        BY <1>3, <3>5, WorseSetBy
      <3> HIDE DEF w
      <3>7. /\ a \in Heap /\ Len(a.levels) = c /\ a.best = h.best /\ a.orders = t.orders
            /\ a.orderPool = t.orderPool /\ a.levelPool = t.levelPool
            /\ a.byPrice = t.byPrice /\ a.ordersById = t.ordersById
        BY <1>4, <3>1, <3>2, <3>4, <3>6 DEF BetterSet, WorseSet, SameFrame
      <3>8. Len(u.levels) = c /\ Len(v.levels) = c
        BY <1>4, <3>1, <3>4 DEF BetterSet, WorseSet, SameFrame
      <3>9. ASSUME NEW k \in 1 .. c
            PROVE  /\ a.levels[k].worse = IF k = pos THEN lvl ELSE IF k = lvl THEN worse
                                          ELSE t.levels[k].worse
                   /\ a.levels[k].better = IF k = lvl THEN pos ELSE t.levels[k].better
                   /\ SameLevel(a.levels[k], t.levels[k])
        <4>1. /\ u.levels[k].better = IF k = lvl THEN pos ELSE t.levels[k].better
              /\ u.levels[k].worse = t.levels[k].worse
              /\ SameLevel(u.levels[k], t.levels[k])
          BY <1>4, <3>1 DEF BetterSet
        <4>2. /\ v.levels[k].worse = IF k = lvl THEN worse ELSE u.levels[k].worse
              /\ v.levels[k].better = u.levels[k].better
              /\ SameLevel(v.levels[k], u.levels[k])
          BY <3>4, <3>8 DEF WorseSet
        <4>3. /\ w.levels[k].worse = IF k = pos THEN lvl ELSE v.levels[k].worse
              /\ w.levels[k].better = v.levels[k].better
              /\ SameLevel(w.levels[k], v.levels[k])
          BY <3>6, <3>8 DEF WorseSet
        <4>4. SameLevel(a.levels[k], t.levels[k])
          BY <3>2, <4>1, <4>2, <4>3 DEF SameLevel
        <4> QED
          BY <3>2, <4>1, <4>2, <4>3, <4>4
      <3>10. a.best = [h.best EXCEPT ![side] = h.best[side]]
        BY <3>7, HeapFields
      <3>11. a.levels[lvl].worse = worse
        BY <1>4, <3>9
      <3> QED
        BY <1>4, <3>0, <3>7, <3>9, <3>10, <3>11
    <2> QED
      BY <2>1, <2>2
  <1> HIDE DEF a
  <1>6. /\ b \in Heap /\ b.orders = a.orders /\ b.orderPool = a.orderPool
        /\ b.ordersById = a.ordersById /\ b.levelPool = a.levelPool /\ Len(b.levels) = c
        /\ b.byPrice = a.byPrice /\ b.best = a.best
        /\ \A k \in 1 .. c :
              /\ b.levels[k].better = IF k = worse THEN lvl ELSE a.levels[k].better
              /\ b.levels[k].worse = a.levels[k].worse
              /\ SameLevel(b.levels[k], a.levels[k])
    <2>1. CASE worse # Nil
      <3>1. worse \in 1 .. Len(a.levels)
        BY <1>3, <1>5, <2>1
      <3>2. BetterSet(a, SetBetter(a, worse, lvl), worse, lvl)
        BY <1>3, <1>5, <3>1, BetterSetBy
      <3>3. BetterSet(a, b, worse, lvl)
        BY <2>1, <3>2
      <3> HIDE DEF b
      <3> QED
        BY <1>5, <3>3 DEF BetterSet, SameFrame
    <2>2. CASE worse = Nil
      <3>1. b = a /\ \A k \in 1 .. c : k # worse
        BY <2>2 DEF Nil
      <3>2. \A k \in 1 .. c : SameLevel(a.levels[k], a.levels[k])
        BY DEF SameLevel
      <3> HIDE DEF b
      <3> QED
        BY <1>5, <3>1, <3>2
    <2> QED
      BY <2>1, <2>2
  <1> HIDE DEF b
  <1>7. /\ b.levels[lvl].better = pos /\ b.levels[lvl].worse = worse
        /\ SameLevel(b.levels[lvl], new)
    <2>1. /\ b.levels[lvl].better = a.levels[lvl].better /\ b.levels[lvl].worse = a.levels[lvl].worse
          /\ SameLevel(b.levels[lvl], a.levels[lvl])
      BY <1>4, <1>6
    <2> HIDE DEF new
    <2> QED
      BY <1>4, <1>5, <2>1 DEF SameLevel
  <1>8. ASSUME NEW k \in 1 .. c, k # lvl
        PROVE  /\ b.levels[k].worse = IF k = pos THEN lvl ELSE OldLevel(h, k).worse
               /\ b.levels[k].better = IF k = worse THEN lvl ELSE OldLevel(h, k).better
               /\ SameLevel(b.levels[k], OldLevel(h, k))
    <2>1. /\ a.levels[k].worse = IF k = pos THEN lvl ELSE t.levels[k].worse
          /\ a.levels[k].better = t.levels[k].better
          /\ SameLevel(a.levels[k], t.levels[k])
          /\ t.levels[k] = OldLevel(h, k)
      BY <1>4, <1>5, <1>8
    <2>2. /\ b.levels[k].better = IF k = worse THEN lvl ELSE a.levels[k].better
          /\ b.levels[k].worse = a.levels[k].worse
          /\ SameLevel(b.levels[k], a.levels[k])
      BY <1>6
    <2>3. SameLevel(b.levels[k], OldLevel(h, k))
      BY <2>1, <2>2 DEF SameLevel
    <2> QED
      BY <2>1, <2>2, <2>3
  <1>9. /\ b \in Heap /\ b.orders = h.orders /\ b.orderPool = h.orderPool
        /\ b.ordersById = h.ordersById
        /\ b.levelPool = pool /\ Len(b.levels) = c
        /\ b.best = [h.best EXCEPT ![side] = IF pos = Nil THEN lvl ELSE h.best[side]]
        /\ b.byPrice = [h.byPrice EXCEPT ![side] = [h.byPrice[side] EXCEPT ![price] = lvl]]
    BY <1>4, <1>5, <1>6
  <1>10. LevelLinked(h, b, side, price, lvl, pool, pos, worse)
    BY <1>7, <1>8, <1>9 DEF LevelLinked, c
  <1> QED
    BY <1>1, <1>10 DEF g

-----------------------------------------------------------------------------
Requantify(h, order, lvl, qty, total) ==
    [h EXCEPT !.orders[order].remaining = qty, !.levels[lvl].total_qty = total]

\* What is left of h when an order's quantity and its level's total have been set.
Requantified(h, g, order, lvl, qty, total) ==
    /\ SameFrame(h, g)
    /\ \A n \in 1 .. Len(h.orders) :
          /\ g.orders[n].next = h.orders[n].next /\ g.orders[n].prev = h.orders[n].prev
          /\ g.orders[n].level = h.orders[n].level /\ g.orders[n].id = h.orders[n].id
          /\ g.orders[n].price = h.orders[n].price /\ g.orders[n].side = h.orders[n].side
          /\ g.orders[n].participant = h.orders[n].participant
          /\ g.orders[n].remaining = IF n = order THEN qty ELSE h.orders[n].remaining
          /\ n # order => g.orders[n] = h.orders[n]
    /\ \A l \in 1 .. Len(h.levels) :
          /\ g.levels[l].better = h.levels[l].better /\ g.levels[l].worse = h.levels[l].worse
          /\ g.levels[l].price = h.levels[l].price /\ g.levels[l].front = h.levels[l].front
          /\ g.levels[l].back = h.levels[l].back
          /\ g.levels[l].order_count = h.levels[l].order_count
          /\ g.levels[l].total_qty = IF l = lvl THEN total ELSE h.levels[l].total_qty
          /\ l # lvl => g.levels[l] = h.levels[l]

\* Changing two quantities leaves every link and index alone.
LEMMA RequantifiedBy ==
    ASSUME NEW h \in Heap, NEW order \in 1 .. Len(h.orders), NEW lvl \in 1 .. Len(h.levels),
           NEW qty \in 0 .. (QtyMod - 1), NEW total \in 0 .. (QtyMod - 1)
    PROVE  Requantified(h, Requantify(h, order, lvl, qty, total), order, lvl, qty, total)
  <1> DEFINE g == Requantify(h, order, lvl, qty, total)
             x == [h.orders[order] EXCEPT !.remaining = qty]
             y == [h.levels[lvl] EXCEPT !.total_qty = total]
             a == PutOrder(h, order, x)
             b == PutLevel(a, lvl, y)
  <1>1. /\ \A n \in 1 .. Len(h.orders) : h.orders[n] \in OrderNode
        /\ \A l \in 1 .. Len(h.levels) : h.levels[l] \in LevelNode
    BY HeapFields
  <1>2. /\ x \in OrderNode /\ x.next = h.orders[order].next /\ x.prev = h.orders[order].prev
        /\ x.level = h.orders[order].level /\ x.id = h.orders[order].id
        /\ x.price = h.orders[order].price /\ x.side = h.orders[order].side
        /\ x.participant = h.orders[order].participant /\ x.remaining = qty
    <2>1. h.orders[order] \in OrderNode
      BY <1>1
    <2> QED
      BY <2>1 DEF OrderNode
  <1>3. /\ y \in LevelNode /\ y.better = h.levels[lvl].better /\ y.worse = h.levels[lvl].worse
        /\ y.price = h.levels[lvl].price /\ y.front = h.levels[lvl].front
        /\ y.back = h.levels[lvl].back /\ y.order_count = h.levels[lvl].order_count
        /\ y.total_qty = total
    <2>1. h.levels[lvl] \in LevelNode
      BY <1>1
    <2> QED
      BY <2>1 DEF LevelNode
  <1>4. [h EXCEPT !.orders[order].remaining = qty] = a
    BY HeapRecord DEF PutOrder
  <1> HIDE DEF x
  <1>5. /\ a \in Heap /\ Len(a.orders) = Len(h.orders)
        /\ \A k \in 1 .. Len(h.orders) : a.orders[k] = IF k = order THEN x ELSE h.orders[k]
        /\ a.levels = h.levels
        /\ a.orderPool = h.orderPool /\ a.levelPool = h.levelPool
        /\ a.best = h.best /\ a.byPrice = h.byPrice /\ a.ordersById = h.ordersById
    BY <1>2, OrderPut
  <1> HIDE DEF a
  <1>6. [a EXCEPT !.levels[lvl].total_qty = total] = b
    BY <1>5, HeapRecord DEF PutLevel
  <1>7. g = b
    BY <1>4, <1>6 DEF Requantify
  <1> HIDE DEF y, g
  <1>8. /\ b \in Heap /\ Len(b.levels) = Len(a.levels)
        /\ \A k \in 1 .. Len(a.levels) : b.levels[k] = IF k = lvl THEN y ELSE a.levels[k]
        /\ b.orders = a.orders
        /\ b.orderPool = a.orderPool /\ b.levelPool = a.levelPool
        /\ b.best = a.best /\ b.byPrice = a.byPrice /\ b.ordersById = a.ordersById
    BY <1>3, <1>5, LevelPut
  <1> HIDE DEF b
  <1>9. SameFrame(h, g)
    BY <1>5, <1>7, <1>8 DEF SameFrame
  <1>10. ASSUME NEW n \in 1 .. Len(h.orders)
         PROVE  /\ g.orders[n].next = h.orders[n].next /\ g.orders[n].prev = h.orders[n].prev
                /\ g.orders[n].level = h.orders[n].level /\ g.orders[n].id = h.orders[n].id
                /\ g.orders[n].price = h.orders[n].price /\ g.orders[n].side = h.orders[n].side
                /\ g.orders[n].participant = h.orders[n].participant
                /\ g.orders[n].remaining = IF n = order THEN qty ELSE h.orders[n].remaining
                /\ n # order => g.orders[n] = h.orders[n]
    <2>1. g.orders[n] = IF n = order THEN x ELSE h.orders[n]
      BY <1>5, <1>7, <1>8
    <2> QED
      BY <1>2, <2>1
  <1>11. ASSUME NEW l \in 1 .. Len(h.levels)
         PROVE  /\ g.levels[l].better = h.levels[l].better /\ g.levels[l].worse = h.levels[l].worse
                /\ g.levels[l].price = h.levels[l].price /\ g.levels[l].front = h.levels[l].front
                /\ g.levels[l].back = h.levels[l].back
                /\ g.levels[l].order_count = h.levels[l].order_count
                /\ g.levels[l].total_qty = IF l = lvl THEN total ELSE h.levels[l].total_qty
                /\ l # lvl => g.levels[l] = h.levels[l]
    <2>1. g.levels[l] = IF l = lvl THEN y ELSE h.levels[l]
      BY <1>5, <1>7, <1>8
    <2> QED
      BY <1>3, <2>1
  <1>12. Requantified(h, g, order, lvl, qty, total)
    BY <1>9, <1>10, <1>11 DEF Requantified
  <1> QED
    BY <1>12 DEF g

\* A reduction is such a change.
LEMMA ResizeRequantifies ==
    ASSUME NEW h \in Heap, NEW order \in 1 .. Len(h.orders), NEW qty,
           h.orders[order].level \in 1 .. Len(h.levels)
    PROVE  Resize(h, order, qty) =
              Requantify(h, order, h.orders[order].level, qty,
                         Wrap(h.levels[h.orders[order].level].total_qty
                              - (h.orders[order].remaining - qty)))
  <1> DEFINE lvl == h.orders[order].level
             t == Wrap(h.levels[lvl].total_qty - (h.orders[order].remaining - qty))
  <1>1. Resize(h, order, qty) = [h EXCEPT !.levels[lvl].total_qty =
                                     Wrap(@ - (h.orders[order].remaining - qty)),
                                 !.orders[order].remaining = qty]
    BY DEF Resize
  <1>2. h = [orders |-> h.orders, levels |-> h.levels, orderPool |-> h.orderPool,
             levelPool |-> h.levelPool, best |-> h.best, byPrice |-> h.byPrice,
             ordersById |-> h.ordersById]
    BY HeapRecord
  <1>3. Resize(h, order, qty) = [h EXCEPT !.levels[lvl].total_qty = t, !.orders[order].remaining = qty]
    BY <1>1
  <1> HIDE DEF lvl, t
  <1>4. [h EXCEPT !.levels[lvl].total_qty = t, !.orders[order].remaining = qty] =
        [h EXCEPT !.orders[order].remaining = qty, !.levels[lvl].total_qty = t]
    BY <1>2
  <1>5. Resize(h, order, qty) = Requantify(h, order, lvl, qty, t)
    BY <1>3, <1>4 DEF Requantify
  <1> QED
    BY <1>5 DEF lvl, t

-----------------------------------------------------------------------------
(* The book: ladders of levels, and a queue of orders at each              *)

Worses(h)     == [l \in 1 .. Len(h.levels) |-> h.levels[l].worse]
Betters(h)    == [l \in 1 .. Len(h.levels) |-> h.levels[l].better]
Nexts(h)      == [n \in 1 .. Len(h.orders) |-> h.orders[n].next]
Prevs(h)      == [n \in 1 .. Len(h.orders) |-> h.orders[n].prev]
Quantities(h) == [n \in 1 .. Len(h.orders) |-> h.orders[n].remaining]

\* What putting x behind the first j of s does to places and elements.
WithPlaced(s, j, x) ==
    /\ Len(With(s, j, x)) = Len(s) + 1
    /\ j + 1 \in 1 .. (Len(s) + 1) /\ With(s, j, x)[j + 1] = x
    /\ \A i \in 1 .. Len(s) : /\ Shift(j, i) \in 1 .. (Len(s) + 1)
                              /\ With(s, j, x)[Shift(j, i)] = s[i]
    /\ \A k \in 1 .. (Len(s) + 1) : k = j + 1 \/ \E i \in 1 .. Len(s) : k = Shift(j, i)
    /\ Elems(With(s, j, x)) = Elems(s) \cup {x}

\* The same under one name.
LEMMA PlacesAfterWith ==
    ASSUME NEW S, NEW s \in Seq(S), NEW j \in 0 .. Len(s), NEW x
    PROVE  WithPlaced(s, j, x)
  BY WithPlaces DEF WithPlaced

\* s is the ladder of a side: doubly linked, best price first, indexed by price.
LadderOK(h, side, s) ==
    /\ DList(Len(h.levels), Worses(h), Betters(h), s)
    /\ h.best[side] = FirstOf(s)
    /\ \A i \in 1 .. Len(s) : /\ h.levels[s[i]].price \in Price
                              /\ h.byPrice[side][h.levels[s[i]].price] = s[i]
    /\ \A i, j \in 1 .. Len(s) :
          i < j => Better(side, h.levels[s[i]].price, h.levels[s[j]].price)
    /\ \A p \in Price : h.byPrice[side][p] # Nil =>
          \E i \in 1 .. Len(s) : s[i] = h.byPrice[side][p] /\ h.levels[s[i]].price = p

\* The quantities of the orders of q add up to v.
Adds(h, q, v) == v \in Int /\ IsTotal(Quantities(h), q, v)

\* q is the queue of level l: doubly linked, counted and added up by the level.
FifoOK(h, side, l, q) ==
    /\ DList(Len(h.orders), Nexts(h), Prevs(h), q)
    /\ h.levels[l].front = FirstOf(q) /\ h.levels[l].back = LastOf(q)
    /\ h.levels[l].order_count = Len(q)
    /\ \A i \in 1 .. Len(q) : /\ h.orders[q[i]].level = l /\ h.orders[q[i]].side = side
                              /\ h.orders[q[i]].price = h.levels[l].price
    /\ \E v : Adds(h, q, v) /\ h.levels[l].total_qty = Wrap(v)

\* The levels of s are linked and priced in g as in h.
LadderSame(h, g, side, s) ==
    /\ g \in Heap /\ Len(g.levels) >= Len(h.levels)
    /\ g.best[side] = h.best[side] /\ g.byPrice[side] = h.byPrice[side]
    /\ \A i \in 1 .. Len(s) : /\ g.levels[s[i]].worse = h.levels[s[i]].worse
                              /\ g.levels[s[i]].better = h.levels[s[i]].better
                              /\ g.levels[s[i]].price = h.levels[s[i]].price

\* A ladder whose levels keep their links, prices and indices stays one.
LEMMA LadderKept ==
    ASSUME NEW h \in Heap, NEW side \in Side, NEW s, LadderOK(h, side, s),
           NEW g, LadderSame(h, g, side, s)
    PROVE  LadderOK(g, side, s)
  <1> DEFINE m == Len(h.levels)
             k == Len(g.levels)
  <1>1. m \in Nat /\ k \in Nat /\ k >= m /\ s \in Seq(1 .. m)
    BY HeapFields DEF LadderSame, LadderOK, DList
  <1>2. \A i \in 1 .. Len(s) : s[i] \in 1 .. m /\ s[i] \in 1 .. k
    BY <1>1
  <1>3. DList(m, Worses(h), Betters(h), s)
    BY DEF LadderOK
  <1>4. \A i \in 1 .. Len(s) : /\ Worses(g)[s[i]] = Worses(h)[s[i]]
                               /\ Betters(g)[s[i]] = Betters(h)[s[i]]
    BY <1>2 DEF LadderSame, Worses, Betters
  <1> HIDE DEF m, k
  <1>5. DList(k, Worses(g), Betters(g), s)
    BY <1>1, <1>3, <1>4, ListKept
  <1>6. DList(Len(g.levels), Worses(g), Betters(g), s)
    BY <1>5 DEF k
  <1> QED
    BY <1>6, SMTT(60) DEF LadderOK, LadderSame

\* Level l and the orders of q are in g what they are in h.
FifoSame(h, g, l, q) ==
    /\ g \in Heap /\ Len(g.orders) >= Len(h.orders)
    /\ SameLevel(g.levels[l], h.levels[l])
    /\ \A i \in 1 .. Len(q) :
          /\ g.orders[q[i]].next = h.orders[q[i]].next
          /\ g.orders[q[i]].prev = h.orders[q[i]].prev
          /\ g.orders[q[i]].level = h.orders[q[i]].level
          /\ g.orders[q[i]].side = h.orders[q[i]].side
          /\ g.orders[q[i]].price = h.orders[q[i]].price
          /\ g.orders[q[i]].remaining = h.orders[q[i]].remaining

\* A queue whose orders keep their links and fields stays one.
LEMMA FifoKept ==
    ASSUME NEW h \in Heap, NEW side, NEW l, NEW q, FifoOK(h, side, l, q),
           NEW g, FifoSame(h, g, l, q)
    PROVE  FifoOK(g, side, l, q)
  <1> DEFINE m == Len(h.orders)
             k == Len(g.orders)
  <1>1. m \in Nat /\ k \in Nat /\ k >= m /\ q \in Seq(1 .. m)
    BY HeapFields DEF FifoSame, FifoOK, DList
  <1>2. \A i \in 1 .. Len(q) : q[i] \in 1 .. m /\ q[i] \in 1 .. k
    BY <1>1
  <1>3. DList(m, Nexts(h), Prevs(h), q)
    BY DEF FifoOK
  <1>4. \A i \in 1 .. Len(q) : /\ Nexts(g)[q[i]] = Nexts(h)[q[i]]
                               /\ Prevs(g)[q[i]] = Prevs(h)[q[i]]
                               /\ Quantities(g)[q[i]] = Quantities(h)[q[i]]
    BY <1>2 DEF FifoSame, Nexts, Prevs, Quantities
  <1> HIDE DEF m, k
  <1>5. DList(k, Nexts(g), Prevs(g), q)
    BY <1>1, <1>3, <1>4, ListKept
  <1>6. DList(Len(g.orders), Nexts(g), Prevs(g), q)
    BY <1>5 DEF k
  <1>7. \E v : Adds(g, q, v) /\ g.levels[l].total_qty = Wrap(v)
    <2>1. PICK v : Adds(h, q, v) /\ h.levels[l].total_qty = Wrap(v)
      BY DEF FifoOK
    <2>2. IsTotal(Quantities(g), q, v)
      BY <1>4, <2>1, TotalSame DEF Adds
    <2>3. g.levels[l].total_qty = Wrap(v)
      BY <2>1 DEF FifoSame, SameLevel
    <2> QED
      BY <2>1, <2>2, <2>3 DEF Adds
  <1> QED
    BY <1>6, <1>7 DEF FifoOK, FifoSame, SameLevel

\* Taking a level away leaves the ladder without it.
LEMMA LadderWithout ==
    ASSUME NEW h \in Heap, NEW side \in Side, NEW s, LadderOK(h, side, s), NEW i \in 1 .. Len(s),
           NEW g, LevelRemoved(h, g, side, s[i], h.levels[s[i]])
    PROVE  LadderOK(g, side, RemoveAt(s, i))
  <1> DEFINE m == Len(h.levels)
             x == s[i]
             l == h.levels[x]
             r == RemoveAt(s, i)
             n == Len(s)
  <1>1. /\ m \in Nat /\ s \in Seq(1 .. m) /\ n \in Nat /\ i \in 1 .. n
        /\ \A j \in 1 .. n : s[j] \in 1 .. m
        /\ \A j, k \in 1 .. n : s[j] = s[k] => j = k
    <2>1. s \in Seq(1 .. m) /\ \A j, k \in 1 .. n : s[j] = s[k] => j = k
      BY DEF LadderOK, DList
    <2>2. m \in Nat
      BY HeapFields
    <2> HIDE DEF m
    <2> QED
      BY <2>1, <2>2
  <1>2. /\ r \in Seq(1 .. m) /\ Len(r) = n - 1
        /\ \A j \in 1 .. (n - 1) : /\ Place(i, j) \in 1 .. n /\ Place(i, j) # i
                                   /\ r[j] = s[Place(i, j)]
        /\ \A j, k \in 1 .. (n - 1) : j < k => Place(i, j) < Place(i, k)
        /\ \A k \in 1 .. n : k # i => \E j \in 1 .. (n - 1) : Place(i, j) = k
    <2> DEFINE S == 1 .. m
    <2>1. s \in Seq(S) /\ i \in 1 .. Len(s)
      BY <1>1
    <2> HIDE DEF S
    <2>2. /\ RemoveAt(s, i) \in Seq(S) /\ Len(RemoveAt(s, i)) = Len(s) - 1
          /\ \A j \in 1 .. Len(RemoveAt(s, i)) :
                /\ Place(i, j) \in 1 .. Len(s) /\ Place(i, j) # i
                /\ RemoveAt(s, i)[j] = s[Place(i, j)]
          /\ \A j, k \in 1 .. Len(RemoveAt(s, i)) : j < k => Place(i, j) < Place(i, k)
          /\ \A k \in 1 .. Len(s) : k # i =>
                \E j \in 1 .. Len(RemoveAt(s, i)) : Place(i, j) = k
      BY <2>1, RemoveAtPlaces, SMTT(60)
    <2> QED
      BY <2>2 DEF S
  <1>3. /\ g \in Heap /\ Len(g.levels) = m
        /\ \A k \in 1 .. m : k # x =>
              /\ g.levels[k].worse = IF k = l.better THEN l.worse ELSE h.levels[k].worse
              /\ g.levels[k].better = IF k = l.worse THEN l.better ELSE h.levels[k].better
              /\ g.levels[k].price = h.levels[k].price
        /\ g.best = [h.best EXCEPT ![side] = IF l.better = Nil THEN l.worse ELSE h.best[side]]
        /\ g.byPrice = [h.byPrice EXCEPT ![side] = [h.byPrice[side] EXCEPT ![l.price] = Nil]]
    BY DEF LevelRemoved, SameLevel
  <1>4. /\ DList(m, Worses(h), Betters(h), s)
        /\ h.best[side] = FirstOf(s)
        /\ \A j \in 1 .. n : /\ h.levels[s[j]].price \in Price
                             /\ h.byPrice[side][h.levels[s[j]].price] = s[j]
        /\ \A j, k \in 1 .. n :
              j < k => Better(side, h.levels[s[j]].price, h.levels[s[k]].price)
        /\ \A p \in Price : h.byPrice[side][p] # Nil =>
              \E j \in 1 .. n : s[j] = h.byPrice[side][p] /\ h.levels[s[j]].price = p
    BY DEF LadderOK
  <1>5. x \in 1 .. m /\ Worses(h)[x] = l.worse /\ Betters(h)[x] = l.better
    BY <1>1 DEF Worses, Betters
  <1>6. Bypassed(m, Worses(h), Betters(h), x, Worses(g), Betters(g))
    <2>1. ASSUME NEW y \in 1 .. m, y # x
          PROVE  /\ Worses(g)[y] = IF y = l.better THEN l.worse ELSE Worses(h)[y]
                 /\ Betters(g)[y] = IF y = l.worse THEN l.better ELSE Betters(h)[y]
      <3> HIDE DEF l, x
      <3> QED
        BY <1>3, <2>1 DEF Worses, Betters
    <2> HIDE DEF l, x
    <2> QED
      BY <1>5, <2>1 DEF Bypassed
  <1>7. /\ DList(m, Worses(g), Betters(g), r)
        /\ FirstOf(r) = IF l.better = 0 THEN l.worse ELSE FirstOf(s)
    <2>1. /\ DList(m, Worses(g), Betters(g), RemoveAt(s, i))
          /\ FirstOf(RemoveAt(s, i)) = IF Betters(h)[s[i]] = 0 THEN Worses(h)[s[i]] ELSE FirstOf(s)
      <3> HIDE DEF m
      <3> QED
        BY <1>1, <1>4, <1>6, ListWithout DEF x
    <2> QED
      BY <1>5, <2>1
  <1> HIDE DEF m, l, r, n, x
  <1>8. g.best[side] = FirstOf(r)
    <2>1. h.best \in [Side -> Nat]
      BY HeapFields
    <2> QED
      BY <1>3, <1>4, <1>7, <2>1 DEF Nil
  <1>9. /\ \A p \in Price : g.byPrice[side][p] = IF p = l.price THEN Nil ELSE h.byPrice[side][p]
    <2>1. h.byPrice \in [Side -> [Price -> Nat]]
      BY HeapFields
    <2>2. h.byPrice[side] \in [Price -> Nat]
      BY <2>1
    <2>3. g.byPrice[side] = [h.byPrice[side] EXCEPT ![l.price] = Nil]
      BY <1>3, <2>1
    <2> QED
      BY <2>2, <2>3
  <1>10. ASSUME NEW k \in 1 .. n, k # i
         PROVE  /\ s[k] \in 1 .. m /\ s[k] # x
                /\ g.levels[s[k]].price = h.levels[s[k]].price
                /\ h.levels[s[k]].price # l.price
    <2>1. s[k] # x
      BY <1>1, <1>10 DEF x
    <2>2. h.byPrice[side][h.levels[s[k]].price] = s[k] /\ h.byPrice[side][l.price] = x
      BY <1>1, <1>4 DEF l, x
    <2> QED
      BY <1>1, <1>3, <2>1, <2>2
  <1>11. \A j \in 1 .. (n - 1) : /\ g.levels[r[j]].price \in Price
                                 /\ g.byPrice[side][g.levels[r[j]].price] = r[j]
    <2> SUFFICES ASSUME NEW j \in 1 .. (n - 1)
                 PROVE  /\ g.levels[r[j]].price \in Price
                        /\ g.byPrice[side][g.levels[r[j]].price] = r[j]
      OBVIOUS
    <2> DEFINE k == Place(i, j)
    <2>1. k \in 1 .. n /\ k # i /\ r[j] = s[k]
      BY <1>2
    <2> HIDE DEF k
    <2>2. /\ g.levels[r[j]].price = h.levels[s[k]].price
          /\ h.levels[s[k]].price # l.price
      BY <1>10, <2>1
    <2>3. h.levels[s[k]].price \in Price /\ h.byPrice[side][h.levels[s[k]].price] = s[k]
      BY <1>4, <2>1
    <2> QED
      BY <1>9, <2>1, <2>2, <2>3
  <1>12. \A j, k \in 1 .. (n - 1) :
            j < k => Better(side, g.levels[r[j]].price, g.levels[r[k]].price)
    <2> SUFFICES ASSUME NEW j \in 1 .. (n - 1), NEW k \in 1 .. (n - 1), j < k
                 PROVE  Better(side, g.levels[r[j]].price, g.levels[r[k]].price)
      OBVIOUS
    <2>1. /\ Place(i, j) \in 1 .. n /\ Place(i, j) # i /\ r[j] = s[Place(i, j)]
          /\ Place(i, k) \in 1 .. n /\ Place(i, k) # i /\ r[k] = s[Place(i, k)]
          /\ Place(i, j) < Place(i, k)
      BY <1>2
    <2>2. /\ g.levels[r[j]].price = h.levels[s[Place(i, j)]].price
          /\ g.levels[r[k]].price = h.levels[s[Place(i, k)]].price
      BY <1>10, <2>1
    <2> QED
      BY <1>4, <2>1, <2>2
  <1>13. ASSUME NEW p \in Price, g.byPrice[side][p] # Nil
         PROVE  \E j \in 1 .. (n - 1) : r[j] = g.byPrice[side][p] /\ g.levels[r[j]].price = p
    <2>1. p # l.price /\ h.byPrice[side][p] = g.byPrice[side][p]
      BY <1>9, <1>13
    <2>2. PICK k \in 1 .. n : s[k] = h.byPrice[side][p] /\ h.levels[s[k]].price = p
      BY <1>4, <1>13, <2>1
    <2>3. k # i
      BY <2>1, <2>2 DEF l, x
    <2>4. PICK j \in 1 .. (n - 1) : Place(i, j) = k
      BY <1>2, <2>3
    <2>5. r[j] = s[k] /\ g.levels[s[k]].price = h.levels[s[k]].price
      BY <1>2, <1>10, <2>3, <2>4
    <2> QED
      BY <2>1, <2>2, <2>5
  <1>14. DList(Len(g.levels), Worses(g), Betters(g), r)
    BY <1>3, <1>7
  <1>15. LadderOK(g, side, r)
    BY <1>2, <1>8, <1>11, <1>12, <1>13, <1>14 DEF LadderOK
  <1> QED
    BY <1>15 DEF r

\* The remainder of a number by its range.
LEMMA RemainderIs ==
    ASSUME NEW m \in Nat \ {0}, NEW k \in Int, NEW r \in 0 .. (m - 1)
    PROVE  (k * m + r) % m = r
  OBVIOUS

\* Adding to a wrapped total is adding to the total.
LEMMA WrapSum ==
    ASSUME NEW a \in Int, NEW b \in Int
    PROVE  Wrap(Wrap(a) + b) = Wrap(a + b) /\ Wrap(a) \in 0 .. (QtyMod - 1)
  <1> DEFINE m == QtyMod
             k == a \div m
             c == Wrap(a) + b
             n == c \div m
             r == c % m
  <1>1. m \in Nat \ {0}
    BY QtyAssumption
  <1>2. k \in Int /\ Wrap(a) \in 0 .. (m - 1) /\ a = k * m + Wrap(a)
    BY <1>1 DEF Wrap
  <1>3. c \in Int /\ a + b = k * m + c
    BY <1>1, <1>2
  <1> HIDE DEF k, c
  <1>4. n \in Int /\ r \in 0 .. (m - 1) /\ c = n * m + r
    BY <1>1, <1>3
  <1> HIDE DEF n, r
  <1>5. a + b = (k + n) * m + r
    BY <1>1, <1>2, <1>3, <1>4
  <1>6. ((k + n) * m + r) % m = r
    <2>1. k + n \in Int
      BY <1>2, <1>4
    <2> HIDE DEF m
    <2> QED
      BY <1>1, <1>4, <2>1, RemainderIs
  <1>7. Wrap(a + b) = r
    BY <1>5, <1>6 DEF Wrap
  <1> QED
    BY <1>2, <1>7 DEF Wrap, c, r

\* Taking an order out leaves the queue of its level without it.
LEMMA FifoWithout ==
    ASSUME NEW h \in Heap, NEW side, NEW l \in 1 .. Len(h.levels), NEW q, FifoOK(h, side, l, q),
           NEW i \in 1 .. Len(q), NEW g, Unlinked(h, g, h.orders[q[i]])
    PROVE  FifoOK(g, side, l, RemoveAt(q, i))
  <1> DEFINE m == Len(h.orders)
             x == q[i]
             o == h.orders[x]
             r == RemoveAt(q, i)
             n == Len(q)
             w == Quantities(h)
  <1>1. m \in Nat /\ q \in Seq(1 .. m) /\ n \in Nat /\ i \in 1 .. n /\ \A j \in 1 .. n : q[j] \in 1 .. m
    <2>1. q \in Seq(1 .. m)
      BY DEF FifoOK, DList
    <2>2. m \in Nat
      BY HeapFields
    <2> HIDE DEF m
    <2> QED
      BY <2>1, <2>2
  <1>2. /\ r \in Seq(1 .. m) /\ Len(r) = n - 1
        /\ \A j \in 1 .. (n - 1) : Place(i, j) \in 1 .. n /\ r[j] = q[Place(i, j)]
    <2> DEFINE S == 1 .. m
    <2>1. q \in Seq(S) /\ i \in 1 .. Len(q)
      BY <1>1
    <2> HIDE DEF S
    <2>2. /\ RemoveAt(q, i) \in Seq(S) /\ Len(RemoveAt(q, i)) = Len(q) - 1
          /\ \A j \in 1 .. Len(RemoveAt(q, i)) :
                /\ Place(i, j) \in 1 .. Len(q) /\ Place(i, j) # i
                /\ RemoveAt(q, i)[j] = q[Place(i, j)]
      BY <2>1, RemoveAtPlaces, SMTT(60)
    <2> QED
      BY <2>2 DEF S
  <1>3. /\ DList(m, Nexts(h), Prevs(h), q)
        /\ h.levels[l].front = FirstOf(q) /\ h.levels[l].back = LastOf(q)
        /\ h.levels[l].order_count = n
        /\ \A j \in 1 .. n : /\ h.orders[q[j]].level = l /\ h.orders[q[j]].side = side
                             /\ h.orders[q[j]].price = h.levels[l].price
        /\ \E v : Adds(h, q, v) /\ h.levels[l].total_qty = Wrap(v)
    BY DEF FifoOK
  <1>4. o.level = l /\ x \in 1 .. m
    BY <1>1, <1>3
  <1>5. /\ g \in Heap /\ Len(g.orders) = m
        /\ \A y \in 1 .. m :
              /\ g.orders[y].next = IF y = o.prev THEN o.next ELSE h.orders[y].next
              /\ g.orders[y].prev = IF y = o.next THEN o.prev ELSE h.orders[y].prev
              /\ g.orders[y].level = h.orders[y].level
              /\ g.orders[y].price = h.orders[y].price /\ g.orders[y].side = h.orders[y].side
              /\ g.orders[y].remaining = h.orders[y].remaining
        /\ g.levels[l].price = h.levels[l].price
        /\ g.levels[l].front = IF o.prev = Nil THEN o.next ELSE h.levels[l].front
        /\ g.levels[l].back = IF o.next = Nil THEN o.prev ELSE h.levels[l].back
        /\ g.levels[l].total_qty = Wrap(h.levels[l].total_qty - o.remaining)
        /\ g.levels[l].order_count = h.levels[l].order_count - 1
    BY <1>4 DEF Unlinked, SameFrame, SameOrder
  <1>6. /\ x \in 1 .. m /\ Nexts(h)[x] = o.next /\ Prevs(h)[x] = o.prev
        /\ w[x] = o.remaining /\ Quantities(g) = w
    BY <1>4, <1>5 DEF Nexts, Prevs, Quantities
  <1>7. Bypassed(m, Nexts(h), Prevs(h), x, Nexts(g), Prevs(g))
    <2>1. ASSUME NEW y \in 1 .. m, y # x
          PROVE  /\ Nexts(g)[y] = IF y = o.prev THEN o.next ELSE Nexts(h)[y]
                 /\ Prevs(g)[y] = IF y = o.next THEN o.prev ELSE Prevs(h)[y]
      <3> HIDE DEF o, x
      <3> QED
        BY <1>5, <2>1 DEF Nexts, Prevs
    <2> HIDE DEF o, x
    <2> QED
      BY <1>6, <2>1 DEF Bypassed
  <1>8. /\ DList(m, Nexts(g), Prevs(g), r)
        /\ FirstOf(r) = IF o.prev = 0 THEN o.next ELSE FirstOf(q)
        /\ LastOf(r) = IF o.next = 0 THEN o.prev ELSE LastOf(q)
    <2>1. /\ DList(m, Nexts(g), Prevs(g), RemoveAt(q, i))
          /\ FirstOf(RemoveAt(q, i)) = IF Prevs(h)[q[i]] = 0 THEN Nexts(h)[q[i]] ELSE FirstOf(q)
          /\ LastOf(RemoveAt(q, i)) = IF Nexts(h)[q[i]] = 0 THEN Prevs(h)[q[i]] ELSE LastOf(q)
      <3> HIDE DEF m
      <3> QED
        BY <1>1, <1>3, <1>7, ListWithout DEF x
    <2> QED
      BY <1>6, <2>1
  <1>9. Integral(w, q)
    <2>1. \A y \in 1 .. m : w[y] \in Int
      <3>1. \A y \in 1 .. m : h.orders[y] \in OrderNode
        BY HeapFields
      <3>2. \A y \in 1 .. m : h.orders[y].remaining \in 0 .. (QtyMod - 1)
        BY <3>1 DEF OrderNode
      <3>3. \A y \in 0 .. (QtyMod - 1) : y \in Int
        BY QtyAssumption
      <3> QED
        BY <3>2, <3>3 DEF Quantities
    <2> QED
      BY <1>1, <2>1 DEF Integral
  <1>10. Integral(w, r)
    BY <1>2, <1>9 DEF Integral
  <1>11. PICK v : v \in Int /\ IsTotal(w, q, v) /\ h.levels[l].total_qty = Wrap(v)
    BY <1>3 DEF Adds
  <1> HIDE DEF w, m, n, o, x
  <1>12. PICK v2 \in Int : IsTotal(w, r, v2)
    <2> HIDE DEF r
    <2> QED
      BY <1>1, <1>2, <1>10, TotalExists
  <1>13. v = v2 + w[x]
    <2>1. i \in 1 .. Len(q)
      OBVIOUS
    <2>2. IsTotal(w, RemoveAt(q, i), v2)
      BY <1>12
    <2> QED
      BY <1>1, <1>9, <1>11, <2>1, <2>2, TotalWithout DEF x
  <1>14. g.levels[l].total_qty = Wrap(v2)
    <2>1. w[x] \in Int
      BY <1>1, <1>9 DEF Integral, n, x
    <2> DEFINE d == w[x]
    <2>2. g.levels[l].total_qty = Wrap(Wrap(v) + (-d))
      <3>1. Wrap(v) \in Int
        BY <1>11, WrapSum, QtyAssumption
      <3>2. d \in Int /\ g.levels[l].total_qty = Wrap(Wrap(v) - d)
        BY <1>5, <1>6, <1>11, <2>1
      <3> HIDE DEF d
      <3>3. Wrap(v) - d = Wrap(v) + (-d)
        BY <3>1, <3>2
      <3> QED
        BY <3>2, <3>3
    <2>3. d \in Int /\ v \in Int /\ v = v2 + d
      BY <1>11, <1>13, <2>1
    <2> HIDE DEF d
    <2>4. Wrap(Wrap(v) + (-d)) = Wrap(v + (-d))
      BY <2>3, WrapSum
    <2>5. v + (-d) = v2
      BY <1>12, <2>3
    <2> QED
      BY <2>2, <2>4, <2>5
  <1>15. Adds(g, r, v2)
    BY <1>6, <1>12 DEF Adds
  <1>16. \A j \in 1 .. (n - 1) : /\ g.orders[r[j]].level = l /\ g.orders[r[j]].side = side
                                 /\ g.orders[r[j]].price = g.levels[l].price
    <2> SUFFICES ASSUME NEW j \in 1 .. (n - 1)
                 PROVE  /\ g.orders[r[j]].level = l /\ g.orders[r[j]].side = side
                        /\ g.orders[r[j]].price = g.levels[l].price
      OBVIOUS
    <2> DEFINE y == q[Place(i, j)]
    <2>1. Place(i, j) \in 1 .. n /\ r[j] = y
      BY <1>2
    <2>2. /\ h.orders[y].level = l /\ h.orders[y].side = side
          /\ h.orders[y].price = h.levels[l].price /\ y \in 1 .. m
      BY <1>1, <1>3, <2>1
    <2> HIDE DEF y
    <2> QED
      BY <1>5, <2>1, <2>2
  <1>17. DList(Len(g.orders), Nexts(g), Prevs(g), r)
    BY <1>5, <1>8
  <1>18. g.levels[l].front = FirstOf(r) /\ g.levels[l].back = LastOf(r)
    BY <1>3, <1>5, <1>8 DEF Nil
  <1>19. FifoOK(g, side, l, r)
    BY <1>2, <1>3, <1>5, <1>14, <1>15, <1>16, <1>17, <1>18 DEF FifoOK
  <1> QED
    BY <1>19 DEF r

\* The quantities of the order nodes as a function.
LEMMA QuantitiesTyped ==
    ASSUME NEW h \in Heap
    PROVE  \A n \in 1 .. Len(h.orders) : /\ Quantities(h)[n] = h.orders[n].remaining
                                         /\ Quantities(h)[n] \in 0 .. (QtyMod - 1)
                                         /\ Quantities(h)[n] \in Int
  <1>1. \A y \in 1 .. Len(h.orders) : h.orders[y] \in OrderNode
    BY HeapFields
  <1>2. \A y \in 1 .. Len(h.orders) : h.orders[y].remaining \in 0 .. (QtyMod - 1)
    BY <1>1 DEF OrderNode
  <1>3. \A y \in 0 .. (QtyMod - 1) : y \in Int
    BY QtyAssumption
  <1> QED
    BY <1>2, <1>3 DEF Quantities

\* Queueing an order at the back.
LEMMA FifoWith ==
    ASSUME NEW h \in Heap, NEW side, NEW l \in 1 .. Len(h.levels), NEW q, FifoOK(h, side, l, q),
           NEW x \in 1 .. Len(h.orders), \A i \in 1 .. Len(q) : q[i] # x,
           h.orders[x].side = side, h.orders[x].price = h.levels[l].price,
           NEW g, Pushed(h, g, l, x, h.levels[l].back)
    PROVE  FifoOK(g, side, l, With(q, Len(q), x))
  <1> DEFINE m == Len(h.orders)
             n == Len(q)
             r == With(q, n, x)
             w == Quantities(h)
             back == h.levels[l].back
  <1>1. /\ m \in Nat /\ q \in Seq(1 .. m) /\ n \in Nat /\ \A j \in 1 .. n : q[j] \in 1 .. m
        /\ \A j, k \in 1 .. n : q[j] = q[k] => j = k
        /\ x \in 1 .. m /\ \A j \in 1 .. n : q[j] # x
    <2>1. q \in Seq(1 .. m) /\ \A j, k \in 1 .. n : q[j] = q[k] => j = k
      BY DEF FifoOK, DList
    <2>2. m \in Nat
      BY HeapFields
    <2> HIDE DEF m
    <2> QED
      BY <2>1, <2>2 DEF m
  <1>2. /\ DList(m, Nexts(h), Prevs(h), q)
        /\ h.levels[l].front = FirstOf(q) /\ back = LastOf(q)
        /\ h.levels[l].order_count = n
        /\ \A j \in 1 .. n : /\ h.orders[q[j]].level = l /\ h.orders[q[j]].side = side
                             /\ h.orders[q[j]].price = h.levels[l].price
        /\ \E v : Adds(h, q, v) /\ h.levels[l].total_qty = Wrap(v)
    BY DEF FifoOK
  <1>3. /\ g \in Heap /\ Len(g.orders) = m
        /\ g.orders[x].prev = back /\ g.orders[x].next = Nil /\ g.orders[x].level = l
        /\ \A y \in 1 .. m :
              /\ g.orders[y].price = h.orders[y].price /\ g.orders[y].side = h.orders[y].side
              /\ g.orders[y].remaining = h.orders[y].remaining
              /\ y # x =>
                    /\ g.orders[y].next = IF y = back THEN x ELSE h.orders[y].next
                    /\ g.orders[y].prev = h.orders[y].prev
                    /\ g.orders[y].level = h.orders[y].level
        /\ g.levels[l].price = h.levels[l].price
        /\ g.levels[l].front = IF back = Nil THEN x ELSE h.levels[l].front
        /\ g.levels[l].back = x
        /\ g.levels[l].total_qty = Wrap(h.levels[l].total_qty + h.orders[x].remaining)
        /\ g.levels[l].order_count = h.levels[l].order_count + 1
    BY DEF Pushed, SameFrame, SameOrder
  <1>4. Quantities(g) = w
    BY <1>3 DEF Quantities
  <1>5. /\ back = (IF n = 0 THEN 0 ELSE q[n])
        /\ FirstOf(q) = (IF n = 0 THEN 0 ELSE q[1])
    <2>1. q = <<>> <=> n = 0
      BY <1>1
    <2> QED
      BY <1>2, <2>1 DEF LastOf, FirstOf
  <1> HIDE DEF m, n, back
  <1>6. Spliced(Nexts(h), Prevs(h), q, n, x, Nexts(g), Prevs(g))
    <2>1. Nexts(g)[x] = 0 /\ Prevs(g)[x] = IF n = 0 THEN 0 ELSE q[n]
      BY <1>1, <1>3, <1>5 DEF Nexts, Prevs, Nil
    <2>2. ASSUME NEW i \in 1 .. n
          PROVE  /\ Nexts(g)[q[i]] = IF i = n THEN x ELSE Nexts(h)[q[i]]
                 /\ Prevs(g)[q[i]] = IF i = n + 1 THEN x ELSE Prevs(h)[q[i]]
      <3>1. q[i] \in 1 .. m /\ q[i] # x /\ n \in 1 .. n /\ n # 0 /\ i # n + 1
        BY <1>1
      <3>2. q[i] = back <=> i = n
        BY <1>1, <1>5, <3>1
      <3>3. /\ g.orders[q[i]].next = IF i = n THEN x ELSE h.orders[q[i]].next
            /\ g.orders[q[i]].prev = h.orders[q[i]].prev
        BY <1>3, <3>1, <3>2
      <3>4. /\ Nexts(g)[q[i]] = g.orders[q[i]].next /\ Prevs(g)[q[i]] = g.orders[q[i]].prev
            /\ Nexts(h)[q[i]] = h.orders[q[i]].next /\ Prevs(h)[q[i]] = h.orders[q[i]].prev
        BY <1>3, <3>1 DEF Nexts, Prevs, m
      <3> QED
        BY <3>1, <3>3, <3>4
    <2> QED
      BY <2>1, <2>2 DEF Spliced, n
  <1>7. /\ DList(m, Nexts(g), Prevs(g), r)
        /\ FirstOf(r) = IF n = 0 THEN x ELSE FirstOf(q)
        /\ LastOf(r) = x
    <2>1. n \in 0 .. Len(q) /\ n = Len(q) /\ m >= m
      BY <1>1 DEF n
    <2>2. /\ DList(m, Nexts(g), Prevs(g), With(q, n, x))
          /\ FirstOf(With(q, n, x)) = IF n = 0 THEN x ELSE FirstOf(q)
          /\ LastOf(With(q, n, x)) = IF n = Len(q) THEN x ELSE LastOf(q)
      BY <1>1, <1>2, <1>6, <2>1, ListWith DEF n
    <2> QED
      BY <2>1, <2>2
  <1>8. /\ Len(r) = n + 1 /\ r[n + 1] = x
        /\ \A i \in 1 .. n : r[Shift(n, i)] = q[i]
        /\ \A k \in 1 .. (n + 1) : k = n + 1 \/ \E i \in 1 .. n : k = Shift(n, i)
    <2> DEFINE S == 1 .. m
    <2>1. q \in Seq(S) /\ n \in 0 .. Len(q) /\ n = Len(q)
      BY <1>1 DEF n
    <2> HIDE DEF S
    <2>2. /\ Len(With(q, n, x)) = Len(q) + 1
          /\ With(q, n, x)[n + 1] = x
          /\ \A i \in 1 .. Len(q) : With(q, n, x)[Shift(n, i)] = q[i]
          /\ \A k \in 1 .. (Len(q) + 1) : k = n + 1 \/ \E i \in 1 .. Len(q) : k = Shift(n, i)
      BY <2>1, WithPlaces
    <2> QED
      BY <2>1, <2>2
  <1>9. /\ w[x] = h.orders[x].remaining /\ w[x] \in Int /\ Integral(w, q)
    BY <1>1, QuantitiesTyped DEF m, n, Integral
  <1>10. PICK v : v \in Int /\ IsTotal(w, q, v) /\ h.levels[l].total_qty = Wrap(v)
    BY <1>2 DEF Adds
  <1> HIDE DEF w, r
  <1>11. Integral(w, r) /\ r \in Seq(1 .. m)
    <2>1. r \in Seq(1 .. m)
      BY <1>7 DEF DList
    <2>2. ASSUME NEW k \in 1 .. (n + 1) PROVE w[r[k]] \in Int
      <3>1. CASE k = n + 1
        BY <1>8, <1>9, <3>1
      <3>2. ASSUME NEW i \in 1 .. n, k = Shift(n, i) PROVE w[r[k]] \in Int
        <4>1. r[k] = q[i]
          BY <1>8, <3>2
        <4> QED
          BY <1>9, <4>1 DEF Integral, n
      <3> QED
        BY <1>8, <3>1, <3>2
    <2> QED
      BY <1>8, <2>1, <2>2 DEF Integral
  <1>12. PICK v2 \in Int : IsTotal(w, r, v2)
    BY <1>1, <1>11, TotalExists
  <1>13. v2 = v + w[x]
    <2>1. n \in 0 .. Len(q)
      BY <1>1 DEF n
    <2>2. IsTotal(w, With(q, n, x), v2)
      BY <1>12 DEF r
    <2> QED
      BY <1>1, <1>9, <1>10, <1>12, <2>1, <2>2, TotalWith
  <1>14. g.levels[l].total_qty = Wrap(v2)
    <2>1. g.levels[l].total_qty = Wrap(Wrap(v) + w[x])
      BY <1>3, <1>9, <1>10
    <2>2. Wrap(Wrap(v) + w[x]) = Wrap(v + w[x])
      BY <1>9, <1>10, WrapSum
    <2> QED
      BY <1>13, <2>1, <2>2
  <1>15. Adds(g, r, v2)
    BY <1>4, <1>12 DEF Adds
  <1>16. ASSUME NEW k \in 1 .. (n + 1)
         PROVE  /\ g.orders[r[k]].level = l /\ g.orders[r[k]].side = side
                /\ g.orders[r[k]].price = g.levels[l].price
    <2>1. CASE k = n + 1
      BY <1>1, <1>3, <1>8, <2>1
    <2>2. ASSUME NEW i \in 1 .. n, k = Shift(n, i)
          PROVE  /\ g.orders[r[k]].level = l /\ g.orders[r[k]].side = side
                 /\ g.orders[r[k]].price = g.levels[l].price
      <3>1. r[k] = q[i] /\ q[i] \in 1 .. m /\ q[i] # x
        BY <1>1, <1>8, <2>2
      <3>2. /\ h.orders[q[i]].level = l /\ h.orders[q[i]].side = side
            /\ h.orders[q[i]].price = h.levels[l].price
        BY <1>2
      <3> QED
        BY <1>3, <3>1, <3>2, SMTT(60)
    <2> QED
      BY <1>8, <2>1, <2>2
  <1>17. DList(Len(g.orders), Nexts(g), Prevs(g), r)
    BY <1>3, <1>7
  <1>18. g.levels[l].front = FirstOf(r) /\ g.levels[l].back = LastOf(r)
    <2>1. back = Nil <=> n = 0
      <3>1. n # 0 => q[n] # 0
        BY <1>1
      <3> QED
        BY <1>5, <3>1 DEF Nil
    <2> QED
      BY <1>2, <1>3, <1>7, <2>1
  <1>19. g.levels[l].order_count = Len(r)
    BY <1>2, <1>3, <1>8
  <1>20. FifoOK(g, side, l, r)
    BY <1>8, <1>14, <1>15, <1>16, <1>17, <1>18, <1>19 DEF FifoOK
  <1> QED
    BY <1>20 DEF r, n

\* Changing the quantity of a queued order, and its level's total by as much.
LEMMA FifoRequantified ==
    ASSUME NEW h \in Heap, NEW side, NEW l \in 1 .. Len(h.levels), NEW q, FifoOK(h, side, l, q),
           NEW i \in 1 .. Len(q), NEW qty \in 0 .. (QtyMod - 1), NEW total, NEW d \in Int,
           qty = h.orders[q[i]].remaining + d, total = Wrap(h.levels[l].total_qty + d),
           NEW g, Requantified(h, g, q[i], l, qty, total)
    PROVE  FifoOK(g, side, l, q)
  <1> DEFINE m == Len(h.orders)
             n == Len(q)
             x == q[i]
             w == Quantities(h)
             w2 == Quantities(g)
  <1>1. /\ m \in Nat /\ q \in Seq(1 .. m) /\ n \in Nat /\ \A j \in 1 .. n : q[j] \in 1 .. m
        /\ \A j, k \in 1 .. n : q[j] = q[k] => j = k
        /\ x \in 1 .. m
    <2>1. q \in Seq(1 .. m) /\ \A j, k \in 1 .. n : q[j] = q[k] => j = k
      BY DEF FifoOK, DList
    <2>2. m \in Nat
      BY HeapFields
    <2> DEFINE S == 1 .. m
    <2>3. q \in Seq(S)
      BY <2>1
    <2> HIDE DEF S, m
    <2>4. \A j \in 1 .. n : q[j] \in S
      BY <2>3
    <2>5. i \in 1 .. n /\ n \in Nat
      BY <2>3
    <2> QED
      BY <2>1, <2>2, <2>3, <2>4, <2>5 DEF S
  <1>2. /\ DList(m, Nexts(h), Prevs(h), q)
        /\ h.levels[l].front = FirstOf(q) /\ h.levels[l].back = LastOf(q)
        /\ h.levels[l].order_count = n
        /\ \A j \in 1 .. n : /\ h.orders[q[j]].level = l /\ h.orders[q[j]].side = side
                             /\ h.orders[q[j]].price = h.levels[l].price
        /\ \E v : Adds(h, q, v) /\ h.levels[l].total_qty = Wrap(v)
    BY DEF FifoOK
  <1> HIDE DEF x
  <1>3. /\ g \in Heap /\ Len(g.orders) = m
        /\ \A y \in 1 .. m :
              /\ g.orders[y].next = h.orders[y].next /\ g.orders[y].prev = h.orders[y].prev
              /\ g.orders[y].level = h.orders[y].level
              /\ g.orders[y].price = h.orders[y].price /\ g.orders[y].side = h.orders[y].side
              /\ g.orders[y].remaining = IF y = x THEN qty ELSE h.orders[y].remaining
        /\ g.levels[l].price = h.levels[l].price /\ g.levels[l].front = h.levels[l].front
        /\ g.levels[l].back = h.levels[l].back
        /\ g.levels[l].order_count = h.levels[l].order_count
        /\ g.levels[l].total_qty = total
    BY DEF Requantified, SameFrame, x
  <1>4. Nexts(g) = Nexts(h) /\ Prevs(g) = Prevs(h)
    BY <1>3 DEF Nexts, Prevs
  <1>5. /\ \A y \in 1 .. m : w[y] \in Int /\ w2[y] \in Int
        /\ \A y \in 1 .. m : y # x => w2[y] = w[y]
        /\ w2[x] = w[x] + d
    <2>1. \A y \in 1 .. m : w[y] = h.orders[y].remaining /\ w[y] \in Int
      BY QuantitiesTyped
    <2>2. \A y \in 1 .. m : w2[y] = g.orders[y].remaining /\ w2[y] \in Int
      BY <1>3, QuantitiesTyped
    <2>3. w2[x] = qty /\ qty = w[x] + d
      BY <1>1, <1>3, <2>1, <2>2 DEF x
    <2> HIDE DEF m, w, w2
    <2> QED
      BY <1>3, <2>1, <2>2, <2>3
  <1> HIDE DEF m, n, w, w2
  <1>6. Integral(w, q) /\ Integral(w2, q)
    BY <1>1, <1>5 DEF Integral, n
  <1>7. PICK v : v \in Int /\ IsTotal(w, q, v) /\ h.levels[l].total_qty = Wrap(v)
    BY <1>2 DEF Adds, w
  <1>8. PICK v2 \in Int : IsTotal(w2, q, v2)
    BY <1>1, <1>6, TotalExists
  <1>9. v2 = v + d
    <2>1. ChangedAt(w, w2, q, i)
      BY <1>1, <1>5 DEF n, x, ChangedAt
    <2>2. v2 = v + (w2[q[i]] - w[q[i]])
      BY <1>1, <1>6, <1>7, <1>8, <2>1, TotalChanged
    <2>3. w[x] \in Int
      BY <1>1, <1>5
    <2> QED
      BY <1>5, <1>7, <2>2, <2>3 DEF x
  <1>10. g.levels[l].total_qty = Wrap(v2)
    <2>1. Wrap(Wrap(v) + d) = Wrap(v + d)
      BY <1>7, WrapSum
    <2> QED
      BY <1>3, <1>7, <1>9, <2>1
  <1>11. Adds(g, q, v2)
    BY <1>8 DEF Adds, w2
  <1>12. DList(Len(g.orders), Nexts(g), Prevs(g), q)
    BY <1>2, <1>3, <1>4
  <1>13. \A j \in 1 .. n : /\ g.orders[q[j]].level = l /\ g.orders[q[j]].side = side
                           /\ g.orders[q[j]].price = g.levels[l].price
    <2> SUFFICES ASSUME NEW j \in 1 .. n
                 PROVE  /\ g.orders[q[j]].level = l /\ g.orders[q[j]].side = side
                        /\ g.orders[q[j]].price = g.levels[l].price
      OBVIOUS
    <2>1. /\ h.orders[q[j]].level = l /\ h.orders[q[j]].side = side
          /\ h.orders[q[j]].price = h.levels[l].price /\ q[j] \in 1 .. m
      BY <1>1, <1>2
    <2> QED
      BY <1>3, <2>1
  <1> QED
    BY <1>2, <1>3, <1>10, <1>11, <1>12, <1>13 DEF FifoOK, n

\* A level without orders.
LEMMA FifoOfNone ==
    ASSUME NEW g \in Heap, NEW side, NEW l, g.levels[l].front = Nil, g.levels[l].back = Nil,
           g.levels[l].order_count = 0, g.levels[l].total_qty = 0
    PROVE  FifoOK(g, side, l, <<>>)
  <1>1. DList(Len(g.orders), Nexts(g), Prevs(g), <<>>)
    <2> DEFINE S == 1 .. Len(g.orders)
    <2>1. <<>> \in Seq(S) /\ Len(<<>>) = 0
      OBVIOUS
    <2> QED
      BY <2>1 DEF DList
  <1>2. Adds(g, <<>>, 0)
    <2> DEFINE f == [i \in 0 .. 0 |-> 0]
    <2>1. Running(Quantities(g), <<>>, f) /\ f[Len(<<>>)] = 0
      BY DEF Running
    <2> HIDE DEF f
    <2> QED
      BY <2>1 DEF Adds, IsTotal
  <1>3. Wrap(0) = 0
    BY QtyAssumption DEF Wrap
  <1>4. FirstOf(<<>>) = Nil /\ LastOf(<<>>) = Nil /\ Len(<<>>) = 0
    BY DEF FirstOf, LastOf, Nil
  <1> QED
    BY <1>1, <1>2, <1>3, <1>4 DEF FifoOK

\* Better is a strict order of the prices.
LEMMA BetterOrder ==
    ASSUME NEW side \in Side, NEW a \in Int, NEW b \in Int, NEW c \in Int
    PROVE  /\ Better(side, a, b) /\ Better(side, b, c) => Better(side, a, c)
           /\ Better(side, a, b) => a # b /\ ~Better(side, b, a)
           /\ ~Better(side, a, b) /\ a # b => Better(side, b, a)
  BY DEF Better

\* Where a new price goes in a ladder: behind the first j levels.
Goes(h, side, s, price, j) ==
    /\ j \in 0 .. Len(s)
    /\ \A i \in 1 .. Len(s) : IF i <= j THEN Better(side, h.levels[s[i]].price, price)
                                        ELSE Better(side, price, h.levels[s[i]].price)

\* Linking a new level there.
LEMMA LadderWith ==
    ASSUME NEW h \in Heap, NEW side \in Side, NEW s, LadderOK(h, side, s), NEW price \in Price,
           h.byPrice[side][price] = Nil, NEW j, Goes(h, side, s, price, j),
           NEW pool, pool.capacity \in Nat, pool.capacity >= Len(h.levels),
           NEW x \in 1 .. pool.capacity, \A i \in 1 .. Len(s) : s[i] # x,
           NEW g, LevelLinked(h, g, side, price, x, pool, IF j = 0 THEN 0 ELSE s[j],
                              IF j = Len(s) THEN 0 ELSE s[j + 1])
    PROVE  LadderOK(g, side, With(s, j, x))
  <1> DEFINE m == Len(h.levels)
             c == pool.capacity
             n == Len(s)
             r == With(s, j, x)
             pos == IF j = 0 THEN 0 ELSE s[j]
             worse == IF j = n THEN 0 ELSE s[j + 1]
  <1>1. /\ m \in Nat /\ c \in Nat /\ c >= m /\ s \in Seq(1 .. m) /\ n \in Nat
        /\ \A i \in 1 .. n : s[i] \in 1 .. m /\ s[i] \in 1 .. c /\ s[i] # x /\ s[i] # 0
        /\ \A i, k \in 1 .. n : s[i] = s[k] => i = k
        /\ j \in 0 .. n /\ x \in 1 .. c /\ x # 0
    <2>1. s \in Seq(1 .. m) /\ \A i, k \in 1 .. n : s[i] = s[k] => i = k
      BY DEF LadderOK, DList
    <2>2. m \in Nat
      BY HeapFields
    <2>3. j \in 0 .. n
      BY DEF Goes
    <2> DEFINE S == 1 .. m
    <2>4a. s \in Seq(S)
      BY <2>1
    <2> HIDE DEF S
    <2>4. \A i \in 1 .. n : s[i] \in S
      BY <2>4a
    <2> HIDE DEF n, c
    <2>5. \A i \in 1 .. n : s[i] # x
      BY DEF n
    <2>6. c \in Nat /\ c >= m /\ x \in 1 .. c
      BY DEF c, m
    <2> QED
      BY <2>1, <2>2, <2>3, <2>4, <2>5, <2>6 DEF n, S
  <1>2. /\ DList(m, Worses(h), Betters(h), s)
        /\ h.best[side] = FirstOf(s)
        /\ \A i \in 1 .. n : /\ h.levels[s[i]].price \in Price
                             /\ h.byPrice[side][h.levels[s[i]].price] = s[i]
        /\ \A i, k \in 1 .. n :
              i < k => Better(side, h.levels[s[i]].price, h.levels[s[k]].price)
        /\ \A p \in Price : h.byPrice[side][p] # Nil =>
              \E i \in 1 .. n : s[i] = h.byPrice[side][p] /\ h.levels[s[i]].price = p
    BY DEF LadderOK
  <1>3. \A i \in 1 .. n : IF i <= j THEN Better(side, h.levels[s[i]].price, price)
                                    ELSE Better(side, price, h.levels[s[i]].price)
    BY DEF Goes
  <1>4. /\ g \in Heap /\ Len(g.levels) = c
        /\ g.levels[x].better = pos /\ g.levels[x].worse = worse
        /\ SameLevel(g.levels[x], [BlankLevel EXCEPT !.price = price])
        /\ \A k \in 1 .. c : k # x =>
              /\ g.levels[k].worse = IF k = pos THEN x ELSE OldLevel(h, k).worse
              /\ g.levels[k].better = IF k = worse THEN x ELSE OldLevel(h, k).better
              /\ SameLevel(g.levels[k], OldLevel(h, k))
        /\ g.best = [h.best EXCEPT ![side] = IF pos = Nil THEN x ELSE h.best[side]]
        /\ g.byPrice = [h.byPrice EXCEPT ![side] = [h.byPrice[side] EXCEPT ![price] = x]]
    BY DEF LevelLinked
  <1> HIDE DEF m, c, n, pos, worse, r
  <1>5. g.levels[x].price = price
    <2>1. [BlankLevel EXCEPT !.price = price].price = price
      BY DEF BlankLevel
    <2> QED
      BY <1>4, <2>1 DEF SameLevel
  <1>6. ASSUME NEW i \in 1 .. n
        PROVE  /\ g.levels[s[i]].worse = IF s[i] = pos THEN x ELSE h.levels[s[i]].worse
               /\ g.levels[s[i]].better = IF s[i] = worse THEN x ELSE h.levels[s[i]].better
               /\ g.levels[s[i]].price = h.levels[s[i]].price
    <2>1. OldLevel(h, s[i]) = h.levels[s[i]] /\ s[i] \in 1 .. c /\ s[i] # x
      BY <1>1 DEF OldLevel, m
    <2> QED
      BY <1>4, <2>1, SMTT(60) DEF SameLevel
  <1>7. /\ pos = (IF j = 0 THEN 0 ELSE s[j]) /\ worse = (IF j = n THEN 0 ELSE s[j + 1])
    BY DEF pos, worse
  <1>8. Spliced(Worses(h), Betters(h), s, j, x, Worses(g), Betters(g))
    <2>1. Worses(g)[x] = worse /\ Betters(g)[x] = pos
      BY <1>1, <1>4 DEF Worses, Betters
    <2>2. ASSUME NEW i \in 1 .. n
          PROVE  /\ Worses(g)[s[i]] = IF i = j THEN x ELSE Worses(h)[s[i]]
                 /\ Betters(g)[s[i]] = IF i = j + 1 THEN x ELSE Betters(h)[s[i]]
      <3>1. s[i] \in 1 .. m /\ s[i] \in 1 .. c /\ s[i] # 0
        BY <1>1
      <3>2. s[i] = pos <=> i = j
        <4>1. j # 0 => j \in 1 .. n
          BY <1>1
        <4>2. j = 0 => i # j
          OBVIOUS
        <4> QED
          BY <1>1, <1>7, <3>1, <4>1, <4>2
      <3>3. s[i] = worse <=> i = j + 1
        <4>1. j # n => j + 1 \in 1 .. n
          BY <1>1
        <4>2. j = n => i # j + 1
          BY <1>1
        <4> QED
          BY <1>1, <1>7, <3>1, <4>1, <4>2
      <3>4. /\ Worses(g)[s[i]] = g.levels[s[i]].worse /\ Betters(g)[s[i]] = g.levels[s[i]].better
            /\ Worses(h)[s[i]] = h.levels[s[i]].worse /\ Betters(h)[s[i]] = h.levels[s[i]].better
        BY <1>4, <3>1 DEF Worses, Betters, m
      <3> QED
        BY <1>6, <3>2, <3>3, <3>4
    <2> QED
      BY <1>7, <2>1, <2>2 DEF Spliced, n
  <1>9. /\ DList(c, Worses(g), Betters(g), r)
        /\ FirstOf(r) = IF j = 0 THEN x ELSE FirstOf(s)
    <2>1. j \in 0 .. Len(s) /\ \A i \in 1 .. Len(s) : s[i] # x
      BY <1>1 DEF n
    <2>2. /\ DList(c, Worses(g), Betters(g), With(s, j, x))
          /\ FirstOf(With(s, j, x)) = IF j = 0 THEN x ELSE FirstOf(s)
      BY <1>1, <1>2, <1>8, <2>1, ListWith
    <2> QED
      BY <2>2 DEF r
  <1>10. /\ Len(r) = n + 1 /\ r[j + 1] = x /\ j + 1 \in 1 .. (n + 1)
         /\ \A i \in 1 .. n : Shift(j, i) \in 1 .. (n + 1) /\ r[Shift(j, i)] = s[i]
         /\ \A k \in 1 .. (n + 1) : k = j + 1 \/ \E i \in 1 .. n : k = Shift(j, i)
    <2> DEFINE S == 1 .. m
    <2>1. s \in Seq(S) /\ j \in 0 .. Len(s) /\ n = Len(s)
      BY <1>1 DEF n
    <2> HIDE DEF S
    <2>a. s \in Seq(S) /\ j \in 0 .. Len(s)
      BY <2>1
    <2>2. WithPlaced(s, j, x)
      BY <2>a, PlacesAfterWith
    <2>3. r = With(s, j, x) /\ Len(s) = n
      BY <2>1 DEF r
    <2> HIDE DEF r
    <2> QED
      BY <2>2, <2>3 DEF WithPlaced
  <1>11. g.best[side] = FirstOf(r)
    <2>1. h.best \in [Side -> Nat]
      BY HeapFields
    <2>2. pos = Nil <=> j = 0
      <3>1. j # 0 => s[j] # 0
        BY <1>1
      <3> QED
        BY <1>7, <3>1 DEF Nil
    <2> QED
      BY <1>2, <1>4, <1>9, <2>1, <2>2
  <1>12. \A p \in Price : g.byPrice[side][p] = IF p = price THEN x ELSE h.byPrice[side][p]
    <2>1. h.byPrice \in [Side -> [Price -> Nat]]
      BY HeapFields
    <2>2. h.byPrice[side] \in [Price -> Nat]
      BY <2>1
    <2>3. g.byPrice[side] = [h.byPrice[side] EXCEPT ![price] = x]
      BY <1>4, <2>1
    <2> QED
      BY <2>2, <2>3
  <1>13. ASSUME NEW i \in 1 .. n
         PROVE  /\ h.levels[s[i]].price # price
                /\ g.levels[s[i]].price \in Price
                /\ g.byPrice[side][g.levels[s[i]].price] = s[i]
    <2>1. h.byPrice[side][h.levels[s[i]].price] = s[i] /\ s[i] # Nil
      BY <1>1, <1>2 DEF Nil
    <2> DEFINE y == h.levels[s[i]].price
    <2>2. y \in Price /\ g.levels[s[i]].price = y /\ h.byPrice[side][y] = s[i]
      BY <1>2, <1>6
    <2>3. y # price
      BY <2>1
    <2> HIDE DEF y
    <2> QED
      BY <1>12, <2>2, <2>3 DEF y
  <1>14. ASSUME NEW k \in 1 .. (n + 1)
         PROVE  /\ g.levels[r[k]].price \in Price
                /\ g.byPrice[side][g.levels[r[k]].price] = r[k]
    <2>1. CASE k = j + 1
      BY <1>5, <1>10, <1>12, <2>1
    <2>2. ASSUME NEW i \in 1 .. n, k = Shift(j, i)
          PROVE  /\ g.levels[r[k]].price \in Price
                 /\ g.byPrice[side][g.levels[r[k]].price] = r[k]
      <3>1. r[k] = s[i]
        BY <1>10, <2>2
      <3> QED
        BY <1>13, <3>1
    <2> QED
      BY <1>10, <2>1, <2>2
  <1>15. ASSUME NEW a \in 1 .. (n + 1), NEW b \in 1 .. (n + 1), a < b
         PROVE  Better(side, g.levels[r[a]].price, g.levels[r[b]].price)
    <2>1. CASE a = j + 1
      <3>1. PICK i \in 1 .. n : b = Shift(j, i)
        BY <1>1, <1>10, <1>15, <2>1
      <3>2. ~(i <= j)
        BY <1>1, <1>15, <2>1, <3>1 DEF Shift
      <3>3. g.levels[r[a]].price = price /\ g.levels[r[b]].price = h.levels[s[i]].price
        BY <1>5, <1>6, <1>10, <2>1, <3>1
      <3> QED
        BY <1>3, <3>2, <3>3
    <2>2. CASE b = j + 1
      <3>1. PICK i \in 1 .. n : a = Shift(j, i)
        BY <1>1, <1>10, <1>15, <2>2
      <3>2. i <= j
        BY <1>1, <1>15, <2>2, <3>1 DEF Shift
      <3>3. g.levels[r[b]].price = price /\ g.levels[r[a]].price = h.levels[s[i]].price
        BY <1>5, <1>6, <1>10, <2>2, <3>1
      <3> QED
        BY <1>3, <3>2, <3>3
    <2>3. CASE a # j + 1 /\ b # j + 1
      <3>1. PICK i \in 1 .. n : a = Shift(j, i)
        BY <1>10, <2>3
      <3>2. PICK k \in 1 .. n : b = Shift(j, k)
        BY <1>10, <2>3
      <3>3. i < k
        BY <1>1, <1>15, <3>1, <3>2 DEF Shift
      <3>4. /\ g.levels[r[a]].price = h.levels[s[i]].price
            /\ g.levels[r[b]].price = h.levels[s[k]].price
        BY <1>6, <1>10, <3>1, <3>2
      <3> QED
        BY <1>2, <3>3, <3>4
    <2> QED
      BY <2>1, <2>2, <2>3
  <1>16. ASSUME NEW p \in Price, g.byPrice[side][p] # Nil
         PROVE  \E k \in 1 .. (n + 1) : r[k] = g.byPrice[side][p] /\ g.levels[r[k]].price = p
    <2>1. CASE p = price
      <3>1. r[j + 1] = g.byPrice[side][p] /\ g.levels[r[j + 1]].price = p
        BY <1>5, <1>10, <1>12, <2>1
      <3> QED
        BY <1>10, <3>1
    <2>2. CASE p # price
      <3>1. h.byPrice[side][p] = g.byPrice[side][p]
        BY <1>12, <2>2
      <3>2. PICK i \in 1 .. n : s[i] = h.byPrice[side][p] /\ h.levels[s[i]].price = p
        BY <1>2, <1>16, <3>1
      <3>3. /\ Shift(j, i) \in 1 .. (n + 1) /\ r[Shift(j, i)] = s[i]
            /\ g.levels[s[i]].price = h.levels[s[i]].price
        BY <1>6, <1>10
      <3> QED
        BY <3>1, <3>2, <3>3
    <2> QED
      BY <2>1, <2>2
  <1>17. DList(Len(g.levels), Worses(g), Betters(g), r)
    BY <1>4, <1>9
  <1>18. LadderOK(g, side, r)
    BY <1>10, <1>11, <1>14, <1>15, <1>16, <1>17 DEF LadderOK
  <1> QED
    BY <1>18 DEF r

-----------------------------------------------------------------------------
(* The book as a whole                                                     *)

\* The levels on the ladders s, and the orders in their queues q.
Standing(s) == UNION {Elems(s[side]) : side \in Side}
Queued(s, q) == UNION {Elems(q[l]) : l \in Standing(s)}

\* s are the ladders of the two sides, and the other levels are free.
LaddersOK(h, s) ==
    /\ h \in Heap /\ s \in [Side -> Seq(Nat)]
    /\ PoolOK(h.levelPool) /\ h.levelPool.capacity = Len(h.levels)
    /\ \A side \in Side : LadderOK(h, side, s[side])
    /\ \A a, b \in Side : \A l \in Elems(s[a]) : l \in Elems(s[b]) => a = b
    /\ InUse(h.levelPool) = Standing(s)
    /\ \A l \in 1 .. Len(h.levels) : l \notin Standing(s) => h.levels[l] = BlankLevel

\* q are the queues of the levels on them.  Of the other orders those in spare are in use,
\* by an operation that has not finished, and the rest are free.
QueuesOK(h, s, q, spare) ==
    /\ q \in [Nat -> Seq(Nat)]
    /\ PoolOK(h.orderPool) /\ h.orderPool.capacity = Len(h.orders)
    /\ \A side \in Side : \A l \in Elems(s[side]) : FifoOK(h, side, l, q[l])
    /\ InUse(h.orderPool) = Queued(s, q) \cup spare
    /\ \A n \in spare : n \notin Queued(s, q)
    /\ \A n \in 1 .. Len(h.orders) :
          n \notin Queued(s, q) /\ n \notin spare => h.orders[n] = BlankOrder

Book(h, s, q, spare) == LaddersOK(h, s) /\ QueuesOK(h, s, q, spare)

\* The levels on a ladder are levels of the memory.
LEMMA LadderNodes ==
    ASSUME NEW h, NEW s, LaddersOK(h, s), NEW side \in Side
    PROVE  /\ s[side] \in Seq(1 .. Len(h.levels)) /\ Len(s[side]) \in Nat
           /\ \A i \in 1 .. Len(s[side]) : s[side][i] \in 1 .. Len(h.levels)
           /\ Elems(s[side]) \subseteq Standing(s)
           /\ Elems(s[side]) \subseteq 1 .. Len(h.levels)
  <1>1. s[side] \in Seq(1 .. Len(h.levels))
    BY DEF LaddersOK, LadderOK, DList
  <1> DEFINE S == 1 .. Len(h.levels)
  <1>2. s[side] \in Seq(S)
    BY <1>1
  <1> HIDE DEF S
  <1>3. Len(s[side]) \in Nat /\ \A i \in 1 .. Len(s[side]) : s[side][i] \in S
    BY <1>2
  <1>4. Elems(s[side]) \subseteq S
    BY <1>3 DEF Elems
  <1>5. Elems(s[side]) \subseteq Standing(s)
    BY DEF Standing
  <1> QED
    BY <1>1, <1>3, <1>4, <1>5 DEF S

\* The levels on the ladders are levels of the memory, each on a side.
LEMMA StandingLevels ==
    ASSUME NEW h, NEW s, LaddersOK(h, s)
    PROVE  \A l \in Standing(s) :
              /\ l \in 1 .. Len(h.levels) /\ l \in Nat
              /\ \E side \in Side : l \in Elems(s[side])
  <1> SUFFICES ASSUME NEW l \in Standing(s)
               PROVE  /\ l \in 1 .. Len(h.levels) /\ l \in Nat
                      /\ \E side \in Side : l \in Elems(s[side])
    OBVIOUS
  <1>1. PICK side \in Side : l \in Elems(s[side])
    BY DEF Standing
  <1>2. Elems(s[side]) \subseteq 1 .. Len(h.levels)
    BY LadderNodes
  <1> QED
    BY <1>1, <1>2

\* The orders in a queue are orders of the memory, filed under its level.
LEMMA QueueNodes ==
    ASSUME NEW h \in Heap, NEW side, NEW l, NEW q, FifoOK(h, side, l, q)
    PROVE  /\ q \in Seq(1 .. Len(h.orders)) /\ Len(q) \in Nat
           /\ \A i \in 1 .. Len(q) : q[i] \in 1 .. Len(h.orders)
           /\ \A n \in Elems(q) : /\ n \in 1 .. Len(h.orders)
                                  /\ h.orders[n].level = l /\ h.orders[n].side = side
                                  /\ h.orders[n].price = h.levels[l].price
  <1>1. q \in Seq(1 .. Len(h.orders))
    BY DEF FifoOK, DList
  <1> DEFINE S == 1 .. Len(h.orders)
  <1>2. q \in Seq(S)
    BY <1>1
  <1> HIDE DEF S
  <1>3. Len(q) \in Nat /\ \A i \in 1 .. Len(q) : q[i] \in S
    BY <1>2
  <1>4. \A i \in 1 .. Len(q) : /\ h.orders[q[i]].level = l /\ h.orders[q[i]].side = side
                               /\ h.orders[q[i]].price = h.levels[l].price
    BY DEF FifoOK
  <1>5. \A n \in Elems(q) : \E i \in 1 .. Len(q) : n = q[i]
    BY DEF Elems
  <1> QED
    BY <1>1, <1>3, <1>4, <1>5 DEF S

\* A queued order knows its level, so it is in one queue.
LEMMA QueuedOrders ==
    ASSUME NEW h, NEW s, NEW q, NEW spare, Book(h, s, q, spare)
    PROVE  /\ \A n \in Queued(s, q) :
                /\ n \in 1 .. Len(h.orders)
                /\ h.orders[n].level \in Standing(s) /\ n \in Elems(q[h.orders[n].level])
           /\ \A l \in Standing(s) : \A n \in Elems(q[l]) :
                n \in Queued(s, q) /\ n \in 1 .. Len(h.orders) /\ h.orders[n].level = l
  <1>1. ASSUME NEW l \in Standing(s), NEW n \in Elems(q[l])
        PROVE  n \in Queued(s, q) /\ n \in 1 .. Len(h.orders) /\ h.orders[n].level = l
    <2>1. PICK side \in Side : l \in Elems(s[side])
      BY DEF Standing
    <2>2. h \in Heap /\ FifoOK(h, side, l, q[l])
      BY <2>1 DEF Book, LaddersOK, QueuesOK
    <2>3. n \in 1 .. Len(h.orders) /\ h.orders[n].level = l
      BY <2>2, QueueNodes
    <2> QED
      BY <2>3 DEF Queued
  <1>2. \A n \in Queued(s, q) : \E l \in Standing(s) : n \in Elems(q[l])
    BY DEF Queued
  <1> QED
    BY <1>1, <1>2

\* Along next the orders form finite chains.
LEMMA QueuesAreChains ==
    ASSUME NEW h, NEW s, NEW q, Book(h, s, q, {})
    PROVE  ChainsOf(Len(h.orders), Nexts(h), Prevs(h), Standing(s), q)
  <1> DEFINE m == Len(h.orders)
  <1>1. m \in Nat /\ h \in Heap
    BY HeapFields DEF Book, LaddersOK
  <1>2. \A l \in Standing(s) : DList(m, Nexts(h), Prevs(h), q[l])
    BY DEF Standing, FifoOK, Book, QueuesOK
  <1> HIDE DEF m
  <1>3. \A l \in Standing(s) : \A a \in 1 .. Len(q[l]) : q[l][a] \in Elems(q[l])
    BY DEF Elems
  <1>4. ASSUME NEW k \in Standing(s), NEW j \in Standing(s),
               NEW a \in 1 .. Len(q[k]), NEW b \in 1 .. Len(q[j]), q[k][a] = q[j][b]
        PROVE  k = j
    <2> DEFINE n == q[k][a]
    <2>1. n \in Elems(q[k])
      BY <1>3
    <2>2. n \in Elems(q[j])
      BY <1>3, <1>4
    <2> HIDE DEF n
    <2>3. h.orders[n].level = k
      BY <2>1, QueuedOrders
    <2>4. h.orders[n].level = j
      BY <2>2, QueuedOrders
    <2> QED
      BY <2>3, <2>4
  <1>5. ASSUME NEW n \in 1 .. m, n \in Queued(s, q)
        PROVE  /\ \E l \in Standing(s) : \E a \in 1 .. Len(q[l]) : q[l][a] = n
               /\ Nexts(h)[n] \in 0 .. m
    <2>1. PICK l \in Standing(s) : n \in Elems(q[l])
      BY <1>5 DEF Queued
    <2>2. PICK a \in 1 .. Len(q[l]) : q[l][a] = n
      BY <2>1 DEF Elems
    <2> DEFINE S == 1 .. m
    <2>3. q[l] \in Seq(S) /\ Nexts(h)[n] = After(q[l], a)
      BY <1>2, <2>2 DEF DList
    <2> HIDE DEF S
    <2>4. a # Len(q[l]) => q[l][a + 1] \in S
      BY <2>2, <2>3
    <2>5. Nexts(h)[n] \in 0 .. m
      BY <1>1, <2>3, <2>4 DEF After, S
    <2> QED
      BY <2>2, <2>5
  <1>6. ASSUME NEW n \in 1 .. m, n \notin Queued(s, q) PROVE Nexts(h)[n] = 0
    <2>1. h.orders[n] = BlankOrder
      BY <1>6 DEF Book, QueuesOK, m
    <2> QED
      BY <2>1 DEF Nexts, BlankOrder, Nil, m
  <1>7. \A n \in 1 .. m : Nexts(h)[n] \in 0 .. m
    BY <1>1, <1>5, <1>6
  <1>8. Nexts(h) \in [1 .. m -> 0 .. m]
    BY <1>7 DEF Nexts, m
  <1> QED
    BY <1>2, <1>4, <1>5, <1>6, <1>8 DEF ChainsOf, m

\* Along worse the levels form finite chains.
LEMMA LaddersAreChains ==
    ASSUME NEW h, NEW s, LaddersOK(h, s)
    PROVE  ChainsOf(Len(h.levels), Worses(h), Betters(h), Side, s)
  <1> DEFINE m == Len(h.levels)
  <1>1. m \in Nat /\ h \in Heap
    BY HeapFields DEF LaddersOK
  <1>2. \A side \in Side : DList(m, Worses(h), Betters(h), s[side])
    BY DEF LadderOK, LaddersOK
  <1> HIDE DEF m
  <1>3. \A side \in Side : \A a \in 1 .. Len(s[side]) : s[side][a] \in Elems(s[side])
    BY DEF Elems
  <1>4. ASSUME NEW k \in Side, NEW j \in Side,
               NEW a \in 1 .. Len(s[k]), NEW b \in 1 .. Len(s[j]), s[k][a] = s[j][b]
        PROVE  k = j
    BY <1>3, <1>4 DEF LaddersOK
  <1>5. ASSUME NEW n \in 1 .. m, n \in Standing(s)
        PROVE  /\ \E side \in Side : \E a \in 1 .. Len(s[side]) : s[side][a] = n
               /\ Worses(h)[n] \in 0 .. m
    <2>1. PICK side \in Side : n \in Elems(s[side])
      BY <1>5 DEF Standing
    <2>2. PICK a \in 1 .. Len(s[side]) : s[side][a] = n
      BY <2>1 DEF Elems
    <2> DEFINE S == 1 .. m
    <2>3. s[side] \in Seq(S) /\ Worses(h)[n] = After(s[side], a)
      BY <1>2, <2>2 DEF DList
    <2> HIDE DEF S
    <2>4. a # Len(s[side]) => s[side][a + 1] \in S
      BY <2>2, <2>3
    <2>5. Worses(h)[n] \in 0 .. m
      BY <1>1, <2>3, <2>4 DEF After, S
    <2> QED
      BY <2>2, <2>5
  <1>6. ASSUME NEW n \in 1 .. m, n \notin Standing(s) PROVE Worses(h)[n] = 0
    <2>1. h.levels[n] = BlankLevel
      BY <1>6 DEF LaddersOK, m
    <2> QED
      BY <2>1 DEF Worses, BlankLevel, Nil, m
  <1>7. \A n \in 1 .. m : Worses(h)[n] \in 0 .. m
    BY <1>1, <1>5, <1>6
  <1>8. Worses(h) \in [1 .. m -> 0 .. m]
    BY <1>7 DEF Worses, m
  <1> QED
    BY <1>2, <1>4, <1>5, <1>6, <1>8 DEF ChainsOf, m

\* Following next from the front of a level gives its queue.
LEMMA FifoRead ==
    ASSUME NEW h, NEW s, NEW q, Book(h, s, q, {}), NEW l \in Standing(s)
    PROVE  Fifo(h, h.levels[l].front) = q[l]
  <1> DEFINE m == Len(h.orders)
             Body(f) == [n \in 0 .. Len(h.orders) |->
                            IF n = Nil THEN <<>> ELSE <<n>> \o f[h.orders[n].next]]
             F == CHOOSE f : f = Body(f)
  <1>1. m \in Nat /\ h \in Heap
    BY HeapFields DEF Book, LaddersOK
  <1>2. ChainsOf(m, Nexts(h), Prevs(h), Standing(s), q)
    BY QueuesAreChains
  <1>3. \A f : Body(f) = Collector(m, Nexts(h), f)
    BY DEF Collector, Nexts, Nil
  <1>4. PICK f : Collecting(m, Nexts(h), f)
    BY <1>1, <1>2, CollectorExists
  <1>5. f = Body(f)
    BY <1>3, <1>4, Zenon DEF Collecting
  <1>6. F = Body(F)
    BY <1>5, Zenon
  <1>7. Fifo(h, h.levels[l].front) = F[h.levels[l].front]
    BY DEF Fifo
  <1> HIDE DEF F, Body
  <1>8. Collecting(m, Nexts(h), F)
    BY <1>3, <1>6, Zenon DEF Collecting
  <1>9. DList(m, Nexts(h), Prevs(h), q[l]) /\ h.levels[l].front = FirstOf(q[l])
    BY DEF Standing, FifoOK, Book, QueuesOK
  <1> HIDE DEF m
  <1>10. F[FirstOf(q[l])] = q[l]
    BY <1>1, <1>8, <1>9, CollectorCollects, ChainCollected
  <1> QED
    BY <1>7, <1>9, <1>10

\* Following worse from the best level of a side gives its ladder.
LEMMA LadderRead ==
    ASSUME NEW h, NEW s, LaddersOK(h, s), NEW side \in Side
    PROVE  Ladder(h, side) = s[side]
  <1> DEFINE m == Len(h.levels)
             Body(f) == [n \in 0 .. Len(h.levels) |->
                            IF n = Nil THEN <<>> ELSE <<n>> \o f[h.levels[n].worse]]
             F == CHOOSE f : f = Body(f)
  <1>1. m \in Nat /\ h \in Heap
    BY HeapFields DEF LaddersOK
  <1>2. ChainsOf(m, Worses(h), Betters(h), Side, s)
    BY LaddersAreChains
  <1>3. \A f : Body(f) = Collector(m, Worses(h), f)
    BY DEF Collector, Worses, Nil
  <1>4. PICK f : Collecting(m, Worses(h), f)
    BY <1>1, <1>2, CollectorExists
  <1>5. f = Body(f)
    BY <1>3, <1>4, Zenon DEF Collecting
  <1>6. F = Body(F)
    BY <1>5, Zenon
  <1>7. Ladder(h, side) = F[h.best[side]]
    BY DEF Ladder
  <1> HIDE DEF F, Body
  <1>8. Collecting(m, Worses(h), F)
    BY <1>3, <1>6, Zenon DEF Collecting
  <1>9. DList(m, Worses(h), Betters(h), s[side]) /\ h.best[side] = FirstOf(s[side])
    BY DEF LaddersOK, LadderOK
  <1> HIDE DEF m
  <1>10. F[FirstOf(s[side])] = s[side]
    BY <1>1, <1>8, <1>9, CollectorCollects, ChainCollected
  <1> QED
    BY <1>7, <1>9, <1>10

\* What the model's sum of a queue is.
LEMMA SumRead ==
    ASSUME NEW h \in Heap, NEW q, Len(q) \in Nat,
           \A i \in 1 .. Len(q) : q[i] \in 1 .. Len(h.orders), NEW v, Adds(h, q, v)
    PROVE  SumOfRemaining(h, q) = v
  <1> DEFINE Body(f) == [n \in 0 .. Len(q) |->
                            IF n = 0 THEN 0 ELSE f[n - 1] + h.orders[q[n]].remaining]
             F == CHOOSE f : f = Body(f)
             w == Quantities(h)
  <1>1. PICK f : Running(w, q, f)
    BY DEF Adds, IsTotal
  <1>2. \A i \in 1 .. Len(q) : w[q[i]] = h.orders[q[i]].remaining
    BY QuantitiesTyped
  <1> HIDE DEF w
  <1>3. f \in [0 .. Len(q) -> Int] /\ f[0] = 0
        /\ \A i \in 1 .. Len(q) : f[i] = f[i - 1] + h.orders[q[i]].remaining
    BY <1>1, <1>2 DEF Running
  <1>4. f = Body(f)
    BY <1>3
  <1>5. F = Body(F)
    BY <1>4, Zenon
  <1>6. SumOfRemaining(h, q) = F[Len(q)]
    BY DEF SumOfRemaining
  <1>7. ASSUME NEW g PROVE \A i \in 0 .. Len(q) : Body(g)[i] =
                              IF i = 0 THEN 0 ELSE g[i - 1] + h.orders[q[i]].remaining
    OBVIOUS
  <1> HIDE DEF F, Body
  <1>8. F[0] = 0 /\ \A i \in 1 .. Len(q) : F[i] = F[i - 1] + h.orders[q[i]].remaining
    BY <1>5, <1>7
  <1>9. \A i \in 1 .. Len(q) : F[i] = F[i - 1] + w[q[i]]
    BY <1>2, <1>8
  <1>10. IsTotal(w, q, v)
    BY DEF Adds, w
  <1>11. F[Len(q)] = v
    BY <1>8, <1>9, <1>10, TotalIsUnique
  <1> QED
    BY <1>6, <1>11

\* A price that has no level has a place in the ladder.
LEMMA PlaceExists ==
    ASSUME NEW h, NEW s, LaddersOK(h, s), NEW side \in Side, NEW price \in Price,
           h.byPrice[side][price] = Nil
    PROVE  \E j : Goes(h, side, s[side], price, j)
  <1> DEFINE r == s[side]
             n == Len(r)
             P(i) == h.levels[r[i]].price
             T == {j \in 0 .. n : \A i \in 1 .. n : j < i => Better(side, price, P(i))}
  <1>1. LadderOK(h, side, r) /\ n \in Nat /\ \A i \in 1 .. n : r[i] \in 1 .. Len(h.levels)
    BY LadderNodes DEF LaddersOK
  <1>2. \A i \in 1 .. n : P(i) \in Price /\ h.byPrice[side][P(i)] = r[i]
    BY <1>1 DEF LadderOK
  <1>3. \A i, j \in 1 .. n : i < j => Better(side, P(i), P(j))
    BY <1>1 DEF LadderOK
  <1>4. \A i \in 1 .. n : P(i) \in Int /\ P(i) # price
    <2> SUFFICES ASSUME NEW i \in 1 .. n PROVE P(i) \in Int /\ P(i) # price
      OBVIOUS
    <2>1. P(i) \in Price /\ h.byPrice[side][P(i)] = r[i]
      BY <1>2
    <2>2. r[i] \in 1 .. Len(h.levels)
      BY <1>1
    <2> HIDE DEF P, r, n
    <2>3. h.byPrice[side][P(i)] # h.byPrice[side][price]
      BY <2>1, <2>2 DEF Nil
    <2> QED
      BY <2>1, <2>3, PriceAssumption
  <1>5. price \in Int /\ n \in Nat
    BY <1>1, PriceAssumption
  <1> HIDE DEF P, n, r
  <1>6. n \in T /\ T \in SUBSET Nat
    BY <1>5
  <1>7. PICK j \in T : \A k \in T : j <= k
    <2> HIDE DEF T
    <2> QED
      BY <1>6, LeastElement
  <1>8. j \in 0 .. n /\ \A i \in 1 .. n : j < i => Better(side, price, P(i))
    OBVIOUS
  <1>9. j # 0 => Better(side, P(j), price)
    <2> SUFFICES ASSUME j # 0, ~Better(side, P(j), price) PROVE FALSE
      OBVIOUS
    <2>1. j \in 1 .. n /\ j - 1 \in 0 .. n /\ j - 1 < j
      BY <1>5, <1>8
    <2>2. Better(side, price, P(j))
      BY <1>4, <1>5, <2>1, BetterOrder
    <2>3. j - 1 \in T
      BY <1>8, <2>1, <2>2
    <2> QED
      BY <1>7, <2>1, <2>3
  <1>10. ASSUME NEW i \in 1 .. n, i <= j PROVE Better(side, P(i), price)
    <2>1. CASE i = j
      BY <1>5, <1>9, <2>1
    <2>2. CASE i # j
      <3>1. j \in 1 .. n /\ j # 0 /\ i < j
        BY <1>5, <1>8, <1>10, <2>2
      <3>2. Better(side, P(i), P(j)) /\ Better(side, P(j), price)
        BY <1>3, <1>9, <3>1
      <3>3. P(i) \in Int /\ P(j) \in Int
        BY <1>4, <3>1
      <3> QED
        BY <1>5, <3>2, <3>3, BetterOrder
    <2> QED
      BY <2>1, <2>2
  <1>11. \A i \in 1 .. n : IF i <= j THEN Better(side, P(i), price) ELSE Better(side, price, P(i))
    <2> SUFFICES ASSUME NEW i \in 1 .. n
                 PROVE  IF i <= j THEN Better(side, P(i), price) ELSE Better(side, price, P(i))
      OBVIOUS
    <2>1. i <= j \/ j < i
      BY <1>5, <1>8
    <2> HIDE DEF T
    <2> QED
      BY <1>8, <1>10, <2>1
  <1>12. Goes(h, side, r, price, j)
    BY <1>8, <1>11 DEF Goes, P, n
  <1> QED
    BY <1>12 DEF r

\* The walk of LastBetter ends there.
LEMMA LastBetterRead ==
    ASSUME NEW h, NEW s, LaddersOK(h, s), NEW side \in Side, NEW price \in Price,
           NEW j, Goes(h, side, s[side], price, j), j # 0
    PROVE  LastBetter(h, side, price) = s[side][j]
  <1> DEFINE m == Len(h.levels)
             r == s[side]
             Body(f) == [pos \in DOMAIN h.levels |->
                            LET worse == h.levels[pos].worse
                            IN  IF worse # Nil /\ Better(side, h.levels[worse].price, price)
                                THEN f[worse] ELSE pos]
             More == [n \in 1 .. m |-> Better(side, h.levels[n].price, price)]
             F == CHOOSE f : f = Body(f)
  <1>1. m \in Nat /\ h \in Heap /\ DOMAIN h.levels = 1 .. m
    BY HeapFields DEF LaddersOK
  <1>2. ChainsOf(m, Worses(h), Betters(h), Side, s)
    BY LaddersAreChains
  <1>3. \A n \in 1 .. m : Worses(h)[n] = h.levels[n].worse /\ Worses(h)[n] \in 0 .. m
    BY <1>2 DEF Worses, ChainsOf
  <1>4. ASSUME NEW f PROVE Body(f) = Walked(m, Worses(h), More, f)
    <2>1. ASSUME NEW n \in 1 .. m
          PROVE  /\ h.levels[n].worse = Worses(h)[n]
                 /\ Worses(h)[n] # 0 => (More[Worses(h)[n]] <=>
                       Better(side, h.levels[h.levels[n].worse].price, price))
      BY <1>3
    <2> HIDE DEF More, m
    <2> QED
      BY <1>1, <2>1 DEF Walked, Nil
  <1>5. PICK f : Walking(m, Worses(h), More, f)
    <2> HIDE DEF m, More
    <2> QED
      BY <1>1, <1>2, WalkExists
  <1>6. f = Body(f)
    BY <1>4, <1>5, Zenon DEF Walking
  <1>7. F = Body(F)
    BY <1>6, Zenon
  <1>8. LastBetter(h, side, price) = F[h.best[side]]
    BY DEF LastBetter
  <1> HIDE DEF F, Body
  <1>9. Walking(m, Worses(h), More, F)
    BY <1>4, <1>7, Zenon DEF Walking
  <1>10. DList(m, Worses(h), Betters(h), r) /\ h.best[side] = FirstOf(r)
    BY DEF LaddersOK, LadderOK
  <1>11. Len(r) \in Nat /\ \A i \in 1 .. Len(r) : r[i] \in 1 .. m
    BY LadderNodes
  <1>12. j \in 1 .. Len(r) /\ r # <<>>
    BY <1>11 DEF Goes
  <1>13. ASSUME NEW i \in 2 .. Len(r) PROVE More[r[i]] <=> i <= j
    <2>1. i \in 1 .. Len(r) /\ j \in Int
      BY <1>11, <1>12
    <2>2. r[i] \in 1 .. m
      BY <1>11, <2>1
    <2>3. More[r[i]] <=> Better(side, h.levels[r[i]].price, price)
      BY <2>2
    <2>4. IF i <= j THEN Better(side, h.levels[r[i]].price, price)
                    ELSE Better(side, price, h.levels[r[i]].price)
      BY <2>1 DEF Goes
    <2>5. h.levels[r[i]].price \in Int /\ price \in Int
      BY <2>1, PriceAssumption DEF LaddersOK, LadderOK
    <2> QED
      BY <2>3, <2>4, <2>5, BetterOrder
  <1>16. HoldsUpTo(More, r, j)
    BY <1>13 DEF HoldsUpTo
  <1> HIDE DEF m, More, r
  <1>14. F[r[1]] = r[j]
    BY <1>1, <1>9, <1>10, <1>12, <1>16, WalkStops
  <1>15. FirstOf(r) = r[1]
    BY <1>12 DEF FirstOf
  <1> QED
    BY <1>8, <1>10, <1>14, <1>15 DEF r

\* The neighbours CreateLevel finds for a new level.
LEMMA Neighbours ==
    ASSUME NEW h, NEW s, LaddersOK(h, s), NEW side \in Side, NEW price \in Price,
           NEW j, Goes(h, side, s[side], price, j)
    PROVE  /\ LevelAbove(h, side, price) = IF j = 0 THEN 0 ELSE s[side][j]
           /\ LevelBelow(h, side, price) = IF j = Len(s[side]) THEN 0 ELSE s[side][j + 1]
           /\ ~AtHead(h, side, price) => j # 0
  <1> DEFINE r == s[side]
             n == Len(r)
  <1>1. /\ n \in Nat /\ r \in Seq(1 .. Len(h.levels))
        /\ \A i \in 1 .. n : r[i] \in 1 .. Len(h.levels)
    BY LadderNodes
  <1>2. h.best[side] = (IF n = 0 THEN 0 ELSE r[1]) /\ j \in 0 .. n
    BY <1>1 DEF LaddersOK, LadderOK, FirstOf, Goes
  <1>3. \A i \in 1 .. n : IF i <= j THEN Better(side, h.levels[r[i]].price, price)
                                    ELSE Better(side, price, h.levels[r[i]].price)
    BY DEF Goes
  <1>4. \A i \in 1 .. n : h.levels[r[i]].price \in Int
    BY PriceAssumption DEF LaddersOK, LadderOK
  <1>5. price \in Int
    BY PriceAssumption
  <1>6. \A i \in 1 .. n : h.levels[r[i]].worse = IF i = n THEN 0 ELSE r[i + 1]
    BY <1>1 DEF LaddersOK, LadderOK, DList, After, Worses
  <1> HIDE DEF n
  <1>7. AtHead(h, side, price) <=> j = 0
    <2>1. CASE n = 0
      BY <1>2, <2>1 DEF AtHead, Nil
    <2>2. CASE n # 0
      <3>1. 1 \in 1 .. n /\ h.best[side] = r[1] /\ r[1] # 0
        BY <1>1, <1>2, <2>2
      <3>2. AtHead(h, side, price) <=> Better(side, price, h.levels[r[1]].price)
        BY <3>1 DEF AtHead, Nil
      <3>3. IF 1 <= j THEN Better(side, h.levels[r[1]].price, price)
                      ELSE Better(side, price, h.levels[r[1]].price)
        BY <1>3, <3>1
      <3>4. h.levels[r[1]].price \in Int
        BY <1>4, <3>1
      <3>5. 1 <= j <=> j # 0
        BY <1>1, <1>2
      <3> QED
        BY <1>5, <3>2, <3>3, <3>4, <3>5, BetterOrder
    <2> QED
      BY <2>1, <2>2
  <1>8. CASE j = 0
    <2>1. LevelAbove(h, side, price) = 0 /\ LevelBelow(h, side, price) = h.best[side]
      BY <1>7, <1>8 DEF LevelAbove, LevelBelow, Nil
    <2>2. h.best[side] = IF j = n THEN 0 ELSE r[j + 1]
      BY <1>1, <1>2, <1>8
    <2> QED
      BY <1>7, <1>8, <2>1, <2>2 DEF n
  <1>9. CASE j # 0
    <2>1. LastBetter(h, side, price) = r[j] /\ j \in 1 .. n
      BY <1>1, <1>2, <1>9, LastBetterRead
    <2>2. LevelAbove(h, side, price) = r[j] /\ LevelBelow(h, side, price) = h.levels[r[j]].worse
      BY <1>7, <1>9, <2>1 DEF LevelAbove, LevelBelow
    <2> QED
      BY <1>6, <1>9, <2>1, <2>2 DEF n
  <1> QED
    BY <1>8, <1>9

-----------------------------------------------------------------------------
(* Operations on the book                                                  *)

\* Nodes with the same fields are the same.
LEMMA NodesEqual ==
    /\ \A a, b \in OrderNode : /\ a.next = b.next /\ a.prev = b.prev /\ a.level = b.level
                               /\ SameOrder(a, b)
                               => a = b
    /\ \A a, b \in LevelNode : a.better = b.better /\ a.worse = b.worse /\ SameLevel(a, b) => a = b
  <1>1. ASSUME NEW a \in OrderNode, NEW b \in OrderNode, a.next = b.next, a.prev = b.prev,
               a.level = b.level, SameOrder(a, b)
        PROVE  a = b
    <2>1. \A o \in OrderNode :
             o = [prev |-> o.prev, next |-> o.next, level |-> o.level, id |-> o.id,
                  remaining |-> o.remaining, price |-> o.price,
                  participant |-> o.participant, side |-> o.side]
      BY DEF OrderNode
    <2> QED
      BY <1>1, <2>1 DEF SameOrder
  <1>2. ASSUME NEW a \in LevelNode, NEW b \in LevelNode, a.better = b.better, a.worse = b.worse,
               SameLevel(a, b)
        PROVE  a = b
    <2>1. \A l \in LevelNode :
             l = [better |-> l.better, worse |-> l.worse, front |-> l.front, back |-> l.back,
                  price |-> l.price, total_qty |-> l.total_qty, order_count |-> l.order_count]
      BY DEF LevelNode
    <2> QED
      BY <1>2, <2>1 DEF SameLevel
  <1> QED
    BY <1>1, <1>2

-----------------------------------------------------------------------------
(* The ladders and the queues, changed one at a time                       *)

Requeued(q, l, r)      == [q EXCEPT ![l] = r]
Reladdered(s, side, r) == [s EXCEPT ![side] = r]

IsRequeued(p, q, l, r) ==
    p \in [Nat -> Seq(Nat)] /\ p[l] = r /\ \A k \in Nat : k # l => p[k] = q[k]
IsReladdered(t, s, side, r) ==
    t \in [Side -> Seq(Nat)] /\ t[side] = r /\ \A a \in Side : a # side => t[a] = s[a]

\* One queue replaced.
LEMMA RequeuedIs ==
    ASSUME NEW q \in [Nat -> Seq(Nat)], NEW l \in Nat, NEW r \in Seq(Nat)
    PROVE  IsRequeued(Requeued(q, l, r), q, l, r)
  <1> DEFINE S == Seq(Nat)
  <1>1. q \in [Nat -> S] /\ r \in S
    OBVIOUS
  <1> HIDE DEF S
  <1>2. /\ Requeued(q, l, r) \in [Nat -> S] /\ Requeued(q, l, r)[l] = r
        /\ \A k \in Nat : k # l => Requeued(q, l, r)[k] = q[k]
    BY <1>1 DEF Requeued
  <1> QED
    BY <1>2 DEF S, IsRequeued

\* One ladder replaced.
LEMMA ReladderedIs ==
    ASSUME NEW s \in [Side -> Seq(Nat)], NEW side \in Side, NEW r \in Seq(Nat)
    PROVE  IsReladdered(Reladdered(s, side, r), s, side, r)
  <1> DEFINE S == Seq(Nat)
  <1>1. s \in [Side -> S] /\ r \in S
    OBVIOUS
  <1> HIDE DEF S
  <1>2. /\ Reladdered(s, side, r) \in [Side -> S] /\ Reladdered(s, side, r)[side] = r
        /\ \A a \in Side : a # side => Reladdered(s, side, r)[a] = s[a]
    BY <1>1 DEF Reladdered
  <1> QED
    BY <1>2 DEF S, IsReladdered

\* The orders queued when one queue has been replaced.
LEMMA RequeuedOrders ==
    ASSUME NEW h, NEW s, NEW q, NEW spare, Book(h, s, q, spare), NEW l \in Standing(s),
           NEW r \in Seq(Nat)
    PROVE  Queued(s, Requeued(q, l, r)) = (Queued(s, q) \ Elems(q[l])) \cup Elems(r)
  <1> DEFINE p == Requeued(q, l, r)
  <1>1. q \in [Nat -> Seq(Nat)] /\ \A k \in Standing(s) : k \in Nat
    BY StandingLevels DEF Book, QueuesOK
  <1>2. p[l] = r /\ \A k \in Standing(s) : k # l => p[k] = q[k]
    <2>1. l \in Nat
      BY <1>1
    <2>2. IsRequeued(Requeued(q, l, r), q, l, r)
      BY <1>1, <2>1, RequeuedIs
    <2> QED
      BY <1>1, <2>2 DEF IsRequeued
  <1> HIDE DEF p
  <1>3. \A k \in Standing(s) : \A n \in Elems(q[k]) : h.orders[n].level = k
    BY QueuedOrders
  <1>4. ASSUME NEW n \in Queued(s, p) PROVE n \in (Queued(s, q) \ Elems(q[l])) \cup Elems(r)
    <2>1. PICK k \in Standing(s) : n \in Elems(p[k])
      BY DEF Queued
    <2>2. CASE k = l
      BY <1>2, <2>1, <2>2
    <2>3. CASE k # l
      <3>1. n \in Elems(q[k])
        BY <1>2, <2>1, <2>3
      <3>2. n \notin Elems(q[l])
        BY <1>3, <2>3, <3>1
      <3> QED
        BY <3>1, <3>2 DEF Queued
    <2> QED
      BY <2>2, <2>3
  <1>5. ASSUME NEW n \in Queued(s, q), n \notin Elems(q[l]) PROVE n \in Queued(s, p)
    <2>1. PICK k \in Standing(s) : n \in Elems(q[k])
      BY DEF Queued
    <2>2. k # l
      BY <1>5, <2>1
    <2>3. n \in Elems(p[k])
      BY <1>2, <2>1, <2>2
    <2> QED
      BY <2>3 DEF Queued
  <1>6. Elems(r) \subseteq Queued(s, p)
    BY <1>2 DEF Queued
  <1>7. Queued(s, p) = (Queued(s, q) \ Elems(q[l])) \cup Elems(r)
    BY <1>4, <1>5, <1>6
  <1> QED
    BY <1>7 DEF p

\* The levels are linked and priced in g as in h, in memories of one size, and the free ones
\* are the same.
LaddersSame(h, g, s) ==
    /\ g \in Heap /\ Len(g.levels) = Len(h.levels) /\ g.levelPool = h.levelPool
    /\ g.best = h.best /\ g.byPrice = h.byPrice
    /\ \A l \in 1 .. Len(h.levels) :
          /\ g.levels[l].worse = h.levels[l].worse /\ g.levels[l].better = h.levels[l].better
          /\ g.levels[l].price = h.levels[l].price
          /\ l \notin Standing(s) => g.levels[l] = h.levels[l]

\* Ladders depend on the levels and their indices only.
LEMMA LaddersKept ==
    ASSUME NEW h, NEW s, LaddersOK(h, s), NEW g, LaddersSame(h, g, s)
    PROVE  LaddersOK(g, s)
  <1>1. h \in Heap /\ Len(h.levels) \in Nat /\ g \in Heap
    BY HeapFields DEF LaddersOK, LaddersSame
  <1>2. ASSUME NEW side \in Side PROVE LadderOK(g, side, s[side])
    <2>1. \A i \in 1 .. Len(s[side]) : s[side][i] \in 1 .. Len(h.levels)
      BY LadderNodes
    <2>2. LadderSame(h, g, side, s[side])
      BY <1>1, <2>1 DEF LaddersSame, LadderSame
    <2>3. LadderOK(h, side, s[side])
      BY DEF LaddersOK
    <2> QED
      BY <1>1, <2>2, <2>3, LadderKept
  <1>3. \A l \in 1 .. Len(g.levels) : l \notin Standing(s) => g.levels[l] = BlankLevel
    BY DEF LaddersOK, LaddersSame
  <1> QED
    BY <1>1, <1>2, <1>3 DEF LaddersOK, LaddersSame

\* The orders are in g what they are in h, and their levels look the same.
QueuesSame(h, g, s) ==
    /\ g \in Heap /\ g.orders = h.orders /\ g.orderPool = h.orderPool
    /\ \A l \in Standing(s) : SameLevel(g.levels[l], h.levels[l])

\* Queues depend on the orders and on what levels say of them only.
LEMMA QueuesKept ==
    ASSUME NEW h \in Heap, NEW s, NEW q, NEW spare, QueuesOK(h, s, q, spare),
           NEW g, QueuesSame(h, g, s)
    PROVE  QueuesOK(g, s, q, spare)
  <1>1. g \in Heap /\ g.orders = h.orders /\ Len(h.orders) \in Nat
    BY HeapFields DEF QueuesSame
  <1>2. ASSUME NEW side \in Side, NEW l \in Elems(s[side]) PROVE FifoOK(g, side, l, q[l])
    <2>1. SameLevel(g.levels[l], h.levels[l])
      BY DEF QueuesSame, Standing
    <2>2. FifoSame(h, g, l, q[l])
      BY <1>1, <2>1 DEF FifoSame
    <2>3. FifoOK(h, side, l, q[l])
      BY DEF QueuesOK
    <2> QED
      BY <2>2, <2>3, FifoKept
  <1> QED
    BY <1>2 DEF QueuesOK, QueuesSame

-----------------------------------------------------------------------------
(* What each operation on a part of the book makes of the whole            *)

\* An order taken out of its queue is in use, but in no queue.
LEMMA BookUnlinked ==
    ASSUME NEW h, NEW s, NEW q, Book(h, s, q, {}), NEW side \in Side, NEW l \in Elems(s[side]),
           NEW i \in 1 .. Len(q[l]), NEW x, x = q[l][i], NEW g, Unlinked(h, g, h.orders[x])
    PROVE  Book(g, s, Requeued(q, l, RemoveAt(q[l], i)), {x})
  <1> DEFINE m == Len(h.orders)
             r == RemoveAt(q[l], i)
             p == Requeued(q, l, r)
             o == h.orders[x]
  <1>1. /\ h \in Heap /\ m \in Nat /\ g \in Heap /\ Len(g.orders) = m
        /\ g.orderPool = h.orderPool /\ SameFrame(h, g)
    BY HeapFields, Zenon DEF Book, LaddersOK, Unlinked, SameFrame
  <1>2. /\ l \in Standing(s) /\ l \in 1 .. Len(h.levels) /\ l \in Nat
    BY StandingLevels DEF Standing, Book
  <1>3. FifoOK(h, side, l, q[l])
    BY DEF Book, QueuesOK
  <1>4. x \in Elems(q[l]) /\ x \in 1 .. m /\ o.level = l
    BY <1>1, <1>3, QueueNodes DEF Elems
  <1>5. DList(m, Nexts(h), Prevs(h), q[l])
    BY <1>3 DEF FifoOK
  <1>6. /\ o.next = 0 \/ o.next \in Elems(q[l])
        /\ o.prev = 0 \/ o.prev \in Elems(q[l])
    <2> HIDE DEF o
    <2>1. Nexts(h)[x] = o.next /\ Prevs(h)[x] = o.prev
      BY <1>4 DEF Nexts, Prevs, o
    <2> HIDE DEF m
    <2> QED
      BY <1>1, <1>4, <1>5, <2>1, LinksInside
  <1>7. /\ r \in Seq(Nat) /\ Elems(r) = Elems(q[l]) \ {x}
    <2>1. q[l] \in Seq(Nat)
      BY <1>2 DEF Book, QueuesOK
    <2>2. r \in Seq(Nat)
      BY <2>1, RemovedAndPutBack
    <2> HIDE DEF m
    <2>3. Elems(r) = Elems(q[l]) \ {x}
      BY <1>1, <1>5, ElemsWithout
    <2> QED
      BY <2>2, <2>3
  <1>8. q \in [Nat -> Seq(Nat)]
    BY DEF Book, QueuesOK
  <1>9. p \in [Nat -> Seq(Nat)] /\ p[l] = r /\ \A k \in Nat : k # l => p[k] = q[k]
    <2>1. l \in Nat /\ r \in Seq(Nat)
      BY <1>2, <1>7
    <2> HIDE DEF r
    <2>2. IsRequeued(Requeued(q, l, r), q, l, r)
      BY <1>8, <2>1, RequeuedIs
    <2> QED
      BY <2>2 DEF IsRequeued
  <1>10. Queued(s, p) = (Queued(s, q) \ Elems(q[l])) \cup Elems(r)
    <2> HIDE DEF r
    <2> QED
      BY <1>2, <1>7, RequeuedOrders
  <1>11. Elems(q[l]) \subseteq Queued(s, q)
    BY <1>2 DEF Queued
  <1>12. Queued(s, p) = Queued(s, q) \ {x}
    BY <1>4, <1>7, <1>10, <1>11
  <1>13. FifoOK(g, side, l, r)
    <2> HIDE DEF r
    <2> QED
      BY <1>1, <1>2, <1>3, FifoWithout DEF r
  <1> HIDE DEF p, r
  <1>14. LaddersOK(g, s)
    <2>1. LaddersSame(h, g, s)
      BY <1>1, <1>2, <1>4 DEF LaddersSame, SameFrame, Unlinked
    <2> QED
      BY <2>1, LaddersKept DEF Book
  <1>15. ASSUME NEW n \in 1 .. m, n \notin Elems(q[l])
         PROVE  /\ g.orders[n].next = h.orders[n].next /\ g.orders[n].prev = h.orders[n].prev
                /\ g.orders[n].level = h.orders[n].level /\ SameOrder(g.orders[n], h.orders[n])
    <2>1. n # o.next /\ n # o.prev
      BY <1>6, <1>15
    <2> QED
      BY <2>1, Zenon DEF Unlinked
  <1>16. ASSUME NEW a \in Side, NEW k \in Elems(s[a]) PROVE FifoOK(g, a, k, p[k])
    <2>1. k \in Standing(s) /\ k \in Nat /\ k \in 1 .. Len(h.levels)
      BY StandingLevels DEF Standing, Book
    <2>2. CASE k = l
      <3>1. a = side
        BY <2>2 DEF Book, LaddersOK
      <3> QED
        BY <1>9, <1>13, <2>2, <3>1
    <2>3. CASE k # l
      <3>1. p[k] = q[k] /\ FifoOK(h, a, k, q[k])
        BY <1>9, <2>1, <2>3 DEF Book, QueuesOK
      <3>2. \A j \in 1 .. Len(q[k]) : q[k][j] \in 1 .. m /\ q[k][j] \notin Elems(q[l])
        <4>1. ASSUME NEW n \in Elems(q[k]) PROVE n \in 1 .. m /\ n \notin Elems(q[l])
          <5>1. n \in 1 .. m /\ h.orders[n].level = k
            BY <2>1, QueuedOrders
          <5>2. n \in Elems(q[l]) => h.orders[n].level = l
            BY <1>2, QueuedOrders
          <5> QED
            BY <2>3, <5>1, <5>2
        <4>2. \A j \in 1 .. Len(q[k]) : q[k][j] \in Elems(q[k])
          BY DEF Elems
        <4> HIDE DEF m
        <4> QED
          BY <4>1, <4>2
      <3>3. SameLevel(g.levels[k], h.levels[k])
        BY <1>4, <2>1, <2>3 DEF Unlinked, SameLevel
      <3>4. FifoSame(h, g, k, q[k])
        BY <1>1, <1>15, <3>2, <3>3, SMTT(60) DEF FifoSame, SameOrder
      <3> QED
        BY <1>1, <3>1, <3>4, FifoKept
    <2> QED
      BY <2>2, <2>3
  <1>17. ASSUME NEW n \in 1 .. m, n \notin Queued(s, p), n # x PROVE g.orders[n] = BlankOrder
    <2>1. n \notin Queued(s, q) /\ n \notin Elems(q[l])
      BY <1>11, <1>12, <1>17
    <2>2. h.orders[n] = BlankOrder
      BY <2>1 DEF Book, QueuesOK
    <2>3. g.orders[n] \in OrderNode /\ h.orders[n] \in OrderNode
      BY <1>1, HeapFields
    <2>4. g.orders[n] = h.orders[n]
      BY <1>15, <2>1, <2>3, NodesEqual
    <2> QED
      BY <2>2, <2>4
  <1>18. x \in Queued(s, q) /\ InUse(g.orderPool) = Queued(s, p) \cup {x}
    <2>1. InUse(g.orderPool) = Queued(s, q)
      BY <1>1 DEF Book, QueuesOK
    <2> QED
      BY <1>4, <1>11, <1>12, <2>1
  <1>19. PoolOK(g.orderPool) /\ g.orderPool.capacity = Len(g.orders)
    BY <1>1 DEF Book, QueuesOK
  <1>20. \A n \in {x} : n \notin Queued(s, p)
    BY <1>12
  <1>21. QueuesOK(g, s, p, {x})
    BY <1>1, <1>9, <1>16, <1>17, <1>18, <1>19, <1>20 DEF QueuesOK
  <1> QED
    BY <1>14, <1>21 DEF Book, p, r

\* A node given back is free.
LEMMA BookFreed ==
    ASSUME NEW h, NEW s, NEW q, NEW x, Book(h, s, q, {x}), NEW g, OrderFreed(h, g, x)
    PROVE  Book(g, s, q, {})
  <1> DEFINE m == Len(h.orders)
  <1>1. /\ h \in Heap /\ m \in Nat /\ g \in Heap /\ Len(g.orders) = m /\ g.levels = h.levels
        /\ \A n \in 1 .. m : n # x => g.orders[n] = h.orders[n]
    BY HeapFields DEF Book, LaddersOK, OrderFreed
  <1>2. x \in InUse(h.orderPool) /\ x \notin Queued(s, q) /\ InUse(h.orderPool) = Queued(s, q) \cup {x}
        /\ PoolOK(h.orderPool) /\ h.orderPool.capacity = m
    BY DEF Book, QueuesOK
  <1>3. /\ PoolOK(g.orderPool) /\ g.orderPool.capacity = m
        /\ InUse(g.orderPool) = Queued(s, q)
    <2>1. g.orderPool = Dealloc(h.orderPool, x)
      BY DEF OrderFreed
    <2>2. /\ PoolOK(Dealloc(h.orderPool, x))
          /\ Dealloc(h.orderPool, x).capacity = h.orderPool.capacity
          /\ InUse(Dealloc(h.orderPool, x)) = InUse(h.orderPool) \ {x}
      BY <1>2, ObjectReturned
    <2> QED
      BY <1>2, <2>1, <2>2
  <1>4. LaddersOK(g, s)
    <2>1. LaddersSame(h, g, s)
      BY <1>1 DEF LaddersSame, OrderFreed
    <2> QED
      BY <2>1, LaddersKept DEF Book
  <1>5. ASSUME NEW a \in Side, NEW k \in Elems(s[a]) PROVE FifoOK(g, a, k, q[k])
    <2>1. FifoOK(h, a, k, q[k])
      BY DEF Book, QueuesOK
    <2>2. k \in Standing(s)
      BY DEF Standing
    <2>3. \A j \in 1 .. Len(q[k]) : q[k][j] \in 1 .. m /\ q[k][j] # x
      <3> SUFFICES ASSUME NEW j \in 1 .. Len(q[k]) PROVE q[k][j] \in 1 .. m /\ q[k][j] # x
        OBVIOUS
      <3>1. q[k][j] \in Queued(s, q)
        BY <2>2 DEF Queued, Elems
      <3> QED
        BY <1>1, <1>2, <2>1, <3>1, QueueNodes
    <2>4. FifoSame(h, g, k, q[k])
      BY <1>1, <2>3 DEF FifoSame, SameLevel
    <2> QED
      BY <1>1, <2>1, <2>4, FifoKept
  <1>6. \A n \in 1 .. m : n \notin Queued(s, q) => g.orders[n] = BlankOrder
    BY <1>1 DEF Book, QueuesOK, OrderFreed
  <1>7. q \in [Nat -> Seq(Nat)]
    BY DEF Book, QueuesOK
  <1>8. QueuesOK(g, s, q, {})
    BY <1>1, <1>3, <1>5, <1>6, <1>7 DEF QueuesOK
  <1> QED
    BY <1>4, <1>8 DEF Book

\* A node taken and filled in is in use, but in no queue.
LEMMA BookTaken ==
    ASSUME NEW h, NEW s, NEW q, Book(h, s, q, {}), NEW x, NEW pool, NEW t,
           x = Allocated(h.orderPool, OrderSlab), pool = Alloc(h.orderPool, OrderSlab),
           NEW g, OrderTaken(h, g, t, x, pool)
    PROVE  Book(g, s, q, {x})
  <1> DEFINE m == Len(h.orders)
             c == pool.capacity
  <1>1. h \in Heap /\ m \in Nat /\ PoolOK(h.orderPool) /\ h.orderPool.capacity = m
        /\ InUse(h.orderPool) = Queued(s, q)
    BY HeapFields DEF Book, LaddersOK, QueuesOK
  <1>2. /\ PoolOK(pool) /\ c >= m /\ x \in 1 .. c /\ x \notin Queued(s, q)
        /\ InUse(pool) = Queued(s, q) \cup {x}
    <2>1. OrderSlab \in Nat \ {0}
      BY SlabAssumption
    <2>2. /\ PoolOK(Alloc(h.orderPool, OrderSlab))
          /\ Alloc(h.orderPool, OrderSlab).capacity >= h.orderPool.capacity
          /\ Allocated(h.orderPool, OrderSlab) \in 1 .. Alloc(h.orderPool, OrderSlab).capacity
          /\ Allocated(h.orderPool, OrderSlab) \notin InUse(h.orderPool)
          /\ InUse(Alloc(h.orderPool, OrderSlab)) =
                InUse(h.orderPool) \cup {Allocated(h.orderPool, OrderSlab)}
      BY <1>1, <2>1, ObjectTaken
    <2> QED
      BY <1>1, <2>2
  <1>3. c \in Nat
    BY <1>2 DEF PoolOK, PoolState
  <1>4. /\ g \in Heap /\ Len(g.orders) = c /\ g.levels = h.levels /\ g.orderPool = pool
        /\ \A n \in 1 .. c : n # x =>
              g.orders[n] = IF n \in 1 .. m THEN h.orders[n] ELSE BlankOrder
    BY DEF OrderTaken
  <1> HIDE DEF m, c
  <1>5. LaddersOK(g, s)
    <2>1. LaddersSame(h, g, s)
      BY <1>4 DEF LaddersSame, OrderTaken
    <2> QED
      BY <2>1, LaddersKept DEF Book
  <1>6. ASSUME NEW a \in Side, NEW k \in Elems(s[a]) PROVE FifoOK(g, a, k, q[k])
    <2>1. FifoOK(h, a, k, q[k])
      BY DEF Book, QueuesOK
    <2>2. k \in Standing(s)
      BY DEF Standing
    <2>3. \A j \in 1 .. Len(q[k]) : q[k][j] \in 1 .. m /\ q[k][j] \in 1 .. c /\ q[k][j] # x
      <3> SUFFICES ASSUME NEW j \in 1 .. Len(q[k])
                   PROVE  q[k][j] \in 1 .. m /\ q[k][j] \in 1 .. c /\ q[k][j] # x
        OBVIOUS
      <3>1. q[k][j] \in Queued(s, q)
        BY <2>2 DEF Queued, Elems
      <3>2. q[k][j] \in 1 .. m
        BY <1>1, <2>1, QueueNodes DEF m
      <3> QED
        BY <1>1, <1>2, <1>3, <3>1, <3>2
    <2>4. \A j \in 1 .. Len(q[k]) : g.orders[q[k][j]] = h.orders[q[k][j]]
      BY <1>4, <2>3
    <2>5. FifoSame(h, g, k, q[k])
      BY <1>2, <1>4, <2>4 DEF FifoSame, SameLevel, m
    <2> QED
      BY <1>1, <2>1, <2>5, FifoKept
  <1>7. \A n \in 1 .. c : n \notin Queued(s, q) /\ n # x => g.orders[n] = BlankOrder
    BY <1>4 DEF Book, QueuesOK, m
  <1>8. q \in [Nat -> Seq(Nat)]
    BY DEF Book, QueuesOK
  <1>9. QueuesOK(g, s, q, {x})
    BY <1>2, <1>4, <1>6, <1>7, <1>8 DEF QueuesOK, c
  <1> QED
    BY <1>5, <1>9 DEF Book

\* The levels standing when one ladder has been replaced.
LEMMA ReladderedLevels ==
    ASSUME NEW h, NEW s, LaddersOK(h, s), NEW side \in Side, NEW r \in Seq(Nat)
    PROVE  Standing(Reladdered(s, side, r)) = (Standing(s) \ Elems(s[side])) \cup Elems(r)
  <1> DEFINE p == Reladdered(s, side, r)
  <1>1. s \in [Side -> Seq(Nat)]
    BY DEF LaddersOK
  <1>2. p[side] = r /\ \A a \in Side : a # side => p[a] = s[a]
    <2>1. IsReladdered(Reladdered(s, side, r), s, side, r)
      BY <1>1, ReladderedIs
    <2> QED
      BY <2>1 DEF IsReladdered
  <1> HIDE DEF p
  <1>3. \A a, b \in Side : \A l \in Elems(s[a]) : l \in Elems(s[b]) => a = b
    BY DEF LaddersOK
  <1>4. ASSUME NEW l \in Standing(p) PROVE l \in (Standing(s) \ Elems(s[side])) \cup Elems(r)
    <2>1. PICK a \in Side : l \in Elems(p[a])
      BY DEF Standing
    <2>2. CASE a = side
      BY <1>2, <2>1, <2>2
    <2>3. CASE a # side
      <3>1. l \in Elems(s[a])
        BY <1>2, <2>1, <2>3
      <3>2. l \notin Elems(s[side])
        BY <1>3, <2>3, <3>1
      <3> QED
        BY <3>1, <3>2 DEF Standing
    <2> QED
      BY <2>2, <2>3
  <1>5. ASSUME NEW l \in Standing(s), l \notin Elems(s[side]) PROVE l \in Standing(p)
    <2>1. PICK a \in Side : l \in Elems(s[a])
      BY DEF Standing
    <2>2. a # side
      BY <1>5, <2>1
    <2>3. l \in Elems(p[a])
      BY <1>2, <2>1, <2>2
    <2> QED
      BY <2>3 DEF Standing
  <1>6. Elems(r) \subseteq Standing(p)
    BY <1>2 DEF Standing
  <1>7. Standing(p) = (Standing(s) \ Elems(s[side])) \cup Elems(r)
    BY <1>4, <1>5, <1>6
  <1> QED
    BY <1>7 DEF p

\* A level without orders taken out of its ladder is free.
LEMMA BookLevelRemoved ==
    ASSUME NEW h, NEW s, NEW q, NEW spare, Book(h, s, q, spare), NEW side \in Side,
           NEW i \in 1 .. Len(s[side]), NEW l, l = s[side][i], q[l] = <<>>,
           NEW g, LevelRemoved(h, g, side, l, h.levels[l])
    PROVE  Book(g, Reladdered(s, side, RemoveAt(s[side], i)), q, spare)
  <1> DEFINE m == Len(h.levels)
             r == RemoveAt(s[side], i)
             p == Reladdered(s, side, r)
             x == h.levels[l]
  <1>1. /\ h \in Heap /\ m \in Nat /\ g \in Heap /\ Len(g.levels) = m
        /\ PoolOK(h.levelPool) /\ h.levelPool.capacity = m /\ InUse(h.levelPool) = Standing(s)
        /\ LaddersOK(h, s)
    BY HeapFields DEF Book, LaddersOK, LevelRemoved
  <1>2. l \in Elems(s[side]) /\ l \in Standing(s) /\ l \in 1 .. m
    BY <1>1, LadderNodes, SMTT(60) DEF Elems
  <1>3. LadderOK(h, side, s[side]) /\ DList(m, Worses(h), Betters(h), s[side])
    BY <1>1 DEF LaddersOK, LadderOK
  <1>4. /\ x.worse = 0 \/ x.worse \in Elems(s[side])
        /\ x.better = 0 \/ x.better \in Elems(s[side])
    <2> HIDE DEF x
    <2>1. Worses(h)[l] = x.worse /\ Betters(h)[l] = x.better
      BY <1>2 DEF Worses, Betters, x
    <2> HIDE DEF m
    <2> QED
      BY <1>1, <1>2, <1>3, <2>1, LinksInside
  <1>5. r \in Seq(Nat) /\ Elems(r) = Elems(s[side]) \ {l}
    <2>1. s[side] \in Seq(Nat)
      BY <1>1 DEF LaddersOK
    <2>2. r \in Seq(Nat)
      BY <2>1, RemovedAndPutBack
    <2> HIDE DEF m
    <2>3. Elems(r) = Elems(s[side]) \ {l}
      BY <1>1, <1>3, ElemsWithout
    <2> QED
      BY <2>2, <2>3
  <1>6. p \in [Side -> Seq(Nat)] /\ p[side] = r /\ \A a \in Side : a # side => p[a] = s[a]
    <2>1. r \in Seq(Nat) /\ s \in [Side -> Seq(Nat)]
      BY <1>1, <1>5 DEF LaddersOK
    <2> HIDE DEF r
    <2>2. IsReladdered(Reladdered(s, side, r), s, side, r)
      BY <2>1, ReladderedIs
    <2> QED
      BY <2>2 DEF IsReladdered
  <1>7. Standing(p) = Standing(s) \ {l}
    <2>1. r \in Seq(Nat)
      BY <1>5
    <2> HIDE DEF r
    <2>2. Standing(p) = (Standing(s) \ Elems(s[side])) \cup Elems(r)
      BY <1>1, <2>1, ReladderedLevels
    <2> HIDE DEF p
    <2>3. Elems(s[side]) \subseteq Standing(s)
      BY <1>1, LadderNodes
    <2> QED
      BY <1>2, <1>5, <2>2, <2>3
  <1>8. LadderOK(g, side, r)
    BY <1>1, <1>3, LadderWithout
  <1> HIDE DEF p, r
  <1>9. ASSUME NEW k \in 1 .. m, k \notin Elems(s[side])
        PROVE  /\ g.levels[k].worse = h.levels[k].worse /\ g.levels[k].better = h.levels[k].better
               /\ SameLevel(g.levels[k], h.levels[k])
    <2>1. k # x.worse /\ k # x.better /\ k # l
      BY <1>2, <1>4, <1>9
    <2> QED
      BY <2>1 DEF LevelRemoved
  <1>10. \A k \in 1 .. m : k # l => SameLevel(g.levels[k], h.levels[k])
    BY DEF LevelRemoved
  <1>11. ASSUME NEW a \in Side PROVE LadderOK(g, a, p[a])
    <2>1. CASE a = side
      BY <1>6, <1>8, <2>1
    <2>2. CASE a # side
      <3>1. p[a] = s[a] /\ LadderOK(h, a, s[a])
        BY <1>1, <1>6, <2>2 DEF LaddersOK
      <3>2. \A j \in 1 .. Len(s[a]) : s[a][j] \in 1 .. m /\ s[a][j] \notin Elems(s[side])
        <4>1. ASSUME NEW k \in Elems(s[a]) PROVE k \in 1 .. m /\ k \notin Elems(s[side])
          BY <1>1, <2>2, LadderNodes DEF LaddersOK
        <4>2. \A j \in 1 .. Len(s[a]) : s[a][j] \in Elems(s[a])
          BY DEF Elems
        <4> HIDE DEF m
        <4> QED
          BY <4>1, <4>2
      <3>3. g.best[a] = h.best[a] /\ g.byPrice[a] = h.byPrice[a]
        BY <1>1, <2>2, HeapFields DEF LevelRemoved
      <3>4. LadderSame(h, g, a, s[a])
        BY <1>1, <1>9, <3>2, <3>3, SMTT(60) DEF LadderSame, SameLevel
      <3> QED
        BY <1>1, <3>1, <3>4, LadderKept
    <2> QED
      BY <2>1, <2>2
  <1>12. /\ PoolOK(g.levelPool) /\ g.levelPool.capacity = m
         /\ InUse(g.levelPool) = Standing(p)
    <2>1. g.levelPool = Dealloc(h.levelPool, l)
      BY DEF LevelRemoved
    <2>2. /\ PoolOK(Dealloc(h.levelPool, l))
          /\ Dealloc(h.levelPool, l).capacity = h.levelPool.capacity
          /\ InUse(Dealloc(h.levelPool, l)) = InUse(h.levelPool) \ {l}
      BY <1>1, <1>2, ObjectReturned
    <2> QED
      BY <1>1, <1>7, <2>1, <2>2
  <1>13. ASSUME NEW k \in 1 .. m, k \notin Standing(p) PROVE g.levels[k] = BlankLevel
    <2>1. CASE k = l
      BY <2>1 DEF LevelRemoved
    <2>2. CASE k # l
      <3>1. k \notin Standing(s) /\ k \notin Elems(s[side])
        BY <1>1, <1>7, <1>13, <2>2, LadderNodes
      <3>2. h.levels[k] = BlankLevel
        BY <1>1, <3>1 DEF LaddersOK
      <3>3. g.levels[k] \in LevelNode /\ h.levels[k] \in LevelNode
        BY <1>1, HeapFields
      <3>4. g.levels[k] = h.levels[k]
        BY <1>9, <3>1, <3>3, NodesEqual
      <3> QED
        BY <3>2, <3>4
    <2> QED
      BY <2>1, <2>2
  <1>14. \A a, b \in Side : \A k \in Elems(p[a]) : k \in Elems(p[b]) => a = b
    <2>1. \A a \in Side : Elems(p[a]) \subseteq Elems(s[a])
      BY <1>5, <1>6
    <2>2. \A a, b \in Side : \A k \in Elems(s[a]) : k \in Elems(s[b]) => a = b
      BY <1>1 DEF LaddersOK
    <2> QED
      BY <2>1, <2>2
  <1>15. LaddersOK(g, p)
    BY <1>1, <1>6, <1>11, <1>12, <1>13, <1>14 DEF LaddersOK
  <1>16. Queued(p, q) = Queued(s, q)
    <2>1. Elems(q[l]) = {}
      BY DEF Elems
    <2>2. \A n : (\E k \in Standing(s) : n \in Elems(q[k])) <=> (\E k \in Standing(p) : n \in Elems(q[k]))
      BY <1>7, <2>1
    <2> QED
      BY <2>2 DEF Queued
  <1>17. QueuesOK(h, p, q, spare)
    <2>1. \A a \in Side : Elems(p[a]) \subseteq Elems(s[a])
      BY <1>5, <1>6
    <2> QED
      BY <1>16, <2>1 DEF Book, QueuesOK
  <1>18. QueuesSame(h, g, p)
    <2>1. \A k \in Standing(p) : k \in 1 .. m /\ k # l
      BY <1>1, <1>7, StandingLevels
    <2> QED
      BY <1>10, <2>1 DEF QueuesSame, LevelRemoved
  <1>19. QueuesOK(g, p, q, spare)
    BY <1>1, <1>17, <1>18, QueuesKept
  <1> QED
    BY <1>15, <1>19 DEF Book, p, r

\* A new level linked into its ladder has no orders yet.
LEMMA BookLevelLinked ==
    ASSUME NEW h, NEW s, NEW q, NEW spare, Book(h, s, q, spare), NEW side \in Side,
           NEW price \in Price, h.byPrice[side][price] = Nil,
           NEW j, Goes(h, side, s[side], price, j), NEW l, NEW pool,
           l = Allocated(h.levelPool, LevelSlab), pool = Alloc(h.levelPool, LevelSlab),
           NEW g, LevelLinked(h, g, side, price, l, pool, IF j = 0 THEN 0 ELSE s[side][j],
                              IF j = Len(s[side]) THEN 0 ELSE s[side][j + 1])
    PROVE  Book(g, Reladdered(s, side, With(s[side], j, l)), Requeued(q, l, <<>>), spare)
  <1> DEFINE m == Len(h.levels)
             c == pool.capacity
             r == With(s[side], j, l)
             p == Reladdered(s, side, r)
             e == <<>>
             u == Requeued(q, l, e)
             pos == IF j = 0 THEN 0 ELSE s[side][j]
             worse == IF j = Len(s[side]) THEN 0 ELSE s[side][j + 1]
  <1>1. /\ h \in Heap /\ m \in Nat
        /\ PoolOK(h.levelPool) /\ h.levelPool.capacity = m /\ InUse(h.levelPool) = Standing(s)
        /\ LaddersOK(h, s)
    BY HeapFields DEF Book, LaddersOK
  <1>2. /\ PoolOK(pool) /\ c >= m /\ l \in 1 .. c /\ l \notin Standing(s)
        /\ InUse(pool) = Standing(s) \cup {l}
    <2>1. LevelSlab \in Nat \ {0}
      BY SlabAssumption
    <2>2. /\ PoolOK(Alloc(h.levelPool, LevelSlab))
          /\ Alloc(h.levelPool, LevelSlab).capacity >= h.levelPool.capacity
          /\ Allocated(h.levelPool, LevelSlab) \in 1 .. Alloc(h.levelPool, LevelSlab).capacity
          /\ Allocated(h.levelPool, LevelSlab) \notin InUse(h.levelPool)
          /\ InUse(Alloc(h.levelPool, LevelSlab)) =
                InUse(h.levelPool) \cup {Allocated(h.levelPool, LevelSlab)}
      BY <1>1, <2>1, ObjectTaken
    <2> QED
      BY <1>1, <2>2
  <1>3. c \in Nat /\ l \in Nat
    BY <1>2 DEF PoolOK, PoolState
  <1>4. LadderOK(h, side, s[side])
    BY <1>1 DEF LaddersOK
  <1>5. /\ g \in Heap /\ Len(g.levels) = c /\ g.orders = h.orders /\ g.orderPool = h.orderPool
        /\ g.levelPool = pool
    BY DEF LevelLinked
  <1>6. \A i \in 1 .. Len(s[side]) : s[side][i] # l
    BY <1>2, LadderNodes DEF Elems, Book
  <1>7. LadderOK(g, side, r)
    BY <1>1, <1>2, <1>3, <1>4, <1>6, LadderWith
  <1>8. s[side] \in Seq(Nat) /\ j \in 0 .. Len(s[side]) /\ Len(s[side]) \in Nat
    BY <1>1 DEF LaddersOK, Goes
  <1>9. r \in Seq(Nat) /\ Elems(r) = Elems(s[side]) \cup {l}
    <2>1. \A i \in 1 .. (Len(s[side]) + 1) :
              (IF i <= j THEN s[side][i] ELSE IF i = j + 1 THEN l ELSE s[side][i - 1]) \in Nat
      <3>1. \A i \in 1 .. Len(s[side]) : s[side][i] \in Nat
        BY <1>8
      <3> SUFFICES ASSUME NEW i \in 1 .. (Len(s[side]) + 1)
                   PROVE  (IF i <= j THEN s[side][i] ELSE IF i = j + 1 THEN l ELSE s[side][i - 1]) \in Nat
        OBVIOUS
      <3>2. /\ i <= j => i \in 1 .. Len(s[side])
            /\ ~(i <= j) /\ i # j + 1 => i - 1 \in 1 .. Len(s[side])
        BY <1>8
      <3> QED
        BY <1>3, <3>1, <3>2
    <2>2. r \in Seq(Nat)
      BY <1>8, <2>1 DEF With
    <2>3. Elems(With(s[side], j, l)) = Elems(s[side]) \cup {l}
      BY <1>8, WithPlaces
    <2> QED
      BY <2>2, <2>3
  <1>10. p \in [Side -> Seq(Nat)] /\ p[side] = r /\ \A a \in Side : a # side => p[a] = s[a]
    <2>1. r \in Seq(Nat) /\ s \in [Side -> Seq(Nat)]
      BY <1>1, <1>9 DEF LaddersOK
    <2> HIDE DEF r
    <2>2. IsReladdered(Reladdered(s, side, r), s, side, r)
      BY <2>1, ReladderedIs
    <2> QED
      BY <2>2 DEF IsReladdered
  <1>11. Standing(p) = Standing(s) \cup {l}
    <2>1. r \in Seq(Nat)
      BY <1>9
    <2> HIDE DEF r
    <2>2. Standing(p) = (Standing(s) \ Elems(s[side])) \cup Elems(r)
      BY <1>1, <2>1, ReladderedLevels
    <2> HIDE DEF p
    <2>3. Elems(s[side]) \subseteq Standing(s)
      BY <1>1, LadderNodes
    <2> QED
      BY <1>9, <2>2, <2>3
  <1> HIDE DEF p, r
  <1>12. /\ pos = 0 \/ pos \in Elems(s[side])
         /\ worse = 0 \/ worse \in Elems(s[side])
    <2>1. /\ j # 0 => j \in 1 .. Len(s[side])
          /\ j # Len(s[side]) => j + 1 \in 1 .. Len(s[side])
      BY <1>8
    <2> QED
      BY <2>1 DEF Elems
  <1>13. /\ LevelLinked(h, g, side, price, l, pool, pos, worse)
    OBVIOUS
  <1> HIDE DEF pos, worse
  <1>14. \A k \in 1 .. c : k # l => SameLevel(g.levels[k], OldLevel(h, k))
    BY <1>13 DEF LevelLinked
  <1>15. ASSUME NEW k \in 1 .. c, k # l, k \notin Elems(s[side])
         PROVE  /\ g.levels[k].worse = OldLevel(h, k).worse
                /\ g.levels[k].better = OldLevel(h, k).better
    <2>1. k # pos /\ k # worse
      BY <1>12, <1>15
    <2> QED
      BY <1>13, <1>15, <2>1 DEF LevelLinked
  <1>16. ASSUME NEW a \in Side PROVE LadderOK(g, a, p[a])
    <2>1. CASE a = side
      BY <1>7, <1>10, <2>1
    <2>2. CASE a # side
      <3>1. p[a] = s[a] /\ LadderOK(h, a, s[a])
        BY <1>1, <1>10, <2>2 DEF LaddersOK
      <3>2. \A i \in 1 .. Len(s[a]) : /\ s[a][i] \in 1 .. m /\ s[a][i] \in 1 .. c /\ s[a][i] # l
                                      /\ s[a][i] \notin Elems(s[side])
        <4>1. ASSUME NEW k \in Elems(s[a])
              PROVE k \in 1 .. m /\ k \in 1 .. c /\ k # l /\ k \notin Elems(s[side])
          <5>1. k \in 1 .. m /\ k \in Standing(s)
            BY <1>1, LadderNodes
          <5>2. k \notin Elems(s[side])
            BY <1>1, <2>2 DEF LaddersOK
          <5> QED
            BY <1>1, <1>2, <1>3, <5>1, <5>2
        <4>2. \A i \in 1 .. Len(s[a]) : s[a][i] \in Elems(s[a])
          BY DEF Elems
        <4> HIDE DEF m, c
        <4> QED
          BY <4>1, <4>2
      <3>3. g.best[a] = h.best[a] /\ g.byPrice[a] = h.byPrice[a]
        BY <1>1, <2>2, HeapFields DEF LevelLinked
      <3>4. LadderSame(h, g, a, s[a])
        BY <1>2, <1>5, <1>14, <1>15, <3>2, <3>3 DEF LadderSame, SameLevel, OldLevel
      <3> QED
        BY <1>1, <3>1, <3>4, LadderKept
    <2> QED
      BY <2>1, <2>2
  <1>17. ASSUME NEW k \in 1 .. c, k \notin Standing(p) PROVE g.levels[k] = BlankLevel
    <2>1. k # l /\ k \notin Standing(s) /\ k \notin Elems(s[side])
      BY <1>1, <1>11, <1>17, LadderNodes
    <2>2. OldLevel(h, k) = BlankLevel
      BY <1>1, <2>1 DEF LaddersOK, OldLevel
    <2>3. g.levels[k] \in LevelNode
      BY <1>5, HeapFields
    <2>4. BlankLevel \in LevelNode
      BY BlankLevelTyped
    <2>5. /\ g.levels[k].worse = BlankLevel.worse /\ g.levels[k].better = BlankLevel.better
          /\ SameLevel(g.levels[k], BlankLevel)
      BY <1>14, <1>15, <2>1, <2>2
    <2> QED
      BY <2>3, <2>4, <2>5, NodesEqual
  <1>18. \A a, b \in Side : \A k \in Elems(p[a]) : k \in Elems(p[b]) => a = b
    <2>1. \A a \in Side : Elems(p[a]) = IF a = side THEN Elems(s[a]) \cup {l} ELSE Elems(s[a])
      BY <1>9, <1>10
    <2>2. \A a \in Side : l \notin Elems(s[a])
      BY <1>2 DEF Standing
    <2>3. \A a, b \in Side : \A k \in Elems(s[a]) : k \in Elems(s[b]) => a = b
      BY <1>1 DEF LaddersOK
    <2> QED
      BY <2>1, <2>2, <2>3, ZenonT(60)
  <1>19. LaddersOK(g, p)
    BY <1>2, <1>5, <1>10, <1>11, <1>16, <1>17, <1>18 DEF LaddersOK
  <1>20. u \in [Nat -> Seq(Nat)] /\ u[l] = e /\ \A k \in Nat : k # l => u[k] = q[k]
    <2>1. q \in [Nat -> Seq(Nat)] /\ e \in Seq(Nat) /\ l \in Nat
      BY <1>3 DEF Book, QueuesOK
    <2> HIDE DEF e
    <2>2. IsRequeued(Requeued(q, l, e), q, l, e)
      BY <2>1, RequeuedIs
    <2> QED
      BY <2>2 DEF IsRequeued
  <1> HIDE DEF u
  <1>21. \A k \in Standing(s) : k \in Nat /\ k \in 1 .. m /\ k # l
    BY <1>1, <1>2, StandingLevels
  <1>22. Queued(p, u) = Queued(s, q)
    <2>1. Elems(u[l]) = {}
      BY <1>20 DEF Elems
    <2>2. \A n : (\E k \in Standing(s) : n \in Elems(q[k])) <=> (\E k \in Standing(p) : n \in Elems(u[k]))
      BY <1>11, <1>20, <1>21, <2>1
    <2> QED
      BY <2>2 DEF Queued
  <1>23. ASSUME NEW a \in Side, NEW k \in Elems(p[a]) PROVE FifoOK(g, a, k, u[k])
    <2>1. CASE k = l
      <3>1. SameLevel(g.levels[l], [BlankLevel EXCEPT !.price = price])
        BY <1>13 DEF LevelLinked
      <3>2. /\ g.levels[l].front = Nil /\ g.levels[l].back = Nil
            /\ g.levels[l].order_count = 0 /\ g.levels[l].total_qty = 0
        BY <3>1 DEF SameLevel, BlankLevel
      <3>3. FifoOK(g, a, l, <<>>)
        BY <1>5, <3>2, FifoOfNone
      <3> QED
        BY <1>20, <2>1, <3>3
    <2>2. CASE k # l
      <3>1. k \in Elems(s[a])
        BY <1>9, <1>10, <2>2
      <3>2. k \in Standing(s)
        BY <3>1 DEF Standing
      <3>3. FifoOK(h, a, k, q[k]) /\ u[k] = q[k]
        BY <1>20, <1>21, <2>2, <3>1, <3>2 DEF Book, QueuesOK
      <3>4. k \in 1 .. m /\ k \in 1 .. c
        BY <1>1, <1>2, <1>3, <1>21, <3>2
      <3>5. SameLevel(g.levels[k], h.levels[k])
        BY <1>14, <2>2, <3>4 DEF OldLevel
      <3>6. FifoSame(h, g, k, q[k])
        BY <1>1, <1>5, <3>5, HeapFields DEF FifoSame
      <3> QED
        BY <1>1, <3>3, <3>6, FifoKept
    <2> QED
      BY <2>1, <2>2
  <1>24. QueuesOK(g, p, u, spare)
    BY <1>5, <1>20, <1>22, <1>23 DEF QueuesOK, Book
  <1> QED
    BY <1>19, <1>24 DEF Book, p, r, u, e

\* Queueing a node that is in use, but in no queue.
LEMMA BookPushed ==
    ASSUME NEW h, NEW s, NEW q, NEW x, Book(h, s, q, {x}), NEW side \in Side,
           NEW l \in Elems(s[side]), h.orders[x].side = side,
           h.orders[x].price = h.levels[l].price,
           NEW g, Pushed(h, g, l, x, h.levels[l].back)
    PROVE  Book(g, s, Requeued(q, l, With(q[l], Len(q[l]), x)), {})
  <1> DEFINE m == Len(h.orders)
             n == Len(q[l])
             r == With(q[l], n, x)
             p == Requeued(q, l, r)
             back == h.levels[l].back
  <1>1. /\ h \in Heap /\ m \in Nat /\ g \in Heap /\ Len(g.orders) = m
        /\ g.orderPool = h.orderPool /\ SameFrame(h, g)
    BY HeapFields DEF Book, LaddersOK, Pushed, SameFrame
  <1>2. /\ l \in Standing(s) /\ l \in 1 .. Len(h.levels) /\ l \in Nat
    BY StandingLevels DEF Standing, Book
  <1>3. FifoOK(h, side, l, q[l])
    BY DEF Book, QueuesOK
  <1>4. /\ PoolOK(h.orderPool) /\ h.orderPool.capacity = m
        /\ InUse(h.orderPool) = Queued(s, q) \cup {x} /\ x \notin Queued(s, q)
    BY DEF Book, QueuesOK
  <1>5. x \in 1 .. m
    BY <1>1, <1>4, PoolRecord DEF PoolOK
  <1>6. /\ q[l] \in Seq(1 .. m) /\ n \in Nat
        /\ \A i \in 1 .. n : q[l][i] \in 1 .. m
        /\ Elems(q[l]) \subseteq 1 .. m
    BY <1>1, <1>3, QueueNodes
  <1>7. Elems(q[l]) \subseteq Queued(s, q)
    BY <1>2 DEF Queued
  <1>8. \A i \in 1 .. n : q[l][i] # x
    BY <1>4, <1>7 DEF Elems
  <1>9. FifoOK(g, side, l, r)
    BY <1>1, <1>2, <1>3, <1>5, <1>8, FifoWith
  <1>10. back = 0 \/ back \in Elems(q[l])
    <2>1. back = LastOf(q[l])
      BY <1>3 DEF FifoOK
    <2>2. q[l] # <<>> => n \in 1 .. n
      <3> DEFINE S == 1 .. m
      <3>1. q[l] \in Seq(S)
        BY <1>6
      <3> HIDE DEF S
      <3>2. q[l] # <<>> => Len(q[l]) # 0
        BY <3>1
      <3> QED
        BY <1>6, <3>2
    <2> QED
      BY <2>1, <2>2 DEF LastOf, Elems
  <1> HIDE DEF back
  <1>11. /\ r \in Seq(Nat) /\ Elems(r) = Elems(q[l]) \cup {x}
    <2>1. q[l] \in Seq(Nat) /\ n \in 0 .. n
      BY <1>2, <1>6 DEF Book, QueuesOK
    <2>2. Elems(With(q[l], n, x)) = Elems(q[l]) \cup {x}
      BY <2>1, WithPlaces
    <2>3. \A i \in 1 .. (n + 1) : (IF i <= n THEN q[l][i] ELSE IF i = n + 1 THEN x ELSE q[l][i - 1]) \in Nat
      <3> SUFFICES ASSUME NEW i \in 1 .. (n + 1)
                   PROVE  (IF i <= n THEN q[l][i] ELSE IF i = n + 1 THEN x ELSE q[l][i - 1]) \in Nat
        OBVIOUS
      <3>1. i <= n => i \in 1 .. n
        BY <1>6
      <3>2. \A k \in 1 .. n : q[l][k] \in Nat
        BY <1>1, <1>6
      <3>3. x \in Nat /\ (~(i <= n) => i = n + 1)
        BY <1>5, <1>6
      <3> QED
        BY <3>1, <3>2, <3>3
    <2>4. r \in Seq(Nat)
      BY <1>6, <2>3 DEF With
    <2> QED
      BY <2>2, <2>4
  <1>12. q \in [Nat -> Seq(Nat)]
    BY DEF Book, QueuesOK
  <1>13. p \in [Nat -> Seq(Nat)] /\ p[l] = r /\ \A k \in Nat : k # l => p[k] = q[k]
    <2>1. l \in Nat /\ r \in Seq(Nat)
      BY <1>2, <1>11
    <2> HIDE DEF r, n, m
    <2>2. IsRequeued(Requeued(q, l, r), q, l, r)
      BY <1>12, <2>1, RequeuedIs
    <2> QED
      BY <2>2 DEF IsRequeued
  <1>14. Queued(s, p) = Queued(s, q) \cup {x}
    <2>1. r \in Seq(Nat)
      BY <1>11
    <2> HIDE DEF r
    <2>2. Queued(s, p) = (Queued(s, q) \ Elems(q[l])) \cup Elems(r)
      BY <1>2, <2>1, RequeuedOrders
    <2> HIDE DEF p
    <2>3. Elems(r) = Elems(q[l]) \cup {x}
      BY <1>11
    <2>4. Elems(q[l]) \subseteq Queued(s, q)
      BY <1>7
    <2> QED
      BY <2>2, <2>3, <2>4, Zenon
  <1> HIDE DEF p, r
  <1>15. LaddersOK(g, s)
    <2>1. LaddersSame(h, g, s)
      BY <1>1, <1>2 DEF LaddersSame, SameFrame, Pushed
    <2> QED
      BY <2>1, LaddersKept DEF Book
  <1>16. Pushed(h, g, l, x, back)
    BY DEF back
  <1>17. ASSUME NEW k \in 1 .. m, k \notin Elems(q[l]), k # x
         PROVE  /\ g.orders[k].next = h.orders[k].next /\ g.orders[k].prev = h.orders[k].prev
                /\ g.orders[k].level = h.orders[k].level /\ SameOrder(g.orders[k], h.orders[k])
    <2>1. k # back
      BY <1>10, <1>17
    <2> QED
      BY <1>16, <1>17, <2>1 DEF Pushed
  <1>18. ASSUME NEW a \in Side, NEW k \in Elems(s[a]) PROVE FifoOK(g, a, k, p[k])
    <2>1. k \in Standing(s) /\ k \in Nat /\ k \in 1 .. Len(h.levels)
      BY StandingLevels DEF Standing, Book
    <2>2. CASE k = l
      <3>1. a = side
        BY <2>2 DEF Book, LaddersOK
      <3> QED
        BY <1>9, <1>13, <2>2, <3>1 DEF r
    <2>3. CASE k # l
      <3>1. p[k] = q[k] /\ FifoOK(h, a, k, q[k])
        BY <1>13, <2>1, <2>3 DEF Book, QueuesOK
      <3>2. \A i \in 1 .. Len(q[k]) : /\ q[k][i] \in 1 .. m /\ q[k][i] \notin Elems(q[l])
                                      /\ q[k][i] # x
        <4>1. ASSUME NEW o \in Elems(q[k]) PROVE o \in 1 .. m /\ o \notin Elems(q[l]) /\ o # x
          <5>1. o \in 1 .. m /\ h.orders[o].level = k /\ o \in Queued(s, q)
            BY <2>1, QueuedOrders
          <5>2. o \in Elems(q[l]) => h.orders[o].level = l
            BY <1>2, QueuedOrders
          <5> QED
            BY <1>4, <2>3, <5>1, <5>2
        <4>2. \A i \in 1 .. Len(q[k]) : q[k][i] \in Elems(q[k])
          BY DEF Elems
        <4> HIDE DEF m
        <4> QED
          BY <4>1, <4>2
      <3>3. SameLevel(g.levels[k], h.levels[k])
        BY <2>1, <2>3 DEF Pushed, SameLevel
      <3>4. FifoSame(h, g, k, q[k])
        BY <1>1, <1>17, <3>2, <3>3, SMTT(60) DEF FifoSame, SameOrder
      <3> QED
        BY <1>1, <3>1, <3>4, FifoKept
    <2> QED
      BY <2>2, <2>3
  <1>19. ASSUME NEW k \in 1 .. m, k \notin Queued(s, p) PROVE g.orders[k] = BlankOrder
    <2>1. k \notin Queued(s, q) /\ k \notin Elems(q[l]) /\ k # x
      BY <1>7, <1>14, <1>19
    <2>2. h.orders[k] = BlankOrder
      BY <2>1 DEF Book, QueuesOK
    <2>3. g.orders[k] \in OrderNode /\ h.orders[k] \in OrderNode
      BY <1>1, HeapFields
    <2>4. g.orders[k] = h.orders[k]
      BY <1>17, <2>1, <2>3, NodesEqual
    <2> QED
      BY <2>2, <2>4
  <1>20. QueuesOK(g, s, p, {})
    BY <1>1, <1>4, <1>13, <1>14, <1>18, <1>19 DEF QueuesOK
  <1> QED
    BY <1>15, <1>20 DEF Book, p, r, n

\* Changing a quantity and the total of its level keeps the book.
LEMMA BookRequantified ==
    ASSUME NEW h, NEW s, NEW q, Book(h, s, q, {}), NEW side \in Side, NEW l \in Elems(s[side]),
           NEW i \in 1 .. Len(q[l]), NEW x, x = q[l][i],
           NEW qty \in 0 .. (QtyMod - 1), NEW total, NEW d \in Int,
           qty = h.orders[x].remaining + d, total = Wrap(h.levels[l].total_qty + d),
           NEW g, Requantified(h, g, x, l, qty, total)
    PROVE  Book(g, s, q, {})
  <1> DEFINE m == Len(h.orders)
  <1>1. /\ h \in Heap /\ m \in Nat /\ g \in Heap /\ Len(g.orders) = m
        /\ g.orderPool = h.orderPool /\ SameFrame(h, g)
    BY HeapFields DEF Book, LaddersOK, Requantified, SameFrame
  <1>a. /\ \A n \in Queued(s, q) :
              /\ n \in 1 .. Len(h.orders)
              /\ h.orders[n].level \in Standing(s) /\ n \in Elems(q[h.orders[n].level])
        /\ \A k \in Standing(s) : \A n \in Elems(q[k]) :
              n \in Queued(s, q) /\ n \in 1 .. Len(h.orders) /\ h.orders[n].level = k
    BY QueuedOrders
  <1>2. /\ l \in Standing(s) /\ l \in 1 .. Len(h.levels)
    BY StandingLevels DEF Standing, Book
  <1>3. FifoOK(h, side, l, q[l])
    BY DEF Book, QueuesOK
  <1>4. FifoOK(g, side, l, q[l])
    BY <1>1, <1>2, <1>3, FifoRequantified
  <1>5. x \in Elems(q[l]) /\ x \in Queued(s, q)
    BY <1>2 DEF Elems, Queued
  <1>6. LaddersOK(g, s)
    <2>1. LaddersSame(h, g, s)
      BY <1>1, <1>2 DEF LaddersSame, SameFrame, Requantified
    <2> QED
      BY <2>1, LaddersKept DEF Book
  <1>7. ASSUME NEW a \in Side, NEW k \in Elems(s[a]) PROVE FifoOK(g, a, k, q[k])
    <2>1. k \in Standing(s) /\ k \in 1 .. Len(h.levels)
      BY StandingLevels DEF Standing, Book
    <2>2. CASE k = l
      <3>1. a = side
        BY <2>2 DEF Book, LaddersOK
      <3> QED
        BY <1>4, <2>2, <3>1
    <2>3. CASE k # l
      <3>1. FifoOK(h, a, k, q[k])
        BY DEF Book, QueuesOK
      <3>2. \A j \in 1 .. Len(q[k]) : q[k][j] \in 1 .. m /\ q[k][j] # x
        <4>1. ASSUME NEW o \in Elems(q[k]) PROVE o \in 1 .. m /\ o # x
          <5>1. o \in 1 .. m /\ h.orders[o].level = k
            BY <1>a, <2>1
          <5>2. o = x => h.orders[o].level = l
            BY <1>a, <1>2, <1>5
          <5> QED
            BY <2>3, <5>1, <5>2, Zenon
        <4>2. \A j \in 1 .. Len(q[k]) : q[k][j] \in Elems(q[k])
          BY DEF Elems
        <4> HIDE DEF m
        <4> QED
          BY <4>1, <4>2
      <3>3. SameLevel(g.levels[k], h.levels[k])
        BY <2>1, <2>3, SMTT(60) DEF Requantified, SameLevel
      <3>4. FifoSame(h, g, k, q[k])
        <4>1. \A n \in 1 .. Len(h.orders) : n # x => g.orders[n] = h.orders[n]
          BY DEF Requantified
        <4>2. \A j \in 1 .. Len(q[k]) : g.orders[q[k][j]] = h.orders[q[k][j]]
          BY <3>2, <4>1
        <4>3. g \in Heap /\ Len(g.orders) >= Len(h.orders)
          BY <1>1
        <4> QED
          BY <3>3, <4>2, <4>3, Zenon DEF FifoSame
      <3> QED
        BY <1>1, <3>1, <3>4, FifoKept, Zenon
    <2> QED
      BY <2>2, <2>3
  <1>8. ASSUME NEW k \in 1 .. m, k \notin Queued(s, q) PROVE g.orders[k] = BlankOrder
    <2>1. h.orders[k] = BlankOrder
      BY <1>8 DEF Book, QueuesOK
    <2>2. k # x
      BY <1>5, <1>8
    <2> QED
      BY <2>1, <2>2 DEF Requantified
  <1>9. QueuesOK(g, s, q, {})
    BY <1>1, <1>7, <1>8 DEF QueuesOK, Book
  <1> QED
    BY <1>6, <1>9 DEF Book

-----------------------------------------------------------------------------
(* The engine between operations                                           *)

\* The orders of U and the index by id find each other.
IdsOK(h, U) ==
    /\ U \subseteq 1 .. Len(h.orders)
    /\ \A n \in U : /\ h.orders[n].id \in OrderId /\ h.orders[n].participant \in Participant
                    /\ h.ordersById[h.orders[n].id] = n
    /\ \A id \in OrderId : h.ordersById[id] # Nil =>
          h.ordersById[id] \in U /\ h.orders[h.ordersById[id]].id = id

\* Every level has an order.
NoneEmpty(s, q) == \A l \in Standing(s) : q[l] # <<>>

\* Between operations a heap is a book without empty levels, indexed by id.
Engine(h, s, q) ==
    /\ Book(h, s, q, {})
    /\ NoneEmpty(s, q)
    /\ IdsOK(h, Queued(s, q))

Unnamed(h, id) == [h EXCEPT !.ordersById[id] = Nil]

\* Only the index by id differs.
LEMMA UnnamedFields ==
    ASSUME NEW h \in Heap, NEW id \in OrderId
    PROVE  /\ Unnamed(h, id) \in Heap
           /\ Unnamed(h, id).orders = h.orders /\ Unnamed(h, id).levels = h.levels
           /\ Unnamed(h, id).orderPool = h.orderPool /\ Unnamed(h, id).levelPool = h.levelPool
           /\ Unnamed(h, id).best = h.best /\ Unnamed(h, id).byPrice = h.byPrice
           /\ Unnamed(h, id).ordersById = [h.ordersById EXCEPT ![id] = Nil]
  <1> DEFINE o == h.orders
             l == h.levels
             op == h.orderPool
             lp == h.levelPool
             b == h.best
             bp == h.byPrice
             by == h.ordersById
             by2 == [by EXCEPT ![id] = Nil]
  <1>1. /\ o \in Seq(OrderNode) /\ l \in Seq(LevelNode) /\ op \in PoolState /\ lp \in PoolState
        /\ b \in [Side -> Nat] /\ bp \in [Side -> [Price -> Nat]] /\ by \in [OrderId -> Nat]
    BY HeapFields
  <1>2. h = [orders |-> o, levels |-> l, orderPool |-> op, levelPool |-> lp, best |-> b,
             byPrice |-> bp, ordersById |-> by]
    BY HeapRecord
  <1>3. by2 \in [OrderId -> Nat]
    BY <1>1 DEF Nil
  <1>4. Unnamed(h, id) = [h EXCEPT !.ordersById = by2]
    BY DEF Unnamed
  <1> HIDE DEF o, l, op, lp, b, bp, by2
  <1>5. Unnamed(h, id) = [orders |-> o, levels |-> l, orderPool |-> op, levelPool |-> lp,
                          best |-> b, byPrice |-> bp, ordersById |-> by2]
    BY <1>2, <1>4
  <1>6. Unnamed(h, id) \in Heap
    BY <1>1, <1>3, <1>5 DEF Heap
  <1>7. /\ Unnamed(h, id).orders = o /\ Unnamed(h, id).levels = l
        /\ Unnamed(h, id).orderPool = op /\ Unnamed(h, id).levelPool = lp
        /\ Unnamed(h, id).best = b /\ Unnamed(h, id).byPrice = bp
        /\ Unnamed(h, id).ordersById = by2
    BY <1>5
  <1> QED
    BY <1>6, <1>7 DEF o, l, op, lp, b, bp, by2

\* The index by id is no part of the book.
LEMMA BookUnnamed ==
    ASSUME NEW h, NEW s, NEW q, Book(h, s, q, {}), NEW id \in OrderId
    PROVE  Book(Unnamed(h, id), s, q, {})
  <1> DEFINE g == Unnamed(h, id)
  <1>1. h \in Heap
    BY DEF Book, LaddersOK
  <1>2. /\ g \in Heap /\ g.orders = h.orders /\ g.levels = h.levels
        /\ g.orderPool = h.orderPool /\ g.levelPool = h.levelPool
        /\ g.best = h.best /\ g.byPrice = h.byPrice
    BY <1>1, UnnamedFields
  <1> HIDE DEF g
  <1>3. LaddersSame(h, g, s)
    BY <1>2 DEF LaddersSame
  <1>4. QueuesSame(h, g, s)
    BY <1>2 DEF QueuesSame, SameLevel
  <1>5. LaddersOK(g, s) /\ QueuesOK(g, s, q, {})
    BY <1>1, <1>3, <1>4, LaddersKept, QueuesKept DEF Book
  <1> QED
    BY <1>5 DEF Book, g

\* What is left of h when order x has gone, as far as its caller can tell.
Gone(h, g, x) ==
    /\ g.ordersById = [h.ordersById EXCEPT ![h.orders[x].id] = Nil]
    /\ g.orderPool = Dealloc(h.orderPool, x)
    /\ Len(g.orders) = Len(h.orders) /\ Len(g.levels) = Len(h.levels)
    /\ \A n \in 1 .. Len(h.orders) : n # x => SameOrder(g.orders[n], h.orders[n])
    /\ h.orders[x].prev = Nil /\ h.orders[x].next # Nil =>
          /\ g.best = h.best
          /\ g.levels[h.orders[x].level].front = h.orders[x].next
          /\ g.levels[h.orders[x].level].price = h.levels[h.orders[x].level].price

\* What is left of h when order x has left level l and the book, now of s and q.
LeftBook(h, g, x, l, s, q) ==
    /\ Book(g, s, q, {x}) /\ NoneEmpty(s, q)
    /\ g.ordersById = h.ordersById /\ g.orderPool = h.orderPool
    /\ Len(g.orders) = Len(h.orders) /\ Len(g.levels) = Len(h.levels)
    /\ \A n \in 1 .. Len(h.orders) : SameOrder(g.orders[n], h.orders[n])
    /\ h.orders[x].prev = Nil /\ h.orders[x].next # Nil =>
          /\ g.best = h.best /\ g.levels[l].front = h.orders[x].next
          /\ g.levels[l].price = h.levels[l].price

\* The orders that wait at a price, oldest first.
QueueAt(h, q, side, price) ==
    IF h.byPrice[side][price] = Nil THEN <<>> ELSE q[h.byPrice[side][price]]

\* From h to g what waits at one price has become r, and nothing else has changed.
OnlyAt(h, q, g, q2, side, price, r) ==
    \A a \in Side, p \in Price :
        QueueAt(g, q2, a, p) = IF a = side /\ p = price THEN r ELSE QueueAt(h, q, a, p)

\* A level is found at its price, and its queue waits there.
LEMMA LevelAtPrice ==
    ASSUME NEW h, NEW s, LaddersOK(h, s), NEW q, NEW side \in Side, NEW l \in Elems(s[side])
    PROVE  /\ h.levels[l].price \in Price /\ h.byPrice[side][h.levels[l].price] = l
           /\ l # Nil /\ l \in Nat /\ QueueAt(h, q, side, h.levels[l].price) = q[l]
  <1>1. PICK i \in 1 .. Len(s[side]) : l = s[side][i]
    BY DEF Elems
  <1>2. h.levels[l].price \in Price /\ h.byPrice[side][h.levels[l].price] = l
    BY <1>1 DEF LaddersOK, LadderOK
  <1>3. l \in 1 .. Len(h.levels)
    BY LadderNodes
  <1>4. l # Nil /\ l \in Nat
    BY <1>3 DEF Nil
  <1> QED
    BY <1>2, <1>4 DEF QueueAt

\* What a price finds is a level of that side and price.
LEMMA PriceOfLevel ==
    ASSUME NEW h, NEW s, LaddersOK(h, s), NEW side \in Side, NEW p \in Price,
           h.byPrice[side][p] # Nil
    PROVE  h.byPrice[side][p] \in Elems(s[side]) /\ h.levels[h.byPrice[side][p]].price = p
  <1>1. PICK i \in 1 .. Len(s[side]) : s[side][i] = h.byPrice[side][p] /\ h.levels[s[side][i]].price = p
    BY DEF LaddersOK, LadderOK
  <1> QED
    BY <1>1 DEF Elems

\* Of the levels that prices find, l is found by its own side and price only.
LEMMA FoundByItsPrice ==
    ASSUME NEW h, NEW s, LaddersOK(h, s), NEW side \in Side, NEW l \in Elems(s[side]),
           NEW a \in Side, NEW p \in Price
    PROVE  h.byPrice[a][p] = l <=> a = side /\ p = h.levels[l].price
  <1>1. l # Nil /\ h.byPrice[side][h.levels[l].price] = l
    BY LevelAtPrice
  <1>2. ASSUME h.byPrice[a][p] = l PROVE a = side /\ p = h.levels[l].price
    <2>1. l \in Elems(s[a]) /\ h.levels[l].price = p
      BY <1>1, <1>2, PriceOfLevel
    <2> QED
      BY <2>1 DEF LaddersOK
  <1> QED
    BY <1>1, <1>2

\* One queue replaced: what waits at its price.
LEMMA RequeuedAt ==
    ASSUME NEW h, NEW s, LaddersOK(h, s), NEW q, NEW side \in Side, NEW l \in Elems(s[side]),
           NEW r, NEW q2, IsRequeued(q2, q, l, r), NEW g, g.byPrice = h.byPrice
    PROVE  OnlyAt(h, q, g, q2, side, h.levels[l].price, r)
  <1> SUFFICES ASSUME NEW a \in Side, NEW p \in Price
               PROVE  QueueAt(g, q2, a, p) =
                         IF a = side /\ p = h.levels[l].price THEN r ELSE QueueAt(h, q, a, p)
    BY DEF OnlyAt
  <1> DEFINE k == h.byPrice[a][p]
  <1>1. k = l <=> a = side /\ p = h.levels[l].price
    BY FoundByItsPrice
  <1>2. l # Nil
    BY LevelAtPrice
  <1>3. k # Nil => k \in Nat
    <2>1. ASSUME k # Nil PROVE k \in Elems(s[a])
      BY <2>1, PriceOfLevel
    <2> HIDE DEF k
    <2> QED
      BY <2>1, LevelAtPrice
  <1>4. /\ QueueAt(h, q, a, p) = IF k = Nil THEN <<>> ELSE q[k]
        /\ QueueAt(g, q2, a, p) = IF k = Nil THEN <<>> ELSE q2[k]
    BY DEF QueueAt
  <1> HIDE DEF k
  <1> QED
    BY <1>1, <1>2, <1>3, <1>4 DEF IsRequeued

\* A level taken away: nothing waits at its price.
LEMMA EmptiedAt ==
    ASSUME NEW h, NEW s, LaddersOK(h, s), NEW q, NEW side \in Side, NEW l \in Elems(s[side]),
           NEW r, r = <<>>, NEW q2, IsRequeued(q2, q, l, r), NEW g,
           g.byPrice = [h.byPrice EXCEPT ![side] = [h.byPrice[side] EXCEPT ![h.levels[l].price] = Nil]]
    PROVE  OnlyAt(h, q, g, q2, side, h.levels[l].price, r)
  <1> SUFFICES ASSUME NEW a \in Side, NEW p \in Price
               PROVE  QueueAt(g, q2, a, p) =
                         IF a = side /\ p = h.levels[l].price THEN r ELSE QueueAt(h, q, a, p)
    BY DEF OnlyAt
  <1> DEFINE k == h.byPrice[a][p]
             b == h.levels[l].price
  <1>1. k = l <=> a = side /\ p = b
    BY FoundByItsPrice
  <1>2. k # Nil => k \in Nat
    <2>1. ASSUME k # Nil PROVE k \in Elems(s[a])
      BY <2>1, PriceOfLevel
    <2> HIDE DEF k
    <2> QED
      BY <2>1, LevelAtPrice
  <1>3. g.byPrice[a][p] = IF a = side /\ p = b THEN Nil ELSE k
    <2>1. h \in Heap
      BY DEF LaddersOK
    <2>2. h.byPrice \in [Side -> [Price -> Nat]]
      BY <2>1, HeapFields
    <2> QED
      BY <2>2
  <1>4. QueueAt(h, q, a, p) = IF k = Nil THEN <<>> ELSE q[k]
    BY DEF QueueAt
  <1>5. QueueAt(g, q2, a, p) = IF (a = side /\ p = b) \/ k = Nil THEN <<>> ELSE q2[k]
    BY <1>3 DEF QueueAt
  <1> HIDE DEF k, b
  <1>6. QueueAt(g, q2, a, p) = IF a = side /\ p = b THEN r ELSE QueueAt(h, q, a, p)
    BY <1>1, <1>2, <1>4, <1>5 DEF IsRequeued
  <1> QED
    BY <1>6 DEF b

\* A level put in without orders: the same waits at every price.
LEMMA UnchangedAt ==
    ASSUME NEW h, NEW s, LaddersOK(h, s), NEW q, NEW side \in Side, NEW price \in Price,
           h.byPrice[side][price] = Nil, NEW l, l \notin Standing(s), l # Nil,
           NEW r, r = <<>>, NEW q2, IsRequeued(q2, q, l, r), NEW g,
           g.byPrice = [h.byPrice EXCEPT ![side] = [h.byPrice[side] EXCEPT ![price] = l]]
    PROVE  OnlyAt(h, q, g, q2, side, price, <<>>)
  <1> SUFFICES ASSUME NEW a \in Side, NEW p \in Price
               PROVE  QueueAt(g, q2, a, p) =
                         IF a = side /\ p = price THEN <<>> ELSE QueueAt(h, q, a, p)
    BY DEF OnlyAt
  <1> DEFINE k == h.byPrice[a][p]
  <1>1. k # Nil => k \in Nat /\ k # l
    <2>1. ASSUME k # Nil PROVE k \in Elems(s[a])
      BY <2>1, PriceOfLevel
    <2> HIDE DEF k
    <2>2. k # Nil => k \in Standing(s)
      BY <2>1 DEF Standing
    <2> QED
      BY <2>1, <2>2, LevelAtPrice
  <1>2. g.byPrice[a][p] = IF a = side /\ p = price THEN l ELSE k
    <2>1. h \in Heap
      BY DEF LaddersOK
    <2>2. h.byPrice \in [Side -> [Price -> Nat]]
      BY <2>1, HeapFields
    <2> QED
      BY <2>2
  <1>3. QueueAt(h, q, a, p) = IF k = Nil THEN <<>> ELSE q[k]
    BY DEF QueueAt
  <1>4. QueueAt(g, q2, a, p) = IF a = side /\ p = price THEN q2[l]
                               ELSE IF k = Nil THEN <<>> ELSE q2[k]
    BY <1>2 DEF QueueAt
  <1> HIDE DEF k
  <1> QED
    BY <1>1, <1>3, <1>4 DEF IsRequeued

\* RemoveOrder on a book.
LEMMA OrderLeavesBook ==
    ASSUME NEW h, NEW s, NEW q, Book(h, s, q, {}), NoneEmpty(s, q),
           NEW side \in Side, NEW l \in Elems(s[side]), NEW i \in 1 .. Len(q[l]), NEW x, x = q[l][i]
    PROVE  \E s2, q2 :
              /\ LeftBook(h, RemoveOrder(h, x), x, l, s2, q2)
              /\ OnlyAt(h, q, RemoveOrder(h, x), q2, side, h.levels[l].price, RemoveAt(q[l], i))
  <1> DEFINE m == Len(h.orders)
             o == h.orders[x]
             g == Unlink(h, x)
             n == Len(q[l])
             r == RemoveAt(q[l], i)
             p == Requeued(q, l, r)
  <1>1. h \in Heap /\ m \in Nat /\ LaddersOK(h, s)
    BY HeapFields DEF Book, LaddersOK
  <1>2. /\ l \in Standing(s) /\ l \in 1 .. Len(h.levels) /\ l \in Nat
    BY <1>1, StandingLevels DEF Standing
  <1>3. FifoOK(h, side, l, q[l])
    BY DEF Book, QueuesOK
  <1>4. /\ x \in 1 .. m /\ o.level = l /\ o.side = side /\ n \in Nat
        /\ x \in Elems(q[l])
    BY <1>1, <1>3, QueueNodes DEF Elems
  <1>5. /\ o.next \in 0 .. m /\ o.prev \in 0 .. m
        /\ o.next # 0 => n # 1
    <2>1. DList(m, Nexts(h), Prevs(h), q[l])
      BY <1>3 DEF FifoOK
    <2> HIDE DEF o
    <2>2. Nexts(h)[x] = o.next /\ Prevs(h)[x] = o.prev
      BY <1>4 DEF Nexts, Prevs, o
    <2>3. \A k \in Elems(q[l]) : k \in 1 .. m
      BY <1>1, <1>3, QueueNodes
    <2> HIDE DEF m
    <2>4. (o.next = 0 \/ o.next \in Elems(q[l])) /\ (o.prev = 0 \/ o.prev \in Elems(q[l]))
      BY <1>1, <1>4, <2>1, <2>2, LinksInside
    <2>5. o.next = After(q[l], i)
      BY <2>1, <2>2 DEF DList
    <2>6. n = 1 => o.next = 0
      BY <2>5 DEF After
    <2> QED
      BY <1>1, <2>3, <2>4, <2>6
  <1>6. h.levels[l].order_count = n /\ n # 0
    BY <1>3, <1>4, SMTT(60) DEF FifoOK
  <1>7. Unlinked(h, g, o)
    <2>1. /\ h.orders[x].prev \in 0 .. Len(h.orders) /\ h.orders[x].next \in 0 .. Len(h.orders)
          /\ h.orders[x].level \in 1 .. Len(h.levels)
          /\ h.levels[h.orders[x].level].order_count # 0
      BY <1>2, <1>4, <1>5, <1>6
    <2>2. x \in 1 .. Len(h.orders)
      BY <1>4
    <2> QED
      BY <1>1, <2>1, <2>2, UnlinkFields
  <1> HIDE DEF g
  <1>8. Book(g, s, p, {x})
    BY <1>7, BookUnlinked, ZenonT(60)
  <1>9. /\ g.levels[l].order_count = n - 1 /\ g.levels[l].price = h.levels[l].price
        /\ g.ordersById = h.ordersById /\ g.orderPool = h.orderPool /\ Len(g.orders) = m
        /\ g.best = h.best /\ Len(g.levels) = Len(h.levels)
        /\ \A k \in 1 .. m : SameOrder(g.orders[k], h.orders[k])
        /\ o.prev = Nil => g.levels[l].front = o.next
        /\ g.byPrice = h.byPrice
    BY <1>2, <1>4, <1>6, <1>7 DEF Unlinked, SameFrame
  <1>10. q \in [Nat -> Seq(Nat)] /\ r \in Seq(Nat) /\ Len(r) = n - 1
    <2>1. q \in [Nat -> Seq(Nat)] /\ q[l] \in Seq(Nat)
      BY <1>2 DEF Book, QueuesOK
    <2>2. r \in Seq(Nat) /\ Len(r) = Len(q[l]) - 1
      BY <2>1, RemovedAndPutBack
    <2> QED
      BY <2>1, <2>2
  <1>a. IsRequeued(p, q, l, r)
    <2>1. l \in Nat /\ r \in Seq(Nat) /\ q \in [Nat -> Seq(Nat)]
      BY <1>2, <1>10
    <2> HIDE DEF r
    <2> QED
      BY <2>1, RequeuedIs
  <1>11. p[l] = r /\ \A k \in Nat : k # l => p[k] = q[k]
    BY <1>a DEF IsRequeued
  <1> HIDE DEF p, r
  <1>12. RemoveOrder(h, x) = IF n = 1 THEN RemoveLevel(g, side, l) ELSE g
    <2>1. RemoveOrder(h, x) =
             IF g.levels[l].order_count = 0 THEN RemoveLevel(g, side, l) ELSE g
      BY <1>4 DEF RemoveOrder, g
    <2>2. g.levels[l].order_count = 0 <=> n = 1
      BY <1>4, <1>9
    <2> QED
      BY <2>1, <2>2
  <1>13. \A k \in Standing(s) : k \in Nat /\ (k # l => p[k] # <<>>)
    BY <1>1, <1>11, StandingLevels DEF NoneEmpty
  <1>14. CASE n # 1
    <2>1. RemoveOrder(h, x) = g
      BY <1>12, <1>14
    <2>2. p[l] # <<>>
      <3>1. Len(r) # 0
        BY <1>4, <1>6, <1>10, <1>14
      <3>2. r # <<>>
        BY <3>1
      <3> QED
        BY <1>11, <3>2
    <2>3. \A k \in Standing(s) : p[k] # <<>>
      BY <1>13, <2>2
    <2>4. LeftBook(h, g, x, l, s, p)
      BY <1>8, <1>9, <2>3 DEF LeftBook, NoneEmpty
    <2>5. OnlyAt(h, q, g, p, side, h.levels[l].price, r)
      BY <1>1, <1>9, <1>a, RequeuedAt
    <2> QED
      BY <2>1, <2>4, <2>5 DEF r
  <1>15. CASE n = 1
    <2> DEFINE f == RemoveLevel(g, side, l)
    <2>1. RemoveOrder(h, x) = f
      BY <1>12, <1>15
    <2>2. p[l] = <<>>
      BY <1>10, <1>11, <1>15
    <2>3. PICK j \in 1 .. Len(s[side]) : l = s[side][j]
      BY DEF Elems
    <2>4. g \in Heap /\ LaddersOK(g, s) /\ LadderOK(g, side, s[side])
      BY <1>8 DEF Book, LaddersOK
    <2>5. Len(g.levels) \in Nat /\ l \in 1 .. Len(g.levels)
      BY <1>2, <1>9, <2>4, HeapFields
    <2>6. /\ g.levels[l].better \in 0 .. Len(g.levels) /\ g.levels[l].worse \in 0 .. Len(g.levels)
      <3>1. DList(Len(g.levels), Worses(g), Betters(g), s[side])
        BY <2>4 DEF LadderOK
      <3>2. \A k \in Elems(s[side]) : k \in 1 .. Len(g.levels)
        BY <2>4, LadderNodes
      <3>3. Worses(g)[l] = g.levels[l].worse /\ Betters(g)[l] = g.levels[l].better
        BY <2>5 DEF Worses, Betters
      <3>4. /\ g.levels[l].worse = 0 \/ g.levels[l].worse \in Elems(s[side])
            /\ g.levels[l].better = 0 \/ g.levels[l].better \in Elems(s[side])
        BY <2>5, <3>1, <3>3, LinksInside
      <3>5. /\ 0 \in 0 .. Len(g.levels)
            /\ \A k \in 1 .. Len(g.levels) : k \in 0 .. Len(g.levels)
        BY <2>5
      <3>6. \A k \in Elems(s[side]) : k \in 0 .. Len(g.levels)
        BY <3>2, <3>5
      <3> QED
        BY <3>4, <3>5, <3>6, Zenon
    <2>7. g.levels[l].price \in Price
      BY <2>3, <2>4 DEF LadderOK
    <2>8. Dealloc(g.levelPool, l) \in PoolState
      <3>1. PoolOK(g.levelPool) /\ l \in InUse(g.levelPool)
        BY <1>2, <2>4 DEF LaddersOK
      <3> QED
        BY <3>1, ObjectReturned DEF PoolOK
    <2>9. LevelRemoved(g, f, side, l, g.levels[l])
      BY <2>4, <2>5, <2>6, <2>7, <2>8, RemoveLevelFields
    <2> HIDE DEF f
    <2> DEFINE u == RemoveAt(s[side], j)
               s2 == Reladdered(s, side, u)
    <2>10. Book(f, s2, p, {x})
      BY <1>8, <2>2, <2>3, <2>9, BookLevelRemoved
    <2>11. \A k \in Standing(s2) : k \in Standing(s) /\ k # l
      <3>1. DList(Len(g.levels), Worses(g), Betters(g), s[side])
        BY <2>4 DEF LadderOK
      <3>2. Elems(u) = Elems(s[side]) \ {l}
        BY <2>3, <2>5, <3>1, ElemsWithout
      <3>3. u \in Seq(Nat)
        <4>1. s[side] \in Seq(Nat)
          BY <1>1 DEF LaddersOK
        <4> QED
          BY <2>3, <4>1, RemovedAndPutBack
      <3> HIDE DEF u
      <3>4. Standing(s2) = (Standing(s) \ Elems(s[side])) \cup Elems(u)
        BY <1>1, <3>3, ReladderedLevels
      <3> HIDE DEF s2
      <3>5. Elems(s[side]) \subseteq Standing(s)
        BY <1>1, LadderNodes
      <3> QED
        BY <3>2, <3>4, <3>5
    <2> HIDE DEF s2
    <2>12. \A k \in Standing(s2) : p[k] # <<>>
      BY <1>13, <2>11
    <2>13. /\ f.ordersById = h.ordersById /\ f.orderPool = h.orderPool
           /\ Len(f.orders) = Len(h.orders) /\ Len(f.levels) = Len(h.levels)
           /\ \A k \in 1 .. Len(h.orders) : SameOrder(f.orders[k], h.orders[k])
      BY <1>9, <2>9 DEF LevelRemoved
    <2>14. ~(h.orders[x].next # Nil)
      BY <1>5, <1>15 DEF Nil
    <2>15. LeftBook(h, f, x, l, s2, p)
      BY <2>10, <2>12, <2>13, <2>14 DEF LeftBook, NoneEmpty
    <2>16. f.byPrice = [h.byPrice EXCEPT ![side] = [h.byPrice[side] EXCEPT ![h.levels[l].price] = Nil]]
      BY <1>9, <2>9 DEF LevelRemoved
    <2>17. OnlyAt(h, q, f, p, side, h.levels[l].price, r)
      <3>1. r = <<>>
        BY <1>11, <2>2
      <3> QED
        BY <1>1, <1>a, <2>16, <3>1, EmptiedAt
    <2> QED
      BY <2>1, <2>15, <2>17 DEF r
  <1> QED
    BY <1>14, <1>15

\* From h to g order x has gone from its place at its price.
GoneFrom(h, q, g, q2, x) ==
    \E i \in 1 .. Len(QueueAt(h, q, h.orders[x].side, h.orders[x].price)) :
       /\ x = QueueAt(h, q, h.orders[x].side, h.orders[x].price)[i]
       /\ OnlyAt(h, q, g, q2, h.orders[x].side, h.orders[x].price,
                 RemoveAt(QueueAt(h, q, h.orders[x].side, h.orders[x].price), i))

\* What is left of an engine when order x has gone.
EngineWithout(h, q, x, g, s2, q2) ==
    /\ Engine(g, s2, q2) /\ x \notin Queued(s2, q2)
    /\ GoneFrom(h, q, g, q2, x)

\* remove_resting keeps the engine's structures.
LEMMA RestingRemoved ==
    ASSUME NEW h, NEW s, NEW q, Engine(h, s, q), NEW x \in Queued(s, q)
    PROVE  /\ \E s2, q2 : EngineWithout(h, q, x, RemoveResting(h, x), s2, q2)
           /\ Gone(h, RemoveResting(h, x), x)
  <1> DEFINE m == Len(h.orders)
             id == h.orders[x].id
             h0 == Unnamed(h, id)
             h1 == RemoveOrder(h0, x)
             h2 == FreeOrder(h1, x)
  <1>1. h \in Heap /\ m \in Nat /\ Book(h, s, q, {}) /\ IdsOK(h, Queued(s, q))
        /\ NoneEmpty(s, q)
    BY HeapFields DEF Engine, Book, LaddersOK
  <1>2. id \in OrderId /\ x \in 1 .. m
    BY <1>1 DEF IdsOK
  <1>3. RemoveResting(h, x) = h2
    BY DEF RemoveResting, Unnamed
  <1>4. Book(h0, s, q, {})
    BY <1>1, <1>2, BookUnnamed
  <1>5. /\ h0.orders = h.orders /\ h0.levels = h.levels /\ h0.orderPool = h.orderPool
        /\ h0.best = h.best /\ h0.ordersById = [h.ordersById EXCEPT ![id] = Nil]
        /\ h0.byPrice = h.byPrice
    <2> HIDE DEF id
    <2> QED
      BY <1>1, <1>2, UnnamedFields
  <1> HIDE DEF h0
  <1>6. PICK l \in Standing(s) : x \in Elems(q[l])
    BY DEF Queued
  <1>7. PICK side \in Side : l \in Elems(s[side])
    BY DEF Standing
  <1>8. PICK i \in 1 .. Len(q[l]) : x = q[l][i]
    BY <1>6 DEF Elems
  <1>9. h.orders[x].level = l
    BY <1>1, <1>6, QueuedOrders
  <1>10. PICK s2, q2 :
           /\ LeftBook(h0, RemoveOrder(h0, x), x, l, s2, q2)
           /\ OnlyAt(h0, q, RemoveOrder(h0, x), q2, side, h0.levels[l].price, RemoveAt(q[l], i))
    <2>1. l \in Elems(s[side]) /\ i \in 1 .. Len(q[l]) /\ x = q[l][i]
      BY <1>7, <1>8
    <2> QED
      BY <1>1, <1>4, <2>1, OrderLeavesBook
  <1>11. /\ Book(h1, s2, q2, {x})
         /\ NoneEmpty(s2, q2)
         /\ h1.ordersById = h0.ordersById /\ h1.orderPool = h.orderPool
         /\ Len(h1.orders) = m /\ Len(h1.levels) = Len(h.levels)
         /\ \A n \in 1 .. m : SameOrder(h1.orders[n], h.orders[n])
         /\ h.orders[x].prev = Nil /\ h.orders[x].next # Nil =>
               /\ h1.best = h.best /\ h1.levels[l].front = h.orders[x].next
               /\ h1.levels[l].price = h.levels[l].price
    BY <1>5, <1>10 DEF LeftBook
  <1> HIDE DEF h1
  <1>12. h1 \in Heap
    BY <1>11 DEF Book, LaddersOK
  <1>13. OrderFreed(h1, h2, x)
    <2>1. PoolOK(h1.orderPool) /\ x \in InUse(h1.orderPool)
      BY <1>11 DEF Book, QueuesOK
    <2>2. Dealloc(h1.orderPool, x) \in PoolState
      BY <2>1, ObjectReturned DEF PoolOK
    <2>3. x \in 1 .. Len(h1.orders)
      BY <1>2, <1>11
    <2> QED
      BY <1>12, <2>2, <2>3, FreeOrderFields
  <1> HIDE DEF h2
  <1>14. Book(h2, s2, q2, {})
    BY <1>11, <1>13, BookFreed
  <1>15. /\ h2.ordersById = [h.ordersById EXCEPT ![id] = Nil]
         /\ h2.orderPool = Dealloc(h.orderPool, x) /\ Len(h2.orders) = m
         /\ \A n \in 1 .. m : n # x => SameOrder(h2.orders[n], h.orders[n])
    BY <1>5, <1>11, <1>13 DEF OrderFreed
  <1>16. Gone(h, h2, x)
    <2>1. h2.best = h1.best /\ h2.levels = h1.levels
      BY <1>13 DEF OrderFreed
    <2> QED
      BY <1>9, <1>11, <1>15, <2>1 DEF Gone
  <1>17. Queued(s2, q2) = Queued(s, q) \ {x}
    <2>1. PoolOK(h.orderPool) /\ InUse(h.orderPool) = Queued(s, q)
      BY <1>1 DEF Book, QueuesOK
    <2>2. InUse(Dealloc(h.orderPool, x)) = InUse(h.orderPool) \ {x}
      BY <2>1, ObjectReturned
    <2>3. InUse(h2.orderPool) = Queued(s2, q2)
      BY <1>14 DEF Book, QueuesOK
    <2> QED
      BY <1>15, <2>1, <2>2, <2>3
  <1>18. IdsOK(h2, Queued(s2, q2))
    <2> DEFINE U == Queued(s, q)
               V == Queued(s2, q2)
               b == h.ordersById
    <2>1. /\ U \subseteq 1 .. m
          /\ \A n \in U : /\ h.orders[n].id \in OrderId /\ h.orders[n].participant \in Participant
                          /\ b[h.orders[n].id] = n
          /\ \A k \in OrderId : b[k] # Nil => b[k] \in U /\ h.orders[b[k]].id = k
      BY <1>1 DEF IdsOK
    <2>2. V = U \ {x}
      BY <1>17
    <2>3. b \in [OrderId -> Nat]
      BY <1>1, HeapFields
    <2> HIDE DEF U, V, b
    <2>4. b[id] = x /\ id = h.orders[x].id
      BY <2>1 DEF U
    <2> HIDE DEF id
    <2>5. \A n \in V : /\ n \in U /\ n # x /\ n \in 1 .. m
                       /\ h2.orders[n].id = h.orders[n].id
                       /\ h2.orders[n].participant = h.orders[n].participant
      BY <1>15, <2>1, <2>2 DEF SameOrder
    <2>6. \A k \in OrderId : h2.ordersById[k] = IF k = id THEN Nil ELSE b[k]
      BY <1>2, <1>15, <2>3 DEF b
    <2>7. \A n \in V : h.orders[n].id # id
      BY <2>1, <2>4, <2>5
    <2>8. \A n \in V : /\ h2.orders[n].id \in OrderId /\ h2.orders[n].participant \in Participant
                       /\ h2.ordersById[h2.orders[n].id] = n
      BY <2>1, <2>5, <2>6, <2>7
    <2>9. ASSUME NEW k \in OrderId, h2.ordersById[k] # Nil
          PROVE  h2.ordersById[k] \in V /\ h2.orders[h2.ordersById[k]].id = k
      <3>1. k # id /\ h2.ordersById[k] = b[k] /\ b[k] # Nil
        BY <2>6, <2>9
      <3>2. b[k] \in U /\ h.orders[b[k]].id = k
        BY <2>1, <3>1
      <3>3. b[k] # x
        BY <2>4, <3>1, <3>2
      <3>4. b[k] \in V
        BY <2>2, <3>2, <3>3
      <3> QED
        BY <2>5, <3>1, <3>2, <3>4
    <2> QED
      BY <1>15, <2>5, <2>8, <2>9 DEF IdsOK, V
  <1>19. Engine(h2, s2, q2)
    BY <1>11, <1>14, <1>18 DEF Engine
  <1>20. GoneFrom(h, q, h2, q2, x)
    <2> DEFINE p == h.levels[l].price
    <2>1. h.orders[x].side = side /\ h.orders[x].price = p
      <3>1. FifoOK(h, side, l, q[l])
        BY <1>1, <1>7 DEF Book, QueuesOK
      <3> QED
        BY <1>1, <1>6, <3>1, QueueNodes
    <2>2. QueueAt(h, q, side, p) = q[l]
      BY <1>1, <1>7, LevelAtPrice DEF Book
    <2> HIDE DEF p
    <2>3. OnlyAt(h0, q, h1, q2, side, p, RemoveAt(q[l], i))
      BY <1>5, <1>10 DEF p, h1
    <2>4. h2.byPrice = h1.byPrice
      BY <1>13 DEF OrderFreed
    <2>5. OnlyAt(h, q, h2, q2, side, p, RemoveAt(q[l], i))
      BY <1>5, <2>3, <2>4 DEF OnlyAt, QueueAt
    <2> QED
      BY <1>8, <2>1, <2>2, <2>5 DEF GoneFrom
  <1>21. x \notin Queued(s2, q2)
    BY <1>17
  <1> QED
    BY <1>3, <1>16, <1>19, <1>20, <1>21 DEF EngineWithout

\* g has a level for price, in ladders s and with queues q; every other level has an order.
LevelReady(h, g, side, price, s, q, spare) ==
    /\ Book(g, s, q, spare)
    /\ g.byPrice[side][price] \in Elems(s[side])
    /\ g.levels[g.byPrice[side][price]].price = price
    /\ g.orders = h.orders /\ g.orderPool = h.orderPool /\ g.ordersById = h.ordersById
    /\ \A k \in Standing(s) : k # g.byPrice[side][price] => q[k] # <<>>

\* get_or_create finds a level or links a new one.
LEMMA LevelFound ==
    ASSUME NEW h, NEW s, NEW q, NEW spare, Book(h, s, q, spare), NoneEmpty(s, q),
           NEW side \in Side, NEW price \in Price
    PROVE  \E s2, q2 :
              /\ LevelReady(h, GetOrCreateLevel(h, side, price), side, price, s2, q2, spare)
              /\ OnlyAt(h, q, GetOrCreateLevel(h, side, price), q2, side, price,
                        QueueAt(h, q, side, price))
  <1>1. /\ h \in Heap /\ LaddersOK(h, s) /\ s \in [Side -> Seq(Nat)] /\ q \in [Nat -> Seq(Nat)]
        /\ PoolOK(h.levelPool) /\ h.levelPool.capacity = Len(h.levels)
        /\ Len(h.levels) \in Nat /\ InUse(h.levelPool) = Standing(s)
    BY HeapFields DEF Book, LaddersOK, QueuesOK
  <1>2. LadderOK(h, side, s[side])
    BY <1>1 DEF LaddersOK
  <1>3. CASE h.byPrice[side][price] # Nil
    <2>1. GetOrCreateLevel(h, side, price) = h
      BY <1>3 DEF GetOrCreateLevel
    <2>2. PICK i \in 1 .. Len(s[side]) : /\ s[side][i] = h.byPrice[side][price]
                                         /\ h.levels[s[side][i]].price = price
      BY <1>2, <1>3 DEF LadderOK
    <2>3. h.byPrice[side][price] \in Elems(s[side])
      BY <2>2 DEF Elems
    <2>4. \A k \in Standing(s) : q[k] # <<>>
      BY DEF NoneEmpty
    <2>5. LevelReady(h, h, side, price, s, q, spare)
      BY <2>2, <2>3, <2>4 DEF LevelReady
    <2>6. OnlyAt(h, q, h, q, side, price, QueueAt(h, q, side, price))
      BY DEF OnlyAt
    <2> QED
      BY <2>1, <2>5, <2>6
  <1>4. CASE h.byPrice[side][price] = Nil
    <2> DEFINE g == CreateLevel(h, side, price)
               l == Allocated(h.levelPool, LevelSlab)
               pool == Alloc(h.levelPool, LevelSlab)
    <2>1. GetOrCreateLevel(h, side, price) = g
      BY <1>4 DEF GetOrCreateLevel
    <2>2. /\ PoolOK(pool) /\ pool.capacity >= Len(h.levels) /\ l \in 1 .. pool.capacity
          /\ l \notin Standing(s) /\ InUse(pool) = Standing(s) \cup {l}
      <3>1. LevelSlab \in Nat \ {0}
        BY SlabAssumption
      <3>2. /\ PoolOK(Alloc(h.levelPool, LevelSlab))
            /\ Alloc(h.levelPool, LevelSlab).capacity >= h.levelPool.capacity
            /\ Allocated(h.levelPool, LevelSlab) \in 1 .. Alloc(h.levelPool, LevelSlab).capacity
            /\ Allocated(h.levelPool, LevelSlab) \notin InUse(h.levelPool)
            /\ InUse(Alloc(h.levelPool, LevelSlab)) =
                  InUse(h.levelPool) \cup {Allocated(h.levelPool, LevelSlab)}
        BY <1>1, <3>1, ObjectTaken
      <3> QED
        BY <1>1, <3>2
    <2>3. PICK j : Goes(h, side, s[side], price, j)
      BY <1>1, <1>4, PlaceExists
    <2> DEFINE pos == IF j = 0 THEN 0 ELSE s[side][j]
               worse == IF j = Len(s[side]) THEN 0 ELSE s[side][j + 1]
               r == With(s[side], j, l)
               s2 == Reladdered(s, side, r)
               e == <<>>
               q2 == Requeued(q, l, e)
    <2>4. /\ pos = LevelAbove(h, side, price) /\ worse = LevelBelow(h, side, price)
          /\ ~AtHead(h, side, price) => j # 0
      BY <1>1, <2>3, Neighbours, SMTT(60)
    <2>5. /\ pos = 0 \/ pos \in Elems(s[side])
          /\ worse = 0 \/ worse \in Elems(s[side])
          /\ j # 0 => pos \in Elems(s[side])
      <3>1. s[side] \in Seq(Nat) /\ j \in 0 .. Len(s[side])
        BY <1>1, <2>3 DEF Goes
      <3>2. /\ j # 0 => j \in 1 .. Len(s[side])
            /\ j # Len(s[side]) => j + 1 \in 1 .. Len(s[side])
        BY <3>1
      <3> QED
        BY <3>2 DEF Elems
    <2>6. \A k \in Elems(s[side]) : k \in 1 .. Len(h.levels) /\ k \in Standing(s)
      BY <1>1, LadderNodes
    <2>7. pos \in 0 .. Len(h.levels) /\ worse \in 0 .. Len(h.levels) /\ pos # l /\ worse # l
      <3> HIDE DEF pos, worse, l, pool
      <3>1. l # 0
        BY <2>2
      <3>2. /\ 0 \in 0 .. Len(h.levels)
            /\ \A k \in 1 .. Len(h.levels) : k \in 0 .. Len(h.levels)
        BY <1>1
      <3> QED
        BY <2>2, <2>5, <2>6, <3>1, <3>2
    <2>8. ~AtHead(h, side, price) => pos # Nil
      <3> HIDE DEF pos
      <3>1. ~AtHead(h, side, price) => pos \in 1 .. Len(h.levels)
        BY <2>4, <2>5, <2>6
      <3> QED
        BY <1>1, <3>1 DEF Nil
    <2>9. pool \in PoolState
      BY <2>2 DEF PoolOK
    <2>10. LevelLinked(h, g, side, price, l, pool, pos, worse)
      <3>1. pool.capacity >= Len(h.levels) /\ l \in 1 .. pool.capacity
        BY <2>2
      <3> HIDE DEF pos, worse
      <3>2. LevelLinked(h, CreateLevel(h, side, price), side, price,
                        Allocated(h.levelPool, LevelSlab), Alloc(h.levelPool, LevelSlab), pos, worse)
        BY <1>1, <2>4, <2>7, <2>8, <2>9, <3>1, CreateLevelFields
      <3> QED
        BY <3>2
    <2> HIDE DEF g
    <2>11. Book(g, s2, q2, spare)
      BY <1>4, <2>3, <2>10, BookLevelLinked
    <2> HIDE DEF s2
    <2>12. /\ g.orders = h.orders /\ g.orderPool = h.orderPool /\ g.ordersById = h.ordersById
           /\ g.levelPool = pool
           /\ g.byPrice = [h.byPrice EXCEPT ![side] = [h.byPrice[side] EXCEPT ![price] = l]]
      BY <2>10 DEF LevelLinked
    <2>13. g.byPrice[side][price] = l
      <3>1. h.byPrice \in [Side -> [Price -> Nat]]
        BY <1>1, HeapFields
      <3> QED
        BY <2>12, <3>1
    <2>14. LadderOK(g, side, s2[side]) /\ InUse(g.levelPool) = Standing(s2)
      BY <2>11 DEF Book, LaddersOK
    <2>15. l # Nil
      BY <2>2 DEF Nil
    <2>16. PICK i \in 1 .. Len(s2[side]) : s2[side][i] = l /\ g.levels[s2[side][i]].price = price
      BY <2>13, <2>14, <2>15 DEF LadderOK
    <2>17. l \in Elems(s2[side])
      BY <2>16 DEF Elems
    <2>18. Standing(s2) = Standing(s) \cup {l}
      BY <2>2, <2>12, <2>14
    <2>a. IsRequeued(q2, q, l, e)
      <3>1. l \in Nat /\ e \in Seq(Nat)
        BY <2>2, <2>9 DEF PoolState
      <3> HIDE DEF e, l
      <3> QED
        BY <1>1, <3>1, RequeuedIs
    <2>19. \A k \in Standing(s2) : k # l => q2[k] # <<>>
      <3> HIDE DEF e, l
      <3>2. \A k \in Nat : k # l => q2[k] = q[k]
        BY <2>a DEF IsRequeued
      <3> HIDE DEF q2
      <3>3. \A k \in Standing(s) : k \in Nat /\ q[k] # <<>>
        BY <1>1, StandingLevels DEF NoneEmpty
      <3> QED
        BY <2>18, <3>2, <3>3
    <2>20. LevelReady(h, g, side, price, s2, q2, spare)
      BY <2>11, <2>12, <2>13, <2>16, <2>17, <2>19 DEF LevelReady
    <2>21. QueueAt(h, q, side, price) = <<>>
      BY <1>4 DEF QueueAt
    <2>22. OnlyAt(h, q, g, q2, side, price, <<>>)
      <3>1. l \notin Standing(s)
        BY <2>2
      <3> HIDE DEF l
      <3>2. IsRequeued(q2, q, l, e)
        BY <2>a
      <3>3. e = <<>>
        OBVIOUS
      <3> HIDE DEF e, q2
      <3> QED
        BY <1>1, <1>4, <2>12, <2>15, <3>1, <3>2, <3>3, UnchangedAt
    <2> QED
      BY <2>1, <2>20, <2>21, <2>22
  <1> QED
    BY <1>3, <1>4

\* What an engine has become when order x has been filled in for t and queued.
EngineWith(h, q, t, x, g, s2, q2) ==
    /\ Engine(g, s2, q2) /\ x \in Queued(s2, q2)
    /\ g.ordersById = [h.ordersById EXCEPT ![t.id] = x]
    /\ SameOrder(g.orders[x], FilledIn(t))
    /\ \A n \in 1 .. Len(h.orders) : n # x => SameOrder(g.orders[n], h.orders[n])
    /\ OnlyAt(h, q, g, q2, t.side, t.price, Append(QueueAt(h, q, t.side, t.price), x))

\* RestOrder keeps the engine's structures.
LEMMA OrderRests ==
    ASSUME NEW h, NEW s, NEW q, Engine(h, s, q), NEW t \in Taker, t.price \in Price,
           h.ordersById[t.id] = Nil
    PROVE  \E s2, q2, x : EngineWith(h, q, t, x, RestOrder(h, t), s2, q2)
  <1> DEFINE x == Allocated(h.orderPool, OrderSlab)
             pool == Alloc(h.orderPool, OrderSlab)
             g == TakeOrder(h, t)
             k == GetOrCreateLevel(g, t.side, t.price)
             l == k.byPrice[t.side][t.price]
             f == PushOrder(k, l, x)
             m == Len(h.orders)
  <1>1. /\ h \in Heap /\ Book(h, s, q, {}) /\ IdsOK(h, Queued(s, q)) /\ NoneEmpty(s, q)
        /\ PoolOK(h.orderPool) /\ h.orderPool.capacity = m /\ m \in Nat
        /\ InUse(h.orderPool) = Queued(s, q)
    BY HeapFields DEF Engine, Book, LaddersOK, QueuesOK
  <1>2. t.side \in Side /\ t.id \in OrderId /\ t.participant \in Participant
    BY DEF Taker
  <1>3. RestOrder(h, t) = f
    BY DEF RestOrder, TakeOrder, FilledIn
  <1>4. /\ PoolOK(pool) /\ pool.capacity >= m /\ x \in 1 .. pool.capacity
        /\ x \notin Queued(s, q) /\ InUse(pool) = Queued(s, q) \cup {x}
    <2>1. OrderSlab \in Nat \ {0}
      BY SlabAssumption
    <2>2. /\ PoolOK(Alloc(h.orderPool, OrderSlab))
          /\ Alloc(h.orderPool, OrderSlab).capacity >= h.orderPool.capacity
          /\ Allocated(h.orderPool, OrderSlab) \in 1 .. Alloc(h.orderPool, OrderSlab).capacity
          /\ Allocated(h.orderPool, OrderSlab) \notin InUse(h.orderPool)
          /\ InUse(Alloc(h.orderPool, OrderSlab)) =
                InUse(h.orderPool) \cup {Allocated(h.orderPool, OrderSlab)}
      BY <1>1, <2>1, ObjectTaken
    <2> QED
      BY <1>1, <2>2
  <1>5. OrderTaken(h, g, t, x, pool)
    <2>1. pool \in PoolState
      BY <1>4 DEF PoolOK
    <2>2. /\ Alloc(h.orderPool, OrderSlab) \in PoolState
          /\ Alloc(h.orderPool, OrderSlab).capacity >= Len(h.orders)
          /\ Allocated(h.orderPool, OrderSlab) \in 1 .. Alloc(h.orderPool, OrderSlab).capacity
      BY <1>4, <2>1
    <2> QED
      BY <1>1, <2>2, TakeOrderFields
  <1> HIDE DEF g
  <1>6. Book(g, s, q, {x})
    BY <1>1, <1>5, BookTaken
  <1>7. PICK s2, q2 : /\ LevelReady(g, k, t.side, t.price, s2, q2, {x})
                      /\ OnlyAt(g, q, k, q2, t.side, t.price, QueueAt(g, q, t.side, t.price))
    BY <1>1, <1>2, <1>6, LevelFound
  <1> HIDE DEF k
  <1>8. /\ Book(k, s2, q2, {x}) /\ l \in Elems(s2[t.side]) /\ k.levels[l].price = t.price
        /\ k.orders = g.orders /\ k.orderPool = g.orderPool /\ k.ordersById = g.ordersById
        /\ \A n \in Standing(s2) : n # l => q2[n] # <<>>
    BY <1>7 DEF LevelReady
  <1> HIDE DEF l
  <1>9. /\ g.orders[x] = FilledIn(t) /\ Len(g.orders) = pool.capacity /\ g.orderPool = pool
        /\ g.ordersById = [h.ordersById EXCEPT ![t.id] = x]
        /\ \A n \in 1 .. m : n # x => g.orders[n] = h.orders[n]
    <2>1. pool.capacity \in Nat /\ pool.capacity >= m
      BY <1>4 DEF PoolOK, PoolState
    <2> HIDE DEF x, pool
    <2>2. /\ g.orders[x] = FilledIn(t) /\ Len(g.orders) = pool.capacity /\ g.orderPool = pool
          /\ g.ordersById = [h.ordersById EXCEPT ![t.id] = x]
          /\ \A n \in 1 .. pool.capacity : n # x =>
                g.orders[n] = IF n \in 1 .. Len(h.orders) THEN h.orders[n] ELSE BlankOrder
      BY <1>5, Zenon DEF OrderTaken
    <2>3. \A n \in 1 .. m : n \in 1 .. pool.capacity
      BY <1>1, <2>1
    <2> QED
      BY <2>2, <2>3
  <1>10. /\ FilledIn(t).id = t.id /\ FilledIn(t).participant = t.participant
         /\ FilledIn(t).side = t.side /\ FilledIn(t).price = t.price
    BY DEF FilledIn, BlankOrder
  <1>11. /\ k \in Heap /\ l \in Standing(s2) /\ l \in 1 .. Len(k.levels) /\ l \in Nat
         /\ FifoOK(k, t.side, l, q2[l]) /\ q2 \in [Nat -> Seq(Nat)]
    <2>1. LaddersOK(k, s2) /\ k \in Heap /\ FifoOK(k, t.side, l, q2[l]) /\ q2 \in [Nat -> Seq(Nat)]
      BY <1>2, <1>8 DEF Book, LaddersOK, QueuesOK
    <2>2. l \in Standing(s2)
      BY <1>2, <1>8 DEF Standing
    <2> QED
      BY <2>1, <2>2, StandingLevels
  <1>12. /\ x \in 1 .. Len(k.orders) /\ x \notin Queued(s2, q2) /\ Len(k.orders) = pool.capacity
    BY <1>4, <1>8, <1>9 DEF Book, QueuesOK
  <1>13. k.levels[l].back \in 0 .. Len(k.orders) /\ k.levels[l].back # x
    <2>1. k.levels[l].back = LastOf(q2[l])
      BY <1>11 DEF FifoOK
    <2>2. q2[l] \in Seq(Nat) /\ \A i \in 1 .. Len(q2[l]) : q2[l][i] \in 1 .. Len(k.orders)
      BY <1>11, QueueNodes
    <2>3. q2[l] # <<>> => Len(q2[l]) \in 1 .. Len(q2[l])
      <3>1. q2[l] # <<>> => Len(q2[l]) # 0
        BY <2>2
      <3> QED
        BY <2>2, <3>1
    <2>4. Elems(q2[l]) \subseteq Queued(s2, q2)
      BY <1>11 DEF Queued
    <2>5. Len(k.orders) \in Nat
      BY <1>11, HeapFields
    <2>6. CASE q2[l] = <<>>
      BY <1>12, <2>1, <2>5, <2>6 DEF LastOf
    <2>7. CASE q2[l] # <<>>
      <3>1. k.levels[l].back = q2[l][Len(q2[l])]
        BY <2>1, <2>7 DEF LastOf
      <3>2. k.levels[l].back \in Elems(q2[l]) /\ k.levels[l].back \in 1 .. Len(k.orders)
        BY <2>2, <2>3, <2>7, <3>1 DEF Elems
      <3> QED
        BY <1>12, <2>4, <2>5, <3>2
    <2> QED
      BY <2>6, <2>7
  <1>14. Pushed(k, f, l, x, k.levels[l].back)
    <2>1. x \in 1 .. Len(k.orders) /\ l \in 1 .. Len(k.levels)
      BY <1>11, <1>12
    <2> HIDE DEF x
    <2> QED
      BY <1>11, <1>13, <2>1, PushOrderFields
  <1> HIDE DEF f
  <1> DEFINE r == With(q2[l], Len(q2[l]), x)
             p == Requeued(q2, l, r)
  <1>15. Book(f, s2, p, {})
    <2>1. k.orders[x].side = t.side /\ k.orders[x].price = k.levels[l].price
      BY <1>8, <1>9, <1>10
    <2> QED
      BY <1>2, <1>8, <1>14, <2>1, BookPushed
  <1>16. /\ f.orderPool = pool /\ f.ordersById = [h.ordersById EXCEPT ![t.id] = x]
         /\ Len(f.orders) = pool.capacity
         /\ \A n \in 1 .. pool.capacity : SameOrder(f.orders[n], g.orders[n])
    BY <1>8, <1>9, <1>12, <1>14 DEF Pushed, SameFrame
  <1>17. Queued(s2, p) = Queued(s, q) \cup {x}
    <2> HIDE DEF p
    <2>1. InUse(f.orderPool) = Queued(s2, p)
      BY <1>15 DEF Book, QueuesOK
    <2> QED
      BY <1>4, <1>16, <2>1
  <1>c. x \in Nat
    <2>1. x \in 1 .. pool.capacity
      BY <1>4
    <2> HIDE DEF x, pool
    <2> QED
      BY <2>1
  <1>b. IsRequeued(p, q2, l, r)
    <2>1. r \in Seq(Nat)
      <3>1. q2[l] \in Seq(Nat) /\ Append(q2[l], x) \in Seq(Nat)
        BY <1>11, <1>c
      <3> HIDE DEF x
      <3>2. r = Append(q2[l], x)
        BY <1>c, <3>1, WithLast
      <3> QED
        BY <3>1, <3>2
    <2> HIDE DEF r
    <2> QED
      BY <1>11, <2>1, RequeuedIs
  <1>18. NoneEmpty(s2, p)
    <2>1. r \in Seq(Nat) /\ r # <<>>
      <3>1. q2[l] \in Seq(Nat) /\ Len(q2[l]) \in Nat /\ x \in Nat
        <4>1. q2[l] \in Seq(Nat)
          BY <1>11
        <4>2. x \in 1 .. pool.capacity
          BY <1>4
        <4> HIDE DEF x, pool
        <4> QED
          BY <4>1, <4>2
      <3> DEFINE n == Len(q2[l])
                 a == q2[l]
      <3> HIDE DEF a, n, x
      <3>2. \A i \in 1 .. (n + 1) : (IF i <= n THEN a[i] ELSE IF i = n + 1 THEN x ELSE a[i - 1]) \in Nat
        BY <3>1 DEF a, n
      <3>3. With(a, n, x) \in Seq(Nat)
        BY <3>1, <3>2 DEF With, a, n
      <3>4. Len(With(a, n, x)) = n + 1
        BY <3>1 DEF With, a, n
      <3>5. With(a, n, x) # <<>>
        <4> DEFINE w == With(a, n, x)
        <4> HIDE DEF w
        <4>1. Len(w) # 0
          BY <3>1, <3>4 DEF w, n, a
        <4> QED
          BY <3>3, <4>1 DEF w
      <3> QED
        BY <3>3, <3>5 DEF a, n
    <2> HIDE DEF r
    <2>a. IsRequeued(Requeued(q2, l, r), q2, l, r)
      BY <1>11, <2>1, RequeuedIs
    <2>2. p[l] = r /\ \A n \in Nat : n # l => p[n] = q2[n]
      BY <2>a DEF IsRequeued
    <2> HIDE DEF p
    <2>3. \A n \in Standing(s2) : n \in Nat
      BY <1>8, StandingLevels DEF Book
    <2> QED
      BY <1>8, <2>1, <2>2, <2>3 DEF NoneEmpty
  <1> HIDE DEF p
  <1>19. IdsOK(f, Queued(s2, p))
    <2> DEFINE U == Queued(s, q)
               V == Queued(s2, p)
               b == h.ordersById
    <2>1. /\ U \subseteq 1 .. m
          /\ \A n \in U : /\ h.orders[n].id \in OrderId /\ h.orders[n].participant \in Participant
                          /\ b[h.orders[n].id] = n
          /\ \A id \in OrderId : b[id] # Nil => b[id] \in U /\ h.orders[b[id]].id = id
      BY <1>1 DEF IdsOK
    <2>2. V = U \cup {x} /\ x \notin U
      BY <1>4, <1>17
    <2>3. b \in [OrderId -> Nat] /\ b[t.id] = Nil
      BY <1>1, HeapFields
    <2>4. pool.capacity \in Nat
      BY <1>4 DEF PoolOK, PoolState
    <2>5. \A n \in U : /\ n \in 1 .. m /\ n \in 1 .. pool.capacity /\ n # x
      <3> HIDE DEF U, x, pool, m
      <3> QED
        BY <1>1, <1>4, <2>1, <2>2, <2>4
    <2> HIDE DEF U, V, b
    <2>6. \A id \in OrderId : f.ordersById[id] = IF id = t.id THEN x ELSE b[id]
      BY <1>2, <1>16, <2>3 DEF b
    <2>7. \A n \in U : /\ f.orders[n].id = h.orders[n].id
                       /\ f.orders[n].participant = h.orders[n].participant
      BY <1>9, <1>16, <2>5 DEF SameOrder
    <2>8. f.orders[x].id = t.id /\ f.orders[x].participant = t.participant
      BY <1>4, <1>9, <1>10, <1>16 DEF SameOrder
    <2>9. \A n \in U : h.orders[n].id # t.id
      <3>1. \A n \in U : n # Nil
        BY <1>1, <2>5 DEF Nil
      <3> QED
        BY <2>1, <2>3, <3>1
    <2> HIDE DEF x
    <2>10. \A n \in V : /\ f.orders[n].id \in OrderId /\ f.orders[n].participant \in Participant
                        /\ f.ordersById[f.orders[n].id] = n
      <3> SUFFICES ASSUME NEW n \in V
                   PROVE  /\ f.orders[n].id \in OrderId /\ f.orders[n].participant \in Participant
                          /\ f.ordersById[f.orders[n].id] = n
        OBVIOUS
      <3>1. CASE n \in U
        BY <2>1, <2>6, <2>7, <2>9, <3>1
      <3>2. CASE n = x
        BY <1>2, <2>6, <2>8, <3>2
      <3> QED
        BY <2>2, <3>1, <3>2
    <2>11. ASSUME NEW id \in OrderId, f.ordersById[id] # Nil
           PROVE  f.ordersById[id] \in V /\ f.orders[f.ordersById[id]].id = id
      <3>1. CASE id = t.id
        BY <2>2, <2>6, <2>8, <3>1
      <3>2. CASE id # t.id
        <4>1. f.ordersById[id] = b[id] /\ b[id] # Nil
          BY <2>6, <2>11, <3>2
        <4> QED
          BY <2>1, <2>2, <2>7, <4>1
      <3> QED
        BY <3>1, <3>2
    <2>12. V \subseteq 1 .. Len(f.orders)
      BY <1>4, <1>16, <2>2, <2>5
    <2> QED
      BY <2>10, <2>11, <2>12 DEF IdsOK, V
  <1>20. Engine(f, s2, p)
    BY <1>15, <1>18, <1>19 DEF Engine
  <1>21. x \in Queued(s2, p)
    BY <1>17
  <1>22. SameOrder(f.orders[x], FilledIn(t))
    <2>1. x \in 1 .. pool.capacity
      BY <1>4
    <2> HIDE DEF x
    <2>2. SameOrder(f.orders[x], g.orders[x])
      BY <1>16, <2>1
    <2> QED
      BY <1>9, <2>2
  <1>23. \A n \in 1 .. m : n # x => SameOrder(f.orders[n], h.orders[n])
    <2>1. pool.capacity \in Nat /\ pool.capacity >= m
      BY <1>4 DEF PoolOK, PoolState
    <2> HIDE DEF x, pool
    <2>2. \A n \in 1 .. m : n \in 1 .. pool.capacity
      BY <1>1, <2>1
    <2> QED
      BY <1>9, <1>16, <2>2
  <1>24. OnlyAt(h, q, f, p, t.side, t.price, Append(QueueAt(h, q, t.side, t.price), x))
    <2>1. LaddersOK(k, s2)
      BY <1>8 DEF Book
    <2>2. QueueAt(k, q2, t.side, t.price) = q2[l]
      BY <1>2, <1>8, <2>1, LevelAtPrice
    <2>3. f.byPrice = k.byPrice
      BY <1>14 DEF Pushed, SameFrame
    <2>4. OnlyAt(k, q2, f, p, t.side, t.price, r)
      BY <1>2, <1>8, <1>b, <2>1, <2>3, RequeuedAt
    <2>5. g.byPrice = h.byPrice
      BY <1>5 DEF OrderTaken
    <2>6. q2[l] = QueueAt(h, q, t.side, t.price)
      BY <1>2, <1>7, <2>2, <2>5 DEF OnlyAt, QueueAt
    <2>7. r = Append(q2[l], x)
      <3>1. q2[l] \in Seq(Nat) /\ x \in Nat
        BY <1>11, <1>c
      <3> HIDE DEF x
      <3> QED
        BY <3>1, WithLast
    <2> HIDE DEF r, x
    <2>8. OnlyAt(h, q, f, p, t.side, t.price, r)
      BY <1>7, <2>4, <2>5 DEF OnlyAt, QueueAt
    <2> QED
      BY <2>6, <2>7, <2>8
  <1>25. EngineWith(h, q, t, x, f, s2, p)
    BY <1>16, <1>20, <1>21, <1>22, <1>23, <1>24 DEF EngineWith
  <1> QED
    BY <1>3, <1>25

\* The constructor's reserve: free objects only.
LEMMA Reserved ==
    ASSUME NEW n \in Nat, NEW slab \in Nat \ {0}
    PROVE  PoolOK(Reserve(n, slab)) /\ InUse(Reserve(n, slab)) = {}
  <1> DEFINE K == (n + slab - 1) \div slab
             Body(f) == [k \in 0 .. K |-> IF k = 0 THEN EmptyPool ELSE AddSlab(f[k - 1], slab)]
             F == CHOOSE f : f = Body(f)
             S == {p \in PoolState : PoolOK(p) /\ InUse(p) = {}}
             step == [k \in 1 .. K |-> [p \in S |-> AddSlab(p, slab)]]
  <1>1. K \in Nat
    OBVIOUS
  <1>2. EmptyPool \in S
    <2>1. EmptyPool \in PoolState
      BY DEF EmptyPool, PoolState
    <2>2. PoolOK(EmptyPool)
      BY <2>1 DEF PoolOK, EmptyPool, FreeList
    <2>3. InUse(EmptyPool) = {}
      BY DEF InUse, EmptyPool
    <2> QED
      BY <2>1, <2>2, <2>3
  <1>3. \A p \in S : AddSlab(p, slab) \in S
    BY SlabAdded DEF PoolOK
  <1> HIDE DEF K, S
  <1>4. step \in [1 .. K -> [S -> S]]
    BY <1>3
  <1>5. IsStep(S, K, EmptyPool, step)
    BY <1>2, <1>4 DEF IsStep
  <1> DEFINE st == step
  <1>6. \A k \in 1 .. K : \A p \in S : st[k][p] = AddSlab(p, slab)
    OBVIOUS
  <1>7. PICK f : IsRecursion(S, K, EmptyPool, st, f)
    <2> HIDE DEF st
    <2> QED
      BY <1>1, <1>5, RecursionOnInterval DEF st
  <1> HIDE DEF st
  <1>8. f = Body(f)
    <2>1. f \in [0 .. K -> S] /\ f[0] = EmptyPool /\ \A k \in 1 .. K : f[k] = st[k][f[k - 1]]
      BY <1>7 DEF IsRecursion
    <2>2. \A k \in 1 .. K : f[k] = AddSlab(f[k - 1], slab)
      <3>1. \A k \in 1 .. K : k - 1 \in 0 .. K
        BY <1>1
      <3> QED
        BY <1>6, <2>1, <3>1
    <2>3. \A k \in 0 .. K : k # 0 => k \in 1 .. K
      BY <1>1
    <2> QED
      BY <2>1, <2>2, <2>3
  <1>9. F = Body(F)
    BY <1>8, Zenon
  <1>10. Reserve(n, slab) = F[K]
    BY DEF Reserve, K
  <1> HIDE DEF F
  <1>11. F[0] = EmptyPool /\ \A k \in 1 .. K : F[k] = AddSlab(F[k - 1], slab)
    BY <1>1, <1>9
  <1> DEFINE T == {k \in 0 .. K : F[k] \in S}
  <1>12. 0 \in T
    BY <1>1, <1>2, <1>11
  <1>13. \A k \in 0 .. (K - 1) : k \in T => k + 1 \in T
    <2> SUFFICES ASSUME NEW k \in 0 .. (K - 1), k \in T PROVE k + 1 \in T
      OBVIOUS
    <2>1. k + 1 \in 1 .. K /\ (k + 1) - 1 = k /\ F[k] \in S
      BY <1>1
    <2>2. F[k + 1] = AddSlab(F[k], slab)
      BY <1>11, <2>1
    <2> QED
      BY <1>1, <1>3, <2>1, <2>2
  <1>14. 0 .. K \subseteq T
    <2> HIDE DEF T
    <2> QED
      BY <1>1, <1>12, <1>13, UpTo
  <1>15. F[K] \in S
    BY <1>1, <1>14
  <1> QED
    BY <1>10, <1>15 DEF S

NoLadders == [side \in Side |-> <<>>]
NoQueues  == [l \in Nat |-> <<>>]

\* The constructor leaves an engine without levels and orders.
LEMMA EngineAtStart == Engine(EmptyHeap, NoLadders, NoQueues)
  <1> DEFINE h == EmptyHeap
             op == Reserve(ExpectedOrders, OrderSlab)
             lp == Reserve(ExpectedLevels, LevelSlab)
             o == [n \in 1 .. op.capacity |-> BlankOrder]
             l == [n \in 1 .. lp.capacity |-> BlankLevel]
             b == [side \in Side |-> Nil]
             bp == [side \in Side |-> [p \in Price |-> Nil]]
             by == [id \in OrderId |-> Nil]
             e == <<>>
  <1>1. /\ PoolOK(op) /\ InUse(op) = {} /\ PoolOK(lp) /\ InUse(lp) = {}
    BY SlabAssumption, Reserved
  <1>2. op \in PoolState /\ lp \in PoolState /\ op.capacity \in Nat /\ lp.capacity \in Nat
    BY <1>1 DEF PoolOK, PoolState
  <1> HIDE DEF op, lp
  <1>3. /\ o \in Seq(OrderNode) /\ l \in Seq(LevelNode)
        /\ Len(o) = op.capacity /\ Len(l) = lp.capacity
    BY <1>2, BlankOrderTyped, BlankLevelTyped
  <1>4. /\ b \in [Side -> Nat] /\ bp \in [Side -> [Price -> Nat]] /\ by \in [OrderId -> Nat]
    BY DEF Nil
  <1>5. /\ \A n \in 1 .. op.capacity : o[n] = BlankOrder
        /\ \A n \in 1 .. lp.capacity : l[n] = BlankLevel
        /\ \A side \in Side : b[side] = 0 /\ \A p \in Price : bp[side][p] = 0
        /\ \A id \in OrderId : by[id] = 0
    BY DEF Nil
  <1>6. h = [orders |-> o, levels |-> l, orderPool |-> op, levelPool |-> lp, best |-> b,
             byPrice |-> bp, ordersById |-> by]
    BY DEF EmptyHeap, op, lp
  <1> HIDE DEF o, l, b, bp, by, h
  <1>7. /\ h \in Heap /\ h.orders = o /\ h.levels = l /\ h.orderPool = op /\ h.levelPool = lp
        /\ h.best = b /\ h.byPrice = bp /\ h.ordersById = by
    BY <1>2, <1>3, <1>4, <1>6 DEF Heap
  <1>8. /\ NoLadders \in [Side -> Seq(Nat)] /\ \A side \in Side : NoLadders[side] = e
        /\ NoQueues \in [Nat -> Seq(Nat)]
    BY DEF NoLadders, NoQueues
  <1>9. Standing(NoLadders) = {}
    <2>1. Elems(e) = {}
      BY DEF Elems
    <2> QED
      BY <1>8, <2>1 DEF Standing
  <1>10. Queued(NoLadders, NoQueues) = {}
    BY <1>9 DEF Queued
  <1>11. ASSUME NEW side \in Side PROVE LadderOK(h, side, NoLadders[side])
    <2>1. Len(e) = 0 /\ \A m \in Nat : e \in Seq(1 .. m)
      OBVIOUS
    <2>2. DList(Len(h.levels), Worses(h), Betters(h), e)
      BY <1>2, <1>3, <1>7, <2>1 DEF DList
    <2>3. h.best[side] = FirstOf(e)
      BY <1>5, <1>7 DEF FirstOf
    <2>4. \A p \in Price : h.byPrice[side][p] = Nil
      BY <1>5, <1>7 DEF Nil
    <2>5. LadderOK(h, side, e)
      BY <2>1, <2>2, <2>3, <2>4 DEF LadderOK
    <2> QED
      BY <1>8, <2>5
  <1>12. LaddersOK(h, NoLadders)
    <2>1. \A a \in Side : Elems(NoLadders[a]) = {}
      BY <1>8 DEF Elems
    <2>2. \A n \in 1 .. Len(h.levels) : h.levels[n] = BlankLevel
      BY <1>3, <1>5, <1>7
    <2> QED
      BY <1>1, <1>3, <1>7, <1>8, <1>9, <1>11, <2>1, <2>2 DEF LaddersOK
  <1>13. QueuesOK(h, NoLadders, NoQueues, {})
    <2>1. \A a \in Side : Elems(NoLadders[a]) = {}
      BY <1>8 DEF Elems
    <2>2. \A n \in 1 .. Len(h.orders) : h.orders[n] = BlankOrder
      BY <1>3, <1>5, <1>7
    <2> QED
      BY <1>1, <1>3, <1>7, <1>8, <1>10, <2>1, <2>2 DEF QueuesOK
  <1>14. IdsOK(h, {})
    <2>1. \A id \in OrderId : h.ordersById[id] = Nil
      BY <1>5, <1>7 DEF Nil
    <2> QED
      BY <2>1 DEF IdsOK
  <1>15. NoneEmpty(NoLadders, NoQueues)
    BY <1>9 DEF NoneEmpty
  <1> QED
    BY <1>10, <1>12, <1>13, <1>14, <1>15 DEF Engine, Book, h

\* A quantity, of an order and of its level, changed by d.
LEMMA EngineRequantified ==
    ASSUME NEW h, NEW s, NEW q, Engine(h, s, q), NEW x \in Queued(s, q), NEW d \in Int,
           NEW qty \in 0 .. (QtyMod - 1), qty = h.orders[x].remaining + d,
           NEW l, l = h.orders[x].level, NEW total, total = Wrap(h.levels[l].total_qty + d)
    PROVE  /\ Engine(Requantify(h, x, l, qty, total), s, q)
           /\ Requantified(h, Requantify(h, x, l, qty, total), x, l, qty, total)
  <1> DEFINE g == Requantify(h, x, l, qty, total)
  <1>1. h \in Heap /\ Book(h, s, q, {}) /\ IdsOK(h, Queued(s, q)) /\ NoneEmpty(s, q)
    BY DEF Engine, Book, LaddersOK
  <1>2. x \in 1 .. Len(h.orders) /\ l \in Standing(s) /\ x \in Elems(q[l])
    BY <1>1, QueuedOrders
  <1>3. l \in 1 .. Len(h.levels)
    BY <1>1, <1>2, StandingLevels DEF Book
  <1>4. total \in 0 .. (QtyMod - 1)
    <2>1. h.levels[l] \in LevelNode
      BY <1>1, <1>3, HeapFields
    <2>2. h.levels[l].total_qty \in Int
      BY <2>1 DEF LevelNode
    <2> DEFINE v == h.levels[l].total_qty + d
    <2>3. v \in Int
      BY <2>2
    <2> HIDE DEF v
    <2>4. v % QtyMod \in 0 .. (QtyMod - 1)
      BY <2>3, QtyAssumption
    <2> QED
      BY <2>4 DEF Wrap, v
  <1>5. Requantified(h, g, x, l, qty, total)
    BY <1>1, <1>2, <1>3, <1>4, RequantifiedBy
  <1> HIDE DEF g
  <1>6. PICK side \in Side : l \in Elems(s[side])
    BY <1>2 DEF Standing
  <1>7. PICK i \in 1 .. Len(q[l]) : x = q[l][i]
    BY <1>2 DEF Elems
  <1>8. Book(g, s, q, {})
    BY <1>1, <1>5, <1>6, <1>7, BookRequantified, Zenon
  <1>9. IdsOK(g, Queued(s, q))
    <2>1. /\ Len(g.orders) = Len(h.orders) /\ g.ordersById = h.ordersById
          /\ \A n \in 1 .. Len(h.orders) : /\ g.orders[n].id = h.orders[n].id
                                           /\ g.orders[n].participant = h.orders[n].participant
      BY <1>5 DEF Requantified, SameFrame
    <2> DEFINE U == Queued(s, q)
    <2>2. /\ U \subseteq 1 .. Len(h.orders)
          /\ \A n \in U : /\ h.orders[n].id \in OrderId /\ h.orders[n].participant \in Participant
                          /\ h.ordersById[h.orders[n].id] = n
          /\ \A id \in OrderId : h.ordersById[id] # Nil =>
                h.ordersById[id] \in U /\ h.orders[h.ordersById[id]].id = id
      BY <1>1 DEF IdsOK
    <2> HIDE DEF U
    <2>3. /\ U \subseteq 1 .. Len(g.orders)
          /\ \A n \in U : /\ g.orders[n].id \in OrderId /\ g.orders[n].participant \in Participant
                          /\ g.ordersById[g.orders[n].id] = n
          /\ \A id \in OrderId : g.ordersById[id] # Nil =>
                g.ordersById[id] \in U /\ g.orders[g.ordersById[id]].id = id
      BY <2>1, <2>2
    <2> QED
      BY <2>3, SMTT(60) DEF IdsOK, U
  <1>10. Engine(g, s, q)
    BY <1>1, <1>8, <1>9 DEF Engine
  <1> QED
    BY <1>5, <1>10, Zenon DEF g
===============================================================================
