------------------------- MODULE MatchingEngineProofs -------------------------
(***************************************************************************)
(* The book of the fast engine keeps its shape for every set of ids,       *)
(* owners, prices and quantities and every slab size: its linked lists,    *)
(* its price index, its totals and its memory; and the pointers that the   *)
(* matching loops hold stay live.                                          *)
(***************************************************************************)
EXTENDS BookLemmas

-----------------------------------------------------------------------------
(* The pointers of match_incoming                                          *)

\* A cursor on the oldest order of the best level of a side.
AtFront(h, side, c) ==
    /\ c.lvl = h.best[side] /\ c.lvl # Nil
    /\ c.maker # Nil /\ h.levels[c.lvl].front = c.maker
    /\ h.levels[c.lvl].price = c.price

\* What stands there is live, and leads its queue.
LEMMA FrontOrder ==
    ASSUME NEW h, NEW s, NEW q, Engine(h, s, q), NEW side \in Side, NEW c, AtFront(h, side, c)
    PROVE  /\ c.lvl \in 1 .. Len(h.levels) /\ c.lvl \in InUse(h.levelPool)
           /\ c.maker \in Queued(s, q) /\ c.maker \in InUse(h.orderPool)
           /\ c.maker \in 1 .. Len(h.orders)
           /\ h.orders[c.maker].prev = Nil /\ h.orders[c.maker].level = c.lvl
           /\ h.orders[c.maker].next \in 0 .. Len(h.orders)
  <1> DEFINE l == c.lvl
             x == c.maker
             m == Len(h.orders)
  <1>1. /\ h \in Heap /\ Book(h, s, q, {}) /\ LaddersOK(h, s) /\ LadderOK(h, side, s[side])
        /\ InUse(h.levelPool) = Standing(s) /\ InUse(h.orderPool) = Queued(s, q)
        /\ m \in Nat
    BY HeapFields DEF Engine, Book, LaddersOK, QueuesOK
  <1>2. l = h.best[side] /\ l # 0 /\ x # 0 /\ h.levels[l].front = x
    BY DEF AtFront, Nil
  <1> HIDE DEF l, x, m
  <1>3. l \in Elems(s[side])
    <2>1. l = FirstOf(s[side])
      BY <1>1, <1>2 DEF LadderOK
    <2>2. s[side] # <<>> /\ l = s[side][1]
      BY <1>2, <2>1 DEF FirstOf
    <2>3. s[side] \in Seq(Nat)
      BY <1>1 DEF LaddersOK
    <2>4. Len(s[side]) # 0
      BY <2>2, <2>3
    <2>5. 1 \in 1 .. Len(s[side])
      BY <2>3, <2>4
    <2> QED
      BY <2>2, <2>5 DEF Elems
  <1>4. l \in Standing(s) /\ l \in 1 .. Len(h.levels) /\ l \in Nat
    BY <1>1, <1>3, StandingLevels DEF Standing
  <1>5. FifoOK(h, side, l, q[l]) /\ q[l] \in Seq(Nat)
    BY <1>1, <1>3, <1>4 DEF Book, QueuesOK
  <1>6. q[l] # <<>> /\ x = q[l][1] /\ 1 \in 1 .. Len(q[l])
    <2>1. x = FirstOf(q[l])
      BY <1>2, <1>5 DEF FifoOK
    <2>2. q[l] # <<>> /\ x = q[l][1]
      BY <1>2, <2>1 DEF FirstOf
    <2>3. Len(q[l]) # 0
      BY <1>5, <2>2
    <2> QED
      BY <1>5, <2>2, <2>3, SMTT(60)
  <1>7. x \in Elems(q[l])
    BY <1>6 DEF Elems
  <1>8. x \in Queued(s, q) /\ x \in 1 .. m /\ h.orders[x].level = l
    BY <1>1, <1>4, <1>7, QueuedOrders DEF m
  <1>9. DList(m, Nexts(h), Prevs(h), q[l]) /\ Nexts(h)[x] = h.orders[x].next
        /\ Prevs(h)[x] = h.orders[x].prev
    BY <1>5, <1>8 DEF FifoOK, Nexts, Prevs, m
  <1>10. h.orders[x].prev = 0
    BY <1>6, <1>9 DEF DList, Before
  <1>11. h.orders[x].next \in 0 .. m
    <2>1. h.orders[x].next = 0 \/ h.orders[x].next \in Elems(q[l])
      BY <1>1, <1>7, <1>9, LinksInside
    <2>2. \A n \in Elems(q[l]) : n \in 1 .. m
      BY <1>1, <1>5, QueueNodes DEF m
    <2> QED
      BY <1>1, <2>1, <2>2
  <1> QED
    BY <1>1, <1>4, <1>8, <1>10, <1>11 DEF l, x, m, Nil

\* The outer loop reads the front of the best level.
LEMMA BestHasFront ==
    ASSUME NEW h, NEW s, NEW q, Engine(h, s, q), NEW side \in Side, h.best[side] # Nil,
           NEW c, c.lvl = h.best[side], c.price = h.levels[c.lvl].price,
           c.maker = h.levels[c.lvl].front
    PROVE  AtFront(h, side, c)
  <1> DEFINE l == c.lvl
  <1>1. /\ h \in Heap /\ Book(h, s, q, {}) /\ LaddersOK(h, s) /\ LadderOK(h, side, s[side])
        /\ NoneEmpty(s, q)
    BY DEF Engine, Book, LaddersOK
  <1>2. l \in Elems(s[side])
    <2>1. l = FirstOf(s[side]) /\ l # 0
      BY <1>1 DEF LadderOK, Nil
    <2> HIDE DEF l
    <2>2. s[side] # <<>> /\ l = s[side][1]
      BY <2>1 DEF FirstOf
    <2>3. s[side] \in Seq(Nat)
      BY <1>1 DEF LaddersOK
    <2>4. Len(s[side]) # 0
      BY <2>2, <2>3
    <2>5. 1 \in 1 .. Len(s[side])
      BY <2>3, <2>4
    <2> QED
      BY <2>2, <2>5, SMTT(60) DEF Elems
  <1>3. l \in Standing(s) /\ l \in Nat
    BY <1>1, <1>2, StandingLevels DEF Standing
  <1>4. FifoOK(h, side, l, q[l]) /\ q[l] \in Seq(Nat) /\ q[l] # <<>>
    BY <1>1, <1>2, <1>3 DEF Book, QueuesOK, NoneEmpty
  <1>5. h.levels[l].front = q[l][1] /\ q[l][1] \in 1 .. Len(h.orders)
    <2>1. h.levels[l].front = FirstOf(q[l])
      BY <1>4 DEF FifoOK
    <2>2. Len(q[l]) # 0
      BY <1>4
    <2>3. 1 \in 1 .. Len(q[l])
      BY <1>4, <2>2
    <2>4. \A i \in 1 .. Len(q[l]) : q[l][i] \in 1 .. Len(h.orders)
      BY <1>1, <1>4, QueueNodes
    <2> QED
      BY <1>4, <2>1, <2>3, <2>4, SMTT(60) DEF FirstOf
  <1>6. c.maker # Nil
    BY <1>1, <1>5, HeapFields DEF Nil
  <1> QED
    BY <1>6 DEF AtFront

\* The successor read before the front order goes is the front afterwards.
LEMMA NextAtFront ==
    ASSUME NEW h, NEW s, NEW q, Engine(h, s, q), NEW side \in Side, NEW c, AtFront(h, side, c),
           NEW g, Gone(h, g, c.maker), NEW c2, c2.lvl = c.lvl, c2.price = c.price,
           c2.maker = h.orders[c.maker].next, c2.maker # Nil
    PROVE  AtFront(g, side, c2)
  <1>1. h.orders[c.maker].prev = Nil /\ h.orders[c.maker].level = c.lvl
    BY FrontOrder
  <1>2. /\ g.best = h.best
        /\ g.levels[c.lvl].front = h.orders[c.maker].next
        /\ g.levels[c.lvl].price = h.levels[c.lvl].price
    BY <1>1 DEF Gone
  <1> QED
    BY <1>2 DEF AtFront

\* The price of the best level is an integer.
LEMMA BestPriceTyped ==
    ASSUME NEW h \in Heap, NEW l \in 1 .. Len(h.levels)
    PROVE  h.levels[l].price \in Int
  <1>1. h.levels[l] \in LevelNode
    BY HeapFields
  <1> QED
    BY <1>1 DEF LevelNode

-----------------------------------------------------------------------------
(* The book as the reference engine has it                                 *)

AsOrders(h, f) == [i \in 1 .. Len(f) |-> AsOrder(h, f[i])]

\* The reference engine's queue at a price is what waits there.
LEMMA QueueRead ==
    ASSUME NEW h, NEW s, NEW q, Engine(h, s, q), NEW side \in Side, NEW p \in Price
    PROVE  /\ BookOf(h)[side][p] = AsOrders(h, QueueAt(h, q, side, p))
           /\ QueueAt(h, q, side, p) \in Seq(Nat)
           /\ \A n \in Elems(QueueAt(h, q, side, p)) :
                 /\ n \in Queued(s, q) /\ h.orders[n].side = side /\ h.orders[n].price = p
  <1> DEFINE l == h.byPrice[side][p]
  <1>1. /\ Book(h, s, q, {}) /\ LaddersOK(h, s) /\ q \in [Nat -> Seq(Nat)] /\ h \in Heap
    BY DEF Engine, Book, QueuesOK, LaddersOK
  <1>2. BookOf(h)[side][p] = Queue(h, side, p)
    BY DEF BookOf
  <1>3. CASE l = Nil
    <2>1. QueueAt(h, q, side, p) = <<>> /\ Queue(h, side, p) = <<>>
      BY <1>3 DEF QueueAt, Queue
    <2>2. AsOrders(h, <<>>) = <<>> /\ Elems(<<>>) = {}
      BY DEF AsOrders, Elems
    <2> QED
      BY <1>2, <2>1, <2>2
  <1>4. CASE l # Nil
    <2>1. l \in Elems(s[side]) /\ h.levels[l].price = p
      BY <1>1, <1>4, PriceOfLevel
    <2>2. l \in Standing(s) /\ l \in Nat
      BY <1>1, <2>1, LevelAtPrice DEF Standing
    <2>3. QueueAt(h, q, side, p) = q[l]
      BY <1>4 DEF QueueAt
    <2>4. Queue(h, side, p) = [i \in DOMAIN Fifo(h, h.levels[l].front) |->
                                  AsOrder(h, Fifo(h, h.levels[l].front)[i])]
      BY <1>4 DEF Queue
    <2> HIDE DEF l
    <2>5. Fifo(h, h.levels[l].front) = q[l]
      BY <1>1, <2>2, FifoRead
    <2> DEFINE f == q[l]
    <2>6. f \in Seq(Nat)
      BY <1>1, <2>2
    <2>7. FifoOK(h, side, l, f)
      BY <1>1, <2>1 DEF Book, QueuesOK
    <2>8. \A n \in Elems(f) : n \in Queued(s, q)
      BY <2>2 DEF Queued
    <2> HIDE DEF f
    <2>9. \A n \in Elems(f) : h.orders[n].side = side /\ h.orders[n].price = h.levels[l].price
      BY <1>1, <2>7, QueueNodes, SMTT(60)
    <2>10. DOMAIN f = 1 .. Len(f)
      BY <2>6
    <2>11. Queue(h, side, p) = AsOrders(h, f)
      BY <2>4, <2>5, <2>10 DEF f, AsOrders
    <2> DEFINE w == QueueAt(h, q, side, p)
    <2>12. w = f
      BY <2>3 DEF f
    <2>13. h.levels[l].price = p
      BY <2>1
    <2> HIDE DEF w
    <2>14. BookOf(h)[side][p] = AsOrders(h, w) /\ w \in Seq(Nat)
      BY <1>2, <2>6, <2>11, <2>12
    <2>15. \A n \in Elems(w) : n \in Queued(s, q) /\ h.orders[n].side = side /\ h.orders[n].price = p
      BY <2>8, <2>9, <2>12, <2>13, SMTT(60)
    <2> QED
      BY <2>14, <2>15 DEF w
  <1> QED
    BY <1>3, <1>4

\* A queued order waits at its side and price.
LEMMA OrderWaits ==
    ASSUME NEW h, NEW s, NEW q, Engine(h, s, q), NEW x \in Queued(s, q)
    PROVE  /\ x \in 1 .. Len(h.orders)
           /\ h.orders[x].side \in Side /\ h.orders[x].price \in Price
           /\ h.orders[x].id \in OrderId
           /\ h.ordersById[h.orders[x].id] = x /\ x # Nil
           /\ LiveOf(h)[h.orders[x].id] = [side |-> h.orders[x].side, price |-> h.orders[x].price]
  <1>1. /\ Book(h, s, q, {}) /\ LaddersOK(h, s) /\ h \in Heap /\ IdsOK(h, Queued(s, q))
    BY DEF Engine, Book, LaddersOK
  <1>2. PICK l \in Standing(s) : x \in Elems(q[l])
    BY DEF Queued
  <1>3. PICK side \in Side : l \in Elems(s[side])
    BY DEF Standing
  <1>4. FifoOK(h, side, l, q[l])
    BY <1>1, <1>3 DEF Book, QueuesOK
  <1>5. h.orders[x].side = side /\ h.orders[x].price = h.levels[l].price /\ x \in 1 .. Len(h.orders)
    BY <1>1, <1>2, <1>4, QueueNodes
  <1>6. h.levels[l].price \in Price
    BY <1>1, <1>3, LevelAtPrice
  <1>7. h.orders[x].id \in OrderId /\ h.ordersById[h.orders[x].id] = x
    BY <1>1 DEF IdsOK
  <1>8. x # Nil
    BY <1>5 DEF Nil
  <1> QED
    BY <1>5, <1>6, <1>7, <1>8 DEF LiveOf

\* The first of two books is the second with r at one side and price.
BookIs(new, old, side, p, r) == new = [old EXCEPT ![side][p] = r]

\* A book that differs at one price.
LEMMA BookUpdated ==
    ASSUME NEW h, NEW g, NEW side \in Side, NEW p \in Price, NEW r,
           \A a \in Side, b \in Price :
              BookOf(g)[a][b] = IF a = side /\ b = p THEN r ELSE BookOf(h)[a][b]
    PROVE  BookIs(BookOf(g), BookOf(h), side, p, r)
  <1> DEFINE V == BookOf(h)
             W == BookOf(g)
  <1>1. V = [a \in Side |-> [b \in Price |-> V[a][b]]]
    BY DEF BookOf
  <1>2. W = [a \in Side |-> [b \in Price |-> W[a][b]]]
    BY DEF BookOf
  <1>3. \A a \in Side, b \in Price : W[a][b] = IF a = side /\ b = p THEN r ELSE V[a][b]
    OBVIOUS
  <1> HIDE DEF V, W
  <1>4. [V EXCEPT ![side][p] = r] =
           [a \in Side |-> [b \in Price |-> IF a = side /\ b = p THEN r ELSE V[a][b]]]
    BY <1>1
  <1>5. W = [V EXCEPT ![side][p] = r]
    BY <1>2, <1>3, <1>4
  <1> QED
    BY <1>5 DEF BookIs, V, W

\* Orders that are the same read the same.
LEMMA AsOrdersSame ==
    ASSUME NEW h, NEW g, NEW f, \A n \in Elems(f) : SameOrder(g.orders[n], h.orders[n])
    PROVE  AsOrders(g, f) = AsOrders(h, f)
  <1>1. \A i \in 1 .. Len(f) : AsOrder(g, f[i]) = AsOrder(h, f[i])
    BY DEF AsOrder, SameOrder, Elems
  <1> QED
    BY <1>1 DEF AsOrders

\* A queue of orders read is a sequence of the same length.
LEMMA AsOrdersTyped ==
    ASSUME NEW h, NEW f \in Seq(Nat)
    PROVE  /\ AsOrders(h, f) \in Seq({AsOrder(h, n) : n \in Nat})
           /\ Len(AsOrders(h, f)) = Len(f) /\ DOMAIN AsOrders(h, f) = 1 .. Len(f)
           /\ \A i \in 1 .. Len(f) : AsOrders(h, f)[i] = AsOrder(h, f[i])
           /\ f = <<>> <=> AsOrders(h, f) = <<>>
  <1> DEFINE S == {AsOrder(h, n) : n \in Nat}
             r == AsOrders(h, f)
  <1>1. Len(f) \in Nat /\ \A i \in 1 .. Len(f) : f[i] \in Nat
    OBVIOUS
  <1>2. \A i \in 1 .. Len(f) : AsOrder(h, f[i]) \in S
    BY <1>1
  <1>3. r = [i \in 1 .. Len(f) |-> AsOrder(h, f[i])]
    BY DEF AsOrders
  <1> HIDE DEF S, r
  <1>4. r \in Seq(S) /\ Len(r) = Len(f) /\ DOMAIN r = 1 .. Len(f)
        /\ \A i \in 1 .. Len(f) : r[i] = AsOrder(h, f[i])
    BY <1>1, <1>2, <1>3
  <1>5. f = <<>> <=> r = <<>>
    BY <1>4
  <1> QED
    BY <1>4, <1>5 DEF S, r

\* Reading a queue and taking its i-th order out commute.
LEMMA AsOrdersRemoved ==
    ASSUME NEW h, NEW f \in Seq(Nat), NEW i \in 1 .. Len(f)
    PROVE  AsOrders(h, RemoveAt(f, i)) = RemoveAt(AsOrders(h, f), i)
  <1> DEFINE S == {AsOrder(h, n) : n \in Nat}
             a == AsOrders(h, f)
             u == RemoveAt(f, i)
             v == RemoveAt(a, i)
             k == Len(f) - 1
  <1>1. /\ a \in Seq(S) /\ Len(a) = Len(f) /\ DOMAIN a = 1 .. Len(f)
        /\ \A j \in 1 .. Len(f) : a[j] = AsOrder(h, f[j])
    BY AsOrdersTyped
  <1>2. i \in DOMAIN f /\ i \in Int /\ k \in Int /\ Len(f) \in Nat
    OBVIOUS
  <1> HIDE DEF a, S, k
  <1>3. /\ u \in Seq(Nat) /\ Len(u) = Len(f) - 1
        /\ \A j \in DOMAIN u : u[j] = IF j < i THEN f[j] ELSE f[j + 1]
    BY <1>2, RemoveAtShape
  <1>4. i \in DOMAIN a
    BY <1>1
  <1>5. /\ v \in Seq(S) /\ Len(v) = Len(a) - 1
        /\ \A j \in DOMAIN v : v[j] = IF j < i THEN a[j] ELSE a[j + 1]
    BY <1>1, <1>4, RemoveAtShape, Zenon
  <1> HIDE DEF u, v
  <1>6. DOMAIN u = 1 .. k /\ DOMAIN v = 1 .. k /\ Len(u) = k
    BY <1>1, <1>3, <1>5 DEF k
  <1>7. v = [j \in 1 .. k |-> v[j]]
    BY <1>5, <1>6
  <1>8. \A j \in 1 .. k : j \in 1 .. Len(f) /\ j + 1 \in 1 .. Len(f)
    BY <1>2 DEF k
  <1>9. \A j \in 1 .. k : v[j] = AsOrder(h, u[j])
    BY <1>1, <1>3, <1>5, <1>6, <1>8
  <1>10. AsOrders(h, u) = [j \in 1 .. k |-> AsOrder(h, u[j])]
    BY <1>6 DEF AsOrders
  <1> QED
    BY <1>7, <1>9, <1>10 DEF u, v, a

\* The order at place i of a side and price leaves the reference book, and the live map.
Unrested(h, g, side, p, i) ==
    /\ BookIs(BookOf(g), BookOf(h), side, p, RemoveAt(BookOf(h)[side][p], i))
    /\ LiveOf(g) = [LiveOf(h) EXCEPT ![BookOf(h)[side][p][i].id] = None]

\* x is the order at place i of a side and price.
StandsAt(h, x, side, p, i) ==
    /\ i \in DOMAIN BookOf(h)[side][p] /\ BookOf(h)[side][p][i] = AsOrder(h, x)
    /\ h.orders[x].prev = Nil => i = 1

\* An order has one place in its queue, the first if nobody is before it.
LEMMA OnePlace ==
    ASSUME NEW h, NEW s, NEW q, Engine(h, s, q), NEW side \in Side, NEW p \in Price,
           NEW i \in 1 .. Len(QueueAt(h, q, side, p))
    PROVE  /\ h.orders[QueueAt(h, q, side, p)[i]].prev = Nil => i = 1
           /\ \A j \in 1 .. Len(QueueAt(h, q, side, p)) :
                 QueueAt(h, q, side, p)[j] = QueueAt(h, q, side, p)[i] => j = i
  <1> DEFINE l == h.byPrice[side][p]
             w == QueueAt(h, q, side, p)
             m == Len(h.orders)
  <1>1. /\ Book(h, s, q, {}) /\ LaddersOK(h, s) /\ q \in [Nat -> Seq(Nat)] /\ h \in Heap
    BY DEF Engine, Book, QueuesOK, LaddersOK
  <1>2. l # Nil /\ w = q[l]
    <2>1. CASE l = Nil
      <3>1. w = <<>>
        BY <2>1 DEF QueueAt
      <3>2. Len(<<>>) = 0
        OBVIOUS
      <3> QED
        BY <3>1, <3>2
    <2>2. CASE l # Nil
      BY <2>2 DEF QueueAt
    <2> QED
      BY <2>1, <2>2
  <1>3. l \in Elems(s[side])
    BY <1>1, <1>2, PriceOfLevel
  <1> HIDE DEF l
  <1>4. FifoOK(h, side, l, w)
    BY <1>1, <1>2, <1>3 DEF Book, QueuesOK
  <1> HIDE DEF w
  <1>5. \A j \in 1 .. Len(w) : w[j] \in 1 .. m
    BY <1>1, <1>4, QueueNodes
  <1>6. DList(m, Nexts(h), Prevs(h), w)
    BY <1>4 DEF FifoOK
  <1>7. i \in 1 .. Len(w) /\ Len(w) \in Nat
    BY <1>1, <1>4, QueueNodes DEF w
  <1>8. Prevs(h)[w[i]] = Before(w, i) /\ Prevs(h)[w[i]] = h.orders[w[i]].prev
    BY <1>5, <1>6, <1>7 DEF DList, Prevs
  <1>9. i # 1 => w[i - 1] \in 1 .. m
    BY <1>5, <1>7
  <1>10. h.orders[w[i]].prev = Nil => i = 1
    BY <1>8, <1>9 DEF Before, Nil
  <1>11. \A j \in 1 .. Len(w) : w[j] = w[i] => j = i
    BY <1>6, <1>7 DEF DList
  <1> QED
    BY <1>10, <1>11 DEF w

\* What is left of a queue was in it.
LEMMA ElemsLeft ==
    ASSUME NEW S, NEW f \in Seq(S), NEW i \in 1 .. Len(f)
    PROVE  Elems(RemoveAt(f, i)) \subseteq Elems(f)
  <1> DEFINE r == RemoveAt(f, i)
  <1>1. i \in DOMAIN f /\ i \in Int /\ Len(f) \in Nat
    OBVIOUS
  <1>2. /\ r \in Seq(S) /\ Len(r) = Len(f) - 1
        /\ \A j \in DOMAIN r : r[j] = IF j < i THEN f[j] ELSE f[j + 1]
    BY <1>1, RemoveAtShape
  <1> HIDE DEF r
  <1>3. ASSUME NEW j \in 1 .. Len(r) PROVE \E k \in 1 .. Len(f) : r[j] = f[k]
    <2>1. j \in DOMAIN r /\ j \in 1 .. Len(f) /\ j + 1 \in 1 .. Len(f)
      BY <1>1, <1>2
    <2>2. r[j] = f[j] \/ r[j] = f[j + 1]
      BY <1>2, <2>1
    <2> QED
      BY <2>1, <2>2
  <1>4. Elems(r) \subseteq Elems(f)
    BY <1>3 DEF Elems
  <1> QED
    BY <1>4 DEF r

\* An order that has gone is live no more, and the others are where they were.
LEMMA LiveRemoved ==
    ASSUME NEW h \in Heap, NEW U, IdsOK(h, U), NEW x, NEW g, Gone(h, g, x),
           h.orders[x].id \in OrderId, h.ordersById[h.orders[x].id] = x
    PROVE  LiveOf(g) = [LiveOf(h) EXCEPT ![h.orders[x].id] = None]
  <1> DEFINE id == h.orders[x].id
             V == LiveOf(h)
             W == LiveOf(g)
  <1>1. ASSUME NEW k \in OrderId PROVE W[k] = IF k = id THEN None ELSE V[k]
    <2> DEFINE n == h.ordersById[k]
    <2>1. h.ordersById \in [OrderId -> Nat] /\ g.ordersById = [h.ordersById EXCEPT ![id] = Nil]
      BY HeapFields DEF Gone
    <2>2. g.ordersById[k] = IF k = id THEN Nil ELSE n
      BY <2>1, SMTT(60)
    <2>3. CASE k = id
      BY <2>2, <2>3 DEF LiveOf
    <2>4. CASE k # id /\ n = Nil
      BY <2>2, <2>4 DEF LiveOf
    <2>5. CASE k # id /\ n # Nil
      <3>1. n \in 1 .. Len(h.orders) /\ h.orders[n].id = k
        BY <2>5 DEF IdsOK
      <3>2. n # x
        BY <2>5, <3>1
      <3>3. SameOrder(g.orders[n], h.orders[n])
        BY <3>1, <3>2 DEF Gone
      <3>4. g.orders[n].side = h.orders[n].side /\ g.orders[n].price = h.orders[n].price
        BY <3>3 DEF SameOrder
      <3>5. W[k] = [side |-> g.orders[n].side, price |-> g.orders[n].price]
        BY <2>2, <2>5 DEF LiveOf
      <3>6. V[k] = [side |-> h.orders[n].side, price |-> h.orders[n].price]
        BY <2>5 DEF LiveOf
      <3> QED
        BY <2>5, <3>4, <3>5, <3>6
    <2> QED
      BY <2>3, <2>4, <2>5
  <1>2. V = [k \in OrderId |-> V[k]] /\ W = [k \in OrderId |-> W[k]]
    BY DEF LiveOf
  <1> HIDE DEF V, W
  <1>3. W = [V EXCEPT ![id] = None]
    BY <1>1, <1>2
  <1> QED
    BY <1>3 DEF V, W

\* An order that leaves the engine leaves the reference engine's book.
LEMMA RemovedRead ==
    ASSUME NEW h, NEW s, NEW q, Engine(h, s, q), NEW x \in Queued(s, q),
           NEW side, side = h.orders[x].side, NEW p, p = h.orders[x].price
    PROVE  \E i : StandsAt(h, x, side, p, i) /\ Unrested(h, RemoveResting(h, x), side, p, i)
  <1>0. /\ x \in 1 .. Len(h.orders)
        /\ h.orders[x].side \in Side /\ h.orders[x].price \in Price
        /\ h.orders[x].id \in OrderId
        /\ h.ordersById[h.orders[x].id] = x /\ x # Nil
        /\ LiveOf(h)[h.orders[x].id] = [side |-> h.orders[x].side, price |-> h.orders[x].price]
    BY OrderWaits
  <1> DEFINE g == RemoveResting(h, x)
             w == QueueAt(h, q, side, p)
             id == h.orders[x].id
  <1>1. /\ x \in 1 .. Len(h.orders) /\ side \in Side /\ p \in Price /\ id \in OrderId
        /\ h.ordersById[id] = x /\ x # Nil
    BY <1>0
  <1>2. /\ BookOf(h)[side][p] = AsOrders(h, w) /\ w \in Seq(Nat)
        /\ \A n \in Elems(w) : n \in Queued(s, q)
    BY <1>1, QueueRead
  <1>3. Gone(h, g, x) /\ \E s2, q2 : EngineWithout(h, q, x, g, s2, q2)
    BY RestingRemoved
  <1> HIDE DEF g
  <1>4. PICK s2, q2 : EngineWithout(h, q, x, g, s2, q2)
    BY <1>3
  <1>5. Engine(g, s2, q2) /\ x \notin Queued(s2, q2)
    BY <1>4 DEF EngineWithout
  <1>6. PICK i \in 1 .. Len(w) : x = w[i] /\ OnlyAt(h, q, g, q2, side, p, RemoveAt(w, i))
    BY <1>4 DEF EngineWithout, GoneFrom
  <1>7. IdsOK(h, Queued(s, q)) /\ h \in Heap
    BY DEF Engine, Book, LaddersOK
  <1>8. ASSUME NEW n \in Queued(s, q), n # x PROVE SameOrder(g.orders[n], h.orders[n])
    BY <1>3, <1>7, <1>8 DEF Gone, IdsOK
  <1>9. StandsAt(h, x, side, p, i)
    <2>1. h.orders[x].prev = Nil => i = 1
      <3>1. /\ h.orders[QueueAt(h, q, side, p)[i]].prev = Nil => i = 1
            /\ \A j \in 1 .. Len(QueueAt(h, q, side, p)) :
                  QueueAt(h, q, side, p)[j] = QueueAt(h, q, side, p)[i] => j = i
        BY <1>1, OnePlace
      <3> QED
        BY <1>6, <3>1, Zenon
    <2>2. DOMAIN AsOrders(h, w) = 1 .. Len(w) /\ AsOrders(h, w)[i] = AsOrder(h, w[i])
      BY <1>2, AsOrdersTyped
    <2> HIDE DEF w
    <2> QED
      BY <1>2, <1>6, <2>1, <2>2 DEF StandsAt
  <1> HIDE DEF w
  <1>10. ASSUME NEW a \in Side, NEW b \in Price
         PROVE  BookOf(g)[a][b] = IF a = side /\ b = p THEN RemoveAt(BookOf(h)[side][p], i)
                                  ELSE BookOf(h)[a][b]
    <2> DEFINE v == QueueAt(g, q2, a, b)
               u == QueueAt(h, q, a, b)
    <2>1. /\ BookOf(g)[a][b] = AsOrders(g, v)
          /\ \A n \in Elems(v) : n \in Queued(s2, q2)
      BY <1>5, QueueRead
    <2>2. /\ BookOf(h)[a][b] = AsOrders(h, u)
          /\ \A n \in Elems(u) : n \in Queued(s, q)
      BY QueueRead
    <2>3. v = IF a = side /\ b = p THEN RemoveAt(w, i) ELSE u
      BY <1>6 DEF OnlyAt
    <2> HIDE DEF v, u
    <2>4. \A n \in Elems(v) : n \in Queued(s, q)
      <3>1. CASE a = side /\ b = p
        <4>1. v = RemoveAt(w, i)
          BY <2>3, <3>1
        <4>2. Elems(RemoveAt(w, i)) \subseteq Elems(w)
          BY <1>2, ElemsLeft
        <4> QED
          BY <1>2, <4>1, <4>2
      <3>2. CASE ~(a = side /\ b = p)
        BY <2>2, <2>3, <3>2
      <3> QED
        BY <3>1, <3>2
    <2>5. \A n \in Elems(v) : SameOrder(g.orders[n], h.orders[n])
      BY <1>5, <1>8, <2>1, <2>4
    <2>6. BookOf(g)[a][b] = AsOrders(h, v)
      BY <2>1, <2>5, AsOrdersSame
    <2>7. AsOrders(h, RemoveAt(w, i)) = RemoveAt(AsOrders(h, w), i)
      BY <1>2, AsOrdersRemoved
    <2> QED
      BY <1>2, <2>2, <2>3, <2>6, <2>7
  <1>11. BookIs(BookOf(g), BookOf(h), side, p, RemoveAt(BookOf(h)[side][p], i))
    BY <1>1, <1>10, BookUpdated
  <1>12. LiveOf(g) = [LiveOf(h) EXCEPT ![id] = None]
    BY <1>1, <1>3, <1>7, LiveRemoved
  <1>13. BookOf(h)[side][p][i].id = id
    BY <1>9, SMTT(60) DEF StandsAt, AsOrder
  <1>14. Unrested(h, g, side, p, i)
    BY <1>11, <1>12, <1>13 DEF Unrested
  <1> QED
    BY <1>9, <1>14 DEF g

\* The orders of an engine stand in the reference engine's book.
LEMMA OrderStands ==
    ASSUME NEW h, NEW s, NEW q, Engine(h, s, q), NEW x \in Queued(s, q)
    PROVE  \E i : StandsAt(h, x, h.orders[x].side, h.orders[x].price, i)
  <1> DEFINE side == h.orders[x].side
             p == h.orders[x].price
  <1>1. \E i : StandsAt(h, x, side, p, i) /\ Unrested(h, RemoveResting(h, x), side, p, i)
    BY RemovedRead
  <1> QED
    BY <1>1

\* One order's quantity changed in the reference engine's book.
Resized(h, g, side, p, i, qty) ==
    /\ BookIs(BookOf(g), BookOf(h), side, p, [BookOf(h)[side][p] EXCEPT ![i].remaining = qty])
    /\ LiveOf(g) = LiveOf(h)

\* An order resized in the engine is resized in the reference engine's book.
LEMMA ResizedRead ==
    ASSUME NEW h, NEW g, NEW s, NEW q, Engine(h, s, q), Engine(g, s, q), NEW x \in Queued(s, q),
           NEW l, NEW qty, NEW total, Requantified(h, g, x, l, qty, total),
           NEW side, side = h.orders[x].side, NEW p, p = h.orders[x].price,
           NEW i, StandsAt(h, x, side, p, i)
    PROVE  Resized(h, g, side, p, i, qty)
  <1>0. /\ x \in 1 .. Len(h.orders)
        /\ h.orders[x].side \in Side /\ h.orders[x].price \in Price
        /\ h.orders[x].id \in OrderId
        /\ h.ordersById[h.orders[x].id] = x /\ x # Nil
        /\ LiveOf(h)[h.orders[x].id] = [side |-> h.orders[x].side, price |-> h.orders[x].price]
    BY OrderWaits
  <1> DEFINE w == QueueAt(h, q, side, p)
  <1>1. side \in Side /\ p \in Price
    BY <1>0
  <1>2. IdsOK(h, Queued(s, q)) /\ h \in Heap
    BY DEF Engine, Book, LaddersOK
  <1>3. /\ g.byPrice = h.byPrice /\ g.ordersById = h.ordersById
        /\ \A n \in 1 .. Len(h.orders) :
              /\ g.orders[n].id = h.orders[n].id /\ g.orders[n].participant = h.orders[n].participant
              /\ g.orders[n].side = h.orders[n].side /\ g.orders[n].price = h.orders[n].price
              /\ g.orders[n].remaining = IF n = x THEN qty ELSE h.orders[n].remaining
    BY DEF Requantified, SameFrame
  <1>4. \A n \in Queued(s, q) : n \in 1 .. Len(h.orders)
    BY <1>2 DEF IdsOK
  <1>5. ASSUME NEW n \in Queued(s, q)
        PROVE  AsOrder(g, n) = IF n = x THEN [AsOrder(h, n) EXCEPT !.remaining = qty] ELSE AsOrder(h, n)
    <2>1. /\ g.orders[n].id = h.orders[n].id /\ g.orders[n].participant = h.orders[n].participant
          /\ g.orders[n].remaining = IF n = x THEN qty ELSE h.orders[n].remaining
      BY <1>3, <1>4
    <2> DEFINE a == h.orders[n].id
               b == h.orders[n].participant
               c == h.orders[n].remaining
    <2>2. /\ AsOrder(h, n) = [id |-> a, participant |-> b, remaining |-> c]
          /\ AsOrder(g, n) = [id |-> a, participant |-> b, remaining |-> IF n = x THEN qty ELSE c]
      BY <2>1, SMTT(60) DEF AsOrder
    <2> HIDE DEF a, b, c
    <2> QED
      BY <2>2
  <1>6. ASSUME NEW a \in Side, NEW b \in Price
        PROVE  BookOf(g)[a][b] = IF a = side /\ b = p
                                 THEN [BookOf(h)[side][p] EXCEPT ![i].remaining = qty]
                                 ELSE BookOf(h)[a][b]
    <2> DEFINE u == QueueAt(h, q, a, b)
               n == Len(u)
    <2>1. /\ BookOf(h)[a][b] = AsOrders(h, u) /\ u \in Seq(Nat)
          /\ \A k \in Elems(u) : k \in Queued(s, q) /\ h.orders[k].side = a /\ h.orders[k].price = b
      BY QueueRead
    <2>2. BookOf(g)[a][b] = AsOrders(g, u)
      <3>1. QueueAt(g, q, a, b) = u
        BY <1>3 DEF QueueAt
      <3>2. BookOf(g)[a][b] = AsOrders(g, QueueAt(g, q, a, b))
        BY QueueRead
      <3> QED
        BY <3>1, <3>2
    <2>3. \A j \in 1 .. n : u[j] \in Queued(s, q)
      <3>1. \A j \in 1 .. n : u[j] \in Elems(u)
        BY DEF Elems
      <3> HIDE DEF u
      <3> QED
        BY <2>1, <3>1
    <2>4. CASE a = side /\ b = p
      <3>1. i \in DOMAIN AsOrders(h, u) /\ AsOrders(h, u)[i] = AsOrder(h, x)
        BY <2>1, <2>4 DEF StandsAt
      <3>2. i \in 1 .. n /\ \A j \in 1 .. n : AsOrders(h, u)[j] = AsOrder(h, u[j])
        BY <2>1, <3>1, AsOrdersTyped
      <3>3. u[i] = x
        <4>1. h.orders[u[i]].id = h.orders[x].id
          <5>1. AsOrder(h, u[i]) = AsOrder(h, x)
            BY <3>1, <3>2
          <5> HIDE DEF u
          <5>2. AsOrder(h, u[i]).id = AsOrder(h, x).id
            BY <5>1
          <5> QED
            BY <5>2 DEF AsOrder
        <4>2. h.ordersById[h.orders[u[i]].id] = u[i]
          BY <1>2, <2>3, <3>2 DEF IdsOK
        <4> QED
          BY <1>0, <4>1, <4>2
      <3>4. \A j \in 1 .. n : u[j] = x => j = i
        <4>1. \A j \in 1 .. n : u[j] = u[i] => j = i
          BY <3>2, OnePlace
        <4> QED
          BY <3>3, <4>1
      <3> HIDE DEF u, n
      <3> DEFINE A == AsOrders(h, u)
                 B == AsOrders(g, u)
      <3>5. A = [j \in 1 .. n |-> AsOrder(h, u[j])] /\ B = [j \in 1 .. n |-> AsOrder(g, u[j])]
        BY DEF AsOrders, n
      <3>6. A[i] = AsOrder(h, u[i])
        BY <3>2, <3>5
      <3>7. \A j \in 1 .. n : AsOrder(g, u[j]) = IF j = i THEN [AsOrder(h, u[j]) EXCEPT !.remaining = qty]
                                                 ELSE AsOrder(h, u[j])
        BY <1>5, <2>3, <3>3, <3>4
      <3> HIDE DEF A, B
      <3>8. [A EXCEPT ![i].remaining = qty] =
               [j \in 1 .. n |-> IF j = i THEN [A[j] EXCEPT !.remaining = qty] ELSE A[j]]
        BY <3>5
      <3>9. B = [A EXCEPT ![i].remaining = qty]
        BY <3>5, <3>7, <3>8
      <3> QED
        BY <2>1, <2>2, <2>4, <3>9, Zenon DEF A, B
    <2>5. CASE ~(a = side /\ b = p)
      <3>1. \A k \in Elems(u) : k # x
        BY <2>1, <2>5
      <3>2. \A k \in Elems(u) : SameOrder(g.orders[k], h.orders[k])
        BY <1>3, <1>4, <2>1, <3>1 DEF SameOrder
      <3> QED
        BY <2>1, <2>2, <2>5, <3>2, AsOrdersSame
    <2> QED
      BY <2>4, <2>5
  <1> DEFINE r == [BookOf(h)[side][p] EXCEPT ![i].remaining = qty]
  <1>7. BookIs(BookOf(g), BookOf(h), side, p, r)
    <2>1. \A a \in Side, b \in Price :
             BookOf(g)[a][b] = IF a = side /\ b = p THEN r ELSE BookOf(h)[a][b]
      BY <1>6, Zenon
    <2> HIDE DEF r
    <2> QED
      BY <1>1, <2>1, BookUpdated
  <1>8. LiveOf(g) = LiveOf(h)
    <2>1. ASSUME NEW k \in OrderId, h.ordersById[k] # Nil
          PROVE  /\ g.orders[h.ordersById[k]].side = h.orders[h.ordersById[k]].side
                 /\ g.orders[h.ordersById[k]].price = h.orders[h.ordersById[k]].price
      BY <1>2, <1>3, <1>4, <2>1 DEF IdsOK
    <2> QED
      BY <1>3, <2>1 DEF LiveOf
  <1> QED
    BY <1>7, <1>8, Zenon DEF Resized

\* Reading a queue and putting an order behind it commute.
LEMMA AsOrdersAppended ==
    ASSUME NEW h, NEW f \in Seq(Nat), NEW x \in Nat
    PROVE  AsOrders(h, Append(f, x)) = Append(AsOrders(h, f), AsOrder(h, x))
  <1> DEFINE S == {AsOrder(h, n) : n \in Nat}
             a == AsOrders(h, f)
             e == AsOrder(h, x)
             u == Append(f, x)
             v == Append(a, e)
             k == Len(f) + 1
  <1>1. /\ a \in Seq(S) /\ Len(a) = Len(f) /\ \A j \in 1 .. Len(f) : a[j] = AsOrder(h, f[j])
    BY AsOrdersTyped
  <1>2. e \in S
    OBVIOUS
  <1>3. /\ Len(u) = k /\ u[k] = x /\ \A j \in 1 .. Len(f) : u[j] = f[j]
    OBVIOUS
  <1>4. Len(f) \in Nat
    OBVIOUS
  <1> HIDE DEF S, a, u
  <1>5. /\ v \in Seq(S) /\ Len(v) = k /\ v[k] = e /\ \A j \in 1 .. Len(f) : v[j] = a[j]
    BY <1>1, <1>2, <1>4
  <1> HIDE DEF v
  <1>6. v = [j \in 1 .. k |-> v[j]]
    BY <1>5
  <1>7. \A j \in 1 .. k : v[j] = AsOrder(h, u[j])
    <2> SUFFICES ASSUME NEW j \in 1 .. k PROVE v[j] = AsOrder(h, u[j])
      OBVIOUS
    <2>1. j = k \/ j \in 1 .. Len(f)
      BY <1>4
    <2> HIDE DEF k
    <2> QED
      BY <1>1, <1>3, <1>5, <2>1 DEF e
  <1>8. AsOrders(h, u) = [j \in 1 .. k |-> AsOrder(h, u[j])]
    BY <1>3 DEF AsOrders
  <1> QED
    BY <1>6, <1>7, <1>8 DEF u, v, a

\* What a taker leaves in the reference engine's book when it rests.
OrderOf(t) == [id |-> t.id, participant |-> t.participant, remaining |-> t.remaining]
Rested(h, g, t) ==
    /\ BookIs(BookOf(g), BookOf(h), t.side, t.price,
              Append(BookOf(h)[t.side][t.price], OrderOf(t)))
    /\ LiveOf(g) = [LiveOf(h) EXCEPT ![t.id] = [side |-> t.side, price |-> t.price]]

\* An order that rests in the engine rests in the reference engine's book.
LEMMA RestedRead ==
    ASSUME NEW h, NEW s, NEW q, Engine(h, s, q), NEW t \in Taker, t.price \in Price,
           h.ordersById[t.id] = Nil
    PROVE  Rested(h, RestOrder(h, t), t)
  <1> DEFINE g == RestOrder(h, t)
             side == t.side
             p == t.price
             w == QueueAt(h, q, side, p)
  <1>1. side \in Side /\ p \in Price /\ t.id \in OrderId
    BY DEF Taker
  <1>2. /\ BookOf(h)[side][p] = AsOrders(h, w) /\ w \in Seq(Nat)
        /\ \A n \in Elems(w) : n \in Queued(s, q)
    BY <1>1, QueueRead
  <1>3. \E s2, q2, x : EngineWith(h, q, t, x, g, s2, q2)
    BY OrderRests
  <1> HIDE DEF g
  <1>4. PICK s2, q2, x : EngineWith(h, q, t, x, g, s2, q2)
    BY <1>3
  <1>5. /\ Engine(g, s2, q2) /\ x \in Queued(s2, q2)
        /\ g.ordersById = [h.ordersById EXCEPT ![t.id] = x]
        /\ SameOrder(g.orders[x], FilledIn(t))
        /\ \A n \in 1 .. Len(h.orders) : n # x => SameOrder(g.orders[n], h.orders[n])
        /\ OnlyAt(h, q, g, q2, side, p, Append(w, x))
    BY <1>4 DEF EngineWith
  <1>6. IdsOK(h, Queued(s, q)) /\ h \in Heap /\ h.ordersById \in [OrderId -> Nat]
    <2>1. IdsOK(h, Queued(s, q)) /\ h \in Heap
      BY DEF Engine, Book, LaddersOK
    <2> QED
      BY <2>1, HeapFields
  <1>7. IdsOK(g, Queued(s2, q2)) /\ x \in 1 .. Len(g.orders) /\ g.orders[x].id = t.id
    <2>1. IdsOK(g, Queued(s2, q2))
      BY <1>5 DEF Engine
    <2>2. x \in 1 .. Len(g.orders)
      BY <1>5, <2>1 DEF IdsOK
    <2> QED
      BY <1>5, <2>1, <2>2, FilledInTyped DEF SameOrder
  <1>8. ASSUME NEW k \in OrderId, h.ordersById[k] # Nil
        PROVE  /\ h.ordersById[k] # x /\ h.ordersById[k] \in 1 .. Len(h.orders)
               /\ SameOrder(g.orders[h.ordersById[k]], h.orders[h.ordersById[k]])
               /\ g.ordersById[k] = h.ordersById[k]
    <2> DEFINE n == h.ordersById[k]
    <2>1. k # t.id
      BY <1>8
    <2>2. g.ordersById[k] = n
      BY <1>5, <1>6, <2>1
    <2>3. n \in 1 .. Len(h.orders)
      BY <1>6, <1>8 DEF IdsOK
    <2>4. g.orders[n].id = k
      BY <1>7, <1>8, <2>2 DEF IdsOK
    <2>5. n # x
      BY <1>7, <2>1, <2>4
    <2> QED
      BY <1>5, <2>2, <2>3, <2>5
  <1>9. ASSUME NEW n \in Queued(s, q) PROVE SameOrder(g.orders[n], h.orders[n])
    <2>1. h.orders[n].id \in OrderId /\ h.ordersById[h.orders[n].id] = n /\ n \in 1 .. Len(h.orders)
      BY <1>6 DEF IdsOK
    <2>2. n # Nil
      BY <2>1 DEF Nil
    <2> QED
      BY <1>8, <2>1, <2>2
  <1>10. AsOrder(g, x) = OrderOf(t)
    BY <1>5, FilledInTyped DEF AsOrder, OrderOf, SameOrder
  <1> HIDE DEF w
  <1> DEFINE r == Append(BookOf(h)[side][p], OrderOf(t))
  <1>11. ASSUME NEW a \in Side, NEW b \in Price
         PROVE  BookOf(g)[a][b] = IF a = side /\ b = p THEN r ELSE BookOf(h)[a][b]
    <2> DEFINE v == QueueAt(g, q2, a, b)
               u == QueueAt(h, q, a, b)
    <2>1. BookOf(g)[a][b] = AsOrders(g, v)
      BY <1>5, QueueRead
    <2>2. /\ BookOf(h)[a][b] = AsOrders(h, u)
          /\ \A n \in Elems(u) : n \in Queued(s, q)
      BY QueueRead
    <2>3. v = IF a = side /\ b = p THEN Append(w, x) ELSE u
      BY <1>5 DEF OnlyAt
    <2> HIDE DEF v, u
    <2>4. CASE a = side /\ b = p
      <3>1. x \in Nat
        BY <1>7
      <3>2. AsOrders(g, v) = Append(AsOrders(g, w), AsOrder(g, x))
        BY <1>2, <2>3, <2>4, <3>1, AsOrdersAppended
      <3>3. \A n \in Elems(w) : SameOrder(g.orders[n], h.orders[n])
        BY <1>2, <1>9
      <3>4. AsOrders(g, w) = AsOrders(h, w)
        BY <3>3, AsOrdersSame
      <3> QED
        BY <1>2, <1>10, <2>1, <2>4, <3>2, <3>4
    <2>5. CASE ~(a = side /\ b = p)
      <3>1. \A n \in Elems(u) : SameOrder(g.orders[n], h.orders[n])
        BY <1>9, <2>2
      <3>2. AsOrders(g, u) = AsOrders(h, u)
        BY <3>1, AsOrdersSame
      <3> QED
        BY <2>1, <2>2, <2>3, <2>5, <3>2
    <2> QED
      BY <2>4, <2>5
  <1>12. BookIs(BookOf(g), BookOf(h), side, p, r)
    <2> HIDE DEF r
    <2>1. \A a \in Side, b \in Price :
             BookOf(g)[a][b] = IF a = side /\ b = p THEN r ELSE BookOf(h)[a][b]
      BY <1>11, Zenon
    <2> QED
      BY <1>1, <2>1, BookUpdated
  <1>13. LiveOf(g) = [LiveOf(h) EXCEPT ![t.id] = [side |-> side, price |-> p]]
    <2> DEFINE V == LiveOf(h)
               W == LiveOf(g)
               e == [side |-> side, price |-> p]
    <2>1. ASSUME NEW k \in OrderId PROVE W[k] = IF k = t.id THEN e ELSE V[k]
      <3>1. CASE k = t.id
        <4>1. g.ordersById[k] = x /\ x # Nil
          BY <1>5, <1>6, <1>7, <3>1 DEF Nil
        <4>2. g.orders[x].side = side /\ g.orders[x].price = p
          BY <1>5, FilledInTyped DEF SameOrder
        <4> QED
          BY <3>1, <4>1, <4>2 DEF LiveOf
      <3>2. CASE k # t.id /\ h.ordersById[k] = Nil
        <4>1. g.ordersById[k] = Nil
          BY <1>5, <1>6, <3>2
        <4> QED
          BY <3>2, <4>1 DEF LiveOf
      <3>3. CASE k # t.id /\ h.ordersById[k] # Nil
        <4> DEFINE n == h.ordersById[k]
        <4>1. g.ordersById[k] = n /\ n # Nil /\ SameOrder(g.orders[n], h.orders[n])
          BY <1>8, <3>3
        <4>2. g.orders[n].side = h.orders[n].side /\ g.orders[n].price = h.orders[n].price
          BY <4>1 DEF SameOrder
        <4>3. W[k] = [side |-> g.orders[n].side, price |-> g.orders[n].price]
          BY <4>1 DEF LiveOf
        <4>4. V[k] = [side |-> h.orders[n].side, price |-> h.orders[n].price]
          BY <4>1 DEF LiveOf
        <4> QED
          BY <3>3, <4>2, <4>3, <4>4
      <3> QED
        BY <3>1, <3>2, <3>3
    <2>2. V = [k \in OrderId |-> V[k]] /\ W = [k \in OrderId |-> W[k]]
      BY DEF LiveOf
    <2> HIDE DEF V, W, e
    <2>3. W = [V EXCEPT ![t.id] = e]
      BY <2>1, <2>2
    <2> QED
      BY <2>3 DEF V, W, e
  <1> QED
    BY <1>12, <1>13, Zenon DEF Rested, g

\* The best price of a side in the reference engine's book.
BestAt(h, side, p) ==
    /\ p \in Price /\ BookOf(h)[side][p] # <<>>
    /\ \A r \in Price : BookOf(h)[side][r] # <<>> => ~Better(side, r, p)

\* Nothing waits where no level is found, and something where one is.
LEMMA LevelsRead ==
    ASSUME NEW h, NEW s, NEW q, Engine(h, s, q), NEW side \in Side, NEW p \in Price
    PROVE  BookOf(h)[side][p] = <<>> <=> h.byPrice[side][p] = Nil
  <1> DEFINE w == QueueAt(h, q, side, p)
             l == h.byPrice[side][p]
  <1>1. BookOf(h)[side][p] = AsOrders(h, w) /\ w \in Seq(Nat)
    BY QueueRead
  <1>2. w = <<>> <=> AsOrders(h, w) = <<>>
    BY <1>1, AsOrdersTyped
  <1>3. ASSUME l = Nil PROVE w = <<>>
    BY <1>3 DEF QueueAt
  <1>4. ASSUME l # Nil PROVE w # <<>>
    <2>1. LaddersOK(h, s) /\ NoneEmpty(s, q)
      BY DEF Engine, Book
    <2>2. l \in Elems(s[side])
      BY <1>4, <2>1, PriceOfLevel
    <2>3. w = q[l]
      BY <1>4 DEF QueueAt
    <2> HIDE DEF l, w
    <2> QED
      BY <2>1, <2>2, <2>3 DEF NoneEmpty, Standing
  <1> HIDE DEF w, l
  <1>5. BookOf(h)[side][p] = <<>> <=> l = Nil
    BY <1>1, <1>2, <1>3, <1>4
  <1> QED
    BY <1>5 DEF l

\* The engine's best level is the reference engine's best price.
LEMMA BestRead ==
    ASSUME NEW h, NEW s, NEW q, Engine(h, s, q), NEW side \in Side
    PROVE  /\ h.best[side] = Nil => \A p \in Price : BookOf(h)[side][p] = <<>>
           /\ h.best[side] # Nil => /\ BestAt(h, side, h.levels[h.best[side]].price)
                                    /\ h.best[side] \in Elems(s[side])
  <1> DEFINE f == s[side]
             l == h.best[side]
  <1>1. LaddersOK(h, s) /\ h \in Heap
    BY DEF Engine, Book, LaddersOK
  <1>2. LadderOK(h, side, f) /\ f \in Seq(Nat)
    BY <1>1 DEF LaddersOK
  <1>3. \A j \in 1 .. Len(f) : f[j] \in 1 .. Len(h.levels)
    BY <1>1, LadderNodes
  <1> HIDE DEF f
  <1>4. l = FirstOf(f)
    BY <1>2 DEF LadderOK
  <1> HIDE DEF l
  <1>5. CASE f = <<>>
    <2>1. l = Nil
      BY <1>4, <1>5 DEF FirstOf, Nil
    <2>2. Len(f) = 0
      BY <1>5
    <2>3. \A p \in Price : h.byPrice[side][p] = Nil
      <3>1. \A i : i \notin 1 .. Len(f)
        BY <2>2
      <3> QED
        BY <1>2, <3>1 DEF LadderOK
    <2>4. \A p \in Price : BookOf(h)[side][p] = <<>>
      BY <2>3, LevelsRead
    <2> QED
      BY <2>1, <2>4 DEF l
  <1>6. CASE f # <<>>
    <2>1. Len(f) # 0 /\ Len(f) \in Nat
      BY <1>2, <1>6
    <2>2. 1 \in 1 .. Len(f)
      BY <2>1
    <2>3. l = f[1] /\ l \in 1 .. Len(h.levels) /\ l # Nil
      BY <1>3, <1>4, <1>6, <2>2 DEF FirstOf, Nil
    <2> DEFINE p == h.levels[l].price
    <2>4. p \in Price /\ h.byPrice[side][p] = l
      BY <1>2, <2>2, <2>3 DEF LadderOK
    <2>5. BookOf(h)[side][p] # <<>>
      BY <2>3, <2>4, LevelsRead
    <2>6. ASSUME NEW r \in Price, BookOf(h)[side][r] # <<>> PROVE ~Better(side, r, p)
      <3>1. h.byPrice[side][r] # Nil
        BY <2>6, LevelsRead
      <3>2. PICK j \in 1 .. Len(f) : h.levels[f[j]].price = r
        BY <1>2, <3>1 DEF LadderOK
      <3>3. j # 1 => Better(side, h.levels[f[1]].price, h.levels[f[j]].price)
        <4>1. j # 1 => 1 < j
          BY <2>1
        <4> QED
          BY <1>2, <2>2, <4>1 DEF LadderOK
      <3>4. p \in Int /\ r \in Int
        BY <2>4, PriceAssumption
      <3>5. r = p \/ Better(side, p, r)
        BY <2>3, <3>2, <3>3
      <3> HIDE DEF p
      <3> QED
        BY <3>4, <3>5 DEF Better
    <2>7. BestAt(h, side, p)
      BY <2>4, <2>5, <2>6 DEF BestAt
    <2>8. l \in Elems(f)
      BY <2>2, <2>3 DEF Elems
    <2> QED
      BY <2>3, <2>7, <2>8 DEF l, f
  <1> QED
    BY <1>5, <1>6

\* The maker at the front of the best level is the oldest order at the best price.
LEMMA FrontRead ==
    ASSUME NEW h, NEW s, NEW q, Engine(h, s, q), NEW side \in Side, NEW c, AtFront(h, side, c)
    PROVE  /\ BestAt(h, side, c.price) /\ StandsAt(h, c.maker, side, c.price, 1)
           /\ c.maker \in Queued(s, q)
           /\ h.orders[c.maker].side = side /\ h.orders[c.maker].price = c.price
  <1> DEFINE x == c.maker
             l == c.lvl
  <1>1. /\ x \in Queued(s, q) /\ h.orders[x].prev = Nil /\ h.orders[x].level = l
    BY FrontOrder
  <1>2. l = h.best[side] /\ l # Nil /\ h.levels[l].price = c.price
    BY DEF AtFront
  <1>3. BestAt(h, side, c.price) /\ l \in Elems(s[side])
    BY <1>2, BestRead
  <1>4. Book(h, s, q, {}) /\ h \in Heap
    BY DEF Engine, Book, LaddersOK
  <1>5. x \in Elems(q[l])
    BY <1>1, <1>4, QueuedOrders
  <1> HIDE DEF x, l
  <1>6. FifoOK(h, side, l, q[l])
    BY <1>3, <1>4 DEF Book, QueuesOK
  <1>7. h.orders[x].side = side /\ h.orders[x].price = c.price
    BY <1>2, <1>4, <1>5, <1>6, QueueNodes
  <1>8. \E i : StandsAt(h, x, h.orders[x].side, h.orders[x].price, i)
    BY <1>1, OrderStands
  <1>9. PICK i : StandsAt(h, x, side, c.price, i)
    BY <1>7, <1>8
  <1>10. StandsAt(h, x, side, c.price, 1)
    BY <1>1, <1>9 DEF StandsAt
  <1> QED
    BY <1>1, <1>3, <1>7, <1>10 DEF x

-----------------------------------------------------------------------------
(* The invariant                                                           *)

EngineOK == \E s, q : Engine(heap, s, q)

\* The call in progress: its order is not in the book.
CallOK ==
    /\ stp \in {"None", "CancelIncoming", "CancelResting"}
    /\ pc \in {"idle", "outer", "inner", "filled"}
    /\ pc = "idle" => taker = None
    /\ pc # "idle" => /\ taker \in Taker /\ Find(taker.id) = Nil
                      /\ taker.kind # "market" => taker.price \in Price

\* Whenever match_incoming follows a pointer, it is at the front of the best level.
CursorOK ==
    /\ cursor \in [lvl : 0 .. Len(heap.levels), price : Int,
                   maker : 0 .. Len(heap.orders), next : 0 .. Len(heap.orders)]
    /\ AtMaker \/ pc = "filled" => AtFront(heap, Facing, cursor)
    /\ pc = "filled" => cursor.next = Maker.next

IInv == EngineOK /\ CallOK /\ CursorOK

\* A taker faces a side.
LEMMA FacingSide == \A t \in Taker : Opposite(t.side) \in Side
  BY DEF Taker, Opposite, Side

\* The cursor outside the loops is a cursor.
LEMMA NoCursorOK ==
    ASSUME NEW h \in Heap
    PROVE  NoCursor \in [lvl : 0 .. Len(h.levels), price : Int,
                         maker : 0 .. Len(h.orders), next : 0 .. Len(h.orders)]
  BY HeapFields DEF NoCursor, Nil

\* The constructor establishes it.
LEMMA InitOK == Init => IInv
  <1> SUFFICES ASSUME Init PROVE IInv
    OBVIOUS
  <1>1. Engine(heap, NoLadders, NoQueues)
    BY EngineAtStart DEF Init
  <1>2. EngineOK
    BY <1>1 DEF EngineOK
  <1>3. CallOK
    BY StpAssumption DEF Init, CallOK
  <1>4. heap \in Heap
    BY <1>1 DEF Engine, Book, LaddersOK
  <1>5. CursorOK
    BY <1>4, NoCursorOK DEF Init, CursorOK, AtMaker
  <1> QED
    BY <1>2, <1>3, <1>5 DEF IInv

\* A step that returns, with a heap that is an engine again.
LEMMA ReturnOK ==
    ASSUME CallOK, EngineOK', Return, stp' = stp
    PROVE  IInv'
  <1>1. CallOK'
    BY DEF CallOK, Return
  <1>2. heap' \in Heap
    BY DEF EngineOK, Engine, Book, LaddersOK
  <1>3. CursorOK'
    BY <1>2, NoCursorOK DEF CursorOK, Return, AtMaker
  <1> QED
    BY <1>1, <1>3 DEF IInv

\* A removal leaves an engine, as large, with the index cleared at one id.
LEMMA RemovalOK ==
    ASSUME EngineOK, NEW x, heap' = RemoveResting(heap, x),
           x \in InUse(heap.orderPool)
    PROVE  /\ EngineOK' /\ Gone(heap, heap', x)
           /\ Len(heap'.orders) = Len(heap.orders) /\ Len(heap'.levels) = Len(heap.levels)
           /\ heap.orders[x].id \in OrderId /\ heap.orders[x].participant \in Participant
           /\ heap.orders[x].side \in Side
           /\ heap.ordersById \in [OrderId -> Nat]
           /\ heap'.ordersById = [heap.ordersById EXCEPT ![heap.orders[x].id] = Nil]
  <1>1. PICK s, q : Engine(heap, s, q)
    BY DEF EngineOK
  <1>2. /\ x \in Queued(s, q) /\ heap \in Heap /\ IdsOK(heap, Queued(s, q))
    BY <1>1 DEF Engine, Book, LaddersOK, QueuesOK
  <1>3. (\E s2, q2 : Engine(heap', s2, q2)) /\ Gone(heap, heap', x)
    <2>1. /\ \E s2, q2 : EngineWithout(heap, q, x, RemoveResting(heap, x), s2, q2)
          /\ Gone(heap, RemoveResting(heap, x), x)
      BY <1>1, <1>2, RestingRemoved
    <2> QED
      BY <2>1 DEF EngineWithout
  <1>4. /\ x \in 1 .. Len(heap.orders) /\ heap.orders[x].id \in OrderId
        /\ heap.orders[x].participant \in Participant
    BY <1>2 DEF IdsOK
  <1>5. heap.orders[x] \in OrderNode /\ heap.ordersById \in [OrderId -> Nat]
    BY <1>2, <1>4, HeapFields
  <1>6. heap.orders[x].side \in Side
    BY <1>5 DEF OrderNode
  <1> QED
    BY <1>3, <1>4, <1>5, <1>6 DEF Gone, EngineOK

\* What an id finds is in use and carries that id.
LEMMA FoundOrder ==
    ASSUME EngineOK, NEW id \in OrderId, Find(id) # Nil
    PROVE  /\ Find(id) \in InUse(heap.orderPool)
           /\ heap.orders[Find(id)].id = id
  <1>1. PICK s, q : Engine(heap, s, q)
    BY DEF EngineOK
  <1> QED
    BY <1>1 DEF Engine, Book, QueuesOK, IdsOK, Find

-----------------------------------------------------------------------------
(* Every step keeps it                                                     *)

\* A call that enters the matching loop for an order whose id is free.
LEMMA StartOK ==
    ASSUME IInv, EngineOK', stp' = stp, Len(heap'.orders) = Len(heap.orders),
           Len(heap'.levels) = Len(heap.levels),
           NEW kind \in Tif \cup {"market", "modify"}, NEW id \in OrderId,
           NEW participant \in Participant, NEW side \in Side, NEW price \in Int, NEW qty \in Qty,
           kind # "market" => price \in Price, Find(id)' = Nil,
           StartMatch(kind, id, participant, side, price, qty)
    PROVE  IInv'
  <1>1. taker' \in Taker
    BY QtyAssumption DEF StartMatch, Taker
  <1>2. pc' = "outer" /\ cursor' = cursor /\ taker'.id = id /\ taker'.kind = kind
        /\ taker'.price = price
    BY DEF StartMatch
  <1>3. CallOK'
    BY <1>1, <1>2 DEF CallOK, IInv, Find
  <1>4. CursorOK'
    BY <1>2 DEF CursorOK, IInv, AtMaker
  <1> QED
    BY <1>3, <1>4 DEF IInv

\* A step that changes nothing but the event.
LEMMA SameOK ==
    ASSUME IInv, UNCHANGED <<heap, stp, pc, taker, cursor>>
    PROVE  IInv'
  BY DEF IInv, EngineOK, CallOK, CursorOK, AtMaker, Facing, Maker, Find, BestLevel

\* A cancel keeps the invariant.
LEMMA CancelOK ==
    ASSUME IInv, NEW id \in OrderId, Cancel(id)
    PROVE  IInv'
  <1>1. EngineOK /\ Find(id) # Nil /\ pc = "idle" /\ heap' = RemoveResting(heap, Find(id))
        /\ UNCHANGED <<stp, pc, taker, cursor>>
    BY DEF IInv, Cancel
  <1>2. Find(id) \in InUse(heap.orderPool)
    BY <1>1, FoundOrder
  <1>3. /\ EngineOK' /\ Len(heap'.orders) = Len(heap.orders)
        /\ Len(heap'.levels) = Len(heap.levels)
    BY <1>1, <1>2, RemovalOK
  <1>4. CallOK'
    BY <1>1 DEF IInv, CallOK
  <1>5. CursorOK'
    BY <1>1, <1>3 DEF IInv, CursorOK, AtMaker
  <1> QED
    BY <1>3, <1>4, <1>5 DEF IInv

\* A replace takes the order out and enters the loop with a free id.
LEMMA ReplaceOK ==
    ASSUME IInv, NEW id \in OrderId, NEW price \in Price, NEW qty \in Qty, Replace(id, price, qty)
    PROVE  IInv'
  <1> DEFINE x == Find(id)
             o == heap.orders[x]
  <1>1. /\ EngineOK /\ x # Nil /\ heap' = RemoveResting(heap, x) /\ stp' = stp
        /\ StartMatch("modify", id, o.participant, o.side, price, qty)
    BY DEF IInv, Replace
  <1>2. x \in InUse(heap.orderPool) /\ o.id = id
    BY <1>1, FoundOrder
  <1>3. /\ EngineOK' /\ Len(heap'.orders) = Len(heap.orders)
        /\ Len(heap'.levels) = Len(heap.levels)
        /\ o.participant \in Participant /\ o.side \in Side
        /\ heap.ordersById \in [OrderId -> Nat]
        /\ heap'.ordersById = [heap.ordersById EXCEPT ![o.id] = Nil]
    BY <1>1, <1>2, RemovalOK
  <1>4. Find(id)' = Nil
    BY <1>2, <1>3 DEF Find
  <1>5. price \in Int
    BY PriceAssumption
  <1> DEFINE pa == o.participant
             si == o.side
  <1>6. pa \in Participant /\ si \in Side /\ StartMatch("modify", id, pa, si, price, qty)
    BY <1>1, <1>3
  <1> HIDE DEF pa, si
  <1> QED
    BY <1>1, <1>3, <1>4, <1>5, <1>6, StartOK

\* The step has changed the quantity of order x, with the total of its level.
Refilled(x, qty) ==
    \E s, q, l, total : /\ Engine(heap, s, q) /\ Engine(heap', s, q) /\ x \in Queued(s, q)
                        /\ Requantified(heap, heap', x, l, qty, total)

\* A reduction changes an order and the total of its level alike.
LEMMA ReduceRefills ==
    ASSUME IInv, NEW id \in OrderId, NEW price \in Price, NEW qty \in Qty, Reduce(id, price, qty)
    PROVE  Refilled(Find(id), qty)
  <1> DEFINE x == Find(id)
             l == heap.orders[x].level
             d == qty - heap.orders[x].remaining
             total == Wrap(heap.levels[l].total_qty + d)
  <1>1. /\ EngineOK /\ x # Nil /\ heap' = Resize(heap, x, qty) /\ pc = "idle"
        /\ UNCHANGED <<stp, pc, taker, cursor>>
    BY DEF IInv, Reduce
  <1>2. x \in InUse(heap.orderPool)
    BY <1>1, FoundOrder
  <1> HIDE DEF x
  <1>3. PICK s, q : Engine(heap, s, q)
    BY <1>1 DEF EngineOK
  <1>4. /\ x \in Queued(s, q) /\ heap \in Heap /\ Book(heap, s, q, {})
    BY <1>2, <1>3 DEF Engine, Book, LaddersOK, QueuesOK
  <1>5. x \in 1 .. Len(heap.orders) /\ l \in 1 .. Len(heap.levels)
    BY <1>4, QueuedOrders, StandingLevels DEF Book
  <1>6. heap.orders[x].remaining \in 0 .. (QtyMod - 1) /\ heap.levels[l].total_qty \in Int
    <2>1. heap.orders[x] \in OrderNode /\ heap.levels[l] \in LevelNode
      BY <1>4, <1>5, HeapFields
    <2> QED
      BY <2>1 DEF OrderNode, LevelNode
  <1>7. qty \in 0 .. (QtyMod - 1) /\ d \in Int /\ qty = heap.orders[x].remaining + d
    BY <1>6, QtyAssumption, SMTT(60)
  <1>8. heap' = Requantify(heap, x, l, qty, total)
    <2>1. Resize(heap, x, qty) =
             Requantify(heap, x, l, qty,
                        Wrap(heap.levels[l].total_qty - (heap.orders[x].remaining - qty)))
      BY <1>4, <1>5, ResizeRequantifies
    <2>2. heap.levels[l].total_qty - (heap.orders[x].remaining - qty) =
             heap.levels[l].total_qty + d
      BY <1>6, <1>7
    <2> QED
      BY <1>1, <2>1, <2>2
  <1> HIDE DEF d
  <1> DEFINE k == l
             v == total
  <1>9. k = heap.orders[x].level /\ v = Wrap(heap.levels[k].total_qty + d)
    OBVIOUS
  <1>10. heap' = Requantify(heap, x, k, qty, v)
    BY <1>8
  <1> HIDE DEF k, v
  <1>11. Engine(heap', s, q) /\ Requantified(heap, heap', x, k, qty, v)
    <2>1. /\ Engine(Requantify(heap, x, k, qty, v), s, q)
          /\ Requantified(heap, Requantify(heap, x, k, qty, v), x, k, qty, v)
      BY <1>3, <1>4, <1>7, <1>9, EngineRequantified
    <2> QED
      BY <1>10, <2>1
  <1>12. Refilled(x, qty)
    BY <1>3, <1>4, <1>11 DEF Refilled
  <1> QED
    BY <1>12 DEF x

\* A quantity changed leaves an engine of the same size, and every front in its place.
LEMMA RefilledOK ==
    ASSUME NEW x, NEW qty, Refilled(x, qty)
    PROVE  /\ EngineOK' /\ heap'.best = heap.best /\ heap'.ordersById = heap.ordersById
           /\ Len(heap'.orders) = Len(heap.orders) /\ Len(heap'.levels) = Len(heap.levels)
           /\ \A n \in 1 .. Len(heap.orders) : heap'.orders[n].next = heap.orders[n].next
           /\ \A l \in 1 .. Len(heap.levels) : /\ heap'.levels[l].front = heap.levels[l].front
                                               /\ heap'.levels[l].price = heap.levels[l].price
  <1>1. PICK s, q, l, total : /\ Engine(heap, s, q) /\ Engine(heap', s, q) /\ x \in Queued(s, q)
                              /\ Requantified(heap, heap', x, l, qty, total)
    BY DEF Refilled
  <1>2. EngineOK'
    BY <1>1 DEF EngineOK
  <1> QED
    BY <1>1, <1>2 DEF Requantified, SameFrame

\* A reduction keeps the invariant.
LEMMA ReduceOK ==
    ASSUME IInv, NEW id \in OrderId, NEW price \in Price, NEW qty \in Qty, Reduce(id, price, qty)
    PROVE  IInv'
  <1>1. pc = "idle" /\ UNCHANGED <<stp, pc, taker, cursor>>
    BY DEF Reduce
  <1>2. /\ EngineOK' /\ Len(heap'.orders) = Len(heap.orders) /\ Len(heap'.levels) = Len(heap.levels)
    BY ReduceRefills, RefilledOK
  <1>3. CallOK'
    BY <1>1 DEF IInv, CallOK
  <1>4. CursorOK'
    BY <1>1, <1>2 DEF IInv, CursorOK, AtMaker
  <1> QED
    BY <1>2, <1>3, <1>4 DEF IInv

\* The outer loop reads the front of the best level.
LEMMA EnterLevelOK ==
    ASSUME IInv, EnterLevel
    PROVE  IInv'
  <1>1. /\ EngineOK /\ CallOK /\ pc = "outer" /\ pc' = "inner" /\ UNCHANGED <<heap, stp, taker>>
        /\ cursor' = [lvl |-> BestLevel, price |-> heap.levels[BestLevel].price,
                      maker |-> heap.levels[BestLevel].front, next |-> Nil]
        /\ BestLevel # Nil
    BY DEF IInv, EnterLevel, LoopEnds
  <1>2. taker \in Taker /\ Facing \in Side
    BY <1>1, FacingSide DEF CallOK, Facing
  <1>3. PICK s, q : Engine(heap, s, q)
    BY <1>1 DEF EngineOK
  <1>4. /\ cursor'.lvl = heap.best[Facing] /\ cursor'.price = heap.levels[cursor'.lvl].price
        /\ cursor'.maker = heap.levels[cursor'.lvl].front /\ cursor'.next = Nil
    BY <1>1 DEF BestLevel
  <1>5. AtFront(heap, Facing, cursor')
    BY <1>1, <1>2, <1>3, <1>4, BestHasFront DEF BestLevel
  <1>6. /\ cursor'.lvl \in 1 .. Len(heap.levels) /\ cursor'.maker \in 1 .. Len(heap.orders)
        /\ heap \in Heap
    BY <1>2, <1>3, <1>5, FrontOrder DEF Engine, Book, LaddersOK
  <1>7. heap.levels[cursor'.lvl].price \in Int /\ Len(heap.levels) \in Nat /\ Len(heap.orders) \in Nat
    BY <1>6, BestPriceTyped, HeapFields
  <1>8. cursor' \in [lvl : 0 .. Len(heap.levels), price : Int,
                     maker : 0 .. Len(heap.orders), next : 0 .. Len(heap.orders)]
    <2>1. /\ BestLevel \in 0 .. Len(heap.levels) /\ heap.levels[BestLevel].price \in Int
          /\ heap.levels[BestLevel].front \in 0 .. Len(heap.orders) /\ Nil \in 0 .. Len(heap.orders)
      BY <1>1, <1>6, <1>7 DEF Nil
    <2> QED
      BY <1>1, <2>1
  <1>9. CallOK'
    BY <1>1 DEF CallOK, Find
  <1>10. CursorOK'
    BY <1>1, <1>5, <1>8 DEF CursorOK, AtMaker, Facing
  <1>11. EngineOK'
    BY <1>1 DEF EngineOK
  <1> QED
    BY <1>9, <1>10, <1>11 DEF IInv

\* Leaving a level drops the pointers.
LEMMA LeaveLevelOK ==
    ASSUME IInv, LeaveLevel
    PROVE  IInv'
  <1>1. /\ EngineOK /\ CallOK /\ pc = "inner" /\ pc' = "outer" /\ UNCHANGED <<heap, stp, taker>>
        /\ cursor' = NoCursor
    BY DEF IInv, LeaveLevel
  <1>2. heap \in Heap
    BY <1>1 DEF EngineOK, Engine, Book, LaddersOK
  <1>3. CursorOK'
    BY <1>1, <1>2, NoCursorOK DEF CursorOK, AtMaker
  <1>4. CallOK'
    BY <1>1 DEF CallOK, Find
  <1>5. EngineOK'
    BY <1>1 DEF EngineOK
  <1> QED
    BY <1>3, <1>4, <1>5 DEF IInv

\* The maker goes; the loop moves to the successor it read before.
LEMMA MakerLeaves ==
    ASSUME IInv, AtMaker \/ pc = "filled", heap' = RemoveResting(heap, cursor.maker),
           stp' = stp, taker' = taker, pc' = "inner",
           cursor' \in [lvl : Int, price : Int, maker : Int, next : Int],
           cursor'.lvl = cursor.lvl, cursor'.price = cursor.price, cursor'.maker = Maker.next,
           cursor'.next \in {Nil, cursor.next}
    PROVE  IInv'
  <1> DEFINE x == cursor.maker
  <1>1. /\ EngineOK /\ CallOK /\ AtFront(heap, Facing, cursor) /\ pc # "idle"
        /\ cursor.lvl \in 0 .. Len(heap.levels) /\ cursor.price \in Int
        /\ cursor.next \in 0 .. Len(heap.orders)
    BY DEF IInv, CursorOK, AtMaker
  <1>2. taker \in Taker /\ Facing \in Side /\ Find(taker.id) = Nil
    BY <1>1, FacingSide DEF CallOK, Facing
  <1>3. PICK s, q : Engine(heap, s, q)
    BY <1>1 DEF EngineOK
  <1>4. x \in InUse(heap.orderPool) /\ heap.orders[x].next \in 0 .. Len(heap.orders)
    BY <1>1, <1>2, <1>3, FrontOrder
  <1>5. /\ EngineOK' /\ Gone(heap, heap', x)
        /\ Len(heap'.orders) = Len(heap.orders) /\ Len(heap'.levels) = Len(heap.levels)
        /\ heap.orders[x].id \in OrderId /\ heap.ordersById \in [OrderId -> Nat]
        /\ heap'.ordersById = [heap.ordersById EXCEPT ![heap.orders[x].id] = Nil]
    BY <1>1, <1>4, RemovalOK
  <1>6. cursor'.maker = heap.orders[x].next
    BY DEF Maker
  <1>7. cursor'.maker # Nil => AtFront(heap', Facing, cursor')
    BY <1>1, <1>2, <1>3, <1>5, <1>6, NextAtFront
  <1>8. CallOK'
    <2>1. taker.id \in OrderId
      BY <1>2 DEF Taker
    <2>2. heap'.ordersById[taker.id] = Nil
      BY <1>2, <1>5, <2>1 DEF Find
    <2> QED
      BY <1>1, <1>2, <2>2 DEF CallOK, Find
  <1>9. CursorOK'
    <2>1. heap \in Heap
      BY <1>3 DEF Engine, Book, LaddersOK
    <2>2. Nil \in 0 .. Len(heap.orders)
      BY <2>1, HeapFields DEF Nil
    <2>3. /\ cursor'.lvl \in 0 .. Len(heap'.levels) /\ cursor'.price \in Int
          /\ cursor'.maker \in 0 .. Len(heap'.orders) /\ cursor'.next \in 0 .. Len(heap'.orders)
      BY <1>1, <1>4, <1>5, <1>6, <2>2
    <2>4. cursor' \in [lvl : 0 .. Len(heap'.levels), price : Int,
                       maker : 0 .. Len(heap'.orders), next : 0 .. Len(heap'.orders)]
      BY <2>3
    <2>5. Facing' = Facing
      BY DEF Facing
    <2>6. AtMaker' => cursor'.maker # Nil
      BY DEF AtMaker
    <2> QED
      BY <1>7, <2>4, <2>5, <2>6 DEF CursorOK
  <1> QED
    BY <1>5, <1>8, <1>9 DEF IInv

\* A resting order that self-trade prevention cancels leaves as a filled one does.
LEMMA StpCancelRestingOK ==
    ASSUME IInv, StpCancelResting
    PROVE  IInv'
  <1>1. /\ AtMaker /\ pc = "inner" /\ heap' = RemoveResting(heap, cursor.maker)
        /\ UNCHANGED <<stp, pc, taker>> /\ cursor' = [cursor EXCEPT !.maker = Maker.next]
    BY DEF StpCancelResting, AtMaker
  <1>2. /\ cursor \in [lvl : 0 .. Len(heap.levels), price : Int,
                       maker : 0 .. Len(heap.orders), next : 0 .. Len(heap.orders)]
        /\ AtFront(heap, Facing, cursor) /\ EngineOK /\ Facing \in Side
    BY <1>1, FacingSide DEF IInv, CursorOK, CallOK, Facing
  <1>3. Maker.next \in Int
    <2>1. PICK s, q : Engine(heap, s, q)
      BY <1>2 DEF EngineOK
    <2> QED
      BY <1>2, <2>1, FrontOrder DEF Maker
  <1>4. /\ cursor' \in [lvl : Int, price : Int, maker : Int, next : Int]
        /\ cursor'.lvl = cursor.lvl /\ cursor'.price = cursor.price
        /\ cursor'.maker = Maker.next /\ cursor'.next = cursor.next
    BY <1>1, <1>2, <1>3
  <1> QED
    BY <1>1, <1>4, MakerLeaves

\* A filled maker leaves.
LEMMA RemoveFilledOK ==
    ASSUME IInv, RemoveFilled
    PROVE  IInv'
  <1>1. /\ pc = "filled" /\ pc' = "inner" /\ heap' = RemoveResting(heap, cursor.maker)
        /\ UNCHANGED <<stp, taker>>
        /\ cursor' = [cursor EXCEPT !.maker = cursor.next, !.next = Nil]
    BY DEF RemoveFilled
  <1>2. /\ cursor \in [lvl : 0 .. Len(heap.levels), price : Int,
                       maker : 0 .. Len(heap.orders), next : 0 .. Len(heap.orders)]
        /\ cursor.next = Maker.next
    BY <1>1 DEF IInv, CursorOK
  <1>3. /\ cursor' \in [lvl : Int, price : Int, maker : Int, next : Int]
        /\ cursor'.lvl = cursor.lvl /\ cursor'.price = cursor.price
        /\ cursor'.maker = Maker.next /\ cursor'.next = Nil
    <2>1. cursor.next \in Int /\ cursor.lvl \in Int /\ cursor.price \in Int /\ Nil \in Int
      BY <1>2 DEF Nil
    <2>2. cursor = [lvl |-> cursor.lvl, price |-> cursor.price, maker |-> cursor.maker,
                    next |-> cursor.next]
      BY <1>2
    <2>3. cursor' = [lvl |-> cursor.lvl, price |-> cursor.price, maker |-> cursor.next,
                     next |-> Nil]
      BY <1>1, <2>2
    <2> QED
      BY <1>2, <2>1, <2>3
  <1>4. (AtMaker \/ pc = "filled") /\ cursor'.next \in {Nil, cursor.next}
    BY <1>1, <1>3
  <1>5. stp' = stp /\ taker' = taker /\ pc' = "inner" /\ heap' = RemoveResting(heap, cursor.maker)
    BY <1>1
  <1> QED
    BY <1>3, <1>4, <1>5, MakerLeaves

\* What a trade takes from the maker and the taker.
Fill == IF taker.remaining < Maker.remaining THEN taker.remaining ELSE Maker.remaining

\* A fill changes the maker and the total of its level alike.
LEMMA TradeRefills ==
    ASSUME IInv, Trade
    PROVE  /\ Refilled(cursor.maker, Maker.remaining - Fill)
           /\ taker.remaining \in 0 .. (QtyMod - 1) /\ Maker.remaining \in 0 .. (QtyMod - 1)
           /\ taker.remaining - Fill \in 0 .. (QtyMod - 1) /\ Fill \in Int
           /\ Maker.remaining = Fill \/ taker.remaining - Fill = 0
  <1> DEFINE x == cursor.maker
             l == cursor.lvl
             rem == heap.orders[x].remaining
             fill == IF taker.remaining < rem THEN taker.remaining ELSE rem
             left == rem - fill
             filled == rem = fill
             total == Wrap(heap.levels[l].total_qty - fill)
  <1>1. /\ AtMaker /\ pc = "inner" /\ stp' = stp
        /\ taker' = [taker EXCEPT !.remaining = @ - fill]
        /\ heap' = [heap EXCEPT !.orders[x].remaining = @ - fill,
                                !.levels[l].total_qty = Wrap(@ - fill)]
        /\ pc' = IF filled THEN "filled" ELSE "inner"
        /\ cursor' = IF filled THEN [cursor EXCEPT !.next = Maker.next]
                               ELSE [cursor EXCEPT !.maker = Maker.next]
    BY DEF Trade, AtMaker, Maker
  <1>2. /\ cursor \in [lvl : 0 .. Len(heap.levels), price : Int,
                       maker : 0 .. Len(heap.orders), next : 0 .. Len(heap.orders)]
        /\ AtFront(heap, Facing, cursor) /\ EngineOK /\ CallOK
        /\ taker \in Taker /\ Find(taker.id) = Nil /\ Facing \in Side
    BY <1>1, FacingSide DEF IInv, CursorOK, CallOK, Facing
  <1>3. PICK s, q : Engine(heap, s, q)
    BY <1>2 DEF EngineOK
  <1>4. /\ l \in 1 .. Len(heap.levels) /\ x \in Queued(s, q) /\ x \in 1 .. Len(heap.orders)
        /\ heap.orders[x].level = l /\ heap.orders[x].next \in 0 .. Len(heap.orders)
        /\ heap \in Heap
    BY <1>2, <1>3, FrontOrder DEF Engine, Book, LaddersOK
  <1> HIDE DEF x, l
  <1>5. rem \in 0 .. (QtyMod - 1) /\ heap.levels[l].total_qty \in Int
    <2>1. heap.orders[x] \in OrderNode /\ heap.levels[l] \in LevelNode
      BY <1>4, HeapFields
    <2> QED
      BY <2>1 DEF OrderNode, LevelNode
  <1>6. taker.remaining \in 0 .. (QtyMod - 1)
    BY <1>2 DEF Taker
  <1>7. /\ fill \in Int /\ left \in 0 .. (QtyMod - 1)
        /\ taker.remaining - fill \in 0 .. (QtyMod - 1)
        /\ filled \/ taker.remaining - fill = 0
    <2>1. QtyMod \in Nat
      BY QtyAssumption
    <2> HIDE DEF rem
    <2> QED
      BY <1>5, <1>6, <2>1
  <1>8. heap' = Requantify(heap, x, l, left, total)
    <2>1. heap = [orders |-> heap.orders, levels |-> heap.levels, orderPool |-> heap.orderPool,
                  levelPool |-> heap.levelPool, best |-> heap.best, byPrice |-> heap.byPrice,
                  ordersById |-> heap.ordersById]
      BY <1>4, HeapRecord
    <2>2. heap.orders[x] \in OrderNode /\ heap.levels[l] \in LevelNode
          /\ heap.orders \in Seq(OrderNode) /\ heap.levels \in Seq(LevelNode)
      BY <1>4, HeapFields
    <2> HIDE DEF fill
    <2>3. [heap EXCEPT !.orders[x].remaining = @ - fill,
                       !.levels[l].total_qty = Wrap(@ - fill)] =
          [heap EXCEPT !.orders[x].remaining = left, !.levels[l].total_qty = total]
      BY <2>1
    <2> QED
      BY <1>1, <2>3 DEF Requantify
  <1> DEFINE d == 0 - fill
  <1>9. /\ d \in Int /\ left = rem + d
        /\ heap.levels[l].total_qty - fill = heap.levels[l].total_qty + d
    <2> HIDE DEF fill, rem
    <2>1. rem \in Int /\ fill \in Int
      BY <1>5, <1>7
    <2> QED
      BY <1>5, <2>1
  <1>10. Engine(heap', s, q) /\ Requantified(heap, heap', x, l, left, total)
    <2> HIDE DEF d
    <2>1. total = Wrap(heap.levels[l].total_qty + d)
      BY <1>9
    <2>2. left \in 0 .. (QtyMod - 1)
      BY <1>7
    <2> DEFINE a == left
               b == total
    <2>3. a \in 0 .. (QtyMod - 1) /\ a = heap.orders[x].remaining + d
          /\ b = Wrap(heap.levels[l].total_qty + d)
      BY <1>9, <2>1, <2>2
    <2> HIDE DEF a, b
    <2>4. /\ Engine(Requantify(heap, x, l, a, b), s, q)
          /\ Requantified(heap, Requantify(heap, x, l, a, b), x, l, a, b)
      BY <1>3, <1>4, <1>9, <2>3, EngineRequantified
    <2> QED
      BY <1>8, <2>4 DEF a, b
  <1>11. Refilled(x, left)
    BY <1>3, <1>4, <1>10 DEF Refilled
  <1>12. Maker.remaining = rem /\ Fill = fill
    BY DEF Fill, Maker, x
  <1> QED
    BY <1>5, <1>6, <1>7, <1>11, <1>12 DEF x

\* After a trade the maker is still the front.
LEMMA TradeOK ==
    ASSUME IInv, Trade
    PROVE  IInv'
  <1> DEFINE x == cursor.maker
             l == cursor.lvl
             fill == Fill
             filled == Maker.remaining = fill
  <1>1. /\ AtMaker /\ pc = "inner" /\ stp' = stp
        /\ taker' = [taker EXCEPT !.remaining = @ - fill]
        /\ pc' = IF filled THEN "filled" ELSE "inner"
        /\ cursor' = IF filled THEN [cursor EXCEPT !.next = Maker.next]
                               ELSE [cursor EXCEPT !.maker = Maker.next]
    BY DEF Trade, AtMaker, Maker, Fill
  <1>2. /\ cursor \in [lvl : 0 .. Len(heap.levels), price : Int,
                       maker : 0 .. Len(heap.orders), next : 0 .. Len(heap.orders)]
        /\ AtFront(heap, Facing, cursor) /\ EngineOK /\ CallOK
        /\ taker \in Taker /\ Find(taker.id) = Nil /\ Facing \in Side
    BY <1>1, FacingSide DEF IInv, CursorOK, CallOK, Facing
  <1>3. PICK s, q : Engine(heap, s, q)
    BY <1>2 DEF EngineOK
  <1>4. /\ l \in 1 .. Len(heap.levels) /\ x \in 1 .. Len(heap.orders)
        /\ heap.orders[x].next \in 0 .. Len(heap.orders)
    BY <1>2, <1>3, FrontOrder
  <1>7. /\ Refilled(x, Maker.remaining - fill)
        /\ taker.remaining - fill \in 0 .. (QtyMod - 1)
        /\ filled \/ taker.remaining - fill = 0
    BY TradeRefills
  <1> HIDE DEF x, l, fill
  <1>11. /\ heap'.best = heap.best /\ heap'.ordersById = heap.ordersById
         /\ Len(heap'.orders) = Len(heap.orders) /\ Len(heap'.levels) = Len(heap.levels)
         /\ heap'.orders[x].next = heap.orders[x].next
         /\ heap'.levels[l].front = heap.levels[l].front
         /\ heap'.levels[l].price = heap.levels[l].price
    BY <1>4, <1>7, RefilledOK
  <1> DEFINE rest == taker.remaining - fill
  <1>12. /\ taker' \in Taker /\ taker'.id = taker.id /\ taker'.side = taker.side
         /\ taker'.kind = taker.kind /\ taker'.price = taker.price /\ taker'.remaining = rest
    <2>1. taker' = [taker EXCEPT !.remaining = rest] /\ rest \in 0 .. (QtyMod - 1)
      BY <1>1, <1>7
    <2> HIDE DEF rest
    <2> QED
      BY <1>2, <2>1 DEF Taker
  <1>13. Facing' = Facing
    BY <1>12 DEF Facing
  <1>14. CallOK'
    <2>1. pc' \in {"filled", "inner"}
      BY <1>1
    <2>2. Find(taker.id)' = Nil
      BY <1>2, <1>11, <1>12 DEF Find
    <2>3. taker.kind # "market" => taker.price \in Price
      BY <1>1, <1>2 DEF CallOK
    <2> QED
      BY <1>1, <1>2, <1>11, <1>12, <2>1, <2>3 DEF CallOK, Find
  <1>15. CursorOK'
    <2>1. Maker.next = heap.orders[x].next
      BY DEF Maker, x
    <2>2. CASE filled
      <3> HIDE DEF filled
      <3>1. pc' = "filled" /\ cursor' = [cursor EXCEPT !.next = heap.orders[x].next]
        BY <1>1, <2>1, <2>2
      <3>2. /\ cursor' \in [lvl : 0 .. Len(heap'.levels), price : Int,
                            maker : 0 .. Len(heap'.orders), next : 0 .. Len(heap'.orders)]
            /\ cursor'.lvl = l /\ cursor'.maker = x /\ cursor'.price = cursor.price
            /\ cursor'.next = heap.orders[x].next
        BY <1>2, <1>4, <1>11, <3>1 DEF l, x
      <3>3. AtFront(heap', Facing, cursor')
        BY <1>2, <1>11, <3>2 DEF AtFront, l, x
      <3>4. cursor'.next = Maker'.next
        BY <1>11, <3>2 DEF Maker
      <3> QED
        BY <1>13, <3>1, <3>2, <3>3, <3>4 DEF CursorOK
    <2>3. CASE ~filled
      <3>1. taker'.remaining = 0
        BY <1>7, <1>12, <2>3
      <3> HIDE DEF filled
      <3>2. pc' = "inner" /\ cursor' = [cursor EXCEPT !.maker = heap.orders[x].next]
        BY <1>1, <2>1, <2>3
      <3>3. cursor' \in [lvl : 0 .. Len(heap'.levels), price : Int,
                         maker : 0 .. Len(heap'.orders), next : 0 .. Len(heap'.orders)]
        BY <1>2, <1>4, <1>11, <3>2
      <3>4. ~AtMaker'
        BY <3>1 DEF AtMaker
      <3> QED
        BY <3>2, <3>3, <3>4 DEF CursorOK
    <2> QED
      BY <2>2, <2>3
  <1>16. EngineOK'
    BY <1>7, RefilledOK
  <1> QED
    BY <1>14, <1>15, <1>16 DEF IInv

\* The remainder rests under an id that is still free.
LEMMA RestOK ==
    ASSUME IInv, Rest
    PROVE  IInv'
  <1>1. /\ pc = "outer" /\ taker.kind \in {"GTC", "modify"} /\ heap' = RestOrder(heap, taker)
        /\ Return /\ stp' = stp /\ EngineOK /\ CallOK
    BY DEF Rest, LoopEnds, IInv
  <1>2. taker \in Taker /\ heap.ordersById[taker.id] = Nil /\ taker.price \in Price
    BY <1>1 DEF CallOK, Find
  <1>3. PICK s, q : Engine(heap, s, q)
    BY <1>1 DEF EngineOK
  <1>4. \E s2, q2 : Engine(heap', s2, q2)
    <2>1. \E s2, q2, x : EngineWith(heap, q, taker, x, RestOrder(heap, taker), s2, q2)
      BY <1>2, <1>3, OrderRests
    <2> QED
      BY <1>1, <2>1 DEF EngineWith
  <1>5. EngineOK'
    BY <1>4 DEF EngineOK
  <1> QED
    BY <1>1, <1>5, ReturnOK

\* Every step of every call keeps the invariant.
LEMMA StepOK == IInv /\ [Next]_vars => IInv'
  <1> SUFFICES ASSUME IInv, [Next]_vars PROVE IInv'
    OBVIOUS
  <1>1. ASSUME NEW id \in OrderId, NEW qty \in Qty, RejectNew(id, qty) PROVE IInv'
    BY <1>1, SameOK DEF RejectNew
  <1>2. ASSUME NEW id \in OrderId, RejectUnknown(id) PROVE IInv'
    BY <1>2, SameOK DEF RejectUnknown
  <1>3. ASSUME NEW id \in OrderId, Cancel(id) PROVE IInv'
    BY <1>3, CancelOK
  <1>4. ASSUME NEW id \in OrderId, NEW participant \in Participant, NEW side \in Side,
               NEW qty \in Qty, NEW price \in Price, NEW tif \in Tif,
               AddLimit(id, participant, side, price, qty, tif)
        PROVE  IInv'
    <2>1. /\ StartMatch(tif, id, participant, side, price, qty) /\ heap' = heap /\ stp' = stp
          /\ Find(id) = Nil
      BY <1>4 DEF AddLimit, ValidNew
    <2>2. EngineOK' /\ Find(id)' = Nil
      BY <2>1 DEF IInv, EngineOK, Find
    <2>3. price \in Int /\ tif \in Tif \cup {"market", "modify"}
      BY PriceAssumption
    <2> QED
      BY <2>1, <2>2, <2>3, StartOK
  <1>5. ASSUME NEW id \in OrderId, NEW participant \in Participant, NEW side \in Side,
               NEW qty \in Qty, AddMarket(id, participant, side, qty)
        PROVE  IInv'
    <2>1. /\ StartMatch("market", id, participant, side, 0, qty) /\ heap' = heap /\ stp' = stp
          /\ Find(id) = Nil
      BY <1>5 DEF AddMarket, ValidNew
    <2>2. EngineOK' /\ Find(id)' = Nil
      BY <2>1 DEF IInv, EngineOK, Find
    <2>3. 0 \in Int /\ "market" \in Tif \cup {"market", "modify"}
      OBVIOUS
    <2> QED
      BY <2>1, <2>2, <2>3, StartOK
  <1>6. ASSUME NEW id \in OrderId, NEW price \in Price, NEW qty \in Qty, Reduce(id, price, qty)
        PROVE  IInv'
    BY <1>6, ReduceOK
  <1>7. ASSUME NEW id \in OrderId, NEW price \in Price, NEW qty \in Qty, Replace(id, price, qty)
        PROVE  IInv'
    BY <1>7, ReplaceOK
  <1>8. ASSUME EngineOK, UNCHANGED heap PROVE EngineOK'
    BY <1>8 DEF EngineOK
  <1>9. ASSUME StpCancelIncoming \/ FullyMatched \/ DropRemainder PROVE IInv'
    <2>1. Return /\ stp' = stp /\ heap' = heap /\ EngineOK /\ CallOK
      BY <1>9 DEF IInv, StpCancelIncoming, FullyMatched, DropRemainder
    <2> QED
      BY <1>8, <2>1, ReturnOK
  <1>10. ASSUME UNCHANGED vars PROVE IInv'
    BY <1>10, SameOK DEF vars
  <1> QED
    BY <1>1, <1>2, <1>3, <1>4, <1>5, <1>6, <1>7, <1>9, <1>10, EnterLevelOK, LeaveLevelOK,
       StpCancelRestingOK, TradeOK, RemoveFilledOK, RestOK DEF Next, Enter, Continue

\* The invariant holds in every reachable state.
LEMMA Invariance == Spec => []IInv
  BY InitOK, StepOK, PTL DEF Spec

-----------------------------------------------------------------------------
(* The properties                                                          *)

\* What Elems and ToSet call the elements of a sequence.
LEMMA ElemsOf ==
    ASSUME NEW S, NEW s \in Seq(S)
    PROVE  ToSet(s) = Elems(s) /\ DOMAIN s = 1 .. Len(s) /\ Len(s) \in Nat
  <1>1. DOMAIN s = 1 .. Len(s) /\ Len(s) \in Nat
    OBVIOUS
  <1> QED
    BY <1>1 DEF ToSet, Elems

\* Links, indices and cursors of reachable states are positions in the memories (or Nil),
\* and the quantities and prices of nodes are quantities and prices.
THEOREM TypeCorrect == Spec => []TypeOK
  <1>1. IInv => TypeOK
    <2> SUFFICES ASSUME IInv PROVE TypeOK
      OBVIOUS
    <2>1. PICK s, q : Engine(heap, s, q)
      BY DEF IInv, EngineOK
    <2>2. /\ heap \in Heap /\ LaddersOK(heap, s) /\ QueuesOK(heap, s, q, {})
          /\ IdsOK(heap, Queued(s, q))
      BY <2>1 DEF Engine, Book, LaddersOK
    <2>3. /\ heap.orders \in Seq(OrderNode) /\ heap.levels \in Seq(LevelNode)
          /\ heap.orderPool \in PoolState /\ heap.levelPool \in PoolState
          /\ heap.best \in [Side -> Nat] /\ heap.byPrice \in [Side -> [Price -> Nat]]
          /\ heap.ordersById \in [OrderId -> Nat]
          /\ Len(heap.orders) \in Nat /\ Len(heap.levels) \in Nat
      BY <2>2, HeapFields
    <2>4. heap.orderPool.capacity = Len(heap.orders) /\ heap.levelPool.capacity = Len(heap.levels)
      BY <2>2 DEF LaddersOK, QueuesOK
    <2>5. ASSUME NEW side \in Side
          PROVE  /\ heap.best[side] \in 0 .. Len(heap.levels)
                 /\ \A p \in Price : heap.byPrice[side][p] \in 0 .. Len(heap.levels)
      <3>1. LadderOK(heap, side, s[side])
        BY <2>2 DEF LaddersOK
      <3>2. /\ Len(s[side]) \in Nat
            /\ \A i \in 1 .. Len(s[side]) : s[side][i] \in 1 .. Len(heap.levels)
        BY <2>2, LadderNodes
      <3>3. heap.best[side] \in 0 .. Len(heap.levels)
        <4>1. heap.best[side] = FirstOf(s[side])
          BY <3>1 DEF LadderOK
        <4>2. s[side] \in Seq(Nat)
          BY <2>2 DEF LaddersOK
        <4>3. s[side] # <<>> => 1 \in 1 .. Len(s[side])
          <5>1. s[side] # <<>> => Len(s[side]) # 0
            BY <4>2
          <5> QED
            BY <3>2, <5>1
        <4> QED
          BY <2>3, <3>2, <4>1, <4>3 DEF FirstOf
      <3>4. ASSUME NEW p \in Price PROVE heap.byPrice[side][p] \in 0 .. Len(heap.levels)
        <4>1. CASE heap.byPrice[side][p] = Nil
          BY <2>3, <4>1 DEF Nil
        <4>2. CASE heap.byPrice[side][p] # Nil
          <5>1. PICK i \in 1 .. Len(s[side]) : s[side][i] = heap.byPrice[side][p]
            BY <3>1, <4>2 DEF LadderOK
          <5> QED
            BY <2>3, <3>2, <5>1
        <4> QED
          BY <4>1, <4>2
      <3> QED
        BY <3>3, <3>4
    <2>6. heap.best \in [Side -> 0 .. Len(heap.levels)]
      BY <2>3, <2>5
    <2>7. heap.byPrice \in [Side -> [Price -> 0 .. Len(heap.levels)]]
      BY <2>3, <2>5
    <2>8. heap.ordersById \in [OrderId -> 0 .. Len(heap.orders)]
      <3>1. \A id \in OrderId : heap.ordersById[id] \in 0 .. Len(heap.orders)
        BY <2>2, <2>3 DEF IdsOK, Nil
      <3> QED
        BY <2>3, <3>1
    <2> QED
      BY <2>3, <2>4, <2>6, <2>7, <2>8 DEF TypeOK, IInv, CallOK, CursorOK
  <1> QED
    BY <1>1, Invariance, PTL

\* In every reachable state each level's FIFO is one doubly linked list of its own orders,
\* which the count and the total of the level describe (book.hpp:103-134).
THEOREM FifosStayIntact == Spec => []FifoIntact
  <1>1. IInv => FifoIntact
    <2> SUFFICES ASSUME IInv PROVE FifoIntact
      OBVIOUS
    <2>1. PICK s, q : Engine(heap, s, q)
      BY DEF IInv, EngineOK
    <2>2. /\ heap \in Heap /\ LaddersOK(heap, s) /\ QueuesOK(heap, s, q, {})
          /\ Book(heap, s, q, {}) /\ NoneEmpty(s, q)
      BY <2>1 DEF Engine, Book, LaddersOK
    <2> DEFINE Holds(side, lvl, fifo) ==
                 LET l == heap.levels[lvl] IN
                 /\ fifo # <<>> /\ l.back = Last(fifo)
                 /\ l.order_count = Len(fifo)
                 /\ l.total_qty = Wrap(SumOfRemaining(heap, fifo))
                 /\ \A i \in DOMAIN fifo :
                       LET o == heap.orders[fifo[i]]
                       IN  /\ o.level = lvl /\ o.side = side /\ o.price = l.price
                           /\ o.prev = IF i = 1 THEN Nil ELSE fifo[i - 1]
    <2>3. ASSUME NEW side \in Side, NEW lvl \in ToSet(Ladder(heap, side))
          PROVE  Holds(side, lvl, Fifo(heap, heap.levels[lvl].front))
      <3>1. s[side] \in Seq(Nat) /\ Ladder(heap, side) = s[side]
        BY <2>2, LadderRead DEF LaddersOK
      <3>2. lvl \in Elems(s[side])
        BY <3>1, ElemsOf
      <3>3. lvl \in Standing(s) /\ lvl \in Nat
        BY <2>2, <3>2, StandingLevels DEF Standing
      <3>4. Fifo(heap, heap.levels[lvl].front) = q[lvl]
        BY <2>2, <3>3, FifoRead
      <3> DEFINE f == q[lvl]
      <3>5. FifoOK(heap, side, lvl, f) /\ f \in Seq(Nat) /\ f # <<>>
        BY <2>2, <3>2, <3>3 DEF QueuesOK, NoneEmpty
      <3> HIDE DEF f
      <3>6. DOMAIN f = 1 .. Len(f) /\ Len(f) \in Nat
        BY <3>5, ElemsOf
      <3>7. \A i \in 1 .. Len(f) : f[i] \in 1 .. Len(heap.orders)
        BY <2>2, <3>5, QueueNodes
      <3>8. PICK v : Adds(heap, f, v) /\ heap.levels[lvl].total_qty = Wrap(v)
        BY <3>5 DEF FifoOK
      <3>9. SumOfRemaining(heap, f) = v
        BY <2>2, <3>6, <3>7, <3>8, SumRead
      <3>10. /\ heap.levels[lvl].back = Last(f) /\ heap.levels[lvl].order_count = Len(f)
        BY <3>5 DEF FifoOK, LastOf, Last
      <3>11. ASSUME NEW i \in 1 .. Len(f)
             PROVE  /\ heap.orders[f[i]].level = lvl /\ heap.orders[f[i]].side = side
                    /\ heap.orders[f[i]].price = heap.levels[lvl].price
                    /\ heap.orders[f[i]].prev = IF i = 1 THEN Nil ELSE f[i - 1]
        <4>1. Prevs(heap)[f[i]] = Before(f, i)
          BY <3>5 DEF FifoOK, DList
        <4>2. Prevs(heap)[f[i]] = heap.orders[f[i]].prev
          BY <3>7 DEF Prevs
        <4> QED
          BY <3>5, <4>1, <4>2 DEF FifoOK, Before, Nil
      <3>12. Holds(side, lvl, f)
        BY <3>5, <3>6, <3>8, <3>9, <3>10, <3>11
      <3> QED
        BY <3>4, <3>12 DEF f
    <2> QED
      BY <2>3 DEF FifoIntact
  <1> QED
    BY <1>1, Invariance, PTL

\* In every reachable state the level list of a side is doubly linked, runs strictly from
\* best to worst and holds the levels its price map holds (book.hpp:82-101, 136-145).
THEOREM LaddersStayIntact == Spec => []LadderIntact
  <1>1. IInv => LadderIntact
    <2> SUFFICES ASSUME IInv PROVE LadderIntact
      OBVIOUS
    <2>1. PICK s, q : Engine(heap, s, q)
      BY DEF IInv, EngineOK
    <2>2. heap \in Heap /\ LaddersOK(heap, s)
      BY <2>1 DEF Engine, Book, LaddersOK
    <2> DEFINE Holds(side, ladder) ==
                 /\ \A i \in DOMAIN ladder :
                       LET l == heap.levels[ladder[i]] IN
                       /\ l.better = IF i = 1 THEN Nil ELSE ladder[i - 1]
                       /\ i > 1 => Better(side, heap.levels[ladder[i - 1]].price, l.price)
                       /\ heap.byPrice[side][l.price] = ladder[i]
                 /\ \A p \in Price : heap.byPrice[side][p] # Nil =>
                       heap.byPrice[side][p] \in ToSet(ladder)
    <2>3. ASSUME NEW side \in Side PROVE Holds(side, Ladder(heap, side))
      <3> DEFINE r == s[side]
      <3>1. r \in Seq(Nat) /\ Ladder(heap, side) = r /\ LadderOK(heap, side, r)
        BY <2>2, LadderRead DEF LaddersOK
      <3>2. \A i \in 1 .. Len(r) : r[i] \in 1 .. Len(heap.levels)
        BY <2>2, LadderNodes
      <3> HIDE DEF r
      <3>3. DOMAIN r = 1 .. Len(r) /\ Len(r) \in Nat /\ ToSet(r) = Elems(r)
        BY <3>1, ElemsOf
      <3>4. ASSUME NEW i \in 1 .. Len(r)
            PROVE  /\ heap.levels[r[i]].better = IF i = 1 THEN Nil ELSE r[i - 1]
                   /\ i > 1 => Better(side, heap.levels[r[i - 1]].price, heap.levels[r[i]].price)
                   /\ heap.byPrice[side][heap.levels[r[i]].price] = r[i]
        <4>1. Betters(heap)[r[i]] = Before(r, i)
          BY <3>1 DEF LadderOK, DList
        <4>2. Betters(heap)[r[i]] = heap.levels[r[i]].better
          BY <3>2 DEF Betters
        <4>3. i > 1 => i - 1 \in 1 .. Len(r) /\ i - 1 < i
          BY <3>3
        <4>4. i > 1 => Better(side, heap.levels[r[i - 1]].price, heap.levels[r[i]].price)
          BY <3>1, <4>3 DEF LadderOK
        <4>5. heap.byPrice[side][heap.levels[r[i]].price] = r[i]
          BY <3>1 DEF LadderOK
        <4> QED
          BY <4>1, <4>2, <4>4, <4>5 DEF Before, Nil
      <3>5. \A p \in Price : heap.byPrice[side][p] # Nil => heap.byPrice[side][p] \in Elems(r)
        BY <3>1 DEF LadderOK, Elems
      <3>6. Holds(side, r)
        BY <3>3, <3>4, <3>5
      <3> QED
        BY <3>1, <3>6
    <2> QED
      BY <2>3 DEF LadderIntact
  <1> QED
    BY <1>1, Invariance, PTL

\* In every reachable state each node is free, once, or linked in the book, and each linked
\* order is the one its id finds (pool.hpp:40-55, engine.hpp:210-215).
THEOREM NothingLeaks == Spec => []NoLeak
  <1>1. IInv => NoLeak
    <2> SUFFICES ASSUME IInv PROVE NoLeak
      OBVIOUS
    <2>1. PICK s, q : Engine(heap, s, q)
      BY DEF IInv, EngineOK
    <2>2. /\ heap \in Heap /\ LaddersOK(heap, s) /\ QueuesOK(heap, s, q, {})
          /\ Book(heap, s, q, {}) /\ IdsOK(heap, Queued(s, q))
      BY <2>1 DEF Engine, Book, LaddersOK
    <2> DEFINE linked(lvl) == ToSet(Fifo(heap, heap.levels[lvl].front))
               levels == ToSet(Ladder(heap, "Bid")) \cup ToSet(Ladder(heap, "Ask"))
               orders == UNION {linked(lvl) : lvl \in levels}
    <2>3. levels = Standing(s)
      <3>1. ASSUME NEW side \in Side PROVE ToSet(Ladder(heap, side)) = Elems(s[side])
        <4>1. s[side] \in Seq(Nat) /\ Ladder(heap, side) = s[side]
          BY <2>2, LadderRead DEF LaddersOK
        <4> QED
          BY <4>1, ElemsOf
      <3>2. ToSet(Ladder(heap, "Bid")) = Elems(s["Bid"]) /\ ToSet(Ladder(heap, "Ask")) = Elems(s["Ask"])
        BY <3>1 DEF Side
      <3> QED
        BY <3>2 DEF Standing, Side
    <2>4. \A lvl \in Standing(s) : linked(lvl) = Elems(q[lvl])
      <3> SUFFICES ASSUME NEW lvl \in Standing(s) PROVE linked(lvl) = Elems(q[lvl])
        OBVIOUS
      <3>1. lvl \in Nat
        BY <2>2, StandingLevels
      <3>2. q[lvl] \in Seq(Nat) /\ Fifo(heap, heap.levels[lvl].front) = q[lvl]
        BY <2>2, <3>1, FifoRead DEF QueuesOK
      <3> QED
        BY <3>2, ElemsOf
    <2>5. orders = Queued(s, q)
      <3> HIDE DEF linked, levels
      <3>1. \A lvl \in levels : linked(lvl) = Elems(q[lvl])
        BY <2>3, <2>4
      <3>2. {linked(lvl) : lvl \in levels} = {Elems(q[lvl]) : lvl \in Standing(s)}
        BY <2>3, <3>1
      <3> QED
        BY <3>2 DEF Queued
    <2> HIDE DEF orders, levels
    <2>6. InUse(heap.levelPool) = levels /\ InUse(heap.orderPool) = orders
      BY <2>2, <2>3, <2>5 DEF LaddersOK, QueuesOK
    <2>7. orders = {heap.ordersById[id] : id \in OrderId} \ {Nil}
      <3> DEFINE U == Queued(s, q)
      <3>1. U \subseteq 1 .. Len(heap.orders) /\ Len(heap.orders) \in Nat
        BY <2>2, HeapFields DEF IdsOK
      <3>2. \A n \in U : n # Nil /\ \E id \in OrderId : heap.ordersById[id] = n
        BY <2>2, <3>1 DEF IdsOK, Nil
      <3>3. \A id \in OrderId : heap.ordersById[id] # Nil => heap.ordersById[id] \in U
        BY <2>2 DEF IdsOK
      <3> HIDE DEF U
      <3>4. U = {heap.ordersById[id] : id \in OrderId} \ {Nil}
        BY <3>2, <3>3
      <3> QED
        BY <2>5, <3>4 DEF U
    <2>8. \A id \in OrderId : Find(id) # Nil => heap.orders[Find(id)].id = id
      BY <2>2 DEF IdsOK, Find
    <2>9. ASSUME NEW pool, PoolOK(pool)
          PROVE  IsInjective(pool.free) /\ pool.live + Len(pool.free) = pool.capacity
      <3>1. DOMAIN pool.free = 1 .. Len(pool.free)
        BY <2>9 DEF PoolOK, FreeList
      <3> QED
        BY <2>9, <3>1 DEF PoolOK, FreeList, IsInjective
    <2>10. PoolOK(heap.levelPool) /\ PoolOK(heap.orderPool)
      BY <2>2 DEF LaddersOK, QueuesOK
    <2> QED
      BY <2>6, <2>7, <2>8, <2>9, <2>10 DEF NoLeak, orders, levels
  <1> QED
    BY <1>1, Invariance, PTL

\* Whenever match_incoming follows a pointer it kept over a removal or a callback, that
\* pointer is live: the front of the best level (engine.hpp:156-193).
THEOREM PointersStayLive == Spec => []NoUseAfterFree
  <1>1. IInv => NoUseAfterFree
    <2> SUFFICES ASSUME IInv PROVE NoUseAfterFree
      OBVIOUS
    <2>1. PICK s, q : Engine(heap, s, q)
      BY DEF IInv, EngineOK
    <2>2. ASSUME AtMaker \/ pc = "filled"
          PROVE  /\ cursor.lvl = BestLevel /\ cursor.lvl \in InUse(heap.levelPool)
                 /\ cursor.maker \in InUse(heap.orderPool)
                 /\ heap.levels[cursor.lvl].front = cursor.maker
                 /\ heap.levels[cursor.lvl].price = cursor.price
      <3>1. AtFront(heap, Facing, cursor)
        BY <2>2 DEF IInv, CursorOK
      <3>2. Facing \in Side
        <4>1. taker \in Taker
          BY <2>2 DEF IInv, CallOK, AtMaker
        <4> QED
          BY <4>1, FacingSide DEF Facing
      <3>3. cursor.lvl \in InUse(heap.levelPool) /\ cursor.maker \in InUse(heap.orderPool)
        BY <2>1, <3>1, <3>2, FrontOrder
      <3> QED
        BY <3>1, <3>3 DEF AtFront, BestLevel
    <2>3. pc = "filled" => cursor.next = Maker.next
      BY DEF IInv, CursorOK
    <2> QED
      BY <2>2, <2>3 DEF NoUseAfterFree
  <1> QED
    BY <1>1, Invariance, PTL

-----------------------------------------------------------------------------
(* Every step is a step of the reference engine                            *)

\* An id is live in both engines or in neither.
LEMMA LiveRead ==
    ASSUME EngineOK, NEW id \in OrderId
    PROVE  LiveOf(heap)[id] = None <=> Find(id) = Nil
  <1>1. PICK s, q : Engine(heap, s, q)
    BY DEF EngineOK
  <1> DEFINE x == heap.ordersById[id]
  <1>2. CASE x = Nil
    BY <1>2 DEF LiveOf, Find
  <1>3. CASE x # Nil
    <2>1. x \in Queued(s, q)
      BY <1>1, <1>3 DEF Engine, IdsOK
    <2>2. LiveOf(heap)[id] = [side |-> heap.orders[x].side, price |-> heap.orders[x].price]
      BY <1>3 DEF LiveOf
    <2> HIDE DEF x
    <2>3. heap.orders[x].side \in Side /\ heap.orders[x].price \in Price
      BY <1>1, <2>1, OrderWaits
    <2>4. LiveOf(heap)[id] # None
      BY <2>2, <2>3, NoneAssumption
    <2> QED
      BY <1>3, <2>4 DEF x, Find
  <1> QED
    BY <1>2, <1>3

\* The order an id finds, in both engines, before and after it goes.
FoundAt(id, i) ==
    LET x    == Find(id)
        side == heap.orders[x].side
        p    == heap.orders[x].price
    IN  /\ x \in InUse(heap.orderPool) /\ heap.orders[x].id = id
        /\ side \in Side /\ p \in Price
        /\ LiveOf(heap)[id] # None /\ LiveOf(heap)[id].side = side /\ LiveOf(heap)[id].price = p
        /\ StandsAt(heap, x, side, p, i)
        /\ Unrested(heap, RemoveResting(heap, x), side, p, i)

LEMMA FoundRead ==
    ASSUME EngineOK, NEW id \in OrderId, Find(id) # Nil
    PROVE  \E i : FoundAt(id, i)
  <1>1. PICK s, q : Engine(heap, s, q)
    BY DEF EngineOK
  <1> DEFINE x == Find(id)
             side == heap.orders[x].side
             p == heap.orders[x].price
  <1>2. /\ x \in Queued(s, q) /\ x \in InUse(heap.orderPool) /\ heap.orders[x].id = id
    BY <1>1 DEF Engine, Book, QueuesOK, IdsOK, Find
  <1>3. LiveOf(heap)[id] # None
    BY LiveRead
  <1> HIDE DEF x
  <1>4. /\ side \in Side /\ p \in Price
        /\ LiveOf(heap)[heap.orders[x].id] = [side |-> side, price |-> p]
    BY <1>1, <1>2, OrderWaits
  <1>5. LiveOf(heap)[id].side = side /\ LiveOf(heap)[id].price = p
    BY <1>2, <1>4
  <1>6. PICK i : StandsAt(heap, x, side, p, i) /\ Unrested(heap, RemoveResting(heap, x), side, p, i)
    BY <1>1, <1>2, RemovedRead
  <1>7. FoundAt(id, i)
    BY <1>2, <1>3, <1>4, <1>5, <1>6 DEF FoundAt, x
  <1> QED
    BY <1>7

\* The calls of the reference engine on an order that stands in its book.
LEMMA CallMaps ==
    ASSUME NEW id \in OrderId, NEW i, LiveOf(heap)[id] # None,
           i \in DOMAIN BookOf(heap)[LiveOf(heap)[id].side][LiveOf(heap)[id].price],
           \/ Reference!Cancel(id, i)
           \/ \E price \in Price, qty \in Qty :
                 Reference!Reduce(id, i, price, qty) \/ Reference!Replace(id, i, price, qty)
    PROVE  Reference!Next
  <1>1. Reference!Enter
    BY Zenon DEF Reference!Enter
  <1> QED
    BY <1>1 DEF Reference!Next

\* The order an id finds rests in the reference engine's book.
LEMMA FoundRests ==
    ASSUME NEW id \in OrderId, NEW i, FoundAt(id, i),
           NEW side, side = LiveOf(heap)[id].side, NEW p, p = LiveOf(heap)[id].price
    PROVE  /\ Reference!RestsAt(id, i)
           /\ LiveOf(heap)[id] # None
           /\ i \in DOMAIN BookOf(heap)[LiveOf(heap)[id].side][LiveOf(heap)[id].price]
           /\ BookOf(heap)[side][p][i] = AsOrder(heap, Find(id))
           /\ side = heap.orders[Find(id)].side /\ p = heap.orders[Find(id)].price
           /\ StandsAt(heap, Find(id), side, p, i)
           /\ Unrested(heap, RemoveResting(heap, Find(id)), side, p, i)
  <1> DEFINE x == Find(id)
  <1>1. /\ LiveOf(heap)[id] # None /\ heap.orders[x].id = id
        /\ side = heap.orders[x].side /\ p = heap.orders[x].price
        /\ StandsAt(heap, x, side, p, i) /\ Unrested(heap, RemoveResting(heap, x), side, p, i)
    BY DEF FoundAt
  <1> HIDE DEF x
  <1>2. /\ i \in DOMAIN BookOf(heap)[side][p] /\ BookOf(heap)[side][p][i] = AsOrder(heap, x)
        /\ BookOf(heap)[side][p][i].id = id
    BY <1>1 DEF StandsAt, AsOrder
  <1>3. Reference!RestsAt(id, i)
    BY <1>1, <1>2 DEF Reference!RestsAt
  <1> QED
    BY <1>1, <1>2, <1>3 DEF x

\* An order that leaves one book leaves the other.
LEMMA UnrestMaps ==
    ASSUME NEW side, NEW p, NEW i, Unrested(heap, heap', side, p, i)
    PROVE  Reference!Unrest(side, p, i)
  <1>1. /\ BookOf(heap') = [BookOf(heap) EXCEPT ![side][p] = RemoveAt(BookOf(heap)[side][p], i)]
        /\ LiveOf(heap') = [LiveOf(heap) EXCEPT ![BookOf(heap)[side][p][i].id] = None]
    BY DEF Unrested, BookIs
  <1> QED
    BY <1>1 DEF Reference!Unrest, RemoveAt, Reference!RemoveAt

\* A cancel of the engine is one of the reference engine.
LEMMA CancelMaps ==
    ASSUME IInv, NEW id \in OrderId, Cancel(id)
    PROVE  Reference!Next
  <1>1. /\ EngineOK /\ pc = "idle" /\ Find(id) # Nil /\ heap' = RemoveResting(heap, Find(id))
        /\ event' = Cancelled(id, "User") /\ UNCHANGED <<stp, pc, taker>>
    BY DEF IInv, Cancel
  <1>2. PICK i : FoundAt(id, i)
    BY <1>1, FoundRead
  <1> DEFINE side == LiveOf(heap)[id].side
             p == LiveOf(heap)[id].price
  <1>3. /\ Reference!RestsAt(id, i) /\ LiveOf(heap)[id] # None
        /\ i \in DOMAIN BookOf(heap)[LiveOf(heap)[id].side][LiveOf(heap)[id].price]
        /\ Unrested(heap, heap', side, p, i)
    BY <1>1, <1>2, FoundRests
  <1>4. Reference!Unrest(side, p, i)
    BY <1>3, UnrestMaps
  <1>5. Reference!Cancel(id, i)
    BY <1>1, <1>3, <1>4 DEF Reference!Cancel, Reference!Cancelled, Cancelled
  <1> QED
    BY <1>3, <1>5, CallMaps

\* A replace of the engine is one of the reference engine.
LEMMA ReplaceMaps ==
    ASSUME IInv, NEW id \in OrderId, NEW price \in Price, NEW qty \in Qty, Replace(id, price, qty)
    PROVE  Reference!Next
  <1> DEFINE x == Find(id)
             o == heap.orders[x]
             side == LiveOf(heap)[id].side
             p == LiveOf(heap)[id].price
  <1>1. /\ EngineOK /\ pc = "idle" /\ x # Nil /\ qty # 0 /\ ~CanReduce(o, price, qty)
        /\ heap' = RemoveResting(heap, x)
        /\ StartMatch("modify", id, o.participant, o.side, price, qty)
        /\ event' = None /\ stp' = stp
    BY DEF IInv, Replace
  <1>2. PICK i : FoundAt(id, i)
    BY <1>1, FoundRead
  <1>3. /\ Reference!RestsAt(id, i) /\ LiveOf(heap)[id] # None
        /\ i \in DOMAIN BookOf(heap)[LiveOf(heap)[id].side][LiveOf(heap)[id].price]
        /\ BookOf(heap)[side][p][i] = AsOrder(heap, x) /\ side = o.side /\ p = o.price
        /\ Unrested(heap, heap', side, p, i)
    BY <1>1, <1>2, FoundRests
  <1>4. Reference!Unrest(side, p, i)
    BY <1>3, UnrestMaps
  <1>5. ~Reference!CanReduce(BookOf(heap)[side][p][i], LiveOf(heap)[id], price, qty)
    BY <1>1, <1>3 DEF Reference!CanReduce, CanReduce, AsOrder
  <1>6. Reference!StartMatch("modify", id, BookOf(heap)[side][p][i].participant, side, price, qty)
    <2>1. BookOf(heap)[side][p][i].participant = o.participant
      BY <1>3 DEF AsOrder
    <2>2. /\ pc' = "outer"
          /\ taker' = [kind |-> "modify", id |-> id, participant |-> o.participant, side |-> o.side,
                       price |-> price, remaining |-> qty]
      BY <1>1 DEF StartMatch
    <2> HIDE DEF o, side, p
    <2> QED
      BY <1>3, <2>1, <2>2 DEF Reference!StartMatch
  <1>7. Reference!Replace(id, i, price, qty)
    BY <1>1, <1>3, <1>4, <1>5, <1>6 DEF Reference!Replace
  <1> QED
    BY <1>3, <1>7, CallMaps

\* A reduction of the engine is one of the reference engine.
LEMMA ReduceMaps ==
    ASSUME IInv, NEW id \in OrderId, NEW price \in Price, NEW qty \in Qty, Reduce(id, price, qty)
    PROVE  Reference!Next
  <1> DEFINE x == Find(id)
             o == heap.orders[x]
             side == LiveOf(heap)[id].side
             p == LiveOf(heap)[id].price
  <1>1. /\ EngineOK /\ pc = "idle" /\ x # Nil /\ qty # 0 /\ CanReduce(o, price, qty)
        /\ event' = None /\ UNCHANGED <<stp, pc, taker>>
    BY DEF IInv, Reduce
  <1>2. PICK i : FoundAt(id, i)
    BY <1>1, FoundRead
  <1>3. /\ Reference!RestsAt(id, i) /\ LiveOf(heap)[id] # None
        /\ i \in DOMAIN BookOf(heap)[LiveOf(heap)[id].side][LiveOf(heap)[id].price]
        /\ BookOf(heap)[side][p][i] = AsOrder(heap, x) /\ side = o.side /\ p = o.price
        /\ StandsAt(heap, x, side, p, i)
    BY <1>2, FoundRests
  <1>4. PICK s, q, l, total : /\ Engine(heap, s, q) /\ Engine(heap', s, q) /\ x \in Queued(s, q)
                              /\ Requantified(heap, heap', x, l, qty, total)
    BY ReduceRefills DEF Refilled
  <1> HIDE DEF x
  <1>5. Resized(heap, heap', side, p, i, qty)
    BY <1>3, <1>4, ResizedRead
  <1>6. /\ BookOf(heap') = [BookOf(heap) EXCEPT ![side][p][i].remaining = qty]
        /\ LiveOf(heap') = LiveOf(heap)
    <2> DEFINE B == BookOf(heap)
    <2>1. [B EXCEPT ![side][p] = [B[side][p] EXCEPT ![i].remaining = qty]] =
             [B EXCEPT ![side][p][i].remaining = qty]
      OBVIOUS
    <2> QED
      BY <1>5, <2>1 DEF Resized, BookIs
  <1>7. Reference!CanReduce(BookOf(heap)[side][p][i], LiveOf(heap)[id], price, qty)
    BY <1>1, <1>3 DEF Reference!CanReduce, CanReduce, AsOrder
  <1>8. Reference!Reduce(id, i, price, qty)
    BY <1>1, <1>3, <1>6, <1>7, Zenon DEF Reference!Reduce
  <1> QED
    BY <1>3, <1>8, CallMaps

\* What is unknown to one engine is unknown to the other.
LEMMA UnknownMaps ==
    ASSUME IInv, NEW id \in OrderId, RejectUnknown(id)
    PROVE  Reference!Next
  <1>1. LiveOf(heap)[id] = None
    BY LiveRead DEF IInv, RejectUnknown
  <1>2. Reference!RejectUnknown(id)
    BY <1>1 DEF Reference!RejectUnknown, RejectUnknown, Reference!Rejected, Rejected
  <1> QED
    BY <1>2 DEF Reference!Next, Reference!Enter

\* What a call is refused or accepted for, the reference engine refuses or accepts it for.
LEMMA EntryMaps ==
    ASSUME IInv, NEW id \in OrderId, NEW qty \in Qty
    PROVE  /\ RejectNew(id, qty) => Reference!Next
           /\ \A participant \in Participant, side \in Side :
                 /\ AddMarket(id, participant, side, qty) => Reference!Next
                 /\ \A price \in Price, tif \in Tif :
                       AddLimit(id, participant, side, price, qty, tif) => Reference!Next
  <1>1. LiveOf(heap)[id] = None <=> Find(id) = Nil
    BY LiveRead DEF IInv
  <1>2. Reference!ValidNew(id, qty) <=> ValidNew(id, qty)
    BY <1>1 DEF Reference!ValidNew, ValidNew
  <1>3. ASSUME RejectNew(id, qty) PROVE Reference!Next
    <2>1. Reference!RejectNew(id, qty)
      BY <1>2, <1>3 DEF Reference!RejectNew, RejectNew, Reference!Rejected, Rejected
    <2> QED
      BY <2>1 DEF Reference!Next, Reference!Enter
  <1>5. ASSUME NEW participant \in Participant, NEW side \in Side,
               AddMarket(id, participant, side, qty)
        PROVE  Reference!Next
    <2>1. Reference!AddMarket(id, participant, side, qty)
      BY <1>2, <1>5 DEF Reference!AddMarket, AddMarket, Reference!Accepted, Accepted,
                        Reference!StartMatch, StartMatch
    <2> QED
      BY <2>1 DEF Reference!Next, Reference!Enter, Reference!Side, Side
  <1>6. ASSUME NEW participant \in Participant, NEW side \in Side, NEW price \in Price,
               NEW tif \in Tif, AddLimit(id, participant, side, price, qty, tif)
        PROVE  Reference!Next
    <2>1. Reference!AddLimit(id, participant, side, price, qty, tif)
      BY <1>2, <1>6 DEF Reference!AddLimit, AddLimit, Reference!Accepted, Accepted,
                        Reference!StartMatch, StartMatch
    <2> QED
      BY <2>1 DEF Reference!Next, Reference!Enter, Reference!Side, Side, Reference!Tif, Tif
  <1> QED
    BY <1>3, <1>5, <1>6

-----------------------------------------------------------------------------
(* In the matching loops                                                   *)

\* The level in hand is within the taker's reach.
CrossOK == pc \in {"inner", "filled"} => Crosses(taker, cursor.price)
\* Only a maker that has just been filled has nothing left.
Spent(id) == Find(id) # Nil /\ heap.orders[Find(id)].remaining = 0
SpentOK == \A id \in OrderId : Spent(id) => pc = "filled" /\ Find(id) = cursor.maker

LoopOK == CrossOK /\ SpentOK

\* No order on the book is empty.
NoneSpent == \A id \in OrderId : ~Spent(id)

LEMMA NoneSpentHere ==
    ASSUME SpentOK, pc # "filled"
    PROVE  NoneSpent
  BY DEF SpentOK, NoneSpent

LEMMA NoneSpentOK ==
    ASSUME NoneSpent'
    PROVE  SpentOK'
  BY DEF SpentOK, NoneSpent

\* Every order found stands in the order memory.
LEMMA FoundNode ==
    ASSUME EngineOK, NEW id \in OrderId, Find(id) # Nil
    PROVE  Find(id) \in 1 .. Len(heap.orders)
  <1>1. PICK s, q : Engine(heap, s, q)
    BY DEF EngineOK
  <1> QED
    BY <1>1 DEF Engine, IdsOK, Find

\* An order that is still found after a removal is as it was.
LEMMA StillFound ==
    ASSUME EngineOK, NEW x \in InUse(heap.orderPool), heap' = RemoveResting(heap, x),
           NEW id \in OrderId, Find(id)' # Nil
    PROVE  /\ Find(id)' = Find(id) /\ Find(id) # Nil /\ Find(id) # x
           /\ Spent(id)' => Spent(id)
  <1>1. /\ Gone(heap, heap', x) /\ heap.orders[x].id \in OrderId
        /\ heap.ordersById \in [OrderId -> Nat]
        /\ heap'.ordersById = [heap.ordersById EXCEPT ![heap.orders[x].id] = Nil]
    BY RemovalOK
  <1>2. id # heap.orders[x].id
    BY <1>1 DEF Find
  <1>3. Find(id)' = Find(id) /\ Find(id) # Nil
    BY <1>1, <1>2 DEF Find
  <1>4. heap.orders[Find(id)].id = id /\ Find(id) \in 1 .. Len(heap.orders)
    BY <1>3, FoundOrder, FoundNode
  <1>5. Find(id) # x
    BY <1>2, <1>4
  <1>6. heap'.orders[Find(id)].remaining = heap.orders[Find(id)].remaining
    BY <1>1, <1>4, <1>5 DEF Gone, SameOrder
  <1> QED
    BY <1>3, <1>5, <1>6 DEF Spent

\* A removal empties no order.
LEMMA SpentAfterRemoval ==
    ASSUME EngineOK, NEW x \in InUse(heap.orderPool), heap' = RemoveResting(heap, x),
           \A id \in OrderId : Spent(id) => Find(id) = x
    PROVE  SpentOK'
  <1>1. ASSUME NEW id \in OrderId, Spent(id)' PROVE FALSE
    <2>1. Find(id)' # Nil
      BY <1>1 DEF Spent
    <2> QED
      BY <1>1, <2>1, StillFound
  <1>2. NoneSpent'
    BY <1>1 DEF NoneSpent
  <1> QED
    BY <1>2, NoneSpentOK

\* A step outside the loops that leaves the orders alone.
LEMMA SpentUntouched ==
    ASSUME SpentOK, pc # "filled", UNCHANGED heap
    PROVE  SpentOK'
  <1>1. NoneSpent
    BY NoneSpentHere
  <1>2. NoneSpent'
    BY <1>1 DEF NoneSpent, Spent, Find
  <1> QED
    BY <1>2, NoneSpentOK

\* Changing the quantity of one order.
LEMMA SpentAfterRefill ==
    ASSUME EngineOK, NoneSpent, NEW x, NEW qty, Refilled(x, qty), NEW id \in OrderId, Spent(id)'
    PROVE  Find(id)' = x /\ qty = 0
  <1>1. PICK s, q, l, total : /\ Engine(heap, s, q) /\ Engine(heap', s, q) /\ x \in Queued(s, q)
                              /\ Requantified(heap, heap', x, l, qty, total)
    BY DEF Refilled
  <1>2. heap'.ordersById = heap.ordersById
    BY <1>1 DEF Requantified, SameFrame
  <1>3. Find(id)' = Find(id) /\ Find(id) # Nil
    BY <1>2 DEF Spent, Find
  <1>4. Find(id) \in 1 .. Len(heap.orders)
    BY <1>3, FoundNode
  <1>5. heap'.orders[Find(id)].remaining =
           IF Find(id) = x THEN qty ELSE heap.orders[Find(id)].remaining
    BY <1>1, <1>4 DEF Requantified
  <1>6. heap.orders[Find(id)].remaining # 0
    BY <1>3 DEF NoneSpent, Spent
  <1> QED
    BY <1>3, <1>5, <1>6 DEF Spent

\* The maker in hand is found by its id.
LEMMA MakerInUse ==
    ASSUME IInv, AtMaker \/ pc = "filled"
    PROVE  /\ cursor.maker \in InUse(heap.orderPool) /\ EngineOK /\ Facing \in Side
           /\ taker \in Taker /\ AtFront(heap, Facing, cursor)
           /\ Maker.id \in OrderId /\ Find(Maker.id) = cursor.maker /\ cursor.maker # Nil
  <1>1. /\ EngineOK /\ AtFront(heap, Facing, cursor) /\ taker \in Taker
    BY DEF IInv, CursorOK, CallOK, AtMaker
  <1>2. Facing \in Side
    BY <1>1, FacingSide DEF Facing
  <1>3. PICK s, q : Engine(heap, s, q)
    BY <1>1 DEF EngineOK
  <1>4. cursor.maker \in Queued(s, q) /\ cursor.maker \in InUse(heap.orderPool)
    BY <1>1, <1>2, <1>3, FrontOrder
  <1>5. /\ Maker.id \in OrderId /\ heap.ordersById[Maker.id] = cursor.maker
        /\ cursor.maker \in 1 .. Len(heap.orders)
    BY <1>3, <1>4 DEF Engine, IdsOK, Maker
  <1> QED
    BY <1>1, <1>2, <1>4, <1>5 DEF Find, Nil

\* A fill empties the maker only if it fills it.
LEMMA SpentTrade ==
    ASSUME IInv, SpentOK, Trade
    PROVE  SpentOK'
  <1>1. /\ AtMaker /\ pc = "inner" /\ pc' = IF Maker.remaining = Fill THEN "filled" ELSE "inner"
        /\ cursor' = IF Maker.remaining = Fill THEN [cursor EXCEPT !.next = Maker.next]
                                               ELSE [cursor EXCEPT !.maker = Maker.next]
    BY DEF Trade, AtMaker, Fill
  <1>2. NoneSpent
    BY <1>1, NoneSpentHere
  <1>3. /\ Refilled(cursor.maker, Maker.remaining - Fill)
        /\ Maker.remaining \in Int /\ Fill \in Int
    <2>1. Maker.remaining \in 0 .. (QtyMod - 1) /\ QtyMod \in Nat
      BY TradeRefills, QtyAssumption
    <2> QED
      BY <2>1, TradeRefills
  <1>4. ASSUME NEW id \in OrderId, Spent(id)'
        PROVE  Find(id)' = cursor.maker /\ Maker.remaining - Fill = 0
    <2>1. EngineOK
      BY DEF IInv
    <2> QED
      BY <1>2, <1>3, <1>4, <2>1, SpentAfterRefill
  <1>5. ASSUME NEW id \in OrderId, Spent(id)' PROVE pc' = "filled" /\ Find(id)' = cursor'.maker
    <2>1. Maker.remaining = Fill /\ Find(id)' = cursor.maker
      BY <1>3, <1>4, <1>5
    <2>2. cursor' = [cursor EXCEPT !.next = Maker.next] /\ pc' = "filled"
      BY <1>1, <2>1
    <2>3. cursor'.maker = cursor.maker
      BY <2>2 DEF IInv, CursorOK
    <2> QED
      BY <2>1, <2>2, <2>3
  <1> QED
    BY <1>5 DEF SpentOK

\* What rests has something left.
LEMMA SpentRest ==
    ASSUME IInv, SpentOK, Rest
    PROVE  SpentOK'
  <1>1. /\ pc = "outer" /\ heap' = RestOrder(heap, taker) /\ taker.remaining > 0
        /\ taker.kind \in {"GTC", "modify"} /\ EngineOK /\ CallOK
    BY DEF Rest, LoopEnds, IInv
  <1>2. taker \in Taker /\ heap.ordersById[taker.id] = Nil /\ taker.price \in Price
    BY <1>1 DEF CallOK, Find
  <1>3. NoneSpent
    BY <1>1, NoneSpentHere
  <1>4. PICK s, q : Engine(heap, s, q)
    BY <1>1 DEF EngineOK
  <1>5. \E s2, q2, x : EngineWith(heap, q, taker, x, RestOrder(heap, taker), s2, q2)
    BY <1>2, <1>4, OrderRests
  <1>6. PICK s2, q2, x : EngineWith(heap, q, taker, x, heap', s2, q2)
    BY <1>1, <1>5
  <1>7. /\ heap'.ordersById = [heap.ordersById EXCEPT ![taker.id] = x]
        /\ SameOrder(heap'.orders[x], FilledIn(taker)) /\ Engine(heap', s2, q2)
        /\ \A n \in 1 .. Len(heap.orders) : n # x => SameOrder(heap'.orders[n], heap.orders[n])
    BY <1>6 DEF EngineWith
  <1>8. taker.id \in OrderId /\ heap.ordersById \in [OrderId -> Nat] /\ taker.remaining # 0
    <2>1. heap \in Heap /\ taker.remaining \in Int
      BY <1>2, <1>4, QtyAssumption DEF Engine, Book, LaddersOK, Taker
    <2> QED
      BY <1>1, <1>2, <2>1, HeapFields DEF Taker
  <1>9. heap'.orders[x].remaining # 0
    BY <1>2, <1>7, <1>8, FilledInTyped DEF SameOrder
  <1>10. ASSUME NEW id \in OrderId, Spent(id)' PROVE FALSE
    <2>1. Find(id)' = IF id = taker.id THEN x ELSE Find(id)
      BY <1>7, <1>8 DEF Find
    <2>2. CASE Find(id)' = x
      BY <1>9, <1>10, <2>2 DEF Spent
    <2>3. CASE Find(id)' # x
      <3>1. Find(id)' = Find(id) /\ Find(id) # Nil
        BY <1>10, <2>1, <2>3 DEF Spent
      <3>2. Find(id) \in 1 .. Len(heap.orders)
        BY <1>1, <3>1, FoundNode
      <3>3. heap'.orders[Find(id)].remaining = heap.orders[Find(id)].remaining
        BY <1>7, <2>3, <3>1, <3>2 DEF SameOrder
      <3> QED
        BY <1>3, <1>10, <3>1, <3>3 DEF Spent, NoneSpent
    <2> QED
      BY <2>2, <2>3
  <1>11. NoneSpent'
    BY <1>10 DEF NoneSpent
  <1> QED
    BY <1>11, NoneSpentOK

\* A call that removes an order empties none.
LEMMA SpentCancel ==
    ASSUME IInv, SpentOK, NEW id \in OrderId, pc = "idle", Find(id) # Nil,
           heap' = RemoveResting(heap, Find(id))
    PROVE  SpentOK'
  <1> DEFINE x == Find(id)
  <1>1. EngineOK /\ heap' = RemoveResting(heap, x)
    BY DEF IInv
  <1>2. x \in InUse(heap.orderPool)
    BY <1>1, FoundOrder
  <1>3. \A k \in OrderId : Spent(k) => Find(k) = x
    BY NoneSpentHere DEF NoneSpent
  <1> HIDE DEF x
  <1> QED
    BY <1>1, <1>2, <1>3, SpentAfterRemoval

\* Nor does a reduction, which is never one to zero.
LEMMA SpentReduce ==
    ASSUME IInv, SpentOK, NEW id \in OrderId, NEW price \in Price, NEW qty \in Qty,
           Reduce(id, price, qty)
    PROVE  SpentOK'
  <1> DEFINE x == Find(id)
  <1>1. EngineOK /\ pc = "idle" /\ qty # 0
    BY DEF IInv, Reduce
  <1>2. NoneSpent
    BY <1>1, NoneSpentHere
  <1>3. Refilled(x, qty)
    BY ReduceRefills
  <1> HIDE DEF x
  <1>4. \A k \in OrderId : ~Spent(k)'
    BY <1>1, <1>2, <1>3, SpentAfterRefill
  <1>5. NoneSpent'
    BY <1>4 DEF NoneSpent
  <1> QED
    BY <1>5, NoneSpentOK

\* A maker that leaves takes with it the one order that may be empty.
LEMMA SpentMakerLeaves ==
    ASSUME IInv, SpentOK, AtMaker \/ pc = "filled", heap' = RemoveResting(heap, cursor.maker)
    PROVE  SpentOK'
  <1> DEFINE x == cursor.maker
  <1>1. EngineOK /\ x \in InUse(heap.orderPool)
    BY MakerInUse
  <1>2. heap' = RemoveResting(heap, x) /\ \A k \in OrderId : Spent(k) => Find(k) = x
    BY DEF SpentOK
  <1> HIDE DEF x
  <1> QED
    BY <1>1, <1>2, SpentAfterRemoval

\* An empty order is found only between its fill and its removal.
LEMMA SpentStep ==
    ASSUME IInv, SpentOK, [Next]_vars
    PROVE  SpentOK'
  <1>1. ASSUME pc # "filled", UNCHANGED heap PROVE SpentOK'
    BY <1>1, SpentUntouched
  <1>2. CASE Enter
    <2>1. ASSUME NEW id \in OrderId, NEW qty \in Qty, RejectNew(id, qty)
          PROVE  pc # "filled" /\ UNCHANGED heap
      BY <2>1 DEF RejectNew
    <2>2. ASSUME NEW id \in OrderId, RejectUnknown(id) PROVE pc # "filled" /\ UNCHANGED heap
      BY <2>2 DEF RejectUnknown
    <2>3. ASSUME NEW id \in OrderId, Cancel(id) PROVE SpentOK'
      BY <2>3, SpentCancel DEF Cancel
    <2>4. ASSUME NEW id \in OrderId, NEW participant \in Participant, NEW side \in Side,
                 NEW qty \in Qty,
                 \/ \E price \in Price, tif \in Tif :
                       AddLimit(id, participant, side, price, qty, tif)
                 \/ AddMarket(id, participant, side, qty)
          PROVE  pc # "filled" /\ UNCHANGED heap
      BY <2>4 DEF AddLimit, AddMarket
    <2>5. ASSUME NEW id \in OrderId, NEW price \in Price, NEW qty \in Qty, Reduce(id, price, qty)
          PROVE  SpentOK'
      BY <2>5, SpentReduce
    <2>6. ASSUME NEW id \in OrderId, NEW price \in Price, NEW qty \in Qty, Replace(id, price, qty)
          PROVE  SpentOK'
      BY <2>6, SpentCancel DEF Replace
    <2> QED
      BY <1>1, <1>2, <2>1, <2>2, <2>3, <2>4, <2>5, <2>6 DEF Enter
  <1>3. ASSUME \/ EnterLevel \/ LeaveLevel \/ StpCancelIncoming \/ FullyMatched \/ DropRemainder
        PROVE  pc # "filled" /\ UNCHANGED heap
    BY <1>3 DEF EnterLevel, LeaveLevel, StpCancelIncoming, AtMaker, FullyMatched, DropRemainder, LoopEnds
  <1>4. CASE StpCancelResting \/ RemoveFilled
    BY <1>4, SpentMakerLeaves DEF StpCancelResting, RemoveFilled
  <1>5. CASE UNCHANGED vars
    BY <1>5 DEF vars, SpentOK, Spent, Find
  <1> QED
    BY <1>1, <1>2, <1>3, <1>4, <1>5, SpentTrade, SpentRest DEF Next, Continue

\* The level in hand stays within reach while the loop is on it.
LEMMA CrossStep ==
    ASSUME IInv, CrossOK, [Next]_vars
    PROVE  CrossOK'
  <1>1. ASSUME pc' \in {"idle", "outer"} PROVE CrossOK'
    BY <1>1 DEF CrossOK
  <1>2. CASE Enter
    <2>1. pc' \in {"idle", "outer"}
      BY <1>2 DEF Enter, RejectNew, RejectUnknown, Cancel, Reduce, Replace, AddLimit, AddMarket,
                  StartMatch
    <2> QED
      BY <1>1, <2>1
  <1>3. CASE LeaveLevel \/ StpCancelIncoming \/ FullyMatched \/ DropRemainder \/ Rest
    <2>1. pc' \in {"idle", "outer"}
      BY <1>3 DEF LeaveLevel, StpCancelIncoming, FullyMatched, DropRemainder, Rest, Return
    <2> QED
      BY <1>1, <2>1
  <1>4. CASE EnterLevel
    <2>1. Crosses(taker, heap.levels[BestLevel].price)
      BY <1>4 DEF EnterLevel, LoopEnds
    <2>2. cursor'.price = heap.levels[BestLevel].price /\ taker' = taker
      BY <1>4 DEF EnterLevel
    <2> QED
      BY <2>1, <2>2 DEF CrossOK, Crosses
  <1>5. CASE StpCancelResting \/ RemoveFilled
    <2>1. /\ pc \in {"inner", "filled"} /\ taker' = taker
          /\ \/ cursor' = [cursor EXCEPT !.maker = Maker.next]
             \/ cursor' = [cursor EXCEPT !.maker = cursor.next, !.next = Nil]
      BY <1>5 DEF StpCancelResting, AtMaker, RemoveFilled
    <2>2. cursor'.price = cursor.price
      BY <2>1 DEF IInv, CursorOK
    <2> QED
      BY <2>1, <2>2 DEF CrossOK, Crosses
  <1>6. CASE Trade
    <2>1. /\ pc = "inner" /\ taker' = [taker EXCEPT !.remaining = @ - Fill]
          /\ \/ cursor' = [cursor EXCEPT !.next = Maker.next]
             \/ cursor' = [cursor EXCEPT !.maker = Maker.next]
      BY <1>6 DEF Trade, AtMaker, Fill
    <2>2. cursor'.price = cursor.price
      BY <2>1 DEF IInv, CursorOK
    <2>3. taker'.kind = taker.kind /\ taker'.side = taker.side /\ taker'.price = taker.price
      BY <2>1 DEF IInv, CallOK, Taker
    <2> QED
      BY <2>1, <2>2, <2>3 DEF CrossOK, Crosses
  <1>7. CASE UNCHANGED vars
    BY <1>7 DEF vars, CrossOK, Crosses
  <1> QED
    BY <1>2, <1>3, <1>4, <1>5, <1>6, <1>7 DEF Next, Continue

LEMMA LoopStart == Init => LoopOK
  BY DEF Init, EmptyHeap, LoopOK, CrossOK, SpentOK, Spent, Find

LEMMA LoopStep == IInv /\ LoopOK /\ [Next]_vars => LoopOK'
  BY SpentStep, CrossStep DEF LoopOK

\* Both invariants hold in every reachable state.
LEMMA LoopInvariance == Spec => [](IInv /\ LoopOK)
  <1>1. Init => IInv /\ LoopOK
    BY InitOK, LoopStart
  <1>2. (IInv /\ LoopOK) /\ [Next]_vars => (IInv /\ LoopOK)'
    BY StepOK, LoopStep
  <1> QED
    BY <1>1, <1>2, PTL DEF Spec

-----------------------------------------------------------------------------
(* Every turn of the loops is a turn of the reference engine's, or none    *)

\* The turns of the reference engine's loop, and its ends.
LEMMA TurnMaps ==
    ASSUME NEW p \in Price,
           \/ Reference!StpCancelIncoming(p) \/ Reference!StpCancelResting(p)
           \/ Reference!Trade(p) \/ Reference!RemoveFilled(p)
    PROVE  Reference!Next
  <1>1. Reference!Continue
    BY Zenon DEF Reference!Continue
  <1> QED
    BY <1>1 DEF Reference!Next

LEMMA EndMaps ==
    ASSUME Reference!FullyMatched \/ Reference!DropRemainder \/ Reference!Rest
    PROVE  Reference!Next
  BY DEF Reference!Next, Reference!Continue

\* The reference engine's best price and oldest order are those in hand.
LEMMA MakerRead ==
    ASSUME IInv, AtMaker \/ pc = "filled"
    PROVE  /\ Facing \in Side /\ cursor.price \in Price /\ Reference!Facing = Facing
           /\ Reference!IsBest(Facing, cursor.price)
           /\ StandsAt(heap, cursor.maker, Facing, cursor.price, 1)
           /\ Reference!Oldest(cursor.price) = AsOrder(heap, cursor.maker)
           /\ heap.orders[cursor.maker].side = Facing
           /\ heap.orders[cursor.maker].price = cursor.price
           /\ heap.orders[cursor.maker].prev = Nil
  <1>1. EngineOK /\ Facing \in Side /\ AtFront(heap, Facing, cursor)
    BY MakerInUse
  <1>2. PICK s, q : Engine(heap, s, q)
    BY <1>1 DEF EngineOK
  <1>3. /\ BestAt(heap, Facing, cursor.price)
        /\ StandsAt(heap, cursor.maker, Facing, cursor.price, 1)
        /\ heap.orders[cursor.maker].side = Facing
        /\ heap.orders[cursor.maker].price = cursor.price
    BY <1>1, <1>2, FrontRead
  <1>4. heap.orders[cursor.maker].prev = Nil
    BY <1>1, <1>2, FrontOrder
  <1>5. Reference!Facing = Facing
    BY DEF Reference!Facing, Facing, Reference!Opposite, Opposite
  <1>6. cursor.price \in Price /\ Reference!IsBest(Facing, cursor.price)
    BY <1>3 DEF BestAt, Reference!IsBest, Reference!Levels, Reference!Better, Better
  <1>7. Reference!Oldest(cursor.price) = AsOrder(heap, cursor.maker)
    BY <1>3, <1>5 DEF StandsAt, Reference!Oldest
  <1> QED
    BY <1>1, <1>3, <1>4, <1>5, <1>6, <1>7

\* A maker in hand is a maker of the reference engine's loop.
LEMMA MatchingMaps ==
    ASSUME IInv, LoopOK, AtMaker
    PROVE  /\ Reference!Matching(cursor.price)
           /\ Reference!SelfTrade(Reference!Oldest(cursor.price)) <=> SelfTrade
           /\ Reference!Oldest(cursor.price).id = Maker.id
           /\ Reference!Oldest(cursor.price).remaining = Maker.remaining
  <1>1. /\ cursor.price \in Price /\ Reference!Facing = Facing
        /\ Reference!IsBest(Facing, cursor.price)
        /\ Reference!Oldest(cursor.price) = AsOrder(heap, cursor.maker)
    BY MakerRead
  <1>2. Crosses(taker, cursor.price) /\ pc = "inner" /\ taker.remaining > 0 /\ taker \in Taker
    BY DEF LoopOK, CrossOK, AtMaker, IInv, CallOK
  <1>3. Reference!Crosses(taker, cursor.price)
    <2>1. cursor.price \in Int /\ taker.price \in Int
      BY <1>1, <1>2, PriceAssumption DEF Taker
    <2> QED
      BY <1>2, <2>1 DEF Reference!Crosses, Crosses
  <1>4. Reference!Matching(cursor.price)
    BY <1>1, <1>2, <1>3 DEF Reference!Matching
  <1>5. /\ AsOrder(heap, cursor.maker).id = Maker.id
        /\ AsOrder(heap, cursor.maker).remaining = Maker.remaining
        /\ AsOrder(heap, cursor.maker).participant = Maker.participant
    BY DEF AsOrder, Maker
  <1>6. Reference!SelfTrade(Reference!Oldest(cursor.price)) <=> SelfTrade
    BY <1>1, <1>5 DEF Reference!SelfTrade, SelfTrade
  <1> QED
    BY <1>1, <1>4, <1>5, <1>6

\* The maker in hand leaves the reference engine's book with its node.
LEMMA MakerUnrests ==
    ASSUME IInv, AtMaker \/ pc = "filled", heap' = RemoveResting(heap, cursor.maker)
    PROVE  Reference!Unrest(Facing, cursor.price, 1)
  <1> DEFINE x == cursor.maker
             side == Facing
             p == cursor.price
  <1>1. /\ side \in Side /\ p \in Price /\ heap.orders[x].side = side /\ heap.orders[x].price = p
        /\ heap.orders[x].prev = Nil
    BY MakerRead
  <1>2. EngineOK /\ AtFront(heap, side, cursor)
    BY MakerInUse
  <1>3. PICK s, q : Engine(heap, s, q)
    BY <1>2 DEF EngineOK
  <1>4. x \in Queued(s, q)
    BY <1>1, <1>2, <1>3, FrontOrder
  <1>5. heap' = RemoveResting(heap, x)
    OBVIOUS
  <1> HIDE DEF x, side, p
  <1>6. PICK i : StandsAt(heap, x, side, p, i) /\ Unrested(heap, RemoveResting(heap, x), side, p, i)
    BY <1>1, <1>3, <1>4, RemovedRead
  <1>7. i = 1
    BY <1>1, <1>6 DEF StandsAt
  <1>8. Unrested(heap, heap', side, p, 1)
    BY <1>5, <1>6, <1>7
  <1>9. Reference!Unrest(side, p, 1)
    BY <1>8, UnrestMaps
  <1> QED
    BY <1>9 DEF side, p

\* Self-trade prevention against the incoming order.
LEMMA StpCancelIncomingMaps ==
    ASSUME IInv, LoopOK, StpCancelIncoming
    PROVE  Reference!Next
  <1> DEFINE p == cursor.price
  <1>1. /\ AtMaker /\ SelfTrade /\ stp = "CancelIncoming" /\ Return
        /\ event' = Cancelled(taker.id, "SelfTradePrevention") /\ UNCHANGED <<heap, stp>>
    BY DEF StpCancelIncoming
  <1>2. p \in Price
    BY <1>1, MakerRead
  <1>3. Reference!Matching(p) /\ Reference!SelfTrade(Reference!Oldest(p))
    BY <1>1, MatchingMaps
  <1>4. Reference!Return
    BY <1>1 DEF Reference!Return, Return
  <1> HIDE DEF p
  <1>5. Reference!StpCancelIncoming(p)
    BY <1>1, <1>3, <1>4 DEF Reference!StpCancelIncoming, Reference!Cancelled, Cancelled
  <1> QED
    BY <1>2, <1>5, TurnMaps

\* Self-trade prevention against the resting order.
LEMMA StpCancelRestingMaps ==
    ASSUME IInv, LoopOK, StpCancelResting
    PROVE  Reference!Next
  <1> DEFINE p == cursor.price
  <1>1. /\ AtMaker /\ SelfTrade /\ stp = "CancelResting" /\ heap' = RemoveResting(heap, cursor.maker)
        /\ event' = Cancelled(Maker.id, "SelfTradePrevention") /\ UNCHANGED <<stp, pc, taker>>
    BY DEF StpCancelResting
  <1>2. p \in Price /\ Reference!Facing = Facing
    BY <1>1, MakerRead
  <1>3. /\ Reference!Matching(p) /\ Reference!SelfTrade(Reference!Oldest(p))
        /\ Reference!Oldest(p).id = Maker.id
    BY <1>1, MatchingMaps
  <1>4. Reference!Unrest(Facing, p, 1)
    BY <1>1, MakerUnrests
  <1>5. Reference!Unrest(Reference!Facing, p, 1)
    BY <1>2, <1>4
  <1>6. event' = Reference!Cancelled(Reference!Oldest(p).id, "SelfTradePrevention")
    BY <1>1, <1>3 DEF Reference!Cancelled, Cancelled
  <1> HIDE DEF p
  <1>7. Reference!StpCancelResting(p)
    BY <1>1, <1>3, <1>5, <1>6 DEF Reference!StpCancelResting
  <1> QED
    BY <1>2, <1>7, TurnMaps

\* A trade, at the maker's price, of the same quantity.
LEMMA TradeMaps ==
    ASSUME IInv, LoopOK, Trade
    PROVE  Reference!Next
  <1> DEFINE p == cursor.price
             x == cursor.maker
             left == Maker.remaining - Fill
  <1>1. /\ AtMaker /\ pc = "inner" /\ ~SelfTrade /\ stp' = stp
        /\ taker' = [taker EXCEPT !.remaining = @ - Fill]
        /\ event' = Traded(taker, Maker, p, Fill)
        /\ pc' = IF Maker.remaining = Fill THEN "filled" ELSE "inner"
    BY DEF Trade, AtMaker, Fill
  <1>2. /\ p \in Price /\ Facing \in Side /\ Reference!Facing = Facing
        /\ StandsAt(heap, x, Facing, p, 1)
        /\ heap.orders[x].side = Facing /\ heap.orders[x].price = p
    BY <1>1, MakerRead
  <1>3. /\ Reference!Matching(p) /\ ~Reference!SelfTrade(Reference!Oldest(p))
        /\ Reference!Oldest(p).id = Maker.id
        /\ Reference!Oldest(p).remaining = Maker.remaining
    BY <1>1, MatchingMaps
  <1>4. PICK s, q, l, total : /\ Engine(heap, s, q) /\ Engine(heap', s, q) /\ x \in Queued(s, q)
                              /\ Requantified(heap, heap', x, l, left, total)
    BY TradeRefills DEF Refilled
  <1> DEFINE side == Facing
  <1> HIDE DEF x, p, left, side
  <1>5. Resized(heap, heap', side, p, 1, left)
    BY <1>2, <1>4, ResizedRead DEF side
  <1>6. BookOf(heap)[side][p][1].remaining = Maker.remaining
    BY <1>2, <1>3 DEF Reference!Oldest, side
  <1>7. /\ BookOf(heap') = [BookOf(heap) EXCEPT ![side][p][1].remaining = @ - Fill]
        /\ LiveOf(heap') = LiveOf(heap)
    <2> DEFINE B == BookOf(heap)
    <2>1. BookOf(heap') = [B EXCEPT ![side][p] = [B[side][p] EXCEPT ![1].remaining = left]]
      BY <1>5 DEF Resized, BookIs
    <2>2. left = B[side][p][1].remaining - Fill
      BY <1>6 DEF left
    <2> HIDE DEF B
    <2>3. BookOf(heap') = [B EXCEPT ![side][p][1].remaining = @ - Fill]
      BY <2>1, <2>2
    <2> QED
      BY <1>5, <2>3 DEF Resized, B
  <1>8. Fill = IF taker.remaining < Reference!Oldest(p).remaining THEN taker.remaining
               ELSE Reference!Oldest(p).remaining
    BY <1>3 DEF Fill
  <1>9. event' = Reference!Traded(taker, Reference!Oldest(p), p, Fill)
    BY <1>1, <1>3 DEF Reference!Traded, Traded
  <1> DEFINE f == Fill
  <1>10. /\ taker' = [taker EXCEPT !.remaining = @ - f] /\ stp' = stp
         /\ BookOf(heap') = [BookOf(heap) EXCEPT ![Reference!Facing][p][1].remaining = @ - f]
         /\ LiveOf(heap') = LiveOf(heap)
         /\ event' = Reference!Traded(taker, Reference!Oldest(p), p, f)
         /\ (IF pc' \in {"outer", "inner"} THEN "match" ELSE pc') =
               IF Reference!Oldest(p).remaining = f THEN "filled" ELSE "match"
         /\ f = IF taker.remaining < Reference!Oldest(p).remaining THEN taker.remaining
                ELSE Reference!Oldest(p).remaining
    BY <1>1, <1>2, <1>3, <1>7, <1>8, <1>9 DEF side
  <1> HIDE DEF f
  <1>11. Reference!Trade(p)
    BY <1>3, <1>10 DEF Reference!Trade
  <1> QED
    BY <1>2, <1>11, TurnMaps

\* The removal of a filled maker.
LEMMA RemoveFilledMaps ==
    ASSUME IInv, RemoveFilled
    PROVE  Reference!Next
  <1> DEFINE p == cursor.price
  <1>1. /\ pc = "filled" /\ pc' = "inner" /\ event' = None /\ UNCHANGED <<stp, taker>>
        /\ heap' = RemoveResting(heap, cursor.maker)
    BY DEF RemoveFilled
  <1>2. p \in Price /\ Reference!Facing = Facing /\ Reference!IsBest(Facing, p)
    BY <1>1, MakerRead
  <1>3. Reference!Unrest(Facing, p, 1)
    BY <1>1, MakerUnrests
  <1>4. Reference!Unrest(Reference!Facing, p, 1) /\ Reference!IsBest(Reference!Facing, p)
    BY <1>2, <1>3
  <1> HIDE DEF p
  <1>5. Reference!RemoveFilled(p)
    BY <1>1, <1>4 DEF Reference!RemoveFilled
  <1> QED
    BY <1>2, <1>5, TurnMaps

\* The loop ends where the reference engine's does.
LEMMA LoopEndMaps ==
    ASSUME IInv, LoopEnds
    PROVE  Reference!LoopEnds
  <1>1. EngineOK /\ pc = "outer" /\ taker \in Taker
    BY DEF IInv, CallOK, LoopEnds
  <1>2. Facing \in Side /\ Reference!Facing = Facing
    BY <1>1, FacingSide DEF Reference!Facing, Facing, Reference!Opposite, Opposite
  <1>3. PICK s, q : Engine(heap, s, q)
    BY <1>1 DEF EngineOK
  <1>4. CASE taker.remaining = 0
    BY <1>1, <1>4 DEF Reference!LoopEnds
  <1>5. CASE BestLevel = Nil
    <2>1. \A p \in Price : BookOf(heap)[Facing][p] = <<>>
      BY <1>2, <1>3, <1>5, BestRead DEF BestLevel
    <2>2. Reference!Levels(Facing) = {}
      BY <2>1 DEF Reference!Levels
    <2> QED
      BY <1>1, <1>2, <2>2 DEF Reference!LoopEnds
  <1>6. CASE BestLevel # Nil /\ ~Crosses(taker, heap.levels[BestLevel].price)
    <2> DEFINE b == heap.levels[BestLevel].price
    <2>1. BestAt(heap, Facing, b)
      BY <1>2, <1>3, <1>6, BestRead DEF BestLevel
    <2>2. ~Crosses(taker, b)
      BY <1>6
    <2> HIDE DEF b
    <2>3. ASSUME NEW p \in Reference!Levels(Facing) PROVE ~Reference!Crosses(taker, p)
      <3>1. p \in Price /\ b \in Price /\ ~Better(Facing, p, b)
        BY <2>1 DEF BestAt, Reference!Levels
      <3>2. p \in Int /\ b \in Int /\ taker.price \in Int /\ taker.side \in Side
        BY <1>1, <3>1, PriceAssumption DEF Taker
      <3> QED
        BY <2>2, <3>1, <3>2 DEF Crosses, Reference!Crosses, Better, Facing, Opposite, Side
    <2> QED
      BY <1>1, <1>2, <2>3 DEF Reference!LoopEnds
  <1> QED
    BY <1>4, <1>5, <1>6 DEF LoopEnds

\* The ends of a call.
LEMMA FullyMatchedMaps ==
    ASSUME IInv, FullyMatched
    PROVE  Reference!Next
  <1>1. Reference!LoopEnds
    BY LoopEndMaps DEF FullyMatched
  <1>2. Reference!FullyMatched
    BY <1>1 DEF Reference!FullyMatched, FullyMatched, Reference!Return, Return
  <1> QED
    BY <1>2, EndMaps

LEMMA DropRemainderMaps ==
    ASSUME IInv, DropRemainder
    PROVE  Reference!Next
  <1>1. Reference!LoopEnds
    BY LoopEndMaps DEF DropRemainder
  <1>2. Reference!DropRemainder
    BY <1>1 DEF Reference!DropRemainder, DropRemainder, Reference!Return, Return,
                Reference!Cancelled, Cancelled
  <1> QED
    BY <1>2, EndMaps

LEMMA RestMaps ==
    ASSUME IInv, Rest
    PROVE  Reference!Next
  <1>1. /\ LoopEnds /\ taker.remaining > 0 /\ taker.kind \in {"GTC", "modify"}
        /\ heap' = RestOrder(heap, taker) /\ Return /\ event' = None /\ stp' = stp
        /\ EngineOK /\ CallOK /\ pc = "outer"
    BY DEF Rest, LoopEnds, IInv
  <1>2. taker \in Taker /\ heap.ordersById[taker.id] = Nil /\ taker.price \in Price
    BY <1>1 DEF CallOK, Find
  <1>3. PICK s, q : Engine(heap, s, q)
    BY <1>1 DEF EngineOK
  <1>4. Rested(heap, RestOrder(heap, taker), taker)
    BY <1>2, <1>3, RestedRead
  <1>5. Rested(heap, heap', taker)
    BY <1>1, <1>4
  <1>6. /\ BookOf(heap') = [BookOf(heap) EXCEPT ![taker.side][taker.price] =
                               Append(BookOf(heap)[taker.side][taker.price], OrderOf(taker))]
        /\ LiveOf(heap') = [LiveOf(heap) EXCEPT ![taker.id] =
                               [side |-> taker.side, price |-> taker.price]]
    BY <1>5 DEF Rested, BookIs
  <1>7. Reference!LoopEnds
    BY <1>1, LoopEndMaps
  <1>8. Reference!Return
    BY <1>1 DEF Reference!Return, Return
  <1>9. Reference!Rest
    BY <1>1, <1>6, <1>7, <1>8 DEF Reference!Rest, OrderOf
  <1> QED
    BY <1>9, EndMaps

\* The empty engine is the empty reference engine.
LEMMA StartMaps == Init => Reference!Init
  <1> SUFFICES ASSUME Init PROVE Reference!Init
    OBVIOUS
  <1>1. /\ heap.byPrice = [side \in Side |-> [p \in Price |-> Nil]]
        /\ heap.ordersById = [id \in OrderId |-> Nil]
    BY DEF Init, EmptyHeap
  <1>2. BookOf(heap) = [side \in Side |-> [p \in Price |-> <<>>]]
    <2>1. \A side \in Side, p \in Price : Queue(heap, side, p) = <<>>
      BY <1>1 DEF Queue
    <2> QED
      BY <2>1 DEF BookOf
  <1>3. LiveOf(heap) = [id \in OrderId |-> None]
    BY <1>1 DEF LiveOf
  <1>4. stp \in StpPolicies /\ pc = "idle" /\ taker = None /\ event = None
    BY DEF Init
  <1> QED
    BY <1>2, <1>3, <1>4 DEF Reference!Init, Reference!Side, Side

\* Turns that move between the two loops change nothing the reference engine has.
LEMMA HiddenTurns ==
    ASSUME EnterLevel \/ LeaveLevel \/ UNCHANGED vars
    PROVE  UNCHANGED Reference!vars
  <1>1. /\ UNCHANGED <<heap, stp, taker, event>>
        /\ pc' = pc \/ (pc \in {"outer", "inner"} /\ pc' \in {"outer", "inner"})
    BY DEF EnterLevel, LeaveLevel, vars
  <1>2. BookOf(heap') = BookOf(heap) /\ LiveOf(heap') = LiveOf(heap)
    BY <1>1
  <1> QED
    BY <1>1, <1>2 DEF Reference!vars

\* Every step of the engine is a step of the reference engine or changes nothing it has.
LEMMA StepMaps ==
    ASSUME IInv, LoopOK, [Next]_vars
    PROVE  Reference!Next \/ UNCHANGED Reference!vars
  <1>1. ASSUME NEW id \in OrderId, NEW qty \in Qty, RejectNew(id, qty) PROVE Reference!Next
    BY <1>1, EntryMaps
  <1>2. ASSUME NEW id \in OrderId, RejectUnknown(id) PROVE Reference!Next
    BY <1>2, UnknownMaps
  <1>3. ASSUME NEW id \in OrderId, Cancel(id) PROVE Reference!Next
    BY <1>3, CancelMaps
  <1>4. ASSUME NEW id \in OrderId, NEW participant \in Participant, NEW side \in Side,
               NEW qty \in Qty,
               \/ \E price \in Price, tif \in Tif :
                     AddLimit(id, participant, side, price, qty, tif)
               \/ AddMarket(id, participant, side, qty)
        PROVE  Reference!Next
    BY <1>4, EntryMaps
  <1>5. ASSUME NEW id \in OrderId, NEW price \in Price, NEW qty \in Qty, Reduce(id, price, qty)
        PROVE  Reference!Next
    BY <1>5, ReduceMaps
  <1>6. ASSUME NEW id \in OrderId, NEW price \in Price, NEW qty \in Qty, Replace(id, price, qty)
        PROVE  Reference!Next
    BY <1>6, ReplaceMaps
  <1>7. CASE Enter
    BY <1>1, <1>2, <1>3, <1>4, <1>5, <1>6, <1>7 DEF Enter
  <1>8. CASE EnterLevel \/ LeaveLevel \/ UNCHANGED vars
    BY <1>8, HiddenTurns
  <1> QED
    BY <1>7, <1>8, StpCancelIncomingMaps, StpCancelRestingMaps, TradeMaps, RemoveFilledMaps,
       FullyMatchedMaps, DropRemainderMaps, RestMaps DEF Next, Continue

\* The engine over its intrusive lists does what the naive engine does, event for event and
\* for every sequence of calls: the claim of tests/test_differential.cpp.
THEOREM EngineImplementsReference == Spec => ImplementsReference
  <1>1. IInv /\ LoopOK /\ [Next]_vars => [Reference!Next]_(Reference!vars)
    BY StepMaps
  <1>2. Init => Reference!Init
    BY StartMaps
  <1> QED
    BY <1>1, <1>2, LoopInvariance, PTL DEF Spec, ImplementsReference

-----------------------------------------------------------------------------
(* Every turn of the loops is progress                                     *)

\* The ids of the orders on the book, and the place of a call in the two loops.
Resting == {id \in OrderId : Find(id) # Nil}
Turn == CASE pc = "outer"             -> 2
          [] pc = "inner" /\ AtMaker  -> 1
          [] pc = "inner" /\ ~AtMaker -> 3
          [] pc = "filled"            -> 1

\* Only so many orders rest as there are nodes.
LEMMA FewNamed ==
    ASSUME NEW h, NEW s, NEW q, Engine(h, s, q),
           NEW R, R = {id \in OrderId : h.ordersById[id] # Nil}
    PROVE  IsFiniteSet(R) /\ Cardinality(R) \in Nat
  <1> DEFINE m == Len(h.orders)
             T == 1 .. m
             f == [id \in R |-> h.ordersById[id]]
  <1>1. m \in Nat /\ IdsOK(h, Queued(s, q))
    <2>1. h \in Heap /\ IdsOK(h, Queued(s, q))
      BY DEF Engine, Book, LaddersOK
    <2> QED
      BY <2>1, HeapFields
  <1>2. \A id \in R : h.ordersById[id] \in T /\ h.orders[h.ordersById[id]].id = id
    BY <1>1 DEF IdsOK
  <1> HIDE DEF m
  <1>3. IsFiniteSet(T)
    BY <1>1, FS_Interval
  <1> HIDE DEF T
  <1>4. f \in Injection(R, T)
    <2>1. f \in [R -> T]
      BY <1>2
    <2>2. \A a, b \in R : f[a] = f[b] => a = b
      BY <1>2
    <2> HIDE DEF f
    <2> QED
      BY <2>1, <2>2 DEF Injection, IsInjective
  <1>5. IsFiniteSet(R)
    <2> HIDE DEF f
    <2> QED
      BY <1>3, <1>4, FS_Injection
  <1> QED
    BY <1>5, FS_CardinalityType

LEMMA RestingFinite ==
    /\ EngineOK => IsFiniteSet(Resting) /\ Cardinality(Resting) \in Nat
    /\ EngineOK' => Cardinality(Resting') \in Nat
  <1>1. ASSUME EngineOK PROVE IsFiniteSet(Resting) /\ Cardinality(Resting) \in Nat
    <2>1. PICK s, q : Engine(heap, s, q)
      BY <1>1 DEF EngineOK
    <2>2. Resting = {id \in OrderId : heap.ordersById[id] # Nil}
      BY DEF Resting, Find
    <2> QED
      BY <2>1, <2>2, FewNamed
  <1>2. ASSUME EngineOK' PROVE Cardinality(Resting') \in Nat
    <2>1. PICK s, q : Engine(heap', s, q)
      BY <1>2 DEF EngineOK
    <2>2. Resting' = {id \in OrderId : heap'.ordersById[id] # Nil}
      BY DEF Resting, Find
    <2> QED
      BY <2>1, <2>2, FewNamed
  <1> QED
    BY <1>1, <1>2

\* The maker that leaves is one order less.
LEMMA OneFewer ==
    ASSUME IInv, AtMaker \/ pc = "filled", heap' = RemoveResting(heap, cursor.maker)
    PROVE  Cardinality(Resting') = Cardinality(Resting) - 1
  <1> DEFINE x == cursor.maker
             k == Maker.id
  <1>1. /\ EngineOK /\ x \in InUse(heap.orderPool) /\ k \in OrderId /\ Find(k) = x /\ x # Nil
        /\ heap' = RemoveResting(heap, x) /\ k = heap.orders[x].id
    BY MakerInUse DEF Maker
  <1> HIDE DEF x, k
  <1>2. /\ heap'.ordersById = [heap.ordersById EXCEPT ![k] = Nil]
        /\ heap.ordersById \in [OrderId -> Nat]
    BY <1>1, RemovalOK
  <1>3. \A id \in OrderId : heap'.ordersById[id] = IF id = k THEN Nil ELSE heap.ordersById[id]
    BY <1>1, <1>2
  <1>4. Resting' = Resting \ {k}
    BY <1>3 DEF Resting, Find
  <1>5. k \in Resting
    BY <1>1 DEF Resting
  <1>6. IsFiniteSet(Resting)
    BY <1>1, RestingFinite
  <1> QED
    BY <1>4, <1>5, <1>6, FS_RemoveElement

\* Work is what is left to trade and to trade with, and the place in the loops.
LEMMA WorkRead ==
    /\ Work = 4 * (taker.remaining + Cardinality(Resting)) + Turn
    /\ Work' = 4 * (taker'.remaining + Cardinality(Resting')) + Turn'
  BY DEF Work, Resting, Turn

LEMMA TurnRead ==
    /\ pc = "outer" => Turn = 2
    /\ pc = "inner" /\ AtMaker => Turn = 1
    /\ pc = "inner" /\ ~AtMaker => Turn = 3
    /\ pc = "filled" => Turn = 1
  BY DEF Turn

LEMMA TurnReadNext ==
    /\ pc' = "outer" => Turn' = 2
    /\ pc' = "inner" /\ AtMaker' => Turn' = 1
    /\ pc' = "inner" /\ ~AtMaker' => Turn' = 3
    /\ pc' = "filled" => Turn' = 1
  BY DEF Turn

\* A step of a call that does not return takes from what is left.
LEMMA WorkFalls ==
    ASSUME IInv, IInv', LoopOK, Next, pc # "idle", pc' # "idle"
    PROVE  Work > 0 /\ Work' < Work
  <1> DEFINE a == taker.remaining
             b == taker'.remaining
             n == Cardinality(Resting)
             k == Cardinality(Resting')
             u == Turn
             v == Turn'
  <1>1. a \in Nat /\ b \in Nat /\ n \in Nat /\ k \in Nat
    <2>1. taker \in Taker /\ taker' \in Taker /\ EngineOK /\ EngineOK'
      BY DEF IInv, CallOK
    <2>2. n \in Nat
      BY <2>1, RestingFinite
    <2>3. k \in Nat
      BY <2>1, RestingFinite
    <2>4. a \in Nat /\ b \in Nat
      BY <2>1, QtyAssumption DEF Taker
    <2> QED
      BY <2>2, <2>3, <2>4
  <1>2. Work = 4 * (a + n) + u /\ Work' = 4 * (b + k) + v
    BY WorkRead
  <1>3. u \in 1 .. 3 /\ v \in 1 .. 3
    <2>1. pc \in {"outer", "inner", "filled"} /\ pc' \in {"outer", "inner", "filled"}
      BY DEF IInv, CallOK
    <2> QED
      BY <2>1, TurnRead, TurnReadNext
  <1>4. (b = a /\ k = n /\ v < u) \/ (b = a /\ k = n - 1) \/ (b < a /\ k = n)
    <2>1. CASE EnterLevel
      <3>1. /\ pc = "outer" /\ ~LoopEnds /\ pc' = "inner" /\ UNCHANGED <<heap, taker>>
            /\ cursor' = [lvl |-> BestLevel, price |-> heap.levels[BestLevel].price,
                          maker |-> heap.levels[BestLevel].front, next |-> Nil]
        BY <2>1 DEF EnterLevel
      <3>2. b = a /\ k = n
        BY <3>1 DEF Resting, Find
      <3>3. a > 0 /\ BestLevel # Nil
        BY <1>1, <3>1 DEF LoopEnds
      <3>4. cursor'.maker # Nil
        <4>1. PICK s, q : Engine(heap, s, q)
          BY DEF IInv, EngineOK
        <4>2. Facing \in Side
          BY FacingSide DEF IInv, CallOK, Facing
        <4>3. /\ cursor'.lvl = heap.best[Facing] /\ cursor'.price = heap.levels[cursor'.lvl].price
              /\ cursor'.maker = heap.levels[cursor'.lvl].front /\ heap.best[Facing] # Nil
          BY <3>1, <3>3 DEF BestLevel
        <4>4. AtFront(heap, Facing, cursor')
          BY <4>1, <4>2, <4>3, BestHasFront
        <4> QED
          BY <4>4 DEF AtFront
      <3>5. AtMaker'
        BY <3>1, <3>2, <3>3, <3>4 DEF AtMaker
      <3> HIDE DEF a, b, n, k
      <3> QED
        BY <3>1, <3>2, <3>5, TurnRead, TurnReadNext
    <2>2. CASE LeaveLevel
      <3>1. /\ pc = "inner" /\ (cursor.maker = Nil \/ taker.remaining = 0)
            /\ pc' = "outer" /\ UNCHANGED <<heap, taker>>
        BY <2>2 DEF LeaveLevel
      <3>2. b = a /\ k = n
        BY <3>1 DEF Resting, Find
      <3>3. ~AtMaker
        BY <3>1 DEF AtMaker
      <3> HIDE DEF a, b, n, k
      <3> QED
        BY <3>1, <3>2, <3>3, TurnRead, TurnReadNext
    <2>3. CASE StpCancelResting \/ RemoveFilled
      <3>1. /\ AtMaker \/ pc = "filled"
            /\ heap' = RemoveResting(heap, cursor.maker) /\ taker' = taker
        BY <2>3 DEF StpCancelResting, RemoveFilled
      <3>2. k = n - 1
        BY <3>1, OneFewer
      <3> QED
        BY <3>1, <3>2
    <2>4. CASE Trade
      <3>1. AtMaker /\ pc = "inner" /\ taker' = [taker EXCEPT !.remaining = @ - Fill]
        BY <2>4 DEF Trade, AtMaker, Fill
      <3>2. Maker.remaining # 0
        <4>1. Maker.id \in OrderId /\ Find(Maker.id) = cursor.maker /\ cursor.maker # Nil
          BY <3>1, MakerInUse
        <4>2. ~Spent(Maker.id)
          BY <3>1, <4>1 DEF LoopOK, SpentOK
        <4> QED
          BY <4>1, <4>2 DEF Spent, Maker
      <3>3. /\ Refilled(cursor.maker, Maker.remaining - Fill)
            /\ Maker.remaining \in Nat
        <4>1. Maker.remaining \in 0 .. (QtyMod - 1) /\ QtyMod \in Nat
          BY <2>4, TradeRefills, QtyAssumption
        <4> QED
          BY <2>4, <4>1, TradeRefills
      <3>4. heap'.ordersById = heap.ordersById
        BY <3>3, RefilledOK
      <3>5. k = n
        BY <3>4 DEF Resting, Find
      <3>6. taker.remaining > 0 /\ taker \in Taker
        BY <3>1 DEF AtMaker, IInv, CallOK
      <3>7. taker.remaining \in Nat /\ Fill \in Nat /\ Fill > 0
        BY <1>1, <3>2, <3>3, <3>6 DEF Fill
      <3>8. b = a - Fill
        BY <3>1, <3>6 DEF Taker
      <3>9. b < a
        <4> HIDE DEF b, n, k
        <4> QED
          BY <1>1, <3>7, <3>8
      <3> QED
        BY <3>5, <3>9
    <2>5. ASSUME \/ StpCancelIncoming \/ FullyMatched \/ DropRemainder \/ Rest
          PROVE  FALSE
      BY <2>5 DEF StpCancelIncoming, FullyMatched, DropRemainder, Rest, Return
    <2>6. ASSUME Enter PROVE FALSE
      BY <2>6 DEF Enter, RejectNew, RejectUnknown, Cancel, Reduce, Replace, AddLimit, AddMarket
    <2> QED
      BY <2>1, <2>2, <2>3, <2>4, <2>5, <2>6 DEF Next, Continue
  <1> HIDE DEF a, b, n, k, u, v
  <1>5. 4 * (a + n) + u > 0 /\ 4 * (b + k) + v < 4 * (a + n) + u
    BY <1>1, <1>3, <1>4
  <1> QED
    BY <1>2, <1>5

\* Every turn of the two matching loops uses up quantity, a resting order or a move between
\* the loops, of which there are finitely many: no order-entry call can go on for ever
\* (match_incoming, engine.hpp).
THEOREM EveryTurnIsProgress == Spec => TurnsAreProgress
  <1>1. /\ IInv /\ LoopOK /\ [Next]_vars /\ IInv'
        => [pc # "idle" /\ pc' # "idle" => Work > 0 /\ Work' < Work]_vars
    BY WorkFalls
  <1>2. IInv /\ [Next]_vars => IInv'
    BY StepOK
  <1> QED
    BY <1>1, <1>2, LoopInvariance, PTL DEF Spec, TurnsAreProgress

==============================================================================
