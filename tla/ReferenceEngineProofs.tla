------------------------ MODULE ReferenceEngineProofs ------------------------
(***************************************************************************)
(* Safety of ReferenceEngine for every set of ids, participants, prices    *)
(* and quantities: types, the agreement of the live map with the book, no  *)
(* crossed book, empty orders only while they leave, time priority; and of *)
(* EventLedger: the events account for the book.                           *)
(***************************************************************************)
EXTENDS EventLedger, DataLemmas

-----------------------------------------------------------------------------
(* Type correctness                                                        *)

\* The two maps of the engine have their types.
BookTyped == /\ book \in [Side -> [Price -> Seq(Order)]]
             /\ live \in [OrderId -> LiveRef \cup {None}]

\* Removing the i-th order of a level changes that level and that id only.
LEMMA UnrestShape ==
    ASSUME BookTyped, NEW side \in Side, NEW price \in Price,
           NEW i \in DOMAIN book[side][price], Unrest(side, price, i)
    PROVE  /\ BookTyped'
           /\ book[side][price][i].id \in OrderId
           /\ book'[side][price] = RemoveAt(book[side][price], i)
           /\ \A s \in Side, p \in Price :
                 s # side \/ p # price => book'[s][p] = book[s][p]
           /\ \A id \in OrderId :
                 live'[id] = IF id = book[side][price][i].id THEN None ELSE live[id]
  <1>1. book[side][price] \in Seq(Order) /\ book[side][price][i] \in Order
    BY DEF BookTyped
  <1>2. RemoveAt(book[side][price], i) \in Seq(Order)
    BY <1>1, RemoveAtShape
  <1>3. book[side][price][i].id \in OrderId
    BY <1>1 DEF Order
  <1> QED
    BY <1>2, <1>3 DEF BookTyped, Unrest

\* A live order's level and place exist.
LEMMA RestsAtTyped ==
    ASSUME BookTyped, NEW id \in OrderId, NEW i, RestsAt(id, i)
    PROVE  /\ live[id].side \in Side /\ live[id].price \in Price
           /\ i \in DOMAIN book[live[id].side][live[id].price]
           /\ book[live[id].side][live[id].price][i].id = id
           /\ book[live[id].side][live[id].price][i] \in Order
  BY DEF BookTyped, RestsAt, LiveRef

\* The front of the best level facing the taker is an order.
LEMMA BestTyped ==
    ASSUME BookTyped, taker \in Taker, NEW p, IsBest(Facing, p)
    PROVE  /\ p \in Price /\ Facing \in Side
           /\ 1 \in DOMAIN book[Facing][p]
           /\ book[Facing][p] \in Seq(Order) /\ Oldest(p) \in Order
  <1>1. Facing \in Side
    BY DEF Facing, Opposite, Side
  <1>2. p \in Price /\ book[Facing][p] # <<>>
    BY DEF IsBest, Levels
  <1>3. book[Facing][p] \in Seq(Order) /\ Len(book[Facing][p]) >= 1
    BY <1>1, <1>2 DEF BookTyped
  <1> QED
    BY <1>1, <1>2, <1>3 DEF Oldest

\* Every step of the engine keeps the types of its state and of the call in progress.
LEMMA TypeInductive == TypeOK /\ [Next]_vars => TypeOK'
  <1> SUFFICES ASSUME TypeOK, [Next]_vars PROVE TypeOK'
    OBVIOUS
  <1>0. BookTyped
    BY DEF TypeOK, BookTyped
  <1> USE DEF TypeOK
  <1>1. ASSUME NEW id \in OrderId, NEW qty \in Qty, RejectNew(id, qty) PROVE TypeOK'
    BY <1>1 DEF RejectNew
  <1>2. ASSUME NEW id \in OrderId, RejectUnknown(id) PROVE TypeOK'
    BY <1>2 DEF RejectUnknown
  <1>3. ASSUME NEW id \in OrderId, NEW participant \in Participant, NEW side \in Side,
               NEW qty \in Qty, NEW price \in Price, NEW tif \in Tif,
               AddLimit(id, participant, side, price, qty, tif)
        PROVE  TypeOK'
    BY <1>3, QtyAssumption, PriceAssumption DEF AddLimit, StartMatch, Taker, Tif
  <1>4. ASSUME NEW id \in OrderId, NEW participant \in Participant, NEW side \in Side,
               NEW qty \in Qty, AddMarket(id, participant, side, qty)
        PROVE  TypeOK'
    BY <1>4, QtyAssumption DEF AddMarket, StartMatch, Taker, Tif
  <1>5. ASSUME NEW id \in OrderId, NEW i, Cancel(id, i) PROVE TypeOK'
    <2>1. BookTyped'
      BY <1>0, <1>5, RestsAtTyped, UnrestShape, SMTT(60) DEF Cancel
    <2> QED
      BY <1>5, <2>1 DEF Cancel, BookTyped
  <1>6. ASSUME NEW id \in OrderId, NEW i, NEW price \in Price, NEW qty \in Qty,
               Reduce(id, i, price, qty)
        PROVE  TypeOK'
    <2>1. /\ live[id].side \in Side /\ live[id].price \in Price
          /\ i \in DOMAIN book[live[id].side][live[id].price]
          /\ book[live[id].side][live[id].price][i] \in Order
      BY <1>0, <1>6, RestsAtTyped DEF Reduce
    <2>2. [book[live[id].side][live[id].price][i] EXCEPT !.remaining = qty] \in Order
      BY <2>1, QtyAssumption DEF Order
    <2>3. book' \in [Side -> [Price -> Seq(Order)]]
      BY <1>6, <2>1, <2>2 DEF Reduce
    <2> QED
      BY <1>6, <2>3, SMTT(60) DEF Reduce
  <1>7. ASSUME NEW id \in OrderId, NEW i, NEW price \in Price, NEW qty \in Qty,
               Replace(id, i, price, qty)
        PROVE  TypeOK'
    <2>1. /\ live[id].side \in Side /\ live[id].price \in Price
          /\ i \in DOMAIN book[live[id].side][live[id].price]
          /\ book[live[id].side][live[id].price][i].participant \in Participant
      BY <1>0, <1>7, RestsAtTyped, ZenonT(60) DEF Replace, Order
    <2>2. BookTyped'
      BY <1>0, <1>7, <2>1, UnrestShape DEF Replace
    <2>3. pc' = "match" /\ taker' \in Taker /\ taker'.price \in Price
      BY <1>7, <2>1, QtyAssumption, PriceAssumption DEF Replace, StartMatch, Taker
    <2> QED
      BY <1>7, <2>2, <2>3, SMTT(60) DEF Replace, BookTyped
  <1>8. ASSUME NEW p \in Price, StpCancelIncoming(p) PROVE TypeOK'
    BY <1>8 DEF StpCancelIncoming, Return
  <1>9. ASSUME NEW p \in Price, StpCancelResting(p) PROVE TypeOK'
    <2>1. BookTyped'
      BY <1>0, <1>9, BestTyped, UnrestShape DEF StpCancelResting, Matching
    <2> QED
      BY <1>9, <2>1 DEF StpCancelResting, BookTyped
  <1>10. ASSUME NEW p \in Price, Trade(p) PROVE TypeOK'
    <2> DEFINE maker == Oldest(p)
               fill  == IF taker.remaining < maker.remaining
                          THEN taker.remaining ELSE maker.remaining
    <2>1. taker \in Taker /\ pc = "match"
      BY <1>10 DEF Trade, Matching
    <2>2. /\ Facing \in Side /\ 1 \in DOMAIN book[Facing][p]
          /\ book[Facing][p] \in Seq(Order) /\ maker \in Order
      BY <1>0, <1>10, <2>1, BestTyped DEF Trade, Matching
    <2>3. /\ maker.remaining - fill \in Nat /\ taker.remaining - fill \in Nat
      BY <2>1, <2>2 DEF Order, Taker
    <2>4. [taker EXCEPT !.remaining = @ - fill] \in Taker
      BY <2>1, <2>3 DEF Taker
    <2>5. [maker EXCEPT !.remaining = @ - fill] \in Order
      BY <2>2, <2>3 DEF Order
    <2>6. taker' = [taker EXCEPT !.remaining = @ - fill]
      BY <1>10 DEF Trade
    <2>7. book' = [book EXCEPT ![Facing][p][1] = [maker EXCEPT !.remaining = @ - fill]]
      BY <1>10, <2>2 DEF Trade, Oldest
    <2> HIDE DEF maker, fill
    <2>8. book' \in [Side -> [Price -> Seq(Order)]]
      BY <2>2, <2>5, <2>7
    <2>9. taker'.kind = taker.kind /\ taker'.price = taker.price
      BY <2>1, <2>6 DEF Taker
    <2> QED
      BY <1>10, <2>1, <2>4, <2>6, <2>8, <2>9 DEF Trade
  <1>11. ASSUME NEW p \in Price, RemoveFilled(p) PROVE TypeOK'
    <2>1. BookTyped'
      BY <1>0, <1>11, BestTyped, UnrestShape DEF RemoveFilled
    <2> QED
      BY <1>11, <2>1 DEF RemoveFilled, BookTyped
  <1>12. ASSUME FullyMatched PROVE TypeOK'
    BY <1>12 DEF FullyMatched, Return
  <1>13. ASSUME DropRemainder PROVE TypeOK'
    BY <1>13 DEF DropRemainder, Return
  <1>14. ASSUME Rest PROVE TypeOK'
    <2>1. taker \in Taker /\ taker.kind # "market"
      BY <1>14 DEF Rest, LoopEnds
    <2>2. /\ taker.side \in Side /\ taker.price \in Price /\ taker.id \in OrderId
          /\ taker.participant \in Participant /\ taker.remaining \in Nat
      BY <1>14, <2>1 DEF Taker, Rest, LoopEnds
    <2>3. [id |-> taker.id, participant |-> taker.participant,
           remaining |-> taker.remaining] \in Order
      BY <2>2 DEF Order
    <2>4. book' \in [Side -> [Price -> Seq(Order)]]
      BY <1>14, <2>2, <2>3 DEF Rest
    <2>5. live' \in [OrderId -> LiveRef \cup {None}]
      BY <1>14, <2>2 DEF Rest, LiveRef
    <2> QED
      BY <1>14, <2>4, <2>5 DEF Rest, Return
  <1>15. CASE UNCHANGED vars
    BY <1>15 DEF vars
  <1> QED
    BY <1>1, <1>2, <1>3, <1>4, <1>5, <1>6, <1>7, <1>8, <1>9, <1>10, <1>11, <1>12, <1>13,
       <1>14, <1>15 DEF Next, Enter, Continue

\* Every reachable state of the reference engine is well typed.
THEOREM TypeCorrect == Spec => []TypeOK
  <1>1. Init => TypeOK
    BY StpAssumption DEF Init, TypeOK, Side
  <1> QED
    BY <1>1, TypeInductive, PTL DEF Spec

-----------------------------------------------------------------------------
(* The live map and the book                                               *)

\* The three parts of LiveRefsResolve, over which the lemmas below reason.
RefsFound == \A id \in OrderId : live[id] # None =>
    \E i \in DOMAIN book[live[id].side][live[id].price] :
        book[live[id].side][live[id].price][i].id = id
RefsRight == \A side \in Side, p \in Price : \A i \in DOMAIN book[side][p] :
    live[book[side][p][i].id] = [side |-> side, price |-> p]
IdsOnce == \A side \in Side, p \in Price : \A i, j \in DOMAIN book[side][p] :
    book[side][p][i].id = book[side][p][j].id => i = j

Filed == BookTyped /\ RefsFound /\ RefsRight /\ IdsOnce

\* LiveRefsResolve in the two directions the induction needs: references are found,
\* and orders are filed where they rest, once.
LEMMA FiledIsResolved == BookTyped => (LiveRefsResolve <=> RefsFound /\ RefsRight /\ IdsOnce)
  <1> SUFFICES ASSUME BookTyped
               PROVE  LiveRefsResolve <=> RefsFound /\ RefsRight /\ IdsOnce
    OBVIOUS
  <1>1. (\A id \in OrderId : live[id] # None =>
           \E i \in DOMAIN book[live[id].side][live[id].price] : RestsAt(id, i))
        <=> RefsFound
    BY DEF RestsAt, RefsFound
  <1>2. (\A side \in Side, p \in Price : \A i \in DOMAIN book[side][p] :
           /\ live[book[side][p][i].id] = [side |-> side, price |-> p]
           /\ \A j \in DOMAIN book[side][p] : book[side][p][j].id = book[side][p][i].id => j = i)
        <=> RefsRight /\ IdsOnce
    BY DEF RefsRight, IdsOnce
  <1> QED
    BY <1>1, <1>2 DEF LiveRefsResolve

\* An order that leaves takes exactly its own reference with it.
LEMMA UnrestFiled ==
    ASSUME Filed, NEW side \in Side, NEW price \in Price,
           NEW i \in DOMAIN book[side][price], Unrest(side, price, i)
    PROVE  Filed'
  <1> DEFINE q == book[side][price]
             x == q[i].id
             r == book'[side][price]
  <1>1. /\ BookTyped /\ BookTyped' /\ x \in OrderId /\ r = RemoveAt(q, i)
        /\ \A s \in Side, p \in Price : s # side \/ p # price => book'[s][p] = book[s][p]
        /\ \A id \in OrderId : live'[id] = IF id = x THEN None ELSE live[id]
    BY UnrestShape DEF Filed
  <1>2. q \in Seq(Order) /\ i \in 1 .. Len(q) /\ DOMAIN q = 1 .. Len(q) /\ Len(q) \in Nat
    BY <1>1 DEF BookTyped
  <1>3. /\ r \in Seq(Order) /\ DOMAIN r = 1 .. (Len(q) - 1)
        /\ \A j \in DOMAIN r : r[j] = IF j < i THEN q[j] ELSE q[j + 1]
    <2>1. /\ RemoveAt(q, i) \in Seq(Order) /\ Len(RemoveAt(q, i)) = Len(q) - 1
          /\ \A j \in DOMAIN RemoveAt(q, i) :
                RemoveAt(q, i)[j] = IF j < i THEN q[j] ELSE q[j + 1]
      BY <1>2, RemoveAtShape
    <2> HIDE DEF q, r
    <2> QED
      BY <1>1, <1>2, <2>1
  <1>4. live[x] = [side |-> side, price |-> price]
    BY DEF Filed, RefsRight
  <1>5. \A j \in DOMAIN q : q[j].id = x => j = i
    BY DEF Filed, IdsOnce
  <1>6. ASSUME NEW s \in Side, NEW p \in Price, s # side \/ p # price,
               NEW j \in DOMAIN book[s][p]
        PROVE  book[s][p][j].id \in OrderId /\ book[s][p][j].id # x
    <2>1. live[book[s][p][j].id] = [side |-> s, price |-> p]
      BY <1>6 DEF Filed, RefsRight
    <2>2. book[s][p][j] \in Order
      BY <1>1 DEF BookTyped
    <2> QED
      BY <1>4, <1>6, <2>1, <2>2 DEF Order
  <1>7. \A j \in DOMAIN r : LET k == IF j < i THEN j ELSE j + 1
                            IN  k \in DOMAIN q /\ k # i /\ r[j] = q[k]
    BY <1>2, <1>3
  <1>8. \A k \in DOMAIN q : k # i => LET j == IF k < i THEN k ELSE k - 1
                                     IN  j \in DOMAIN r /\ r[j] = q[k]
    <2> HIDE DEF q, r
    <2> SUFFICES ASSUME NEW k \in DOMAIN q, k # i
                 PROVE  LET j == IF k < i THEN k ELSE k - 1
                        IN  j \in DOMAIN r /\ r[j] = q[k]
      OBVIOUS
    <2>1. CASE k < i
      BY <1>2, <1>3, <2>1
    <2>2. CASE k > i
      <3>1. k - 1 \in DOMAIN r /\ ~(k - 1 < i) /\ (k - 1) + 1 = k
        BY <1>2, <1>3, <2>2
      <3> QED
        BY <1>2, <1>3, <2>2, <3>1
    <2> QED
      BY <1>2, <2>1, <2>2
  <1>9. RefsRight'
    <2> SUFFICES ASSUME NEW s \in Side, NEW p \in Price, NEW j \in DOMAIN book'[s][p]
                 PROVE  live'[book'[s][p][j].id] = [side |-> s, price |-> p]
      BY DEF RefsRight
    <2>1. CASE s # side \/ p # price
      <3>1. book'[s][p] = book[s][p] /\ live[book[s][p][j].id] = [side |-> s, price |-> p]
        BY <1>1, <2>1 DEF Filed, RefsRight
      <3> QED
        BY <1>1, <1>6, <2>1, <3>1
    <2>2. CASE s = side /\ p = price
      <3>1. PICK k \in DOMAIN q : k # i /\ r[j] = q[k]
        BY <1>7, <2>2
      <3>2. q[k].id \in OrderId /\ q[k].id # x
        <4>1. q[k] \in Order
          BY <1>2
        <4>2. q[k].id # x
          BY <1>5, <3>1
        <4> QED
          BY <4>1, <4>2 DEF Order
      <3>3. live[q[k].id] = [side |-> side, price |-> price]
        BY DEF Filed, RefsRight
      <3> QED
        BY <1>1, <2>2, <3>1, <3>2, <3>3
    <2> QED
      BY <2>1, <2>2
  <1>10. IdsOnce'
    <2> SUFFICES ASSUME NEW s \in Side, NEW p \in Price,
                        NEW j \in DOMAIN book'[s][p], NEW l \in DOMAIN book'[s][p],
                        book'[s][p][j].id = book'[s][p][l].id
                 PROVE  j = l
      BY DEF IdsOnce
    <2>1. CASE s # side \/ p # price
      BY <1>1, <2>1 DEF Filed, IdsOnce
    <2>2. CASE s = side /\ p = price
      <3> DEFINE K(n) == IF n < i THEN n ELSE n + 1
      <3>1. K(j) \in DOMAIN q /\ K(l) \in DOMAIN q /\ q[K(j)].id = q[K(l)].id
        BY <1>7, <2>2
      <3>2. K(j) = K(l)
        BY <3>1 DEF Filed, IdsOnce
      <3> QED
        BY <1>2, <1>3, <2>2, <3>2, SMTT(60)
    <2> QED
      BY <2>1, <2>2
  <1>11. RefsFound'
    <2> SUFFICES ASSUME NEW id \in OrderId, live'[id] # None
                 PROVE  \E j \in DOMAIN book'[live'[id].side][live'[id].price] :
                            book'[live'[id].side][live'[id].price][j].id = id
      BY DEF RefsFound
    <2>1. id # x /\ live'[id] = live[id] /\ live[id] # None
      BY <1>1
    <2>2. live[id].side \in Side /\ live[id].price \in Price
      BY <1>1, <2>1 DEF BookTyped, LiveRef
    <2>3. PICK k \in DOMAIN book[live[id].side][live[id].price] :
              book[live[id].side][live[id].price][k].id = id
      BY <2>1 DEF Filed, RefsFound
    <2>4. CASE live[id].side # side \/ live[id].price # price
      BY <1>1, <2>1, <2>2, <2>3, <2>4
    <2>5. CASE live[id].side = side /\ live[id].price = price
      <3>1. k # i
        BY <2>1, <2>3, <2>5
      <3> QED
        BY <1>8, <2>1, <2>3, <2>5, <3>1
    <2> QED
      BY <2>4, <2>5
  <1> QED
    BY <1>1, <1>9, <1>10, <1>11 DEF Filed

\* Changing what is left of one order changes no id and no place.
LEMMA ResizeFiled ==
    ASSUME Filed, BookTyped', live' = live, NEW side \in Side, NEW price \in Price,
           NEW i \in DOMAIN book[side][price], NEW qty,
           book' = [book EXCEPT ![side][price][i].remaining = qty]
    PROVE  /\ Filed'
           /\ \A s \in Side, p \in Price :
                 /\ DOMAIN book'[s][p] = DOMAIN book[s][p]
                 /\ \A j \in DOMAIN book[s][p] : book'[s][p][j].id = book[s][p][j].id
  <1>1. \A s \in Side, p \in Price : book[s][p] \in Seq(Order)
    BY DEF Filed, BookTyped
  <1>2. /\ \A s \in Side, p \in Price : s # side \/ p # price => book'[s][p] = book[s][p]
        /\ book'[side][price] = [book[side][price] EXCEPT ![i].remaining = qty]
    BY DEF Filed, BookTyped
  <1>3. \A j \in DOMAIN book[side][price] :
           [book[side][price] EXCEPT ![i].remaining = qty][j].id = book[side][price][j].id
    BY <1>1 DEF Order
  <1>4. \A s \in Side, p \in Price :
           /\ DOMAIN book'[s][p] = DOMAIN book[s][p]
           /\ \A j \in DOMAIN book[s][p] : book'[s][p][j].id = book[s][p][j].id
    BY <1>1, <1>2, <1>3
  <1>5. RefsRight'
    <2> SUFFICES ASSUME NEW s \in Side, NEW p \in Price, NEW j \in DOMAIN book'[s][p]
                 PROVE  live[book'[s][p][j].id] = [side |-> s, price |-> p]
      BY DEF RefsRight
    <2>1. j \in DOMAIN book[s][p] /\ book'[s][p][j].id = book[s][p][j].id
      BY <1>4
    <2>2. live[book[s][p][j].id] = [side |-> s, price |-> p]
      BY <2>1 DEF Filed, RefsRight
    <2> QED
      BY <2>1, <2>2
  <1>6. IdsOnce'
    BY <1>4 DEF Filed, IdsOnce
  <1>7. RefsFound'
    <2> SUFFICES ASSUME NEW id \in OrderId, live[id] # None
                 PROVE  \E j \in DOMAIN book'[live[id].side][live[id].price] :
                            book'[live[id].side][live[id].price][j].id = id
      BY DEF RefsFound
    <2>1. live[id].side \in Side /\ live[id].price \in Price
      BY DEF Filed, BookTyped, LiveRef
    <2> QED
      BY <1>4, <2>1 DEF Filed, RefsFound
  <1> QED
    BY <1>4, <1>5, <1>6, <1>7 DEF Filed

\* A resting order whose id was free joins its level at the back.
LEMMA RestFiled ==
    ASSUME Filed, NEW side \in Side, NEW price \in Price, NEW order \in Order,
           live[order.id] = None,
           book' = [book EXCEPT ![side][price] = Append(@, order)],
           live' = [live EXCEPT ![order.id] = [side |-> side, price |-> price]]
    PROVE  Filed'
  <1> DEFINE q == book[side][price]
             x == order.id
             ref == [side |-> side, price |-> price]
  <1>1. q \in Seq(Order) /\ x \in OrderId /\ ref \in LiveRef /\ ref # None
    <2>1. q \in Seq(Order)
      BY DEF Filed, BookTyped
    <2>2. x \in OrderId
      BY DEF Order
    <2>3. ref \in LiveRef
      BY DEF LiveRef
    <2> QED
      BY <2>1, <2>2, <2>3, NoneAssumption
  <1>2. /\ book' \in [Side -> [Price -> Seq(Order)]]
        /\ book'[side][price] = Append(q, order)
        /\ \A s \in Side, p \in Price : s # side \/ p # price => book'[s][p] = book[s][p]
    BY <1>1 DEF Filed, BookTyped
  <1>3. /\ live' \in [OrderId -> LiveRef \cup {None}]
        /\ \A id \in OrderId : live'[id] = IF id = x THEN ref ELSE live[id]
    BY <1>1 DEF Filed, BookTyped
  <1>4. ASSUME NEW s \in Side, NEW p \in Price, NEW j \in DOMAIN book[s][p]
        PROVE  book[s][p][j].id \in OrderId /\ book[s][p][j].id # x
    <2>1. live[book[s][p][j].id] = [side |-> s, price |-> p] /\ [side |-> s, price |-> p] # None
      BY NoneAssumption DEF Filed, RefsRight, LiveRef
    <2>2. book[s][p][j] \in Order
      BY DEF Filed, BookTyped
    <2> QED
      BY <2>1, <2>2 DEF Order
  <1> HIDE DEF q, ref
  <1>5. /\ DOMAIN q = 1 .. Len(q) /\ Len(q) \in Nat
        /\ DOMAIN Append(q, order) = 1 .. (Len(q) + 1)
        /\ \A j \in DOMAIN q : j # Len(q) + 1 /\ Append(q, order)[j] = q[j]
        /\ Append(q, order)[Len(q) + 1] = order
        /\ \A j \in DOMAIN Append(q, order) : j = Len(q) + 1 \/ j \in DOMAIN q
    BY <1>1
  <1>6. RefsRight'
    <2> SUFFICES ASSUME NEW s \in Side, NEW p \in Price, NEW j \in DOMAIN book'[s][p]
                 PROVE  live'[book'[s][p][j].id] = [side |-> s, price |-> p]
      BY DEF RefsRight
    <2>1. CASE j \in DOMAIN book[s][p]
      <3>1. book'[s][p][j] = book[s][p][j]
        BY <1>2, <1>5, <2>1 DEF q
      <3>2. live[book[s][p][j].id] = [side |-> s, price |-> p]
        BY <2>1 DEF Filed, RefsRight
      <3>3. book[s][p][j].id \in OrderId /\ book[s][p][j].id # x
        BY <1>4, <2>1
      <3>4. live'[book[s][p][j].id] = live[book[s][p][j].id]
        BY <1>3, <3>3
      <3> QED
        BY <3>1, <3>2, <3>4
    <2>2. CASE j \notin DOMAIN book[s][p]
      <3>1. s = side /\ p = price /\ j = Len(q) + 1
        BY <1>2, <1>5, <2>2 DEF q
      <3> QED
        BY <1>1, <1>2, <1>3, <1>5, <3>1 DEF ref
    <2> QED
      BY <2>1, <2>2
  <1>7. IdsOnce'
    <2> SUFFICES ASSUME NEW s \in Side, NEW p \in Price,
                        NEW j \in DOMAIN book'[s][p], NEW l \in DOMAIN book'[s][p],
                        book'[s][p][j].id = book'[s][p][l].id
                 PROVE  j = l
      BY DEF IdsOnce
    <2>1. \A m \in DOMAIN book'[s][p] :
             \/ m \in DOMAIN book[s][p] /\ book'[s][p][m] = book[s][p][m]
             \/ /\ s = side /\ p = price /\ m = Len(q) + 1
                /\ book'[s][p][m] = order /\ m \notin DOMAIN book[s][p]
      BY <1>2, <1>5 DEF q
    <2>2. CASE j \in DOMAIN book[s][p] /\ l \in DOMAIN book[s][p]
      BY <2>1, <2>2 DEF Filed, IdsOnce
    <2>3. CASE j \notin DOMAIN book[s][p] /\ l \notin DOMAIN book[s][p]
      BY <2>1, <2>3
    <2>4. CASE j \in DOMAIN book[s][p] /\ l \notin DOMAIN book[s][p]
      BY <1>4, <2>1, <2>4
    <2>5. CASE j \notin DOMAIN book[s][p] /\ l \in DOMAIN book[s][p]
      BY <1>4, <2>1, <2>5, SMTT(60)
    <2> QED
      BY <2>2, <2>3, <2>4, <2>5
  <1>8. RefsFound'
    <2> SUFFICES ASSUME NEW id \in OrderId, live'[id] # None
                 PROVE  \E j \in DOMAIN book'[live'[id].side][live'[id].price] :
                            book'[live'[id].side][live'[id].price][j].id = id
      BY DEF RefsFound
    <2>1. CASE id = x
      <3>1. live'[id].side = side /\ live'[id].price = price
        BY <1>3, <2>1 DEF ref
      <3>2. Len(q) + 1 \in DOMAIN book'[side][price] /\ book'[side][price][Len(q) + 1] = order
        BY <1>2, <1>5, SMTT(60)
      <3> QED
        BY <2>1, <3>1, <3>2
    <2>2. CASE id # x
      <3>1. live'[id] = live[id] /\ live[id] # None
        BY <1>3, <2>2
      <3>2. live[id].side \in Side /\ live[id].price \in Price
        BY <3>1 DEF Filed, BookTyped, LiveRef
      <3>3. PICK k \in DOMAIN book[live[id].side][live[id].price] :
                book[live[id].side][live[id].price][k].id = id
        BY <3>1 DEF Filed, RefsFound
      <3>4. /\ k \in DOMAIN book'[live[id].side][live[id].price]
            /\ book'[live[id].side][live[id].price][k] = book[live[id].side][live[id].price][k]
        BY <1>2, <1>5, <3>2, <3>3 DEF q
      <3> QED
        BY <3>1, <3>3, <3>4, ZenonT(60)
    <2> QED
      BY <2>1, <2>2
  <1> QED
    BY <1>2, <1>3, <1>6, <1>7, <1>8 DEF Filed, BookTyped

-----------------------------------------------------------------------------
(* The inductive invariant                                                 *)

\* The id of the order being matched rests nowhere: without it Rest could file
\* an id twice.
TakerIdFree == pc # "idle" => live[taker.id] = None

IInv == TypeOK /\ Filed /\ TakerIdFree /\ NotCrossed

\* Nothing but Rest can make a price non-empty.
LEMMA FewerLevelsNotCrossed ==
    ASSUME NotCrossed, \A s \in Side, p \in Price : book'[s][p] # <<>> => book[s][p] # <<>>
    PROVE  NotCrossed'
  BY DEF NotCrossed, Levels, Side

\* A removal only empties levels, so it cannot cross the book.
LEMMA UnrestNotCrossed ==
    ASSUME BookTyped, NotCrossed, NEW side \in Side, NEW price \in Price,
           NEW i \in DOMAIN book[side][price], Unrest(side, price, i)
    PROVE  NotCrossed'
  <1>1. \A s \in Side, p \in Price : s # side \/ p # price => book'[s][p] = book[s][p]
    BY UnrestShape
  <1>2. book[side][price] # <<>>
    OBVIOUS
  <1> QED
    BY <1>1, <1>2, FewerLevelsNotCrossed

\* Rest files the taker only where no opposite level is within its reach.
LEMMA RestNotCrossed ==
    ASSUME TypeOK, NotCrossed, Rest
    PROVE  NotCrossed'
  <1>1. /\ taker \in Taker /\ taker.side \in Side /\ taker.price \in Price
        /\ taker.kind # "market"
    BY DEF TypeOK, Rest, LoopEnds, Taker
  <1>2. \A p \in Levels(Facing) : ~Crosses(taker, p)
    BY DEF Rest, LoopEnds
  <1>3. \A s \in Side, p \in Price : book'[s][p] # <<>> =>
            book[s][p] # <<>> \/ (s = taker.side /\ p = taker.price)
    BY <1>1 DEF Rest, TypeOK
  <1>4. SUFFICES ASSUME NEW b \in Price, NEW a \in Price,
                        book'["Bid"][b] # <<>>, book'["Ask"][a] # <<>>
                 PROVE  b < a
    BY DEF NotCrossed, Levels
  <1>5. a \in Int /\ b \in Int /\ taker.price \in Int
    BY <1>1, PriceAssumption
  <1>6. CASE taker.side = "Bid"
    <2>1. book["Ask"][a] # <<>>
      BY <1>3, <1>4, <1>6 DEF Side
    <2>2. ~(a <= taker.price)
      BY <1>2, <1>6, <2>1 DEF Levels, Facing, Opposite, Crosses
    <2>3. CASE book["Bid"][b] # <<>>
      BY <2>1, <2>3 DEF NotCrossed, Levels
    <2>4. CASE b = taker.price
      BY <1>5, <2>2, <2>4
    <2> QED
      BY <1>3, <1>4, <2>3, <2>4 DEF Side
  <1>7. CASE taker.side = "Ask"
    <2>1. book["Bid"][b] # <<>>
      BY <1>3, <1>4, <1>7 DEF Side
    <2>2. ~(b >= taker.price)
      BY <1>2, <1>7, <2>1 DEF Levels, Facing, Opposite, Crosses
    <2>3. CASE book["Ask"][a] # <<>>
      BY <2>1, <2>3 DEF NotCrossed, Levels
    <2>4. CASE a = taker.price
      BY <1>5, <2>2, <2>4
    <2> QED
      BY <1>3, <1>4, <2>3, <2>4 DEF Side
  <1> QED
    BY <1>1, <1>6, <1>7 DEF Side

\* A trade resizes the front of the level and nothing else in the book.
LEMMA TradeShape ==
    ASSUME TypeOK, NEW p \in Price, Trade(p)
    PROVE  /\ Facing \in Side /\ 1 \in DOMAIN book[Facing][p]
           /\ \E left \in Nat : /\ left <= Oldest(p).remaining
                                /\ book' = [book EXCEPT ![Facing][p][1].remaining = left]
           /\ live' = live /\ pc = "match" /\ taker'.id = taker.id
  <1>1. taker \in Taker /\ pc = "match" /\ IsBest(Facing, p)
    BY DEF Trade, Matching, TypeOK
  <1>2. Facing \in Side /\ 1 \in DOMAIN book[Facing][p] /\ Oldest(p) \in Order
    BY <1>1, BestTyped DEF TypeOK, BookTyped
  <1> DEFINE fill == IF taker.remaining < Oldest(p).remaining
                       THEN taker.remaining ELSE Oldest(p).remaining
  <1>3. /\ Oldest(p).remaining - fill \in Nat
        /\ Oldest(p).remaining - fill <= Oldest(p).remaining
    BY <1>1, <1>2 DEF Taker, Order
  <1>4. book' = [book EXCEPT ![Facing][p][1].remaining = @ - fill]
    BY DEF Trade
  <1>5. [book EXCEPT ![Facing][p][1].remaining = @ - fill]
          = [book EXCEPT ![Facing][p][1].remaining = Oldest(p).remaining - fill]
    BY <1>1, <1>2 DEF Oldest, TypeOK
  <1>6. live' = live /\ taker'.id = taker.id
    BY <1>1 DEF Trade, Taker
  <1> QED
    BY <1>1, <1>2, <1>3, <1>4, <1>5, <1>6

\* An empty book and an empty live map satisfy the invariant.
LEMMA InvInitial == Init => IInv
  <1> SUFFICES ASSUME Init PROVE IInv
    OBVIOUS
  <1>1. TypeOK
    BY StpAssumption DEF Init, TypeOK, Side
  <1>2. \A s \in Side, p \in Price : book[s][p] = <<>>
    BY DEF Init
  <1>3. \A id \in OrderId : live[id] = None
    BY DEF Init
  <1>4. Filed
    BY <1>1, <1>2, <1>3 DEF Filed, BookTyped, TypeOK, RefsFound, RefsRight, IdsOnce
  <1>5. NotCrossed
    BY <1>2 DEF NotCrossed, Levels, Side
  <1> QED
    BY <1>1, <1>4, <1>5 DEF IInv, TakerIdFree, Init

\* book and live as they were: the calls' entry without a removal, and the returns.
LEMMA UnchangedFiled ==
    ASSUME Filed, NotCrossed, UNCHANGED <<book, live>>
    PROVE  Filed' /\ NotCrossed'
  BY DEF Filed, BookTyped, RefsFound, RefsRight, IdsOnce, NotCrossed, Levels

\* Every step of every call keeps the invariant: one case per action.
LEMMA InvInductive == IInv /\ [Next]_vars => IInv'
  <1> SUFFICES ASSUME IInv, [Next]_vars PROVE IInv'
    OBVIOUS
  <1>0. TypeOK /\ Filed /\ BookTyped /\ TakerIdFree /\ NotCrossed /\ TypeOK' /\ BookTyped'
    BY TypeInductive DEF IInv, TypeOK, BookTyped
  <1> SUFFICES Filed' /\ TakerIdFree' /\ NotCrossed'
    BY <1>0 DEF IInv
  <1> DEFINE Goal == Filed' /\ TakerIdFree' /\ NotCrossed'
  <1>1. ASSUME NEW id \in OrderId, NEW qty \in Qty, RejectNew(id, qty) PROVE Goal
    BY <1>0, <1>1, UnchangedFiled DEF RejectNew, TakerIdFree
  <1>2. ASSUME NEW id \in OrderId, RejectUnknown(id) PROVE Goal
    BY <1>0, <1>2, UnchangedFiled DEF RejectUnknown, TakerIdFree
  <1>3. ASSUME NEW id \in OrderId, NEW participant \in Participant, NEW side \in Side,
               NEW qty \in Qty, NEW price \in Price, NEW tif \in Tif,
               AddLimit(id, participant, side, price, qty, tif)
        PROVE  Goal
    <2>1. taker'.id = id /\ live'[id] = None /\ UNCHANGED <<book, live>>
      BY <1>3 DEF AddLimit, ValidNew, StartMatch
    <2> QED
      BY <1>0, <2>1, UnchangedFiled DEF TakerIdFree
  <1>4. ASSUME NEW id \in OrderId, NEW participant \in Participant, NEW side \in Side,
               NEW qty \in Qty, AddMarket(id, participant, side, qty)
        PROVE  Goal
    <2>1. taker'.id = id /\ live'[id] = None /\ UNCHANGED <<book, live>>
      BY <1>4 DEF AddMarket, ValidNew, StartMatch
    <2> QED
      BY <1>0, <2>1, UnchangedFiled DEF TakerIdFree
  <1>5. ASSUME NEW id \in OrderId, NEW i, Cancel(id, i) PROVE Goal
    <2>1. /\ live[id].side \in Side /\ live[id].price \in Price
          /\ i \in DOMAIN book[live[id].side][live[id].price]
          /\ Unrest(live[id].side, live[id].price, i)
      BY <1>0, <1>5, RestsAtTyped DEF Cancel
    <2>2. Filed' /\ NotCrossed'
      BY <1>0, <2>1, UnrestFiled, UnrestNotCrossed, SMTT(60)
    <2> QED
      BY <1>5, <2>2 DEF Cancel, TakerIdFree
  <1>6. ASSUME NEW id \in OrderId, NEW i, NEW price \in Price, NEW qty \in Qty,
               Reduce(id, i, price, qty)
        PROVE  Goal
    <2>1. /\ live[id].side \in Side /\ live[id].price \in Price
          /\ i \in DOMAIN book[live[id].side][live[id].price]
          /\ live' = live /\ pc' = pc /\ pc = "idle"
          /\ book' = [book EXCEPT ![live[id].side][live[id].price][i].remaining = qty]
      BY <1>0, <1>6, RestsAtTyped, ZenonT(60) DEF Reduce
    <2>2. /\ Filed'
          /\ \A s \in Side, p \in Price : DOMAIN book'[s][p] = DOMAIN book[s][p]
      BY <1>0, <2>1, ResizeFiled, ZenonT(60)
    <2>3. \A s \in Side, p \in Price : book'[s][p] # <<>> => book[s][p] # <<>>
      BY <1>0, <2>2 DEF BookTyped
    <2> QED
      BY <1>0, <2>1, <2>2, <2>3, FewerLevelsNotCrossed, ZenonT(60) DEF TakerIdFree
  <1>7. ASSUME NEW id \in OrderId, NEW i, NEW price \in Price, NEW qty \in Qty,
               Replace(id, i, price, qty)
        PROVE  Goal
    <2>1. /\ live[id].side \in Side /\ live[id].price \in Price
          /\ i \in DOMAIN book[live[id].side][live[id].price]
          /\ book[live[id].side][live[id].price][i].id = id
          /\ Unrest(live[id].side, live[id].price, i) /\ taker'.id = id
      BY <1>0, <1>7, RestsAtTyped DEF Replace, StartMatch
    <2>2. Filed' /\ NotCrossed' /\ live'[id] = None
      BY <1>0, <2>1, UnrestFiled, UnrestNotCrossed, UnrestShape
    <2> QED
      BY <2>1, <2>2 DEF TakerIdFree
  <1>8. ASSUME NEW p \in Price, StpCancelIncoming(p) PROVE Goal
    BY <1>0, <1>8, UnchangedFiled DEF StpCancelIncoming, Return, TakerIdFree
  <1>9. ASSUME NEW p \in Price, UNCHANGED taker, pc # "idle",
               taker \in Taker, IsBest(Facing, p), Unrest(Facing, p, 1)
        PROVE  Goal
    <2>1. Facing \in Side /\ 1 \in DOMAIN book[Facing][p] /\ taker.id \in OrderId
      BY <1>0, <1>9, BestTyped DEF Taker
    <2>2. Filed' /\ NotCrossed'
      BY <1>0, <1>9, <2>1, UnrestFiled, UnrestNotCrossed
    <2>3. live'[taker.id] = None
      BY <1>0, <1>9, <2>1, UnrestShape DEF TakerIdFree
    <2> QED
      BY <1>9, <2>2, <2>3 DEF TakerIdFree
  <1>10. ASSUME NEW p \in Price, Trade(p) PROVE Goal
    <2>1. /\ Facing \in Side /\ 1 \in DOMAIN book[Facing][p]
          /\ live' = live /\ pc = "match" /\ taker'.id = taker.id
      BY <1>0, <1>10, TradeShape
    <2>2. PICK left \in Nat : book' = [book EXCEPT ![Facing][p][1].remaining = left]
      BY <1>0, <1>10, TradeShape
    <2>3. /\ Filed'
          /\ \A s \in Side, q \in Price : DOMAIN book'[s][q] = DOMAIN book[s][q]
      BY <1>0, <2>1, <2>2, ResizeFiled
    <2>4. \A s \in Side, q \in Price : book'[s][q] # <<>> => book[s][q] # <<>>
      BY <1>0, <2>3 DEF BookTyped
    <2>5. NotCrossed'
      BY <1>0, <2>4, FewerLevelsNotCrossed
    <2> QED
      BY <1>0, <2>1, <2>3, <2>5 DEF TakerIdFree
  <1>11. ASSUME FullyMatched \/ DropRemainder PROVE Goal
    BY <1>0, <1>11, UnchangedFiled DEF FullyMatched, DropRemainder, Return, TakerIdFree
  <1>12. ASSUME Rest PROVE Goal
    <2>1. taker \in Taker /\ pc # "idle" /\ taker.kind # "market"
      BY <1>0, <1>12 DEF Rest, LoopEnds, TypeOK
    <2>2. taker.side \in Side /\ taker.price \in Price
      BY <1>0, <2>1 DEF TypeOK, Taker
    <2> DEFINE order == [id |-> taker.id, participant |-> taker.participant,
                         remaining |-> taker.remaining]
    <2>3. order \in Order /\ order.id = taker.id
      BY <2>1 DEF Taker, Order
    <2>4. live[order.id] = None
      BY <1>0, <2>1, <2>3 DEF TakerIdFree
    <2>5. /\ book' = [book EXCEPT ![taker.side][taker.price] = Append(@, order)]
          /\ live' = [live EXCEPT ![order.id] =
                        [side |-> taker.side, price |-> taker.price]]
      BY <1>12, <2>3 DEF Rest
    <2> HIDE DEF order
    <2>6. Filed'
      BY <1>0, <2>2, <2>3, <2>4, <2>5, RestFiled
    <2>7. NotCrossed'
      BY <1>0, <1>12, RestNotCrossed
    <2> QED
      BY <1>12, <2>6, <2>7 DEF Rest, Return, TakerIdFree
  <1>13. ASSUME UNCHANGED vars PROVE Goal
    BY <1>0, <1>13, UnchangedFiled DEF vars, TakerIdFree
  <1>14. ASSUME NEW p \in Price, StpCancelResting(p) PROVE Goal
    BY <1>0, <1>9, <1>14 DEF StpCancelResting, Matching, TypeOK
  <1>15. ASSUME NEW p \in Price, RemoveFilled(p) PROVE Goal
    BY <1>0, <1>9, <1>15 DEF RemoveFilled, TypeOK
  <1> HIDE DEF Goal
  <1>16. Enter => Goal
    BY <1>1, <1>2, <1>3, <1>4, <1>5, <1>6, <1>7 DEF Enter
  <1>17. Continue => Goal
    BY <1>8, <1>10, <1>11, <1>12, <1>14, <1>15 DEF Continue
  <1>18. Goal
    BY <1>13, <1>16, <1>17 DEF Next
  <1> QED
    BY <1>18 DEF Goal

\* The inductive invariant holds in every reachable state.
LEMMA InvAlways == Spec => []IInv
  BY InvInitial, InvInductive, PTL DEF Spec

\* The live map and the book describe the same orders in every reachable state:
\* "live map points at missing order" is never thrown and no id rests twice.
THEOREM LiveRefsAlwaysResolve == Spec => []LiveRefsResolve
  <1>1. IInv => LiveRefsResolve
    BY FiledIsResolved DEF IInv, Filed
  <1> QED
    BY <1>1, InvAlways, PTL

\* Bids stay below asks in every reachable state, in the middle of calls too.
THEOREM NeverCrossed == Spec => []NotCrossed
  <1>1. IInv => NotCrossed
    BY DEF IInv
  <1> QED
    BY <1>1, InvAlways, PTL

-----------------------------------------------------------------------------
(* Empty orders                                                            *)

AllOpen == \A side \in Side, p \in Price : \A i \in DOMAIN book[side][p] :
    book[side][p][i].remaining # 0

\* While no filled maker waits for its removal, EmptyOrderIsFilledMaker says that
\* every order is open.
LEMMA OpenUnlessFilled ==
    ASSUME pc # "filled"
    PROVE  EmptyOrderIsFilledMaker <=> AllOpen
  BY DEF EmptyOrderIsFilledMaker, AllOpen

\* The best level is one level.
LEMMA BestIsOne ==
    ASSUME NEW side \in Side, NEW p, NEW q, IsBest(side, p), IsBest(side, q)
    PROVE  p = q
  <1>1. p \in Price /\ q \in Price /\ ~Better(side, q, p) /\ ~Better(side, p, q)
    BY DEF IsBest, Levels
  <1>2. p \in Int /\ q \in Int
    BY <1>1, PriceAssumption
  <1> QED
    BY <1>1, <1>2 DEF Better, Side

\* Every order that is there after a removal was there before, at another place
\* than the one that left.
LEMMA UnrestStayers ==
    ASSUME BookTyped, NEW side \in Side, NEW price \in Price,
           NEW i \in DOMAIN book[side][price], Unrest(side, price, i)
    PROVE  \A s \in Side, p \in Price : \A j \in DOMAIN book'[s][p] :
              \E k \in DOMAIN book[s][p] : /\ book'[s][p][j] = book[s][p][k]
                                           /\ s # side \/ p # price \/ k # i
  <1> DEFINE q == book[side][price]
             r == book'[side][price]
  <1>1. /\ r = RemoveAt(q, i) /\ q \in Seq(Order)
        /\ \A s \in Side, p \in Price : s # side \/ p # price => book'[s][p] = book[s][p]
    BY UnrestShape DEF BookTyped
  <1>2. /\ r \in Seq(Order) /\ Len(r) = Len(q) - 1
        /\ \A j \in DOMAIN r : r[j] = IF j < i THEN q[j] ELSE q[j + 1]
    BY <1>1, RemoveAtShape, SMTT(60)
  <1>3. \A j \in DOMAIN r : \E k \in DOMAIN q : r[j] = q[k] /\ k # i
    <2> HIDE DEF q, r
    <2> SUFFICES ASSUME NEW j \in DOMAIN r PROVE \E k \in DOMAIN q : r[j] = q[k] /\ k # i
      OBVIOUS
    <2>1. /\ j \in 1 .. (Len(q) - 1) /\ Len(q) \in Nat /\ DOMAIN q = 1 .. Len(q)
          /\ i \in 1 .. Len(q)
      BY <1>1, <1>2 DEF q
    <2>2. CASE j < i
      BY <1>2, <2>1, <2>2
    <2>3. CASE ~(j < i)
      BY <1>2, <2>1, <2>3
    <2> QED
      BY <2>2, <2>3
  <1> QED
    BY <1>1, <1>3

\* A removal leaves open orders if it takes the only one that may be empty.
LEMMA UnrestOpen ==
    ASSUME BookTyped, NEW side \in Side, NEW price \in Price,
           NEW i \in DOMAIN book[side][price], Unrest(side, price, i),
           \A s \in Side, p \in Price : \A j \in DOMAIN book[s][p] :
               book[s][p][j].remaining # 0 \/ (s = side /\ p = price /\ j = i)
    PROVE  AllOpen'
  BY UnrestStayers DEF AllOpen

\* An order that stays open at its place leaves every order open.
LEMMA ResizeOpen ==
    ASSUME BookTyped, AllOpen, NEW side \in Side, NEW price \in Price,
           NEW i \in DOMAIN book[side][price], NEW qty, qty # 0,
           book' = [book EXCEPT ![side][price][i].remaining = qty]
    PROVE  AllOpen'
  <1>1. book[side][price] \in Seq(Order) /\ book[side][price][i] \in Order
    BY DEF BookTyped
  <1> QED
    BY <1>1 DEF AllOpen, BookTyped, Order

\* What rests has something left.
LEMMA RestOpen ==
    ASSUME TypeOK, AllOpen, Rest
    PROVE  AllOpen'
  <1> DEFINE order == [id |-> taker.id, participant |-> taker.participant,
                       remaining |-> taker.remaining]
             q == book[taker.side][taker.price]
  <1>1. /\ taker \in Taker /\ taker.side \in Side /\ taker.price \in Price
        /\ order.remaining # 0 /\ order \in Order
    BY DEF TypeOK, Rest, LoopEnds, Taker, Order
  <1>2. /\ q \in Seq(Order) /\ book'[taker.side][taker.price] = Append(q, order)
        /\ \A s \in Side, p \in Price :
              s # taker.side \/ p # taker.price => book'[s][p] = book[s][p]
    BY <1>1 DEF Rest, TypeOK
  <1> HIDE DEF order
  <1>3. \A j \in DOMAIN Append(q, order) :
            Append(q, order)[j] = order \/ (j \in DOMAIN q /\ Append(q, order)[j] = q[j])
    BY <1>1, <1>2
  <1>4. \A j \in DOMAIN Append(q, order) : Append(q, order)[j].remaining # 0
    BY <1>1, <1>3 DEF AllOpen
  <1> SUFFICES ASSUME NEW s \in Side, NEW p \in Price, NEW j \in DOMAIN book'[s][p]
               PROVE  book'[s][p][j].remaining # 0
    BY DEF AllOpen
  <1>5. CASE s = taker.side /\ p = taker.price
    BY <1>2, <1>4, <1>5
  <1>6. CASE s # taker.side \/ p # taker.price
    BY <1>2, <1>6 DEF AllOpen
  <1> QED
    BY <1>5, <1>6

\* A trade empties the front of the best facing level and no other order, and
\* exactly then the maker counts as filled.
LEMMA TradeEmpties ==
    ASSUME TypeOK, AllOpen, NEW p \in Price, Trade(p)
    PROVE  EmptyOrderIsFilledMaker'
  <1> DEFINE left == Oldest(p).remaining -
                        (IF taker.remaining < Oldest(p).remaining
                         THEN taker.remaining ELSE Oldest(p).remaining)
  <1>1. /\ taker \in Taker /\ pc = "match" /\ IsBest(Facing, p) /\ Facing \in Side
        /\ 1 \in DOMAIN book[Facing][p] /\ Oldest(p) \in Order
        /\ book[Facing][p] \in Seq(Order)
    BY BestTyped DEF Trade, Matching, TypeOK, BookTyped
  <1>2. /\ book' = [book EXCEPT ![Facing][p][1].remaining = left]
        /\ pc' = IF left = 0 THEN "filled" ELSE "match"
    <2>1. book' = [book EXCEPT ![Facing][p][1].remaining = left]
      BY <1>1 DEF Trade, Oldest, TypeOK
    <2>2. Oldest(p).remaining \in Nat /\ taker.remaining \in Nat
      BY <1>1 DEF Order, Taker
    <2>3. pc' = IF Oldest(p).remaining =
                      (IF taker.remaining < Oldest(p).remaining
                       THEN taker.remaining ELSE Oldest(p).remaining)
                THEN "filled" ELSE "match"
      BY DEF Trade
    <2> QED
      BY <2>1, <2>2, <2>3
  <1>3. Facing' = Facing
    BY <1>1 DEF Trade, Facing, Taker
  <1> HIDE DEF left
  <1>4. /\ \A s \in Side, q \in Price : DOMAIN book'[s][q] = DOMAIN book[s][q]
        /\ \A s \in Side, q \in Price : book'[s][q] = <<>> <=> book[s][q] = <<>>
        /\ book'[Facing][p][1].remaining = left
        /\ \A s \in Side, q \in Price : \A j \in DOMAIN book[s][q] :
              s # Facing \/ q # p \/ j # 1 => book'[s][q][j] = book[s][q][j]
    BY <1>1, <1>2 DEF TypeOK, Order
  <1>5. \A q \in Price : IsBest(Facing, q)' <=> q = p
    <2>1. \A q \in Price : IsBest(Facing, q)' <=> IsBest(Facing, q)
      BY <1>1, <1>3, <1>4 DEF IsBest, Levels
    <2> QED
      BY <1>1, <2>1, BestIsOne
  <1>6. CASE left = 0
    BY <1>1, <1>2, <1>3, <1>4, <1>5, <1>6 DEF EmptyOrderIsFilledMaker, AllOpen
  <1>7. CASE left # 0
    <2>1. AllOpen'
      BY <1>1, <1>4, <1>7 DEF AllOpen
    <2> QED
      BY <1>2, <1>7, <2>1 DEF EmptyOrderIsFilledMaker, AllOpen
  <1> QED
    BY <1>6, <1>7

\* Only the maker that a trade has just filled has nothing left, from on_trade to its
\* removal; handlers and later calls meet open orders (reference_engine.hpp:190-194).
THEOREM EmptyOrderIsAlwaysFilledMaker == Spec => []EmptyOrderIsFilledMaker
  <1>1. Init => EmptyOrderIsFilledMaker
    BY DEF Init, EmptyOrderIsFilledMaker
  <1>2. TypeOK /\ EmptyOrderIsFilledMaker /\ [Next]_vars => EmptyOrderIsFilledMaker'
    <2> SUFFICES ASSUME TypeOK, EmptyOrderIsFilledMaker, [Next]_vars
                 PROVE  EmptyOrderIsFilledMaker'
      OBVIOUS
    <2>0. BookTyped
      BY DEF TypeOK, BookTyped
    <2>1. ASSUME pc # "filled", pc' # "filled", book' = book
          PROVE  EmptyOrderIsFilledMaker'
      BY <2>1, OpenUnlessFilled DEF EmptyOrderIsFilledMaker, AllOpen
    <2>2. ASSUME NEW id \in OrderId, NEW i, pc = "idle", pc' # "filled",
                 RestsAt(id, i), Unrest(live[id].side, live[id].price, i)
          PROVE  EmptyOrderIsFilledMaker'
      <3>1. AllOpen'
        BY <2>0, <2>2, RestsAtTyped, UnrestOpen, OpenUnlessFilled, SMTT(60) DEF AllOpen
      <3> QED
        BY <2>2, <3>1 DEF EmptyOrderIsFilledMaker, AllOpen
    <2>3. ASSUME NEW id \in OrderId, NEW i, NEW price \in Price, NEW qty \in Qty,
                 Reduce(id, i, price, qty)
          PROVE  EmptyOrderIsFilledMaker'
      <3>1. /\ live[id].side \in Side /\ live[id].price \in Price
            /\ i \in DOMAIN book[live[id].side][live[id].price]
        BY <2>0, <2>3, RestsAtTyped, ZenonT(60) DEF Reduce
      <3>2. /\ pc = "idle" /\ pc' = pc /\ qty # 0
            /\ book' = [book EXCEPT ![live[id].side][live[id].price][i].remaining = qty]
        BY <2>3, SMTT(60) DEF Reduce
      <3>3. AllOpen'
        BY <2>0, <3>1, <3>2, ResizeOpen, OpenUnlessFilled
      <3> QED
        BY <3>2, <3>3, SMTT(60) DEF EmptyOrderIsFilledMaker, AllOpen
    <2>4. ASSUME NEW p \in Price, pc # "idle", pc' = "match", IsBest(Facing, p),
                 Unrest(Facing, p, 1), pc = "match" \/ pc = "filled"
          PROVE  EmptyOrderIsFilledMaker'
      <3>1. Facing \in Side /\ 1 \in DOMAIN book[Facing][p]
        BY <2>0, <2>4, BestTyped DEF TypeOK
      <3>2. \A s \in Side, q \in Price : \A j \in DOMAIN book[s][q] :
               book[s][q][j].remaining # 0 \/ (s = Facing /\ q = p /\ j = 1)
        BY <2>4, <3>1, BestIsOne DEF EmptyOrderIsFilledMaker
      <3>3. AllOpen'
        BY <2>0, <2>4, <3>1, <3>2, UnrestOpen
      <3> QED
        BY <2>4, <3>3 DEF EmptyOrderIsFilledMaker, AllOpen
    <2>5. ASSUME NEW p \in Price, Trade(p) PROVE EmptyOrderIsFilledMaker'
      BY <2>5, TradeEmpties, OpenUnlessFilled DEF Trade, Matching
    <2>6. ASSUME Rest PROVE EmptyOrderIsFilledMaker'
      <3>1. pc = "match" /\ pc' = "idle"
        BY <2>6 DEF Rest, LoopEnds, Return
      <3>2. AllOpen'
        BY <2>6, <3>1, RestOpen, OpenUnlessFilled
      <3> QED
        BY <3>1, <3>2 DEF EmptyOrderIsFilledMaker, AllOpen
    <2> HIDE DEF EmptyOrderIsFilledMaker
    <2>7. Enter => EmptyOrderIsFilledMaker'
      BY <2>1, <2>2, <2>3
         DEF Enter, RejectNew, RejectUnknown, AddLimit, AddMarket, Cancel, Replace, StartMatch
    <2>8. Continue => EmptyOrderIsFilledMaker'
      BY <2>1, <2>4, <2>5, <2>6
         DEF Continue, StpCancelIncoming, StpCancelResting, RemoveFilled, FullyMatched,
             DropRemainder, Matching, LoopEnds, Return
    <2>9. UNCHANGED vars => EmptyOrderIsFilledMaker'
      BY DEF vars, EmptyOrderIsFilledMaker, IsBest, Levels, Facing, Opposite
    <2> QED
      BY <2>7, <2>8, <2>9 DEF Next
  <1> QED
    BY <1>1, <1>2, TypeCorrect, PTL DEF Spec

-----------------------------------------------------------------------------
(* Time priority: what one step may do to a FIFO                           *)

Distinct(q) == \A i, j \in DOMAIN q : q[i].id = q[j].id => i = j
Fair(old, new) == FairStep(old, new) /\ NoGrowth(old, new)

\* The quantities in a FIFO are numbers.
LEMMA SizesAreNat ==
    ASSUME NEW q \in Seq(Order)
    PROVE  \A j \in DOMAIN q : q[j].remaining \in Nat
  <1>1. \A j \in DOMAIN q : q[j] \in Order
    OBVIOUS
  <1> QED
    BY <1>1 DEF Order

\* deque::erase keeps the order of those who stay.
LEMMA FairRemoval ==
    ASSUME NEW q \in Seq(Order), Distinct(q), NEW i \in DOMAIN q
    PROVE  Fair(q, RemoveAt(q, i))
  <1> DEFINE r == RemoveAt(q, i)
             K(j) == IF j < i THEN j ELSE j + 1
  <1>1. i \in 1 .. Len(q) /\ DOMAIN q = 1 .. Len(q) /\ Len(q) \in Nat
    OBVIOUS
  <1>2. /\ r \in Seq(Order) /\ Len(r) = Len(q) - 1
        /\ \A j \in DOMAIN r : r[j] = IF j < i THEN q[j] ELSE q[j + 1]
    BY RemoveAtShape
  <1> HIDE DEF r
  <1>3. \A j \in DOMAIN r : j \in Int /\ K(j) \in DOMAIN q /\ r[j] = q[K(j)]
    BY <1>1, <1>2
  <1>4. FairStep(q, r)
    <2> SUFFICES ASSUME NEW j \in DOMAIN r, NEW l \in DOMAIN r, j < l,
                        NEW m \in DOMAIN q, q[m].id = r[l].id
                 PROVE  \E k \in 1 .. (m - 1) : q[k].id = r[j].id
      BY DEF FairStep
    <2>1. m = K(l)
      BY <1>3 DEF Distinct
    <2>2. K(j) \in 1 .. (K(l) - 1)
      BY <1>1, <1>3
    <2> QED
      BY <1>3, <2>1, <2>2
  <1>5. NoGrowth(q, r)
    <2> SUFFICES ASSUME NEW j \in DOMAIN r, NEW m \in DOMAIN q, q[m].id = r[j].id
                 PROVE  r[j].remaining <= q[m].remaining
      BY DEF NoGrowth
    <2>1. m = K(j) /\ r[j] = q[m]
      BY <1>3 DEF Distinct
    <2>2. q[m].remaining \in Nat
      BY SizesAreNat
    <2> QED
      BY <2>1, <2>2
  <1> QED
    BY <1>4, <1>5 DEF Fair, r

\* push_back puts the newcomer behind everybody.
LEMMA FairArrival ==
    ASSUME NEW q \in Seq(Order), Distinct(q), NEW order \in Order,
           \A j \in DOMAIN q : q[j].id # order.id
    PROVE  Fair(q, Append(q, order))
  <1> DEFINE r == Append(q, order)
  <1>1. /\ DOMAIN q = 1 .. Len(q) /\ Len(q) \in Nat /\ DOMAIN r = 1 .. (Len(q) + 1)
        /\ \A j \in DOMAIN q : r[j] = q[j] /\ q[j].remaining \in Nat
        /\ r[Len(q) + 1] = order
    BY SizesAreNat
  <1> HIDE DEF r
  <1>2. \A l \in DOMAIN r, m \in DOMAIN q : q[m].id = r[l].id => l = m
    <2> SUFFICES ASSUME NEW l \in DOMAIN r, NEW m \in DOMAIN q, q[m].id = r[l].id
                 PROVE  l = m
      OBVIOUS
    <2>1. l # Len(q) + 1
      BY <1>1
    <2>2. l \in DOMAIN q /\ r[l] = q[l]
      BY <1>1, <2>1
    <2> QED
      BY <2>2 DEF Distinct
  <1>3. FairStep(q, r)
    BY <1>1, <1>2 DEF FairStep
  <1>4. NoGrowth(q, r)
    BY <1>1, <1>2 DEF NoGrowth
  <1> QED
    BY <1>3, <1>4 DEF Fair, r

\* A fill or a reduction in place moves nobody.
LEMMA FairResize ==
    ASSUME NEW q \in Seq(Order), NEW r \in Seq(Order), Distinct(q), DOMAIN r = DOMAIN q,
           \A j \in DOMAIN q : r[j].id = q[j].id /\ r[j].remaining <= q[j].remaining
    PROVE  Fair(q, r)
  <1>1. DOMAIN q = 1 .. Len(q) /\ Len(q) \in Nat
    OBVIOUS
  <1>2. FairStep(q, r)
    BY <1>1 DEF FairStep, Distinct
  <1>3. NoGrowth(q, r)
    BY DEF NoGrowth, Distinct
  <1> QED
    BY <1>2, <1>3 DEF Fair

\* No FIFO changed, or one did, and fairly.
LEMMA FairOneLevel ==
    ASSUME Filed, NEW side \in Side, NEW price \in Price,
           \A s \in Side, p \in Price : s # side \/ p # price => book'[s][p] = book[s][p],
           Fair(book[side][price], book'[side][price])
    PROVE  \A s \in Side, p \in Price : Fair(book[s][p], book'[s][p])
  <1> SUFFICES ASSUME NEW s \in Side, NEW p \in Price
               PROVE  Fair(book[s][p], book'[s][p])
    OBVIOUS
  <1>1. CASE s = side /\ p = price
    BY <1>1
  <1>2. CASE s # side \/ p # price
    <2>1. book'[s][p] = book[s][p] /\ book[s][p] \in Seq(Order) /\ Distinct(book[s][p])
      BY <1>2 DEF Filed, BookTyped, IdsOnce, Distinct
    <2>2. \A j \in DOMAIN book[s][p] : book[s][p][j].remaining \in Nat
      BY <2>1, SizesAreNat
    <2>3. Fair(book[s][p], book[s][p])
      BY <2>1, <2>2, FairResize
    <2> QED
      BY <2>1, <2>3
  <1> QED
    BY <1>1, <1>2

\* A step that leaves the book alone is fair to every level.
LEMMA FairSame ==
    ASSUME Filed, book' = book
    PROVE  \A s \in Side, p \in Price : Fair(book[s][p], book'[s][p])
  <1> SUFFICES ASSUME NEW s \in Side, NEW p \in Price
               PROVE  Fair(book[s][p], book'[s][p])
    OBVIOUS
  <1>1. book[s][p] \in Seq(Order) /\ Distinct(book[s][p])
    BY DEF Filed, BookTyped, IdsOnce, Distinct
  <1>2. \A j \in DOMAIN book[s][p] : book[s][p][j].remaining \in Nat
    BY <1>1, SizesAreNat
  <1> QED
    BY <1>1, <1>2, FairResize

\* A cancel, a self-trade removal or the end of a filled maker is fair to every level.
LEMMA UnrestFair ==
    ASSUME Filed, NEW side \in Side, NEW price \in Price,
           NEW i \in DOMAIN book[side][price], Unrest(side, price, i)
    PROVE  \A s \in Side, p \in Price : Fair(book[s][p], book'[s][p])
  <1>1. /\ book'[side][price] = RemoveAt(book[side][price], i)
        /\ \A s \in Side, p \in Price : s # side \/ p # price => book'[s][p] = book[s][p]
    BY UnrestShape DEF Filed
  <1>2. book[side][price] \in Seq(Order) /\ Distinct(book[side][price])
    BY DEF Filed, BookTyped, IdsOnce, Distinct
  <1>3. Fair(book[side][price], RemoveAt(book[side][price], i))
    BY <1>2, FairRemoval
  <1> QED
    BY <1>1, <1>3, FairOneLevel

\* A trade or an in-place reduction is fair to every level.
LEMMA ResizeFair ==
    ASSUME Filed, BookTyped', live' = live, NEW side \in Side, NEW price \in Price,
           NEW i \in DOMAIN book[side][price], NEW qty,
           qty <= book[side][price][i].remaining,
           book' = [book EXCEPT ![side][price][i].remaining = qty]
    PROVE  \A s \in Side, p \in Price : Fair(book[s][p], book'[s][p])
  <1> DEFINE q == book[side][price]
             r == book'[side][price]
  <1>1. /\ DOMAIN r = DOMAIN q /\ \A j \in DOMAIN q : r[j].id = q[j].id
        /\ q \in Seq(Order) /\ r \in Seq(Order) /\ Distinct(q)
    BY ResizeFiled DEF Filed, BookTyped, IdsOnce, Distinct
  <1>2. /\ \A s \in Side, p \in Price : s # side \/ p # price => book'[s][p] = book[s][p]
        /\ r = [q EXCEPT ![i].remaining = qty]
    BY DEF Filed, BookTyped
  <1>3. \A j \in DOMAIN q : q[j] \in Order /\ q[j].remaining \in Nat
    BY <1>1, SizesAreNat
  <1>4. \A j \in DOMAIN q : r[j].remaining <= q[j].remaining
    <2> SUFFICES ASSUME NEW j \in DOMAIN q PROVE r[j].remaining <= q[j].remaining
      OBVIOUS
    <2>1. CASE j = i
      <3>1. r[i].remaining = qty
        BY <1>1, <1>2, <1>3 DEF Order
      <3> QED
        BY <2>1, <3>1
    <2>2. CASE j # i
      BY <1>1, <1>2, <1>3, <2>2
    <2> QED
      BY <2>1, <2>2
  <1> HIDE DEF q, r
  <1>5. Fair(q, r)
    BY <1>1, <1>4, FairResize
  <1> QED
    BY <1>2, <1>5, FairOneLevel DEF q, r

\* The remainder of a call rests behind everybody, at its own level only.
LEMMA RestFair ==
    ASSUME TypeOK, Filed, TakerIdFree, Rest
    PROVE  \A s \in Side, p \in Price : Fair(book[s][p], book'[s][p])
  <1> DEFINE order == [id |-> taker.id, participant |-> taker.participant,
                       remaining |-> taker.remaining]
             q == book[taker.side][taker.price]
  <1>1. /\ taker \in Taker /\ taker.side \in Side /\ taker.price \in Price
        /\ live[taker.id] = None /\ order \in Order
    BY DEF TypeOK, Rest, LoopEnds, Taker, TakerIdFree, Order
  <1>2. /\ book'[taker.side][taker.price] = Append(q, order)
        /\ \A s \in Side, p \in Price :
              s # taker.side \/ p # taker.price => book'[s][p] = book[s][p]
    BY <1>1 DEF Rest, TypeOK
  <1>3. q \in Seq(Order) /\ Distinct(q)
    BY <1>1 DEF Filed, BookTyped, IdsOnce, Distinct
  <1>4. \A j \in DOMAIN q : q[j].id # order.id
    <2> SUFFICES ASSUME NEW j \in DOMAIN q PROVE q[j].id # taker.id
      OBVIOUS
    <2>1. live[q[j].id] = [side |-> taker.side, price |-> taker.price]
      BY <1>1 DEF Filed, RefsRight
    <2>2. [side |-> taker.side, price |-> taker.price] \in LiveRef
      BY <1>1 DEF LiveRef
    <2> QED
      BY <1>1, <2>1, <2>2, NoneAssumption
  <1>5. Fair(q, Append(q, order))
    BY <1>1, <1>3, <1>4, FairArrival
  <1> QED
    BY <1>1, <1>2, <1>5, FairOneLevel

\* Time priority over any number of calls: orders that stay in a FIFO keep their
\* order and never grow, and arrivals stand behind them.
THEOREM PriorityAlwaysKept == Spec => PriorityKept
  <1> DEFINE Goal == \A s \in Side, p \in Price : Fair(book[s][p], book'[s][p])
  <1>1. IInv /\ [Next]_vars => Goal
    <2> SUFFICES ASSUME IInv, [Next]_vars PROVE Goal
      OBVIOUS
    <2>0. TypeOK /\ TypeOK' /\ Filed /\ BookTyped /\ BookTyped' /\ TakerIdFree
      BY TypeInductive DEF IInv, Filed, TypeOK, BookTyped
    <2> HIDE DEF Goal
    <2>1. ASSUME book' = book PROVE Goal
      BY <2>0, <2>1, FairSame DEF Goal
    <2>2. ASSUME NEW id \in OrderId, NEW i,
                 RestsAt(id, i), Unrest(live[id].side, live[id].price, i)
          PROVE  Goal
      BY <2>0, <2>2, RestsAtTyped, UnrestFair, SMTT(60) DEF Goal
    <2>3. ASSUME NEW id \in OrderId, NEW i, NEW price \in Price, NEW qty \in Qty,
                 Reduce(id, i, price, qty)
          PROVE  Goal
      <3>1. /\ live[id].side \in Side /\ live[id].price \in Price
            /\ i \in DOMAIN book[live[id].side][live[id].price]
        BY <2>0, <2>3, RestsAtTyped, ZenonT(60) DEF Reduce
      <3>2. /\ live' = live /\ qty <= book[live[id].side][live[id].price][i].remaining
            /\ book' = [book EXCEPT ![live[id].side][live[id].price][i].remaining = qty]
        BY <2>3 DEF Reduce, CanReduce
      <3> QED
        BY <2>0, <3>1, <3>2, ResizeFair, ZenonT(60) DEF Goal
    <2>4. ASSUME NEW p \in Price, taker \in Taker, IsBest(Facing, p), Unrest(Facing, p, 1)
          PROVE  Goal
      BY <2>0, <2>4, BestTyped, UnrestFair DEF Goal
    <2>5. ASSUME NEW p \in Price, Trade(p) PROVE Goal
      <3>1. /\ Facing \in Side /\ 1 \in DOMAIN book[Facing][p] /\ live' = live
        BY <2>0, <2>5, TradeShape
      <3>2. PICK left \in Nat : /\ left <= Oldest(p).remaining
                                /\ book' = [book EXCEPT ![Facing][p][1].remaining = left]
        BY <2>0, <2>5, TradeShape
      <3> QED
        BY <2>0, <3>1, <3>2, ResizeFair DEF Goal, Oldest
    <2>6. ASSUME Rest PROVE Goal
      BY <2>0, <2>6, RestFair DEF Goal
    <2>7. Enter => Goal
      BY <2>1, <2>2, <2>3
         DEF Enter, RejectNew, RejectUnknown, AddLimit, AddMarket, Cancel, Replace
    <2>8. Continue => Goal
      BY <2>0, <2>1, <2>4, <2>5, <2>6
         DEF Continue, StpCancelIncoming, StpCancelResting, RemoveFilled, FullyMatched,
             DropRemainder, Matching, TypeOK
    <2> QED
      BY <2>1, <2>7, <2>8 DEF Next, vars
  <1>2. IInv /\ [Next]_vars =>
           [\A side \in Side, p \in Price :
               /\ FairStep(book[side][p], book'[side][p])
               /\ NoGrowth(book[side][p], book'[side][p])]_vars
    BY <1>1 DEF Fair
  <1> QED
    BY <1>2, InvAlways, PTL DEF Spec, PriorityKept

-----------------------------------------------------------------------------
(* Events (EventLedger)                                                    *)

\* The ledger has the open quantity of every resting order, of the call in
\* progress, and nothing for any other id.
OpenBooked == \A side \in Side, p \in Price : \A i \in DOMAIN book[side][p] :
    ledger[book[side][p][i].id] = book[side][p][i].remaining
CallBooked == pc # "idle" => ledger[taker.id] = taker.remaining
InCall(id) == pc # "idle" /\ taker.id = id
OthersZero == \A id \in OrderId : live[id] = None /\ ~InCall(id) => ledger[id] = 0

LedgerInv == ledger \in [OrderId -> Int] /\ OpenBooked /\ CallBooked /\ OthersZero

-----------------------------------------------------------------------------
\* A resting order has a live id and is filed by it.
LEMMA RestingIsLive ==
    ASSUME Filed, NEW side \in Side, NEW p \in Price, NEW i \in DOMAIN book[side][p]
    PROVE  /\ book[side][p][i] \in Order /\ book[side][p][i].id \in OrderId
           /\ live[book[side][p][i].id] = [side |-> side, price |-> p]
           /\ live[book[side][p][i].id] # None
  <1>1. book[side][p][i] \in Order
    BY DEF Filed, BookTyped
  <1>2. live[book[side][p][i].id] = [side |-> side, price |-> p]
    BY DEF Filed, RefsRight
  <1>3. [side |-> side, price |-> p] \in LiveRef
    BY DEF LiveRef
  <1> QED
    BY <1>1, <1>2, <1>3, NoneAssumption DEF Order

\* Orders at two places have two ids.
LEMMA OneIdOnePlace ==
    ASSUME Filed, NEW side \in Side, NEW p \in Price, NEW i \in DOMAIN book[side][p],
           NEW s \in Side, NEW q \in Price, NEW j \in DOMAIN book[s][q],
           book[side][p][i].id = book[s][q][j].id
    PROVE  side = s /\ p = q /\ i = j
  <1>1. [side |-> side, price |-> p] = [side |-> s, price |-> q]
    BY RestingIsLive
  <1>2. side = s /\ p = q
    BY <1>1
  <1> QED
    BY <1>2 DEF Filed, IdsOnce

\* The ledger is right for who stays if it changes for the order that leaves only.
LEMMA UnrestBooked ==
    ASSUME Filed, OpenBooked, NEW side \in Side, NEW price \in Price,
           NEW i \in DOMAIN book[side][price], Unrest(side, price, i),
           \A id \in OrderId : id # book[side][price][i].id => ledger'[id] = ledger[id]
    PROVE  OpenBooked'
  <1> SUFFICES ASSUME NEW s \in Side, NEW p \in Price, NEW j \in DOMAIN book'[s][p]
               PROVE  ledger'[book'[s][p][j].id] = book'[s][p][j].remaining
    BY DEF OpenBooked
  <1>4. PICK k \in DOMAIN book[s][p] : /\ book'[s][p][j] = book[s][p][k]
                                       /\ s # side \/ p # price \/ k # i
    BY UnrestStayers DEF Filed
  <1>5. book[s][p][k].id # book[side][price][i].id
    BY <1>4, OneIdOnePlace
  <1>6. book[s][p][k].id \in OrderId
    BY RestingIsLive
  <1> QED
    BY <1>4, <1>5, <1>6 DEF OpenBooked

\* An order that leaves with the quantity the ledger gives its id set to zero, or
\* with nothing left, leaves a ledger that is right for everybody.
LEMMA DepartureBooked ==
    ASSUME Filed, LedgerInv, TakerIdFree, NEW side \in Side, NEW price \in Price,
           NEW i \in DOMAIN book[side][price], Unrest(side, price, i),
           ledger' = [ledger EXCEPT ![book[side][price][i].id] = 0],
           UNCHANGED taker, pc' = "idle" <=> pc = "idle"
    PROVE  LedgerInv'
  <1> DEFINE x == book[side][price][i].id
  <1>0. \A id \in OrderId : live'[id] = IF id = x THEN None ELSE live[id]
    BY UnrestShape DEF Filed
  <1>1. /\ x \in OrderId /\ live[x] # None
        /\ \A id \in OrderId : live'[id] = IF id = x THEN None ELSE live[id]
    BY <1>0, RestingIsLive
  <1>2. ledger' \in [OrderId -> Int] /\ ledger'[x] = 0
    BY <1>1 DEF LedgerInv
  <1>3. \A id \in OrderId : id # x => ledger'[id] = ledger[id]
    BY <1>1 DEF LedgerInv
  <1>4. OpenBooked'
    BY <1>3, UnrestBooked DEF LedgerInv
  <1> HIDE DEF x
  <1>5. CallBooked'
    <2> SUFFICES ASSUME pc # "idle" PROVE ledger'[taker.id] = taker.remaining
      BY DEF CallBooked
    <2>1. taker.id # x /\ ledger[taker.id] = taker.remaining
      BY <1>1 DEF LedgerInv, CallBooked, TakerIdFree
    <2>2. CASE taker.id \in OrderId
      BY <1>3, <2>1, <2>2
    <2>3. CASE taker.id \notin OrderId
      BY <2>1, <2>3 DEF LedgerInv
    <2> QED
      BY <2>2, <2>3
  <1>6. OthersZero'
    BY <1>1, <1>2, <1>3 DEF OthersZero, InCall, LedgerInv
  <1> QED
    BY <1>2, <1>4, <1>5, <1>6 DEF LedgerInv

\* What the listener does with each event.
LEMMA BookedEvents ==
    /\ \A id, side, price, qty :
          Booked(Accepted(id, side, price, qty)) = [ledger EXCEPT ![id] = qty]
    /\ \A t, maker, price, fill :
          Booked(Traded(t, maker, price, fill))
            = [ledger EXCEPT ![t.id] = @ - fill, ![maker.id] = @ - fill]
    /\ \A id, reason : Booked(Cancelled(id, reason)) = [ledger EXCEPT ![id] = 0]
    /\ \A id, reason : Booked(Rejected(id, reason)) = ledger
  <1>1. ASSUME NEW id, NEW side, NEW price, NEW qty
        PROVE  Booked(Accepted(id, side, price, qty)) = [ledger EXCEPT ![id] = qty]
    BY DEF Booked, Accepted
  <1>2. ASSUME NEW t, NEW maker, NEW price, NEW fill
        PROVE  Booked(Traded(t, maker, price, fill))
                 = [ledger EXCEPT ![t.id] = @ - fill, ![maker.id] = @ - fill]
    BY DEF Booked, Traded
  <1>3. ASSUME NEW id, NEW reason
        PROVE  Booked(Cancelled(id, reason)) = [ledger EXCEPT ![id] = 0]
    BY DEF Booked, Cancelled
  <1>4. ASSUME NEW id, NEW reason
        PROVE  Booked(Rejected(id, reason)) = ledger
    BY DEF Booked, Rejected
  <1> QED
    BY <1>1, <1>2, <1>3, <1>4

\* No order rests under the id of the call in progress.
LEMMA TakerRestsNowhere ==
    ASSUME Filed, TakerIdFree, pc # "idle",
           NEW side \in Side, NEW p \in Price, NEW i \in DOMAIN book[side][p]
    PROVE  book[side][p][i].id # taker.id
  BY RestingIsLive, ZenonT(60) DEF TakerIdFree

\* A new call opens the quantity that was accepted.
LEMMA AcceptBooked ==
    ASSUME Filed, LedgerInv, NEW id \in OrderId, NEW qty \in Qty,
           pc = "idle", pc' = "match", live[id] = None, UNCHANGED <<book, live>>,
           taker'.id = id, taker'.remaining = qty, ledger' = [ledger EXCEPT ![id] = qty]
    PROVE  LedgerInv'
  <1>1. ledger' \in [OrderId -> Int]
    BY QtyAssumption DEF LedgerInv
  <1>2. ledger'[id] = qty /\ \A x \in OrderId : x # id => ledger'[x] = ledger[x]
    BY DEF LedgerInv
  <1>3. OpenBooked'
    <2> SUFFICES ASSUME NEW s \in Side, NEW p \in Price, NEW j \in DOMAIN book[s][p]
                 PROVE  ledger'[book[s][p][j].id] = book[s][p][j].remaining
      BY DEF OpenBooked
    <2>1. book[s][p][j].id # id /\ book[s][p][j].id \in OrderId
      BY RestingIsLive
    <2> QED
      BY <1>2, <2>1 DEF LedgerInv, OpenBooked
  <1>4. CallBooked'
    BY <1>2 DEF CallBooked
  <1>5. OthersZero'
    BY <1>2 DEF OthersZero, InCall, LedgerInv
  <1> QED
    BY <1>1, <1>3, <1>4, <1>5 DEF LedgerInv

\* A reduction in place: the call tells the listener what is left.
LEMMA ReduceBooked ==
    ASSUME TypeOK, Filed, LedgerInv, NEW id \in OrderId, NEW i, NEW price \in Price,
           NEW qty \in Qty, Reduce(id, i, price, qty), ledger' = [ledger EXCEPT ![id] = qty]
    PROVE  LedgerInv'
  <1>1. /\ live[id].side \in Side /\ live[id].price \in Price
        /\ i \in DOMAIN book[live[id].side][live[id].price]
        /\ book[live[id].side][live[id].price][i].id = id
    BY RestsAtTyped, ZenonT(60) DEF Reduce, Filed
  <1>2. /\ pc = "idle" /\ pc' = "idle" /\ live' = live /\ live[id] # None
        /\ book' = [book EXCEPT ![live[id].side][live[id].price][i].remaining = qty]
    BY DEF Reduce, RestsAt
  <1>3. ledger'[id] = qty /\ \A x \in OrderId : x # id => ledger'[x] = ledger[x]
    BY DEF LedgerInv
  <1>4. OpenBooked'
    <2> SUFFICES ASSUME NEW s \in Side, NEW p \in Price, NEW j \in DOMAIN book'[s][p]
                 PROVE  ledger'[book'[s][p][j].id] = book'[s][p][j].remaining
      BY DEF OpenBooked
    <2>1. /\ j \in DOMAIN book[s][p] /\ book[s][p] \in Seq(Order)
          /\ book[live[id].side][live[id].price] \in Seq(Order)
      BY <1>1, <1>2 DEF Filed, BookTyped
    <2>2. book[s][p][j] \in Order /\ book[s][p][j].id \in OrderId
      BY <2>1, RestingIsLive
    <2>3. CASE s = live[id].side /\ p = live[id].price /\ j = i
      <3>1. book'[s][p][j].remaining = qty /\ book'[s][p][j].id = id
        BY <1>1, <1>2, <2>1, <2>2, <2>3 DEF TypeOK, Order
      <3> QED
        BY <1>3, <3>1
    <2>4. CASE ~(s = live[id].side /\ p = live[id].price /\ j = i)
      <3>1. book'[s][p][j] = book[s][p][j]
        BY <1>1, <1>2, <2>1, <2>4 DEF TypeOK
      <3>2. book[s][p][j].id # id
        BY <1>1, <2>1, <2>4, OneIdOnePlace
      <3> QED
        BY <1>3, <2>1, <2>2, <3>1, <3>2 DEF LedgerInv, OpenBooked
    <2> QED
      BY <2>3, <2>4
  <1>5. ledger' \in [OrderId -> Int]
    BY QtyAssumption DEF LedgerInv
  <1>6. OthersZero'
    BY <1>2, <1>3 DEF OthersZero, InCall, LedgerInv
  <1> QED
    BY <1>2, <1>4, <1>5, <1>6 DEF LedgerInv, CallBooked

\* A replacement takes its order from the book into the call, with the new quantity.
LEMMA ReplaceBooked ==
    ASSUME TypeOK, Filed, LedgerInv, NEW id \in OrderId, NEW i, NEW price \in Price,
           NEW qty \in Qty, Replace(id, i, price, qty), ledger' = [ledger EXCEPT ![id] = qty]
    PROVE  LedgerInv'
  <1>1. /\ live[id].side \in Side /\ live[id].price \in Price
        /\ i \in DOMAIN book[live[id].side][live[id].price]
        /\ book[live[id].side][live[id].price][i].id = id
    BY RestsAtTyped, ZenonT(60) DEF Replace, Filed
  <1>2. /\ pc = "idle" /\ pc' = "match" /\ Unrest(live[id].side, live[id].price, i)
        /\ taker'.id = id /\ taker'.remaining = qty
    BY DEF Replace, StartMatch
  <1>3. ledger'[id] = qty /\ \A x \in OrderId : x # id => ledger'[x] = ledger[x]
    BY DEF LedgerInv
  <1>4. \A x \in OrderId : live'[x] = IF x = id THEN None ELSE live[x]
    BY <1>1, <1>2, UnrestShape DEF Filed
  <1>5. OpenBooked'
    BY <1>1, <1>2, <1>3, UnrestBooked DEF LedgerInv
  <1>6. ledger' \in [OrderId -> Int]
    BY QtyAssumption DEF LedgerInv
  <1>7. CallBooked'
    BY <1>2, <1>3 DEF CallBooked
  <1>8. OthersZero'
    BY <1>2, <1>3, <1>4 DEF OthersZero, InCall, LedgerInv
  <1> QED
    BY <1>5, <1>6, <1>7, <1>8, SMTT(60) DEF LedgerInv

\* A trade takes its quantity from the taker and from the maker.
LEMMA TradeBooked ==
    ASSUME TypeOK, Filed, TakerIdFree, LedgerInv, NEW p \in Price, Trade(p),
           ledger' = Booked(event')
    PROVE  LedgerInv'
  <1> DEFINE fill == IF taker.remaining < Oldest(p).remaining
                       THEN taker.remaining ELSE Oldest(p).remaining
             maker == Oldest(p)
             left == maker.remaining - fill
  <1>1. /\ taker \in Taker /\ pc = "match" /\ Facing \in Side
        /\ 1 \in DOMAIN book[Facing][p] /\ maker \in Order
        /\ book[Facing][p] \in Seq(Order)
    BY BestTyped DEF Trade, Matching, TypeOK, BookTyped
  <1>2. /\ fill \in Nat /\ taker.id \in OrderId /\ taker.remaining \in Nat
        /\ maker.id \in OrderId /\ maker.remaining \in Nat
    BY <1>1 DEF Taker, Order
  <1>3. /\ taker' = [taker EXCEPT !.remaining = taker.remaining - fill]
        /\ book' = [book EXCEPT ![Facing][p][1].remaining = left]
        /\ event' = Traded(taker, maker, p, fill)
        /\ live' = live /\ pc' # "idle"
    BY <1>1 DEF Trade, Oldest, TypeOK
  <1>4. maker.id # taker.id /\ live[maker.id] # None /\ live[taker.id] = None
    BY <1>1, TakerRestsNowhere, RestingIsLive DEF Oldest, TakerIdFree
  <1> HIDE DEF fill, left
  <1>5. /\ ledger' \in [OrderId -> Int]
        /\ ledger'[taker.id] = ledger[taker.id] - fill
        /\ ledger'[maker.id] = ledger[maker.id] - fill
        /\ \A x \in OrderId : x # taker.id /\ x # maker.id => ledger'[x] = ledger[x]
    <2>1. ledger' = [ledger EXCEPT ![taker.id] = @ - fill, ![maker.id] = @ - fill]
      BY <1>3, BookedEvents
    <2> QED
      BY <1>2, <1>4, <2>1 DEF LedgerInv
  <1>6. taker'.id = taker.id /\ taker'.remaining = taker.remaining - fill
    BY <1>1, <1>3 DEF Taker
  <1>7. CallBooked'
    BY <1>1, <1>5, <1>6 DEF LedgerInv, CallBooked
  <1>8. OthersZero'
    BY <1>1, <1>3, <1>4, <1>5, <1>6 DEF LedgerInv, OthersZero, InCall
  <1>9. OpenBooked'
    <2> SUFFICES ASSUME NEW s \in Side, NEW q \in Price, NEW j \in DOMAIN book'[s][q]
                 PROVE  ledger'[book'[s][q][j].id] = book'[s][q][j].remaining
      BY DEF OpenBooked
    <2>1. j \in DOMAIN book[s][q] /\ book[s][q] \in Seq(Order)
      BY <1>1, <1>3 DEF TypeOK
    <2>2. book[s][q][j] \in Order /\ book[s][q][j].id \in OrderId
      BY <2>1, RestingIsLive
    <2>3. CASE s = Facing /\ q = p /\ j = 1
      <3>1. book'[s][q][j].remaining = left /\ book'[s][q][j].id = maker.id
        BY <1>1, <1>3, <2>1, <2>2, <2>3 DEF TypeOK, Order, Oldest
      <3>2. ledger[maker.id] = maker.remaining
        BY <1>1 DEF LedgerInv, OpenBooked, Oldest
      <3> QED
        BY <1>5, <3>1, <3>2 DEF left
    <2>4. CASE ~(s = Facing /\ q = p /\ j = 1)
      <3>1. book'[s][q][j] = book[s][q][j]
        BY <1>1, <1>3, <2>1, <2>4 DEF TypeOK
      <3>2. book[s][q][j].id # maker.id
        BY <1>1, <2>1, <2>4, OneIdOnePlace DEF Oldest
      <3>3. book[s][q][j].id # taker.id
        BY <1>1, <2>1, TakerRestsNowhere
      <3> QED
        BY <1>5, <2>1, <2>2, <3>1, <3>2, <3>3 DEF LedgerInv, OpenBooked
    <2> QED
      BY <2>3, <2>4
  <1> QED
    BY <1>5, <1>7, <1>8, <1>9 DEF LedgerInv

\* The remainder of a call becomes the order that rests.
LEMMA RestBooked ==
    ASSUME TypeOK, Filed, TakerIdFree, LedgerInv, Rest, UNCHANGED ledger
    PROVE  LedgerInv'
  <1> DEFINE order == [id |-> taker.id, participant |-> taker.participant,
                       remaining |-> taker.remaining]
             q == book[taker.side][taker.price]
  <1>1. /\ taker \in Taker /\ taker.side \in Side /\ taker.price \in Price
        /\ taker.id \in OrderId /\ pc # "idle" /\ pc' = "idle"
    BY DEF TypeOK, Rest, LoopEnds, Return, Taker
  <1>2. /\ q \in Seq(Order) /\ book'[taker.side][taker.price] = Append(q, order)
        /\ \A s \in Side, p \in Price :
              s # taker.side \/ p # taker.price => book'[s][p] = book[s][p]
    BY <1>1 DEF Rest, TypeOK
  <1>3. order.id = taker.id /\ order.remaining = taker.remaining /\ order \in Order
    BY <1>1 DEF Taker, Order
  <1>4. live'[taker.id] # None /\ \A id \in OrderId : id # taker.id => live'[id] = live[id]
    <2>1. [side |-> taker.side, price |-> taker.price] \in LiveRef
      BY <1>1 DEF LiveRef
    <2>2. live' = [live EXCEPT ![taker.id] = [side |-> taker.side, price |-> taker.price]]
      BY DEF Rest
    <2> QED
      BY <1>1, <2>1, <2>2, NoneAssumption DEF TypeOK
  <1> HIDE DEF order
  <1>5. OpenBooked'
    <2> SUFFICES ASSUME NEW s \in Side, NEW p \in Price, NEW j \in DOMAIN book'[s][p]
                 PROVE  ledger[book'[s][p][j].id] = book'[s][p][j].remaining
      BY DEF OpenBooked
    <2>1. CASE book'[s][p][j] = order
      BY <1>1, <1>3, <2>1 DEF LedgerInv, CallBooked
    <2>2. CASE j \in DOMAIN book[s][p] /\ book'[s][p][j] = book[s][p][j]
      BY <2>2 DEF LedgerInv, OpenBooked
    <2>3. CASE s = taker.side /\ p = taker.price
      <3>1. \A k \in DOMAIN Append(q, order) :
               \/ Append(q, order)[k] = order
               \/ k \in DOMAIN q /\ Append(q, order)[k] = q[k]
        BY <1>2, <1>3
      <3> QED
        BY <1>2, <2>1, <2>2, <2>3, <3>1
    <2>4. CASE s # taker.side \/ p # taker.price
      BY <1>2, <2>2, <2>4
    <2> QED
      BY <2>3, <2>4
  <1>6. OthersZero'
    BY <1>1, <1>4 DEF OthersZero, InCall, LedgerInv
  <1> QED
    BY <1>1, <1>5, <1>6 DEF LedgerInv, CallBooked

\* A call returns with nothing left of the taker, by the ledger too.
LEMMA ReturnBooked ==
    ASSUME TypeOK, Filed, TakerIdFree, LedgerInv, pc # "idle", Return,
           UNCHANGED <<book, live>>,
           \/ ledger' = [ledger EXCEPT ![taker.id] = 0]
           \/ taker.remaining = 0 /\ UNCHANGED ledger
    PROVE  LedgerInv'
  <1>1. taker \in Taker /\ taker.id \in OrderId /\ pc' = "idle"
    BY DEF TypeOK, Taker, Return
  <1>2. /\ ledger' \in [OrderId -> Int] /\ ledger'[taker.id] = 0
        /\ \A id \in OrderId : id # taker.id => ledger'[id] = ledger[id]
    BY <1>1 DEF LedgerInv, CallBooked
  <1>3. OpenBooked'
    <2> SUFFICES ASSUME NEW s \in Side, NEW p \in Price, NEW j \in DOMAIN book[s][p]
                 PROVE  ledger'[book[s][p][j].id] = book[s][p][j].remaining
      BY DEF OpenBooked
    <2>1. book[s][p][j].id # taker.id
      BY TakerRestsNowhere
    <2>2. book[s][p][j].id \in OrderId
      BY RestingIsLive
    <2> QED
      BY <1>2, <2>1, <2>2 DEF LedgerInv, OpenBooked
  <1>4. OthersZero'
    BY <1>1, <1>2 DEF OthersZero, InCall, LedgerInv
  <1> QED
    BY <1>1, <1>2, <1>3, <1>4 DEF LedgerInv, CallBooked

\* A filled maker leaves with nothing left, so its id needs no entry.
LEMMA RemoveFilledBooked ==
    ASSUME TypeOK, Filed, TakerIdFree, EmptyOrderIsFilledMaker, LedgerInv,
           NEW p \in Price, RemoveFilled(p), UNCHANGED ledger
    PROVE  LedgerInv'
  <1>1. /\ Facing \in Side /\ 1 \in DOMAIN book[Facing][p] /\ Unrest(Facing, p, 1)
        /\ pc = "filled" /\ pc' = "match" /\ taker' = taker /\ IsBest(Facing, p)
    BY BestTyped DEF RemoveFilled, TypeOK, BookTyped
  <1>2. book[Facing][p][1].remaining = 0
    BY <1>1 DEF EmptyOrderIsFilledMaker
  <1>3. ledger[book[Facing][p][1].id] = 0 /\ book[Facing][p][1].id \in OrderId
    BY <1>1, <1>2, RestingIsLive DEF LedgerInv, OpenBooked
  <1>4. ledger' = [ledger EXCEPT ![book[Facing][p][1].id] = 0]
    BY <1>3 DEF LedgerInv
  <1> QED
    BY <1>1, <1>4, DepartureBooked

-----------------------------------------------------------------------------
\* Events that book something are not None, so no step hides one from the listener.
LEMMA EventsAreSeen ==
    ASSUME TypeOK
    PROVE  /\ \A p \in Price : Trade(p) \/ StpCancelIncoming(p) \/ StpCancelResting(p)
                               => event' # None
           /\ DropRemainder => event' # None
  <1>1. ASSUME NEW p \in Price, Trade(p) PROVE event' \in Trades
    <2>1. /\ taker \in Taker /\ Oldest(p) \in Order
      BY <1>1, BestTyped DEF Trade, Matching, TypeOK, BookTyped
    <2>2. event' = Traded(taker, Oldest(p), p, IF taker.remaining < Oldest(p).remaining
                                               THEN taker.remaining ELSE Oldest(p).remaining)
      BY <1>1 DEF Trade
    <2> QED
      BY <2>1, <2>2 DEF Traded, Trades, Taker, Order
  <1>2. ASSUME NEW p \in Price, StpCancelIncoming(p) \/ StpCancelResting(p)
        PROVE  event' \in Cancels
    <2>1. taker \in Taker /\ Oldest(p) \in Order
      BY <1>2, BestTyped DEF StpCancelIncoming, StpCancelResting, Matching, TypeOK, BookTyped
    <2>2. taker.id \in OrderId /\ Oldest(p).id \in OrderId
      BY <2>1 DEF Taker, Order
    <2> QED
      BY <1>2, <2>2 DEF StpCancelIncoming, StpCancelResting, Cancelled, Cancels
  <1>3. ASSUME DropRemainder PROVE event' \in Cancels
    <2>1. taker.id \in OrderId
      BY <1>3 DEF DropRemainder, LoopEnds, TypeOK, Taker
    <2> QED
      BY <1>3, <2>1 DEF DropRemainder, Cancelled, Cancels
  <1> QED
    BY <1>1, <1>2, <1>3, NoEventAssumption

\* A step of a call in progress, its event booked.
LEMMA ContinueBooked ==
    ASSUME IInv, EmptyOrderIsFilledMaker, LedgerInv, Continue,
           \/ event' # None /\ ledger' = Booked(event')
           \/ event' = None /\ UNCHANGED ledger
    PROVE  LedgerInv'
  <1>0. TypeOK /\ Filed /\ TakerIdFree /\ BookTyped
    BY DEF IInv, Filed
  <1>1. ASSUME NEW p \in Price, StpCancelIncoming(p) PROVE LedgerInv'
    <2>1. event' = Cancelled(taker.id, "SelfTradePrevention") /\ event' # None
      BY <1>0, <1>1, EventsAreSeen DEF StpCancelIncoming
    <2>2. ledger' = [ledger EXCEPT ![taker.id] = 0]
      BY <2>1, BookedEvents
    <2> QED
      BY <1>0, <1>1, <2>2, ReturnBooked DEF StpCancelIncoming, Matching
  <1>2. ASSUME NEW p \in Price, StpCancelResting(p) PROVE LedgerInv'
    <2>1. event' = Cancelled(Oldest(p).id, "SelfTradePrevention") /\ event' # None
      BY <1>0, <1>2, EventsAreSeen DEF StpCancelResting
    <2>2. ledger' = [ledger EXCEPT ![book[Facing][p][1].id] = 0]
      BY <2>1, BookedEvents DEF Oldest
    <2>3. /\ pc = "match" /\ taker \in Taker /\ IsBest(Facing, p) /\ Unrest(Facing, p, 1)
          /\ pc' = pc /\ taker' = taker
      BY <1>0, <1>2 DEF StpCancelResting, Matching, TypeOK
    <2>4. Facing \in Side /\ 1 \in DOMAIN book[Facing][p]
      BY <1>0, <2>3, BestTyped
    <2> QED
      BY <1>0, <2>2, <2>3, <2>4, DepartureBooked
  <1>3. ASSUME NEW p \in Price, Trade(p) PROVE LedgerInv'
    BY <1>0, <1>3, EventsAreSeen, TradeBooked
  <1>4. ASSUME NEW p \in Price, RemoveFilled(p) PROVE LedgerInv'
    BY <1>0, <1>4, RemoveFilledBooked DEF RemoveFilled
  <1>5. ASSUME FullyMatched PROVE LedgerInv'
    BY <1>0, <1>5, ReturnBooked DEF FullyMatched, LoopEnds
  <1>6. ASSUME DropRemainder PROVE LedgerInv'
    <2>1. \E reason : event' = Cancelled(taker.id, reason)
      BY <1>6 DEF DropRemainder
    <2>2. event' # None
      BY <1>0, <1>6, EventsAreSeen
    <2>3. ledger' = [ledger EXCEPT ![taker.id] = 0]
      BY <2>1, <2>2, BookedEvents
    <2> QED
      BY <1>0, <1>6, <2>3, ReturnBooked DEF DropRemainder, LoopEnds
  <1>7. ASSUME Rest PROVE LedgerInv'
    BY <1>0, <1>7, RestBooked DEF Rest
  <1> QED
    BY <1>1, <1>2, <1>3, <1>4, <1>5, <1>6, <1>7 DEF Continue

\* The entry of a call that emits an event.
LEMMA EnterBooked ==
    ASSUME IInv, LedgerInv, Enter, event' # None, ledger' = Booked(event')
    PROVE  LedgerInv'
  <1>0. TypeOK /\ Filed /\ TakerIdFree /\ BookTyped
    BY DEF IInv, Filed
  <1>1. ASSUME \E id, reason : event' = Rejected(id, reason),
               UNCHANGED <<book, live, pc, taker>>
        PROVE  LedgerInv'
    <2>1. ledger' = ledger
      BY <1>1, BookedEvents
    <2> QED
      BY <1>1, <2>1 DEF LedgerInv, OpenBooked, CallBooked, OthersZero, InCall
  <1>2. ASSUME NEW id \in OrderId, NEW participant \in Participant, NEW side \in Side,
               NEW qty \in Qty, NEW price \in Price, NEW tif \in Tif,
               AddLimit(id, participant, side, price, qty, tif)
        PROVE  LedgerInv'
    <2>1. ledger' = [ledger EXCEPT ![id] = qty]
      BY <1>2, BookedEvents DEF AddLimit
    <2> QED
      BY <1>0, <1>2, <2>1, AcceptBooked DEF AddLimit, ValidNew, StartMatch
  <1>3. ASSUME NEW id \in OrderId, NEW participant \in Participant, NEW side \in Side,
               NEW qty \in Qty, AddMarket(id, participant, side, qty)
        PROVE  LedgerInv'
    <2>1. ledger' = [ledger EXCEPT ![id] = qty]
      BY <1>3, BookedEvents DEF AddMarket
    <2> QED
      BY <1>0, <1>3, <2>1, AcceptBooked DEF AddMarket, ValidNew, StartMatch
  <1>4. ASSUME NEW id \in OrderId, NEW i, Cancel(id, i) PROVE LedgerInv'
    <2>1. /\ live[id].side \in Side /\ live[id].price \in Price
          /\ i \in DOMAIN book[live[id].side][live[id].price]
          /\ book[live[id].side][live[id].price][i].id = id
      BY <1>0, <1>4, RestsAtTyped DEF Cancel
    <2>2. ledger' = [ledger EXCEPT ![id] = 0]
      BY <1>4, BookedEvents, SMTT(60) DEF Cancel
    <2> QED
      BY <1>0, <1>4, <2>1, <2>2, DepartureBooked DEF Cancel
  <1>5. ASSUME NEW id \in OrderId, NEW i, NEW price \in Price, NEW qty \in Qty,
               Reduce(id, i, price, qty) \/ Replace(id, i, price, qty)
        PROVE  FALSE
    BY <1>5 DEF Reduce, Replace
  <1>6. ASSUME NEW id \in OrderId, NEW qty \in Qty, RejectNew(id, qty) PROVE LedgerInv'
    BY <1>1, <1>6 DEF RejectNew
  <1>7. ASSUME NEW id \in OrderId, RejectUnknown(id) PROVE LedgerInv'
    BY <1>1, <1>7 DEF RejectUnknown
  <1> QED
    BY <1>2, <1>3, <1>4, <1>5, <1>6, <1>7 DEF Enter

\* A modify that was accepted is known from the call.
LEMMA ModifyBooked ==
    ASSUME IInv, LedgerInv, NEW id \in OrderId, NEW qty \in Qty, ModifyCalled(id, qty),
           ledger' = [ledger EXCEPT ![id] = qty]
    PROVE  LedgerInv'
  BY ReduceBooked, ReplaceBooked DEF ModifyCalled, IInv

\* The listener takes only steps that the engine takes.
LEMMA StepOfEngine == [LedgerNext]_ledgerVars => [Next]_vars
  <1>1. ASSUME NEW id \in OrderId, NEW qty \in Qty, ModifyCalled(id, qty) PROVE Next
    BY <1>1 DEF ModifyCalled, Next, Enter
  <1> QED
    BY <1>1 DEF LedgerNext, ledgerVars, Next

\* A step of the engine and its listener keeps the ledger right.
LEMMA LedgerInductive ==
    IInv /\ EmptyOrderIsFilledMaker /\ LedgerInv /\ [LedgerNext]_ledgerVars => LedgerInv'
  <1> SUFFICES ASSUME IInv, EmptyOrderIsFilledMaker, LedgerInv, [LedgerNext]_ledgerVars
               PROVE  LedgerInv'
    OBVIOUS
  <1>1. CASE UNCHANGED ledgerVars
    BY <1>1 DEF ledgerVars, vars, LedgerInv, OpenBooked, CallBooked, OthersZero, InCall
  <1> QED
    BY <1>1, ModifyBooked, EnterBooked, ContinueBooked DEF LedgerNext, Next

\* What the ledger's invariant says is what the property says.
LEMMA LedgerAccounts ==
    ASSUME IInv, LedgerInv
    PROVE  EventsAccountForBook
  <1>0. Filed /\ TakerIdFree /\ TypeOK
    BY DEF IInv
  <1> SUFFICES ASSUME NEW id \in OrderId
               PROVE  ledger[id] = Resting(id) + InMatch(id)
    BY DEF EventsAccountForBook
  <1>1. CASE live[id] = None
    <2>1. Resting(id) = 0
      BY <1>1 DEF Resting
    <2>2. CASE InCall(id)
      <3>1. ledger[id] = taker.remaining /\ InMatch(id) = taker.remaining
        BY <2>2 DEF InCall, InMatch, LedgerInv, CallBooked
      <3>2. taker.remaining \in Nat
        BY <1>0, <2>2 DEF InCall, TypeOK, Taker
      <3> QED
        BY <2>1, <3>1, <3>2
    <2>3. CASE ~InCall(id)
      BY <1>1, <2>1, <2>3 DEF InCall, InMatch, LedgerInv, OthersZero
    <2> QED
      BY <2>2, <2>3
  <1>2. CASE live[id] # None
    <2> DEFINE fifo == book[live[id].side][live[id].price]
               i == CHOOSE j \in DOMAIN fifo : fifo[j].id = id
    <2>1. live[id].side \in Side /\ live[id].price \in Price
      BY <1>0, <1>2 DEF Filed, BookTyped, LiveRef
    <2>2. \E j \in DOMAIN fifo : fifo[j].id = id
      BY <1>0, <1>2, SMTT(60) DEF Filed, RefsFound
    <2>3. i \in DOMAIN fifo /\ fifo[i].id = id
      BY <2>2, ZenonT(60)
    <2>4. Resting(id) = fifo[i].remaining
      BY <1>2 DEF Resting
    <2>5. InMatch(id) = 0
      BY <1>0, <1>2 DEF InMatch, TakerIdFree
    <2> HIDE DEF i
    <2>6. ledger[id] = fifo[i].remaining
      BY <2>1, <2>3 DEF LedgerInv, OpenBooked
    <2> QED
      BY <2>4, <2>5, <2>6 DEF LedgerInv
  <1> QED
    BY <1>1, <1>2

\* A listener that knows its own modify calls and the events has, in every state a
\* handler can observe, exactly what is open under each id (reference_engine.hpp:157-205).
THEOREM EventsAlwaysAccountForBook == LedgerSpec => []EventsAccountForBook
  <1>1. LedgerInit => LedgerInv
    BY DEF LedgerInit, Init, LedgerInv, OpenBooked, CallBooked, OthersZero
  <1>2. LedgerSpec => Spec
    BY StepOfEngine, PTL DEF LedgerSpec, LedgerInit, Spec
  <1> QED
    BY <1>1, <1>2, InvAlways, EmptyOrderIsAlwaysFilledMaker, LedgerInductive, LedgerAccounts,
       PTL DEF LedgerSpec

==============================================================================
