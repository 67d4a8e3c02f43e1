------------------------------ MODULE EventLedger ------------------------------
(***************************************************************************)
(* A listener beside the engine that never looks at the book.  It sees the *)
(* callbacks of its handler and the modify calls it made itself (a modify  *)
(* that rests or reduces emits no event), as the recording handler of the  *)
(* tests does, and keeps the open quantity of every id.                    *)
(***************************************************************************)
EXTENDS ReferenceEngine

\* The events that change what is open.
Trades  == [type : {"trade"}, taker : OrderId, maker : OrderId, price : Price, qty : Nat,
            side : Side]
Cancels == [type : {"cancel"}, id : OrderId,
            reason : {"User", "SelfTradePrevention", "IocRemainder", "MarketRemainder"}]

ASSUME NoEventAssumption == None \notin Trades /\ None \notin Cancels

VARIABLE ledger   \* open quantity of each id, from calls and events alone

ledgerVars == <<vars, ledger>>

LedgerInit == Init /\ ledger = [id \in OrderId |-> 0]

Booked(e) ==
    CASE e.type = "accept" -> [ledger EXCEPT ![e.id] = e.qty]
      [] e.type = "trade"  -> [ledger EXCEPT ![e.taker] = @ - e.qty, ![e.maker] = @ - e.qty]
      [] e.type = "cancel" -> [ledger EXCEPT ![e.id] = 0]
      [] e.type = "reject" -> ledger

\* An accepted modify to a quantity other than zero, known from the call.
ModifyCalled(id, qty) ==
    /\ live[id] # None
    /\ \E i \in DOMAIN book[live[id].side][live[id].price], price \in Price :
          Reduce(id, i, price, qty) \/ Replace(id, i, price, qty)

LedgerNext ==
    \/ \E id \in OrderId, qty \in Qty :
          ModifyCalled(id, qty) /\ ledger' = [ledger EXCEPT ![id] = qty]
    \/ Next /\ event' # None /\ ledger' = Booked(event')
    \/ Continue /\ event' = None /\ UNCHANGED ledger

LedgerSpec == LedgerInit /\ [][LedgerNext]_ledgerVars /\ WF_vars(Continue)

-----------------------------------------------------------------------------
\* What rests under an id, plus what the call in progress still holds for it.
Resting(id) ==
    IF live[id] = None THEN 0
    ELSE LET fifo == book[live[id].side][live[id].price]
         IN  fifo[CHOOSE i \in DOMAIN fifo : fifo[i].id = id].remaining
InMatch(id) == IF pc # "idle" /\ taker.id = id THEN taker.remaining ELSE 0

\* The event stream accounts for the book: every unit accepted is traded,
\* cancelled or open, in every state a handler can observe, also after
\* self-trade prevention dropped a remainder and through cancel/replace.
EventsAccountForBook == \A id \in OrderId : ledger[id] = Resting(id) + InMatch(id)
=============================================================================
