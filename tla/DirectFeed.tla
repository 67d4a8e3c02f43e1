------------------------------ MODULE DirectFeed ------------------------------
(***************************************************************************)
(* apply of feed.hpp: an engine is called once for each feed message, in   *)
(* the order of the messages.                                              *)
(***************************************************************************)
EXTENDS MatchingEngine

VARIABLES ops,      \* the messages
          applied   \* how many have been handed to the engine

feedVars == <<vars, ops, applied>>

\* FeedMsg, with the fields the kind uses.
AddLimitMsg(id, participant, side, price, qty, tif) ==
    [kind |-> "AddLimit", id |-> id, participant |-> participant, side |-> side,
     price |-> price, qty |-> qty, tif |-> tif]
AddMarketMsg(id, participant, side, qty) ==
    [kind |-> "AddMarket", id |-> id, participant |-> participant, side |-> side, qty |-> qty]
CancelMsg(id) == [kind |-> "Cancel", id |-> id]
ModifyMsg(id, price, qty) == [kind |-> "Modify", id |-> id, price |-> price, qty |-> qty]

\* The switch of apply: one call of the engine, with whatever outcome.
Dispatch(m) ==
    \/ m.kind = "AddLimit" /\ AddLimit(m.id, m.participant, m.side, m.price, m.qty, m.tif)
    \/ m.kind = "AddMarket" /\ AddMarket(m.id, m.participant, m.side, m.qty)
    \/ m.kind \in {"AddLimit", "AddMarket"} /\ RejectNew(m.id, m.qty)
    \/ m.kind \in {"Cancel", "Modify"} /\ RejectUnknown(m.id)
    \/ m.kind = "Cancel" /\ Cancel(m.id)
    \/ m.kind = "Modify" /\ m.qty = 0 /\ Cancel(m.id)
    \/ m.kind = "Modify" /\ (Reduce(m.id, m.price, m.qty) \/ Replace(m.id, m.price, m.qty))

Apply(m) == Dispatch(m) /\ applied' = applied + 1 /\ UNCHANGED ops

InCall == Continue /\ UNCHANGED <<ops, applied>>

FeedNext == \/ applied < Len(ops) /\ Apply(ops[applied + 1])
            \/ InCall

Safety == Init /\ applied = 0 /\ [][FeedNext]_feedVars
=============================================================================
