------------------------------ MODULE BookMirror ------------------------------
(***************************************************************************)
(* BookMirror of replay/book_mirror.hpp over an engine: every level of an  *)
(* exchange's book is one synthetic order, and absolute level quantities   *)
(* become order-entry calls.  The engine is the reference engine, which    *)
(* MatchingEngine implements, and a call of the mirror waits for each call *)
(* of the engine.                                                          *)
(*                                                                         *)
(* Ids come from the counter next_id_ and are only ever compared, and a    *)
(* level gets a new one only when the mirror has forgotten its last, so    *)
(* the id of a level is named after the level.                             *)
(***************************************************************************)
EXTENDS Integers, SequencesExt

CONSTANTS Price, Qty, None

ASSUME PriceAssumption == Price \subseteq Int /\ IsFiniteSet(Price)
ASSUME QtyAssumption   == Qty \subseteq Nat /\ 0 \in Qty   \* zero: the level is gone
ASSUME NoneAssumption  == None \notin [side : {"Bid", "Ask"}, price : Price]

Side   == {"Bid", "Ask"}
Level  == Side \X Price
Update == [side : Side, price : Price, qty : Qty]

\* None is no trade and no cancel that the handler hears of.
ASSUME NoEventAssumption ==
    /\ None \notin [type : {"trade"}, taker : Level, maker : Level, price : Price, qty : Nat,
                     side : Side]
    /\ None \notin [type : {"cancel"}, id : Level,
                     reason : {"User", "SelfTradePrevention", "IocRemainder", "MarketRemainder"}]

VARIABLES book, live, pc, taker, event,   \* the engine
          tracked,   \* the levels in bid_ids_ and ask_ids_
          call,      \* "idle", "snapshot", and the two passes of apply_diff
          updates,   \* argument of the call: bids first, then asks
          todo       \* the updates the current loop has still to visit

engineVars == <<book, live, pc, taker, event>>
mirrorVars == <<tracked, call, updates, todo>>

Engine == INSTANCE ReferenceEngine WITH
              OrderId <- Level, Participant <- {"mirror"}, StpPolicies <- {"None"},
              stp <- "None"

MirrorInit == /\ Engine!Init
              /\ tracked = {} /\ call = "idle" /\ updates = <<>> /\ todo = <<>>

-----------------------------------------------------------------------------
Id(u) == <<u.side, u.price>>

\* depth_at: what the engine holds at a level
TotalQty(fifo) == FoldLeft(LAMBDA total, order : total + order.remaining, 0, fifo)
DepthAt(side, price) == TotalQty(book[side][price])

\* open_qty: zero for an id that is not live
OpenQty(id) == IF live[id] = None THEN 0
               ELSE LET fifo == book[live[id].side][live[id].price]
                    IN  fifo[CHOOSE i \in DOMAIN fifo : fifo[i].id = id].remaining

IsReduction(u) == Id(u) \in tracked /\ u.qty < OpenQty(Id(u))

Start(name, us) == /\ call = "idle" /\ pc = "idle"
                   /\ call' = name /\ updates' = us /\ todo' = us
                   /\ UNCHANGED <<engineVars, tracked>>
ApplySnapshot(us) == Start("snapshot", us)
ApplyDiff(us)     == Start("pass1", us)

-----------------------------------------------------------------------------
(* One update is visited.                                                  *)

Visiting == call # "idle" /\ pc = "idle" /\ todo # <<>>

\* mutant: additions first
IsDueGrowthFirst(u) ==
    CASE call = "snapshot" -> TRUE
      [] call = "pass1"    -> ~IsReduction(u)
      [] call = "pass2"    -> IsReduction(u)

\* A pass of apply_diff asks again for each update whether it is its turn.
IsDue(u) ==
    CASE call = "snapshot" -> TRUE
      [] call = "pass1"    -> IsReduction(u)
      [] call = "pass2"    -> ~IsReduction(u)

Skip == /\ Visiting /\ ~IsDue(Head(todo))
        /\ todo' = Tail(todo)
        /\ UNCHANGED <<engineVars, tracked, call, updates>>

\* apply_level is entered.
Visit(u) == /\ Visiting /\ u = Head(todo) /\ IsDue(u)
            /\ todo' = Tail(todo)
            /\ UNCHANGED <<call, updates>>

\* Removal of a level that was never tracked, or a quantity that already stands.
NothingToDo(u) == /\ Visit(u)
                  /\ IF Id(u) \in tracked THEN u.qty > 0 /\ u.qty = OpenQty(Id(u))
                                          ELSE u.qty = 0
                  /\ UNCHANGED <<engineVars, tracked>>

\* The new order may match before it rests; its id is recorded either way.
AddLevel(u) == /\ Visit(u) /\ Id(u) \notin tracked /\ u.qty > 0
               /\ Engine!AddLimit(Id(u), "mirror", u.side, u.price, u.qty, "GTC")
               /\ tracked' = tracked \cup {Id(u)}

\* mutant: the id of a removed level is kept
RemoveLevelKeepsId(u) == /\ Visit(u) /\ Id(u) \in tracked /\ u.qty = 0
                         /\ \/ \E i \in 1 .. Cardinality(Level) : Engine!Cancel(Id(u), i)
                            \/ Engine!RejectUnknown(Id(u))
                         /\ UNCHANGED tracked

RemoveLevel(u) == /\ Visit(u) /\ Id(u) \in tracked /\ u.qty = 0
                  /\ \/ \E i \in 1 .. Cardinality(Level) : Engine!Cancel(Id(u), i)
                     \/ Engine!RejectUnknown(Id(u))
                  /\ tracked' = tracked \ {Id(u)}

\* modify: in place, by cancel/replace, or refused when the id is dead.
SetLevel(u) == /\ Visit(u) /\ Id(u) \in tracked /\ u.qty > 0 /\ u.qty # OpenQty(Id(u))
               /\ \/ \E i \in 1 .. Cardinality(Level) :
                        \/ Engine!Reduce(Id(u), i, u.price, u.qty)
                        \/ Engine!Replace(Id(u), i, u.price, u.qty)
                  \/ Engine!RejectUnknown(Id(u))
               /\ UNCHANGED tracked

EngineRuns == /\ call # "idle" /\ Engine!Continue
              /\ UNCHANGED mirrorVars

\* The end of a loop: on to the second pass, or back to the caller.
EndLoop == /\ call # "idle" /\ pc = "idle" /\ todo = <<>>
           /\ call' = IF call = "pass1" THEN "pass2" ELSE "idle"
           /\ todo' = IF call = "pass1" THEN updates ELSE <<>>
           /\ UNCHANGED <<engineVars, tracked, updates>>

MirrorRuns == \/ Skip \/ EngineRuns \/ EndLoop
              \/ \E u \in Update : \/ NothingToDo(u) \/ AddLevel(u)
                                   \/ RemoveLevel(u) \/ SetLevel(u)

\* Types of the mirror's state; the engine's own state keeps its types.
MirrorTypeOK ==
    /\ Engine!TypeOK
    /\ tracked \subseteq Level
    /\ call \in {"idle", "snapshot", "pass1", "pass2"}
    /\ call = "idle" => pc = "idle" /\ todo = <<>>
    /\ updates \in Seq(Update) /\ IsSuffix(todo, updates)
=============================================================================
