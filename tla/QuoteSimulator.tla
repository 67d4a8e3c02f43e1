---------------------------- MODULE QuoteSimulator ----------------------------
(***************************************************************************)
(* QuoteSimulator of strategy/quote_sim.hpp: a virtual order that is not   *)
(* in the book, whose place in the queue of its level is estimated from    *)
(* trade prints and level updates.  Operators take a quote and return the  *)
(* quote they leave; None is a quote that is not active.                   *)
(*                                                                         *)
(* queue_ahead is a double, reduced pro rata; here it is counted in Grain  *)
(* parts of a lot and the remainder of a division is kept ahead of us.     *)
(***************************************************************************)
EXTENDS Integers

CONSTANTS Grain,   \* parts of a lot that queue_ahead tells apart
          None

ASSUME GrainAssumption == Grain \in Nat \ {0}

Side == {"Bid", "Ask"}

\* Subtraction that stops at zero, the smaller and the larger of two numbers.
Monus(a, b)   == IF a > b THEN a - b ELSE 0
Smaller(a, b) == IF a < b THEN a ELSE b
Larger(a, b)  == IF a < b THEN b ELSE a

\* A new quote joins the back of its level.
Place(price, size, level_qty) ==
    [price |-> price, remaining |-> size,
     queue_ahead |-> Grain * level_qty, level_qty_seen |-> level_qty]

\* What is left of ahead when a level shrinks from old to new: ahead * new / old.
Prorated(ahead, old, new) == (ahead * new + old - 1) \div old

\* The same order at another place of its queue.
Queued(q, ahead, level_qty) ==
    [price |-> q.price, remaining |-> q.remaining,
     queue_ahead |-> ahead, level_qty_seen |-> level_qty]

\* mutant: the queue ahead is not touched
OnLevelUpdateSeenOnly(q, new_qty) == Queued(q, q.queue_ahead, new_qty)

\* A level that shrinks takes its share from ahead of us; growth joins behind us.
OnLevelUpdate(q, new_qty) ==
    Queued(q, IF new_qty < q.level_qty_seen
              THEN Prorated(q.queue_ahead, q.level_qty_seen, new_qty) ELSE q.queue_ahead,
           new_qty)

IsThrough(side, q, t) == IF side = "Bid" THEN t.price < q.price ELSE t.price > q.price

\* mutant: unsigned underflow of the level
AfterPrintUnderflows(q, t) ==
    Queued(q, Monus(q.queue_ahead, Grain * t.qty), q.level_qty_seen - t.qty)

\* A print at our price eats the queue ahead and the level.
AfterPrint(q, t) ==
    Queued(q, Monus(q.queue_ahead, Grain * t.qty), Monus(q.level_qty_seen, t.qty))

\* What a print fills of the quote: all of it if it went through our price, else
\* the whole lots that are left when the queue ahead has been served.
FillQty(side, q, t) ==
    IF IsThrough(side, q, t) THEN q.remaining
    ELSE IF t.price # q.price THEN 0
    ELSE Smaller(q.remaining, Monus(Grain * t.qty, q.queue_ahead) \div Grain)

EmitFill(q, qty) ==
    IF qty = q.remaining THEN None ELSE [q EXCEPT !.remaining = @ - qty]

Consume(side, q, t) ==
    EmitFill(IF t.price = q.price THEN AfterPrint(q, t) ELSE q, FillQty(side, q, t))
=============================================================================
