\* Three orders of two participants over two prices: a queue of two behind a
\* taker, a sweep over both levels, and every self-trade policy.  No symmetry,
\* for the sake of the liveness property.
CONSTANTS
    OrderId = {o1, o2, o3}
    Participant = {p1, p2}
    Price = {1, 2}
    Qty = {0, 1, 2}
    StpPolicies = {"None", "CancelIncoming", "CancelResting"}
    None = None
SPECIFICATION LedgerSpec
INVARIANTS TypeOK LiveRefsResolve NotCrossed EmptyOrderIsFilledMaker EventsAccountForBook
PROPERTIES PriorityKept CallReturns
