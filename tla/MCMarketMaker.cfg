\* Three prices, quotes of two lots and a cap of one quote: partial fills, a cap
\* that is reached and passed, levels and sides that empty, a queue of halves of lots.
CONSTANTS
    Price = {1, 2, 3}
    Qty = {0, 1, 2}
    Books <- UncrossedBooks
    TradeQty = {1, 2}
    RawPrice = {1, 2, 3}
    Size = 2
    Cap = 2
    Grain = 2
    None = None
SPECIFICATION Spec
INVARIANTS TypeOK ExposureBounded QuotesPassive QueueWithinLevel
PROPERTIES QueueFallsWithLevel
