\* Quotes of two lots and a cap of one quote; expected to be violated.
CONSTANTS
    Price = {1, 2}
    Qty = {0, 1}
    Books <- UncrossedBooks
    TradeQty = {1, 2}
    RawPrice = {1, 2}
    Size = 2
    Cap = 2
    Grain = 2
    None = None
SPECIFICATION Spec
INVARIANTS InventoryWithinCap
