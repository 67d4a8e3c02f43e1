\* Three orders over three prices: levels inserted and removed at the top, in the
\* middle and at the bottom of the ladder; 1 + 2 wraps to 0; every order beyond
\* the first takes a new slab.
CONSTANTS
    OrderId = {o1, o2, o3}
    Participant = {p1}
    Price = {1, 2, 3}
    Qty = {0, 1, 2}
    StpPolicies = {"None"}
    None = None
    QtyMod = 3
    OrderSlab = 1
    LevelSlab = 1
    ExpectedOrders = 1
    ExpectedLevels = 1
VIEW ButEvent
SYMMETRY CallerSymmetry
SPECIFICATION Spec
INVARIANT TypeOK
INVARIANT FifoIntact
INVARIANT LadderIntact
INVARIANT NoLeak
