\* Refinement and loop pointers: both self-trade policies, two participants who
\* trade with each other and with themselves, queues and sweeps over two prices.
CONSTANTS
    OrderId = {o1, o2, o3}
    Participant = {p1, p2}
    Price = {1, 2}
    Qty = {0, 1, 2}
    StpPolicies = {"CancelIncoming", "CancelResting"}
    None = None
    QtyMod = 3
    OrderSlab = 1
    LevelSlab = 1
    ExpectedOrders = 1
    ExpectedLevels = 1
VIEW ButEvent
SYMMETRY CallerSymmetry
SPECIFICATION Spec
INVARIANT NoUseAfterFree
PROPERTY ImplementsReference
PROPERTY TurnsAreProgress
