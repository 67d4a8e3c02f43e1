\* Four slots; the counters' word wraps after eight, so ten messages pass the wrap.
CONSTANTS
    o1 = o1
    o2 = o2
    o3 = o3
    p1 = p1
    Capacity = 4
    WordMod = 8
    Items = 10
    NoValue = NoValue
    OrderId <- Orders
    Participant <- Traders
    Price = {1, 2}
    Qty = {0, 1, 2}
    StpPolicies = {"None"}
    None = None
    QtyMod = 3
    OrderSlab = 1
    LevelSlab = 1
    ExpectedOrders = 1
    ExpectedLevels = 1
    Workloads <- TenMessages
SPECIFICATION PipelineSpec
INVARIANTS TypeOK NoDataRace StaleCacheIsSafe
PROPERTIES ImplementsQueue AllDelivered SameAsDirectFeed AllApplied
