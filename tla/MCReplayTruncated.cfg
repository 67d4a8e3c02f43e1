\* Nothing is lost, snapshots carry one level a side; expected to be violated.
CONSTANTS
    Price = {1, 2, 3}
    Qty = {0, 1}
    None = None
    CompareDepth = 1
    SnapshotDepth = 1
    MaxUpdates = 1
    MaxSnapshots = 2
    Lossy = FALSE
    MayStop = FALSE
SPECIFICATION Spec
INVARIANTS TruncatedSideFails
