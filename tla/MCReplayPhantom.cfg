\* A lost diff; expected to be violated.
CONSTANTS
    Price = {1, 2}
    Qty = {0, 1}
    None = None
    CompareDepth = 2
    SnapshotDepth = 2
    MaxUpdates = 2
    MaxSnapshots = 1
    Lossy = TRUE
    MayStop = FALSE
SPECIFICATION Spec
INVARIANTS NoPhantomMatch
