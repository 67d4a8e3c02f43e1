\* Snapshots carry the whole book; four changes in up to four diffs, any of them lost.
CONSTANTS
    Price = {1, 2}
    Qty = {0, 1}
    None = None
    CompareDepth = 2
    SnapshotDepth = 2
    MaxUpdates = 4
    MaxSnapshots = 2
    Lossy = TRUE
    MayStop = TRUE
SPECIFICATION Spec
INVARIANTS TypeOK GapFreeMirrors CutLosesAsksOnly GapsAreLosses PhantomMeansGap GapFreeValidates SnapshotsAccountedFor
