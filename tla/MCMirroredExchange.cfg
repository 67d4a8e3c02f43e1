\* Two prices and three quantities: every level can appear, grow, shrink and
\* vanish, and a window can move a side over the other's old touch.
CONSTANTS
    Price = {1, 2}
    Qty = {0, 1, 2}
    None = None
SPECIFICATION MirroredSpec
INVARIANTS MirrorEqualsExchange NoSelfMatch TrackedIsLive
