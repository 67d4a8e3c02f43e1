\* Tables of 4 and 8 slots, every mixer into homes at the start, in the middle and
\* at the end of the table: chains collide, overlap and wrap around at full load.
CONSTANTS
    Key = {k1, k2, k3, k4}
    Value = {v1, v2}
    None = None
    HashValue = {0, 1, 5, 6, 7}
    MinCapacity = 4
    MaxReserve = 4
SYMMETRY KeySymmetry
SPECIFICATION Spec
INVARIANT TypeOK
INVARIANT ChainsUnbroken
INVARIANT LoadAtMostHalf
PROPERTY ImplementsMap
