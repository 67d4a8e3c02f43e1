\* Two slots, a word that wraps after eight, three items.
CONSTANTS
    Capacity = 2
    WordMod = 8
    Items = 3
    NoValue = NoValue
SPECIFICATION SizeSpec
INVARIANT SizeIsLowerBound
