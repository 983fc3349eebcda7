SPECIFICATION LayoutSpec
CONSTANTS
    Benches = {a, b}
    Memory = 24
    Sizes = {2, 4, 8}
    Indices <- MCIndices
    IntMax = 15
    Ids = 4
INVARIANT Intact
