\* The last two counts are resolved at the same time.
CONSTANTS
    p1 = p1
    p2 = p2
    c1 = c1
    c2 = c2
    c3 = c3
    s1 = s1
    s2 = s2
    NoCount = NoCount
    NoProduct = NoProduct
    Products <- TwoProducts
    Counts <- TwoCounts
    Staff <- TwoStaff
    InitialStock = 2
    Overlap = FALSE
SPECIFICATION CountsSpec
SYMMETRY CountSymmetry
\* All counts resolved and all stock gone: nothing is left to do.
CHECK_DEADLOCK FALSE
INVARIANTS
    UnlockedWhenResolved
