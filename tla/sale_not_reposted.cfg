\* A delivered order is retracked and delivered again.
CONSTANTS
    o1 = o1
    o2 = o2
    o3 = o3
    b1 = b1
    b2 = b2
    s1 = s1
    s2 = s2
    NoOrder = NoOrder
    NoBatch = NoBatch
    Orders <- OneOrder
    Batches <- OneBatch
    Sessions <- OneSession
    Undoings = 1
    Overlaps = 0
    YearEnds = 0
SPECIFICATION Spec
SYMMETRY Symmetry
\* All orders remitted, all batches decided: nothing is left to do.
CHECK_DEADLOCK FALSE
INVARIANTS
    SaleOnBooks
