\* Receipts, retracks and deletions of two orders on a batch, one overlap of requests.
CONSTANTS
    o1 = o1
    o2 = o2
    o3 = o3
    b1 = b1
    b2 = b2
    s1 = s1
    s2 = s2
    NoOrder = NoOrder
    NoBatch = NoBatch
    Orders <- TwoOrders
    Batches <- OneBatch
    Sessions <- TwoSessions
    Undoings = 2
    Overlaps = 1
    YearEnds = 1
SPECIFICATION Spec
SYMMETRY Symmetry
\* All orders remitted, all batches decided: nothing is left to do.
CHECK_DEADLOCK FALSE
INVARIANTS
    TypeOK
    UntouchedBooks
    ReceiptRemitsAll
    OutcomeMatchesLinks
