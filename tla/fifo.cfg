\* Walks over two to three batches of two currencies, one row a page.
CONSTANTS
    NGN = NGN
    GHS = GHS
    s1 = s1
    s2 = s2
    NoCurrency = NoCurrency
    Sessions <- TwoSessions
    Currencies <- TwoCurrencies
    FirstBatches <- OneLotEach
    Costs <- LaterCost
    PageSize = 1
    Cut <- SecondCut
    MaxQty = 2
    MaxBatches = 3
SPECIFICATION Spec
SYMMETRY SessionSymmetry
INVARIANTS
    TypeOK
    RestoredInFull
    CostIsFifo
    OldestUsedUp
PROPERTIES
    ImplementsPool
