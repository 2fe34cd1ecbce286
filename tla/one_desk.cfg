\* One request at a time: two orders compete for the stock of two locations, and one side effect fails.
CONSTANTS
    o1 = o1
    o2 = o2
    l1 = l1
    l2 = l2
    r1 = r1
    r2 = r2
    NoLoc = NoLoc
    NoOrder = NoOrder
    Orders <- TwoOrders
    Locations <- TwoLocations
    Requests <- OneDesk
    StartStatuses <- Fresh
    InitialStock <- TwoAndOne
    InitialUnits = 3
    MaxQty = 1
    StockCap = 3
    Targets <- Statuses
    Crashes = 0
    Failures = 1
    Figures = 0
    Adjustments = 0
SYMMETRY OrderSymmetry
SPECIFICATION Spec
INVARIANTS
    ShippedExactlyWhenSaid
    ShelfMatchesBatches
    ShortOnlyAfterWarning
PROPERTIES
    HeldNeverDelivered
