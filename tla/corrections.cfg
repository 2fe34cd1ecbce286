\* One order of one or two units, delivered in whole or in part, with a crash, a failure, intakes, adjustments and stock counts.
CONSTANTS
    o1 = o1
    o2 = o2
    l1 = l1
    l2 = l2
    r1 = r1
    r2 = r2
    NoLoc = NoLoc
    NoOrder = NoOrder
    Orders <- OneOrder
    Locations <- OneLocation
    Requests <- OneDesk
    StartStatuses <- Confirmed
    InitialStock <- TwoUnits
    InitialUnits = 2
    MaxQty = 2
    StockCap = 2
    Targets <- Statuses
    Crashes = 1
    Failures = 1
    Figures = 1
    Adjustments = 2
SPECIFICATION Spec
INVARIANTS
    TypeOK
    ShelfCoversLedger
    NeverTwice
