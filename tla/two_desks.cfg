\* Two concurrent requests on one order, under fairness.
CONSTANTS
    o1 = o1
    o2 = o2
    l1 = l1
    l2 = l2
    r1 = r1
    r2 = r2
    NoLoc = NoLoc
    NoOrder = NoOrder
    Orders <- OneOrder
    Locations <- OneLocation
    Requests <- TwoDesks
    StartStatuses <- Confirmed
    InitialStock <- OneUnit
    InitialUnits = 1
    MaxQty = 1
    StockCap = 0
    Targets <- Deliveries
    Crashes = 0
    Failures = 0
    Figures = 1
    Adjustments = 0
SPECIFICATION FairSpec
INVARIANTS
    ShelvesCoverBatches
PROPERTIES
    StatusMovesLegally
    EveryRequestEnds
