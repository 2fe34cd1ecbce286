\* Two transfers between two countries, one made in earlier days, two at a time.
CONSTANTS
    t1 = t1
    t2 = t2
    t3 = t3
    l1 = l1
    l2 = l2
    l3 = l3
    ngn = ngn
    ghs = ghs
    s1 = s1
    s2 = s2
    NoTransfer = NoTransfer
    Nowhere = Nowhere
    NotCounted = NotCounted
    Transfers <- TwoTransfers
    Locations <- ThreeLocations
    Countries <- TwoCountries
    Sessions <- TwoSessions
    Legacy <- OneTransfer
    CountryOf <- SecondAbroad
    Routes <- HomeAndAbroad
    MaxQty = 2
    Opening = 1
    Intakes = 1
SPECIFICATION FairSpec
CHECK_DEADLOCK FALSE
INVARIANTS
    TypeOK
    ShelvesExplained
    ReservedKept
    LayersMatchShelves
PROPERTIES
    EveryTransferEnds
