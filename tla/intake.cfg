\* A submission through both buffers; a call is lost, a server dies, runs overlap.
CONSTANTS
    p1 = p1
    p2 = p2
    k1 = k1
    c1 = c1
    c2 = c2
    d1 = d1
    d2 = d2
    Nobody = Nobody
    NoItem = NoItem
    Payloads <- TwoPayloads
    Bad <- SecondIsBad
    Posts <- OnePost
    Slots <- TwoSlots
    Drains <- TwoDrains
    Modes <- AllModes
    MaxAttempts = 2
    BatchSize = 1
    Retries = 0
    Callbacks <- AnyCallback
    Faults = 1
    Losses = 1
    Lapses = 1
    MaxEntries = 3
    Deaths = 1
    Overlaps = 1
SPECIFICATION FairSpec
\* Everything is an order or a dead letter: nothing is left to do.
CHECK_DEADLOCK FALSE
INVARIANTS
    TypeOK
    
    SecondOrderExplained

    
