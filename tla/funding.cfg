\* A head of marketing and a media buyer, two transactions at a time.
CONSTANTS
    hom = hom
    mb = mb
    q1 = q1
    p1 = p1
    s1 = s1
    s2 = s2
    Company = Company
    Direct = Direct
    Holders <- HeadAndBuyer
    Sends <- Downwards
    Requests <- OneRequest
    Peers <- OnePeer
    Sessions <- TwoSessions
    Opening <- FundedHead
    Asks <- Buyer
    Offers <- Offered
    MaxAmount = 1
    MaxRows = 3
    MaxSpends = 1
SPECIFICATION Spec
SYMMETRY SessionsAlike
CHECK_DEADLOCK FALSE
INVARIANTS
    TypeOK
    NoOverdraft
    RequestPaidOnce
    PeerPaidOnAcceptance
