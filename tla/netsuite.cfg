SPECIFICATION FairSpec
CONSTANTS
    o1 = o1
    o2 = o2
    o3 = o3
    g1 = g1
    g2 = g2
    Gids = {g1, g2}
    NoGid = NoGid
    Contents = {"home", "work"}
    Orders = {o1, o2, o3}
    NoOrder = NoOrder
    AddressesOf <- Brought
    Ceiling = 1
    Polls = 1
    MaxRetries = 1
    NsErrors <- Rejections
    Failures = 1
CHECK_DEADLOCK FALSE
INVARIANTS
    RequestsAreGoverned
    SlotsAreInUse
    OneDefaultOfEachKind
    
PROPERTIES
    LinesAreLostToOverlapOnly
    
