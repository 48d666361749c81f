SPECIFICATION FairSpec
CONSTANTS
    o1 = o1
    o2 = o2
    o3 = o3
    Orders = {o1, o2, o3}
    NoOrder = NoOrder
    Connections = 2
    ConnectionOf <- Shops
    Broken = {2}
    PageSize = 2
    Lookback = 1
    Overlap = 1
    MaxTime = 3
    MaxChanges = 3
    PollFailures = 1
CHECK_DEADLOCK FALSE
INVARIANTS
    WatermarkIsHonest
PROPERTIES
    ChangesAreSeen
