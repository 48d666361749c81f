SPECIFICATION Spec
CONSTANTS
    Orders = {o1, o2, o3}
    NoOrder = NoOrder
    PageSize = 2
    Uris <- Payloads
    NoUri = NoUri
    Clicks = 2
    ReplayClicks = 1
    Handlings = 1
    RequestFailures = 1
CHECK_DEADLOCK FALSE
INVARIANTS
    OnlyRefreshesAreStale
    DrawerIsRight
    NoOrderIsHidden
PROPERTIES
    BulkReachesAll
    ButtonsComeBack
