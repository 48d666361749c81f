SPECIFICATION Spec
CONSTANTS
    Orders = {o1}
    Workers = {w1, w2}
    Nobody = Nobody
    NoOrder = NoOrder
    MaxDeliveryCount = 2
    Guests = {}
    WriteTags = FALSE
    Arrivals = {"eligible", "held", "missing", "test"}
    Flaws = {"none", "item_resolution"}
    Budget <- ShopifyBudget
SYMMETRY Symmetry
CHECK_DEADLOCK FALSE
INVARIANTS
    TestOrdersStayOut
    RecordsAgree
PROPERTIES
    SyncedIsStable
