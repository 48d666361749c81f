SPECIFICATION FairSpec
CONSTANTS
    Orders = {o1}
    Workers = {w1, w2}
    Nobody = Nobody
    NoOrder = NoOrder
    MaxDeliveryCount = 2
    Guests = {}
    WriteTags = TRUE
    Arrivals = {"eligible"}
    Flaws = {"none"}
    Budget <- TransientBudget
CHECK_DEADLOCK FALSE
PROPERTIES
    TransientRecovers
