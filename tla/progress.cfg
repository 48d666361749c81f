SPECIFICATION FairSpec
CONSTANTS
    Orders = {o1}
    Workers = {w1}
    Nobody = Nobody
    NoOrder = NoOrder
    MaxDeliveryCount = 2
    Guests = {}
    WriteTags = TRUE
    Arrivals = {"eligible"}
    Flaws = {"none", "balancing"}
    Budget <- ProgressBudget
CHECK_DEADLOCK FALSE
PROPERTIES
    EveryMessageSettles
    DeadLettersAreQuarantined
    ClaimsResolve
    CalmImports
