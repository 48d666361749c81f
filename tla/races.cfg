SPECIFICATION Spec
CONSTANTS
    Orders = {o1}
    Workers = {w1, w2}
    Nobody = Nobody
    NoOrder = NoOrder
    MaxDeliveryCount = 2
    Guests = {}
    WriteTags = TRUE
    Arrivals = {"eligible"}
    Flaws = {"none", "mapping"}
    Budget <- RaceBudget
SYMMETRY Symmetry
CHECK_DEADLOCK FALSE
INVARIANTS
    TypeOK
    SessionExclusive
    ClaimsBounded
    ClaimsAreOwned
    NeverForgotten
