SPECIFICATION Spec
CONSTANTS
    Orders = {o1}
    Workers = {w1, w2}
    Nobody = Nobody
    NoOrder = NoOrder
    MaxDeliveryCount = 2
    Guests = {o1}
    WriteTags = TRUE
    Arrivals = {"eligible"}
    Flaws = {"none", "mapping"}
    Budget <- FailureBudget
SYMMETRY Symmetry
CHECK_DEADLOCK FALSE
INVARIANTS
    ImportsAreReal
    WritesOnce
PROPERTIES
    ImportsAreClaimed
