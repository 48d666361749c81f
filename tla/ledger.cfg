SPECIFICATION Spec
CONSTANTS
    Orders = {o1, o2}
    Connections = 2
    ConnectionOf <- Shops
    Elsewhere = {}
    LastDay = 3
    DaysBack = 2
    ManualDaysBack = {1}
    MaxDaysBack = 2
    AggregatePage = 2
    LedgerPage = 1
    ManualSweeps = 1
    SweepFailures = 1
    Amendments = 1
SYMMETRY Alike
CHECK_DEADLOCK FALSE
INVARIANTS
    
    LossesAreDrift
    EveryDayIsSwept
