SPECIFICATION Spec
CONSTANTS
    o1 = o1
    o2 = o2
    Orders = {o1, o2}
    Shapes <- MCShapes
    Connections <- MCConnections
    InitialItems <- MCItems
    LaterItems <- MCLaterItems
    InitialRows <- MCRows
    LaterRows <- MCLaterRows
    MaxLines = 2
    MaxShipping = 1
    Tolerance = 5
    MaxRestarts = 1
INVARIANTS VarianceBooksOnItsItem
CHECK_DEADLOCK FALSE
