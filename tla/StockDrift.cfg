SPECIFICATION Spec
CONSTANTS
    Orders = {o1}
    Desks = {d1}
    Products = {p1}
    MaxQty = 2
    Nobody = Nobody
    Manual = Manual
    SkuTaken = {p1}
    EarlyAccess = TRUE
    Unreliable = TRUE
    MaxCrashes = 1
    MaxMoved <- SmallMoves
INVARIANTS
    StockDriftBounded
CHECK_DEADLOCK FALSE
