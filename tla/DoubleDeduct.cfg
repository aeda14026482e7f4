SPECIFICATION Spec
CONSTANTS
    Orders = {o1}
    Desks = {d1}
    Products = {p1}
    MaxQty = 1
    Nobody = Nobody
    Manual = Manual
    SkuTaken = {}
    EarlyAccess = TRUE
    Unreliable = FALSE
    MaxCrashes = 0
    MaxMoved <- SmallMoves
INVARIANTS
    NoDoubleDeduct
CHECK_DEADLOCK FALSE
