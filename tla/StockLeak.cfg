SPECIFICATION Spec
CONSTANTS
    Orders = {o1}
    Desks = {d1}
    Products = {p1}
    MaxQty = 1
    Nobody = Nobody
    Manual = Manual
    SkuTaken = {}
    EarlyAccess = FALSE
    Unreliable = TRUE
    MaxCrashes = 0
    MaxMoved <- SmallMoves
INVARIANTS
    RejectedHoldsNothing
CHECK_DEADLOCK FALSE
