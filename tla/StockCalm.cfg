SPECIFICATION Spec
CONSTANTS
    Orders = {o1, o2}
    Desks = {d1}
    Products = {p1}
    MaxQty = 1
    Nobody = Nobody
    Manual = Manual
    SkuTaken = {}
    EarlyAccess = FALSE
    Unreliable = FALSE
    MaxCrashes = 1
    MaxMoved <- SmallMoves
SYMMETRY OrderSymmetry
INVARIANTS
    TypeOK
    LedgerExplainsStock
    StockMatchesOrders
    NoOversell
    CompletedCarriesCosts
CHECK_DEADLOCK FALSE
