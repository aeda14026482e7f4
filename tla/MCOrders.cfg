\* The life of an order with every schedule and failure the code is exposed to.
SPECIFICATION FairOrdersSpec
CONSTANTS
    Orders = {o1}
    Desks = {d1, d2}
    Products = {p1}
    MaxQty = 1
    Nobody = Nobody
    EarlyAccess = TRUE
    Unreliable = TRUE
    MaxCrashes = 1
INVARIANTS
    OrdersTypeOK
    CancelExcludesSettle
    SettledOnce
    PlacedMeansReserved
    EventsTellTheTruth
PROPERTIES
    LifecycleSpec
    RequestsEnd
CHECK_DEADLOCK FALSE
