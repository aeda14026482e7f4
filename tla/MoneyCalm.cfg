SPECIFICATION Spec
CONSTANTS
    Orders = {o1, o2}
    Desks = {d1}
    Products = {bottle}
    bottle = bottle
    gift = gift
    customer = customer
    Customers = {customer}
    Days = {day1, day2}
    MaxQty = 1
    Nobody = Nobody
    EarlyAccess = FALSE
    Unreliable = FALSE
    MaxCrashes = 0
    Owner <- OneOwner
    Price <- BottleOnly
    Cost <- BottleCost
    Fee <- OneFee
SYMMETRY OrderSymmetry
INVARIANTS
    TypeOK
    DebtLedgerAgrees
    DebtsMatchOrders
    StatsMatchOrders
    DebtTotalSettles
CHECK_DEADLOCK FALSE
