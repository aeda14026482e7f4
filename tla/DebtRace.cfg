SPECIFICATION Spec
CONSTANTS
    Orders = {o1, o2}
    Desks = {d1, d2}
    Products = {bottle}
    bottle = bottle
    gift = gift
    customer = customer
    Customers = {customer}
    Days = {day1}
    MaxQty = 1
    Nobody = Nobody
    EarlyAccess = FALSE
    Unreliable = FALSE
    MaxCrashes = 0
    Owner <- OneOwner
    Price <- BottleOnly
    Cost <- BottleCost
    Fee <- NoFee
SYMMETRY OrderSymmetry
INVARIANTS
    DebtTotalSettles
CHECK_DEADLOCK FALSE
