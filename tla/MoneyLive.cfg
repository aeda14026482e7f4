SPECIFICATION FairSpec
CONSTANTS
    Orders = {o1}
    Desks = {d1}
    Products = {bottle, gift}
    bottle = bottle
    gift = gift
    customer = customer
    Customers = {customer}
    Days = {day1, day2}
    MaxQty = 1
    Nobody = Nobody
    EarlyAccess = TRUE
    Unreliable = TRUE
    MaxCrashes = 1
    Owner <- OneOwner
    Price <- BottleOnly
    Cost <- BottleCost
    Fee <- NoFee

PROPERTIES
    FiguresCatchUp
CHECK_DEADLOCK FALSE
