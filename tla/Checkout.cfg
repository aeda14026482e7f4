SPECIFICATION CheckoutSpec
CONSTANTS
    Products = {gas, stove}
    Skus = {s1, s2}
    Prices = {1, 2}
    Editors = {e1, e2}
    Absent = Absent
    Infinity = Infinity
    Places = {0, 1}
    Radii = {1, 2}
    SeedToggle = TRUE
    Distances = {0, 1, 2}
    MaxEdits = 2
    gas = gas
    stove = stove
    s1 = s1
    s2 = s2
    e1 = e1
    e2 = e2
    Bodies <- SmallBodies
    Opening <- OneProduct
    RuleLists <- SmallRuleLists
    SeedRules <- TwoBands
    Distance <- OnTheRoad
    SeedStore <- NearStore
    Carts <- SmallCarts
SYMMETRY EditorSymmetry
CHECK_DEADLOCK FALSE
INVARIANTS
    CheckoutTypeOK
    PricesOnRecord
    OneBandPerDistance
    FeeFromStoredRules
    PlacedAsQuoted
PROPERTIES
    TrailLeftOnlyByStaleWrite
