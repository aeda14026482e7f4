-------------------------------- MODULE Shop --------------------------------
(***************************************************************************)
(* What order-service and inventory-service have in common: the ids of     *)
(* orders and products, and the lines of an order.                         *)
(***************************************************************************)
EXTENDS Integers, FiniteSets

CONSTANTS
    Orders,    \* order ids; each is one POST /orders request
    Products,  \* product ids of the catalog
    MaxQty     \* bound on the quantity of one order line

ASSUME ShopAssumption == MaxQty \in Nat

\* The tables hold finitely many orders and products.
ASSUME FiniteShop == IsFiniteSet(Orders) /\ IsFiniteSet(Products)

\* The lines of an order: a positive quantity for each product ordered.  The
\* quantities of repeated lines are merged, and items must not be empty.
NoItems  == [p \in Products |-> 0]
Items(c) == {p \in Products : c[p] > 0}
Carts    == {c \in [Products -> 0 .. MaxQty] : Items(c) # {}}
=============================================================================
