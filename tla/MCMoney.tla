------------------------------ MODULE MCMoney ------------------------------
(* Money for TLC.                                                          *)
EXTENDS Money, TLC

CONSTANTS customer, bottle, gift  \* model values

\* One customer owns every order; a bottle is sold for 2 and cost 1, a gift
\* is for nothing; delivery is 1 for every order, or free.
OneOwner   == [o \in Orders |-> customer]
BottleOnly == [p \in Products |-> IF p = bottle THEN 2 ELSE 0]
BottleCost == [p \in Products |-> IF p = bottle THEN 1 ELSE 0]
OneFee     == [o \in Orders |-> 1]
NoFee      == [o \in Orders |-> 0]

OrderSymmetry == Permutations(Orders)
=============================================================================
