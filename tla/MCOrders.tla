------------------------------ MODULE MCOrders ------------------------------
(* Orders for TLC: one order, two admins at the desk.                      *)
EXTENDS Orders
=============================================================================
