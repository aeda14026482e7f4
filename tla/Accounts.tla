------------------------------ MODULE Accounts ------------------------------
(***************************************************************************)
(* The customers that billing-service and report-service keep debts of.    *)
(***************************************************************************)
EXTENDS Shop

CONSTANTS
    Customers,  \* customer keys; order-service sends uid:<user id>
    Owner       \* the customer key of each order

ASSUME AccountsAssumption == Owner \in [Orders -> Customers]

\* A table of accounts holds finitely many.
ASSUME FiniteAccounts == IsFiniteSet(Customers)
=============================================================================
