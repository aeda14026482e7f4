----------------------------- MODULE OrderStock -----------------------------
(***************************************************************************)
(* order-service and inventory-service together: the calls of Orders.tla   *)
(* are served by the transactions of Inventory.tla, order.completed        *)
(* reaches inventory-service over JetStream, and the admin moves stock.    *)
(*                                                                         *)
(* A call that was sent is applied whether or not its caller still waits:  *)
(* the transactions of handleStockOp do not use the request's context.     *)
(***************************************************************************)
EXTENDS Orders, Inventory, Functions

CONSTANT MaxMoved  \* bound on the quantity the admin moves, per kind

ASSUME MovedAssumption == MaxMoved \in [Kinds -> Nat]

vars == <<orderVars, stockVars>>

TypeOK == OrdersTypeOK /\ InventoryTypeOK

Init == OrdersInit /\ InventoryInit

-----------------------------------------------------------------------------
ServeReserve(o) == Reserve(o, cart[o]) /\ ReserveEnds(o, "applied")

\* A line is short: 409 and the transaction is rolled back.
RefuseReserve(o) ==
    /\ ~InStock(cart[o])
    /\ ReserveEnds(o, "refused")
    /\ UNCHANGED stockVars

ServeRelease(o) == Release(o, cart[o]) /\ ReleaseEnds(o, "applied")

FailRelease(o) ==
    /\ ~CanRelease(cart[o])
    /\ ReleaseEnds(o, "refused")
    /\ UNCHANGED stockVars

\* billing-service answers; it is not part of this composition.
ServePayment(o) ==
    /\ \E outcome \in {"applied", "refused"} : PaymentEnds(o, outcome)
    /\ UNCHANGED stockVars

\* JetStream delivers order.completed, possibly again.
DeliverCompleted(o) ==
    /\ Published("order.completed", o)
    /\ OrderCompleted(o, cart[o])
    /\ UNCHANGED orderVars

DeliverProduct(p) == ProductUpdated(p) /\ UNCHANGED orderVars

\* The admin's movements, up to MaxMoved of each kind and product.
AdminMoves(p) ==
    /\ \E kind \in Kinds :
       \E qty \in 1 .. MaxMoved[kind] - ledger[kind][Manual][p] :
           \/ kind = "IN" /\ MoveIn(p, qty)
           \/ kind = "OUT" /\ MoveOut(p, qty)
           \/ kind = "ADJUST" /\ (Adjust(p, qty) \/ Adjust(p, 0 - qty))
    /\ UNCHANGED orderVars

InventoryNext ==
    \/ \E o \in Orders :
           \/ ServeReserve(o) \/ RefuseReserve(o)
           \/ ServeRelease(o) \/ FailRelease(o)
           \/ DeliverCompleted(o)
    \/ \E p \in Products : DeliverProduct(p) \/ AdminMoves(p)

Next ==
    \/ ServiceNext /\ UNCHANGED stockVars
    \/ InventoryNext
    \/ \E o \in Orders :
           ServePayment(o) \/ (CallLost(o) /\ UNCHANGED stockVars)

Spec == Init /\ [][Next]_vars

-----------------------------------------------------------------------------
(***************************************************************************)
(* Properties.                                                             *)
(***************************************************************************)

\* What the ledger says an order holds of a product.
Held(o, p) == Taken(o, p) - Given(o, p)

\* stock_items.on_hand is what the append-only ledger adds up to
\* (services/inventory-service/schema.sql:14).  An ADJUST row does not say
\* which way it went, so it may explain the difference in either direction.
LedgerExplainsStock ==
    \A p \in Products :
        LET total(kind) ==
                SumFunctionOnSet([r \in Refs |-> ledger[kind][r][p]], Refs)
            gap == onHand[p] - total("IN") + total("OUT")
        IN  /\ gap <= total("ADJUST") /\ 0 - gap <= total("ADJUST")
            /\ (total("ADJUST") - gap) % 2 = 0

\* When calls are answered and nobody touches an order before its placement
\* has ended well, stock and orders agree: a placed order holds its lines exactly
\* once through completion and every redelivery of order.completed, and a
\* rejected or cancelled one holds nothing.
StockMatchesOrders ==
    \A o \in Orders, p \in Products :
        /\ /\ placing[o] \in {"reserved", "created"}
           /\ status[o] \in {"PENDING", "COMPLETED"}
           => Held(o, p) = cart[o][p]
        /\ placing[o] = "rejected" => Held(o, p) = 0
        /\ cancelling[o] \in {"released", "done"} => Held(o, p) = 0

\* When nobody touches an order before its placement has ended well, orders
\* alone never drive stock below zero: only the admin's own OUT and ADJUST
\* movements can.
NoOversell ==
    \A p \in Products :
        onHand[p] + ledger["OUT"][Manual][p] + ledger["ADJUST"][Manual][p] >= 0

\* Under the same condition order.completed carries every cost the reservation
\* brought (create_order.go:313), which report-service needs for the profit.
CompletedCarriesCosts ==
    \A e \in stream : e.subject = "order.completed" => e.cogs = costed[e.order]

\* Whatever is lost, late or reordered, the drift of the stock is bounded per
\* order: its lines are deducted at most twice, twice only if it was settled,
\* and given back at most once, only if its customer cancelled it; an order
\* with a placement that ended well was deducted.
StockDriftBounded ==
    \A o \in Orders, p \in Products :
        LET n == cart[o][p] IN
        /\ Taken(o, p) \in {0, n, 2 * n} /\ Given(o, p) \in {0, n}
        /\ Taken(o, p) > n => payment[o] # "NONE"
        /\ Given(o, p) > 0 => cancelling[o] # "idle" /\ Taken(o, p) <= n
        /\ placing[o] = "created" => Taken(o, p) >= n

\* create_order.go:302: setting the order CANCELLED when Reserve fails keeps
\* the stock consistent, so a rejected order ends up holding no stock.
RejectedHoldsNothing ==
    \A o \in Orders, p \in Products :
        placing[o] = "rejected" /\ reserveCall[o] # "sent" => Held(o, p) = 0

\* docs/prd.md:425 and order_completed.go:157: what was reserved on placing is
\* not deducted again on completion.
NoDoubleDeduct ==
    \A o \in Orders, p \in Products : Taken(o, p) <= cart[o][p]
=============================================================================
