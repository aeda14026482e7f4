------------------------------ MODULE Inventory ------------------------------
(***************************************************************************)
(* inventory-service: stock levels and the movement ledger.                *)
(*                                                                         *)
(* Every operation is one SQLite transaction, so one step.  Operations     *)
(* arrive from order-service (reserve and release, reserve.go), from the   *)
(* streams ORDERS and CATALOG (order_completed.go, product_updated.go;     *)
(* JetStream delivers an event at least once, and again after a Nak or a   *)
(* restart that recreates the durable consumer) and from the admin         *)
(* (stock_api.go).                                                         *)
(*                                                                         *)
(* Data left out: sku, name, cost_price and reorder_level of a row, and    *)
(* the unit_cost of a movement.  The rows of the ledger are kept as the    *)
(* total quantity per kind, reference and product; qty is positive in      *)
(* every row, so a total is positive exactly when there is a row.          *)
(***************************************************************************)
EXTENDS Shop

CONSTANTS
    Manual,     \* the reference of an admin movement (ref_type MANUAL)
    SkuTaken    \* products whose SKU already belongs to the row of another
                \* product: creating their row violates UNIQUE(sku)

ASSUME InventoryAssumption == Manual \notin Orders /\ SkuTaken \subseteq Products

VARIABLES
    known,      \* products with a row in stock_items
    onHand,     \* stock_items.on_hand; may be negative
    ledger,     \* stock_movements
    processed   \* processed_events

stockVars == <<known, onHand, ledger, processed>>

Kinds == {"IN", "OUT", "ADJUST"}
Refs  == Orders \cup {Manual}

CompletedEvent(o) == <<"order.completed", o>>
ProductEvent(p)   == <<"catalog.product.updated", p>>
EventIds == {CompletedEvent(o) : o \in Orders} \cup
            {ProductEvent(p) : p \in Products}

InventoryTypeOK ==
    /\ known \in SUBSET Products
    /\ onHand \in [Products -> Int]
    /\ ledger \in [Kinds -> [Refs -> [Products -> Nat]]]
    /\ processed \in SUBSET EventIds

InventoryInit ==
    /\ known = {}
    /\ onHand = NoItems
    /\ ledger = [k \in Kinds |-> [r \in Refs |-> NoItems]]
    /\ processed = {}

-----------------------------------------------------------------------------
\* insertMovementTx, for all the lines of an order.
Record(kind, ref, c) ==
    ledger' = [ledger EXCEPT ![kind][ref] =
                  [p \in Products |-> @[p] + c[p]]]

\* What the ledger says of one reference.
Taken(o, p) == ledger["OUT"][o][p]
Given(o, p) == ledger["IN"][o][p]

-----------------------------------------------------------------------------
(***************************************************************************)
(* handleStockOp: all lines or none.  Neither operation looks at what has  *)
(* been reserved or released for the order before.                         *)
(***************************************************************************)
\* Mutant: the row is looked up, its on_hand is not compared.
InStockAnyAmount(c) == Items(c) \subseteq known

InStock(c) == Items(c) \subseteq {p \in known : onHand[p] >= c[p]}

Reserve(o, c) ==
    /\ InStock(c)
    /\ onHand' = [p \in Products |-> onHand[p] - c[p]]
    /\ Record("OUT", o, c)
    /\ UNCHANGED <<known, processed>>

\* A row that is missing is created; that fails when its SKU is taken, and
\* the transaction with it.
CanRelease(c) == Items(c) \cap SkuTaken \subseteq known

\* Mutant: stock is put back without a movement.
ReleaseUnrecorded(o, c) ==
    /\ CanRelease(c)
    /\ known' = known \cup Items(c)
    /\ onHand' = [p \in Products |-> onHand[p] + c[p]]
    /\ UNCHANGED <<ledger, processed>>

Release(o, c) ==
    /\ CanRelease(c)
    /\ known' = known \cup Items(c)
    /\ onHand' = [p \in Products |-> onHand[p] + c[p]]
    /\ Record("IN", o, c)
    /\ UNCHANGED processed

-----------------------------------------------------------------------------
(***************************************************************************)
(* applyOrderCompleted.                                                    *)
(***************************************************************************)
\* Mutant: no look at the ledger.
TakenBeforeUnknown(o) == FALSE

TakenBefore(o) == \E p \in Products : Taken(o, p) > 0

\* The order has an OUT row, so its stock was taken when it was placed.
AcceptCompleted(o) ==
    /\ CompletedEvent(o) \notin processed
    /\ TakenBefore(o)
    /\ processed' = processed \cup {CompletedEvent(o)}
    /\ UNCHANGED <<known, onHand, ledger>>

\* It has none: deduct now, creating rows and going negative if need be.  If a
\* row cannot be created the transaction fails and the event is redelivered.
DeductCompleted(o, c) ==
    /\ CompletedEvent(o) \notin processed
    /\ ~TakenBefore(o)
    /\ Items(c) \cap SkuTaken \subseteq known
    /\ known' = known \cup Items(c)
    /\ onHand' = [p \in Products |-> onHand[p] - c[p]]
    /\ Record("OUT", o, c)
    /\ processed' = processed \cup {CompletedEvent(o)}

OrderCompleted(o, c) == AcceptCompleted(o) \/ DeductCompleted(o, c)

\* applyProductUpdated: a row at zero for a product never seen; a taken SKU is
\* logged and the event recorded all the same.
ProductUpdated(p) ==
    /\ ProductEvent(p) \notin processed
    /\ known' = known \cup ({p} \ SkuTaken)
    /\ processed' = processed \cup {ProductEvent(p)}
    /\ UNCHANGED <<onHand, ledger>>

-----------------------------------------------------------------------------
(***************************************************************************)
(* applyMovement.  Only IN creates a row; OUT and ADJUST may go below      *)
(* zero.  An ADJUST row keeps the size of its delta.                       *)
(***************************************************************************)
Only(p, n) == [NoItems EXCEPT ![p] = n]

MoveIn(p, qty) ==
    /\ known' = known \cup {p}
    /\ onHand' = [onHand EXCEPT ![p] = @ + qty]
    /\ Record("IN", Manual, Only(p, qty))
    /\ UNCHANGED processed

MoveOut(p, qty) ==
    /\ p \in known
    /\ onHand' = [onHand EXCEPT ![p] = @ - qty]
    /\ Record("OUT", Manual, Only(p, qty))
    /\ UNCHANGED <<known, processed>>

\* Mutant: the signed delta goes into the ledger.
AdjustSigned(p, delta) ==
    /\ p \in known
    /\ onHand' = [onHand EXCEPT ![p] = @ + delta]
    /\ Record("ADJUST", Manual, Only(p, delta))
    /\ UNCHANGED <<known, processed>>

\* A correction upwards is delta, one downwards is 0 - delta.
Adjust(p, delta) ==
    /\ p \in known
    /\ onHand' = [onHand EXCEPT ![p] = @ + delta]
    /\ Record("ADJUST", Manual, Only(p, IF delta > 0 THEN delta ELSE 0 - delta))
    /\ UNCHANGED <<known, processed>>
=============================================================================
