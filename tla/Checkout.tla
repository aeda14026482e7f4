------------------------------ MODULE Checkout ------------------------------
(***************************************************************************)
(* A customer asks order-service what an order will cost and then places   *)
(* it (quote_order.go, create_order.go), while admins edit the three       *)
(* things the answer depends on: the catalog (Catalog.tla), the store's    *)
(* place and radius (Store.tla) and the delivery fee (Fees.tla).           *)
(*                                                                         *)
(* Both requests read one service after the other, and the settings and    *)
(* the rules of the fee in two statements; nothing holds still in between. *)
(* The order adds up the lines it is going to store, the quote adds up     *)
(* prices; only the fee comes from a function both call.  What becomes of  *)
(* an order once it is placed is in Orders.tla.                            *)
(***************************************************************************)
EXTENDS Catalog, Fees, Store, FiniteSetsExt

CONSTANTS
    Carts,    \* items of a request: lines that may repeat a product
    MaxEdits  \* bound on the admin requests of a behaviour

ASSUME CheckoutAssumption ==
    /\ \A c \in Carts : c \in Seq([product : Products, qty : Nat \ {0}])
    /\ << >> \notin Carts
    /\ Absent \notin Nat
    /\ \A a, b \in Places : Distance[a][b] \in Distances
    /\ MaxEdits \in Nat

VARIABLES
    basket,   \* what the customer asks for: items and place
    request,  \* the quote or create handler, with its locals
    quote,    \* the answer to the last quote
    order,    \* the row of the order placed after it
    steady,   \* not in the code: nothing was edited since the quote began
    edits     \* admin requests begun

customerVars == <<basket, request, quote, order>>
checkoutVars == <<catalogVars, feeVars, storeVars, customerVars, steady, edits>>

Basket == [items : Carts, place : Places]
Kinds  == {"quote", "order"}

\* toggle is not a column of orders: it is what the request has read.
Priced ==
    [distance : Nat, toggle : BOOLEAN \cup {Absent}, fee : Nat, total : Nat]

Request ==
    {Idle}
        \cup [at : {"asked"}, kind : Kinds]
        \cup [at : {"located"}, kind : Kinds, distance : Nat]
        \cup [at : {"summed"}, kind : Kinds, distance : Nat, subtotal : Nat]
        \cup [at : {"toggled"}, kind : Kinds, distance : Nat, subtotal : Nat,
              toggle : BOOLEAN \cup {Absent}]

CheckoutTypeOK ==
    /\ CatalogTypeOK
    /\ FeesTypeOK
    /\ StoreTypeOK
    /\ basket \in Basket \cup {Absent}
    /\ request \in Request
    /\ quote \in Priced \cup {Absent}
    /\ order \in Priced \cup {Absent}
    /\ steady \in BOOLEAN
    /\ edits \in 0 .. MaxEdits

CheckoutInit ==
    /\ CatalogInit
    /\ FeesInit
    /\ StoreInit
    /\ basket = Absent
    /\ request = Idle
    /\ quote = Absent
    /\ order = Absent
    /\ steady = FALSE
    /\ edits = 0

-----------------------------------------------------------------------------
(***************************************************************************)
(* The customer.                                                           *)
(***************************************************************************)
\* qtyByProduct
Quantity(items, p) ==
    MapThenSumSet(LAMBDA i : items[i].qty,
                  {i \in DOMAIN items : items[i].product = p})

Ordered(items) == {items[i].product : i \in DOMAIN items}

\* handleListActiveProducts
OnSale == {p \in Listed : products[p].active}

\* The subtotal of a quote.
Subtotal(rows, items) ==
    MapThenSumSet(LAMBDA p : rows[p].price * Quantity(items, p),
                  Ordered(items))

\* preparedLine.lineTotal of the lines of an order.
LineTotals(rows, items) ==
    [p \in Ordered(items) |-> rows[p].price * Quantity(items, p)]

Ask(kind) == request' = [at |-> "asked", kind |-> kind]

\* POST /v1/orders/quote
AskQuote(b) ==
    /\ request = Idle
    /\ basket' = b
    /\ quote' = Absent
    /\ order' = Absent
    /\ steady' = TRUE
    /\ Ask("quote")

\* POST /v1/orders: with what was quoted.
PlaceOrder ==
    /\ request = Idle
    /\ quote # Absent
    /\ order = Absent
    /\ Ask("order")
    /\ UNCHANGED <<basket, quote, order, steady>>

\* An answer other than 200 or 201.
Refused == request' = Idle

\* geo.Check: handleCheck reads the row once.  An order out of range is a 422,
\* a quote says so and goes on; a store that is not configured is a 502.
CheckRange ==
    /\ request.at = "asked"
    /\ IF store # Absent /\ (request.kind = "order" => InRange(basket.place))
       THEN request' = [at |-> "located", kind |-> request.kind,
                        distance |-> DistanceTo(basket.place)]
       ELSE Refused
    /\ UNCHANGED <<basket, quote, order, steady>>

LinesSumTo(subtotal) ==
    request' = [at |-> "summed", kind |-> request.kind,
                distance |-> request.distance, subtotal |-> subtotal]

\* A quote: catalog.ListActive, and the sum of the prices.
SumPrices ==
    /\ request.at = "located"
    /\ request.kind = "quote"
    /\ IF Ordered(basket.items) \subseteq OnSale
       THEN LinesSumTo(Subtotal(products, basket.items))
       ELSE Refused
    /\ UNCHANGED <<basket, quote, order, steady>>

\* Mutant: of the lines that repeat a product, an order bills the dearest.
PrepareLinesUnmerged ==
    /\ request.at = "located"
    /\ request.kind = "order"
    /\ IF Ordered(basket.items) \subseteq OnSale
       THEN LinesSumTo(Max({basket.items[i].qty
                           * products[basket.items[i].product].price :
                        i \in DOMAIN basket.items}))
       ELSE Refused
    /\ UNCHANGED <<basket, quote, order, steady>>

\* An order: catalog.ListActive, and the lines that will be stored.
PrepareLines ==
    /\ request.at = "located"
    /\ request.kind = "order"
    /\ IF Ordered(basket.items) \subseteq OnSale
       THEN LinesSumTo(SumFunction(LineTotals(products, basket.items)))
       ELSE Refused
    /\ UNCHANGED <<basket, quote, order, steady>>

\* loadDeliveryFeeConfig, first statement.
ReadToggle ==
    /\ request.at = "summed"
    /\ request' = [at |-> "toggled", kind |-> request.kind,
                   distance |-> request.distance,
                   subtotal |-> request.subtotal, toggle |-> feeEnabled]
    /\ UNCHANGED <<basket, quote, order, steady>>

\* loadDeliveryFeeConfig, second statement, and matchDeliveryFee.
DeliveryFee == MatchFee(request.toggle, feeRules, request.distance)

\* The second read, and the answer to a quote.
AnswerQuote ==
    /\ request.at = "toggled"
    /\ request.kind = "quote"
    /\ quote' = [distance |-> request.distance, toggle |-> request.toggle,
                 fee |-> DeliveryFee, total |-> request.subtotal + DeliveryFee]
    /\ request' = Idle
    /\ UNCHANGED <<basket, order, steady>>

\* The second read, and the transaction that inserts the order.  Nothing the
\* order costs is read between them, so they are one step; a crash or an error
\* between them is RequestFails.
InsertOrder ==
    /\ request.at = "toggled"
    /\ request.kind = "order"
    /\ order' = [distance |-> request.distance, toggle |-> request.toggle,
                 fee |-> DeliveryFee, total |-> request.subtotal + DeliveryFee]
    /\ request' = Idle
    /\ UNCHANGED <<basket, quote, steady>>

\* A call of another service fails, the customer gives up, order-service ends.
RequestFails ==
    /\ request # Idle
    /\ Refused
    /\ UNCHANGED <<basket, quote, order, steady>>

CustomerNext ==
    /\ \/ \E b \in Basket : AskQuote(b)
       \/ PlaceOrder \/ CheckRange
       \/ SumPrices \/ PrepareLines
       \/ ReadToggle
       \/ AnswerQuote \/ InsertOrder
       \/ RequestFails
    /\ UNCHANGED <<catalogVars, feeVars, storeVars, edits>>

-----------------------------------------------------------------------------
(***************************************************************************)
(* The admins: a request begins, and some of its steps store something.    *)
(***************************************************************************)
Begins ==
    /\ edits < MaxEdits
    /\ edits' = edits + 1

CatalogNext ==
    /\ \/ \E e \in Editors, p \in Products :
              \/ /\ Begins
                 /\ \/ \E row \in ProductRow :
                           CreateProduct(e, p, row) /\ steady' = FALSE
                    \/ \E body \in Bodies :
                           LoadForPatch(e, p, body) /\ UNCHANGED steady
       \/ \E e \in Editors :
              /\ UNCHANGED edits
              /\ \/ CommitPatch(e) /\ steady' = FALSE
                 \/ /\ RefusePatch(e) \/ ReloadProduct(e) \/ AnnounceProduct(e)
                    /\ UNCHANGED steady
       \/ CatalogRestart /\ UNCHANGED <<steady, edits>>
    /\ UNCHANGED <<feeVars, storeVars, customerVars>>

FeesNext ==
    /\ \/ /\ \E e \in Editors :
                 \/ /\ Begins
                    /\ \E toggle \in BOOLEAN \cup {Absent},
                          rules \in RuleLists \cup {Absent} :
                           PutFees(e, toggle, rules)
                    /\ UNCHANGED steady
                 \/ SaveFees(e) /\ steady' = FALSE /\ UNCHANGED edits
          /\ UNCHANGED request
       \/ /\ FeesRestart
          /\ Refused
          /\ steady' = (steady /\ UNCHANGED feeEnabled)
          /\ UNCHANGED edits
    /\ UNCHANGED <<catalogVars, storeVars, basket, quote, order>>

StoreNext ==
    /\ \/ \E e \in Editors :
              \/ /\ Begins
                 /\ \E place \in Places \cup {Absent},
                       radius \in Radii \cup {Absent} :
                        PutStore(e, place, radius)
                 /\ UNCHANGED steady
              \/ SaveStore(e) /\ steady' = FALSE /\ UNCHANGED edits
       \/ /\ StoreRestart
          /\ steady' = (steady /\ UNCHANGED store)
          /\ UNCHANGED edits
    /\ UNCHANGED <<catalogVars, feeVars, customerVars>>

CheckoutNext == CustomerNext \/ CatalogNext \/ FeesNext \/ StoreNext

CheckoutSpec == CheckoutInit /\ [][CheckoutNext]_checkoutVars

-----------------------------------------------------------------------------
(***************************************************************************)
(* Properties.                                                             *)
(***************************************************************************)
\* The toggle and the rules are read in two statements, and may be of two
\* admins: but the fee of a quote or an order comes from a list of rules that
\* was in force as a whole, never from one half replaced.
FeeFromStoredRules ==
    \A priced \in {quote, order} \ {Absent} :
        IF priced.toggle = TRUE
        THEN \E l \in feeLog : priced.fee = BandFee(l, priced.distance)
        ELSE priced.fee = 0

\* quote_order.go repeats the arithmetic of create_order.go: the customer pays
\* what was quoted unless an admin stored something between the start of the
\* quote and the end of the order.
PlacedAsQuoted ==
    steady /\ quote # Absent /\ order # Absent => order = quote
=============================================================================
