-------------------------- MODULE OrderStock_proofs --------------------------
(***************************************************************************)
(* Proofs about OrderStock.tla, for every set of orders, desks and         *)
(* products.  Each theorem says which of EarlyAccess and Unreliable it     *)
(* excludes; none looks at MaxMoved, MaxQty, MaxCrashes or SkuTaken.       *)
(***************************************************************************)
EXTENDS OrderStock, Orders_proofs, Sums

-----------------------------------------------------------------------------
(***************************************************************************)
(* To order-service, inventory-service is one of the callees Orders.tla    *)
(* leaves open, so what is proved about Orders.tla holds here.             *)
(***************************************************************************)
\* A step of the composition is one Orders.tla allows, or leaves it alone.
LEMMA StepOfOrders == [Next]_vars => [OrdersNext]_orderVars
<1> SUFFICES ASSUME [Next]_vars PROVE [OrdersNext]_orderVars
  OBVIOUS
<1>1. ASSUME NEW o \in Orders,
             ServeReserve(o) \/ RefuseReserve(o) \/ ServeRelease(o)
                 \/ FailRelease(o) \/ ServePayment(o) \/ CallLost(o)
      PROVE  OthersNext
  BY <1>1 DEF ServeReserve, RefuseReserve, ServeRelease, FailRelease,
              ServePayment, OthersNext
<1>2. ASSUME NEW o \in Orders, DeliverCompleted(o)
      PROVE  UNCHANGED orderVars
  BY <1>2 DEF DeliverCompleted
<1>3. ASSUME NEW p \in Products, DeliverProduct(p) \/ AdminMoves(p)
      PROVE  UNCHANGED orderVars
  BY <1>3 DEF DeliverProduct, AdminMoves
<1>4. CASE UNCHANGED vars
  BY <1>4 DEF vars
<1> QED
  BY <1>1, <1>2, <1>3, <1>4 DEF Next, InventoryNext, OrdersNext

\* inventory-service serving the calls is one way of answering them.
THEOREM RefinesOrders == Spec => OrdersSpec
<1> QED BY StepOfOrders, PTL DEF Spec, Init, OrdersSpec

\* So the orders of the composition live the life OrderLifecycle describes.
THEOREM KeepsLifecycle == Spec => LifecycleSpec
<1> QED BY RefinesOrders, ImplementsLifecycle

\* And the inductive invariant of Orders.tla holds.
LEMMA OrdersInvariance == Spec => []IInv
<1> QED BY RefinesOrders, Invariance, PTL

-----------------------------------------------------------------------------
(***************************************************************************)
(* Helpers of inventory-service.                                           *)
(***************************************************************************)
\* Quantities that can go into the ledger.
Quantities == [Products -> Nat]

\* insertMovementTx adds to one kind and reference and to nothing else.
LEMMA RecordAdds ==
    ASSUME InventoryTypeOK, NEW kind \in Kinds, NEW ref \in Refs,
           NEW c \in Quantities, Record(kind, ref, c)
    PROVE  /\ ledger' \in [Kinds -> [Refs -> [Products -> Nat]]]
           /\ \A k \in Kinds, r \in Refs, p \in Products :
                  ledger'[k][r][p] = IF k = kind /\ r = ref
                                     THEN ledger[k][r][p] + c[p]
                                     ELSE ledger[k][r][p]
<1> DEFINE row == [p \in Products |-> ledger[kind][ref][p] + c[p]]
<1>1. ledger' = [ledger EXCEPT ![kind] = [ledger[kind] EXCEPT ![ref] = row]]
  BY DEF Record
<1>2. row \in [Products -> Nat]
  BY DEF InventoryTypeOK, Quantities
<1>3. ASSUME NEW k \in Kinds, NEW r \in Refs
      PROVE  ledger'[k][r] = IF k = kind /\ r = ref THEN row ELSE ledger[k][r]
  <2> HIDE DEF row
  <2> QED BY <1>1 DEF InventoryTypeOK
<1>4. ledger' \in [Kinds -> [Refs -> [Products -> Nat]]]
  <2> HIDE DEF row
  <2> QED BY <1>1, <1>2 DEF InventoryTypeOK
<1>5. ASSUME NEW p \in Products PROVE row[p] = ledger[kind][ref][p] + c[p]
  OBVIOUS
<1> HIDE DEF row
<1> QED BY <1>3, <1>4, <1>5

\* The lines of an order, or one line of an admin, are quantities.
LEMMA CartQuantities ==
    ASSUME OrdersTypeOK
    PROVE  \A o \in Orders : cart[o] \in Quantities
  BY ShopAssumption DEF OrdersTypeOK, Quantities

LEMMA OnlyQuantities ==
    ASSUME NEW p \in Products, NEW n \in Nat
    PROVE  /\ Only(p, n) \in Quantities
           /\ \A q \in Products : Only(p, n)[q] = IF q = p THEN n ELSE 0
  BY DEF Only, NoItems, Quantities

LEMMA RefsOfOrders ==
    /\ \A o \in Orders : o \in Refs /\ o # Manual
    /\ Manual \in Refs
    /\ "IN" \in Kinds /\ "OUT" \in Kinds /\ "ADJUST" \in Kinds
  BY InventoryAssumption DEF Refs, Kinds

-----------------------------------------------------------------------------
(***************************************************************************)
(* Types.                                                                  *)
(***************************************************************************)
LEMMA InitTypes == Init => InventoryTypeOK
<1> SUFFICES ASSUME Init PROVE InventoryTypeOK
  OBVIOUS
<1>1. NoItems \in [Products -> Nat] /\ NoItems \in [Products -> Int]
  BY DEF NoItems
<1> HIDE DEF NoItems
<1> QED BY <1>1 DEF Init, InventoryInit, InventoryTypeOK

\* reserve and release.
LEMMA ServeKeepsTypes ==
    ASSUME IInv, InventoryTypeOK, NEW o \in Orders,
           ServeReserve(o) \/ ServeRelease(o)
    PROVE  InventoryTypeOK'
<1>1. cart[o] \in Quantities BY CartQuantities DEF IInv
<1>2. Items(cart[o]) \subseteq Products BY DEF Items
<1>3. CASE ServeReserve(o)
  <2> USE <1>3 DEF ServeReserve, Reserve
  <2>1. ledger' \in [Kinds -> [Refs -> [Products -> Nat]]]
    BY <1>1, RefsOfOrders, RecordAdds
  <2>2. onHand' \in [Products -> Int]
    BY <1>1 DEF InventoryTypeOK, Quantities
  <2> QED BY <2>1, <2>2 DEF InventoryTypeOK
<1>4. CASE ServeRelease(o)
  <2> USE <1>4 DEF ServeRelease, Release
  <2>1. ledger' \in [Kinds -> [Refs -> [Products -> Nat]]]
    BY <1>1, RefsOfOrders, RecordAdds
  <2>2. onHand' \in [Products -> Int]
    BY <1>1 DEF InventoryTypeOK, Quantities
  <2> QED BY <2>1, <2>2, <1>2 DEF InventoryTypeOK
<1> QED BY <1>3, <1>4

\* The events of order-service and catalog-service.
LEMMA EventsKeepTypes ==
    ASSUME IInv, InventoryTypeOK,
           \/ \E o \in Orders : DeliverCompleted(o)
           \/ \E p \in Products : DeliverProduct(p)
    PROVE  InventoryTypeOK'
<1>1. ASSUME NEW o \in Orders, AcceptCompleted(o) PROVE InventoryTypeOK'
  BY <1>1 DEF AcceptCompleted, InventoryTypeOK, EventIds
<1>2. ASSUME NEW o \in Orders, DeductCompleted(o, cart[o])
      PROVE  InventoryTypeOK'
  <2> USE <1>2 DEF DeductCompleted
  <2>1. cart[o] \in Quantities BY CartQuantities DEF IInv
  <2>2. ledger' \in [Kinds -> [Refs -> [Products -> Nat]]]
    BY <2>1, RefsOfOrders, RecordAdds
  <2>3. onHand' \in [Products -> Int]
    BY <2>1 DEF InventoryTypeOK, Quantities
  <2>4. Items(cart[o]) \subseteq Products BY DEF Items
  <2>5. processed' \in SUBSET EventIds BY DEF InventoryTypeOK, EventIds
  <2> QED BY <2>2, <2>3, <2>4, <2>5 DEF InventoryTypeOK
<1>3. ASSUME NEW p \in Products, ProductUpdated(p) PROVE InventoryTypeOK'
  BY <1>3 DEF ProductUpdated, InventoryTypeOK, EventIds
<1> QED BY <1>1, <1>2, <1>3 DEF DeliverCompleted, OrderCompleted,
                                DeliverProduct

\* What one movement of the admin does: which kind of row it adds, how large
\* the row is and by how much it changes on_hand.  An IN adds what it records
\* and an OUT takes it; an ADJUST records the size of a delta of either sign.
Moved(p, kind, size, delta) ==
    /\ onHand' = [onHand EXCEPT ![p] = @ + delta]
    /\ Record(kind, Manual, Only(p, size))
    /\ known' \in SUBSET Products /\ known \subseteq known'
    /\ processed' = processed
    /\ kind = "IN" => delta = size
    /\ kind = "OUT" => delta = 0 - size
    /\ kind = "ADJUST" => delta = size \/ delta = 0 - size

LEMMA AdminMovement ==
    ASSUME InventoryTypeOK, NEW p \in Products, AdminMoves(p)
    PROVE  \E kind \in Kinds, size \in Nat, delta \in Int :
               Moved(p, kind, size, delta)
<1>1. PICK kind \in Kinds :
          \E qty \in 1 .. MaxMoved[kind] - ledger[kind][Manual][p] :
              \/ kind = "IN" /\ MoveIn(p, qty)
              \/ kind = "OUT" /\ MoveOut(p, qty)
              \/ kind = "ADJUST" /\ (Adjust(p, qty) \/ Adjust(p, 0 - qty))
  BY DEF AdminMoves
<1>2. PICK qty \in 1 .. MaxMoved[kind] - ledger[kind][Manual][p] :
          \/ kind = "IN" /\ MoveIn(p, qty)
          \/ kind = "OUT" /\ MoveOut(p, qty)
          \/ kind = "ADJUST" /\ (Adjust(p, qty) \/ Adjust(p, 0 - qty))
  BY <1>1
<1>3. qty \in Nat /\ qty > 0 /\ 0 - qty \in Int /\ onHand[p] \in Int
  <2>1. MaxMoved[kind] \in Int /\ ledger[kind][Manual][p] \in Int
    BY MovedAssumption, RefsOfOrders DEF InventoryTypeOK
  <2> QED BY <2>1 DEF InventoryTypeOK
<1> HIDE DEF Record
<1>4. CASE kind = "IN" /\ MoveIn(p, qty)
  <2>1. Moved(p, kind, qty, qty)
    BY <1>3, <1>4 DEF MoveIn, Moved, InventoryTypeOK
  <2> QED BY <1>3, <2>1
<1>5. CASE kind = "OUT" /\ MoveOut(p, qty)
  <2>1. onHand[p] - qty = onHand[p] + (0 - qty) BY <1>3
  <2>2. Moved(p, kind, qty, 0 - qty)
    BY <1>5, <2>1 DEF MoveOut, Moved, InventoryTypeOK
  <2> QED BY <1>3, <2>2
<1>6. CASE kind = "ADJUST" /\ Adjust(p, qty)
  <2>1. (IF qty > 0 THEN qty ELSE 0 - qty) = qty BY <1>3
  <2>2. Moved(p, kind, qty, qty)
    BY <1>6, <2>1 DEF Adjust, Moved, InventoryTypeOK
  <2> QED BY <1>3, <2>2
<1>7. CASE kind = "ADJUST" /\ Adjust(p, 0 - qty)
  <2>1. (IF 0 - qty > 0 THEN 0 - qty ELSE 0 - (0 - qty)) = qty BY <1>3
  <2>2. Moved(p, kind, qty, 0 - qty)
    BY <1>7, <2>1 DEF Adjust, Moved, InventoryTypeOK
  <2> QED BY <1>3, <2>2
<1> QED BY <1>2, <1>4, <1>5, <1>6, <1>7

LEMMA AdminKeepsTypes ==
    ASSUME InventoryTypeOK, NEW p \in Products, AdminMoves(p)
    PROVE  InventoryTypeOK'
<1>1. PICK kind \in Kinds, size \in Nat, delta \in Int :
          Moved(p, kind, size, delta)
  BY AdminMovement
<1>2. ledger' \in [Kinds -> [Refs -> [Products -> Nat]]]
  BY <1>1, OnlyQuantities, RefsOfOrders, RecordAdds DEF Moved
<1>3. onHand' \in [Products -> Int]
  BY <1>1 DEF Moved, InventoryTypeOK
<1> QED BY <1>1, <1>2, <1>3 DEF Moved, InventoryTypeOK

\* Every step keeps the tables of inventory-service well-formed.
LEMMA NextKeepsTypes == IInv /\ InventoryTypeOK /\ [Next]_vars => InventoryTypeOK'
<1> SUFFICES ASSUME IInv, InventoryTypeOK, [Next]_vars PROVE InventoryTypeOK'
  OBVIOUS
<1>1. CASE UNCHANGED stockVars
  BY <1>1 DEF stockVars, InventoryTypeOK
<1>2. CASE \E o \in Orders : RefuseReserve(o) \/ FailRelease(o)
  BY <1>1, <1>2 DEF RefuseReserve, FailRelease
<1>3. CASE InventoryNext
  BY <1>2, <1>3, ServeKeepsTypes, EventsKeepTypes, AdminKeepsTypes
  DEF InventoryNext
<1> QED BY <1>1, <1>3 DEF Next, vars, ServePayment

\* The tables of both services stay well-formed, whatever is lost and in
\* whatever order calls, events and movements arrive; only on_hand may become
\* negative (stock_api.go and order_completed.go allow it).
THEOREM StockTypeCorrect == Spec => []TypeOK
<1>1. IInv /\ InventoryTypeOK => TypeOK BY DEF TypeOK, IInv
<1>2. IInv /\ InventoryTypeOK /\ [Next]_vars => InventoryTypeOK'
  BY NextKeepsTypes
<1> QED BY <1>1, <1>2, InitTypes, OrdersInvariance, PTL DEF Spec

-----------------------------------------------------------------------------
(***************************************************************************)
(* What the ledger says of an order follows from the calls made for it and *)
(* from order.completed having been consumed.  StockDriftBounded does not  *)
(* say why a line was deducted, so it cannot rule out that a late reserve  *)
(* deducts it a third time; these two say which deductions are behind.     *)
(***************************************************************************)
\* Nothing is reserved before the order is placed, nothing released before it is
\* cancelled; an order that was placed has lines.
CallsBegin ==
    \A o \in Orders :
        /\ placing[o] = "idle" => reserveCall[o] = "none"
        /\ cancelling[o] = "idle" => releaseCall[o] = "none"
        /\ placing[o] # "idle" => Items(cart[o]) # {}

LedgerFollowsCalls ==
    \A o \in Orders :
        /\ CompletedEvent(o) \in processed => payment[o] # "NONE"
        /\ \A p \in Products :
               /\ Given(o, p) = IF releaseCall[o] = "applied"
                                THEN cart[o][p] ELSE 0
               /\ CompletedEvent(o) \notin processed =>
                      Taken(o, p) = IF reserveCall[o] = "applied"
                                    THEN cart[o][p] ELSE 0
               /\ CompletedEvent(o) \in processed =>
                      \/ Taken(o, p) = cart[o][p]
                      \/ /\ reserveCall[o] = "applied"
                         /\ Taken(o, p) = 2 * cart[o][p]

StockInv == IInv /\ InventoryTypeOK /\ CallsBegin /\ LedgerFollowsCalls

LEMMA InitStock == Init => StockInv
<1> SUFFICES ASSUME Init PROVE StockInv
  OBVIOUS
<1>1. IInv /\ InventoryTypeOK BY InitInv, InitTypes DEF Init
<1>2. CallsBegin BY DEF Init, OrdersInit, CallsBegin
<1>3. LedgerFollowsCalls
  BY RefsOfOrders
  DEF Init, OrdersInit, InventoryInit, LedgerFollowsCalls, Given, Taken, NoItems
<1> QED BY <1>1, <1>2, <1>3 DEF StockInv

\* Placing an order: nothing has been taken or given for it before.
LEMMA CreateKeepsStock ==
    ASSUME StockInv, NEW o \in Orders, CreateOrder(o), UNCHANGED stockVars
    PROVE  CallsBegin' /\ LedgerFollowsCalls'
<1> USE DEF StockInv, IInv, OrdersTypeOK, stockVars, CreateOrder, calls
<1>1. CallsBegin' BY DEF CallsBegin, Carts
<1>2. /\ payment[o] = "NONE" /\ CompletedEvent(o) \notin processed
      /\ reserveCall[o] = "none" /\ releaseCall[o] = "none"
  BY DEF StatusAgrees, CallsBegin, LedgerFollowsCalls
<1>3. \A p \in Products : Taken(o, p) = 0 /\ Given(o, p) = 0
  BY <1>2 DEF LedgerFollowsCalls
<1>4. LedgerFollowsCalls'
  <2> SUFFICES ASSUME NEW q \in Orders
               PROVE  LedgerFollowsCalls!(q)'
    BY DEF LedgerFollowsCalls
  <2>1. CASE q = o
    BY <1>2, <1>3, <2>1 DEF Taken, Given
  <2>2. CASE q # o
    BY <2>2 DEF LedgerFollowsCalls, Taken, Given
  <2> QED BY <2>1, <2>2
<1> QED BY <1>1, <1>4

\* A step that touches no lines and answers no call: it settles an order or
\* does not, and a request sends its call, goes on or ends.
RequestGoesOn ==
    /\ UNCHANGED <<cart, ledger, processed>>
    /\ \A o \in Orders :
           /\ payment[o] # "NONE" => payment'[o] # "NONE"
           /\ placing'[o] = "idle" <=> placing[o] = "idle"
           /\ cancelling'[o] = "idle" <=> cancelling[o] = "idle"
           /\ \/ reserveCall'[o] = reserveCall[o]
              \/ /\ placing[o] = "reserving"
                 /\ reserveCall[o] = "none" /\ reserveCall'[o] = "sent"
           /\ \/ releaseCall'[o] = releaseCall[o]
              \/ /\ cancelling[o] = "releasing"
                 /\ releaseCall[o] = "none" /\ releaseCall'[o] = "sent"

LEMMA GoingOnKeepsStock ==
    ASSUME StockInv, RequestGoesOn
    PROVE  CallsBegin' /\ LedgerFollowsCalls'
  BY DEF StockInv, RequestGoesOn, CallsBegin, LedgerFollowsCalls, Taken, Given

LEMMA CancelKeepsStock ==
    ASSUME StockInv, NEW o \in Orders, CancelMyOrder(o), UNCHANGED stockVars
    PROVE  CallsBegin' /\ LedgerFollowsCalls'
<1> USE DEF StockInv, IInv, OrdersTypeOK, stockVars, CancelMyOrder, calls
<1>1. cancelling[o] = "idle" /\ releaseCall[o] = "none"
  BY DEF StatusAgrees, CallsBegin
<1>2. CallsBegin' BY <1>1 DEF CallsBegin
<1>3. LedgerFollowsCalls' BY <1>1 DEF LedgerFollowsCalls, Taken, Given
<1> QED BY <1>2, <1>3

\* Apart from those two, order-service only goes on with its requests.
LEMMA OtherServiceSteps ==
    ASSUME StockInv, ServiceNext, UNCHANGED stockVars,
           \A o \in Orders : ~CreateOrder(o) /\ ~CancelMyOrder(o)
    PROVE  RequestGoesOn
<1> USE DEF StockInv, IInv, OrdersTypeOK, stockVars, RequestGoesOn
<1>1. ASSUME NEW o \in Orders, PlacementStep(o) PROVE RequestGoesOn
  BY <1>1 DEF PlacementStep, CallReserve, ReserveSucceeded, StoreItemCost,
              ReserveFailed, PublishOrderPlaced, tables, calls
<1>2. ASSUME NEW o \in Orders, CancellationStep(o) PROVE RequestGoesOn
  BY <1>2 DEF CancellationStep, CallRelease, ReleaseReturned,
              PublishOrderCancelled, tables, calls
<1>3. ASSUME NEW d \in Desks, SettleOrder(d) PROVE RequestGoesOn
  <2>1. desk[d].order \in Orders /\ desk[d].type # "NONE"
    BY <1>3 DEF SettleOrder, DesksAgree, PaymentTypes
  <2> QED BY <1>3, <2>1 DEF SettleOrder, calls
<1>4. ASSUME NEW d \in Desks,
             \/ \E o \in Orders : LoadOrder(d, o)
             \/ DeskStep(d) /\ ~SettleOrder(d)
      PROVE  RequestGoesOn
  BY <1>4 DEF LoadOrder, DeskStep, SettleConflict, PostPayment,
              LoadItemsFailed, PaymentReturned, PublishOrderCompleted,
              tables, calls
<1>5. ASSUME OrderServiceCrash PROVE RequestGoesOn
  BY <1>5 DEF OrderServiceCrash, tables, calls
<1> HIDE DEF RequestGoesOn, StockInv, stockVars
<1> QED BY <1>1, <1>2, <1>3, <1>4, <1>5 DEF ServiceNext

LEMMA ServiceKeepsStock ==
    ASSUME StockInv, ServiceNext, UNCHANGED stockVars
    PROVE  CallsBegin' /\ LedgerFollowsCalls'
  BY CreateKeepsStock, CancelKeepsStock, OtherServiceSteps, GoingOnKeepsStock

\* A reserve call of an order deducts its lines, once.
LEMMA ReserveKeepsStock ==
    ASSUME StockInv, NEW o \in Orders, ServeReserve(o)
    PROVE  CallsBegin' /\ LedgerFollowsCalls'
<1> USE DEF StockInv, IInv, OrdersTypeOK
<1>1. cart[o] \in Quantities BY CartQuantities
<1>2. \A k \in Kinds, r \in Refs, p \in Products :
          ledger'[k][r][p] = IF k = "OUT" /\ r = o
                             THEN ledger[k][r][p] + cart[o][p]
                             ELSE ledger[k][r][p]
  BY <1>1, RecordAdds, RefsOfOrders DEF ServeReserve, Reserve
<1>3. /\ \A q \in Orders, p \in Products : Given(q, p)' = Given(q, p)
      /\ \A q \in Orders \ {o}, p \in Products : Taken(q, p)' = Taken(q, p)
      /\ \A p \in Products : Taken(o, p)' = Taken(o, p) + cart[o][p]
  BY <1>2, RefsOfOrders DEF Given, Taken
<1> USE DEF ServeReserve, Reserve, ReserveEnds, tables
<1>4. CallsBegin' BY DEF CallsBegin
<1>5. LedgerFollowsCalls'
  <2> SUFFICES ASSUME NEW q \in Orders
               PROVE  LedgerFollowsCalls!(q)'
    BY DEF LedgerFollowsCalls
  <2>1. CASE q = o
    <3>1. \A p \in Products : cart[o][p] \in Nat BY <1>1 DEF Quantities
    <3> QED BY <1>3, <2>1, <3>1 DEF LedgerFollowsCalls
  <2>2. CASE q # o
    BY <1>3, <2>2 DEF LedgerFollowsCalls
  <2> QED BY <2>1, <2>2
<1> QED BY <1>4, <1>5

\* A release call gives its lines back, once.
LEMMA ReleaseKeepsStock ==
    ASSUME StockInv, NEW o \in Orders, ServeRelease(o)
    PROVE  CallsBegin' /\ LedgerFollowsCalls'
<1> USE DEF StockInv, IInv, OrdersTypeOK
<1>1. cart[o] \in Quantities BY CartQuantities
<1>2. \A k \in Kinds, r \in Refs, p \in Products :
          ledger'[k][r][p] = IF k = "IN" /\ r = o
                             THEN ledger[k][r][p] + cart[o][p]
                             ELSE ledger[k][r][p]
  BY <1>1, RecordAdds, RefsOfOrders DEF ServeRelease, Release
<1>3. /\ \A q \in Orders, p \in Products : Taken(q, p)' = Taken(q, p)
      /\ \A q \in Orders \ {o}, p \in Products : Given(q, p)' = Given(q, p)
      /\ \A p \in Products : Given(o, p)' = Given(o, p) + cart[o][p]
  BY <1>2, RefsOfOrders DEF Given, Taken
<1> USE DEF ServeRelease, Release, ReleaseEnds, tables
<1>4. CallsBegin' BY DEF CallsBegin
<1>5. LedgerFollowsCalls'
  <2> SUFFICES ASSUME NEW q \in Orders
               PROVE  LedgerFollowsCalls!(q)'
    BY DEF LedgerFollowsCalls
  <2>1. CASE q = o
    <3>1. \A p \in Products : cart[o][p] \in Nat BY <1>1 DEF Quantities
    <3> QED BY <1>3, <2>1, <3>1 DEF LedgerFollowsCalls
  <2>2. CASE q # o
    BY <1>3, <2>2 DEF LedgerFollowsCalls
  <2> QED BY <2>1, <2>2
<1> QED BY <1>4, <1>5

\* A call that is refused or lost, and the answer of billing-service.
LEMMA OtherAnswersKeepStock ==
    ASSUME StockInv, NEW o \in Orders,
           \/ RefuseReserve(o) \/ FailRelease(o) \/ ServePayment(o)
           \/ CallLost(o) /\ UNCHANGED stockVars
    PROVE  CallsBegin' /\ LedgerFollowsCalls'
<1> USE DEF StockInv, IInv, OrdersTypeOK
<1>1. /\ UNCHANGED <<payment, cart, placing, cancelling, ledger, processed>>
      /\ \/ UNCHANGED <<reserveCall, releaseCall>>
         \/ \E r \in {"refused", "lost"} :
                /\ reserveCall[o] = "sent" /\ UNCHANGED releaseCall
                /\ reserveCall' = [reserveCall EXCEPT ![o] = r]
         \/ \E r \in {"refused", "lost"} :
                /\ releaseCall[o] = "sent" /\ UNCHANGED reserveCall
                /\ releaseCall' = [releaseCall EXCEPT ![o] = r]
  BY DEF RefuseReserve, FailRelease, ServePayment, CallLost, ReserveEnds,
         ReleaseEnds, PaymentEnds, stockVars, tables
<1>2. CallsBegin' BY <1>1 DEF CallsBegin
<1>3. LedgerFollowsCalls' BY <1>1 DEF LedgerFollowsCalls, Taken, Given
<1> QED BY <1>2, <1>3

\* order.completed deducts the lines of an order that was settled without a
\* reserve that took them, the first time it is consumed.
LEMMA CompletedKeepsStock ==
    ASSUME StockInv, NEW o \in Orders, DeliverCompleted(o)
    PROVE  CallsBegin' /\ LedgerFollowsCalls'
<1> USE DEF StockInv, IInv, OrdersTypeOK
<1>1. UNCHANGED orderVars BY DEF DeliverCompleted
<1>2. CallsBegin' BY <1>1 DEF orderVars, CallsBegin
<1>3. payment[o] # "NONE" /\ CompletedEvent(o) \notin processed
  BY DEF DeliverCompleted, Published, StreamAgrees, OrderCompleted,
         AcceptCompleted, DeductCompleted
<1>4. \A q \in Orders : CompletedEvent(q) = CompletedEvent(o) => q = o
  BY DEF CompletedEvent
<1>5. cart[o] \in Quantities BY CartQuantities
<1>6. status[o] # "NONE" BY <1>3 DEF StatusAgrees
<1>7. PICK p \in Products : cart[o][p] > 0
  BY <1>6 DEF StatusAgrees, CallsBegin, Items
<1>8. CASE AcceptCompleted(o)
  <2>1. reserveCall[o] = "applied"
    BY <1>3, <1>8 DEF AcceptCompleted, TakenBefore, LedgerFollowsCalls
  <2>2. LedgerFollowsCalls'
    BY <1>1, <1>3, <1>4, <1>8, <2>1
    DEF AcceptCompleted, orderVars, LedgerFollowsCalls, Taken, Given
  <2> QED BY <1>2, <2>2
<1>9. CASE DeductCompleted(o, cart[o])
  <2>1. reserveCall[o] # "applied"
    <3>1. ~(Taken(o, p) > 0) BY <1>9 DEF DeductCompleted, TakenBefore
    <3> QED BY <1>3, <1>7, <3>1 DEF LedgerFollowsCalls
  <2>2. \A k \in Kinds, r \in Refs, q \in Products :
            ledger'[k][r][q] = IF k = "OUT" /\ r = o
                               THEN ledger[k][r][q] + cart[o][q]
                               ELSE ledger[k][r][q]
    BY <1>5, <1>9, RecordAdds, RefsOfOrders DEF DeductCompleted
  <2>3. /\ \A q \in Orders, s \in Products : Given(q, s)' = Given(q, s)
        /\ \A q \in Orders \ {o}, s \in Products : Taken(q, s)' = Taken(q, s)
        /\ \A s \in Products : Taken(o, s)' = Taken(o, s) + cart[o][s]
    BY <2>2, RefsOfOrders DEF Given, Taken
  <2>4. \A s \in Products : cart[o][s] \in Nat BY <1>5 DEF Quantities
  <2>5. LedgerFollowsCalls'
    <3> SUFFICES ASSUME NEW q \in Orders
                 PROVE  LedgerFollowsCalls!(q)'
      BY DEF LedgerFollowsCalls
    <3> USE <1>1 DEF orderVars
    <3>1. CASE q = o
      BY <1>3, <1>9, <2>1, <2>3, <2>4, <3>1
      DEF DeductCompleted, LedgerFollowsCalls
    <3>2. CASE q # o
      BY <1>4, <1>9, <2>3, <3>2 DEF DeductCompleted, LedgerFollowsCalls
    <3> QED BY <3>1, <3>2
  <2> QED BY <1>2, <2>5
<1> QED BY <1>8, <1>9 DEF DeliverCompleted, OrderCompleted

\* Products and the admin's movements concern no order.
LEMMA ProductsKeepStock ==
    ASSUME StockInv, NEW p \in Products, DeliverProduct(p) \/ AdminMoves(p)
    PROVE  CallsBegin' /\ LedgerFollowsCalls'
<1> USE DEF StockInv, IInv
<1>1. UNCHANGED orderVars BY DEF DeliverProduct, AdminMoves
<1>2. CallsBegin' BY <1>1 DEF orderVars, CallsBegin
<1>3. \A q \in Orders : CompletedEvent(q) # ProductEvent(p)
  BY DEF CompletedEvent, ProductEvent
<1>4. CASE DeliverProduct(p)
  <2>1. LedgerFollowsCalls'
    BY <1>3, <1>4 DEF DeliverProduct, ProductUpdated, orderVars,
                      LedgerFollowsCalls, Taken, Given
  <2> QED BY <1>2, <2>1
<1>5. CASE AdminMoves(p)
  <2>1. PICK kind \in Kinds, size \in Nat, delta \in Int :
            Moved(p, kind, size, delta)
    BY <1>5, AdminMovement
  <2>2. \A k \in Kinds, r \in Orders, q \in Products :
            ledger'[k][r][q] = ledger[k][r][q]
    BY <2>1, OnlyQuantities, RecordAdds, RefsOfOrders DEF Moved
  <2>3. \A r \in Orders, q \in Products :
            Taken(r, q)' = Taken(r, q) /\ Given(r, q)' = Given(r, q)
    BY <2>2, RefsOfOrders DEF Taken, Given
  <2>4. LedgerFollowsCalls'
    BY <1>1, <2>1, <2>3 DEF Moved, orderVars, LedgerFollowsCalls
  <2> QED BY <1>2, <2>4
<1> QED BY <1>4, <1>5

LEMMA NextKeepsStock == StockInv /\ [Next]_vars => StockInv'
<1> SUFFICES ASSUME StockInv, [Next]_vars PROVE StockInv'
  OBVIOUS
<1>1. IInv' /\ InventoryTypeOK'
  BY StepOfOrders, NextKeepsInv, NextKeepsTypes DEF StockInv
<1>2. CASE UNCHANGED vars
  BY <1>1, <1>2 DEF vars, orderVars, stockVars, StockInv, CallsBegin,
                    LedgerFollowsCalls, Taken, Given
<1>3. CASE Next
  <2>1. CallsBegin' /\ LedgerFollowsCalls'
    BY <1>3, ServiceKeepsStock, ReserveKeepsStock, ReleaseKeepsStock,
       OtherAnswersKeepStock, CompletedKeepsStock, ProductsKeepStock
    DEF Next, InventoryNext
  <2> QED BY <1>1, <2>1 DEF StockInv
<1> QED BY <1>2, <1>3

LEMMA StockInvariance == Spec => []StockInv
<1> QED BY InitStock, NextKeepsStock, PTL DEF Spec

\* Whatever is lost, late, reordered or delivered again, and whoever acts on an
\* order that is still being placed: no order is deducted more than twice, nor
\* twice unless it was settled, and none is given back that was deducted twice.
THEOREM DriftIsBounded == Spec => []StockDriftBounded
<1>1. StockInv => StockDriftBounded
  <2> SUFFICES ASSUME StockInv, NEW o \in Orders, NEW p \in Products
               PROVE  StockDriftBounded!(o, p)
    BY DEF StockDriftBounded
  <2>1. cart[o][p] \in Nat
    BY CartQuantities DEF StockInv, IInv, Quantities
  <2>2. CompletedEvent(o) \in processed =>
            payment[o] # "NONE" /\ cancelling[o] = "idle"
    BY DEF StockInv, IInv, StatusAgrees, LedgerFollowsCalls
  <2>3. releaseCall[o] = "applied" => cancelling[o] # "idle"
    BY DEF StockInv, CallsBegin
  <2>4. placing[o] = "created" => reserveCall[o] = "applied"
    BY DEF StockInv, IInv, CallsAgree
  <2> QED BY <2>1, <2>2, <2>3, <2>4 DEF StockInv, LedgerFollowsCalls
<1> QED BY <1>1, StockInvariance, PTL

-----------------------------------------------------------------------------
(***************************************************************************)
(* The ledger.                                                             *)
(***************************************************************************)
Total(kind, p) == SumFunctionOnSet([r \in Refs |-> ledger[kind][r][p]], Refs)

\* on_hand h is what movements of i in, o out and a adjusted make of nothing.
Explains(h, i, o, a) ==
    LET gap == h - i + o
    IN  gap <= a /\ 0 - gap <= a /\ (a - gap) % 2 = 0

LEMMA FiniteRefs == IsFiniteSet(Refs)
  BY FiniteShop, FS_AddElement DEF Refs

LEMMA TotalType ==
    ASSUME InventoryTypeOK, NEW kind \in Kinds, NEW p \in Products
    PROVE  Total(kind, p) \in Nat
<1> DEFINE f == [r \in Refs |-> ledger[kind][r][p]]
<1>1. \A r \in Refs : f[r] \in Nat BY DEF InventoryTypeOK
<1> HIDE DEF f
<1>2. SumFunctionOnSet(f, Refs) \in Nat BY <1>1, FiniteRefs, SumType
<1> QED BY <1>2 DEF Total, f

\* A movement adds its quantity to the total of its kind.
LEMMA RecordAddsToTotal ==
    ASSUME InventoryTypeOK, NEW kind \in Kinds, NEW ref \in Refs,
           NEW c \in Quantities, Record(kind, ref, c)
    PROVE  \A k \in Kinds, p \in Products :
               Total(k, p)' = Total(k, p) + (IF k = kind THEN c[p] ELSE 0)
<1> SUFFICES ASSUME NEW k \in Kinds, NEW p \in Products
             PROVE  Total(k, p)' =
                        Total(k, p) + (IF k = kind THEN c[p] ELSE 0)
  OBVIOUS
<1> DEFINE f == [r \in Refs |-> ledger[k][r][p]]
           g == [r \in Refs |-> ledger'[k][r][p]]
<1>1. \A r \in Refs :
          g[r] = IF k = kind /\ r = ref THEN f[r] + c[p] ELSE f[r]
  BY RecordAdds
<1>2. \A r \in Refs : f[r] \in Int /\ g[r] \in Int
  BY RecordAdds DEF InventoryTypeOK
<1>3. c[p] \in Int BY DEF Quantities
<1>4. Total(k, p) = SumFunctionOnSet(f, Refs) BY DEF Total
<1>5. Total(k, p)' = SumFunctionOnSet(g, Refs) BY DEF Total
<1> HIDE DEF f, g
<1>6. SumFunctionOnSet(g, Refs) = SumFunctionOnSet(f, Refs) + (g[ref] - f[ref])
  BY <1>1, <1>2, FiniteRefs, SumChangedAt
<1>7. g[ref] - f[ref] = IF k = kind THEN c[p] ELSE 0
  BY <1>1, <1>2, <1>3
<1> QED BY <1>4, <1>5, <1>6, <1>7

\* Movements change the stock as they are recorded.
LEMMA ExplainsIn ==
    ASSUME NEW h \in Int, NEW i \in Nat, NEW o \in Nat, NEW a \in Nat,
           NEW n \in Nat, Explains(h, i, o, a)
    PROVE  Explains(h + n, i + n, o, a) /\ Explains(h - n, i, o + n, a)
  BY DEF Explains

LEMMA ExplainsAdjust ==
    ASSUME NEW h \in Int, NEW i \in Nat, NEW o \in Nat, NEW a \in Nat,
           NEW n \in Nat, Explains(h, i, o, a)
    PROVE  Explains(h + n, i, o, a + n) /\ Explains(h - n, i, o, a + n)
  BY DEF Explains

LEMMA LedgerExplains ==
    LedgerExplainsStock <=>
        \A p \in Products :
            Explains(onHand[p], Total("IN", p), Total("OUT", p),
                     Total("ADJUST", p))
  BY DEF LedgerExplainsStock, Explains, Total

\* The lines of an order leave the stock with an OUT or come back with an IN.
LEMMA LinesKeepLedger ==
    ASSUME InventoryTypeOK, LedgerExplainsStock, NEW o \in Orders,
           NEW c \in Quantities,
           \/ /\ onHand' = [p \in Products |-> onHand[p] - c[p]]
              /\ Record("OUT", o, c)
           \/ /\ onHand' = [p \in Products |-> onHand[p] + c[p]]
              /\ Record("IN", o, c)
    PROVE  LedgerExplainsStock'
<1> SUFFICES ASSUME NEW p \in Products
             PROVE  Explains(onHand[p], Total("IN", p), Total("OUT", p),
                             Total("ADJUST", p))'
  BY DEF LedgerExplainsStock, Explains, Total
<1>1. Explains(onHand[p], Total("IN", p), Total("OUT", p), Total("ADJUST", p))
  BY LedgerExplains
<1>2. /\ onHand[p] \in Int /\ c[p] \in Nat
      /\ Total("IN", p) \in Nat /\ Total("OUT", p) \in Nat
      /\ Total("ADJUST", p) \in Nat
  BY TotalType, RefsOfOrders DEF InventoryTypeOK, Quantities
<1>3. CASE /\ onHand' = [q \in Products |-> onHand[q] - c[q]]
           /\ Record("OUT", o, c)
  <2>1. /\ onHand'[p] = onHand[p] - c[p]
        /\ Total("IN", p)' = Total("IN", p)
        /\ Total("OUT", p)' = Total("OUT", p) + c[p]
        /\ Total("ADJUST", p)' = Total("ADJUST", p)
    BY <1>2, <1>3, RecordAddsToTotal, RefsOfOrders
  <2> QED BY <1>1, <1>2, <2>1, ExplainsIn
<1>4. CASE /\ onHand' = [q \in Products |-> onHand[q] + c[q]]
           /\ Record("IN", o, c)
  <2>1. /\ onHand'[p] = onHand[p] + c[p]
        /\ Total("IN", p)' = Total("IN", p) + c[p]
        /\ Total("OUT", p)' = Total("OUT", p)
        /\ Total("ADJUST", p)' = Total("ADJUST", p)
    BY <1>2, <1>4, RecordAddsToTotal, RefsOfOrders
  <2> QED BY <1>1, <1>2, <2>1, ExplainsIn
<1> QED BY <1>3, <1>4

LEMMA AdminKeepsLedger ==
    ASSUME InventoryTypeOK, LedgerExplainsStock, NEW p \in Products,
           AdminMoves(p)
    PROVE  LedgerExplainsStock'
<1> SUFFICES ASSUME NEW q \in Products
             PROVE  Explains(onHand[q], Total("IN", q), Total("OUT", q),
                             Total("ADJUST", q))'
  BY DEF LedgerExplainsStock, Explains, Total
<1>1. PICK kind \in Kinds, size \in Nat, delta \in Int :
          Moved(p, kind, size, delta)
  BY AdminMovement
<1> DEFINE n == IF q = p THEN size ELSE 0
           d == IF q = p THEN delta ELSE 0
<1>2. /\ onHand[q] \in Int
      /\ Total("IN", q) \in Nat /\ Total("OUT", q) \in Nat
      /\ Total("ADJUST", q) \in Nat
  BY TotalType, RefsOfOrders DEF InventoryTypeOK
<1>3. onHand'[q] = onHand[q] + d
  BY <1>1, <1>2 DEF Moved, InventoryTypeOK
<1>4. \A k \in Kinds :
          Total(k, q)' = Total(k, q) + (IF k = kind THEN n ELSE 0)
  BY <1>1, RecordAddsToTotal, OnlyQuantities, RefsOfOrders DEF Moved
<1>5. /\ n \in Nat /\ d \in Int
      /\ kind = "IN" => d = n
      /\ kind = "OUT" => d = 0 - n
      /\ kind = "ADJUST" => d = n \/ d = 0 - n
  BY <1>1 DEF Moved
<1>6. Explains(onHand[q], Total("IN", q), Total("OUT", q), Total("ADJUST", q))
  BY LedgerExplains
<1> HIDE DEF n, d
<1>7. kind = "IN" \/ kind = "OUT" \/ kind = "ADJUST"
  BY DEF Kinds
<1>8. d = n => onHand[q] + d = onHand[q] + n OBVIOUS
<1>9. d = 0 - n => onHand[q] + d = onHand[q] - n BY <1>2, <1>5
<1>10. CASE kind = "IN"
  <2>1. /\ Total("IN", q)' = Total("IN", q) + n
        /\ Total("OUT", q)' = Total("OUT", q)
        /\ Total("ADJUST", q)' = Total("ADJUST", q)
    BY <1>2, <1>4, <1>10, RefsOfOrders
  <2> QED BY <1>2, <1>3, <1>5, <1>6, <1>8, <1>10, <2>1, ExplainsIn
<1>11. CASE kind = "OUT"
  <2>1. /\ Total("IN", q)' = Total("IN", q)
        /\ Total("OUT", q)' = Total("OUT", q) + n
        /\ Total("ADJUST", q)' = Total("ADJUST", q)
    BY <1>2, <1>4, <1>11, RefsOfOrders
  <2> QED BY <1>2, <1>3, <1>5, <1>6, <1>9, <1>11, <2>1, ExplainsIn
<1>12. CASE kind = "ADJUST"
  <2>1. /\ Total("IN", q)' = Total("IN", q)
        /\ Total("OUT", q)' = Total("OUT", q)
        /\ Total("ADJUST", q)' = Total("ADJUST", q) + n
    BY <1>2, <1>4, <1>12, RefsOfOrders
  <2> QED BY <1>2, <1>3, <1>5, <1>6, <1>8, <1>9, <1>12, <2>1, ExplainsAdjust
<1> QED BY <1>7, <1>10, <1>11, <1>12

LEMMA NextKeepsLedger ==
    ASSUME StockInv, LedgerExplainsStock, [Next]_vars
    PROVE  LedgerExplainsStock'
<1>1. ASSUME UNCHANGED <<onHand, ledger>> PROVE LedgerExplainsStock'
  <2>1. \A k \in Kinds, p \in Products : Total(k, p)' = Total(k, p)
    BY <1>1 DEF Total
  <2>2. SUFFICES ASSUME NEW p \in Products
                 PROVE  Explains(onHand[p], Total("IN", p), Total("OUT", p),
                                 Total("ADJUST", p))'
    BY DEF LedgerExplainsStock, Explains, Total
  <2>3. Explains(onHand[p], Total("IN", p), Total("OUT", p),
                 Total("ADJUST", p))
    BY LedgerExplains
  <2> QED BY <1>1, <2>1, <2>3, RefsOfOrders
<1>2. ASSUME NEW o \in Orders, ServeReserve(o) \/ ServeRelease(o)
      PROVE  LedgerExplainsStock'
  <2>1. cart[o] \in Quantities BY CartQuantities DEF StockInv, IInv
  <2> QED BY <1>2, <2>1, LinesKeepLedger
          DEF StockInv, ServeReserve, Reserve, ServeRelease, Release
<1>3. ASSUME NEW o \in Orders, DeliverCompleted(o)
      PROVE  LedgerExplainsStock'
  <2>1. cart[o] \in Quantities BY CartQuantities DEF StockInv, IInv
  <2>2. CASE AcceptCompleted(o)
    BY <1>1, <2>2 DEF AcceptCompleted
  <2>3. CASE DeductCompleted(o, cart[o])
    BY <2>1, <2>3, LinesKeepLedger DEF StockInv, DeductCompleted
  <2> QED BY <1>3, <2>2, <2>3 DEF DeliverCompleted, OrderCompleted
<1>4. ASSUME NEW p \in Products, DeliverProduct(p)
      PROVE  LedgerExplainsStock'
  BY <1>1, <1>4 DEF DeliverProduct, ProductUpdated
<1>5. ASSUME NEW p \in Products, AdminMoves(p)
      PROVE  LedgerExplainsStock'
  BY <1>5, AdminKeepsLedger DEF StockInv
<1>6. ASSUME UNCHANGED stockVars
      PROVE  LedgerExplainsStock'
  BY <1>1, <1>6 DEF stockVars
<1>7. ASSUME NEW o \in Orders,
             RefuseReserve(o) \/ FailRelease(o) \/ ServePayment(o)
      PROVE  LedgerExplainsStock'
  BY <1>6, <1>7 DEF RefuseReserve, FailRelease, ServePayment
<1>8. CASE Next
  <2>1. CASE InventoryNext
    BY <1>2, <1>3, <1>4, <1>5, <1>7, <2>1 DEF InventoryNext
  <2> QED BY <1>6, <1>7, <1>8, <2>1 DEF Next
<1>9. CASE UNCHANGED vars
  BY <1>6, <1>9 DEF vars
<1> QED BY <1>8, <1>9

\* At any time on_hand is what the rows of the ledger add up to, up to the
\* direction of the corrections, which the rows do not say: no transaction of
\* inventory-service changes the one without the other.
THEOREM LedgerIsComplete == Spec => []LedgerExplainsStock
<1>1. Init => LedgerExplainsStock
  <2> SUFFICES ASSUME Init, NEW p \in Products
               PROVE  Explains(onHand[p], Total("IN", p), Total("OUT", p),
                               Total("ADJUST", p))
    BY LedgerExplains
  <2>1. ASSUME NEW k \in Kinds PROVE Total(k, p) = 0
    <3> DEFINE f == [r \in Refs |-> ledger[k][r][p]]
    <3>1. \A r \in Refs : f[r] = 0 BY DEF Init, InventoryInit, NoItems
    <3> HIDE DEF f
    <3>2. SumFunctionOnSet(f, Refs) = 0 BY <3>1, FiniteRefs, SumOfZeros
    <3> QED BY <3>2 DEF Total, f
  <2>2. onHand[p] = 0 BY DEF Init, InventoryInit, NoItems
  <2> QED BY <2>1, <2>2, RefsOfOrders DEF Explains
<1>2. StockInv /\ LedgerExplainsStock /\ [Next]_vars => LedgerExplainsStock'
  BY NextKeepsLedger
<1> QED BY <1>1, <1>2, StockInvariance, PTL DEF Spec

-----------------------------------------------------------------------------
(***************************************************************************)
(* When desk and customer wait for the placement to end well               *)
(* (~EarlyAccess); PlacedFirst and CostsCarried are invariants of          *)
(* Orders.tla then.                                                        *)
(***************************************************************************)
LEMMA PlacedFirstHere ==
    ASSUME ~EarlyAccess
    PROVE  Spec => [](PlacedFirst /\ CostsCarried)
<1> QED BY RefinesOrders, PlacedInvariance

\* order.completed carries every cost the reservation brought when the desk
\* waits for the placement, even if calls are lost and order-service crashes.
THEOREM CostsAreCarried ==
    ASSUME ~EarlyAccess
    PROVE  Spec => []CompletedCarriesCosts
<1>1. CostsCarried => CompletedCarriesCosts
  BY DEF CostsCarried, CompletedCarriesCosts
<1> QED BY <1>1, PlacedFirstHere, PTL

\* An order that was settled had been reserved: order.completed deducts
\* nothing.
LEMMA CompletedIsAccepted ==
    ASSUME StockInv, PlacedFirst, NEW o \in Orders, DeliverCompleted(o)
    PROVE  AcceptCompleted(o)
<1> USE DEF StockInv, IInv
<1>1. CompletedEvent(o) \notin processed
  BY DEF DeliverCompleted, OrderCompleted, AcceptCompleted, DeductCompleted
<1>2. payment[o] # "NONE" BY DEF DeliverCompleted, Published, StreamAgrees
<1>3. placing[o] = "created" BY <1>2 DEF PlacedFirst
<1>4. reserveCall[o] = "applied" BY <1>3 DEF CallsAgree
<1>5. PICK p \in Products : cart[o][p] > 0
  BY <1>3 DEF CallsBegin, Items
<1>6. Taken(o, p) > 0 BY <1>1, <1>4, <1>5 DEF LedgerFollowsCalls
<1>7. TakenBefore(o) BY <1>6 DEF TakenBefore
<1> QED BY <1>7 DEF DeliverCompleted, OrderCompleted, DeductCompleted

\* A service of an order leaves the rows of the admin alone, and reserves no
\* more than there is.
LEMMA ServeKeepsStockUp ==
    ASSUME IInv, InventoryTypeOK, NoOversell, NEW o \in Orders,
           ServeReserve(o) \/ ServeRelease(o)
    PROVE  NoOversell'
<1>1. cart[o] \in Quantities BY CartQuantities DEF IInv
<1>2. \A k \in Kinds, p \in Products :
          ledger'[k][Manual][p] = ledger[k][Manual][p]
  BY <1>1, RecordAdds, RefsOfOrders
  DEF ServeReserve, Reserve, ServeRelease, Release
<1>3. SUFFICES ASSUME NEW p \in Products
               PROVE  onHand'[p] + ledger'["OUT"][Manual][p]
                          + ledger'["ADJUST"][Manual][p] >= 0
  BY DEF NoOversell
<1>4. /\ onHand[p] \in Int /\ cart[o][p] \in Nat
      /\ ledger["OUT"][Manual][p] \in Nat
      /\ ledger["ADJUST"][Manual][p] \in Nat
  BY <1>1, RefsOfOrders DEF InventoryTypeOK, Quantities
<1>5. /\ ledger'["OUT"][Manual][p] = ledger["OUT"][Manual][p]
      /\ ledger'["ADJUST"][Manual][p] = ledger["ADJUST"][Manual][p]
  BY <1>2, RefsOfOrders
<1>6. onHand[p] + ledger["OUT"][Manual][p] + ledger["ADJUST"][Manual][p] >= 0
  BY DEF NoOversell
<1>7. CASE ServeReserve(o)
  <2>1. onHand'[p] = onHand[p] - cart[o][p]
    BY <1>7 DEF ServeReserve, Reserve
  <2>2. cart[o][p] > 0 => onHand[p] >= cart[o][p]
    BY <1>7 DEF ServeReserve, Reserve, InStock, Items
  <2> QED BY <1>4, <1>5, <1>6, <2>1, <2>2
<1>8. CASE ServeRelease(o)
  <2>1. onHand'[p] = onHand[p] + cart[o][p]
    BY <1>8 DEF ServeRelease, Release
  <2> QED BY <1>4, <1>5, <1>6, <2>1
<1> QED BY <1>7, <1>8

\* What the admin takes out or corrects away is recorded as such.
LEMMA AdminKeepsStockUp ==
    ASSUME InventoryTypeOK, NoOversell, NEW p \in Products, AdminMoves(p)
    PROVE  NoOversell'
<1>1. PICK kind \in Kinds, size \in Nat, delta \in Int :
          Moved(p, kind, size, delta)
  BY AdminMovement
<1>2. SUFFICES ASSUME NEW q \in Products
               PROVE  onHand'[q] + ledger'["OUT"][Manual][q]
                          + ledger'["ADJUST"][Manual][q] >= 0
  BY DEF NoOversell
<1>3. /\ onHand[q] \in Int
      /\ ledger["OUT"][Manual][q] \in Nat
      /\ ledger["ADJUST"][Manual][q] \in Nat
  BY RefsOfOrders DEF InventoryTypeOK
<1>4. onHand[q] + ledger["OUT"][Manual][q] + ledger["ADJUST"][Manual][q] >= 0
  BY DEF NoOversell
<1>5. \A k \in Kinds :
          ledger'[k][Manual][q] =
              IF k = kind /\ q = p THEN ledger[k][Manual][q] + size
                                   ELSE ledger[k][Manual][q]
  <2>1. /\ Record(kind, Manual, Only(p, size)) /\ Only(p, size) \in Quantities
        /\ Only(p, size)[q] = IF q = p THEN size ELSE 0
    BY <1>1, OnlyQuantities DEF Moved
  <2>2. \A k \in Kinds : ledger[k][Manual][q] \in Nat
    BY RefsOfOrders DEF InventoryTypeOK
  <2> QED BY <2>1, <2>2, RecordAdds, RefsOfOrders
<1>6. onHand'[q] = IF q = p THEN onHand[q] + delta ELSE onHand[q]
  BY <1>1 DEF Moved, InventoryTypeOK
<1>7. /\ kind = "IN" => delta = size
      /\ kind = "OUT" => delta = 0 - size
      /\ kind = "ADJUST" => delta = size \/ delta = 0 - size
  BY <1>1 DEF Moved
<1>8. /\ ledger'["OUT"][Manual][q] =
             IF kind = "OUT" /\ q = p THEN ledger["OUT"][Manual][q] + size
                                      ELSE ledger["OUT"][Manual][q]
      /\ ledger'["ADJUST"][Manual][q] =
             IF kind = "ADJUST" /\ q = p
             THEN ledger["ADJUST"][Manual][q] + size
             ELSE ledger["ADJUST"][Manual][q]
  BY <1>5, RefsOfOrders
<1>9. kind = "IN" \/ kind = "OUT" \/ kind = "ADJUST" BY DEF Kinds
<1> QED BY <1>3, <1>4, <1>6, <1>7, <1>8, <1>9

LEMMA NextKeepsStockUp ==
    ASSUME StockInv, PlacedFirst, NoOversell, [Next]_vars
    PROVE  NoOversell'
<1>1. ASSUME UNCHANGED <<onHand, ledger>> PROVE NoOversell'
  BY <1>1 DEF NoOversell
<1>2. ASSUME UNCHANGED stockVars PROVE NoOversell'
  BY <1>1, <1>2 DEF stockVars
<1>3. ASSUME NEW o \in Orders, ServeReserve(o) \/ ServeRelease(o)
      PROVE  NoOversell'
  BY <1>3, ServeKeepsStockUp DEF StockInv
<1>4. ASSUME NEW o \in Orders, DeliverCompleted(o) PROVE NoOversell'
  BY <1>1, <1>4, CompletedIsAccepted DEF AcceptCompleted
<1>5. ASSUME NEW p \in Products, DeliverProduct(p) PROVE NoOversell'
  BY <1>1, <1>5 DEF DeliverProduct, ProductUpdated
<1>6. ASSUME NEW p \in Products, AdminMoves(p) PROVE NoOversell'
  BY <1>6, AdminKeepsStockUp DEF StockInv
<1>7. ASSUME NEW o \in Orders,
             RefuseReserve(o) \/ FailRelease(o) \/ ServePayment(o)
      PROVE  NoOversell'
  BY <1>2, <1>7 DEF RefuseReserve, FailRelease, ServePayment
<1>8. CASE InventoryNext
  BY <1>3, <1>4, <1>5, <1>6, <1>7, <1>8 DEF InventoryNext
<1>9. CASE UNCHANGED vars
  BY <1>2, <1>9 DEF vars
<1> QED BY <1>2, <1>7, <1>8, <1>9 DEF Next

\* Orders that wait for their placement never drive stock below zero, however
\* many are placed, settled and cancelled at once and whatever is lost.
THEOREM NothingOversold ==
    ASSUME ~EarlyAccess
    PROVE  Spec => []NoOversell
<1>1. Init => NoOversell
  BY RefsOfOrders DEF Init, InventoryInit, NoItems, NoOversell
<1>2. StockInv /\ PlacedFirst /\ NoOversell /\ [Next]_vars => NoOversell'
  BY NextKeepsStockUp
<1> QED BY <1>1, <1>2, StockInvariance, PlacedFirstHere, PTL DEF Spec

LEMMA InitSingle == Init => NoDoubleDeduct
  BY RefsOfOrders
  DEF Init, OrdersInit, InventoryInit, NoItems, NoDoubleDeduct, Taken

\* Only a reserve call takes stock, and while it is under way nothing has been
\* taken: its order has not been settled, so order.completed cannot have been
\* consumed.
LEMMA NextKeepsSingle ==
    ASSUME StockInv, PlacedFirst, NoDoubleDeduct, [Next]_vars
    PROVE  NoDoubleDeduct'
<1> USE DEF StockInv, IInv, OrdersTypeOK
<1>1. ASSUME UNCHANGED <<cart, ledger>> PROVE NoDoubleDeduct'
  BY <1>1 DEF NoDoubleDeduct, Taken
<1>2. ASSUME NEW o \in Orders, CreateOrder(o), UNCHANGED stockVars
      PROVE  NoDoubleDeduct'
  <2>1. reserveCall[o] = "none" /\ CompletedEvent(o) \notin processed
    BY <1>2 DEF CreateOrder, CallsBegin, StatusAgrees, LedgerFollowsCalls
  <2>2. \A p \in Products : Taken(o, p)' = 0
    BY <1>2, <2>1 DEF LedgerFollowsCalls, Taken, stockVars
  <2>3. \A p \in Products : cart'[o][p] >= 0
    BY <1>2, ShopAssumption DEF CreateOrder, Carts
  <2>4. \A q \in Orders, p \in Products : q # o =>
            Taken(q, p)' = Taken(q, p) /\ cart'[q] = cart[q]
    BY <1>2 DEF CreateOrder, Taken, stockVars
  <2> QED BY <2>2, <2>3, <2>4 DEF NoDoubleDeduct
<1>3. ASSUME ServiceNext, UNCHANGED stockVars, \A o \in Orders : ~CreateOrder(o)
      PROVE  NoDoubleDeduct'
  <2>1. UNCHANGED cart
    BY <1>3, OtherServiceSteps DEF RequestGoesOn, CancelMyOrder
  <2> QED BY <1>1, <1>3, <2>1 DEF stockVars
<1>4. ASSUME NEW o \in Orders, ServeReserve(o) PROVE NoDoubleDeduct'
  <2>1. cart[o] \in Quantities BY CartQuantities
  <2>2. CompletedEvent(o) \notin processed
    BY <1>4 DEF ServeReserve, ReserveEnds, LedgerFollowsCalls, PlacedFirst,
                CallsAgree
  <2>3. \A p \in Products : Taken(o, p) = 0
    BY <1>4, <2>2 DEF ServeReserve, ReserveEnds, LedgerFollowsCalls
  <2>4. \A q \in Orders, p \in Products :
            Taken(q, p)' = IF q = o THEN Taken(q, p) + cart[o][p] ELSE Taken(q, p)
    BY <1>4, <2>1, RecordAdds, RefsOfOrders DEF ServeReserve, Reserve, Taken
  <2>5. UNCHANGED cart BY <1>4 DEF ServeReserve, ReserveEnds, tables
  <2> QED BY <2>1, <2>3, <2>4, <2>5 DEF NoDoubleDeduct, Quantities
<1>5. ASSUME NEW o \in Orders, ServeRelease(o) PROVE NoDoubleDeduct'
  <2>1. cart[o] \in Quantities BY CartQuantities
  <2>2. \A q \in Orders, p \in Products : Taken(q, p)' = Taken(q, p)
    BY <1>5, <2>1, RecordAdds, RefsOfOrders DEF ServeRelease, Release, Taken
  <2>3. UNCHANGED cart BY <1>5 DEF ServeRelease, ReleaseEnds, tables
  <2> QED BY <2>2, <2>3 DEF NoDoubleDeduct
<1>6. ASSUME NEW o \in Orders,
             \/ RefuseReserve(o) \/ FailRelease(o) \/ ServePayment(o)
             \/ CallLost(o) /\ UNCHANGED stockVars
      PROVE  NoDoubleDeduct'
  BY <1>1, <1>6 DEF RefuseReserve, FailRelease, ServePayment, CallLost,
                    ReserveEnds, ReleaseEnds, PaymentEnds, tables, stockVars
<1>7. ASSUME NEW o \in Orders, DeliverCompleted(o) PROVE NoDoubleDeduct'
  BY <1>1, <1>7, CompletedIsAccepted
  DEF DeliverCompleted, orderVars, AcceptCompleted
<1>8. ASSUME NEW p \in Products, DeliverProduct(p) PROVE NoDoubleDeduct'
  BY <1>1, <1>8 DEF DeliverProduct, ProductUpdated, orderVars
<1>9. ASSUME NEW p \in Products, AdminMoves(p) PROVE NoDoubleDeduct'
  <2>1. PICK kind \in Kinds, size \in Nat, delta \in Int :
            Moved(p, kind, size, delta)
    BY <1>9, AdminMovement
  <2>2. \A q \in Orders, s \in Products : Taken(q, s)' = Taken(q, s)
    BY <2>1, OnlyQuantities, RecordAdds, RefsOfOrders DEF Moved, Taken
  <2>3. UNCHANGED cart BY <1>9 DEF AdminMoves, orderVars
  <2> QED BY <2>2, <2>3 DEF NoDoubleDeduct
<1> HIDE DEF StockInv, IInv, OrdersTypeOK
<1>10. CASE InventoryNext
  BY <1>4, <1>5, <1>6, <1>7, <1>8, <1>9, <1>10 DEF InventoryNext
<1>11. CASE UNCHANGED vars
  BY <1>1, <1>11 DEF vars, orderVars, stockVars
<1> QED BY <1>2, <1>3, <1>6, <1>10, <1>11 DEF Next

\* docs/prd.md:425 holds for orders that wait for their placement: what was
\* deducted on placing is not deducted again on completion, whatever is lost
\* and however often order.completed comes.
THEOREM DeductedOnce ==
    ASSUME ~EarlyAccess
    PROVE  Spec => []NoDoubleDeduct
<1>1. StockInv /\ PlacedFirst /\ NoDoubleDeduct /\ [Next]_vars => NoDoubleDeduct'
  BY NextKeepsSingle
<1> QED BY <1>1, InitSingle, StockInvariance, PlacedFirstHere, PTL DEF Spec

-----------------------------------------------------------------------------
(***************************************************************************)
(* When, besides, every call is answered (~Unreliable).                    *)
(***************************************************************************)
\* A rejected order was refused by inventory-service, and what was reserved
\* can be released: the rows of its lines exist.
CallsAnswered ==
    \A o \in Orders :
        /\ reserveCall[o] # "lost"
        /\ releaseCall[o] \notin {"refused", "lost"}
        /\ placing[o] = "rejected" => reserveCall[o] = "refused"
        /\ reserveCall[o] = "applied" => Items(cart[o]) \subseteq known
        /\ cancelling[o] \in {"released", "done"} => releaseCall[o] = "applied"

LEMMA InitAnswered == Init => CallsAnswered
  BY DEF Init, OrdersInit, CallsAnswered

\* inventory-service never forgets a product.
LEMMA KnownGrows ==
    ASSUME InventoryTypeOK, [Next]_vars
    PROVE  known \subseteq known'
<1>1. ASSUME NEW p \in Products, AdminMoves(p) PROVE known \subseteq known'
  BY <1>1, AdminMovement DEF Moved
<1>2. ASSUME UNCHANGED stockVars PROVE known \subseteq known'
  BY <1>2 DEF stockVars
<1>3. ASSUME NEW o \in Orders,
             ServeReserve(o) \/ ServeRelease(o) \/ DeliverCompleted(o)
      PROVE  known \subseteq known'
  BY <1>3 DEF ServeReserve, Reserve, ServeRelease, Release, DeliverCompleted,
              OrderCompleted, AcceptCompleted, DeductCompleted
<1>4. ASSUME NEW o \in Orders,
             RefuseReserve(o) \/ FailRelease(o) \/ ServePayment(o)
      PROVE  known \subseteq known'
  BY <1>2, <1>4 DEF RefuseReserve, FailRelease, ServePayment
<1>5. ASSUME NEW p \in Products, DeliverProduct(p) PROVE known \subseteq known'
  BY <1>5 DEF DeliverProduct, ProductUpdated
<1>6. CASE InventoryNext
  BY <1>1, <1>3, <1>4, <1>5, <1>6 DEF InventoryNext
<1>7. CASE UNCHANGED vars
  BY <1>2, <1>7 DEF vars
<1> QED BY <1>2, <1>4, <1>6, <1>7 DEF Next

\* order-service, waiting for its calls.
LEMMA ServiceKeepsAnswered ==
    ASSUME ~Unreliable, StockInv, CallsAnswered, ServiceNext,
           UNCHANGED stockVars
    PROVE  CallsAnswered'
<1> USE DEF StockInv, IInv, OrdersTypeOK, CallsAnswered, stockVars, tables,
            calls
<1>1. ASSUME NEW o \in Orders, CreateOrder(o) PROVE CallsAnswered'
  BY <1>1 DEF CreateOrder, CallsBegin
<1>2. ASSUME NEW o \in Orders, PlacementStep(o) PROVE CallsAnswered'
  BY <1>2 DEF PlacementStep, CallReserve, ReserveSucceeded, StoreItemCost,
              ReserveFailed, PublishOrderPlaced, GivenUp
<1>3. ASSUME NEW o \in Orders, CancelMyOrder(o) PROVE CallsAnswered'
  BY <1>3 DEF CancelMyOrder
<1>4. ASSUME NEW o \in Orders, CancellationStep(o) PROVE CallsAnswered'
  BY <1>4 DEF CancellationStep, CallRelease, ReleaseReturned,
              PublishOrderCancelled, Answered, GivenUp
<1>5. ASSUME NEW d \in Desks, DeskStep(d) \/ \E o \in Orders : LoadOrder(d, o)
      PROVE  CallsAnswered'
  BY <1>5 DEF LoadOrder, DeskStep, SettleOrder, SettleConflict, PostPayment,
              LoadItemsFailed, PaymentReturned, PublishOrderCompleted
<1>6. ASSUME OrderServiceCrash PROVE CallsAnswered'
  BY <1>6 DEF OrderServiceCrash
<1> HIDE DEF CallsAnswered, StockInv, IInv, OrdersTypeOK, stockVars, tables,
             calls
<1> QED BY <1>1, <1>2, <1>3, <1>4, <1>5, <1>6 DEF ServiceNext

\* A release that is under way follows a placement that ended well, so it can
\* be done.
LEMMA ReleaseIsPossible ==
    ASSUME StockInv, PlacedFirst, CallsAnswered, NEW o \in Orders,
           releaseCall[o] = "sent"
    PROVE  CanRelease(cart[o])
<1>1. cancelling[o] # "idle" BY DEF StockInv, CallsBegin
<1>2. reserveCall[o] = "applied"
  BY <1>1 DEF PlacedFirst, StockInv, IInv, CallsAgree
<1> QED BY <1>2 DEF CallsAnswered, CanRelease

LEMMA NextKeepsAnswered ==
    ASSUME ~Unreliable, StockInv, PlacedFirst, CallsAnswered, [Next]_vars
    PROVE  CallsAnswered'
<1> USE DEF StockInv, IInv, OrdersTypeOK
<1>1. known \subseteq known' BY KnownGrows
<1>2. ASSUME UNCHANGED orderVars PROVE CallsAnswered'
  BY <1>1, <1>2 DEF orderVars, CallsAnswered
<1>3. ASSUME NEW o \in Orders, ServeReserve(o) PROVE CallsAnswered'
  <2>1. Items(cart[o]) \subseteq known'
    BY <1>1, <1>3 DEF ServeReserve, Reserve, InStock
  <2> QED BY <1>1, <1>3, <2>1
          DEF ServeReserve, ReserveEnds, tables, CallsAnswered
<1>4. ASSUME NEW o \in Orders, RefuseReserve(o) PROVE CallsAnswered'
  BY <1>1, <1>4 DEF RefuseReserve, ReserveEnds, tables, CallsAnswered
<1>5. ASSUME NEW o \in Orders, ServeRelease(o) PROVE CallsAnswered'
  BY <1>1, <1>5 DEF ServeRelease, ReleaseEnds, tables, CallsAnswered
<1>6. ASSUME NEW o \in Orders PROVE ~FailRelease(o)
  BY ReleaseIsPossible DEF FailRelease, ReleaseEnds
<1>7. ASSUME NEW o \in Orders, ServePayment(o) PROVE CallsAnswered'
  BY <1>1, <1>7 DEF ServePayment, PaymentEnds, tables, CallsAnswered
<1>8. ASSUME NEW o \in Orders PROVE ~CallLost(o)
  BY DEF CallLost
<1>9. ASSUME NEW o \in Orders, DeliverCompleted(o) PROVE CallsAnswered'
  BY <1>2, <1>9 DEF DeliverCompleted
<1>10. ASSUME NEW p \in Products, DeliverProduct(p) \/ AdminMoves(p)
       PROVE  CallsAnswered'
  BY <1>2, <1>10 DEF DeliverProduct, AdminMoves
<1> HIDE DEF IInv, OrdersTypeOK, StockInv
<1>11. CASE InventoryNext
  BY <1>3, <1>4, <1>5, <1>6, <1>9, <1>10, <1>11 DEF InventoryNext
<1>12. CASE UNCHANGED vars
  BY <1>2, <1>12 DEF vars
<1> QED BY <1>7, <1>8, <1>11, <1>12, ServiceKeepsAnswered DEF Next

\* Orders that wait for their placement, with calls that are answered: a placed
\* order holds its lines once, and a rejected or cancelled one holds nothing.
\* A crash in between does no harm, and neither does a second order.completed
\* or a product whose SKU is taken.
THEOREM StockAgreesWithOrders ==
    ASSUME ~EarlyAccess, ~Unreliable
    PROVE  Spec => []StockMatchesOrders
<1>1. StockInv /\ PlacedFirst /\ NoDoubleDeduct /\ CallsAnswered
          => StockMatchesOrders
  <2> SUFFICES ASSUME StockInv, PlacedFirst, NoDoubleDeduct, CallsAnswered,
                      NEW o \in Orders, NEW p \in Products
               PROVE  StockMatchesOrders!(o, p)
    BY DEF StockMatchesOrders
  <2> USE DEF StockInv, IInv, Held
  <2>1. cart[o][p] \in Nat
    BY CartQuantities DEF Quantities
  <2>2. ASSUME placing[o] \in {"reserved", "created"},
               status[o] \in {"PENDING", "COMPLETED"}
        PROVE  Held(o, p) = cart[o][p]
    <3>1. reserveCall[o] = "applied" BY <2>2 DEF CallsAgree
    <3>2. releaseCall[o] = "none"
      BY <2>2 DEF StatusAgrees, CallsBegin
    <3>3. Taken(o, p) = cart[o][p]
      BY <2>1, <3>1 DEF LedgerFollowsCalls, NoDoubleDeduct
    <3> QED BY <2>1, <3>2, <3>3 DEF LedgerFollowsCalls
  <2>3. ASSUME placing[o] = "rejected"
        PROVE  Held(o, p) = 0
    <3>1. payment[o] = "NONE" /\ cancelling[o] = "idle"
      BY <2>3 DEF PlacedFirst
    <3>2. reserveCall[o] = "refused" /\ releaseCall[o] = "none"
      BY <2>3, <3>1 DEF CallsAnswered, CallsBegin
    <3> QED BY <3>1, <3>2 DEF LedgerFollowsCalls
  <2>4. ASSUME cancelling[o] \in {"released", "done"}
        PROVE  Held(o, p) = 0
    <3>1. payment[o] = "NONE" /\ placing[o] = "created"
      BY <2>4 DEF PlacedFirst, StatusAgrees
    <3>2. reserveCall[o] = "applied" /\ releaseCall[o] = "applied"
      BY <2>4, <3>1 DEF CallsAnswered, CallsAgree
    <3> QED BY <2>1, <3>1, <3>2 DEF LedgerFollowsCalls
  <2> QED BY <2>2, <2>3, <2>4
<1>2. StockInv /\ PlacedFirst /\ CallsAnswered /\ [Next]_vars => CallsAnswered'
  BY NextKeepsAnswered
<1> QED
  BY <1>1, <1>2, InitAnswered, StockInvariance, PlacedFirstHere,
     DeductedOnce, PTL DEF Spec
=============================================================================
