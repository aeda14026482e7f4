---------------------------- MODULE Orders_proofs ----------------------------
(***************************************************************************)
(* Proofs about Orders.tla, for every set of orders, desks and products,   *)
(* with and without EarlyAccess and Unreliable.                            *)
(***************************************************************************)
EXTENDS Orders, TLAPS

-----------------------------------------------------------------------------
(***************************************************************************)
(* The inductive invariant.  The properties of Orders.tla say nothing of   *)
(* an order that is still PENDING, so they do not survive the step that    *)
(* settles or cancels it; StatusAgrees adds what the tables and the        *)
(* handlers agree on before that step.                                     *)
(***************************************************************************)
StatusAgrees ==
    \A o \in Orders :
        /\ status[o] = "NONE" <=> placing[o] = "idle"
        /\ status[o] \in {"NONE", "PENDING"} =>
               payment[o] = "NONE" /\ cancelling[o] = "idle"
        /\ status[o] = "COMPLETED" => payment[o] # "NONE"
        /\ cancelling[o] # "idle" =>
               status[o] = "CANCELLED" /\ payment[o] = "NONE"

DesksAgree ==
    /\ \A d \in Desks : desk[d].pc # "idle" =>
           /\ desk[d].order \in Orders
           /\ desk[d].type \in PaymentTypes
           /\ status[desk[d].order] # "NONE"
           /\ desk[d].pc # "loaded" => payment[desk[d].order] # "NONE"
    /\ \A d1, d2 \in Desks :
           /\ desk[d1].pc \notin {"idle", "loaded"}
           /\ desk[d2].pc \notin {"idle", "loaded"}
           /\ desk[d1].order = desk[d2].order
           => d1 = d2

StreamAgrees ==
    \A e \in stream :
        /\ e.subject = "order.placed" => placing[e.order] = "created"
        /\ e.subject = "order.cancelled" => cancelling[e.order] = "done"
        /\ e.subject = "order.completed" =>
               /\ payment[e.order] # "NONE"
               /\ \A d \in Desks : desk[d].order = e.order =>
                      desk[d].pc \in {"idle", "loaded"}
               /\ \A f \in stream :
                      f.subject = "order.completed" /\ f.order = e.order
                      => f = e

CallsAgree ==
    \A o \in Orders :
        placing[o] \in {"reserved", "created"} => reserveCall[o] = "applied"

IInv ==
    OrdersTypeOK /\ StatusAgrees /\ DesksAgree /\ StreamAgrees /\ CallsAgree

-----------------------------------------------------------------------------
\* The empty database of a first start satisfies the invariant.
LEMMA InitInv == OrdersInit => IInv
  BY OrdersAssumption, ShopAssumption
  DEF OrdersInit, IInv, OrdersTypeOK, StatusAgrees, DesksAgree, StreamAgrees,
      CallsAgree, Statuses, PaymentTypes, CallStates, DeskStates, IdleDesk,
      NoItems

\* A complete handler that moves on keeps its type.
LEMMA DeskMoves ==
    ASSUME NEW r \in DeskStates, NEW cogs \in SUBSET Products,
           NEW pc \in {"settled", "billing", "billed"}
    PROVE  /\ [r EXCEPT !.pc = pc] \in DeskStates
           /\ [r EXCEPT !.pc = pc, !.cogs = cogs] \in DeskStates
  BY DEF DeskStates

\* The handler that places an order.
LEMMA PlacementKeepsInv ==
    ASSUME IInv, NEW o \in Orders, CreateOrder(o) \/ PlacementStep(o)
    PROVE  IInv'
<1> USE OrdersAssumption, ShopAssumption
    DEF IInv, OrdersTypeOK, Statuses, PaymentTypes, CallStates
<1>1. CASE CreateOrder(o)
  <2>1. OrdersTypeOK' BY <1>1 DEF CreateOrder, Carts, DeskStates, calls
  <2>2. StatusAgrees' BY <1>1 DEF CreateOrder, StatusAgrees
  <2>3. DesksAgree' BY <1>1 DEF CreateOrder, StatusAgrees, DesksAgree
  <2>4. StreamAgrees' BY <1>1 DEF CreateOrder, StreamAgrees, Events
  <2>5. CallsAgree' BY <1>1 DEF CreateOrder, CallsAgree, calls
  <2> QED BY <2>1, <2>2, <2>3, <2>4, <2>5
<1>2. CASE CallReserve(o) \/ ReserveSucceeded(o)
  <2> USE <1>2 DEF CallReserve, ReserveSucceeded, tables, calls
  <2>1. OrdersTypeOK'
    <3>1. CASE CallReserve(o) BY <3>1 DEF DeskStates
    <3>2. CASE ReserveSucceeded(o) BY <3>2 DEF DeskStates
    <3> QED BY <1>2, <3>1, <3>2
  <2>2. StatusAgrees' BY DEF StatusAgrees
  <2>3. DesksAgree' BY DEF DesksAgree
  <2>4. StreamAgrees' BY DEF StreamAgrees, Events
  <2>5. CallsAgree' BY DEF CallsAgree
  <2> QED BY <2>1, <2>2, <2>3, <2>4, <2>5
<1>5. CASE StoreItemCost(o)
  <2> USE <1>5 DEF StoreItemCost, calls
  <2>1. OrdersTypeOK' BY DEF DeskStates, Items
  <2>2. StatusAgrees' BY DEF StatusAgrees
  <2>3. DesksAgree' BY DEF DesksAgree
  <2>4. StreamAgrees' BY DEF StreamAgrees, Events
  <2>5. CallsAgree' BY DEF CallsAgree
  <2> QED BY <2>1, <2>2, <2>3, <2>4, <2>5
<1>3. CASE ReserveFailed(o)
  <2>1. OrdersTypeOK' BY <1>3 DEF ReserveFailed, calls, DeskStates
  <2>2. StatusAgrees' BY <1>3 DEF ReserveFailed, StatusAgrees
  <2>3. DesksAgree' BY <1>3 DEF ReserveFailed, DesksAgree
  <2>4. StreamAgrees' BY <1>3 DEF ReserveFailed, StreamAgrees, Events
  <2>5. CallsAgree' BY <1>3 DEF ReserveFailed, CallsAgree, calls
  <2> QED BY <2>1, <2>2, <2>3, <2>4, <2>5
<1>4. CASE PublishOrderPlaced(o)
  <2> USE <1>4 DEF PublishOrderPlaced, Publish, Event, tables, calls
  <2>1. OrdersTypeOK' BY DEF Events, Subjects, DeskStates
  <2>2. StatusAgrees' BY DEF StatusAgrees
  <2>3. DesksAgree' BY DEF DesksAgree
  <2>4. StreamAgrees' BY DEF StreamAgrees, Events
  <2>5. CallsAgree' BY DEF CallsAgree
  <2> QED BY <2>1, <2>2, <2>3, <2>4, <2>5
<1> QED BY <1>1, <1>2, <1>3, <1>4, <1>5 DEF PlacementStep

\* The handler of the customer's cancellation.
LEMMA CancellationKeepsInv ==
    ASSUME IInv, NEW o \in Orders, CancelMyOrder(o) \/ CancellationStep(o)
    PROVE  IInv'
<1> USE OrdersAssumption, ShopAssumption
    DEF IInv, OrdersTypeOK, Statuses, PaymentTypes, CallStates
<1>1. CASE CancelMyOrder(o)
  <2> USE <1>1 DEF CancelMyOrder, calls
  <2>1. OrdersTypeOK' BY DEF DeskStates
  <2>2. StatusAgrees' BY DEF StatusAgrees
  <2>3. DesksAgree' BY DEF DesksAgree, StatusAgrees
  <2>4. StreamAgrees' BY DEF StreamAgrees, StatusAgrees, Events
  <2>5. CallsAgree' BY DEF CallsAgree
  <2> QED BY <2>1, <2>2, <2>3, <2>4, <2>5
<1>2. CASE CallRelease(o) \/ ReleaseReturned(o)
  <2> USE <1>2 DEF CallRelease, ReleaseReturned, tables, calls
  <2>1. OrdersTypeOK'
    <3>1. CASE CallRelease(o) BY <3>1 DEF DeskStates
    <3>2. CASE ReleaseReturned(o) BY <3>2 DEF DeskStates
    <3> QED BY <1>2, <3>1, <3>2
  <2>2. StatusAgrees' BY DEF StatusAgrees
  <2>3. DesksAgree' BY DEF DesksAgree
  <2>4. StreamAgrees' BY DEF StreamAgrees, Events
  <2>5. CallsAgree' BY DEF CallsAgree
  <2> QED BY <2>1, <2>2, <2>3, <2>4, <2>5
<1>3. CASE PublishOrderCancelled(o)
  <2> USE <1>3 DEF PublishOrderCancelled, Publish, Event, tables, calls
  <2>1. OrdersTypeOK' BY DEF Events, Subjects, DeskStates
  <2>2. StatusAgrees' BY DEF StatusAgrees
  <2>3. DesksAgree' BY DEF DesksAgree
  <2>4. StreamAgrees' BY DEF StreamAgrees, Events
  <2>5. CallsAgree' BY DEF CallsAgree
  <2> QED BY <2>1, <2>2, <2>3, <2>4, <2>5
<1> QED BY <1>1, <1>2, <1>3 DEF CancellationStep

\* The handler at the order desk.  SettleOrder is where the second half of
\* DesksAgree is won: its guard says no payment type has been written yet.
LEMMA LoadKeepsInv ==
    ASSUME IInv, NEW d \in Desks, NEW o \in Orders, LoadOrder(d, o)
    PROVE  IInv'
<1> USE OrdersAssumption, ShopAssumption
    DEF IInv, OrdersTypeOK, Statuses, PaymentTypes, CallStates, LoadOrder,
        tables, calls
<1>1. OrdersTypeOK' BY DEF DeskStates
<1>2. StatusAgrees' BY DEF StatusAgrees
<1>3. DesksAgree' BY DEF DesksAgree, DeskStates
<1>4. StreamAgrees' BY DEF StreamAgrees, Events, DeskStates
<1>5. CallsAgree' BY DEF CallsAgree
<1> QED BY <1>1, <1>2, <1>3, <1>4, <1>5

\* The UPDATE that settles the order, or finds it settled or cancelled.
LEMMA SettleKeepsInv ==
    ASSUME IInv, NEW d \in Desks, SettleOrder(d) \/ SettleConflict(d)
    PROVE  IInv'
<1> USE OrdersAssumption, ShopAssumption
    DEF IInv, OrdersTypeOK, Statuses, PaymentTypes, CallStates, tables, calls
<1>1. CASE SettleOrder(d)
  <2> USE <1>1 DEF SettleOrder
  <2>a. desk[d].order \in Orders /\ desk[d].type \in PaymentTypes
    BY DEF DesksAgree
  <2>b. desk' \in [Desks -> DeskStates]
    <3>1. [desk[d] EXCEPT !.pc = "settled"] \in DeskStates BY DeskMoves
    <3> QED BY <3>1
  <2>1. OrdersTypeOK' BY <2>a, <2>b
  <2>2. StatusAgrees'
    <3>1. payment'[desk[d].order] = desk[d].type /\ desk[d].type # "NONE"
      BY <2>a
    <3>2. ASSUME NEW p \in Orders, p # desk[d].order
          PROVE  status'[p] = status[p] /\ payment'[p] = payment[p]
      BY <3>2
    <3> QED BY <2>a, <3>1, <3>2 DEF StatusAgrees
  <2>3. DesksAgree' BY DEF DesksAgree, StatusAgrees, DeskStates
  <2>4. StreamAgrees' BY DEF StreamAgrees, StatusAgrees, DesksAgree, Events,
                             DeskStates
  <2>5. CallsAgree' BY DEF CallsAgree
  <2> QED BY <2>1, <2>2, <2>3, <2>4, <2>5
<1>2. CASE SettleConflict(d)
  <2> USE <1>2 DEF SettleConflict, IdleDesk
  <2>1. OrdersTypeOK' BY DEF DeskStates
  <2>2. StatusAgrees' BY DEF StatusAgrees
  <2>3. DesksAgree' BY DEF DesksAgree, DeskStates
  <2>4. StreamAgrees' BY DEF StreamAgrees, Events, DeskStates
  <2>5. CallsAgree' BY DEF CallsAgree
  <2> QED BY <2>1, <2>2, <2>3, <2>4, <2>5
<1> QED BY <1>1, <1>2

\* The payment is posted and answered, or the order's lines cannot be loaded.
LEMMA BillingKeepsInv ==
    ASSUME IInv, NEW d \in Desks,
           PostPayment(d) \/ LoadItemsFailed(d) \/ PaymentReturned(d)
    PROVE  IInv'
<1> USE OrdersAssumption, ShopAssumption
    DEF IInv, OrdersTypeOK, Statuses, PaymentTypes, CallStates, tables, calls
<1>1. CASE PostPayment(d)
  <2> USE <1>1 DEF PostPayment
  <2>a. desk[d].order \in Orders
    BY DEF DesksAgree
  <2>b. desk' \in [Desks -> DeskStates]
    <3>1. costed[desk[d].order] \in SUBSET Products BY <2>a
    <3>2. [desk[d] EXCEPT !.pc = "billing", !.cogs = costed[desk[d].order]]
              \in DeskStates
      BY <3>1, DeskMoves
    <3> QED BY <3>2
  <2>1. OrdersTypeOK' BY <2>a, <2>b
  <2>2. StatusAgrees' BY DEF StatusAgrees
  <2>3. DesksAgree' BY DEF DesksAgree, DeskStates
  <2>4. StreamAgrees' BY DEF StreamAgrees, Events, DeskStates
  <2>5. CallsAgree' BY DEF CallsAgree
  <2> QED BY <2>1, <2>2, <2>3, <2>4, <2>5
<1>2. CASE LoadItemsFailed(d)
  <2> USE <1>2 DEF LoadItemsFailed, IdleDesk
  <2>1. OrdersTypeOK' BY DEF DeskStates
  <2>2. StatusAgrees' BY DEF StatusAgrees
  <2>3. DesksAgree' BY DEF DesksAgree, DeskStates
  <2>4. StreamAgrees' BY DEF StreamAgrees, Events, DeskStates
  <2>5. CallsAgree' BY DEF CallsAgree
  <2> QED BY <2>1, <2>2, <2>3, <2>4, <2>5
<1>3. CASE PaymentReturned(d)
  <2> USE <1>3 DEF PaymentReturned
  <2>a. desk' \in [Desks -> DeskStates]
    <3>1. [desk[d] EXCEPT !.pc = "billed"] \in DeskStates BY DeskMoves
    <3> QED BY <3>1
  <2>1. OrdersTypeOK' BY <2>a
  <2>2. StatusAgrees' BY DEF StatusAgrees
  <2>3. DesksAgree' BY DEF DesksAgree, DeskStates
  <2>4. StreamAgrees' BY DEF StreamAgrees, Events, DeskStates
  <2>5. CallsAgree' BY DEF CallsAgree
  <2> QED BY <2>1, <2>2, <2>3, <2>4, <2>5
<1> QED BY <1>1, <1>2, <1>3

\* order.completed is published, or lost, and the request ends.
LEMMA CompletionKeepsInv ==
    ASSUME IInv, NEW d \in Desks, PublishOrderCompleted(d)
    PROVE  IInv'
<1> USE OrdersAssumption, ShopAssumption
    DEF IInv, OrdersTypeOK, Statuses, PaymentTypes, CallStates, tables, calls,
        PublishOrderCompleted, Publish, Event, IdleDesk
<1>1. OrdersTypeOK' BY DEF Events, Subjects, DeskStates, DesksAgree
<1>2. StatusAgrees' BY DEF StatusAgrees
<1>3. DesksAgree' BY DEF DesksAgree, DeskStates
<1>4. StreamAgrees' BY DEF StreamAgrees, DesksAgree, Events, DeskStates
<1>5. CallsAgree' BY DEF CallsAgree
<1> QED BY <1>1, <1>2, <1>3, <1>4, <1>5

\* A crash ends every request and leaves tables, calls and stream alone.
LEMMA CrashKeepsInv ==
    ASSUME IInv, OrderServiceCrash
    PROVE  IInv'
<1> USE OrdersAssumption, ShopAssumption
    DEF IInv, OrdersTypeOK, Statuses, PaymentTypes, CallStates, tables, calls,
        OrderServiceCrash, IdleDesk
<1>1. OrdersTypeOK' BY DEF DeskStates
<1>2. StatusAgrees' BY DEF StatusAgrees
<1>3. DesksAgree' BY DEF DesksAgree
<1>4. StreamAgrees' BY DEF StreamAgrees, Events
<1>5. CallsAgree' BY DEF CallsAgree
<1> QED BY <1>1, <1>2, <1>3, <1>4, <1>5

\* The other services.
LEMMA OthersKeepInv ==
    ASSUME IInv, OthersNext
    PROVE  IInv'
<1> USE OrdersAssumption, ShopAssumption
    DEF IInv, OrdersTypeOK, Statuses, PaymentTypes, CallStates, tables, calls
<1>1. PICK o \in Orders, outcome \in {"applied", "refused", "lost"} :
          \/ ReserveEnds(o, outcome)
          \/ ReleaseEnds(o, outcome)
          \/ PaymentEnds(o, outcome)
  BY DEF OthersNext, CallLost
<1> USE <1>1 DEF ReserveEnds, ReleaseEnds, PaymentEnds
<1>2. OrdersTypeOK'
  <2>1. CASE ReserveEnds(o, outcome) BY <2>1
  <2>2. CASE ReleaseEnds(o, outcome) BY <2>2
  <2>3. CASE PaymentEnds(o, outcome) BY <2>3
  <2> QED BY <1>1, <2>1, <2>2, <2>3
<1>3. StatusAgrees' BY DEF StatusAgrees
<1>4. DesksAgree' BY DEF DesksAgree
<1>5. StreamAgrees' BY DEF StreamAgrees, Events
<1>6. CallsAgree' BY DEF CallsAgree
<1> QED BY <1>2, <1>3, <1>4, <1>5, <1>6

\* Every step of order-service and of its callees keeps the invariant.
LEMMA NextKeepsInv == IInv /\ [OrdersNext]_orderVars => IInv'
<1> SUFFICES ASSUME IInv, [OrdersNext]_orderVars PROVE IInv'
  OBVIOUS
<1>1. CASE ServiceNext
  BY <1>1, PlacementKeepsInv, CancellationKeepsInv, LoadKeepsInv,
     SettleKeepsInv, BillingKeepsInv, CompletionKeepsInv, CrashKeepsInv
  DEF ServiceNext, DeskStep
<1>2. CASE OthersNext
  BY <1>2, OthersKeepInv
<1>3. CASE UNCHANGED orderVars
  BY <1>3 DEF orderVars, IInv, OrdersTypeOK, StatusAgrees, DesksAgree,
              StreamAgrees, CallsAgree
<1> QED BY <1>1, <1>2, <1>3 DEF OrdersNext

\* So the invariant holds in every reachable state.
LEMMA Invariance == OrdersSpec => []IInv
<1> QED BY InitInv, NextKeepsInv, PTL DEF OrdersSpec

-----------------------------------------------------------------------------
(***************************************************************************)
(* What follows from the invariant.                                        *)
(***************************************************************************)

\* Every handler of order-service keeps the tables, the calls and the events
\* well-formed; in particular no order gets a status the CHECK constraint of
\* the table rejects.
THEOREM TypeCorrect == OrdersSpec => []OrdersTypeOK
<1>1. IInv => OrdersTypeOK BY DEF IInv
<1> QED BY <1>1, Invariance, PTL

\* Settling an order and cancelling it by its customer exclude each other,
\* for any number of desks and any number of crashes.
THEOREM CancellationIsExclusive == OrdersSpec => []CancelExcludesSettle
<1>1. IInv => CancelExcludesSettle
  BY DEF IInv, StatusAgrees, DesksAgree, CancelExcludesSettle, Settling
<1> QED BY <1>1, Invariance, PTL

\* However many admins complete the same order at the same time, one request
\* gets through and one order.completed is published.
THEOREM SettlementIsUnique == OrdersSpec => []SettledOnce
<1>1. IInv => SettledOnce
  <2> SUFFICES ASSUME IInv, NEW o \in Orders
               PROVE
        /\ \A d1, d2 \in Desks : Settling(d1, o) /\ Settling(d2, o) => d1 = d2
        /\ \A d \in Desks :
               Settling(d, o) => ~Published("order.completed", o)
        /\ \A e1, e2 \in stream :
               /\ e1.order = o /\ e1.subject = "order.completed"
               /\ e2.order = o /\ e2.subject = "order.completed"
               => e1 = e2
    BY DEF SettledOnce
  <2>1. \A d1, d2 \in Desks : Settling(d1, o) /\ Settling(d2, o) => d1 = d2
    BY DEF IInv, DesksAgree, Settling
  <2>2. \A d \in Desks : Settling(d, o) => ~Published("order.completed", o)
    BY DEF IInv, StreamAgrees, Settling, Published
  <2>3. \A e1, e2 \in stream :
            /\ e1.order = o /\ e1.subject = "order.completed"
            /\ e2.order = o /\ e2.subject = "order.completed"
            => e1 = e2
    BY DEF IInv, StreamAgrees
  <2> QED BY <2>1, <2>2, <2>3
<1> QED BY <1>1, Invariance, PTL

\* A customer who got 201, and a consumer that got order.placed, can count on
\* inventory-service having taken the stock.
THEOREM PlacementIsBacked == OrdersSpec => []PlacedMeansReserved
<1>1. IInv => PlacedMeansReserved
  BY DEF IInv, CallsAgree, StreamAgrees, PlacedMeansReserved, Published
<1> QED BY <1>1, Invariance, PTL

\* The events published about an order agree with its row and with each other.
THEOREM EventsAgree == OrdersSpec => []EventsTellTheTruth
<1>1. IInv => EventsTellTheTruth
  <2> SUFFICES ASSUME IInv, NEW o \in Orders
               PROVE
        /\ Published("order.completed", o) => payment[o] # "NONE"
        /\ Published("order.cancelled", o) =>
               status[o] = "CANCELLED" /\ payment[o] = "NONE"
    BY DEF EventsTellTheTruth
  <2>1. Published("order.completed", o) => payment[o] # "NONE"
    BY DEF IInv, StreamAgrees, Published
  <2>2. Published("order.cancelled", o) => cancelling[o] = "done"
    BY DEF IInv, StreamAgrees, Published
  <2> QED BY <2>1, <2>2 DEF IInv, StatusAgrees
<1> QED BY <1>1, Invariance, PTL

-----------------------------------------------------------------------------
(***************************************************************************)
(* When desk and customer wait for the placement to end well               *)
(* (~EarlyAccess).                                                         *)
(***************************************************************************)
\* What has been loaded, settled or cancelled had been placed, so no failing
\* placement takes a settled order out of COMPLETED.
PlacedFirst ==
    /\ \A o \in Orders :
           /\ payment[o] # "NONE" \/ cancelling[o] # "idle" =>
                  placing[o] = "created"
           /\ payment[o] # "NONE" => status[o] = "COMPLETED"
    /\ \A d \in Desks : desk[d].pc # "idle" =>
           placing[desk[d].order] = "created"

\* No cost is stored any more once the desk has loaded the lines.
CostsCarried ==
    /\ \A d \in Desks : desk[d].pc \in {"billing", "billed"} =>
           desk[d].cogs = costed[desk[d].order]
    /\ \A e \in stream : e.subject = "order.completed" =>
           e.cogs = costed[e.order]

LEMMA InitPlaced == OrdersInit => PlacedFirst /\ CostsCarried
  BY DEF OrdersInit, PlacedFirst, CostsCarried, IdleDesk

LEMMA NextKeepsPlaced ==
    ASSUME ~EarlyAccess, IInv, PlacedFirst, [OrdersNext]_orderVars
    PROVE  PlacedFirst'
<1> USE DEF IInv, OrdersTypeOK, PlacedFirst, tables, calls
<1>1. ASSUME NEW o \in Orders, CreateOrder(o) PROVE PlacedFirst'
  BY <1>1 DEF CreateOrder, StatusAgrees, DesksAgree
<1>2. ASSUME NEW o \in Orders, PlacementStep(o) PROVE PlacedFirst'
  BY <1>2 DEF PlacementStep, CallReserve, ReserveSucceeded, StoreItemCost,
              ReserveFailed, PublishOrderPlaced, DesksAgree
<1>3. ASSUME NEW o \in Orders, CancelMyOrder(o) \/ CancellationStep(o)
      PROVE  PlacedFirst'
  BY <1>3 DEF CancelMyOrder, Reachable, CancellationStep, CallRelease,
              ReleaseReturned, PublishOrderCancelled
<1>4. ASSUME NEW d \in Desks, NEW o \in Orders, LoadOrder(d, o)
      PROVE  PlacedFirst'
  BY <1>4 DEF LoadOrder, Reachable
<1>5. ASSUME NEW d \in Desks, SettleOrder(d) PROVE PlacedFirst'
  BY <1>5 DEF SettleOrder, DesksAgree, DeskStates
<1>6. ASSUME NEW d \in Desks, PostPayment(d) \/ PaymentReturned(d)
      PROVE  PlacedFirst'
  <2>1. UNCHANGED <<status, payment, placing, cancelling>>
    BY <1>6 DEF PostPayment, PaymentReturned
  <2>2. /\ desk[d].pc # "idle" /\ desk'[d].order = desk[d].order
        /\ \A e \in Desks : e # d => desk'[e] = desk[e]
    BY <1>6 DEF PostPayment, PaymentReturned, DeskStates
  <2> QED BY <2>1, <2>2
<1>7. ASSUME NEW d \in Desks,
             \/ SettleConflict(d) \/ LoadItemsFailed(d)
             \/ PublishOrderCompleted(d)
      PROVE  PlacedFirst'
  <2>1. UNCHANGED <<status, payment, placing, cancelling>>
    BY <1>7 DEF SettleConflict, LoadItemsFailed, PublishOrderCompleted
  <2>2. /\ desk'[d].pc = "idle"
        /\ \A e \in Desks : e # d => desk'[e] = desk[e]
    BY <1>7 DEF SettleConflict, LoadItemsFailed, PublishOrderCompleted,
                IdleDesk, DeskStates
  <2> QED BY <2>1, <2>2
<1>8. ASSUME OrderServiceCrash PROVE PlacedFirst'
  BY <1>8 DEF OrderServiceCrash, IdleDesk
<1>9. ASSUME OthersNext PROVE PlacedFirst'
  BY <1>9 DEF OthersNext, CallLost, ReserveEnds, ReleaseEnds, PaymentEnds
<1>10. ASSUME UNCHANGED orderVars PROVE PlacedFirst'
  BY <1>10 DEF orderVars
<1> HIDE DEF IInv, OrdersTypeOK, PlacedFirst, tables, calls
<1> QED
  BY <1>1, <1>2, <1>3, <1>4, <1>5, <1>6, <1>7, <1>8, <1>9, <1>10
  DEF OrdersNext, ServiceNext, DeskStep

LEMMA NextKeepsCosts ==
    ASSUME IInv, PlacedFirst, CostsCarried, [OrdersNext]_orderVars
    PROVE  CostsCarried'
<1> USE DEF IInv, OrdersTypeOK, CostsCarried, tables, calls
<1>1. ASSUME NEW o \in Orders,
             \/ CreateOrder(o) \/ CallReserve(o) \/ ReserveSucceeded(o)
             \/ CancelMyOrder(o) \/ CallRelease(o) \/ ReleaseReturned(o)
      PROVE  CostsCarried'
  BY <1>1 DEF CreateOrder, CallReserve, ReserveSucceeded, CancelMyOrder,
              CallRelease, ReleaseReturned
<1>2. ASSUME NEW o \in Orders, StoreItemCost(o) PROVE CostsCarried'
  <2>1. \A e \in stream : e.subject = "order.completed" => e.order # o
    BY <1>2 DEF StoreItemCost, PlacedFirst, StreamAgrees
  <2>2. \A d \in Desks : desk[d].pc # "idle" => desk[d].order # o
    BY <1>2 DEF StoreItemCost, PlacedFirst
  <2>3. \A q \in Orders : q # o => costed'[q] = costed[q]
    BY <1>2 DEF StoreItemCost
  <2> QED BY <1>2, <2>1, <2>2, <2>3 DEF StoreItemCost, DesksAgree, Events
<1>3. ASSUME NEW o \in Orders,
             ReserveFailed(o) \/ PublishOrderPlaced(o)
                 \/ PublishOrderCancelled(o)
      PROVE  CostsCarried'
  BY <1>3 DEF ReserveFailed, PublishOrderPlaced, PublishOrderCancelled,
              Publish, Event
<1>4. ASSUME NEW d \in Desks,
             \/ \E o \in Orders : LoadOrder(d, o)
             \/ SettleOrder(d) \/ SettleConflict(d) \/ LoadItemsFailed(d)
      PROVE  CostsCarried'
  <2>1. UNCHANGED <<costed, stream>>
    BY <1>4 DEF LoadOrder, SettleOrder, SettleConflict, LoadItemsFailed
  <2>2. /\ desk'[d].pc \in {"idle", "loaded", "settled"}
        /\ \A e \in Desks : e # d => desk'[e] = desk[e]
    BY <1>4 DEF LoadOrder, SettleOrder, SettleConflict, LoadItemsFailed,
                IdleDesk, DeskStates
  <2> QED BY <2>1, <2>2
<1>5. ASSUME NEW d \in Desks, PostPayment(d) PROVE CostsCarried'
  <2>1. /\ desk'[d].cogs = costed[desk[d].order]
        /\ desk'[d].order = desk[d].order
        /\ \A e \in Desks : e # d => desk'[e] = desk[e]
    BY <1>5 DEF PostPayment, DeskStates
  <2> QED BY <1>5, <2>1 DEF PostPayment
<1>6. ASSUME NEW d \in Desks, PaymentReturned(d) PROVE CostsCarried'
  BY <1>6 DEF PaymentReturned, DeskStates
<1>7. ASSUME NEW d \in Desks, PublishOrderCompleted(d) PROVE CostsCarried'
  BY <1>7 DEF PublishOrderCompleted, Publish, Event, IdleDesk, DeskStates
<1>8. ASSUME OrderServiceCrash PROVE CostsCarried'
  BY <1>8 DEF OrderServiceCrash, IdleDesk
<1>9. ASSUME OthersNext PROVE CostsCarried'
  BY <1>9 DEF OthersNext, CallLost, ReserveEnds, ReleaseEnds, PaymentEnds
<1>10. ASSUME UNCHANGED orderVars PROVE CostsCarried'
  BY <1>10 DEF orderVars
<1> HIDE DEF IInv, OrdersTypeOK, CostsCarried, tables, calls
<1> QED
  BY <1>1, <1>2, <1>3, <1>4, <1>5, <1>6, <1>7, <1>8, <1>9, <1>10
  DEF OrdersNext, ServiceNext, PlacementStep, CancellationStep, DeskStep

LEMMA PlacedInvariance ==
    ASSUME ~EarlyAccess
    PROVE  OrdersSpec => [](PlacedFirst /\ CostsCarried)
<1>1. IInv /\ PlacedFirst /\ CostsCarried /\ [OrdersNext]_orderVars
          => PlacedFirst' /\ CostsCarried'
  BY NextKeepsPlaced, NextKeepsCosts
<1> QED BY <1>1, InitPlaced, Invariance, PTL DEF OrdersSpec

-----------------------------------------------------------------------------
(***************************************************************************)
(* order-service implements OrderLifecycle.                                *)
(***************************************************************************)
open == [o \in Orders |-> placing[o] = "reserving"]

\* A step of order-service is a step of the abstract life of an order or
\* leaves it alone.
LEMMA StepRefines ==
    ASSUME IInv, [OrdersNext]_orderVars
    PROVE  [Lifecycle!Next]_<<status, open>>
<1> USE DEF open, IInv, OrdersTypeOK
<1> DEFINE Refined == [Lifecycle!Next]_<<status, open>>
<1>1. ASSUME NEW o \in Orders, CreateOrder(o) PROVE Refined
  <2>1. status[o] = "NONE" BY <1>1 DEF CreateOrder, StatusAgrees
  <2>2. open' = [open EXCEPT ![o] = TRUE] BY <1>1 DEF CreateOrder
  <2>3. Lifecycle!Place(o) BY <1>1, <2>1, <2>2 DEF CreateOrder, Lifecycle!Place
  <2> QED BY <2>3 DEF Lifecycle!Next
<1>2. ASSUME NEW o \in Orders, ReserveSucceeded(o) PROVE Refined
  <2>1. open' = [p \in Orders |-> open[p] /\ p \notin {o}]
    BY <1>2 DEF ReserveSucceeded
  <2>2. Lifecycle!Close({o})
    BY <1>2, <2>1 DEF ReserveSucceeded, Lifecycle!Close, tables
  <2> QED BY <2>2 DEF Lifecycle!Next
<1>3. ASSUME NEW o \in Orders, ReserveFailed(o) PROVE Refined
  <2>1. /\ open[o] /\ open' = [open EXCEPT ![o] = FALSE]
        /\ open' = [p \in Orders |-> open[p] /\ p \notin {o}]
    BY <1>3 DEF ReserveFailed
  <2>2. CASE UNCHANGED status
    <3>1. Lifecycle!Close({o}) BY <2>1, <2>2 DEF Lifecycle!Close
    <3> QED BY <3>1 DEF Lifecycle!Next
  <2>3. CASE status' = [status EXCEPT ![o] = "CANCELLED"]
    <3>1. Lifecycle!Abort(o) BY <2>1, <2>3 DEF Lifecycle!Abort
    <3> QED BY <3>1 DEF Lifecycle!Next
  <2> QED BY <1>3, <2>2, <2>3 DEF ReserveFailed
<1>4. ASSUME NEW o \in Orders,
             CallReserve(o) \/ StoreItemCost(o) \/ PublishOrderPlaced(o)
      PROVE  Refined
  BY <1>4 DEF CallReserve, StoreItemCost, PublishOrderPlaced, tables
<1>5. ASSUME NEW o \in Orders, CancelMyOrder(o) PROVE Refined
  <2>1. Lifecycle!Finish(o, "CANCELLED")
    BY <1>5 DEF CancelMyOrder, Lifecycle!Finish
  <2> QED BY <2>1 DEF Lifecycle!Next
<1>6. ASSUME NEW o \in Orders, CancellationStep(o) PROVE Refined
  BY <1>6 DEF CancellationStep, CallRelease, ReleaseReturned,
              PublishOrderCancelled, tables
<1>7. ASSUME NEW d \in Desks, NEW o \in Orders, LoadOrder(d, o) PROVE Refined
  BY <1>7 DEF LoadOrder, tables
<1>8. ASSUME NEW d \in Desks, SettleOrder(d) PROVE Refined
  <2>1. desk[d].order \in Orders BY <1>8 DEF SettleOrder, DesksAgree
  <2>2. Lifecycle!Finish(desk[d].order, "COMPLETED")
    BY <1>8 DEF SettleOrder, Lifecycle!Finish
  <2> QED BY <2>1, <2>2 DEF Lifecycle!Next
<1>9. ASSUME NEW d \in Desks, DeskStep(d), ~SettleOrder(d) PROVE Refined
  BY <1>9 DEF DeskStep, SettleConflict, PostPayment, LoadItemsFailed,
              PaymentReturned, PublishOrderCompleted, tables
<1>10. CASE OrderServiceCrash
  <2>1. open' = [o \in Orders |-> open[o] /\ o \notin Orders]
    BY <1>10 DEF OrderServiceCrash
  <2>2. Lifecycle!Close(Orders)
    BY <1>10, <2>1 DEF OrderServiceCrash, Lifecycle!Close, tables
  <2> QED BY <2>2 DEF Lifecycle!Next
<1>11. CASE OthersNext
  BY <1>11 DEF OthersNext, CallLost, ReserveEnds, ReleaseEnds, PaymentEnds,
               tables
<1>12. CASE UNCHANGED orderVars
  BY <1>12 DEF orderVars
<1> QED BY <1>1, <1>2, <1>3, <1>4, <1>5, <1>6, <1>7, <1>8, <1>9, <1>10,
           <1>11, <1>12
        DEF OrdersNext, ServiceNext, PlacementStep

\* However the handlers interleave, crash and lose calls, an order lives the
\* abstract life: PENDING once, then COMPLETED or CANCELLED for good, except
\* that a placement still open may be aborted.
THEOREM ImplementsLifecycle == OrdersSpec => LifecycleSpec
<1>1. OrdersInit => Lifecycle!Init
  BY DEF OrdersInit, Lifecycle!Init
<1>2. IInv /\ [OrdersNext]_orderVars => [Lifecycle!Next]_<<status, open>>
  BY StepRefines
<1> QED BY <1>1, <1>2, Invariance, PTL
        DEF OrdersSpec, LifecycleSpec, Lifecycle!Spec, open
=============================================================================
