------------------------------- MODULE Orders -------------------------------
(***************************************************************************)
(* order-service: the life of an order as the three HTTP handlers that     *)
(* write it see it.                                                        *)
(*                                                                         *)
(*   create_order.go    a customer places an order: the row is committed   *)
(*                      PENDING, then inventory-service is asked to        *)
(*                      reserve the stock, then order.placed is published  *)
(*   complete_order.go  an admin at the order desk settles it              *)
(*   cancel_order.go    the customer cancels it and the stock is released  *)
(*                                                                         *)
(* Every request runs in a goroutine of its own, so the handlers of one    *)
(* order interleave between any two of their database statements and       *)
(* remote calls.  A statement, or a transaction, is one step: SQLite runs  *)
(* with a single connection (pkg/sqlite/sqlite.go:23).  A remote call is a *)
(* message with a state of its own, because the caller may give up         *)
(* (client timeouts of 8 to 10 seconds) while the callee still applies it. *)
(*                                                                         *)
(* What the callees do is left open here: the actions under "The other     *)
(* services" answer a call either way.  OrderStock.tla replaces them by    *)
(* inventory-service.                                                      *)
(***************************************************************************)
EXTENDS Shop

CONSTANTS
    Desks,        \* admin requests being served at the same time
    Nobody,       \* stands for "no order" in an idle desk slot
    EarlyAccess,  \* may an order be completed or cancelled before its
                  \* placement has ended well?  In the code it may: the
                  \* PENDING row is committed before stock is reserved.
    Unreliable,   \* can calls to other services be lost, or time out late,
                  \* and statements fail whose error the handler drops?
    MaxCrashes    \* bound on crashes of order-service

ASSUME OrdersAssumption ==
    /\ Nobody \notin Orders
    /\ EarlyAccess \in BOOLEAN
    /\ Unreliable \in BOOLEAN
    /\ MaxCrashes \in Nat

VARIABLES
    status,       \* orders.status, "NONE" while there is no row
    payment,      \* orders.payment_type, "NONE" while it is NULL
    cart,         \* order_items: quantity per product
    costed,       \* order_items with a unit_cost written by storeItemCosts
    placing,      \* where the create handler of each order is
    cancelling,   \* where the cancel handler of each order is
    desk,         \* the complete handlers, with their local variables
    reserveCall,  \* POST /v1/internal/stock/reserve of each order
    releaseCall,  \* POST /v1/internal/stock/release of each order
    billingCall,  \* POST /v1/internal/payments of each order
    stream,       \* JetStream stream ORDERS: the events published so far
    crashes

tables == <<status, payment, cart, costed>>
calls  == <<reserveCall, releaseCall, billingCall>>
orderVars == <<status, payment, cart, costed, placing, cancelling, desk,
               reserveCall, releaseCall, billingCall, stream, crashes>>

Statuses     == {"NONE", "PENDING", "COMPLETED", "CANCELLED"}
PaymentTypes == {"FULL", "PARTIAL", "UNPAID"}
CallStates   == {"none", "sent", "applied", "refused", "lost"}
Subjects     == {"order.placed", "order.completed", "order.cancelled"}

\* order.completed carries the lines whose cost had been stored when the
\* handler loaded them.
Event(subject, o, cogs) == [subject |-> subject, order |-> o, cogs |-> cogs]
Events == [subject : Subjects, order : Orders, cogs : SUBSET Products]

IdleDesk == [pc |-> "idle", order |-> Nobody, type |-> "NONE", cogs |-> {}]
DeskStates ==
    [pc : {"idle", "loaded", "settled", "billing", "billed"},
     order : Orders \cup {Nobody}, type : PaymentTypes \cup {"NONE"},
     cogs : SUBSET Products]

OrdersTypeOK ==
    /\ status \in [Orders -> Statuses]
    /\ payment \in [Orders -> PaymentTypes \cup {"NONE"}]
    /\ cart \in [Orders -> [Products -> 0 .. MaxQty]]
    /\ costed \in [Orders -> SUBSET Products]
    /\ placing \in [Orders -> {"idle", "reserving", "reserved", "created",
                               "rejected", "died"}]
    /\ cancelling \in [Orders -> {"idle", "releasing", "released", "done",
                                  "died"}]
    /\ desk \in [Desks -> DeskStates]
    /\ reserveCall \in [Orders -> CallStates]
    /\ releaseCall \in [Orders -> CallStates]
    /\ billingCall \in [Orders -> CallStates]
    /\ stream \in SUBSET Events
    /\ crashes \in 0 .. MaxCrashes

OrdersInit ==
    /\ status = [o \in Orders |-> "NONE"]
    /\ payment = [o \in Orders |-> "NONE"]
    /\ cart = [o \in Orders |-> NoItems]
    /\ costed = [o \in Orders |-> {}]
    /\ placing = [o \in Orders |-> "idle"]
    /\ cancelling = [o \in Orders |-> "idle"]
    /\ desk = [d \in Desks |-> IdleDesk]
    /\ reserveCall = [o \in Orders |-> "none"]
    /\ releaseCall = [o \in Orders |-> "none"]
    /\ billingCall = [o \in Orders |-> "none"]
    /\ stream = {}
    /\ crashes = 0

-----------------------------------------------------------------------------
(***************************************************************************)
(* What the handlers share.                                                *)
(***************************************************************************)

\* The answer to a call has arrived.
Answered(call) == call \in {"applied", "refused"}

\* The caller stops waiting: the connection failed, or its timeout fired
\* although the callee may have applied the call, or may do so later.
GivenUp(call) == Unreliable /\ call \in {"sent", "applied", "lost"}

\* Publishing happens after the commit and its failure is only logged, so an
\* event either reaches the stream or is gone for good.
Publish(e) == stream' = stream \cup {e} \/ stream' = stream

\* Desk and customer find the order in their lists from the moment its row
\* is committed; without EarlyAccess they wait for the 201 of its placement.
Reachable(o) == EarlyAccess \/ placing[o] = "created"

-----------------------------------------------------------------------------
(***************************************************************************)
(* handleCreateOrder.                                                      *)
(***************************************************************************)

\* Validation, delivery range, prices and fee decide whether there is an order
\* at all and write nothing (Checkout.tla); the transaction then commits order
\* and items.
CreateOrder(o) ==
    /\ placing[o] = "idle"
    /\ \E c \in Carts : cart' = [cart EXCEPT ![o] = c]
    /\ status' = [status EXCEPT ![o] = "PENDING"]
    /\ placing' = [placing EXCEPT ![o] = "reserving"]
    /\ UNCHANGED <<payment, costed, cancelling, desk, calls, stream, crashes>>

\* Reserve is called after the commit: an order whose handler dies in between
\* stays PENDING and is never asked for.
CallReserve(o) ==
    /\ placing[o] = "reserving"
    /\ reserveCall[o] = "none"
    /\ reserveCall' = [reserveCall EXCEPT ![o] = "sent"]
    /\ UNCHANGED <<tables, placing, cancelling, desk, releaseCall,
                   billingCall, stream, crashes>>

\* Mutant: the error of Reserve is not looked at.
ReserveSucceededIgnoringError(o) ==
    /\ placing[o] = "reserving"
    /\ Answered(reserveCall[o])
    /\ placing' = [placing EXCEPT ![o] = "reserved"]
    /\ UNCHANGED <<tables, cancelling, desk, calls, stream, crashes>>

\* Reserve answered 200.
ReserveSucceeded(o) ==
    /\ placing[o] = "reserving"
    /\ reserveCall[o] = "applied"
    /\ placing' = [placing EXCEPT ![o] = "reserved"]
    /\ UNCHANGED <<tables, cancelling, desk, calls, stream, crashes>>

\* storeItemCosts writes unit_cost with one UPDATE per line.  It skips a line
\* without a cost or whose UPDATE fails, so order.placed may follow at any time.
StoreItemCost(o) ==
    /\ placing[o] = "reserved"
    /\ \E p \in Items(cart[o]) \ costed[o] :
           costed' = [costed EXCEPT ![o] = @ \cup {p}]
    /\ UNCHANGED <<status, payment, cart, placing, cancelling, desk, calls,
                   stream, crashes>>

\* Any error of Reserve, a refusal or no answer, sets the order CANCELLED.
\* The UPDATE does not look at the status the row has by then, its own error is
\* dropped, and neither stock is released nor order.cancelled published.
ReserveFailed(o) ==
    /\ placing[o] = "reserving"
    /\ reserveCall[o] \in {"refused", "lost"} \/ GivenUp(reserveCall[o])
    /\ \/ status' = [status EXCEPT ![o] = "CANCELLED"]
       \/ Unreliable /\ UNCHANGED status
    /\ placing' = [placing EXCEPT ![o] = "rejected"]
    /\ UNCHANGED <<payment, cart, costed, cancelling, desk, calls, stream,
                   crashes>>

PublishOrderPlaced(o) ==
    /\ placing[o] = "reserved"
    /\ Publish(Event("order.placed", o, {}))
    /\ placing' = [placing EXCEPT ![o] = "created"]
    /\ UNCHANGED <<tables, cancelling, desk, calls, crashes>>

-----------------------------------------------------------------------------
(***************************************************************************)
(* handleCancelMyOrder.                                                    *)
(***************************************************************************)

\* Mutant: only an order that is already cancelled is refused.
CancelMyOrderIfNotCancelled(o) ==
    /\ status[o] \in {"PENDING", "COMPLETED"}
    /\ Reachable(o)
    /\ status' = [status EXCEPT ![o] = "CANCELLED"]
    /\ cancelling' = [cancelling EXCEPT ![o] = "releasing"]
    /\ UNCHANGED <<payment, cart, costed, placing, desk, calls, stream, crashes>>

\* Status check and UPDATE share a transaction.
CancelMyOrder(o) ==
    /\ status[o] = "PENDING"
    /\ Reachable(o)
    /\ status' = [status EXCEPT ![o] = "CANCELLED"]
    /\ cancelling' = [cancelling EXCEPT ![o] = "releasing"]
    /\ UNCHANGED <<payment, cart, costed, placing, desk, calls, stream, crashes>>

\* Release is called after the commit: a handler that dies in between has
\* cancelled the order and gives nothing back.
CallRelease(o) ==
    /\ cancelling[o] = "releasing"
    /\ releaseCall[o] = "none"
    /\ releaseCall' = [releaseCall EXCEPT ![o] = "sent"]
    /\ UNCHANGED <<tables, placing, cancelling, desk, reserveCall,
                   billingCall, stream, crashes>>

\* Mutant: an HTTP client without a timeout waits for its answer.
ReleaseReturnedPatiently(o) ==
    /\ cancelling[o] = "releasing"
    /\ Answered(releaseCall[o])
    /\ cancelling' = [cancelling EXCEPT ![o] = "released"]
    /\ UNCHANGED <<tables, placing, desk, calls, stream, crashes>>

\* The handler goes on whatever became of Release.
ReleaseReturned(o) ==
    /\ cancelling[o] = "releasing"
    /\ \/ Answered(releaseCall[o])
       \/ releaseCall[o] = "lost"
       \/ GivenUp(releaseCall[o])
    /\ cancelling' = [cancelling EXCEPT ![o] = "released"]
    /\ UNCHANGED <<tables, placing, desk, calls, stream, crashes>>

PublishOrderCancelled(o) ==
    /\ cancelling[o] = "released"
    /\ Publish(Event("order.cancelled", o, {}))
    /\ cancelling' = [cancelling EXCEPT ![o] = "done"]
    /\ UNCHANGED <<tables, placing, desk, calls, crashes>>

-----------------------------------------------------------------------------
(***************************************************************************)
(* handleCompleteOrder.                                                    *)
(***************************************************************************)

\* loadOrderByID outside any transaction; settlePayment picks the columns from
\* the request and the total, which no handler changes.
LoadOrder(d, o) ==
    /\ desk[d].pc = "idle"
    /\ status[o] = "PENDING"
    /\ Reachable(o)
    /\ \E t \in PaymentTypes :
           desk' = [desk EXCEPT ![d] = [pc |-> "loaded", order |-> o,
                                        type |-> t, cogs |-> {}]]
    /\ UNCHANGED <<tables, placing, cancelling, calls, stream, crashes>>

\* Mutant: UPDATE ... WHERE id = ?, trusting the status loaded before.
SettleOrderTrustingRead(d) ==
    LET o == desk[d].order IN
    /\ desk[d].pc = "loaded"
    /\ status' = [status EXCEPT ![o] = "COMPLETED"]
    /\ payment' = [payment EXCEPT ![o] = desk[d].type]
    /\ desk' = [desk EXCEPT ![d].pc = "settled"]
    /\ UNCHANGED <<cart, costed, placing, cancelling, calls, stream, crashes>>

\* Mutant: a status the CHECK constraint of the table does not know.
SettleOrderAsDelivered(d) ==
    LET o == desk[d].order IN
    /\ desk[d].pc = "loaded"
    /\ status[o] = "PENDING"
    /\ status' = [status EXCEPT ![o] = "DELIVERED"]
    /\ payment' = [payment EXCEPT ![o] = desk[d].type]
    /\ desk' = [desk EXCEPT ![d].pc = "settled"]
    /\ UNCHANGED <<cart, costed, placing, cancelling, calls, stream, crashes>>

\* UPDATE ... WHERE id = ? AND status = 'PENDING' affected the row.
SettleOrder(d) ==
    LET o == desk[d].order IN
    /\ desk[d].pc = "loaded"
    /\ status[o] = "PENDING"
    /\ status' = [status EXCEPT ![o] = "COMPLETED"]
    /\ payment' = [payment EXCEPT ![o] = desk[d].type]
    /\ desk' = [desk EXCEPT ![d].pc = "settled"]
    /\ UNCHANGED <<cart, costed, placing, cancelling, calls, stream, crashes>>

\* Mutant: "already completed" is taken for success.
SettleConflictAsSuccess(d) ==
    /\ desk[d].pc = "loaded"
    /\ status[desk[d].order] # "PENDING"
    /\ desk' = [desk EXCEPT ![d].pc = "settled"]
    /\ UNCHANGED <<tables, placing, cancelling, calls, stream, crashes>>

\* It affected no row: someone else was faster, the answer is a 409.
SettleConflict(d) ==
    /\ desk[d].pc = "loaded"
    /\ status[desk[d].order] # "PENDING"
    /\ desk' = [desk EXCEPT ![d] = IdleDesk]
    /\ UNCHANGED <<tables, placing, cancelling, calls, stream, crashes>>

\* Mutant: unit_cost is not among the columns loaded.
PostPaymentWithoutCosts(d) ==
    LET o == desk[d].order IN
    /\ desk[d].pc = "settled"
    /\ desk' = [desk EXCEPT ![d].pc = "billing"]
    /\ billingCall' = [billingCall EXCEPT ![o] = "sent"]
    /\ UNCHANGED <<tables, placing, cancelling, reserveCall, releaseCall,
                   stream, crashes>>

\* loadOrderItems, then the payment is posted to billing-service.
PostPayment(d) ==
    LET o == desk[d].order IN
    /\ desk[d].pc = "settled"
    /\ desk' = [desk EXCEPT ![d].pc = "billing", ![d].cogs = costed[o]]
    /\ billingCall' = [billingCall EXCEPT ![o] = "sent"]
    /\ UNCHANGED <<tables, placing, cancelling, reserveCall, releaseCall,
                   stream, crashes>>

\* loadOrderItems failed: a 500 although the order is COMPLETED; billing and
\* the event are skipped.
LoadItemsFailed(d) ==
    /\ Unreliable
    /\ desk[d].pc = "settled"
    /\ desk' = [desk EXCEPT ![d] = IdleDesk]
    /\ UNCHANGED <<tables, placing, cancelling, calls, stream, crashes>>

\* A failure of billing-service is only logged.
PaymentReturned(d) ==
    LET call == billingCall[desk[d].order] IN
    /\ desk[d].pc = "billing"
    /\ Answered(call) \/ call = "lost" \/ GivenUp(call)
    /\ desk' = [desk EXCEPT ![d].pc = "billed"]
    /\ UNCHANGED <<tables, placing, cancelling, calls, stream, crashes>>

PublishOrderCompleted(d) ==
    /\ desk[d].pc = "billed"
    /\ Publish(Event("order.completed", desk[d].order, desk[d].cogs))
    /\ desk' = [desk EXCEPT ![d] = IdleDesk]
    /\ UNCHANGED <<tables, placing, cancelling, calls, crashes>>

-----------------------------------------------------------------------------
(***************************************************************************)
(* A crash of order-service ends every request being served.  Nothing      *)
(* resumes them: the database keeps what was committed.  Calls already     *)
(* sent stay in flight.                                                    *)
(***************************************************************************)
OrderServiceCrash ==
    /\ crashes < MaxCrashes
    /\ crashes' = crashes + 1
    /\ placing' = [o \in Orders |->
           IF placing[o] \in {"reserving", "reserved"} THEN "died"
                                                       ELSE placing[o]]
    /\ cancelling' = [o \in Orders |->
           IF cancelling[o] \in {"releasing", "released"} THEN "died"
                                                          ELSE cancelling[o]]
    /\ desk' = [d \in Desks |-> IdleDesk]
    /\ UNCHANGED <<tables, calls, stream>>

-----------------------------------------------------------------------------
(***************************************************************************)
(* The other services.  A call that was sent is applied, refused or, when  *)
(* the network or the callee fails, lost.                                  *)
(***************************************************************************)
ReserveEnds(o, outcome) ==
    /\ reserveCall[o] = "sent"
    /\ reserveCall' = [reserveCall EXCEPT ![o] = outcome]
    /\ UNCHANGED <<tables, placing, cancelling, desk, releaseCall,
                   billingCall, stream, crashes>>

ReleaseEnds(o, outcome) ==
    /\ releaseCall[o] = "sent"
    /\ releaseCall' = [releaseCall EXCEPT ![o] = outcome]
    /\ UNCHANGED <<tables, placing, cancelling, desk, reserveCall,
                   billingCall, stream, crashes>>

\* billing-service refuses a payment whose amount_due is not positive.
PaymentEnds(o, outcome) ==
    /\ billingCall[o] = "sent"
    /\ billingCall' = [billingCall EXCEPT ![o] = outcome]
    /\ UNCHANGED <<tables, placing, cancelling, desk, reserveCall,
                   releaseCall, stream, crashes>>

CallLost(o) ==
    /\ Unreliable
    /\ \/ ReserveEnds(o, "lost")
       \/ ReleaseEnds(o, "lost")
       \/ PaymentEnds(o, "lost")

-----------------------------------------------------------------------------
PlacementStep(o) ==
    \/ CallReserve(o)
    \/ ReserveSucceeded(o) \/ StoreItemCost(o) \/ PublishOrderPlaced(o)
    \/ ReserveFailed(o)

CancellationStep(o) ==
    CallRelease(o) \/ ReleaseReturned(o) \/ PublishOrderCancelled(o)

DeskStep(d) ==
    \/ SettleOrder(d) \/ SettleConflict(d)
    \/ PostPayment(d) \/ LoadItemsFailed(d)
    \/ PaymentReturned(d) \/ PublishOrderCompleted(d)

\* Steps of order-service itself.
ServiceNext ==
    \/ \E o \in Orders :
           \/ CreateOrder(o) \/ PlacementStep(o)
           \/ CancelMyOrder(o) \/ CancellationStep(o)
    \/ \E d \in Desks :
           \/ \E o \in Orders : LoadOrder(d, o)
           \/ DeskStep(d)
    \/ OrderServiceCrash

OthersNext ==
    \E o \in Orders :
        \/ \E outcome \in {"applied", "refused"} :
               \/ ReserveEnds(o, outcome)
               \/ ReleaseEnds(o, outcome)
               \/ PaymentEnds(o, outcome)
        \/ CallLost(o)

OrdersNext == ServiceNext \/ OthersNext

OrdersSpec == OrdersInit /\ [][OrdersNext]_orderVars

(***************************************************************************)
(* Fairness: a goroutine that can run does run, and every HTTP client has  *)
(* a timeout, so a handler never waits for ever.  Callees answer what they *)
(* receive.  Nothing makes a customer or an admin act, and no crash is     *)
(* required.                                                               *)
(***************************************************************************)
OrdersFairness ==
    /\ \A o \in Orders :
           /\ WF_orderVars(PlacementStep(o))
           /\ WF_orderVars(CancellationStep(o))
           /\ WF_orderVars(\E a \in {"applied", "refused"} : ReserveEnds(o, a))
           /\ WF_orderVars(\E a \in {"applied", "refused"} : ReleaseEnds(o, a))
           /\ WF_orderVars(\E a \in {"applied", "refused"} : PaymentEnds(o, a))
    /\ \A d \in Desks : WF_orderVars(DeskStep(d))

FairOrdersSpec == OrdersSpec /\ OrdersFairness

-----------------------------------------------------------------------------
(***************************************************************************)
(* Properties.                                                             *)
(***************************************************************************)

\* A complete handler whose UPDATE affected the row and which has not ended.
Settling(d, o) ==
    desk[d].order = o /\ desk[d].pc \in {"settled", "billing", "billed"}

Published(subject, o) ==
    \E e \in stream : e.subject = subject /\ e.order = o

\* Settling an order and cancelling it by its customer exclude each other: the
\* stock of a cancelled order is never given back for an order that was also
\* paid for, however the desk's load and update interleave with the
\* customer's transaction.
CancelExcludesSettle ==
    \A o \in Orders : cancelling[o] # "idle" =>
        /\ status[o] = "CANCELLED"
        /\ payment[o] = "NONE"
        /\ \A d \in Desks : ~Settling(d, o)

\* Of all the complete requests for one order a single one gets through, so
\* billing is asked once and at most one order.completed is ever published.
SettledOnce ==
    \A o \in Orders :
        /\ \A d1, d2 \in Desks :
               Settling(d1, o) /\ Settling(d2, o) => d1 = d2
        /\ \A d \in Desks :
               Settling(d, o) => ~Published("order.completed", o)
        /\ \A e1, e2 \in stream :
               /\ e1.order = o /\ e1.subject = "order.completed"
               /\ e2.order = o /\ e2.subject = "order.completed"
               => e1 = e2

\* A customer gets 201, and order.placed is published, only for an order whose
\* stock inventory-service has taken, whatever was lost or timed out.
PlacedMeansReserved ==
    \A o \in Orders :
        placing[o] \in {"reserved", "created"} \/ Published("order.placed", o)
            => reserveCall[o] = "applied"

\* The events of an order never contradict each other or the tables: consumers
\* see order.completed only for a settled order, order.cancelled only for one
\* its customer cancelled, and never both.
EventsTellTheTruth ==
    \A o \in Orders :
        /\ Published("order.completed", o) => payment[o] # "NONE"
        /\ Published("order.cancelled", o) =>
               status[o] = "CANCELLED" /\ payment[o] = "NONE"
        /\ ~(Published("order.completed", o) /\ Published("order.cancelled", o))

\* The handlers implement the abstract life of an order: a placement is open
\* until Reserve has returned, and nothing but an open placement that fails
\* ever takes an order out of COMPLETED or CANCELLED.
Lifecycle == INSTANCE OrderLifecycle WITH
    phase <- status,
    open  <- [o \in Orders |-> placing[o] = "reserving"]
LifecycleSpec == Lifecycle!Spec

\* Every request is answered: a handler waiting for another service gets an
\* answer or gives up, however many calls are lost.
RequestsEnd ==
    /\ \A o \in Orders :
           /\ placing[o] = "reserving" ~>
                  placing[o] \in {"created", "rejected", "died"}
           /\ cancelling[o] = "releasing" ~> cancelling[o] \in {"done", "died"}
    /\ \A d \in Desks : desk[d].pc = "loaded" ~> desk[d].pc = "idle"
=============================================================================
