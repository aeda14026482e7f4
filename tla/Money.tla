-------------------------------- MODULE Money --------------------------------
(***************************************************************************)
(* From the order desk to the dashboard: order-service settles orders and  *)
(* posts the payments (Orders.tla), billing-service keeps the debts        *)
(* (Billing.tla), and report-service builds its figures from the events of *)
(* both (Report.tla).                                                      *)
(*                                                                         *)
(* Stock is not part of this composition: inventory-service answers        *)
(* reserve and release either way.                                         *)
(***************************************************************************)
EXTENDS Orders, Billing, Report

CONSTANT Fee  \* delivery_fee of each order

ASSUME MoneyAssumption == Fee \in [Orders -> Nat]

vars == <<orderVars, billingVars, reportVars>>

TypeOK == OrdersTypeOK /\ BillingTypeOK /\ ReportTypeOK

Init == OrdersInit /\ BillingInit /\ ReportInit

\* orders.total
Total(o) == Revenue(cart[o]) + Fee[o]

\* handleListDebts: what the admin sees in the list of debts.
Outstanding == SumFunction(debts)

-----------------------------------------------------------------------------
(***************************************************************************)
(* billing-service serves the calls of order-service.                      *)
(***************************************************************************)
ServePayment(o) ==
    /\ billingCall[o] = "sent"
    /\ \E paid \in 0 .. Total(o) :
           RecordPayment(o, payment[o], Total(o), paid)
    /\ UNCHANGED <<orderVars, reportVars>>

\* The answer is sent after the events.
AnswerPayment(o) ==
    /\ \E b \in announcing :
           /\ b.order = o
           /\ AnnounceDebt(b) \/ (Unreliable /\ AnnounceFails(b))
    /\ \/ PaymentEnds(o, "applied")
       \/ billingCall[o] # "sent" /\ UNCHANGED orderVars
    /\ UNCHANGED reportVars

\* An order of products and delivery for nothing.
RefusePayment(o) ==
    /\ Total(o) = 0
    /\ PaymentEnds(o, "refused")
    /\ UNCHANGED <<billingVars, reportVars>>

\* Someone posts the payment of an order again.
PostAgain(o) == RepeatPayment(o) /\ UNCHANGED <<orderVars, reportVars>>

BillingNext ==
    \E o \in Orders :
        ServePayment(o) \/ AnswerPayment(o) \/ RefusePayment(o) \/ PostAgain(o)

-----------------------------------------------------------------------------
(***************************************************************************)
(* JetStream delivers to report-service, at least once and in the order of *)
(* publication until something fails: a message that was not acknowledged  *)
(* comes again after later ones.  For the streams of orders the order      *)
(* between different orders makes no difference and is left open.          *)
(***************************************************************************)
DeliverPlaced(o) ==
    /\ Published("order.placed", o)
    /\ \E day \in Days : ApplyOrderPlaced(o, day)
    /\ UNCHANGED <<orderVars, billingVars>>

DeliverCompleted(o) ==
    /\ \E e \in stream, day \in Days :
           /\ e.subject = "order.completed" /\ e.order = o
           /\ ApplyOrderCompleted(o, day, cart[o], e.cogs, Total(o))
    /\ UNCHANGED <<orderVars, billingVars>>

DeliverDebt(n) ==
    /\ Unreliable \/ \A k \in 1 .. n - 1 : DebtUpdated(k) \in seen
    /\ ApplyDebtUpdated(n, billingStream[n].customer, billingStream[n].balance)
    /\ UNCHANGED <<orderVars, billingVars>>

ReportNext ==
    \/ \E o \in Orders : DeliverPlaced(o) \/ DeliverCompleted(o)
    \/ \E n \in DOMAIN billingStream : DeliverDebt(n)

-----------------------------------------------------------------------------
\* inventory-service, and calls that get lost.
StockAnswers(o) ==
    /\ \/ \E outcome \in {"applied", "refused"} :
              ReserveEnds(o, outcome) \/ ReleaseEnds(o, outcome)
       \/ CallLost(o)
    /\ UNCHANGED <<billingVars, reportVars>>

Next ==
    \/ ServiceNext /\ UNCHANGED <<billingVars, reportVars>>
    \/ BillingNext
    \/ ReportNext
    \/ \E o \in Orders : StockAnswers(o)

Spec == Init /\ [][Next]_vars

(***************************************************************************)
(* Fairness: handlers go on, billing-service works on what it has received *)
(* and JetStream delivers what it holds.                                   *)
(***************************************************************************)
Fairness ==
    /\ \A d \in Desks :
           WF_vars(DeskStep(d) /\ UNCHANGED <<billingVars, reportVars>>)
    /\ \A o \in Orders :
           /\ WF_vars(ServePayment(o))
           /\ WF_vars(AnswerPayment(o))
           /\ WF_vars(RefusePayment(o))
           /\ WF_vars(DeliverPlaced(o))
           /\ WF_vars(DeliverCompleted(o))
    /\ WF_vars(\E n \in DOMAIN billingStream : DeliverDebt(n))

FairSpec == Spec /\ Fairness

-----------------------------------------------------------------------------
(***************************************************************************)
(* Properties.                                                             *)
(***************************************************************************)

\* Debts come from settled orders and from nothing else: what a customer owes
\* is what was left unpaid of the orders billing-service knows of, each counted
\* once however often its payment is posted, and each settled by the desk
\* with the payment type billed.  A cancelled order is never owed.
DebtsMatchOrders ==
    /\ \A p \in payments :
           /\ status[p.order] = "COMPLETED" /\ payment[p.order] = p.type
           /\ p.due = Total(p.order)
    /\ \A c \in Customers :
           debts[c] = SumFunction([o \in {x \in Orders : Owner[x] = c} |->
               SumFunction([p \in {q \in payments : q.order = o} |->
                   p.due - p.paid])])

\* The statistics count each order once under every redelivery, whichever day
\* it falls on, and the profit is what was sold less what it cost: revenue,
\* cost, fee and number of the days add up to the orders counted, and only
\* settled orders are counted.
StatsMatchOrders ==
    LET counted == {o \in Orders : OrderCompleted(o) \in seen}
        all(f)  == Summary(Days, f)
        sum(g)  == SumFunctionOnSet(g, counted)
    IN  /\ \A o \in counted : payment[o] # "NONE"
        /\ all("completed") = Cardinality(counted)
        /\ all("revenue") = sum([o \in Orders |-> Revenue(cart[o])])
        /\ all("fee") = sum([o \in Orders |-> Fee[o]])
        /\ all("cogs") = sum([o \in Orders |-> Cogs(cart[o], costed[o])])
        /\ all("profit") = all("revenue") - all("cogs")

\* Nothing about debts is under way any more.
DebtsQuiet ==
    /\ announcing = {}
    /\ \A n \in DOMAIN billingStream : DebtUpdated(n) \in seen

\* docs/architecture.md:249: debts and dashboard agree eventually.  Once every
\* announcement has been published and consumed, the total on the dashboard
\* is what the customers owe.
DebtTotalSettles == DebtsQuiet => debtTotal = Outstanding

\* A payment that reaches billing-service is recorded or refused, even when
\* order-service has given up on it or crashed, and a settled order whose event
\* reached the stream is counted, whether or not order.placed got there.
FiguresCatchUp ==
    \A o \in Orders :
        /\ billingCall[o] = "sent" ~>
               Recorded(o) \/ billingCall[o] \in {"refused", "lost"}
        /\ Published("order.completed", o) ~> OrderCompleted(o) \in seen
=============================================================================
