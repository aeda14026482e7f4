---------------------------- MODULE Money_proofs ----------------------------
(***************************************************************************)
(* Proofs about Money.tla, for every set of orders, desks, products,       *)
(* customers and days.  Each theorem says which of EarlyAccess,            *)
(* Unreliable, crashes and a second desk it excludes.                      *)
(***************************************************************************)
EXTENDS Money, Orders_proofs, Sums

-----------------------------------------------------------------------------
(***************************************************************************)
(* To order-service, billing-service and inventory-service are callees     *)
(* that Orders.tla leaves open, and report-service is not there at all.    *)
(***************************************************************************)
\* What one step of the composition is: one of order-service and its callees
\* alone, one of billing-service on a payment, or one of report-service.
LEMMA StepsOfMoney ==
    ASSUME [Next]_vars
    PROVE  \/ [OrdersNext]_orderVars /\ UNCHANGED <<billingVars, reportVars>>
           \/ \E o \in Orders : ServePayment(o) \/ AnswerPayment(o)
           \/ ReportNext
<1>1. ASSUME NEW o \in Orders, RefusePayment(o)
      PROVE  OthersNext /\ UNCHANGED <<billingVars, reportVars>>
  BY <1>1 DEF RefusePayment, OthersNext
<1>2. ASSUME NEW o \in Orders, PostAgain(o)
      PROVE  UNCHANGED <<orderVars, billingVars, reportVars>>
  BY <1>2 DEF PostAgain, RepeatPayment
<1>3. ASSUME NEW o \in Orders, StockAnswers(o)
      PROVE  OthersNext /\ UNCHANGED <<billingVars, reportVars>>
  BY <1>3 DEF StockAnswers, OthersNext
<1>4. CASE UNCHANGED vars BY <1>4 DEF vars
<1> QED BY <1>1, <1>2, <1>3, <1>4 DEF Next, BillingNext, OrdersNext

\* billing-service answers a call or leaves order-service alone.
LEMMA AnswerOfOrders ==
    ASSUME NEW o \in Orders, AnswerPayment(o)
    PROVE  \/ PaymentEnds(o, "applied")
           \/ billingCall[o] # "sent" /\ UNCHANGED orderVars
  BY DEF AnswerPayment

LEMMA StepOfOrders == [Next]_vars => [OrdersNext]_orderVars
<1> SUFFICES ASSUME [Next]_vars PROVE [OrdersNext]_orderVars
  OBVIOUS
<1>1. ASSUME NEW o \in Orders, ServePayment(o) PROVE UNCHANGED orderVars
  BY <1>1 DEF ServePayment
<1>2. ASSUME NEW o \in Orders, AnswerPayment(o)
      PROVE  [OrdersNext]_orderVars
  BY <1>2, AnswerOfOrders DEF OrdersNext, OthersNext
<1>3. ASSUME ReportNext PROVE UNCHANGED orderVars
  BY <1>3 DEF ReportNext, DeliverPlaced, DeliverCompleted, DeliverDebt
<1> QED BY <1>1, <1>2, <1>3, StepsOfMoney

\* So what is proved about Orders.tla holds in this composition too.
THEOREM RefinesOrders == Spec => OrdersSpec
<1> QED BY StepOfOrders, PTL DEF Spec, Init, OrdersSpec

\* The orders that are billed and counted live the life OrderLifecycle
\* describes.
THEOREM KeepsLifecycle == Spec => LifecycleSpec
<1> QED BY RefinesOrders, ImplementsLifecycle

LEMMA OrdersInvariance == Spec => []IInv
<1> QED BY RefinesOrders, Invariance, PTL

-----------------------------------------------------------------------------
(***************************************************************************)
(* What billing and statistics read of an order does not change any more   *)
(* once the order is settled, and only settled orders are billed.          *)
(***************************************************************************)
LEMMA SettledStays ==
    ASSUME IInv, [OrdersNext]_orderVars, NEW o \in Orders, payment[o] # "NONE"
    PROVE  payment'[o] = payment[o] /\ cart'[o] = cart[o]
<1> USE DEF IInv, OrdersTypeOK, tables, calls
<1>1. ASSUME NEW q \in Orders, CreateOrder(q) PROVE o # q
  BY <1>1 DEF CreateOrder, StatusAgrees
<1>2. ASSUME NEW d \in Desks, SettleOrder(d) PROVE o # desk[d].order
  BY <1>2 DEF SettleOrder, StatusAgrees
<1>3. ASSUME NEW q \in Orders, CreateOrder(q)
      PROVE  payment'[o] = payment[o] /\ cart'[o] = cart[o]
  BY <1>1, <1>3 DEF CreateOrder
<1>4. ASSUME NEW d \in Desks, SettleOrder(d)
      PROVE  payment'[o] = payment[o] /\ cart'[o] = cart[o]
  BY <1>2, <1>4 DEF SettleOrder
<1>5. ASSUME NEW q \in Orders,
             PlacementStep(q) \/ CancelMyOrder(q) \/ CancellationStep(q)
      PROVE  UNCHANGED <<payment, cart>>
  BY <1>5 DEF PlacementStep, CallReserve, ReserveSucceeded,
              StoreItemCost, ReserveFailed, PublishOrderPlaced,
              CancelMyOrder, CancellationStep, CallRelease,
              ReleaseReturned, PublishOrderCancelled
<1>6. ASSUME NEW d \in Desks,
             \/ \E q \in Orders : LoadOrder(d, q)
             \/ DeskStep(d) /\ ~SettleOrder(d)
      PROVE  UNCHANGED <<payment, cart>>
  BY <1>6 DEF LoadOrder, DeskStep, SettleConflict, PostPayment,
              LoadItemsFailed, PaymentReturned, PublishOrderCompleted
<1>7. ASSUME OrderServiceCrash PROVE UNCHANGED <<payment, cart>>
  BY <1>7 DEF OrderServiceCrash
<1>8. ASSUME OthersNext PROVE UNCHANGED <<payment, cart>>
  BY <1>8 DEF OthersNext, CallLost, ReserveEnds, ReleaseEnds, PaymentEnds
<1>9. ASSUME UNCHANGED orderVars PROVE UNCHANGED <<payment, cart>>
  BY <1>9 DEF orderVars
<1> HIDE DEF IInv, OrdersTypeOK, tables, calls
<1> QED BY <1>3, <1>4, <1>5, <1>6, <1>7, <1>8, <1>9
        DEF OrdersNext, ServiceNext

\* The payment of an order is posted after the order was settled.
BilledSettled == \A o \in Orders : billingCall[o] # "none" => payment[o] # "NONE"

LEMMA NextKeepsBilled ==
    ASSUME IInv, BilledSettled, [OrdersNext]_orderVars
    PROVE  BilledSettled'
<1> USE DEF IInv, OrdersTypeOK, BilledSettled
<1>1. \A o \in Orders : billingCall'[o] # "none" /\ billingCall[o] = "none"
          => payment[o] # "NONE"
  <2>1. ASSUME NEW d \in Desks, PostPayment(d)
        PROVE  \A o \in Orders : billingCall'[o] # billingCall[o]
                   => payment[o] # "NONE"
    BY <2>1 DEF PostPayment, DesksAgree
  <2>2. ASSUME NEW q \in Orders, NEW a, PaymentEnds(q, a)
        PROVE  \A o \in Orders : billingCall'[o] # billingCall[o]
                   => billingCall[o] = "sent"
    BY <2>2 DEF PaymentEnds
  <2>3. ASSUME NEW q \in Orders,
               \/ CreateOrder(q) \/ PlacementStep(q)
               \/ CancelMyOrder(q) \/ CancellationStep(q)
        PROVE  UNCHANGED billingCall
    BY <2>3 DEF CreateOrder, PlacementStep, CallReserve, ReserveSucceeded,
                StoreItemCost, ReserveFailed, PublishOrderPlaced,
                CancelMyOrder, CancellationStep, CallRelease,
                ReleaseReturned, PublishOrderCancelled, calls
  <2>4. ASSUME NEW d \in Desks,
               \/ \E q \in Orders : LoadOrder(d, q)
               \/ DeskStep(d) /\ ~PostPayment(d)
        PROVE  UNCHANGED billingCall
    BY <2>4 DEF LoadOrder, DeskStep, SettleOrder, SettleConflict,
                LoadItemsFailed, PaymentReturned, PublishOrderCompleted, calls
  <2>5. ASSUME OrderServiceCrash PROVE UNCHANGED billingCall
    BY <2>5 DEF OrderServiceCrash, calls
  <2>6. ASSUME OthersNext
        PROVE  \/ UNCHANGED billingCall
               \/ \E q \in Orders, a \in {"applied", "refused", "lost"} :
                      PaymentEnds(q, a)
    BY <2>6 DEF OthersNext, CallLost, ReserveEnds, ReleaseEnds
  <2>7. ASSUME UNCHANGED orderVars PROVE UNCHANGED billingCall
    BY <2>7 DEF orderVars
  <2> HIDE DEF IInv, OrdersTypeOK, BilledSettled
  <2> QED BY <2>1, <2>2, <2>3, <2>4, <2>5, <2>6, <2>7
          DEF OrdersNext, ServiceNext
<1>2. \A o \in Orders : payment[o] # "NONE" => payment'[o] # "NONE"
  BY SettledStays
<1> HIDE DEF IInv, OrdersTypeOK
<1> QED BY <1>1, <1>2

-----------------------------------------------------------------------------
(***************************************************************************)
(* Amounts.                                                                *)
(***************************************************************************)
LEMMA RevenueType ==
    ASSUME NEW c \in [Products -> Nat] PROVE Revenue(c) \in Nat
<1> DEFINE f == [p \in Products |-> c[p] * Price[p]]
<1>1. \A p \in Products : f[p] \in Nat BY ReportAssumption
<1>2. DOMAIN f = Products OBVIOUS
<1>3. SumFunctionOnSet(f, Products) \in Nat
  <2> HIDE DEF f
  <2> QED BY <1>1, FiniteShop, SumType
<1> QED BY <1>2, <1>3 DEF Revenue, SumFunction

LEMMA CogsType ==
    ASSUME NEW c \in [Products -> Nat], NEW S \in SUBSET Products
    PROVE  Cogs(c, S) \in Nat
<1> DEFINE f == [p \in Products |-> c[p] * Cost[p]]
<1>1. \A p \in S : f[p] \in Nat BY ReportAssumption
<1>2. IsFiniteSet(S) BY FiniteShop, FS_Subset
<1>3. SumFunctionOnSet(f, S) \in Nat
  <2> HIDE DEF f
  <2> QED BY <1>1, <1>2, SumType
<1> QED BY <1>3 DEF Cogs

LEMMA CartType ==
    ASSUME OrdersTypeOK, NEW o \in Orders PROVE cart[o] \in [Products -> Nat]
  BY ShopAssumption DEF OrdersTypeOK

LEMMA TotalType ==
    ASSUME OrdersTypeOK, NEW o \in Orders
    PROVE  Revenue(cart[o]) \in Nat /\ Fee[o] \in Nat /\ Total(o) \in Nat
<1>1. Revenue(cart[o]) \in Nat BY CartType, RevenueType
<1> QED BY <1>1, MoneyAssumption DEF Total

\* A settled order keeps its total.
LEMMA TotalStays ==
    ASSUME IInv, [OrdersNext]_orderVars, NEW o \in Orders, payment[o] # "NONE"
    PROVE  Total(o)' = Total(o)
  BY SettledStays DEF Total

-----------------------------------------------------------------------------
(***************************************************************************)
(* What recordPayment does with a payment that reaches it.                 *)
(***************************************************************************)
\* It is one of a settled order with the payment type the desk wrote, and
\* leaves nothing or something of the order's total unpaid.
Posted(o, paid) ==
    /\ paid \in Nat /\ Total(o) \in Nat /\ paid <= Total(o)
    /\ payment[o] \in Methods
    /\ RecordPayment(o, payment[o], Total(o), paid)

LEMMA PaymentPosted ==
    ASSUME IInv, BilledSettled, NEW o \in Orders, ServePayment(o)
    PROVE  \E paid : Posted(o, paid)
<1>1. PICK paid \in 0 .. Total(o) : RecordPayment(o, payment[o], Total(o), paid)
  BY DEF ServePayment
<1>2. payment[o] \in Methods
  BY DEF ServePayment, BilledSettled, IInv, OrdersTypeOK, PaymentTypes, Methods
<1>3. Total(o) \in Nat BY TotalType DEF IInv
<1> QED BY <1>1, <1>2, <1>3 DEF Posted

\* What a customer owes grows by what is left unpaid, and no other debt
\* changes; the row of the payment and the announcement say the same.
LEMMA PostedAdds ==
    ASSUME BillingTypeOK, NEW o \in Orders, NEW paid, Posted(o, paid)
    PROVE  LET c     == Owner[o]
               delta == Total(o) - paid
               row   == [order |-> o, type |-> payment[o],
                         due |-> Total(o), paid |-> paid]
               debtRow == [order |-> o, delta |-> delta, after |-> debts'[c]]
               b     == [order |-> o, customer |-> c, balance |-> debts'[c]]
           IN  /\ c \in Customers /\ delta \in Nat
               /\ row \in Payments /\ debtRow \in DebtRows /\ b \in Balances
               /\ ~Recorded(o)
               /\ payments' = payments \cup {row}
               /\ debts' \in [Customers -> Nat]
               /\ debts'[c] = debts[c] + delta
               /\ \A e \in Customers \ {c} : debts'[e] = debts[e]
               /\ debtLedger' = IF delta = 0 THEN debtLedger ELSE
                      [debtLedger EXCEPT ![c] = Append(debtLedger[c], debtRow)]
               /\ announcing' = announcing \cup {b}
               /\ billingStream' = billingStream
<1> DEFINE c == Owner[o]
           delta == Total(o) - paid
<1>1. c \in Customers /\ delta \in Nat BY AccountsAssumption DEF Posted
<1>2. /\ debts' \in [Customers -> Nat]
      /\ debts'[c] = debts[c] + delta
      /\ \A e \in Customers \ {c} : debts'[e] = debts[e]
  BY <1>1 DEF Posted, RecordPayment, BillingTypeOK
<1>3. debtLedger' = IF delta = 0 THEN debtLedger ELSE
          [debtLedger EXCEPT ![c] = Append(debtLedger[c],
              [order |-> o, delta |-> delta, after |-> debts'[c]])]
  BY <1>1 DEF Posted, RecordPayment, BillingTypeOK
<1>4. [order |-> o, type |-> payment[o], due |-> Total(o), paid |-> paid]
          \in Payments
  BY DEF Posted, Payments
<1>5. /\ [order |-> o, delta |-> delta, after |-> debts'[c]] \in DebtRows
      /\ [order |-> o, customer |-> c, balance |-> debts'[c]] \in Balances
  BY <1>1, <1>2 DEF DebtRows, Balances
<1> QED BY <1>1, <1>2, <1>3, <1>4, <1>5 DEF Posted, RecordPayment

-----------------------------------------------------------------------------
(***************************************************************************)
(* The tables of billing-service.                                          *)
(***************************************************************************)
LEMMA PostedKeepsTypes ==
    ASSUME BillingTypeOK, NEW o \in Orders, NEW paid, Posted(o, paid)
    PROVE  BillingTypeOK'
<1> DEFINE c == Owner[o]
           r == [order |-> o, delta |-> Total(o) - paid, after |-> debts'[c]]
           row == [order |-> o, type |-> payment[o], due |-> Total(o),
                   paid |-> paid]
           b == [order |-> o, customer |-> c, balance |-> debts'[c]]
<1>1. payments' \subseteq Payments /\ announcing' \subseteq Balances
  <2>1. /\ row \in Payments /\ b \in Balances
        /\ payments' = payments \cup {row} /\ announcing' = announcing \cup {b}
    BY PostedAdds
  <2> HIDE DEF row, b
  <2> QED BY <2>1 DEF BillingTypeOK
<1>2. debts' \in [Customers -> Nat] /\ billingStream' \in Seq(Balances)
  BY PostedAdds DEF BillingTypeOK
<1>3. /\ c \in Customers /\ r \in DebtRows
      /\ debtLedger' = debtLedger
             \/ debtLedger' = [debtLedger EXCEPT ![c] = Append(debtLedger[c], r)]
  BY PostedAdds
<1>4. debtLedger' \in [Customers -> Seq(DebtRows)]
  <2> HIDE DEF c, r
  <2>1. debtLedger[c] \in Seq(DebtRows) BY <1>3 DEF BillingTypeOK
  <2>2. Append(debtLedger[c], r) \in Seq(DebtRows) BY <1>3, <2>1
  <2> QED BY <1>3, <2>2 DEF BillingTypeOK
<1> QED BY <1>1, <1>2, <1>4 DEF BillingTypeOK

\* What publishing a balance, or failing to, does.
LEMMA AnswerAnnounces ==
    ASSUME BillingTypeOK, NEW o \in Orders, AnswerPayment(o)
    PROVE  \E b \in announcing :
               /\ b.order = o /\ b \in Balances
               /\ announcing' = announcing \ {b}
               /\ UNCHANGED <<payments, debts, debtLedger, reportVars>>
               /\ \/ billingStream' = Append(billingStream, b)
                  \/ Unreliable /\ billingStream' = billingStream
  BY DEF AnswerPayment, AnnounceDebt, AnnounceFails, BillingTypeOK

LEMMA AnswerKeepsTypes ==
    ASSUME BillingTypeOK, NEW o \in Orders, AnswerPayment(o)
    PROVE  BillingTypeOK'
<1>1. PICK b \in announcing :
          /\ b \in Balances /\ announcing' = announcing \ {b}
          /\ UNCHANGED <<payments, debts, debtLedger>>
          /\ \/ billingStream' = Append(billingStream, b)
             \/ billingStream' = billingStream
  BY AnswerAnnounces
<1>2. billingStream' \in Seq(Balances) BY <1>1 DEF BillingTypeOK
<1> QED BY <1>1, <1>2 DEF BillingTypeOK

-----------------------------------------------------------------------------
(***************************************************************************)
(* The ledger of debts.                                                    *)
(***************************************************************************)
\* DebtLedgerAgrees for the rows and the balance of one customer.
Explains(rows, balance) ==
    LET before(i) == IF i = 1 THEN 0 ELSE rows[i - 1].after
    IN  /\ \A i \in DOMAIN rows : rows[i].after = before(i) + rows[i].delta
        /\ balance = before(Len(rows) + 1)

\* A row that starts from the last balance goes on explaining it.
LEMMA AppendExplains ==
    ASSUME NEW rows \in Seq(DebtRows), NEW balance \in Nat,
           Explains(rows, balance),
           NEW r \in DebtRows, r.after = balance + r.delta
    PROVE  Explains(Append(rows, r), r.after)
<1> DEFINE longer == Append(rows, r)
<1>1. /\ Len(rows) \in Nat /\ Len(longer) = Len(rows) + 1
      /\ DOMAIN rows = 1 .. Len(rows) /\ DOMAIN longer = 1 .. Len(rows) + 1
      /\ \A i \in 1 .. Len(rows) : longer[i] = rows[i]
      /\ longer[Len(rows) + 1] = r
  OBVIOUS
<1> HIDE DEF longer
<1> QED BY <1>1 DEF Explains

LEMMA PostedKeepsLedger ==
    ASSUME BillingTypeOK, DebtLedgerAgrees,
           NEW o \in Orders, NEW paid, Posted(o, paid)
    PROVE  DebtLedgerAgrees'
<1> DEFINE c == Owner[o]
           delta == Total(o) - paid
           r == [order |-> o, delta |-> delta, after |-> debts'[c]]
<1>1. /\ c \in Customers /\ delta \in Nat /\ r \in DebtRows
      /\ debts'[c] = debts[c] + delta
      /\ \A e \in Customers \ {c} : debts'[e] = debts[e]
      /\ debtLedger' = IF delta = 0 THEN debtLedger ELSE
             [debtLedger EXCEPT ![c] = Append(debtLedger[c], r)]
  BY PostedAdds
<1>2. r.after = debts'[c] /\ r.delta = delta OBVIOUS
<1> HIDE DEF c, delta, r
<1>3. \A e \in Customers : Explains(debtLedger[e], debts[e])
  BY DEF DebtLedgerAgrees, Explains
<1>4. debts[c] \in Nat /\ debtLedger[c] \in Seq(DebtRows)
  BY <1>1 DEF BillingTypeOK
<1>5. Explains(debtLedger'[c], debts'[c])
  <2>1. CASE delta = 0 BY <1>1, <1>3, <1>4, <2>1
  <2>2. CASE delta # 0
    <3>1. debtLedger'[c] = Append(debtLedger[c], r)
      BY <1>1, <2>2 DEF BillingTypeOK
    <3>2. Explains(Append(debtLedger[c], r), r.after)
      BY <1>1, <1>2, <1>3, <1>4, AppendExplains
    <3> QED BY <1>2, <3>1, <3>2
  <2> QED BY <2>1, <2>2
<1>6. ASSUME NEW e \in Customers, e # c
      PROVE  Explains(debtLedger'[e], debts'[e])
  <2>1. debtLedger'[e] = debtLedger[e] BY <1>1, <1>6 DEF BillingTypeOK
  <2>2. debts'[e] = debts[e] BY <1>1, <1>6
  <2> QED BY <1>3, <2>1, <2>2
<1> QED BY <1>5, <1>6 DEF DebtLedgerAgrees, Explains

-----------------------------------------------------------------------------
(***************************************************************************)
(* What is owed.  Owed and OrdersOf name the sums of DebtsMatchOrders.     *)
(***************************************************************************)
PaymentsOf(o) == {q \in payments : q.order = o}
Unpaid(S)     == SumFunction([p \in S |-> p.due - p.paid])
OrdersOf(c)   == {x \in Orders : Owner[x] = c}
DebtOf(c)     == SumFunction([o \in OrdersOf(c) |-> Unpaid(PaymentsOf(o))])

\* billing-service has recorded payments of settled orders only, with the
\* order's total and payment type, and the debts are what they leave unpaid.
PaymentsAgree ==
    /\ IsFiniteSet(payments)
    /\ \A p \in payments :
           /\ payment[p.order] = p.type
           /\ p.due = Total(p.order)

DebtsAddUp == \A c \in Customers : debts[c] = DebtOf(c)

LEMMA UnpaidType ==
    ASSUME NEW S, IsFiniteSet(S), S \subseteq Payments
    PROVE  Unpaid(S) \in Int
<1> DEFINE f == [p \in S |-> p.due - p.paid]
<1>1. \A p \in S : f[p] \in Int BY DEF Payments
<1>2. DOMAIN f = S OBVIOUS
<1> HIDE DEF f
<1>3. SumFunctionOnSet(f, S) \in Int BY <1>1, SumType
<1> QED BY <1>2, <1>3 DEF Unpaid, SumFunction, f

LEMMA UnpaidOfNone == Unpaid({}) = 0
<1> DEFINE f == [p \in {} |-> p.due - p.paid]
<1>1. DOMAIN f = {} OBVIOUS
<1> HIDE DEF f
<1> QED BY <1>1, SumOfNone DEF Unpaid, SumFunction, f

LEMMA UnpaidOfOne ==
    ASSUME NEW p \in Payments PROVE Unpaid({p}) = p.due - p.paid
<1> DEFINE f == [x \in {p} |-> x.due - x.paid]
<1>1. DOMAIN f = {p} /\ f[p] = p.due - p.paid /\ f[p] \in Int
  BY DEF Payments
<1>2. IsFiniteSet({p}) BY FS_Singleton
<1>3. {p} \ {p} = {} OBVIOUS
<1>4. Unpaid({p}) = SumFunctionOnSet(f, DOMAIN f) BY DEF Unpaid, SumFunction
<1> HIDE DEF f
<1>5. SumFunctionOnSet(f, {p}) = f[p] + SumFunctionOnSet(f, {})
  BY <1>1, <1>2, <1>3, SumWithout
<1> QED BY <1>1, <1>4, <1>5, SumOfNone

\* A payment adds what it leaves unpaid to the debt of the order's customer.
LEMMA PostedKeepsDebts ==
    ASSUME BillingTypeOK, PaymentsAgree, DebtsAddUp,
           NEW o \in Orders, NEW paid, Posted(o, paid), UNCHANGED orderVars
    PROVE  PaymentsAgree' /\ DebtsAddUp'
<1> DEFINE c == Owner[o]
           delta == Total(o) - paid
           row == [order |-> o, type |-> payment[o], due |-> Total(o),
                   paid |-> paid]
<1>1. /\ c \in Customers /\ delta \in Nat /\ row \in Payments
      /\ ~Recorded(o) /\ payments' = payments \cup {row}
      /\ debts'[c] = debts[c] + delta
      /\ \A e \in Customers \ {c} : debts'[e] = debts[e]
  BY PostedAdds
<1>2. /\ row.order = o /\ row.type = payment[o] /\ row.due = Total(o)
      /\ row.due - row.paid = delta
  OBVIOUS
<1> HIDE DEF row, delta
<1>3. UNCHANGED <<payment, cart>> BY DEF orderVars
<1>4. PaymentsAgree'
  <2>1. IsFiniteSet(payments') BY <1>1, FS_AddElement DEF PaymentsAgree
  <2>2. \A q \in Orders : Total(q)' = Total(q) BY <1>3 DEF Total
  <2>3. \A p \in payments' : p.order \in Orders
    BY <1>1 DEF BillingTypeOK, Payments
  <2> QED BY <1>1, <1>2, <1>3, <2>1, <2>2, <2>3 DEF PaymentsAgree
<1>5. Unpaid(PaymentsOf(o)) = 0 /\ Unpaid(PaymentsOf(o)') = delta
  <2>1. PaymentsOf(o) = {} BY <1>1 DEF PaymentsOf, Recorded
  <2>2. PaymentsOf(o)' = {row}
    BY <1>1, <1>2 DEF PaymentsOf, Recorded
  <2> QED BY <1>1, <1>2, <2>1, <2>2, UnpaidOfNone, UnpaidOfOne
<1>6. \A q \in Orders \ {o} : PaymentsOf(q)' = PaymentsOf(q)
  BY <1>1, <1>2 DEF PaymentsOf
<1>7. \A q \in Orders : Unpaid(PaymentsOf(q)) \in Int
  <2> SUFFICES ASSUME NEW q \in Orders
               PROVE  Unpaid(PaymentsOf(q)) \in Int
    OBVIOUS
  <2>1. PaymentsOf(q) \subseteq payments BY DEF PaymentsOf
  <2>2. IsFiniteSet(PaymentsOf(q)) BY <2>1, FS_Subset DEF PaymentsAgree
  <2> QED BY <2>1, <2>2, UnpaidType DEF BillingTypeOK
<1>8. ASSUME NEW e \in Customers \ {c} PROVE DebtOf(e)' = DebtOf(e)
  <2>1. \A q \in OrdersOf(e) : PaymentsOf(q)' = PaymentsOf(q)
    BY <1>6, <1>8 DEF OrdersOf
  <2>2. [q \in OrdersOf(e) |-> Unpaid(PaymentsOf(q)')] =
        [q \in OrdersOf(e) |-> Unpaid(PaymentsOf(q))]
    BY <2>1
  <2> QED BY <2>2 DEF DebtOf
<1>9. DebtOf(c)' = DebtOf(c) + delta
  <2> DEFINE f == [q \in OrdersOf(c) |-> Unpaid(PaymentsOf(q))]
             g == [q \in OrdersOf(c) |-> Unpaid(PaymentsOf(q)')]
  <2>1. o \in OrdersOf(c) /\ OrdersOf(c) \subseteq Orders BY DEF OrdersOf
  <2>2. IsFiniteSet(OrdersOf(c)) BY <2>1, FiniteShop, FS_Subset
  <2>3. \A q \in OrdersOf(c) : f[q] \in Int /\ g[q] \in Int
    <3>1. \A q \in Orders : Unpaid(PaymentsOf(q)') \in Int
      BY <1>1, <1>5, <1>6, <1>7
    <3> QED BY <1>7, <2>1, <3>1
  <2>4. \A q \in OrdersOf(c) \ {o} : g[q] = f[q] BY <1>6, <2>1
  <2>5. f[o] = 0 /\ g[o] = delta BY <1>5, <2>1
  <2>6. /\ DOMAIN f = OrdersOf(c) /\ DOMAIN g = OrdersOf(c)
        /\ DebtOf(c) = SumFunction(f) /\ DebtOf(c)' = SumFunction(g)
    BY DEF DebtOf
  <2> HIDE DEF f, g
  <2>7. SumFunctionOnSet(g, OrdersOf(c)) =
            SumFunctionOnSet(f, OrdersOf(c)) + (g[o] - f[o])
    BY <2>1, <2>2, <2>3, <2>4, SumChangedAt
  <2> QED BY <1>1, <2>5, <2>6, <2>7 DEF SumFunction
<1>10. DebtsAddUp'
  BY <1>1, <1>8, <1>9 DEF DebtsAddUp
<1> QED BY <1>4, <1>10

-----------------------------------------------------------------------------
(***************************************************************************)
(* The inductive invariant of billing-service.  DebtsMatchOrders does not  *)
(* survive a recording by itself: that the payment posted is the one of a  *)
(* settled order is known from BilledSettled alone, and that no later      *)
(* handler changes the order's lines from the invariant of Orders.tla.     *)
(***************************************************************************)
BillingInv ==
    /\ IInv /\ BillingTypeOK /\ BilledSettled
    /\ PaymentsAgree /\ DebtsAddUp /\ DebtLedgerAgrees

LEMMA InitBilling == Init => BillingInv
<1> SUFFICES ASSUME Init PROVE BillingInv
  OBVIOUS
<1>1. IInv BY InitInv DEF Init
<1>2. BillingTypeOK BY DEF Init, BillingInit, BillingTypeOK
<1>3. BilledSettled BY DEF Init, OrdersInit, BilledSettled
<1>4. PaymentsAgree BY FS_EmptySet DEF Init, BillingInit, PaymentsAgree
<1>5. DebtLedgerAgrees BY DEF Init, BillingInit, DebtLedgerAgrees
<1>6. DebtsAddUp
  <2> SUFFICES ASSUME NEW c \in Customers PROVE DebtOf(c) = 0
    BY DEF Init, BillingInit, DebtsAddUp
  <2> DEFINE f == [o \in OrdersOf(c) |-> Unpaid(PaymentsOf(o))]
  <2>1. \A o \in OrdersOf(c) : PaymentsOf(o) = {}
    BY DEF Init, BillingInit, PaymentsOf
  <2>2. \A o \in OrdersOf(c) : f[o] = 0 BY <2>1, UnpaidOfNone
  <2>3. IsFiniteSet(OrdersOf(c)) BY FiniteShop, FS_Subset DEF OrdersOf
  <2>4. DOMAIN f = OrdersOf(c) /\ DebtOf(c) = SumFunction(f) BY DEF DebtOf
  <2> HIDE DEF f
  <2> QED BY <2>2, <2>3, <2>4, SumOfZeros DEF SumFunction
<1> QED BY <1>1, <1>2, <1>3, <1>4, <1>5, <1>6 DEF BillingInv

\* A step that records no payment.
LEMMA UnrecordedKeepsBilling ==
    ASSUME BillingInv, [OrdersNext]_orderVars, BillingTypeOK',
           UNCHANGED <<payments, debts, debtLedger>>
    PROVE  BillingInv'
<1>1. IInv' BY NextKeepsInv DEF BillingInv
<1>2. BilledSettled' BY NextKeepsBilled DEF BillingInv
<1>3. PaymentsAgree'
  <2>1. ASSUME NEW p \in payments
        PROVE  payment'[p.order] = p.type /\ p.due = Total(p.order)'
    <3>1. p.order \in Orders /\ p.type # "NONE"
      BY DEF BillingInv, BillingTypeOK, Payments, Methods
    <3>2. payment[p.order] = p.type /\ p.due = Total(p.order)
      BY DEF BillingInv, PaymentsAgree
    <3> QED BY <3>1, <3>2, SettledStays, TotalStays DEF BillingInv
  <2> QED BY <2>1 DEF BillingInv, PaymentsAgree
<1>4. DebtsAddUp' BY DEF BillingInv, DebtsAddUp, DebtOf, PaymentsOf
<1>5. DebtLedgerAgrees' BY DEF BillingInv, DebtLedgerAgrees
<1> QED BY <1>1, <1>2, <1>3, <1>4, <1>5 DEF BillingInv

LEMMA NextKeepsBilling == BillingInv /\ [Next]_vars => BillingInv'
<1> SUFFICES ASSUME BillingInv, [Next]_vars PROVE BillingInv'
  OBVIOUS
<1>1. CASE \E o \in Orders : ServePayment(o)
  <2>1. PICK o \in Orders : ServePayment(o) BY <1>1
  <2>2. PICK paid : Posted(o, paid) BY <2>1, PaymentPosted DEF BillingInv
  <2>3. UNCHANGED orderVars BY <2>1 DEF ServePayment
  <2>4. BillingTypeOK' BY <2>2, PostedKeepsTypes DEF BillingInv
  <2>5. DebtLedgerAgrees' BY <2>2, PostedKeepsLedger DEF BillingInv
  <2>6. PaymentsAgree' /\ DebtsAddUp'
    BY <2>2, <2>3, PostedKeepsDebts DEF BillingInv
  <2>7. IInv' /\ BilledSettled'
    BY <2>3, NextKeepsInv, NextKeepsBilled DEF BillingInv
  <2> QED BY <2>4, <2>5, <2>6, <2>7 DEF BillingInv
<1>2. CASE \E o \in Orders : AnswerPayment(o)
  <2>1. PICK o \in Orders : AnswerPayment(o) BY <1>2
  <2>2. UNCHANGED <<payments, debts, debtLedger>>
    BY <2>1, AnswerAnnounces DEF BillingInv
  <2>3. BillingTypeOK' BY <2>1, AnswerKeepsTypes DEF BillingInv
  <2> QED BY <2>2, <2>3, StepOfOrders, UnrecordedKeepsBilling
<1>3. CASE UNCHANGED billingVars
  <2>1. BillingTypeOK' BY <1>3 DEF billingVars, BillingInv, BillingTypeOK
  <2> QED BY <1>3, <2>1, StepOfOrders, UnrecordedKeepsBilling DEF billingVars
<1>4. CASE ReportNext
  BY <1>3, <1>4 DEF ReportNext, DeliverPlaced, DeliverCompleted, DeliverDebt
<1> QED BY <1>1, <1>2, <1>3, <1>4, StepsOfMoney

LEMMA BillingInvariance == Spec => []BillingInv
<1> QED BY InitBilling, NextKeepsBilling, PTL DEF Spec

\* The ledger of debts explains every balance, in whatever order payments are
\* posted, repeated, lost or answered.
THEOREM LedgerExplainsDebts == Spec => []DebtLedgerAgrees
<1>1. BillingInv => DebtLedgerAgrees BY DEF BillingInv
<1> QED BY <1>1, BillingInvariance, PTL

\* When nobody touches an order before its placement has ended well, debts
\* come from settled orders alone.  Otherwise a placement that fails late takes
\* the order out of COMPLETED and its debt stays.
THEOREM DebtsAreOfOrders ==
    ASSUME ~EarlyAccess PROVE Spec => []DebtsMatchOrders
<1>1. BillingInv /\ PlacedFirst => DebtsMatchOrders
  <2> SUFFICES ASSUME BillingInv, PlacedFirst PROVE DebtsMatchOrders
    OBVIOUS
  <2>1. ASSUME NEW p \in payments
        PROVE  /\ status[p.order] = "COMPLETED" /\ payment[p.order] = p.type
               /\ p.due = Total(p.order)
    <3>1. p.order \in Orders /\ p.type # "NONE"
      BY DEF BillingInv, BillingTypeOK, Payments, Methods
    <3> QED BY <3>1 DEF BillingInv, PaymentsAgree, PlacedFirst
  <2>2. \A c \in Customers : debts[c] = DebtOf(c)
    BY DEF BillingInv, DebtsAddUp
  <2> QED BY <2>1, <2>2
          DEF DebtsMatchOrders, DebtOf, OrdersOf, Unpaid, PaymentsOf
<1> QED BY <1>1, BillingInvariance, RefinesOrders, PlacedInvariance, PTL

-----------------------------------------------------------------------------
(***************************************************************************)
(* The days of the statistics.                                             *)
(***************************************************************************)
Columns == {"revenue", "cogs", "fee", "completed", "placed"}

\* applyDailyStatsDeltaTx adds to each column of one day and leaves the others
\* alone; the profit is the one of the new figures.
LEMMA DayAdds ==
    ASSUME daily \in [Days -> DayStats], NEW day \in Days,
           NEW delta \in DayStats, AddToDay(day, delta)
    PROVE  /\ daily' \in [Days -> DayStats]
           /\ \A d \in Days \ {day} : daily'[d] = daily[d]
           /\ \A f \in Columns : daily'[day][f] = daily[day][f] + delta[f]
           /\ daily'[day].profit = daily'[day].revenue - daily'[day].cogs
<1> DEFINE sum == [f \in DOMAIN delta |-> daily[day][f] + delta[f]]
           new == [sum EXCEPT !.profit = sum.revenue - sum.cogs]
<1>1. daily' = [daily EXCEPT ![day] = new] BY DEF AddToDay
<1>2. DOMAIN delta = Columns \cup {"profit"} BY DEF DayStats, Columns
<1>3. /\ DOMAIN new = Columns \cup {"profit"}
      /\ \A f \in Columns : new[f] = daily[day][f] + delta[f]
      /\ new.profit = new.revenue - new.cogs
  BY <1>2 DEF Columns
<1> HIDE DEF new
<1>4. new \in DayStats
  <2> DEFINE row == [revenue |-> new.revenue, cogs |-> new.cogs,
                     fee |-> new.fee, profit |-> new.profit,
                     completed |-> new.completed, placed |-> new.placed]
  <2>1. daily[day] \in DayStats OBVIOUS
  <2>2. /\ new.revenue \in Nat /\ new.cogs \in Nat /\ new.fee \in Nat
        /\ new.completed \in Nat /\ new.placed \in Nat
    BY <1>3, <2>1 DEF DayStats, Columns
  <2>3. row \in DayStats BY <1>3, <2>2 DEF DayStats
  <2>4. new = row
    <3>1. new = [f \in Columns \cup {"profit"} |-> new[f]]
      BY <1>1, <1>3 DEF new
    <3>2. row = [f \in Columns \cup {"profit"} |-> new[f]]
      BY DEF Columns
    <3> QED BY <3>1, <3>2
  <2> QED BY <2>3, <2>4
<1> QED BY <1>1, <1>3, <1>4

\* What the dashboard sums up over all days grows by what was added to one.
LEMMA SummaryAdds ==
    ASSUME daily \in [Days -> DayStats], NEW day \in Days,
           NEW delta \in DayStats, AddToDay(day, delta), NEW f \in Columns
    PROVE  Summary(Days, f)' = Summary(Days, f) + delta[f]
<1> DEFINE old == [d \in Days |-> daily[d][f]]
           new == [d \in Days |-> daily'[d][f]]
<1>1. \A d \in Days : old[d] \in Nat /\ new[d] \in Nat
  <2>1. \A r \in DayStats : r[f] \in Nat BY DEF DayStats, Columns
  <2>2. daily' \in [Days -> DayStats] BY DayAdds
  <2> QED BY <2>1, <2>2
<1>2. \A d \in Days \ {day} : new[d] = old[d] BY DayAdds
<1>3. new[day] = old[day] + delta[f] BY DayAdds
<1>4. delta[f] \in Nat BY DEF DayStats, Columns
<1>5. Summary(Days, f) = SumFunctionOnSet(old, Days) /\
      Summary(Days, f)' = SumFunctionOnSet(new, Days)
  BY DEF Summary
<1> HIDE DEF old, new
<1>6. SumFunctionOnSet(new, Days) =
          SumFunctionOnSet(old, Days) + (new[day] - old[day])
  BY <1>1, <1>2, FiniteReport, SumChangedAt
<1>7. old[day] \in Int BY <1>1
<1> QED BY <1>3, <1>4, <1>5, <1>6, <1>7

LEMMA SummaryType ==
    ASSUME daily \in [Days -> DayStats], NEW f \in Columns
    PROVE  Summary(Days, f) \in Nat
<1> DEFINE g == [d \in Days |-> daily[d][f]]
<1>1. \A d \in Days : g[d] \in Nat
  <2>1. \A r \in DayStats : r[f] \in Nat BY DEF DayStats, Columns
  <2> QED BY <2>1
<1> HIDE DEF g
<1>2. SumFunctionOnSet(g, Days) \in Nat BY <1>1, FiniteReport, SumType
<1> QED BY <1>2 DEF Summary, g

\* The profit of all days is the profit of their sums.
ProfitOfDays == \A d \in Days : daily[d].profit = daily[d].revenue - daily[d].cogs

LEMMA SummaryOfProfit ==
    ASSUME daily \in [Days -> DayStats], ProfitOfDays
    PROVE  Summary(Days, "profit") =
               Summary(Days, "revenue") - Summary(Days, "cogs")
<1> DEFINE f == [d \in Days |-> daily[d]["profit"]]
           g == [d \in Days |-> daily[d]["revenue"]]
           h == [d \in Days |-> daily[d]["cogs"]]
<1>1. \A d \in Days : g[d] \in Int /\ h[d] \in Int /\ f[d] = g[d] - h[d]
  BY DEF ProfitOfDays, DayStats
<1>2. /\ Summary(Days, "profit") = SumFunctionOnSet(f, Days)
      /\ Summary(Days, "revenue") = SumFunctionOnSet(g, Days)
      /\ Summary(Days, "cogs") = SumFunctionOnSet(h, Days)
  BY DEF Summary
<1> HIDE DEF f, g, h
<1> QED BY <1>1, <1>2, FiniteReport, SumOfDifferences

-----------------------------------------------------------------------------
(***************************************************************************)
(* What the statistics count.  Only the cost needs more than a settled     *)
(* order: it is the stored one when nobody touches an order early.         *)
(***************************************************************************)
Counted == {o \in Orders : OrderCompleted(o) \in seen}

\* A column that adds up an amount of the counted orders.
AddsUp(column, amount) ==
    Summary(Days, column) = SumFunctionOnSet(amount, Counted)

Sales  == [o \in Orders |-> Revenue(cart[o])]
Fees   == [o \in Orders |-> Fee[o]]
Costs  == [o \in Orders |-> Cogs(cart[o], costed[o])]

StatsAgree ==
    /\ ProfitOfDays
    /\ \A o \in Counted : payment[o] # "NONE"
    /\ Summary(Days, "completed") = Cardinality(Counted)
    /\ AddsUp("revenue", Sales)
    /\ AddsUp("fee", Fees)

CostsAgree == AddsUp("cogs", Costs)

LEMMA AmountsAreNumbers ==
    ASSUME OrdersTypeOK
    PROVE  \A o \in Orders : Sales[o] \in Nat /\ Fees[o] \in Nat /\ Costs[o] \in Nat
<1> SUFFICES ASSUME NEW o \in Orders
             PROVE  Sales[o] \in Nat /\ Fees[o] \in Nat /\ Costs[o] \in Nat
  OBVIOUS
<1>1. cart[o] \in [Products -> Nat] /\ costed[o] \in SUBSET Products
  BY CartType DEF OrdersTypeOK
<1> QED BY <1>1, RevenueType, CogsType, MoneyAssumption DEF Sales, Fees, Costs

LEMMA CountedFinite == IsFiniteSet(Counted) /\ Counted \subseteq Orders
  BY FiniteShop, FS_Subset DEF Counted

\* A step that leaves the statistics alone: none of the counted orders changes
\* its lines or its payment type.
LEMMA UncountedKeepsStats ==
    ASSUME IInv, StatsAgree, [OrdersNext]_orderVars,
           UNCHANGED daily, Counted' = Counted
    PROVE  StatsAgree'
<1>1. \A o \in Counted : payment'[o] = payment[o] /\ cart'[o] = cart[o]
  BY SettledStays, CountedFinite DEF StatsAgree
<1>2. SumFunctionOnSet(Sales', Counted) = SumFunctionOnSet(Sales, Counted)
  <2>1. \A o \in Counted : Sales'[o] = Sales[o]
    BY <1>1, CountedFinite DEF Sales
  <2> QED BY <2>1, CountedFinite, SumSame
<1>3. \A f : Summary(Days, f)' = Summary(Days, f) BY DEF Summary
<1>4. ProfitOfDays' BY DEF ProfitOfDays, StatsAgree
<1>5. Fees' = Fees BY DEF Fees
<1> HIDE DEF ProfitOfDays
<1> QED BY <1>1, <1>2, <1>3, <1>4, <1>5 DEF StatsAgree, AddsUp

\* No cost of a settled order is stored any more.
LEMMA CostsStay ==
    ASSUME IInv, PlacedFirst, [OrdersNext]_orderVars,
           NEW o \in Orders, payment[o] # "NONE"
    PROVE  costed'[o] = costed[o]
<1>1. placing[o] = "created" BY DEF PlacedFirst
<1>2. ASSUME NEW q \in Orders, StoreItemCost(q) PROVE costed'[o] = costed[o]
  BY <1>1, <1>2 DEF StoreItemCost, IInv, OrdersTypeOK
<1>3. ASSUME NEW q \in Orders,
             \/ CreateOrder(q) \/ CallReserve(q) \/ ReserveSucceeded(q)
             \/ ReserveFailed(q) \/ PublishOrderPlaced(q)
             \/ CancelMyOrder(q) \/ CancellationStep(q)
      PROVE  UNCHANGED costed
  BY <1>3 DEF CreateOrder, CallReserve, ReserveSucceeded, ReserveFailed,
              PublishOrderPlaced, CancelMyOrder, CancellationStep, CallRelease,
              ReleaseReturned, PublishOrderCancelled, tables
<1>4. ASSUME NEW d \in Desks, DeskStep(d) \/ \E q \in Orders : LoadOrder(d, q)
      PROVE  UNCHANGED costed
  BY <1>4 DEF LoadOrder, DeskStep, SettleOrder, SettleConflict, PostPayment,
              LoadItemsFailed, PaymentReturned, PublishOrderCompleted, tables
<1>5. ASSUME OrderServiceCrash PROVE UNCHANGED costed
  BY <1>5 DEF OrderServiceCrash, tables
<1>6. ASSUME OthersNext PROVE UNCHANGED costed
  BY <1>6 DEF OthersNext, CallLost, ReserveEnds, ReleaseEnds, PaymentEnds,
              tables
<1>7. ASSUME UNCHANGED orderVars PROVE UNCHANGED costed
  BY <1>7 DEF orderVars
<1> QED BY <1>2, <1>3, <1>4, <1>5, <1>6, <1>7
        DEF OrdersNext, ServiceNext, PlacementStep

LEMMA UncountedKeepsCosts ==
    ASSUME IInv, PlacedFirst, StatsAgree, CostsAgree, [OrdersNext]_orderVars,
           UNCHANGED daily, Counted' = Counted
    PROVE  CostsAgree'
<1>1. \A o \in Counted : Costs'[o] = Costs[o]
  BY SettledStays, CostsStay, CountedFinite DEF StatsAgree, Costs
<1>2. SumFunctionOnSet(Costs', Counted) = SumFunctionOnSet(Costs, Counted)
  BY <1>1, CountedFinite, SumSame
<1>3. Summary(Days, "cogs")' = Summary(Days, "cogs") BY DEF Summary
<1> QED BY <1>2, <1>3 DEF CostsAgree, AddsUp

-----------------------------------------------------------------------------
(***************************************************************************)
(* report-service consumes an event.                                       *)
(***************************************************************************)
\* order.placed adds to a column that says nothing of the orders counted.
LEMMA PlacedKeepsReport ==
    ASSUME ReportTypeOK, StatsAgree, NEW o \in Orders, DeliverPlaced(o)
    PROVE  ReportTypeOK' /\ StatsAgree' /\ (CostsAgree => CostsAgree')
<1>1. PICK day \in Days : ApplyOrderPlaced(o, day) BY DEF DeliverPlaced
<1> DEFINE delta == [NoStats EXCEPT !.placed = 1]
<1>2. /\ delta \in DayStats /\ delta.revenue = 0 /\ delta.cogs = 0
      /\ delta.fee = 0 /\ delta.completed = 0
  BY DEF NoStats, DayStats
<1>3. AddToDay(day, delta) BY <1>1 DEF ApplyOrderPlaced
<1> HIDE DEF delta
<1>4. daily' \in [Days -> DayStats] /\ ProfitOfDays'
  BY <1>2, <1>3, DayAdds DEF ReportTypeOK, StatsAgree, ProfitOfDays
<1>5. \A f \in {"revenue", "cogs", "fee", "completed"} :
          Summary(Days, f)' = Summary(Days, f)
  BY <1>2, <1>3, SummaryAdds, SummaryType DEF ReportTypeOK, Columns
<1>6. Counted' = Counted
  BY <1>1 DEF ApplyOrderPlaced, Counted, OrderPlaced, OrderCompleted
<1>7. ReportTypeOK'
  BY <1>1, <1>4 DEF ApplyOrderPlaced, ReportTypeOK, OrderPlaced
<1>8. UNCHANGED orderVars BY DEF DeliverPlaced
<1>9. Sales' = Sales /\ Fees' = Fees /\ Costs' = Costs
  BY <1>8 DEF orderVars, Sales, Fees, Costs
<1>10. payment' = payment BY <1>8 DEF orderVars
<1>11. StatsAgree' BY <1>4, <1>5, <1>6, <1>9, <1>10 DEF StatsAgree, AddsUp
<1>12. CostsAgree => CostsAgree' BY <1>5, <1>6, <1>9 DEF CostsAgree, AddsUp
<1> QED BY <1>7, <1>11, <1>12

\* order.completed carries enough to recompute the delivery fee, which is all
\* of the total that is not revenue.
LEMMA FeeRecomputed ==
    ASSUME OrdersTypeOK, NEW o \in Orders
    PROVE  DeliveryFee(Total(o), Revenue(cart[o])) = Fee[o]
<1>1. Revenue(cart[o]) \in Nat /\ Fee[o] \in Nat BY TotalType
<1> QED BY <1>1 DEF DeliveryFee, Total

\* What an order adds to a day.
Sale(r, c, f) ==
    [NoStats EXCEPT !.revenue = r, !.cogs = c, !.fee = f, !.completed = 1]

LEMMA SaleOfOrder ==
    ASSUME NEW r \in Nat, NEW c \in Nat, NEW f \in Nat
    PROVE  /\ Sale(r, c, f) \in DayStats /\ Sale(r, c, f).completed = 1
           /\ Sale(r, c, f).revenue = r /\ Sale(r, c, f).cogs = c
           /\ Sale(r, c, f).fee = f
<1> DEFINE sale == [NoStats EXCEPT !.revenue = r, !.cogs = c, !.fee = f,
                                   !.completed = 1]
           row == [revenue |-> r, cogs |-> c, fee |-> f, profit |-> 0,
                   completed |-> 1, placed |-> 0]
<1>1. sale = row
  <2> DEFINE a == [NoStats EXCEPT !.revenue = r]
             b == [a EXCEPT !.cogs = c]
             d == [b EXCEPT !.fee = f]
             e == [d EXCEPT !.completed = 1]
  <2>1. sale = e OBVIOUS
  <2> HIDE DEF sale
  <2>2. a = [revenue |-> r, cogs |-> 0, fee |-> 0, profit |-> 0,
             completed |-> 0, placed |-> 0]
    BY DEF NoStats
  <2> HIDE DEF a
  <2>3. b = [revenue |-> r, cogs |-> c, fee |-> 0, profit |-> 0,
             completed |-> 0, placed |-> 0]
    BY <2>2
  <2> HIDE DEF b
  <2>4. d = [revenue |-> r, cogs |-> c, fee |-> f, profit |-> 0,
             completed |-> 0, placed |-> 0]
    BY <2>3
  <2> HIDE DEF d
  <2>5. e = row BY <2>4
  <2> QED BY <2>1, <2>5
<1>2. row \in DayStats BY DEF DayStats
<1>3. /\ row.revenue = r /\ row.cogs = c /\ row.fee = f /\ row.completed = 1
  OBVIOUS
<1> HIDE DEF sale, row
<1>4. /\ sale \in DayStats /\ sale.completed = 1
      /\ sale.revenue = r /\ sale.cogs = c /\ sale.fee = f
  BY <1>1, <1>2, <1>3
<1> QED BY <1>4 DEF sale, Sale

\* order.completed adds an order that was not counted before.
LEMMA CompletedKeepsReport ==
    ASSUME IInv, ReportTypeOK, StatsAgree, NEW o \in Orders, DeliverCompleted(o)
    PROVE  /\ ReportTypeOK' /\ StatsAgree'
           /\ CostsCarried /\ CostsAgree => CostsAgree'
<1>1. PICK e \in stream, day \in Days :
          /\ e.subject = "order.completed" /\ e.order = o
          /\ ApplyOrderCompleted(o, day, cart[o], e.cogs, Total(o))
  BY DEF DeliverCompleted
<1> DEFINE delta == [NoStats EXCEPT
               !.revenue = Revenue(cart[o]), !.cogs = Cogs(cart[o], e.cogs),
               !.fee = DeliveryFee(Total(o), Revenue(cart[o])), !.completed = 1]
<1>2. OrdersTypeOK /\ e.cogs \in SUBSET Products /\ payment[o] # "NONE"
  BY <1>1 DEF IInv, OrdersTypeOK, Events, StreamAgrees
<1>3. /\ Revenue(cart[o]) \in Nat /\ Fee[o] \in Nat
      /\ Cogs(cart[o], e.cogs) \in Nat
  BY <1>2, CartType, TotalType, CogsType
<1>4. /\ delta \in DayStats
      /\ delta.revenue = Sales[o] /\ delta.fee = Fees[o]
      /\ delta.cogs = Cogs(cart[o], e.cogs) /\ delta.completed = 1
  <2>1. DeliveryFee(Total(o), Revenue(cart[o])) = Fee[o]
    BY <1>2, FeeRecomputed
  <2>2. Sales[o] = Revenue(cart[o]) /\ Fees[o] = Fee[o] BY DEF Sales, Fees
  <2> DEFINE r == Revenue(cart[o])
             c == Cogs(cart[o], e.cogs)
             f == DeliveryFee(Total(o), Revenue(cart[o]))
  <2>3. r \in Nat /\ c \in Nat /\ f \in Nat BY <1>3, <2>1
  <2>4. delta = Sale(r, c, f) BY DEF Sale
  <2>5. r = Sales[o] /\ f = Fees[o] /\ c = Cogs(cart[o], e.cogs)
    BY <2>1, <2>2
  <2> HIDE DEF r, c, f, delta
  <2> QED BY <2>3, <2>4, <2>5, SaleOfOrder
<1>5. /\ OrderCompleted(o) \notin seen /\ AddToDay(day, delta)
      /\ seen' = seen \cup {OrderCompleted(o)}
      /\ UNCHANGED <<balances, debtTotal>>
  BY <1>1 DEF ApplyOrderCompleted
<1> HIDE DEF delta
<1>6. daily' \in [Days -> DayStats] /\ ProfitOfDays'
  BY <1>4, <1>5, DayAdds DEF ReportTypeOK, StatsAgree, ProfitOfDays
<1>7. \A f \in Columns : Summary(Days, f)' = Summary(Days, f) + delta[f]
  BY <1>4, <1>5, SummaryAdds DEF ReportTypeOK
<1>8. Counted' = Counted \cup {o} /\ o \notin Counted
  BY <1>5 DEF Counted, OrderCompleted
<1>9. ReportTypeOK' BY <1>5, <1>6 DEF ReportTypeOK, OrderCompleted
<1>10. UNCHANGED orderVars BY DEF DeliverCompleted
<1>11. /\ Sales' = Sales /\ Fees' = Fees /\ Costs' = Costs
       /\ payment' = payment
  BY <1>10 DEF orderVars, Sales, Fees, Costs
<1>12. IsFiniteSet(Counted) /\ Counted \subseteq Orders BY CountedFinite
<1>13. \A x \in Orders : Sales[x] \in Int /\ Fees[x] \in Int /\ Costs[x] \in Int
  BY <1>2, AmountsAreNumbers
<1>14. AddsUp("revenue", Sales)'
  <2>1. SumFunctionOnSet(Sales, Counted \cup {o}) =
            SumFunctionOnSet(Sales, Counted) + Sales[o]
    BY <1>8, <1>12, <1>13, SumOfOneMore
  <2> QED BY <1>4, <1>7, <1>8, <1>11, <2>1 DEF StatsAgree, AddsUp, Columns
<1>15. AddsUp("fee", Fees)'
  <2>1. SumFunctionOnSet(Fees, Counted \cup {o}) =
            SumFunctionOnSet(Fees, Counted) + Fees[o]
    BY <1>8, <1>12, <1>13, SumOfOneMore
  <2> QED BY <1>4, <1>7, <1>8, <1>11, <2>1 DEF StatsAgree, AddsUp, Columns
<1>16. Summary(Days, "completed")' = Cardinality(Counted')
  <2>1. Cardinality(Counted \cup {o}) = Cardinality(Counted) + 1
    BY <1>8, <1>12, FS_AddElement
  <2> QED BY <1>4, <1>7, <1>8, <2>1 DEF StatsAgree, Columns
<1>17. \A x \in Counted' : payment'[x] # "NONE"
  BY <1>2, <1>8, <1>11 DEF StatsAgree
<1>18. StatsAgree' BY <1>6, <1>14, <1>15, <1>16, <1>17 DEF StatsAgree
<1>19. ASSUME CostsCarried, CostsAgree PROVE CostsAgree'
  <2>1. delta.cogs = Costs[o]
    BY <1>1, <1>4, <1>19 DEF CostsCarried, Costs
  <2>2. SumFunctionOnSet(Costs, Counted \cup {o}) =
            SumFunctionOnSet(Costs, Counted) + Costs[o]
    BY <1>8, <1>12, <1>13, SumOfOneMore
  <2> QED BY <1>7, <1>8, <1>11, <1>19, <2>1, <2>2
          DEF CostsAgree, AddsUp, Columns
<1> QED BY <1>9, <1>18, <1>19

\* What applyDebtUpdated does.
LEMMA DebtConsumed ==
    ASSUME BillingTypeOK, ReportTypeOK, NEW n \in DOMAIN billingStream,
           DeliverDebt(n)
    PROVE  LET b == billingStream[n]
           IN  /\ n \in Nat /\ b \in Balances
               /\ DebtUpdated(n) \notin seen /\ seen' = seen \cup {DebtUpdated(n)}
               /\ balances' = [balances EXCEPT ![b.customer] = b.balance]
               /\ balances' \in [Customers -> Nat]
               /\ debtTotal' = SumFunction(balances')
               /\ UNCHANGED <<orderVars, billingVars, daily>>
<1>1. n \in Nat /\ billingStream[n] \in Balances BY DEF BillingTypeOK
<1> QED BY <1>1 DEF DeliverDebt, ApplyDebtUpdated, ReportTypeOK, Balances

\* A total of balances is a number.
LEMMA TotalOfBalances ==
    ASSUME NEW f \in [Customers -> Nat] PROVE SumFunction(f) \in Nat
<1>1. \A c \in Customers : f[c] \in Nat OBVIOUS
<1>2. SumFunctionOnSet(f, Customers) \in Nat BY <1>1, FiniteAccounts, SumType
<1> QED BY <1>2 DEF SumFunction

LEMMA DebtKeepsReport ==
    ASSUME BillingTypeOK, ReportTypeOK, StatsAgree,
           NEW n \in DOMAIN billingStream, DeliverDebt(n)
    PROVE  ReportTypeOK' /\ StatsAgree' /\ (CostsAgree => CostsAgree')
<1>1. /\ n \in Nat /\ seen' = seen \cup {DebtUpdated(n)}
      /\ balances' \in [Customers -> Nat] /\ debtTotal' = SumFunction(balances')
      /\ UNCHANGED <<orderVars, daily>>
  BY DebtConsumed
<1>2. Counted' = Counted BY <1>1 DEF Counted, OrderCompleted, DebtUpdated
<1>3. debtTotal' \in Nat BY <1>1, TotalOfBalances
<1>4. ReportTypeOK' BY <1>1, <1>3 DEF ReportTypeOK, DebtUpdated
<1>5. /\ Sales' = Sales /\ Fees' = Fees /\ Costs' = Costs /\ payment' = payment
      /\ ProfitOfDays' = ProfitOfDays
      /\ \A f : Summary(Days, f)' = Summary(Days, f)
  BY <1>1 DEF orderVars, Sales, Fees, Costs, ProfitOfDays, Summary
<1> QED BY <1>2, <1>4, <1>5 DEF StatsAgree, CostsAgree, AddsUp

-----------------------------------------------------------------------------
(***************************************************************************)
(* The inductive invariant of report-service.                              *)
(***************************************************************************)
ReportInv == BillingInv /\ ReportTypeOK /\ StatsAgree

LEMMA InitReport == Init => ReportInv /\ CostsAgree
<1> SUFFICES ASSUME Init PROVE ReportInv /\ CostsAgree
  OBVIOUS
<1>1. NoStats \in DayStats /\ \A f \in Columns : NoStats[f] = 0
  BY DEF NoStats, DayStats, Columns
<1>2. NoStats.profit = NoStats.revenue - NoStats.cogs BY DEF NoStats
<1>3. Counted = {} BY DEF Init, ReportInit, Counted
<1>4. \A f \in Columns : Summary(Days, f) = 0
  <2> SUFFICES ASSUME NEW f \in Columns PROVE Summary(Days, f) = 0
    OBVIOUS
  <2> DEFINE g == [d \in Days |-> daily[d][f]]
  <2>1. \A d \in Days : g[d] = 0 BY <1>1 DEF Init, ReportInit
  <2>2. Summary(Days, f) = SumFunctionOnSet(g, Days) BY DEF Summary
  <2> HIDE DEF g
  <2> QED BY <2>1, <2>2, FiniteReport, SumOfZeros
<1>5. ReportTypeOK BY <1>1 DEF Init, ReportInit, ReportTypeOK
<1>6. StatsAgree
  <2>1. ProfitOfDays BY <1>2 DEF Init, ReportInit, ProfitOfDays
  <2>2. Cardinality(Counted) = 0 BY <1>3, FS_EmptySet
  <2> QED BY <1>3, <1>4, <2>1, <2>2, SumOfNone DEF StatsAgree, AddsUp, Columns
<1>7. CostsAgree BY <1>3, <1>4, SumOfNone DEF CostsAgree, AddsUp, Columns
<1> QED BY <1>5, <1>6, <1>7, InitBilling DEF ReportInv

\* Every step keeps it; and no cost goes missing between the stream and the
\* statistics when the stored costs are the ones carried.
LEMMA NextKeepsReport ==
    ASSUME ReportInv, [Next]_vars
    PROVE  /\ ReportInv'
           /\ PlacedFirst /\ CostsCarried /\ CostsAgree => CostsAgree'
<1>1. BillingInv' BY NextKeepsBilling DEF ReportInv
<1>2. IInv /\ BillingTypeOK /\ ReportTypeOK /\ StatsAgree
  BY DEF ReportInv, BillingInv
<1>3. CASE UNCHANGED reportVars
  <2>1. UNCHANGED daily /\ Counted' = Counted
    BY <1>3 DEF reportVars, Counted
  <2>2. ReportTypeOK' BY <1>2, <1>3 DEF reportVars, ReportTypeOK
  <2>3. StatsAgree' BY <1>2, <2>1, StepOfOrders, UncountedKeepsStats
  <2>4. PlacedFirst /\ CostsAgree => CostsAgree'
    BY <1>2, <2>1, StepOfOrders, UncountedKeepsCosts
  <2> QED BY <1>1, <2>2, <2>3, <2>4 DEF ReportInv
<1>4. CASE \E o \in Orders : ServePayment(o) \/ AnswerPayment(o)
  BY <1>3, <1>4 DEF ServePayment, AnswerPayment
<1>5. CASE ReportNext
  <2>1. ASSUME NEW o \in Orders, DeliverPlaced(o)
        PROVE  ReportTypeOK' /\ StatsAgree' /\ (CostsAgree => CostsAgree')
    BY <1>2, <2>1, PlacedKeepsReport
  <2>2. ASSUME NEW o \in Orders, DeliverCompleted(o)
        PROVE  /\ ReportTypeOK' /\ StatsAgree'
               /\ CostsCarried /\ CostsAgree => CostsAgree'
    BY <1>2, <2>2, CompletedKeepsReport
  <2>3. ASSUME NEW n \in DOMAIN billingStream, DeliverDebt(n)
        PROVE  ReportTypeOK' /\ StatsAgree' /\ (CostsAgree => CostsAgree')
    BY <1>2, <2>3, DebtKeepsReport
  <2> QED BY <1>1, <1>5, <2>1, <2>2, <2>3 DEF ReportNext, ReportInv
<1> QED BY <1>3, <1>4, <1>5, StepsOfMoney

LEMMA ReportInvariance == Spec => []ReportInv
<1>1. ReportInv /\ [Next]_vars => ReportInv' BY NextKeepsReport
<1> QED BY <1>1, InitReport, PTL DEF Spec

\* The tables of all three services stay well-formed: no debt and no total on
\* the dashboard is ever negative, whatever is lost, repeated or reordered.
THEOREM MoneyTypeCorrect == Spec => []TypeOK
<1>1. ReportInv => TypeOK BY DEF ReportInv, BillingInv, IInv, TypeOK
<1> QED BY <1>1, ReportInvariance, PTL

\* When nobody touches an order before its placement has ended well, revenue,
\* cost, fee and profit are those of the orders counted, each counted once,
\* with the costs their rows have.
THEOREM StatsAreOfOrders ==
    ASSUME ~EarlyAccess PROVE Spec => []StatsMatchOrders
<1>1. ReportInv /\ CostsAgree => StatsMatchOrders
  <2> SUFFICES ASSUME ReportInv, CostsAgree PROVE StatsMatchOrders
    OBVIOUS
  <2>1. Summary(Days, "profit") =
            Summary(Days, "revenue") - Summary(Days, "cogs")
    BY SummaryOfProfit DEF ReportInv, ReportTypeOK, StatsAgree
  <2>2. StatsAgree /\ CostsAgree BY DEF ReportInv
  <2> QED BY <2>1, <2>2
          DEF StatsMatchOrders, StatsAgree, CostsAgree, AddsUp, Counted,
              Sales, Fees, Costs
<1>2. ReportInv /\ PlacedFirst /\ CostsCarried /\ CostsAgree /\ [Next]_vars
          => CostsAgree'
  BY NextKeepsReport
<1>3. Spec => []CostsAgree
  <2>1. Spec => [](PlacedFirst /\ CostsCarried)
    BY RefinesOrders, PlacedInvariance
  <2> QED BY <1>2, <2>1, InitReport, ReportInvariance, PTL DEF Spec
<1> QED BY <1>1, <1>3, ReportInvariance, PTL

-----------------------------------------------------------------------------
(***************************************************************************)
(* The total on the dashboard.  It settles on what the customers owe when  *)
(* orders are billed one at a time: a single desk, no crash that lets it   *)
(* go on while billing-service still answers, and nothing lost.  With two  *)
(* desks two announcements can overtake each other.                        *)
(***************************************************************************)
OneAtATime ==
    (\A d1, d2 \in Desks : d1 = d2) /\ MaxCrashes = 0 /\ ~Unreliable

\* A payment under way is one the desk waits for.
SentAwaited ==
    \A o \in Orders : billingCall[o] = "sent" =>
        \E d \in Desks : desk[d].pc = "billing" /\ desk[d].order = o

LEMMA NextKeepsAwaited ==
    ASSUME OneAtATime, IInv, SentAwaited, [OrdersNext]_orderVars
    PROVE  SentAwaited'
<1> USE DEF IInv, OrdersTypeOK, SentAwaited
<1>1. ASSUME NEW d \in Desks, PostPayment(d) PROVE SentAwaited'
  <2>1. /\ desk'[d].pc = "billing" /\ desk'[d].order = desk[d].order
        /\ \A o \in Orders : o # desk[d].order => billingCall'[o] = billingCall[o]
    BY <1>1 DEF PostPayment, DeskStates
  <2>2. \A o \in Orders : billingCall[o] # "sent"
    BY <1>1 DEF PostPayment, OneAtATime
  <2> QED BY <2>1, <2>2
<1>2. ASSUME NEW d \in Desks, PaymentReturned(d) PROVE SentAwaited'
  <2>1. billingCall[desk[d].order] # "sent" /\ UNCHANGED billingCall
    BY <1>2 DEF PaymentReturned, Answered, GivenUp, OneAtATime, calls
  <2>2. \A o \in Orders : billingCall[o] # "sent"
    BY <2>1 DEF OneAtATime
  <2> QED BY <2>1, <2>2
<1>3. ASSUME NEW d \in Desks,
             \/ \E q \in Orders : LoadOrder(d, q)
             \/ SettleOrder(d) \/ SettleConflict(d) \/ LoadItemsFailed(d)
             \/ PublishOrderCompleted(d)
      PROVE  SentAwaited'
  <2>1. desk[d].pc # "billing" /\ UNCHANGED billingCall
    BY <1>3 DEF LoadOrder, SettleOrder, SettleConflict, LoadItemsFailed,
                PublishOrderCompleted, calls
  <2>2. \A o \in Orders : billingCall[o] # "sent"
    BY <2>1 DEF OneAtATime
  <2> QED BY <2>1, <2>2
<1>4. ASSUME NEW q \in Orders,
             \/ CreateOrder(q) \/ PlacementStep(q)
             \/ CancelMyOrder(q) \/ CancellationStep(q)
      PROVE  UNCHANGED <<desk, billingCall>>
  BY <1>4 DEF CreateOrder, PlacementStep, CallReserve, ReserveSucceeded,
              StoreItemCost, ReserveFailed, PublishOrderPlaced,
              CancelMyOrder, CancellationStep, CallRelease,
              ReleaseReturned, PublishOrderCancelled, calls
<1>5. ~OrderServiceCrash BY DEF OrderServiceCrash, OneAtATime
<1>6. ASSUME OthersNext
      PROVE  /\ UNCHANGED desk
             /\ \A o \in Orders : billingCall'[o] = "sent" => billingCall[o] = "sent"
  BY <1>6 DEF OthersNext, CallLost, ReserveEnds, ReleaseEnds, PaymentEnds
<1>7. ASSUME UNCHANGED orderVars PROVE UNCHANGED <<desk, billingCall>>
  BY <1>7 DEF orderVars
<1>8. ASSUME UNCHANGED desk,
             \A o \in Orders : billingCall'[o] = "sent" => billingCall[o] = "sent"
      PROVE  SentAwaited'
  BY <1>8
<1> HIDE DEF IInv, OrdersTypeOK, SentAwaited
<1> QED BY <1>1, <1>2, <1>3, <1>4, <1>5, <1>6, <1>7, <1>8
        DEF OrdersNext, ServiceNext, DeskStep

\* A payment under way ends when billing-service refuses or answers it.
LEMMA SentStays ==
    ASSUME ~Unreliable, IInv, [Next]_vars, NEW o \in Orders,
           billingCall[o] = "sent", ~RefusePayment(o), ~AnswerPayment(o)
    PROVE  billingCall'[o] = "sent"
<1> USE DEF IInv, OrdersTypeOK
<1>1. ASSUME NEW q \in Orders,
             \/ CreateOrder(q) \/ PlacementStep(q)
             \/ CancelMyOrder(q) \/ CancellationStep(q)
      PROVE  UNCHANGED billingCall
  BY <1>1 DEF CreateOrder, PlacementStep, CallReserve, ReserveSucceeded,
              StoreItemCost, ReserveFailed, PublishOrderPlaced,
              CancelMyOrder, CancellationStep, CallRelease,
              ReleaseReturned, PublishOrderCancelled, calls
<1>2. ASSUME NEW d \in Desks, PostPayment(d) PROVE billingCall'[o] = "sent"
  BY <1>2 DEF PostPayment
<1>3. ASSUME NEW d \in Desks,
             \/ \E q \in Orders : LoadOrder(d, q)
             \/ DeskStep(d) /\ ~PostPayment(d)
      PROVE  UNCHANGED billingCall
  BY <1>3 DEF LoadOrder, DeskStep, SettleOrder, SettleConflict,
              LoadItemsFailed, PaymentReturned, PublishOrderCompleted, calls
<1>4. ASSUME OrderServiceCrash PROVE UNCHANGED billingCall
  BY <1>4 DEF OrderServiceCrash, calls
<1>5. ASSUME NEW q \in Orders, StockAnswers(q) PROVE UNCHANGED billingCall
  BY <1>5 DEF StockAnswers, CallLost, ReserveEnds, ReleaseEnds
<1>6. ASSUME NEW q \in Orders,
             \/ ServePayment(q) \/ PostAgain(q)
             \/ (AnswerPayment(q) \/ RefusePayment(q)) /\ q # o
      PROVE  billingCall'[o] = "sent"
  BY <1>6 DEF ServePayment, PostAgain, AnswerPayment, RefusePayment,
              PaymentEnds, orderVars
<1>7. ASSUME ReportNext PROVE UNCHANGED billingCall
  BY <1>7 DEF ReportNext, DeliverPlaced, DeliverCompleted, DeliverDebt,
              orderVars
<1>8. ASSUME UNCHANGED vars PROVE UNCHANGED billingCall
  BY <1>8 DEF vars, orderVars
<1> HIDE DEF IInv, OrdersTypeOK
<1> QED BY <1>1, <1>2, <1>3, <1>4, <1>5, <1>6, <1>7, <1>8
        DEF Next, ServiceNext, BillingNext

-----------------------------------------------------------------------------
(***************************************************************************)
(* The inductive invariant.  DebtTotalSettles looks at quiet states only;  *)
(* on the way there each balance is in one of three places: announced, the *)
(* customer's last on the stream, or consumed.                             *)
(***************************************************************************)
\* The balance that the first n events tell of a customer.
Tells(s, c, n, v) ==
    \/ v = 0 /\ \A k \in 1 .. n : s[k].customer # c
    \/ \E k \in 1 .. n :
           /\ s[k].customer = c /\ s[k].balance = v
           /\ \A j \in k + 1 .. n : s[j].customer # c

\* What is about to be published is the balance of a payment under way.
AnnouncedIsCurrent ==
    /\ \A p \in payments : p.due > 0
    /\ \A b \in announcing :
           /\ billingCall[b.order] = "sent" /\ Recorded(b.order)
           /\ b.customer = Owner[b.order] /\ b.balance = debts[b.customer]

\* Otherwise the last balance published is the one of the table.
StreamIsCurrent ==
    \A c \in Customers :
        (\A b \in announcing : b.customer # c) =>
            Tells(billingStream, c, Len(billingStream), debts[c])

\* report-service has consumed the events up to one of them and nothing after.
SeenIsPrefix ==
    \E m \in 0 .. Len(billingStream) :
        /\ \A n \in Nat : DebtUpdated(n) \in seen <=> n \in 1 .. m
        /\ \A c \in Customers : Tells(billingStream, c, m, balances[c])

TotalIsShown == debtTotal = SumFunction(balances)

DebtInv ==
    /\ SentAwaited /\ AnnouncedIsCurrent
    /\ StreamIsCurrent /\ SeenIsPrefix /\ TotalIsShown

\* The first events tell one balance of a customer.
LEMMA TellsOne ==
    ASSUME NEW s, NEW c, NEW n \in Nat, NEW v, NEW w, Tells(s, c, n, v), Tells(s, c, n, w)
    PROVE  v = w
<1>1. CASE \A k \in 1 .. n : s[k].customer # c
  BY <1>1 DEF Tells
<1>2. CASE ~ \A k \in 1 .. n : s[k].customer # c
  <2>1. PICK k \in 1 .. n :
            /\ s[k].customer = c /\ s[k].balance = v
            /\ \A j \in k + 1 .. n : s[j].customer # c
    BY <1>2 DEF Tells
  <2>2. PICK l \in 1 .. n :
            /\ s[l].customer = c /\ s[l].balance = w
            /\ \A j \in l + 1 .. n : s[j].customer # c
    BY <1>2 DEF Tells
  <2>3. k = l
    <3>1. ~(k < l) BY <2>1, <2>2
    <3>2. ~(l < k) BY <2>1, <2>2
    <3> QED BY <3>1, <3>2
  <2> QED BY <2>1, <2>2, <2>3
<1> QED BY <1>1, <1>2

\* One more event tells its own balance of its customer and leaves the others.
LEMMA TellsNext ==
    ASSUME NEW s, NEW c, NEW n \in Nat, NEW v
    PROVE  /\ s[n + 1].customer = c
                  => Tells(s, c, n + 1, s[n + 1].balance)
           /\ s[n + 1].customer # c /\ Tells(s, c, n, v)
                  => Tells(s, c, n + 1, v)
<1>1. ASSUME s[n + 1].customer = c
      PROVE  Tells(s, c, n + 1, s[n + 1].balance)
  <2>1. n + 1 \in 1 .. n + 1 /\ (n + 1) + 1 .. n + 1 = {} OBVIOUS
  <2> QED BY <1>1, <2>1 DEF Tells
<1>2. ASSUME s[n + 1].customer # c, Tells(s, c, n, v)
      PROVE  Tells(s, c, n + 1, v)
  <2>1. \A k \in 1 .. n + 1 : k \in 1 .. n \/ k = n + 1 OBVIOUS
  <2>2. CASE v = 0 /\ \A k \in 1 .. n : s[k].customer # c
    BY <1>2, <2>1, <2>2 DEF Tells
  <2>3. CASE \E k \in 1 .. n :
                 /\ s[k].customer = c /\ s[k].balance = v
                 /\ \A j \in k + 1 .. n : s[j].customer # c
    <3>1. PICK k \in 1 .. n :
              /\ s[k].customer = c /\ s[k].balance = v
              /\ \A j \in k + 1 .. n : s[j].customer # c
      BY <2>3
    <3>2. k \in 1 .. n + 1 OBVIOUS
    <3>3. \A j \in k + 1 .. n + 1 : j \in k + 1 .. n \/ j = n + 1 OBVIOUS
    <3> QED BY <1>2, <3>1, <3>2, <3>3 DEF Tells
  <2> QED BY <1>2, <2>2, <2>3 DEF Tells
<1> QED BY <1>1, <1>2

\* Publishing does not change what the events before tell.
LEMMA TellsStays ==
    ASSUME NEW s \in Seq(Balances), NEW b \in Balances,
           NEW n \in 0 .. Len(s), NEW c, NEW v
    PROVE  Tells(Append(s, b), c, n, v) <=> Tells(s, c, n, v)
<1> DEFINE t == Append(s, b)
<1>1. \A k \in 1 .. n : t[k] = s[k] OBVIOUS
<1>2. \A k \in 1 .. n : k + 1 .. n \subseteq 1 .. n OBVIOUS
<1> HIDE DEF t
<1>3. Tells(t, c, n, v) <=> Tells(s, c, n, v) BY <1>1, <1>2 DEF Tells
<1> QED BY <1>3 DEF t

LEMMA InitDebts == Init => DebtInv
<1> SUFFICES ASSUME Init PROVE DebtInv
  OBVIOUS
<1> USE DEF Init, OrdersInit, BillingInit, ReportInit
<1>1. SentAwaited BY DEF SentAwaited
<1>2. AnnouncedIsCurrent BY DEF AnnouncedIsCurrent
<1>3. \A c \in Customers : Tells(billingStream, c, 0, 0) BY DEF Tells
<1>4. StreamIsCurrent BY <1>3 DEF StreamIsCurrent
<1>5. SeenIsPrefix BY <1>3 DEF SeenIsPrefix
<1>6. TotalIsShown
  <2>1. \A c \in Customers : balances[c] = 0 /\ DOMAIN balances = Customers
    OBVIOUS
  <2>2. SumFunctionOnSet(balances, Customers) = 0
    BY <2>1, FiniteAccounts, SumOfZeros
  <2>3. DOMAIN balances = Customers OBVIOUS
  <2> QED BY <2>2, <2>3 DEF TotalIsShown, SumFunction
<1> QED BY <1>1, <1>2, <1>4, <1>5, <1>6 DEF DebtInv

\* There is at most one payment under way, so at most one announcement.
LEMMA OneUnderWay ==
    ASSUME OneAtATime, SentAwaited, NEW o \in Orders, NEW q \in Orders,
           billingCall[o] = "sent", billingCall[q] = "sent"
    PROVE  o = q
  BY DEF OneAtATime, SentAwaited

LEMMA OneAnnounced ==
    ASSUME OneAtATime, BillingTypeOK, SentAwaited, AnnouncedIsCurrent,
           NEW a \in announcing, NEW b \in announcing
    PROVE  a = b
<1>1. a \in Balances /\ b \in Balances BY DEF BillingTypeOK
<1>2. a.order = b.order
  BY <1>1, OneUnderWay DEF AnnouncedIsCurrent, Balances
<1>3. a.customer = b.customer /\ a.balance = b.balance
  BY <1>2 DEF AnnouncedIsCurrent
<1> QED BY <1>1, <1>2, <1>3 DEF Balances

\* A step of order-service, or a refusal: it ends no payment that has been
\* recorded, because an order that costs nothing never is.
LEMMA OrdersKeepDebts ==
    ASSUME OneAtATime, BillingInv, DebtInv, [Next]_vars,
           UNCHANGED <<billingVars, reportVars>>
    PROVE  DebtInv'
<1> USE DEF billingVars, reportVars
<1>1. SentAwaited'
  BY StepOfOrders, NextKeepsAwaited DEF BillingInv, DebtInv
<1>2. ASSUME NEW b \in announcing PROVE billingCall'[b.order] = "sent"
  <2>1. /\ b.order \in Orders /\ billingCall[b.order] = "sent"
        /\ Recorded(b.order)
    BY DEF DebtInv, AnnouncedIsCurrent, BillingInv, BillingTypeOK, Balances
  <2>2. PICK p \in payments : p.order = b.order BY <2>1 DEF Recorded
  <2>3. Total(b.order) > 0
    BY <2>2 DEF DebtInv, AnnouncedIsCurrent, BillingInv, PaymentsAgree
  <2>4. ~RefusePayment(b.order) BY <2>3 DEF RefusePayment
  <2>5. ~AnswerPayment(b.order)
    BY DEF AnswerPayment, AnnounceDebt, AnnounceFails
  <2> QED BY <2>1, <2>4, <2>5, SentStays DEF OneAtATime, BillingInv
<1>3. AnnouncedIsCurrent'
  BY <1>2 DEF DebtInv, AnnouncedIsCurrent, Recorded
<1>4. StreamIsCurrent' BY DEF DebtInv, StreamIsCurrent
<1>5. SeenIsPrefix' BY DEF DebtInv, SeenIsPrefix
<1>6. TotalIsShown' BY DEF DebtInv, TotalIsShown
<1> QED BY <1>1, <1>3, <1>4, <1>5, <1>6 DEF DebtInv

\* A payment is recorded: no announcement was left, now there is its own.
LEMMA PostedKeepsAnnounced ==
    ASSUME OneAtATime, BillingInv, DebtInv, NEW o \in Orders, ServePayment(o)
    PROVE  DebtInv'
<1>1. PICK paid : Posted(o, paid) BY PaymentPosted DEF BillingInv
<1> DEFINE c == Owner[o]
           row == [order |-> o, type |-> payment[o], due |-> Total(o),
                   paid |-> paid]
           b == [order |-> o, customer |-> c, balance |-> debts'[c]]
<1>2. /\ c \in Customers /\ ~Recorded(o)
      /\ payments' = payments \cup {row} /\ announcing' = announcing \cup {b}
      /\ \A e \in Customers \ {c} : debts'[e] = debts[e]
      /\ billingStream' = billingStream
  BY <1>1, PostedAdds DEF BillingInv
<1>3. row.order = o /\ row.due = Total(o) OBVIOUS
<1>4. b.order = o /\ b.customer = c /\ b.balance = debts'[c] OBVIOUS
<1>5. Total(o) > 0 BY <1>1 DEF Posted, RecordPayment
<1> HIDE DEF row, b
<1>6. UNCHANGED <<orderVars, reportVars>> /\ billingCall[o] = "sent"
  BY DEF ServePayment
<1>7. announcing = {}
  <2> SUFFICES ASSUME NEW a \in announcing PROVE FALSE
    OBVIOUS
  <2>1. a.order \in Orders BY DEF BillingInv, BillingTypeOK, Balances
  <2>2. billingCall[a.order] = "sent" /\ Recorded(a.order)
    BY DEF DebtInv, AnnouncedIsCurrent
  <2> QED BY <1>2, <1>6, <2>1, <2>2, OneUnderWay DEF DebtInv
<1>8. SentAwaited' BY <1>6 DEF orderVars, DebtInv, SentAwaited
<1>9. AnnouncedIsCurrent'
  <2>1. \A p \in payments' : p.due > 0
    BY <1>2, <1>3, <1>5 DEF DebtInv, AnnouncedIsCurrent
  <2>2. Recorded(o)' BY <1>2, <1>3 DEF Recorded
  <2>3. billingCall' = billingCall BY <1>6 DEF orderVars
  <2> QED BY <1>2, <1>4, <1>6, <1>7, <2>1, <2>2, <2>3 DEF AnnouncedIsCurrent
<1>10. StreamIsCurrent'
  <2> SUFFICES ASSUME NEW e \in Customers, \A a \in announcing' : a.customer # e
               PROVE  Tells(billingStream', e, Len(billingStream'), debts'[e])
    BY DEF StreamIsCurrent
  <2>1. e # c BY <1>2, <1>4
  <2>2. Tells(billingStream, e, Len(billingStream), debts[e])
    BY <1>7 DEF DebtInv, StreamIsCurrent
  <2> QED BY <1>2, <2>1, <2>2
<1>11. SeenIsPrefix'
  BY <1>2, <1>6 DEF reportVars, DebtInv, SeenIsPrefix
<1>12. TotalIsShown' BY <1>6 DEF reportVars, DebtInv, TotalIsShown
<1> QED BY <1>8, <1>9, <1>10, <1>11, <1>12 DEF DebtInv

\* Its balance is published, after those of all payments before.
LEMMA AnswerKeepsAnnounced ==
    ASSUME OneAtATime, BillingInv, DebtInv, NEW o \in Orders, AnswerPayment(o)
    PROVE  DebtInv'
<1> DEFINE n == Len(billingStream)
<1>1. PICK b \in announcing :
          /\ b \in Balances /\ announcing' = announcing \ {b}
          /\ UNCHANGED <<payments, debts, debtLedger, reportVars>>
          /\ billingStream' = Append(billingStream, b)
  BY AnswerAnnounces DEF BillingInv, OneAtATime
<1>2. announcing' = {}
  BY <1>1, OneAnnounced DEF BillingInv, DebtInv
<1>3. billingStream \in Seq(Balances) /\ n \in Nat BY DEF BillingInv, BillingTypeOK
<1>4. Len(billingStream') = n + 1 /\ billingStream'[n + 1] = b
  BY <1>1, <1>3
<1>5. [OrdersNext]_orderVars BY AnswerOfOrders DEF OrdersNext, OthersNext
<1>6. SentAwaited' BY <1>5, NextKeepsAwaited DEF BillingInv, DebtInv
<1>7. AnnouncedIsCurrent' BY <1>1, <1>2 DEF DebtInv, AnnouncedIsCurrent
<1>8. StreamIsCurrent'
  <2> SUFFICES ASSUME NEW c \in Customers
               PROVE  Tells(billingStream', c, n + 1, debts[c])
    BY <1>1, <1>4 DEF StreamIsCurrent
  <2>1. b.balance = debts[b.customer] BY DEF DebtInv, AnnouncedIsCurrent
  <2>2. CASE b.customer = c BY <1>3, <1>4, <2>1, <2>2, TellsNext
  <2>3. CASE b.customer # c
    <3>1. \A a \in announcing : a.customer # c
      BY <2>3, OneAnnounced DEF BillingInv, DebtInv
    <3>2. Tells(billingStream, c, n, debts[c])
      BY <3>1 DEF DebtInv, StreamIsCurrent
    <3>3. Tells(billingStream', c, n, debts[c])
      BY <1>1, <1>3, <3>2, TellsStays
    <3> QED BY <1>3, <1>4, <2>3, <3>3, TellsNext
  <2> QED BY <2>2, <2>3
<1>9. SeenIsPrefix'
  <2>1. PICK m \in 0 .. n :
            /\ \A k \in Nat : DebtUpdated(k) \in seen <=> k \in 1 .. m
            /\ \A c \in Customers : Tells(billingStream, c, m, balances[c])
    BY DEF DebtInv, SeenIsPrefix
  <2>2. \A c \in Customers : Tells(billingStream', c, m, balances[c])
    BY <1>1, <1>3, <2>1, TellsStays
  <2>3. m \in 0 .. Len(billingStream') BY <1>3, <1>4
  <2> QED BY <1>1, <2>1, <2>2, <2>3 DEF reportVars, SeenIsPrefix
<1>10. TotalIsShown' BY <1>1 DEF reportVars, DebtInv, TotalIsShown
<1> QED BY <1>6, <1>7, <1>8, <1>9, <1>10 DEF DebtInv

\* report-service consumes the next balance, or an event about an order.
LEMMA ReportKeepsDebts ==
    ASSUME OneAtATime, BillingInv, ReportTypeOK, DebtInv, ReportNext
    PROVE  DebtInv'
<1>1. UNCHANGED <<orderVars, billingVars>>
  BY DEF ReportNext, DeliverPlaced, DeliverCompleted, DeliverDebt
<1>2. SentAwaited' /\ AnnouncedIsCurrent' /\ StreamIsCurrent'
  BY <1>1 DEF orderVars, billingVars, DebtInv, SentAwaited,
              AnnouncedIsCurrent, Recorded, StreamIsCurrent
<1>3. PICK m \in 0 .. Len(billingStream) :
          /\ \A k \in Nat : DebtUpdated(k) \in seen <=> k \in 1 .. m
          /\ \A c \in Customers : Tells(billingStream, c, m, balances[c])
  BY DEF DebtInv, SeenIsPrefix
<1>4. ASSUME NEW o \in Orders, DeliverPlaced(o) \/ DeliverCompleted(o)
      PROVE  SeenIsPrefix' /\ TotalIsShown'
  <2>1. /\ UNCHANGED <<balances, debtTotal>>
        /\ \/ seen' = seen \cup {OrderPlaced(o)}
           \/ seen' = seen \cup {OrderCompleted(o)}
    BY <1>4 DEF DeliverPlaced, DeliverCompleted, ApplyOrderPlaced,
                ApplyOrderCompleted
  <2>2. \A k \in Nat : DebtUpdated(k) \in seen' <=> DebtUpdated(k) \in seen
    BY <2>1 DEF DebtUpdated, OrderPlaced, OrderCompleted
  <2>3. billingStream' = billingStream BY <1>1 DEF billingVars
  <2> QED BY <1>3, <2>1, <2>2, <2>3
          DEF SeenIsPrefix, TotalIsShown, DebtInv
<1>5. ASSUME NEW n \in DOMAIN billingStream, DeliverDebt(n)
      PROVE  SeenIsPrefix' /\ TotalIsShown'
  <2> DEFINE b == billingStream[n]
  <2>1. /\ n \in Nat /\ b \in Balances
        /\ DebtUpdated(n) \notin seen /\ seen' = seen \cup {DebtUpdated(n)}
        /\ balances' = [balances EXCEPT ![b.customer] = b.balance]
        /\ debtTotal' = SumFunction(balances')
        /\ billingStream' = billingStream
    BY <1>5, DebtConsumed DEF BillingInv, billingVars
  <2>2. n \in 1 .. Len(billingStream) /\ Len(billingStream) \in Nat
    BY DEF BillingInv, BillingTypeOK
  <2>3. n = m + 1
    <3>1. \A k \in 1 .. n - 1 : DebtUpdated(k) \in seen
      BY <1>5 DEF DeliverDebt, OneAtATime
    <3>2. n > m BY <1>3, <2>1, <2>2
    <3>3. ~(n > m + 1)
      <4>1. n > m + 1 => m + 1 \in 1 .. n - 1 /\ m + 1 \in Nat BY <2>2
      <4>2. m + 1 \notin 1 .. m OBVIOUS
      <4> QED BY <1>3, <3>1, <4>1, <4>2
    <3> QED BY <2>2, <3>2, <3>3
  <2>4. \A k \in Nat : DebtUpdated(k) \in seen' <=> k \in 1 .. n
    <3>1. \A k \in Nat : DebtUpdated(k) = DebtUpdated(n) <=> k = n
      BY DEF DebtUpdated
    <3>2. \A k \in Nat : k \in 1 .. n <=> k \in 1 .. m \/ k = n BY <2>3
    <3> QED BY <1>3, <2>1, <3>1, <3>2
  <2>5. ASSUME NEW c \in Customers
        PROVE  Tells(billingStream, c, n, balances'[c])
    <3>1. CASE b.customer = c
      <4>1. balances'[c] = b.balance BY <2>1, <3>1 DEF ReportTypeOK
      <4> QED BY <2>3, <3>1, <4>1, TellsNext
    <3>2. CASE b.customer # c
      <4>1. balances'[c] = balances[c] BY <2>1, <3>2 DEF ReportTypeOK
      <4> QED BY <1>3, <2>3, <3>2, <4>1, TellsNext
    <3> QED BY <3>1, <3>2
  <2>6. n \in 0 .. Len(billingStream) BY <2>2
  <2> QED BY <2>1, <2>4, <2>5, <2>6 DEF SeenIsPrefix, TotalIsShown
<1> QED BY <1>2, <1>4, <1>5 DEF ReportNext, DebtInv

LEMMA NextKeepsDebts ==
    ASSUME OneAtATime, BillingInv, ReportTypeOK, DebtInv, [Next]_vars
    PROVE  DebtInv'
<1>1. \/ UNCHANGED <<billingVars, reportVars>>
      \/ \E o \in Orders : ServePayment(o) \/ AnswerPayment(o)
      \/ ReportNext
  BY StepsOfMoney
<1> QED BY <1>1, OrdersKeepDebts, PostedKeepsAnnounced, AnswerKeepsAnnounced,
           ReportKeepsDebts

\* While orders are billed one at a time the dashboard settles on what the
\* customers owe: every balance announced is consumed after the ones before.
THEOREM DebtTotalAgrees ==
    ASSUME OneAtATime PROVE Spec => []DebtTotalSettles
<1>1. ReportInv /\ DebtInv /\ [Next]_vars => DebtInv'
  BY NextKeepsDebts DEF ReportInv
<1>2. Spec => []DebtInv
  BY <1>1, InitDebts, ReportInvariance, PTL DEF Spec
<1>3. ReportInv /\ DebtInv => DebtTotalSettles
  <2> SUFFICES ASSUME ReportInv, DebtInv, DebtsQuiet
               PROVE  debtTotal = Outstanding
    BY DEF DebtTotalSettles
  <2>1. /\ billingStream \in Seq(Balances)
        /\ debts \in [Customers -> Nat] /\ balances \in [Customers -> Nat]
    BY DEF ReportInv, BillingInv, BillingTypeOK, ReportTypeOK
  <2>2. PICK m \in 0 .. Len(billingStream) :
            /\ \A k \in Nat : DebtUpdated(k) \in seen <=> k \in 1 .. m
            /\ \A c \in Customers : Tells(billingStream, c, m, balances[c])
    BY DEF DebtInv, SeenIsPrefix
  <2>3. m = Len(billingStream)
    <3>1. Len(billingStream) \in Nat BY <2>1
    <3>2. Len(billingStream) > 0 => DebtUpdated(Len(billingStream)) \in seen
      BY <2>1, <3>1 DEF DebtsQuiet
    <3> QED BY <2>2, <3>1, <3>2
  <2>4. \A c \in Customers : balances[c] = debts[c]
    <3>1. \A c \in Customers :
              Tells(billingStream, c, Len(billingStream), debts[c])
      BY DEF DebtInv, StreamIsCurrent, DebtsQuiet
    <3> QED BY <2>2, <2>3, <3>1, TellsOne
  <2>5. balances = debts BY <2>1, <2>4
  <2> QED BY <2>5 DEF DebtInv, TotalIsShown, Outstanding
<1> QED BY <1>2, <1>3, ReportInvariance, PTL
=============================================================================
