------------------------------- MODULE Report -------------------------------
(***************************************************************************)
(* report-service: statistics per day and the debts shown on the           *)
(* dashboard, both built from events alone (order_stats.go, daily_stats.go,*)
(* profit.go, debt_stats.go).  Each event is applied in a transaction that *)
(* also records its id in processed_events.                                *)
(***************************************************************************)
EXTENDS Accounts, Functions

CONSTANTS
    Days,    \* days of the Vietnam calendar
    Price,   \* unit_price of each product
    Cost     \* unit_cost of each product when its stock was reserved

ASSUME ReportAssumption ==
    Price \in [Products -> Nat] /\ Cost \in [Products -> Nat]

\* Table daily_stats has a row for each of finitely many days.
ASSUME FiniteReport == IsFiniteSet(Days)

VARIABLES
    daily,        \* table daily_stats
    balances,     \* customer_debt_balances
    debtTotal,    \* dashboard_snapshot.debt_total
    seen          \* processed_events

reportVars == <<daily, balances, debtTotal, seen>>

DayStats == [revenue : Nat, cogs : Nat, fee : Nat, profit : Int,
             completed : Nat, placed : Nat]
NoStats  == [revenue |-> 0, cogs |-> 0, fee |-> 0, profit |-> 0,
             completed |-> 0, placed |-> 0]

\* Ids of the events report-service consumes.
OrderPlaced(o)    == <<"order.placed", o>>
OrderCompleted(o) == <<"order.completed", o>>
DebtUpdated(n)    == <<"billing.debt.updated", n>>

ReportTypeOK ==
    /\ daily \in [Days -> DayStats]
    /\ balances \in [Customers -> Nat]
    /\ debtTotal \in Nat
    /\ seen \subseteq {"order.placed", "order.completed"} \X Orders
                \cup {"billing.debt.updated"} \X Nat

ReportInit ==
    /\ daily = [d \in Days |-> NoStats]
    /\ balances = [c \in Customers |-> 0]
    /\ debtTotal = 0
    /\ seen = {}

-----------------------------------------------------------------------------
\* SumSaleRevenue and SumCOGS; a line without unit_cost costs nothing.
Revenue(c) == SumFunction([p \in Products |-> c[p] * Price[p]])
Cogs(c, costed) ==
    SumFunctionOnSet([p \in Products |-> c[p] * Cost[p]], costed)

\* deliveryFeeFromPayload: order.completed has no delivery_fee.
DeliveryFee(total, revenue) == IF total > revenue THEN total - revenue ELSE 0

\* applyDailyStatsDeltaTx adds to a day and recomputes its profit.
AddToDay(day, delta) ==
    LET sum == [f \in DOMAIN delta |-> daily[day][f] + delta[f]]
    IN  daily' = [daily EXCEPT ![day] =
                     [sum EXCEPT !.profit = sum.revenue - sum.cogs]]

ApplyOrderPlaced(o, day) ==
    /\ OrderPlaced(o) \notin seen
    /\ AddToDay(day, [NoStats EXCEPT !.placed = 1])
    /\ seen' = seen \cup {OrderPlaced(o)}
    /\ UNCHANGED <<balances, debtTotal>>

\* Mutant: the id is not recorded in processed_events.
ApplyOrderCompletedUnrecorded(o, day, c, costed, total) ==
    /\ OrderCompleted(o) \notin seen
    /\ AddToDay(day, [NoStats EXCEPT
           !.revenue = Revenue(c), !.cogs = Cogs(c, costed),
           !.fee = DeliveryFee(total, Revenue(c)), !.completed = 1])
    /\ UNCHANGED <<balances, debtTotal, seen>>

\* Mutant: an order is counted only once it is known as placed.
ApplyOrderCompletedAfterPlaced(o, day, c, costed, total) ==
    /\ OrderCompleted(o) \notin seen
    /\ OrderPlaced(o) \in seen
    /\ AddToDay(day, [NoStats EXCEPT
           !.revenue = Revenue(c), !.cogs = Cogs(c, costed),
           !.fee = DeliveryFee(total, Revenue(c)), !.completed = 1])
    /\ seen' = seen \cup {OrderCompleted(o)}
    /\ UNCHANGED <<balances, debtTotal>>

ApplyOrderCompleted(o, day, c, costed, total) ==
    /\ OrderCompleted(o) \notin seen
    /\ AddToDay(day, [NoStats EXCEPT
           !.revenue = Revenue(c), !.cogs = Cogs(c, costed),
           !.fee = DeliveryFee(total, Revenue(c)), !.completed = 1])
    /\ seen' = seen \cup {OrderCompleted(o)}
    /\ UNCHANGED <<balances, debtTotal>>

\* The balance announced replaces the one known, whichever is newer; the
\* total is recomputed from all of them.
ApplyDebtUpdated(n, c, balance) ==
    /\ DebtUpdated(n) \notin seen
    /\ balances' = [balances EXCEPT ![c] = balance]
    /\ debtTotal' = SumFunction(balances')
    /\ seen' = seen \cup {DebtUpdated(n)}
    /\ UNCHANGED daily

\* sumDailyStats: what the dashboard shows of a column over some days.  Its
\* profit is not summed but recomputed from revenue and cost.
Summary(days, f) ==
    SumFunctionOnSet([d \in Days |-> daily[d][f]], days)
=============================================================================
