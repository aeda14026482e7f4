------------------------------- MODULE Billing -------------------------------
(***************************************************************************)
(* billing-service: one payment per order, the debt of each customer and   *)
(* the ledger that explains it (record_payment.go, billing_events.go).     *)
(*                                                                         *)
(* recordPayment commits payment, debt and ledger row in one transaction.  *)
(* The new balance is announced on the stream BILLING after the commit,    *)
(* with other requests running in between.  billing.payment.recorded,      *)
(* published at the same place, has no consumer and is left out.           *)
(***************************************************************************)
EXTENDS Accounts, Sequences

VARIABLES
    payments,       \* table payments
    debts,          \* debts.balance, 0 for a customer without a row
    debtLedger,     \* debt_ledger, per customer in order of insertion
    announcing,     \* requests between their commit and their publication
    billingStream   \* billing.debt.updated events, in order of publication

billingVars == <<payments, debts, debtLedger, announcing, billingStream>>

Methods == {"FULL", "PARTIAL", "UNPAID"}

Payments == [order : Orders, type : Methods, due : Nat, paid : Nat]
DebtRows == [order : Orders, delta : Nat, after : Nat]
Balances == [order : Orders, customer : Customers, balance : Nat]

BillingTypeOK ==
    /\ payments \subseteq Payments
    /\ debts \in [Customers -> Nat]
    /\ debtLedger \in [Customers -> Seq(DebtRows)]
    /\ announcing \subseteq Balances
    /\ billingStream \in Seq(Balances)

BillingInit ==
    /\ payments = {}
    /\ debts = [c \in Customers |-> 0]
    /\ debtLedger = [c \in Customers |-> << >>]
    /\ announcing = {}
    /\ billingStream = << >>

-----------------------------------------------------------------------------
Recorded(o) == \E p \in payments : p.order = o

\* validateRecordPayment, and settlePayment of order-service before it: what
\* may be paid of an amount due.
AmountsPaid(type, due) ==
    CASE type = "FULL"    -> {due}
      [] type = "PARTIAL" -> 1 .. due - 1
      [] type = "UNPAID"  -> {0}

\* Mutant: the debt of the order replaces the debt the customer had.
RecordPaymentForgetful(o, type, due, paid) ==
    LET c     == Owner[o]
        delta == due - paid
    IN  /\ due > 0 /\ paid \in AmountsPaid(type, due)
        /\ ~Recorded(o)
        /\ payments' = payments \cup
               {[order |-> o, type |-> type, due |-> due, paid |-> paid]}
        /\ debts' = [debts EXCEPT ![c] = IF delta = 0 THEN @ ELSE delta]
        /\ debtLedger' = IF delta = 0 THEN debtLedger ELSE
               [debtLedger EXCEPT ![c] = Append(@,
                   [order |-> o, delta |-> delta, after |-> debts'[c]])]
        /\ announcing' = announcing \cup
               {[order |-> o, customer |-> c, balance |-> debts'[c]]}
        /\ UNCHANGED billingStream

\* Mutant: the balance announced is the one read before the update.
RecordPaymentAnnouncingOld(o, type, due, paid) ==
    LET c     == Owner[o]
        delta == due - paid
    IN  /\ due > 0 /\ paid \in AmountsPaid(type, due)
        /\ ~Recorded(o)
        /\ payments' = payments \cup
               {[order |-> o, type |-> type, due |-> due, paid |-> paid]}
        /\ debts' = [debts EXCEPT ![c] = @ + delta]
        /\ debtLedger' = IF delta = 0 THEN debtLedger ELSE
               [debtLedger EXCEPT ![c] = Append(@,
                   [order |-> o, delta |-> delta, after |-> debts'[c]])]
        /\ announcing' = announcing \cup
               {[order |-> o, customer |-> c, balance |-> debts[c]]}
        /\ UNCHANGED billingStream

\* Payment, debt and ledger row are committed together; a payment in full
\* leaves debt and ledger alone.  The balance to announce is the one of this
\* transaction.
RecordPayment(o, type, due, paid) ==
    LET c     == Owner[o]
        delta == due - paid
    IN  /\ due > 0 /\ paid \in AmountsPaid(type, due)
        /\ ~Recorded(o)
        /\ payments' = payments \cup
               {[order |-> o, type |-> type, due |-> due, paid |-> paid]}
        /\ debts' = [debts EXCEPT ![c] = @ + delta]
        /\ debtLedger' = IF delta = 0 THEN debtLedger ELSE
               [debtLedger EXCEPT ![c] = Append(@,
                   [order |-> o, delta |-> delta, after |-> debts'[c]])]
        /\ announcing' = announcing \cup
               {[order |-> o, customer |-> c, balance |-> debts'[c]]}
        /\ UNCHANGED billingStream

\* Mutant: the order's row is not looked for.
RepeatPaymentCharging(o) ==
    /\ Recorded(o)
    /\ \E p \in payments :
           /\ p.order = o
           /\ debts' = [debts EXCEPT ![Owner[o]] = @ + (p.due - p.paid)]
    /\ UNCHANGED <<payments, debtLedger, announcing, billingStream>>

\* A payment posted again for a recorded order gets the stored row for an
\* answer; nothing is written and nothing announced.
RepeatPayment(o) == Recorded(o) /\ UNCHANGED billingVars

\* publishDebtUpdated
AnnounceDebt(b) ==
    /\ b \in announcing
    /\ announcing' = announcing \ {b}
    /\ billingStream' = Append(billingStream, b)
    /\ UNCHANGED <<payments, debts, debtLedger>>

\* Its error is only logged; a crash between commit and publication has the
\* same effect.
AnnounceFails(b) ==
    /\ b \in announcing
    /\ announcing' = announcing \ {b}
    /\ UNCHANGED <<payments, debts, debtLedger, billingStream>>

-----------------------------------------------------------------------------
\* The ledger of a customer tells how the balance came about: each row adds to
\* the balance the one before left, starting from nothing, and the last one is
\* the balance of table debts.
DebtLedgerAgrees ==
    \A c \in Customers :
        LET rows == debtLedger[c]
            before(i) == IF i = 1 THEN 0 ELSE rows[i - 1].after
        IN  /\ \A i \in DOMAIN rows :
                   rows[i].after = before(i) + rows[i].delta
            /\ debts[c] = before(Len(rows) + 1)
=============================================================================
