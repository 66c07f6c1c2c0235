--------------------------------- MODULE Billing ---------------------------------
(***************************************************************************)
(* The activation payment of a contractor (backend/routes/billing.py): a   *)
(* checkout session of the payment service, its row in                     *)
(* payment_transactions, and the two ways in which the backend learns of   *)
(* the payment: the contractor's browser polls the status, and the service *)
(* calls a webhook, as often as it likes.                                  *)
(*                                                                         *)
(* One contractor with several sessions.                                   *)
(***************************************************************************)
EXTENDS Integers, FiniteSets

CONSTANTS
    CheckoutSessions,
    Payers,             \* requests under way
    MaxPayCalls         \* Init gives it to payCallsLeft or withholds it

ASSUME BillingAssumption == MaxPayCalls \in Nat

VARIABLES
    service,        \* each session at the payment service
    transaction,    \* each session's row: its payment status
    subscription,   \* of the user: active or not
    payer,          \* each request: its step, its session, what it knows of it
    lapsed,         \* history: a request died after it marked a row as paid
    payCallsLeft

billingVars == <<service, transaction, subscription, payer, lapsed, payCallsLeft>>

----------------------------------------------------------------------------
NoPayer == [step |-> "idle", of |-> "none", status |-> "none"]

BillingInit ==
    /\ service = [s \in CheckoutSessions |-> "none"]
    /\ transaction = [s \in CheckoutSessions |-> "none"]
    /\ subscription = "none"
    /\ payer = [p \in Payers |-> NoPayer]
    /\ lapsed = FALSE

Turn(p, step) == payer' = [payer EXCEPT ![p].step = step]

----------------------------------------------------------------------------
(* billing_checkout *)

\* An attempt that times out may leave a session behind whose address nobody gets.
CreateSession(p, s) ==
    /\ payer[p] = NoPayer /\ payCallsLeft > 0 /\ service[s] = "none"
    /\ payCallsLeft' = payCallsLeft - 1
    /\ \/ service' = [service EXCEPT ![s] = "open"]
          /\ payer' = [payer EXCEPT ![p] = [step |-> "record", of |-> s, status |-> "open"]]
       \/ service' = [service EXCEPT ![s] = "orphan"] /\ UNCHANGED payer
    /\ UNCHANGED <<transaction, subscription, lapsed>>

RecordTransaction(p) ==
    /\ payer[p].step = "record"
    /\ transaction' = [transaction EXCEPT ![payer[p].of] = "initiated"]
    /\ payer' = [payer EXCEPT ![p] = NoPayer]
    /\ UNCHANGED <<service, subscription, lapsed, payCallsLeft>>

----------------------------------------------------------------------------
(* The payment service: a session whose address was returned is paid or expires *)

Settle(s) ==
    /\ service[s] = "open" /\ transaction[s] # "none"
    /\ \E end \in {"paid", "expired"} : service' = [service EXCEPT ![s] = end]
    /\ UNCHANGED <<transaction, subscription, payer, lapsed, payCallsLeft>>

----------------------------------------------------------------------------
(* billing_status, and stripe_webhook for a payment *)

Poll(p, s) ==
    /\ payer[p] = NoPayer /\ payCallsLeft > 0 /\ service[s] \in {"open", "paid", "expired"}
    /\ payCallsLeft' = payCallsLeft - 1
    /\ payer' = [payer EXCEPT ![p] = [step |-> "compare", of |-> s, status |-> service[s]]]
    /\ UNCHANGED <<service, transaction, subscription, lapsed>>

Webhook(p, s) == service[s] = "paid" /\ Poll(p, s)

\* Mutant of Activates: the status the service gave is not looked at.
ActivatesUnpaid(row, status) == row \notin {"none", "paid"}

Activates(row, status) == row \notin {"none", "paid"} /\ status = "paid"

\* The row is read after the status.
Compare(p) ==
    /\ payer[p].step = "compare"
    /\ LET row == transaction[payer[p].of]
           status == payer[p].status
       IN IF Activates(row, status) THEN Turn(p, "pay")
          ELSE IF row # "none" /\ status = "expired" THEN Turn(p, "expire")
          ELSE payer' = [payer EXCEPT ![p] = NoPayer]
    /\ UNCHANGED <<service, transaction, subscription, lapsed, payCallsLeft>>

MarkPaid(p) ==
    /\ payer[p].step = "pay" /\ Turn(p, "activate")
    /\ transaction' = [transaction EXCEPT ![payer[p].of] = "paid"]
    /\ UNCHANGED <<service, subscription, lapsed, payCallsLeft>>

MarkExpired(p) ==
    /\ payer[p].step = "expire"
    /\ transaction' = [transaction EXCEPT ![payer[p].of] = "expired"]
    /\ payer' = [payer EXCEPT ![p] = NoPayer]
    /\ UNCHANGED <<service, subscription, lapsed, payCallsLeft>>

ActivateSubscription(p) ==
    /\ payer[p].step = "activate"
    /\ subscription' = "active"
    /\ payer' = [payer EXCEPT ![p] = NoPayer]
    /\ UNCHANGED <<service, transaction, lapsed, payCallsLeft>>

\* Nobody repeats the activation: the row is paid, and whoever comes later finds it so.
Lapse(p) ==
    /\ payer[p] # NoPayer
    /\ lapsed' = (lapsed \/ payer[p].step = "activate")
    /\ payer' = [payer EXCEPT ![p] = NoPayer]
    /\ UNCHANGED <<service, transaction, subscription, payCallsLeft>>

BillingNext ==
    \/ \E s \in CheckoutSessions : Settle(s)
    \/ \E p \in Payers :
        \/ \E s \in CheckoutSessions : CreateSession(p, s) \/ Poll(p, s) \/ Webhook(p, s)
        \/ RecordTransaction(p) \/ Compare(p) \/ MarkPaid(p) \/ MarkExpired(p)
        \/ ActivateSubscription(p) \/ Lapse(p)

BillingSpec == BillingInit /\ payCallsLeft \in Nat /\ [][BillingNext]_billingVars

----------------------------------------------------------------------------
(* Properties *)

\* Whoever has a subscription paid for a session, no row says otherwise of a session than the
\* service does, and a payment that is on record has activated the subscription or is about
\* to, whatever polls and webhooks met, unless a request died between its two writes.
BillingAgrees ==
    /\ subscription = "active" => \E s \in CheckoutSessions : service[s] = "paid"
    /\ \A s \in CheckoutSessions :
          /\ transaction[s] \in {"paid", "expired"} => service[s] = transaction[s]
          /\ transaction[s] = "paid" =>
                subscription = "active" \/ lapsed \/ \E p \in Payers : payer[p].step = "activate"
=============================================================================
