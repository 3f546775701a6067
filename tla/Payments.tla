------------------------------ MODULE Payments ------------------------------
(***************************************************************************)
(* What the gateway is for: each payment is asked for once, then paid or   *)
(* canceled once, and a paid one refunded in parts up to what was paid;    *)
(* its books are those of its phase.  A merchant who leaves confirm alone  *)
(* and sends one call of an intent at a time is promised this, crashes,    *)
(* resends and redeliveries included.                                      *)
(***************************************************************************)
EXTENDS Ledger

CONSTANTS
    Intents,
    Amounts     \* what a payment may ask for, positive numbers

VARIABLES
    payments,   \* phase, amount and what has been refunded of it
    books       \* the balances of each intent's ledger entries

lifecycle == <<payments, books>>

Phases == {"none", "open", "paid", "canceled"}

BooksOf(p) ==
    [customer_pending    |-> IF p.phase \in {"open", "paid"} THEN - p.amount ELSE 0,
     payments_authorised |-> IF p.phase = "open" THEN p.amount ELSE 0,
     payments_captured   |-> IF p.phase = "paid" THEN p.amount - p.refunded ELSE 0,
     customer            |-> p.refunded]

Becomes(k, p) ==
    /\ payments' = [payments EXCEPT ![k] = p]
    /\ books' = [books EXCEPT ![k] = BooksOf(p)]

-----------------------------------------------------------------------------
Open(k) ==
    /\ payments[k].phase = "none"
    /\ \E amount \in Amounts : Becomes(k, [phase |-> "open", amount |-> amount, refunded |-> 0])

Pay(k) ==
    /\ payments[k].phase = "open"
    /\ Becomes(k, [payments[k] EXCEPT !.phase = "paid"])

Cancel(k) ==
    /\ payments[k].phase = "open"
    /\ Becomes(k, [payments[k] EXCEPT !.phase = "canceled"])

Refund(k) ==
    /\ payments[k].phase = "paid"
    /\ \E total \in payments[k].refunded + 1 .. payments[k].amount :
           Becomes(k, [payments[k] EXCEPT !.refunded = total])

-----------------------------------------------------------------------------
Init ==
    /\ payments = [k \in Intents |-> [phase |-> "none", amount |-> 0, refunded |-> 0]]
    /\ books = [k \in Intents |-> EmptyBooks]

Next == \E k \in Intents : Open(k) \/ Pay(k) \/ Cancel(k) \/ Refund(k)

Spec == Init /\ [][Next]_lifecycle
=============================================================================
