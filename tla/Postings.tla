------------------------------ MODULE Postings ------------------------------
(***************************************************************************)
(* What the gateway promises to whoever reads its tables, whatever its     *)
(* clients and Stripe do: a payment row and the books of its intent change *)
(* together, one posting at a time, and each posting is one of five.  Rows *)
(* and books are never seen apart, money moves only between the accounts   *)
(* of a posting and in the amount the row accounts for.                    *)
(*                                                                         *)
(* It promises no order and no "once": who confirms, or sends calls of one *)
(* intent together, can have a reversal or a capture posted twice.         *)
(* Payments is the promise to those who do not.                            *)
(***************************************************************************)
EXTENDS Ledger

CONSTANTS
    Intents,
    Statuses,   \* of a row that exists
    Amounts     \* what a payment may ask for, positive numbers

VARIABLES
    rows,   \* the row of each intent: status, amount, received, refunded
    books   \* the balances of each intent's ledger entries

postings == <<rows, books>>

NoPayment == [status |-> "absent", amount |-> 0, received |-> 0, refunded |-> 0]

Recorded(k) == rows[k].status # "absent"

\* A posting of k: its row becomes row, amount moves from debit to credit.
Post(k, row, debit, credit, amount) ==
    /\ rows' = [rows EXCEPT ![k] = row]
    /\ books' = [books EXCEPT ![k] = Transfer(@, debit, credit, amount)]

-----------------------------------------------------------------------------
\* An intent is inserted and its authorisation accrued.
Accrue(k) ==
    /\ ~Recorded(k)
    /\ \E amount \in Amounts, s \in Statuses :
           Post(k, [status |-> s, amount |-> amount, received |-> 0, refunded |-> 0],
                "customer_pending", "payments_authorised", amount)

\* A status alone moves no money.
SetStatus(k) ==
    /\ Recorded(k)
    /\ \E s \in Statuses : rows' = [rows EXCEPT ![k].status = s]
    /\ UNCHANGED books

\* A cancel takes the whole accrual back.
Reverse(k) ==
    /\ Recorded(k)
    /\ Post(k, [rows[k] EXCEPT !.status = "canceled"],
            "payments_authorised", "customer_pending", rows[k].amount)

\* A capture is of the whole amount.
Capture(k) ==
    /\ Recorded(k)
    /\ Post(k, [rows[k] EXCEPT !.status = "succeeded", !.received = rows[k].amount],
            "payments_authorised", "payments_captured", rows[k].amount)

\* A refund of n; the total the row shows of refunds (which a concurrent refund
\* may have overwritten) is covered by what was received and by the books.
Refund(k) ==
    \E n \in 1..rows[k].received : \E total \in n..rows[k].received :
        /\ total <= books[k]["customer"] + n
        /\ Post(k, [rows[k] EXCEPT !.refunded = total], "payments_captured", "customer", n)

-----------------------------------------------------------------------------
Init ==
    /\ rows = [k \in Intents |-> NoPayment]
    /\ books = [k \in Intents |-> EmptyBooks]

Next ==
    \E k \in Intents :
        Accrue(k) \/ SetStatus(k) \/ Reverse(k) \/ Capture(k) \/ Refund(k)

Spec == Init /\ [][Next]_postings
=============================================================================
