------------------------------- MODULE Ledger -------------------------------
(***************************************************************************)
(* The double-entry ledger as the payment service uses it.                 *)
(*                                                                         *)
(* ledger_entries is append-only and the service and its workers compute   *)
(* nothing but balances from it, so the entries of one payment intent are  *)
(* kept as their balances: credits minus debits per account, the sign of   *)
(* get_balance.  LedgerService has the entries themselves.                 *)
(* Every transaction the service records has two legs of one positive      *)
(* amount, one DEBIT and one CREDIT.                                       *)
(***************************************************************************)
EXTENDS Integers

\* The accounts the services post to. "customer_pending" and "customer" stand
\* for customer_pending:<id> and customer:<id> of the intent's own customer.
Accounts == {"customer_pending", "payments_authorised", "payments_captured", "customer"}

Books == [Accounts -> Int]

EmptyBooks == [a \in Accounts |-> 0]

\* record_transaction with the legs DEBIT debit, CREDIT credit.
Transfer(books, debit, credit, amount) ==
    [books EXCEPT ![debit] = @ - amount, ![credit] = @ + amount]
=============================================================================
