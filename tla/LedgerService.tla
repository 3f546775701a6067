--------------------------- MODULE LedgerService ---------------------------
(***************************************************************************)
(* services/ledger.py: the entries of the double-entry ledger, what        *)
(* record_transaction accepts and appends, and the balances computed from  *)
(* them.  Ledger is what remains of it when only balances are kept.        *)
(*                                                                         *)
(* ledger_entries is a set: an entry is told apart by its transaction and  *)
(* its place in it.  Currencies are in lower case, as they are stored.     *)
(***************************************************************************)
EXTENDS Ledger, Sequences, Functions

Directions == {"debit", "credit"}

\* The legs a caller may ask for, in accounts of any names.
Legs(names) == [account : names, direction : Directions, amount : Int]

Leg(account, direction, amount) ==
    [account |-> account, direction |-> direction, amount |-> amount]

\* Every transaction of the payment service has these two legs.
Pair(debit, credit, amount) == <<Leg(debit, "debit", amount), Leg(credit, "credit", amount)>>

SumOfLegs(legs, direction) ==
    SumFunctionOnSet([i \in DOMAIN legs |-> legs[i].amount],
                     {i \in DOMAIN legs : legs[i].direction = direction})

\* Mutant: sums are not compared.
BalancedByCount(legs) == Len(legs) >= 2

\* The three checks; a LedgerError otherwise, which ends the caller's request.
Balanced(legs) ==
    /\ Len(legs) >= 2
    /\ SumOfLegs(legs, "debit") = SumOfLegs(legs, "credit")
    /\ \A i \in DOMAIN legs : legs[i].amount > 0

\* The entries of one transaction.
EntriesOf(transaction_id, legs, currency, payment_intent_id) ==
    {[transaction_id |-> transaction_id, leg |-> i, account |-> legs[i].account,
      direction |-> legs[i].direction, amount |-> legs[i].amount,
      currency |-> currency, payment_intent_id |-> payment_intent_id] : i \in DOMAIN legs}

-----------------------------------------------------------------------------
\* credits minus debits.
Signed(e) == IF e.direction = "credit" THEN e.amount ELSE - e.amount

SumOf(entries) == SumFunction([e \in entries |-> Signed(e)])

get_balance(entries, account, currency) ==
    SumOf({e \in entries : e.account = account /\ e.currency = currency})

list_entries_for_intent(entries, k) == {e \in entries : e.payment_intent_id = k}

\* By currency, the balances of the accounts that have an entry in it.
get_balances_by_currency(entries) ==
    [c \in {e.currency : e \in entries} |->
        LET inCurrency == {e \in entries : e.currency = c}
        IN  [a \in {e.account : e \in inCurrency} |-> get_balance(inCurrency, a, c)]]
=============================================================================
