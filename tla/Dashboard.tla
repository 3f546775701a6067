----------------------------- MODULE Dashboard -----------------------------
(***************************************************************************)
(* api/dashboard.py over tables that others write meanwhile.  A response   *)
(* is put together from several queries, each of which sees what was       *)
(* committed when it ran (the row of a payment, its entries); and a list   *)
(* is several responses.                                                   *)
(*                                                                         *)
(* The writers are the handlers of the payment service and of the webhook: *)
(* each reads a row, and commits its change and ledger legs from what it   *)
(* read, however stale by then.  Stripe is not here: it may answer what it *)
(* could not in Gateway, and nothing keeps two handlers from applying one  *)
(* event.  What holds for these writers holds for Gateway's, and both      *)
(* implement Postings.  Who reads has been authenticated (ApiKeys) as one  *)
(* merchant.                                                               *)
(***************************************************************************)
EXTENDS LedgerService, FiniteSets

CONSTANTS
    Handlers,           \* requests and deliveries that may be under way at once
    Intents,            \* PaymentIntents that may be created, each with its merchant
    Amounts,            \* what a payment may ask for
    Adjustments,        \* legs and currency of manual adjustments, balanced or not
    Filters,            \* filters of the list: status and currency, "any" is none
    MaxTransactions,    \* bound: transactions in the ledger
    MaxAdjustments,     \* bound: adjustments among them
    PageSize            \* page_size of the list

ASSUME DashboardAssumption ==
    /\ Intents \subseteq [merchant : STRING, currency : STRING, n : Nat]
    /\ \A k \in Intents : k.merchant # ""
    /\ Amounts \subseteq Nat \ {0}
    /\ MaxTransactions \in Nat /\ MaxAdjustments \in Nat
    /\ PageSize \in Nat \ {0}

ASSUME AdjustmentsAssumption ==
    \A a \in Adjustments : a.legs \in Seq(Legs({leg.account : leg \in Range(a.legs)}))

VARIABLES
    payment_intents,    \* the row of each intent
    began,              \* intents in the order their create's transaction began
    ledger_entries,
    held,               \* what each handler has read and not yet committed
    walk,               \* a client that reads the list page by page
    detail              \* a read of one payment

tables == <<payment_intents, began, ledger_entries>>
vars == <<tables, held, walk, detail>>

\* requires_payment_method stands for every status that is not terminal.
Statuses == {"requires_payment_method", "succeeded", "canceled"}

Rows == [status : Statuses \union {"absent"}, amount : Nat, received : Nat, refunded : Nat]

NoRow == [status |-> "absent", amount |-> 0, received |-> 0, refunded |-> 0]

Exists(k) == payment_intents[k].status # "absent"

\* A payment_intent_id that is NULL.
NoIntent == [merchant |-> "", currency |-> "", n |-> 0]

Merchants == {k.merchant : k \in Intents}

\* A handler of an operation on an intent, with the row as it read it.
NoRead == [op |-> "none"]

Reads == [op : {"confirm", "cancel", "apply", "refund"}, intent : Intents, row : Rows]

NoWalk == [pc |-> "idle"]

Walks == [pc : {"page", "end"}, merchant : Merchants, filter : Filters,
          page : Nat, shown : SUBSET Intents, start : SUBSET Intents]

NoDetail == [pc |-> "idle"]

TypeOK ==
    /\ payment_intents \in [Intents -> Rows]
    /\ began \in Seq(Intents)
    /\ held \in [Handlers -> {NoRead} \union Reads]
    /\ walk = NoWalk \/ walk \in Walks
    /\ detail = NoDetail \/ detail.intent \in Intents

Reading == walk # NoWalk \/ detail # NoDetail

-----------------------------------------------------------------------------
(* The writers.                                                            *)

Transactions == {e.transaction_id : e \in ledger_entries}

\* A new id: here, the intent and a number.
NewTransactionId(k) == <<k, Cardinality({id \in Transactions : id[1] = k}) + 1>>

\* record_transaction: what is not balanced is refused, and the request with it.
RecordTransaction(legs, currency, payment_intent_id) ==
    /\ Cardinality(Transactions) < MaxTransactions
    /\ Balanced(legs)
    /\ ledger_entries' = ledger_entries \union
           EntriesOf(NewTransactionId(payment_intent_id), legs, currency, payment_intent_id)

\* A commit of a payment's row and of one pair of legs.
Writes(k, row, debit, credit, amount) ==
    /\ payment_intents' = [payment_intents EXCEPT ![k] = row]
    /\ RecordTransaction(Pair(debit, credit, amount), k.currency, k)
    /\ UNCHANGED <<began, walk, detail>>

\* The transaction of a create begins at its first query, before the call to
\* Stripe: created_at is that moment, not the commit's.
BeginCreate(k) ==
    /\ \A i \in DOMAIN began : began[i] # k
    /\ began' = Append(began, k)
    /\ UNCHANGED <<payment_intents, ledger_entries, held, walk, detail>>

CreateIntent(k) ==
    /\ \E i \in DOMAIN began : began[i] = k
    /\ ~Exists(k)
    /\ \E amount \in Amounts :
           Writes(k, [status |-> "requires_payment_method", amount |-> amount,
                      received |-> 0, refunded |-> 0],
                  "customer_pending", "payments_authorised", amount)
    /\ UNCHANGED held

\* A handler reads the row of k, which lets it go on with op.
Loads(h, op, k) ==
    /\ held[h] = NoRead
    /\ held' = [held EXCEPT ![h] = [op |-> op, intent |-> k, row |-> payment_intents[k]]]
    /\ UNCHANGED <<tables, walk, detail>>

Done(h) == held' = [held EXCEPT ![h] = NoRead]

ConfirmFind(h, k) ==
    /\ payment_intents[k].status = "requires_payment_method"
    /\ Loads(h, "confirm", k)

\* Stripe's answer, if it is another status than the one that was read (which
\* stands for several).
ConfirmCommit(h) ==
    /\ held[h].op = "confirm"
    /\ \/ UNCHANGED payment_intents
       \/ \E reply \in {"requires_payment_method", "succeeded"} :
              payment_intents' = [payment_intents EXCEPT ![held[h].intent].status = reply]
    /\ Done(h)
    /\ UNCHANGED <<began, ledger_entries, walk, detail>>

CancelFind(h, k) ==
    /\ payment_intents[k].status = "requires_payment_method"
    /\ Loads(h, "cancel", k)

\* Mutant: the legs of the reversal are those of the accrual.
CancelCommitSwapped(h) ==
    /\ held[h].op = "cancel"
    /\ LET k == held[h].intent IN
       Writes(k, [payment_intents[k] EXCEPT !.status = "canceled"],
              "customer_pending", "payments_authorised", held[h].row.amount)
    /\ Done(h)

CancelCommit(h) ==
    /\ held[h].op = "cancel"
    /\ LET k == held[h].intent IN
       Writes(k, [payment_intents[k] EXCEPT !.status = "canceled"],
              "payments_authorised", "customer_pending", held[h].row.amount)
    /\ Done(h)

\* The early return is for SUCCEEDED alone.
ApplyFind(h, k) ==
    /\ payment_intents[k].status \notin {"absent", "succeeded"}
    /\ Loads(h, "apply", k)

\* The event's amount_received is the whole amount.
ApplyCommit(h) ==
    /\ held[h].op = "apply"
    /\ LET k == held[h].intent
           amount == held[h].row.amount
       IN  Writes(k, [payment_intents[k] EXCEPT !.status = "succeeded", !.received = amount],
                  "payments_authorised", "payments_captured", amount)
    /\ Done(h)

Refundable(row) == row.received - row.refunded

RefundFind(h, k) ==
    /\ payment_intents[k].status = "succeeded"
    /\ Refundable(payment_intents[k]) > 0
    /\ Loads(h, "refund", k)

\* Mutant: the sign is wrong.
RefundCommitWrongSign(h) ==
    /\ held[h].op = "refund"
    /\ LET k == held[h].intent
           seen == held[h].row
       IN  \E amount \in 1 .. Refundable(seen) :
               Writes(k, [payment_intents[k] EXCEPT !.refunded = seen.refunded - amount],
                      "payments_captured", "customer", amount)
    /\ Done(h)

\* amount_refunded is written as it was read plus the refund.
RefundCommit(h) ==
    /\ held[h].op = "refund"
    /\ LET k == held[h].intent
           seen == held[h].row
       IN  \E amount \in 1 .. Refundable(seen) :
               Writes(k, [payment_intents[k] EXCEPT !.refunded = seen.refunded + amount],
                      "payments_captured", "customer", amount)
    /\ Done(h)

\* A refusal by Stripe, an exception or a crash.
Abort(h) ==
    /\ held[h] # NoRead
    /\ Done(h)
    /\ UNCHANGED <<tables, walk, detail>>

\* "Manual adjustments" belong to no intent; nothing in the service makes them.
Adjust ==
    /\ Cardinality({id \in Transactions : id[1] = NoIntent}) < MaxAdjustments
    /\ \E a \in Adjustments : RecordTransaction(a.legs, a.currency, NoIntent)
    /\ UNCHANGED <<payment_intents, began, held, walk, detail>>

-----------------------------------------------------------------------------
(* list_transactions, page after page.                                     *)

\* The rows a query with the merchant and the filter selects.
Selected(merchant, filter) ==
    {k \in Intents :
        /\ Exists(k)
        /\ k.merchant = merchant
        /\ filter.status \in {"any", payment_intents[k].status}
        /\ filter.currency \in {"any", k.currency}}

CreatedAt(k) == CHOOSE i \in DOMAIN began : began[i] = k

\* How many of rows come before k, newest first.
Before(k, rows) == Cardinality({j \in rows : CreatedAt(j) > CreatedAt(k)})

\* Mutant: the first page is page 0.
OffsetFromZero(page) == page * PageSize

Offset(page) == (page - 1) * PageSize

Page(rows, page) == {k \in rows : Before(k, rows) \in Offset(page) .. Offset(page) + PageSize - 1}

\* start is kept for the property alone.
OpenList(merchant, filter) ==
    /\ ~Reading
    /\ walk' = [pc |-> "page", merchant |-> merchant, filter |-> filter, page |-> 1,
                shown |-> {}, start |-> Selected(merchant, filter)]
    /\ UNCHANGED <<tables, held, detail>>

\* A client goes on until a page is not full.  The total beside the rows is an
\* earlier query's: a row committed between the two can move another one past
\* the page at which the total says to stop, so the total is no guide.
ReadPage ==
    /\ walk.pc = "page"
    /\ LET items == Page(Selected(walk.merchant, walk.filter), walk.page)
           full == Cardinality(items) = PageSize
       IN  walk' = [walk EXCEPT !.pc = IF full THEN "page" ELSE "end",
                                !.page = IF full THEN @ + 1 ELSE @,
                                !.shown = @ \union items]
    /\ UNCHANGED <<tables, held, detail>>

CloseList ==
    /\ walk # NoWalk
    /\ walk' = NoWalk
    /\ UNCHANGED <<tables, held, detail>>

-----------------------------------------------------------------------------
(* get_transaction.                                                        *)

\* The row; one of another merchant is as good as none (404).
ReadRow(merchant, k) ==
    /\ ~Reading
    /\ Exists(k) /\ k.merchant = merchant
    /\ detail' = [pc |-> "entries", intent |-> k, row |-> payment_intents[k], entries |-> {}]
    /\ UNCHANGED <<tables, held, walk>>

\* Mutant: a limit left in the query, so only the oldest pair is shown.
ReadEntriesLimited ==
    /\ detail.pc = "entries"
    /\ detail' = [detail EXCEPT !.pc = "shown",
           !.entries = {e \in list_entries_for_intent(ledger_entries, detail.intent) :
                           e.transaction_id[2] = 1}]
    /\ UNCHANGED <<tables, held, walk>>

\* Its entries, in a query of their own; the row is not read again.
ReadEntries ==
    /\ detail.pc = "entries"
    /\ detail' = [detail EXCEPT !.pc = "shown",
           !.entries = list_entries_for_intent(ledger_entries, detail.intent)]
    /\ UNCHANGED <<tables, held, walk>>

CloseDetail ==
    /\ detail # NoDetail
    /\ detail' = NoDetail
    /\ UNCHANGED <<tables, held, walk>>

-----------------------------------------------------------------------------
Init ==
    /\ payment_intents = [k \in Intents |-> NoRow]
    /\ began = <<>>
    /\ ledger_entries = {}
    /\ held = [h \in Handlers |-> NoRead]
    /\ walk = NoWalk
    /\ detail = NoDetail

Next ==
    \/ \E k \in Intents : BeginCreate(k) \/ CreateIntent(k)
    \/ \E h \in Handlers, k \in Intents :
           ConfirmFind(h, k) \/ CancelFind(h, k) \/ ApplyFind(h, k) \/ RefundFind(h, k)
    \/ \E h \in Handlers :
           ConfirmCommit(h) \/ CancelCommit(h) \/ ApplyCommit(h) \/ RefundCommit(h) \/ Abort(h)
    \/ Adjust
    \/ \E m \in Merchants : (\E f \in Filters : OpenList(m, f)) \/ (\E k \in Intents : ReadRow(m, k))
    \/ ReadPage \/ CloseList
    \/ ReadEntries \/ CloseDetail

Spec == Init /\ [][Next]_vars

-----------------------------------------------------------------------------
\* The balance view of a merchant: what get_balances_by_currency joins.
ViewOf(merchant) == {e \in ledger_entries : e.payment_intent_id.merchant = merchant}

NetsToZero(entries) ==
    LET balances == get_balances_by_currency(entries) IN
    \A c \in DOMAIN balances : SumFunction(balances[c]) = 0

\* Whatever legs callers ask for, the whole ledger and each merchant's view of
\* it net to zero in every currency (record_transaction's checks, and that all
\* legs of a transaction carry one currency and one intent).
ViewsNetToZero ==
    /\ NetsToZero(ledger_entries)
    /\ \A m \in Merchants : NetsToZero(ViewOf(m))

\* A list read to its end, while rows are created and changed, has shown every
\* row that was there when it began, if rows cannot leave the filter meanwhile:
\* a create that commits late takes a place among the older ones.
ListMissesNothing ==
    walk.pc = "end" /\ walk.filter.status = "any" => walk.start \subseteq walk.shown

\* What a payment's page shows of its row is in the entries it shows: as the row
\* is read first and entries are only added, no reader sees money received,
\* refunded or accrued without the entries that say so.
DetailCoversRow ==
    detail.pc = "shown" =>
        LET row == detail.row
            Shown(account) == get_balance(detail.entries, account, detail.intent.currency)
        IN  /\ \E e \in detail.entries : e.account = "customer_pending" /\ e.amount = row.amount
            /\ Shown("customer") >= row.refunded
            /\ Shown("payments_captured") + Shown("customer") >= row.received

-----------------------------------------------------------------------------
\* The writers' rows and entries, an intent's entries taken by their balances,
\* implement the postings that Gateway implements: legs are transfers.
EntryBooks ==
    [k \in Intents |-> [a \in Accounts |->
        get_balance(list_entries_for_intent(ledger_entries, k), a, k.currency)]]

PostingsOfEntries == INSTANCE Postings WITH rows <- payment_intents, books <- EntryBooks

ImplementsPostings == PostingsOfEntries!Spec
=============================================================================
