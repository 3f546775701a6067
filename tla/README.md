# 6ix Gateway in TLA+

TLA+ modules, TLC configurations and TLAPS proofs for the 6ix Gateway, a payment
gateway on top of Stripe (FastAPI, SQLAlchemy async, PostgreSQL). This file says
what the system's parts are, which module models which part, what the checks and
the proofs show, and what is left.

## The system

| Part | Code | State it keeps | Operations |
|---|---|---|---|
| Payment service | `app/services/payment.py`, `app/api/payments.py`, `app/api/refunds.py` | `payment_intents` | `create_intent`, `confirm_intent`, `cancel_intent`, `refund_intent`, `apply_succeeded_event` |
| Ledger | `app/services/ledger.py` | `ledger_entries`, append-only | `record_transaction`, balances |
| Checkout sessions | `app/services/checkout_session.py`, `app/api/checkout_sessions.py` | `checkout_sessions` | `create_session`, `get_open_session` (expires lazily), `complete_session` |
| Webhook receiver | `app/api/webhooks.py` | `webhook_events` | one delivery of one event |
| Hosted page | `main.py`, `app/static` | none | reads a session, gives the browser the form and the secret to pay with |
| Stripe | `app/services/stripe_client.py` calls it | its PaymentIntents, saved answers by idempotency key, events | create, confirm, cancel, refund |
| Reconciliation worker | `app/workers/reconciliation.py` | `reconciliation_runs` | `reconcile_day`, `reconcile_recent` |
| Merchants and API keys | `app/services/api_key.py`, `merchant.py`, `app/api/merchants.py`, `app/core/auth.py` | `merchants`, `api_keys` | onboard, issue, revoke, verify |
| Dashboard | `app/api/dashboard.py` | none | balance, paginated list, detail |

The parts meet in the database and at Stripe. An API request reads a row, calls
Stripe while it holds neither a lock nor an open write, and commits the row and
its ledger entries. A customer pays at Stripe, without the gateway. Stripe then
delivers an event until it is answered 200, and the webhook books the capture and
completes the session. There are no row locks, no version columns and no retries;
what protects the data are unique constraints on `idempotency_key`,
`stripe_payment_intent_id` and the event's id, Stripe's idempotency keys, and
the order in which a handler reads, calls and writes.

What is hard here, therefore: every handler is cut in two or three by its awaits,
and anything can run in the cut; an answer of Stripe can be lost, replayed or
overtaken; a process can die after Stripe has acted and before the commit; an
event can be delivered twice at once, again after its effects are in, or to a
gateway that has no row for it; and `complete_session` commits the webhook's
transaction in the middle of the handler. A key is verified in three awaits, between
which it can be revoked; a dashboard response is put together from queries that see
different moments. `PROJECT.json` lists these hazards, each at its line.

## The modules

| Module | Models | Extends |
|---|---|---|
| `Ledger` | the balances of the accounts of one intent, and a two-leg transaction | |
| `GatewayState` | constants, the variables all handlers share, their types, the initial state | `Ledger` |
| `Stripe` | Stripe, external: executing or replaying a call, customers paying, payments settling | `GatewayState` |
| `PaymentService` | the four operations of the API, each as `Find`, `Stripe`, `Commit`; `Abort` | `Stripe` |
| `CheckoutSessionService` | `create_session` after `create_intent`, page loads, lazy expiry | `PaymentService` |
| `Webhooks` | a delivery: `Receive`, `InsertEvent`, `Apply`, `FindSessionOfEvent`, `CompleteSession`, `Finish`, `AbortHook` | `CheckoutSessionService` |
| `Gateway` | `Next`, `Spec`, fairness, the properties, the inductive invariant, the two refinement mappings | `Webhooks` |
| `Reconciliation` | the gateway with a clock (UTC days), Stripe's balance transactions, `updated_at`, and the two passes of the worker | `Gateway` |
| `Postings` | abstract: a row and its books change together, by one of five postings | `Ledger` |
| `Payments` | abstract: a payment is asked for, then paid or canceled, then refunded in parts | `Ledger` |
| `LedgerService` | the checks, entries and balances of `services/ledger.py`, as operators | `Ledger` |
| `Dashboard` | the dashboard's three reads beside the writers of rows and entries | `LedgerService` |
| `ApiKeys` | merchants, keys, and the authentication of a call | |
| `GatewayProofs` | theorems: types, agreement with Stripe, refunds within what was received, accruals | `Gateway` |
| `GatewayRefinement` | theorems: `Gateway` implements `Postings`, refunds are booked, and booked refunds are Stripe's if keys are distinct | `GatewayProofs` |
| `CaptureProofs` | theorems: the properties that need no confirm | `GatewayRefinement` |
| `PaymentsProofs` | theorems: the properties that need one call in flight; `Gateway` implements `Payments` | `CaptureProofs` |
| `Sums` | lemmas: sums of integers over finite sets | |
| `ReconciliationProofs` | theorems: what the worker reports | `Reconciliation`, `CaptureProofs`, `Sums` |
| `DashboardProofs` | theorems: the list misses nothing, views net to zero, details cover rows, `Dashboard` implements `Postings` | `Dashboard`, `Sums` |
| `ApiKeysProofs` | theorems: authentication | `ApiKeys` |
| `MCGateway`, `MCReconciliation`, `MCDashboard`, `MCApiKeys` | instances for TLC | |

Operators that a comment marks "Mutant" are variants of the definition
that follows them, with a bug that each property is shown to catch. The state
of the gateway corresponds to the code thus:

* `payment_intents[k]` is the row of intent `k`: `status`, `amount`,
  `amount_received` and `amount_refunded`. `status = "absent"` is "no row".
* `ledger[k]` holds the balances (credits minus debits) of the entries of `k`.
  The payment service and the worker compute nothing but balances from the entries; the
  entries themselves are `Dashboard`'s.
* `webhook_events[<<k, type>>]` is absent, received (a row without `processed_at`)
  or processed.
* `checkout_sessions[r]` is the session that request `r` inserted; `overdue` are
  those past `expires_at`; `expiring` are page loads that have read a session as open and
  past its TTL and have not yet committed EXPIRED. A page load gives a browser the
  `client_secret`, but so does every read of the row (`PaymentIntentRead`), so a customer
  can pay as soon as there is a row, and the pages add nothing to that.
* `call[r]` and `hook[d]` are the local variables of a handler between two awaits:
  where it stands, the row it has loaded, the answer it has got, what it has staged.
* `stripe_pi` and `stripe_saved` are Stripe's objects and its saved answers.

A step is what a handler does between two awaits that matter: the read with the
decision taken on it, the call to Stripe, the commit. A row is loaded once per
request and not reloaded, as SQLAlchemy's identity map has it (`autoflush=False`,
`expire_on_commit=False`), and an assignment that does not change the loaded
value writes nothing.

Abstractions, all deliberate:

* The writes of a transaction take effect at its commit (READ COMMITTED). The only
  blocking that matters, a second insert of the same event's row, is in `InsertEvent`.
* A create's idempotency key *is* its intent, and currency, customer, description
  and metadata are left out: a conflict on the amount stands for one on the currency.
* Stripe's idempotency keys do not expire, and an answer that is an error is not
  saved. A refusal by Stripe changes nothing there; for the gateway it is an exception,
  like a lost answer or a crash: all are `Abort`.
* `processing_error` is written and never read: it is left out.
* `payment_intent.canceled` and `payment_intent.payment_failed` are only logged, so
  one event type, `"canceled"`, stands for both.
* Authentication and the scoping by merchant are `ApiKeys`' and `Dashboard`'s.

In `ApiKeys`, `merchants` and `api_keys` are the rows (inactive and revoked are
`is_active = False`), named after the call that inserted them; `held` are the keys
whose plaintext reached the operator, as an answer can be lost; `api_call[a]` is what a
call has loaded, and where it stands: `FindKey`, `FindMerchant`, `Stamp` are the three
awaits of `verify_api_key`. Two keys may have one prefix; equal hashes are equal keys.
Inactivity has no endpoint, so `Deactivate` is the operator's write to the table.

In `Dashboard`, `ledger_entries` are the entries themselves, and a balance is computed from
them as the code does. Its writers are handlers, each a read of the row and a commit from
what was read (`held`), which may be stale by then: two captures and lost updates of
`amount_refunded` are among its behaviours. Stripe is left open there: a handler may be
given an answer Stripe could not give, and nothing keeps two from applying one event, so the
writers can do more than `Gateway`'s. What both have in common is `Postings`. `began` is the
order of `created_at`: Postgres' `now()`, the start of the transaction of a create, before
its call to Stripe, so that a row can appear behind rows that were there before it. `walk`
is a client reading the list page by page, `detail` a read of one payment between its two
queries.

## The runs

Of the seven passing runs three are of the gateway (`MCGateway`), as are the five
violations; `Serial` says whether clients have one call in flight per intent. Each request
is sent at most once; a resend is another request with the same `idem`. Deliveries and
viewers are attempts that can be made again and again, so their number bounds how many are
*concurrent*, not how many there are. Deadlock is not checked because the system really
stops when no request is left, nothing is left to issue, or the bound on transactions is
reached.

| Run | Shows |
|---|---|
| `races` | creates with one key and two amounts, a confirm, two cancels with one key, two refunds, a paying customer, a delivery and one of a foreign intent, all interleaved: `TerminalAgrees`, `SameAmount`, `RefundWithinReceived`, `RefundsBooked`, `RefundsBookedAreReal`, the strengthening `IInv`, and `ImplementsPostings` |
| `session_races` | two creates of one session and a plain create with their key, a cancel, a page load, two deliveries, no confirm: `AccruedOnce`, `CapturedOnce`, `CompletedIsBooked`, `AckedIsBooked`, `SucceededIsFinal`, `PaidSessionCompleted` |
| `retries` | one call at a time, everything resent, both events, one of them delivered twice at once: `BooksMatchRow`, `OneSessionPerIntent`, `ImplementsPayments`, and the liveness property `PaidIsBooked` |
| `reconciliation` | a create, a confirm, two racing refunds, a delivery and a foreign payment around one midnight, with both passes of the worker: `TotalsExplained`, `MismatchExplained`, `UnbookedIsReported`, `NoFalseDrift` |
| `api_keys` | an onboarding resent, keys with one prefix, an issue resent, revocations and deactivations between the awaits of two calls: `TakenForOwner`, `ShutOutStaysOut`, `RevocationIsFinal`, and `IInv` |
| `dashboard` | three payments of two merchants in two currencies and adjustments with arbitrary legs, a list read page by page: `ViewsNetToZero`, `ListMissesNothing` |
| `details` | one payment, two handlers that race over it, its page read in two queries: `TypeOK`, `DetailCoversRow`, and `ImplementsPostings` of the entries |

and five runs show that the code departs from what it documents:

| Run | What happens | What is said |
|---|---|---|
| `confirm_unbooked` | a confirm answered `succeeded` writes the status; the webhook's early return then books nothing | README "`PaymentIntent.status` only advances past `requires_action` inside the webhook handler" |
| `refund_resent` | a refund resent with its key is booked again | README "short-circuits on replay" |
| `refund_lost` | of two concurrent refunds `amount_refunded` keeps one, the books have both | `refund_intent`'s docstring |
| `session_twice` | two creates with one key insert two sessions | `create_session`'s docstring "Idempotent" |
| `late_expiry` | a page load overwrites COMPLETED with EXPIRED (`CompletedIsFinal`) | `complete_session`'s docstring |

The properties of the gateway fall in three groups by what they need, which is itself a result:

1. *Whatever the clients do*: a terminal status is Stripe's, the amount is
   Stripe's, never more is recorded as refunded than was received or is in the books, an
   authorisation is accrued once, and every step is a posting. A session that was there
   before its payment, expired ones included, is completed when the event is acknowledged
   (`PaidSessionCompleted`), with two exceptions: one completed behind the back of a page
   load (`late_expiry`), and one inserted after the payment.
2. *While nobody uses confirm* (the hosted page does not): a capture is booked at
   most once, completed sessions and acknowledged events are booked, succeeded is
   final. `confirm_unbooked` shows why the condition is needed. `RefundsBookedAreReal`
   needs distinct refund keys instead (`refund_resent`).
3. *While, besides, clients have one call in flight per intent*: the row
   determines the books, one session per intent. `refund_lost` and `session_twice` show why.

Why the bounds are enough: no handler looks at more than one intent, so one intent
(and a foreign one, for the events the gateway has no row for) is the whole
system; a race between handlers of a kind needs two of them, and a third that inserts the
same row (the plain create of `session_races`) shows that a loser does not behave
differently once a winner is in. Amounts 1 and 2 make partial and full refunds, and refunds that no longer fit.
Two concurrent deliveries are the duplicate; redelivery is unbounded.

In `api_keys` a call is compared with one key and one merchant, so two calls are already one
more than a race with the operator needs, and a key and its merchant shut out in either
order need one of each; the second merchant is the one a call could be mistaken for. In
`dashboard`, `PageSize = 1` makes the most pages of the fewest rows: with two rows of one
merchant, one is inserted before or behind the other, or changes, between two pages;
`MaxTransactions = 4` lets one payment be accrued, captured and refunded twice, or two be
accrued beside each other's changes. One handler is enough there, as no property of lists or
views reads a row's money. In `details` two handlers hold reads of one row at once; its five
transactions are an accrual, a capture and two refunds, and one more: the second capture
that a stale answer to a confirm opens the way to. It has no adjustment, since one without
an intent has no page. In `dashboard` adjustments have one or two legs of 0 or 1, of which
only balanced positive pairs are accepted.

In `reconciliation`, two days (one midnight) are enough because a run looks at one day and
everything else is "another day"; `MaxRuns = 1` because runs do not read one another.
`updated_at` is Postgres' `now()`, the start of the transaction: a handler that began
before midnight and commits after the run of its day writes a row into a day already
reconciled, so `MismatchExplained` speaks of the moment of the run, and
`UnbookedIsReported` of every later one. The last says that reconciliation is the safety
net for the capture that `confirm_unbooked` shows missing: `reconcile_recent` cannot see
it (row and books agree on nothing), `reconcile_day` always does.

Fairness. `Fairness` asks, for each intent of ours and each step of a delivery of its
succeeded event, that *some* delivery takes the step if deliveries can take it again and
again (strong fairness). That is Stripe's redelivery until 200, and that not every
attempt dies at the same await. Nothing is assumed of the customer, of API
clients or of any one attempt; `Abort` and `AbortHook` may strike everywhere, any
number of times.

## The abstract specifications

`Postings` is what a reader of the tables may rely on whatever the clients do, confirm and
races included: a row and its entries change in one step, a step is an accrual, a status, a
reversal, a capture or a refund, and the amount that moves is the one the row accounts for.
`Gateway` implements it with `rows` and `books` as they are (`ImplementsPostings` in
`races`); `Dashboard` implements it with `books` computed from ledger entries (in
`details`), so the two models of the writers meet there. It deliberately promises no "once":
two cancels with one key reverse twice, and a lost update leaves `refunded` behind the
books, which is why a refund's total is only bounded by what the books say.

`Payments` is what a merchant means by a payment: open, then paid or canceled, never
both, refunded in parts, its books a function of its phase. `Gateway` implements it in
`retries` (`ImplementsPayments`), where clients leave confirm alone and have one call in flight;
`confirm_unbooked`, `refund_resent`, `refund_lost` show that neither condition can be dropped.

## The proofs

`GatewayProofs` proves for every set of intents, requests, deliveries and viewers and
every `Serial`:

* `TypeCorrect`: `Spec => []TypeOK`. Not a formality: that `amount_received` and
  `amount_refunded` stay natural numbers needs `CallsOK`, what `refund_intent` has
  checked on the row it holds.
* `Invariant`: `Spec => []IInv`, and from it `TerminalStatusesAgree`,
  `AmountsAgree` and `RefundsStayWithinReceived`.
* `AccrualsAreOnce`: `Spec => []AccruedOnce`, which is inductive relative to `IInv`: only the
  commit of a create debits `customer_pending`, it inserts the row or fails, and by
  `RefundsFit` there was nothing to debit for before; a cancel only credits it.

The argument. A handler writes what it learned before an await; so for a
property of the rows to be invariant, what handlers in progress know has to stay true
until they commit. `StripeKnows` says that for statuses and amounts: a status
`succeeded` or `canceled` that is in a saved answer, in a request's hands, or in an
event being delivered is Stripe's status, and Stripe never leaves these two; the
object a create got asks for the create's amount. `RefundsFit` says it for refunds: once
a refund has been accepted, `amount_received` of the row is what it was in the copy
the refund has checked, as it is written once. Then `refunded` is `seen.refunded + amount`
with `amount <= seen.received - seen.refunded`, hence at most `received`, however stale
`seen.refunded` is: the lost update loses a refund, it never exceeds what was received.
`IInv` is the conjunction of these, and each of its three parts (types and checked
requests, agreement with Stripe, refunds) has its own lemma per component.

The proofs rest on the named assumptions of `GatewayState`, which say what
`Requests`, `Deliveries` and `Serial` are, and that a create asks for a positive amount
(`PaymentIntentCreate` requires `ge=1`), and on nothing else.

`GatewayRefinement` proves, with the same generality, that the gateway implements its
first abstract specification:

* `GatewayImplementsPostings`: `Spec => ImplementsPostings`. Initial states map to
  initial states, and each of the five commits maps to its posting (`CreatePosts`,
  `ConfirmPosts`, `CancelPosts`, `RefundPosts`, `CommitPosts`), every other step to a
  stutter (`NextPosts`). That needs more than `IInv`: that the total a refund will write
  is covered by the books, and that what a cancel takes back is the amount of the row.
  `RInv` adds these; its preservation is argued through the abstract step: a posting
  keeps amounts and never lowers the refunds in the books (`PostingKeeps`), so whatever a
  waiting request knew of them is still true.
* `RefundsAreBooked`: `Spec => []RefundsBooked`, from `RInv`.

and under one hypothesis, `DistinctRefundKeys` (no two refunds of an intent have one key;
`Races` satisfies it, `refund_resent` shows why it is needed):

* `BookedRefundsAreReal`: `Spec => []RefundsBookedAreReal`, confirm allowed. Neither side
  keeps the requests it adds up, so amounts are compared by counting. A saved
  answer to a refund of `n` is split into `n` coins (`Coins`): those of an intent's saved
  answers are at most `refunded` of its object, those whose request is done at least what
  the books have, and the second are among the first. A commit adds coins that were not
  there, because its answer is saved and no other request has its key.

`CaptureProofs` proves the second group under the hypothesis `NoConfirm` (no request is a
confirm; the instances of `session_races` and `retries` satisfy it, `confirm_unbooked`
shows why it is needed), with nothing assumed of overlapping calls:

* `CaptureInvariant`: `Spec => []CInv`, and from it `CapturesAreOnce` (`CapturedOnce`),
  `CompletedAreBooked` (`CompletedIsBooked`), `AckedAreBooked` (`AckedIsBooked`) and
  `SucceededStays` (`SucceededIsFinal`).

The argument has three parts. `InsertsExclude` is what the primary key of `webhook_events`
does: of the deliveries of an event at most one holds its uncommitted row, so at most one
has staged a capture, and one that found the row has seen a transaction that committed
it. `RowsComeFirst`: a customer pays with a secret that came from a row, so the row is there
before the event, which is why an event without a row is a foreign one. `CaptureKnows`: a
delivery that has staged the capture has done so of a row that is not `succeeded`, and
nobody else makes it so; one past `Apply` that has not staged it has seen `succeeded`,
which is final. Then `BooksFollow`: received and captured are the whole amount or nothing.

`PaymentsProofs` proves the third group, under `Serial`:

* `SessionsAreOne`: `Spec => []OneSessionPerIntent`, confirm or not. The read of
  `find_by_payment_intent` still holds at the insert, as nobody else is in flight.
* `BooksAreOfRow` (`BooksMatchRow`) and `GatewayImplementsPayments`
  (`ImplementsPayments`), with `NoConfirm`. `ReadsHold` is what the discipline gives:
  what a refund or cancel has read of the row is still so at its commit. Then every commit
  is a step of `Payments`, and the books, being those of the phase, follow.

and one of the first group, without `Serial` or any other hypothesis:

* `PaidSessionsComplete`: `Spec => PaidSessionCompleted`. A delivery that inserts the
  event's row does so after the payment, so its query finds a session that was there
  before it, be it open or expired; with two sessions it fails and acknowledges nothing.
  A delivery that finds the event processed relies on the one that processed it. From then
  on only a page load that read the session earlier can take `completed` back.

`ReconciliationProofs` proves for every number of days and runs, whatever clients do:

* `WorkerOnlyReads`: `ReconciliationSpec => Spec`, so every theorem about `Spec` holds beside it;
* `UnbookedAreReported` (`UnbookedIsReported`), `MismatchesAreExplained`
  (`MismatchExplained`) and `DriftsAreReal` (`NoFalseDrift`), from the invariant `WInv`.

The worker reads at several moments, so each verdict is argued from what only grows or is
final: captured money and refunds in the books, an object that has succeeded, a day
that is over (`ListingHolds`). The last cause in `NoFalseDrift` came out of the proof: a
stale answer to a confirm takes a row out of `succeeded`, the capture is booked again, and
refunds can then make `payments_captured` look right by coincidence. The pass that saw
the row before reported a real difference, which shows in what was captured at all. It
takes a confirm and a refund key sent three times, more than `Reconciliation.cfg` has.

* `TotalsAreExplained` (`TotalsExplained`). Both totals are sums over the payments on either
  side, with 0 where one side has none; payments on both sides with equal amounts add
  nothing to the difference (`SumOfRest`), and those left are the mismatches, one each
  (`SumOfImage`). A sum says something only of finite sets: `AtStripe` is finite
  because a step adds one payment at most, so `Intents` itself may be infinite.

`Sums` is what the last theorem and half of `DashboardProofs` rest on: the community
modules' `SumFunctionOnSet` recurses over what is left of a set when some element is
taken. The library's induction theorems have an operator as a parameter, which no prover
here can instantiate; so `Sums` states induction about sets (`Counting`, `BuiltUp`, from
the minimal elements of a well-founded relation, `WFMin`), shows that the function the sum
recurses with exists and is the only one (`AddsExists`, `AddsUnique`), that any element may be
taken first (`SumTake`), and from it how sums split, subtract, are reindexed, and are
taken fibre by fibre (`SumOfParts`, `SumOfDifferences`, `SumOfImage`, `SumOfFibres`).

`DashboardProofs` proves for every page size, filter and set of payments:

* `DashboardTypeCorrect`: `Spec => []TypeOK`;
* `ListsMissNothing`: `Spec => []ListMissesNothing`. Rows are ranked by when their create
  began. A row that appears comes before or behind another, and never makes its rank
  smaller (`RankGrows`), so what a walk has not shown lies at or behind its offset
  (`Holds`); and ranks have no gaps, so a page that is not full has nothing behind it (`PageIsFull`).
* `ViewsAreBalanced`: `Spec => []ViewsNetToZero`, from `LedgerInvariant`. Net to zero is not
  inductive for the views one looks at, but for the entries of *any* set of intents it is
  (`LedgerNets`): balanced legs of any accounts make entries that cancel out
  (`LegsCancelOut`), a transaction has one currency and one intent, and its id is new, so
  its entries are (`NewIdIsNew`). A view's balances add up to its net (`BalancesNet`).
* `DashboardImplementsPostings`: `Spec => ImplementsPostings`, from `TablesInvariant`. The
  invariant says that the entries of an intent cover what its row has received and refunded
  (`RowsCovered`), and what each copy of the row in a handler's hands has (`HeldCovered`).
  They are inequalities because equality is false: a lost update leaves the row behind its
  entries, and so does a second capture. A commit writes what it read plus an amount, and posts
  that amount, so it keeps them. A pair of legs moves exactly two balances of one intent
  (`WritesMove`), and an adjustment, which has no intent, none (`AdjustPostsWell`).
* `DetailsCoverRows`: `Spec => []DetailCoversRow`. Between the two queries a row may even
  lose a refund, but balances that cover a row only grow (`MoneyGrows`), so the entries read
  later still cover the row that was read (`RowKept`).

They rest on `DashboardAssumption`, and on `AdjustmentsAssumption`: a leg has an account, one of
two directions and an integer amount, as `LedgerLeg` declares. Nothing is assumed of how
many legs there are, of their signs or sums: `record_transaction` checks them.

`ApiKeysProofs` proves for every set of onboardings, issues and calls, whatever prefixes
the keys have:

* `Invariant`: `Spec => []IInv`, and from it `CallersAreOwners` (`TakenForOwner`)
  and `ShutOutIsShutOut` (`ShutOutStaysOut`);
* `RevokedForGood`: `Spec => RevocationIsFinal`, an action property.

The argument: what a call has matched is what it presented (`Matched`), and a call whose
key was already shut out when it began got past `FindKey` only because it was its
merchant that was inactive, which no step undoes, so `FindMerchant` refuses it. They rest
on `CallsAssumption` alone.

Only model-checked: `PaidIsBooked`, since liveness under fairness is out of the prover's
reach. Every other property of a passing run is a theorem.

## What is left

A proof of `PaidIsBooked`, for which `AckedAreBooked` and `PaidSessionsComplete` are the
safety part: what is acknowledged is booked, so that all that remains is that some
delivery is acknowledged.

Known and not run:

* Two concurrent cancels with one key both book the reversal (`payment.py:192`, as
  `Retries` without `Serial` shows); a stale answer to a confirm can take a row out of
  `succeeded` (`payment.py:153`); with two sessions for an intent every delivery of its
  event fails (`checkout_session.py:52`).
* A cancel that ends after Stripe has canceled and before its commit leaves the row open and
  its authorisation accrued for good: the canceled event, which should sync "the terminal
  status if a state diverged" (`webhooks.py:116`), is only logged.
* A session inserted after the payment's event was acknowledged stays open for good
  (`checkout_session.py:67`). The customer has the secret before there is a session
  when a plain create has the same key, or when a `create_session` died between its two
  commits and is sent again: any read of the row returns it (`schemas/payment.py:47`).
* `reconcile_day` reports as `missing_internal`, "a pi we have no record of", a payment
  of ours whose row was last written on another day than the charge
  (`reconciliation.py:79` selects by `updated_at`); `MismatchExplained` allows for it.
* In a list, `total` is counted before the rows are read. A row committed in between can
  push the last one past the page at which `total` says to stop, so the client modelled
  goes on until a page is not full. A walk filtered by status misses rows whose status
  changes meanwhile, and `ListMissesNothing` excludes it; rows with equal `created_at`
  have no order, and the model gives them different ones (`dashboard.py:77`).
* `net`, "the merchant's own drift sentinel" (`dashboard.py:36`), is 0 in every state,
  the ones `refund_lost` and `confirm_unbooked` reach included, since every
  transaction is balanced (`ViewsNetToZero`): it cannot show that rows and books have parted.

## Not modelled

Rendering of HTML, settings, the connection pool, the error taxonomy (an error ends the
action), the static admin key, migrations (their constraints are in the actions), tests and
deployment. Nothing of them changes a table while the service runs.
