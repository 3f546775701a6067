--------------------------- MODULE Reconciliation ---------------------------
(***************************************************************************)
(* workers/reconciliation.py beside the running gateway: reconcile_day,    *)
(* which compares a day at Stripe with the rows last written on that day,  *)
(* and reconcile_recent, which compares rows with their entries.  Time is  *)
(* the UTC day; a day's balance transactions are kept as their net amount  *)
(* per intent.  Page loads write no payment row and are left out.          *)
(***************************************************************************)
EXTENDS Gateway, Functions

CONSTANTS
    LastDay,    \* bound: days are 1 .. LastDay
    MaxRuns     \* bound: reconciliation runs that differ

ASSUME DaysAssumption == LastDay \in Nat \ {0} /\ MaxRuns \in Nat

VARIABLES
    today,
    began,                  \* the day each handler's open transaction began, or 0
    updated_at,             \* the day of the last write of each row, or 0
    balance_transactions,   \* by day and intent: whether there are any, and their sum
    listing,                \* reconcile_day between its call to Stripe and its query
    reconciliation_runs,    \* the rows it has written
    pass                    \* reconcile_recent: rows it has read, those still to check, drift

clock == <<began, updated_at, balance_transactions>>
worker == <<listing, reconciliation_runs, pass>>
allVars == <<vars, today, clock, worker>>

Days == 1..LastDay

Quiet == [listed |-> FALSE, net |-> 0]

Idling == [day |-> 0, stripe |-> [k \in Intents |-> Quiet]]

NoPass == [seen |-> [k \in Intents |-> NoRow], pending |-> {}, drift |-> {}]

-----------------------------------------------------------------------------
\* What Stripe has collected for k, refunds deducted.
Net(k) == IF stripe_pi[k].status = "succeeded" THEN stripe_pi[k].amount - stripe_pi[k].refunded
                                               ELSE 0

\* Stripe enters charges and refunds on the day they are made.
Entered ==
    balance_transactions' = [balance_transactions EXCEPT ![today] = [k \in Intents |->
        IF Net(k)' = Net(k) THEN @[k] ELSE [listed |-> TRUE, net |-> @[k].net + Net(k)' - Net(k)]]]

\* updated_at is now() of the transaction that writes the row, which is when
\* it began: at the first query of the handler.
Stamped(k, x, written) ==
    updated_at' = IF written THEN [updated_at EXCEPT ![k] = began[x]] ELSE updated_at

Begins(x, underway) ==
    began' = [began EXCEPT ![x] = IF ~underway THEN 0 ELSE IF @ = 0 THEN today ELSE @]

\* A commit of r's writes its row, also where another request has written the
\* same values meanwhile.
Rewrites(r) ==
    /\ call[r].pc = "commit" /\ call'[r].pc = "done"
    /\ r.op = "confirm" => call[r].reply # call[r].seen.status

RequestMoves(r) ==
    /\ RequestStep(r)
    /\ Begins(r, InFlight(r)')
    /\ Stamped(r.intent, r, payment_intents' # payment_intents \/ Rewrites(r))
    /\ Entered
    /\ UNCHANGED <<today, worker>>

HookMoves(d) ==
    /\ HookStep(d)
    /\ Begins(d, hook'[d].pc # "idle")
    /\ Stamped(d.intent, d, payment_intents' # payment_intents)
    /\ UNCHANGED <<today, balance_transactions, worker>>

StripeMoves ==
    /\ StripeNext
    /\ Entered
    /\ UNCHANGED <<today, began, updated_at, worker>>

Midnight ==
    /\ today < LastDay
    /\ today' = today + 1
    /\ UNCHANGED <<vars, clock, worker>>

-----------------------------------------------------------------------------
\* reconcile_yesterday: the list of balance transactions of a day that is over.
ListTransactions ==
    /\ listing.day = 0
    /\ today > 1
    /\ Cardinality(reconciliation_runs) < MaxRuns
    /\ listing' = [day |-> today - 1, stripe |-> balance_transactions[today - 1]]
    /\ UNCHANGED <<vars, today, clock, reconciliation_runs, pass>>

\* Stripe's side of a day, and ours: the succeeded rows last written on it.
StripeSide == {k \in Intents : listing.stripe[k].listed}

InternalSide ==
    {k \in Intents : updated_at[k] = listing.day /\ payment_intents[k].status = "succeeded"}

StripeAmount(k) == listing.stripe[k].net

\* Mutant: refunds are not deducted.
InternalAmountGross(k) == payment_intents[k].received

InternalAmount(k) == payment_intents[k].received - payment_intents[k].refunded

Mismatch(type, k, s, i) == [type |-> type, intent |-> k, stripe_amount |-> s, internal_amount |-> i]

\* Mutant: only what Stripe has listed is looked up.
ClassifiedByStripe ==
    {Mismatch("missing_internal", k, StripeAmount(k), 0) : k \in StripeSide \ InternalSide}
    \union {Mismatch("amount_mismatch", k, StripeAmount(k), InternalAmount(k)) :
               k \in {j \in StripeSide \intersect InternalSide : StripeAmount(j) # InternalAmount(j)}}

\* Mutant: the amounts are not compared.
ClassifiedByPresence ==
    {Mismatch("missing_stripe", k, 0, InternalAmount(k)) : k \in InternalSide \ StripeSide}
    \union {Mismatch("missing_internal", k, StripeAmount(k), 0) : k \in StripeSide \ InternalSide}

Classified ==
    {Mismatch("missing_stripe", k, 0, InternalAmount(k)) : k \in InternalSide \ StripeSide}
    \union {Mismatch("missing_internal", k, StripeAmount(k), 0) : k \in StripeSide \ InternalSide}
    \union {Mismatch("amount_mismatch", k, StripeAmount(k), InternalAmount(k)) :
               k \in {j \in StripeSide \intersect InternalSide : StripeAmount(j) # InternalAmount(j)}}

\* One query, the classification and the insert of the run.
ReconcileDay ==
    /\ listing.day # 0
    /\ reconciliation_runs' = reconciliation_runs \union
           {[run_date |-> listing.day,
             total_stripe |-> SumFunction([k \in StripeSide |-> StripeAmount(k)]),
             total_internal |-> SumFunction([k \in InternalSide |-> InternalAmount(k)]),
             mismatches |-> Classified]}
    /\ listing' = Idling
    /\ UNCHANGED <<vars, today, clock, pass>>

AbortRun ==
    /\ listing.day # 0
    /\ listing' = Idling
    /\ UNCHANGED <<vars, today, clock, reconciliation_runs, pass>>

-----------------------------------------------------------------------------
\* reconcile_recent loads the rows in one query (created in the last 24 hours:
\* any of them may be) ...
StartPass ==
    /\ pass.pending = {}
    /\ \E recent \in SUBSET {k \in Intents : Exists(k)} \ {{}} :
           pass' = [seen |-> [k \in Intents |-> IF k \in recent THEN payment_intents[k] ELSE NoRow],
                    pending |-> recent, drift |-> {}]
    /\ UNCHANGED <<vars, today, clock, listing, reconciliation_runs>>

ExpectedCaptured(row) == IF row.status = "succeeded" THEN row.received - row.refunded ELSE 0

\* Mutant: refunds are not deducted from what is expected.
CheckIntentGross(k) ==
    /\ k \in pass.pending
    /\ pass' = [pass EXCEPT
           !.pending = @ \ {k},
           !.drift = IF ledger[k]["payments_captured"] = pass.seen[k].received
                     THEN @ ELSE @ \union {k}]
    /\ UNCHANGED <<vars, today, clock, listing, reconciliation_runs>>

\* ... and the entries of each in a query of its own.
CheckIntent(k) ==
    /\ k \in pass.pending
    /\ pass' = [pass EXCEPT
           !.pending = @ \ {k},
           !.drift = IF ledger[k]["payments_captured"] = ExpectedCaptured(pass.seen[k])
                     THEN @ ELSE @ \union {k}]
    /\ UNCHANGED <<vars, today, clock, listing, reconciliation_runs>>

\* run_forever logs the exception and tries again.
AbortPass ==
    /\ pass.pending # {}
    /\ pass' = NoPass
    /\ UNCHANGED <<vars, today, clock, listing, reconciliation_runs>>

-----------------------------------------------------------------------------
ReconciliationInit ==
    /\ Init
    /\ today = 1
    /\ began = [x \in Requests \union Deliveries |-> 0]
    /\ updated_at = [k \in Intents |-> 0]
    /\ balance_transactions = [d \in Days |-> [k \in Intents |-> Quiet]]
    /\ listing = Idling
    /\ reconciliation_runs = {}
    /\ pass = NoPass

ReconciliationNext ==
    \/ \E r \in Requests : RequestMoves(r)
    \/ \E d \in Deliveries : HookMoves(d)
    \/ StripeMoves
    \/ Midnight
    \/ ListTransactions \/ ReconcileDay \/ AbortRun
    \/ StartPass \/ (\E k \in Intents : CheckIntent(k)) \/ AbortPass

ReconciliationSpec == ReconciliationInit /\ [][ReconciliationNext]_allVars

-----------------------------------------------------------------------------
Reported(run) == {m.intent : m \in run.mismatches}

\* The mismatches of a run account for the whole difference of its totals, so
\* nothing that differs is left out of them (the classification).
TotalsExplained ==
    \A run \in reconciliation_runs :
        run.total_stripe - run.total_internal =
            SumFunction([m \in run.mismatches |-> m.stripe_amount - m.internal_amount])

\* No false alarm about a payment that lived within one day: what a run reports
\* is not ours, or its row and Stripe disagree at that moment, or it crossed a
\* midnight (its row was last written, or money moved at Stripe, on another day).
MismatchExplained ==
    [][\A run \in reconciliation_runs' \ reconciliation_runs : \A k \in Reported(run) :
        \/ k \in Foreign
        \/ payment_intents[k].status # stripe_pi[k].status
        \/ payment_intents[k].received - payment_intents[k].refunded # Net(k)
        \/ updated_at[k] # run.run_date
        \/ \E d \in Days \ {run.run_date} : balance_transactions[d][k].listed]_allVars

\* The safety net under confirm: a payment that is not in amount_received,
\* acknowledged or not, is in every report of the day it was charged on.
UnbookedIsReported ==
    \A run \in reconciliation_runs : \A k \in Intents :
        /\ balance_transactions[run.run_date][k].listed
        /\ payment_intents[k].received # stripe_pi[k].amount
        => k \in Reported(run)

\* reconcile_recent's two queries see different moments; still, a drift it has
\* reported of a row that has not changed since is and stays one: of its books, of
\* its status (a stale answer to a confirm), or of a capture booked more than once
\* (after such an answer), which refunds of it may hide from the sum compared.
NoFalseDrift ==
    \A k \in pass.drift :
        \/ payment_intents[k] # pass.seen[k]
        \/ ledger[k]["payments_captured"] # ExpectedCaptured(payment_intents[k])
        \/ payment_intents[k].status # stripe_pi[k].status
        \/ Captured(k) # payment_intents[k].received
=============================================================================
