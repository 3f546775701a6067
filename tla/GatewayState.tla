---------------------------- MODULE GatewayState ----------------------------
(***************************************************************************)
(* The state the gateway's handlers share: the tables they read and write  *)
(* in Postgres, the objects Stripe keeps, and the progress of every API    *)
(* request and webhook delivery between two of its awaits.                 *)
(*                                                                         *)
(* A handler's writes take effect at its COMMIT (READ COMMITTED, one       *)
(* session per request), so a row is read in one step and written in a     *)
(* later one; what happens between the two is what this project is about.  *)
(***************************************************************************)
EXTENDS Integers, FiniteSets, Ledger

CONSTANTS
    Intents,     \* PaymentIntents; each has one Stripe object and one create key
    Foreign,     \* those of them that only Stripe knows: no API call made them
    Requests,    \* API calls the clients may send, each at most once
    Deliveries,  \* attempts by Stripe to deliver an event; reusable
    Viewers,     \* concurrent loads of the hosted checkout page; reusable
    Serial       \* TRUE: clients have one call in flight per intent

Creating == {"create", "create_session"}

Operations == Creating \union {"confirm", "cancel", "refund"}

\* A request is told apart from a resend of itself by n; idem is its
\* idempotency key (a create's key is its intent); amount 0 is "omitted".
ASSUME RequestsAssumption ==
    /\ Foreign \subseteq Intents
    /\ Requests \subseteq [op : Operations, intent : Intents \ Foreign,
                           idem : Nat, amount : Nat, n : Nat]
    /\ \A r \in Requests : r.op \in Creating => r.amount > 0

\* The two events that can be delivered for an intent are named after the
\* status Stripe reports with them.
ASSUME DeliveriesAssumption ==
    Deliveries \subseteq [intent : Intents, type : {"succeeded", "canceled"}, n : Nat]

ASSUME SerialAssumption == Serial \in BOOLEAN

VARIABLES
    payment_intents,    \* the row of each intent
    ledger,             \* the balances of each intent's ledger entries
    webhook_events,     \* the row of each <<intent, type>> event
    checkout_sessions,  \* the session each create_session request inserted
    overdue,            \* sessions whose expires_at has passed
    expiring,           \* <<viewer, session>>: an EXPIRED write not yet committed
    stripe_pi,          \* Stripe's PaymentIntents
    stripe_saved,       \* Stripe's saved answers, by idempotency key
    call,               \* progress of each API request
    hook                \* progress of each webhook delivery

tables == <<payment_intents, ledger, webhook_events, checkout_sessions>>
pages == <<overdue, expiring>>
stripe == <<stripe_pi, stripe_saved>>
vars == <<tables, pages, stripe, call, hook>>

Statuses == {"requires_payment_method", "requires_confirmation", "requires_action",
             "processing", "succeeded", "canceled", "failed"}

\* A row of payment_intents; "absent" while there is none.
Rows == [status : Statuses \union {"absent"}, amount : Nat, received : Nat, refunded : Nat]

NoRow == [status |-> "absent", amount |-> 0, received |-> 0, refunded |-> 0]

Exists(k) == payment_intents[k].status # "absent"

SessionsOf(k) == {r \in Requests : r.intent = k /\ checkout_sessions[r] # "absent"}

StripeObjects == [status : Statuses \union {"absent"}, amount : Nat, refunded : Nat]

NoObject == [status |-> "absent", amount |-> 0, refunded |-> 0]

\* Amounts stay out of the saved answer of a confirm or a cancel (0).
SavedAnswers == [idem : Nat, op : Operations, intent : Intents, amount : Nat,
                 reply : Statuses \union {"none"}]

\* pc names what the request does next; seen is the row it has loaded and
\* reply the status in Stripe's answer.
Calls == [pc : {"idle", "stripe", "commit", "find_session", "insert_session", "done", "error"},
          seen : Rows, reply : Statuses \union {"none"}]

Idle == [pc |-> "idle", seen |-> NoRow, reply |-> "none"]

\* fresh: this delivery inserted the event's row and has not committed it;
\* capture: it has staged the capture; found: the session it will complete.
Hooks == [pc : {"idle", "insert", "apply", "find_session", "complete", "finish"},
          fresh : BOOLEAN, capture : BOOLEAN, found : SUBSET Requests]

Waiting == [pc |-> "idle", fresh |-> FALSE, capture |-> FALSE, found |-> {}]

TypeOK ==
    /\ payment_intents \in [Intents -> Rows]
    /\ ledger \in [Intents -> Books]
    /\ webhook_events \in [Intents \X {"succeeded", "canceled"} -> {"absent", "received", "processed"}]
    /\ checkout_sessions \in [Requests -> {"absent", "open", "completed", "expired"}]
    /\ overdue \subseteq Requests
    /\ expiring \subseteq Viewers \X Requests
    /\ stripe_pi \in [Intents -> StripeObjects]
    /\ stripe_saved \subseteq SavedAnswers
    /\ call \in [Requests -> Calls]
    /\ hook \in [Deliveries -> Hooks]

StateInit ==
    /\ payment_intents = [k \in Intents |-> NoRow]
    /\ ledger = [k \in Intents |-> EmptyBooks]
    /\ webhook_events = [e \in Intents \X {"succeeded", "canceled"} |-> "absent"]
    /\ checkout_sessions = [r \in Requests |-> "absent"]
    /\ overdue = {}
    /\ expiring = {}
    /\ stripe_pi = [k \in Intents |-> NoObject]
    /\ stripe_saved = {}
    /\ call = [r \in Requests |-> Idle]
    /\ hook = [d \in Deliveries |-> Waiting]
=============================================================================
