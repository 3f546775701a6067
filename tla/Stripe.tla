------------------------------- MODULE Stripe -------------------------------
(***************************************************************************)
(* Stripe, as far as the gateway depends on it (external: modelled from    *)
(* the calls stripe_client makes and from how their answers are used).     *)
(*                                                                         *)
(* A call with a new idempotency key is executed, a repetition of it is    *)
(* answered from the saved answer and executes nothing.  A call Stripe     *)
(* refuses (declined card, wrong state, a key reused with other            *)
(* parameters) changes nothing here; for the caller it is an Abort.        *)
(***************************************************************************)
EXTENDS GatewayState

\* Not yet being paid, so it can be confirmed.
Payable(k) ==
    stripe_pi[k].status \in {"requires_payment_method", "requires_confirmation", "requires_action"}

Unsettled(k) == Payable(k) \/ stripe_pi[k].status = "processing"

\* Stripe executes r's call for the first time, leaving the object as pi.
Execute(r, amount, reply, pi) ==
    /\ \A s \in stripe_saved : s.idem # r.idem
    /\ stripe_pi' = [stripe_pi EXCEPT ![r.intent] = pi]
    /\ stripe_saved' = stripe_saved \union
           {[idem |-> r.idem, op |-> r.op, intent |-> r.intent, amount |-> amount, reply |-> reply]}

\* Stripe has seen this call before and repeats the answer it gave.
Replay(r, amount, reply) ==
    /\ [idem |-> r.idem, op |-> r.op, intent |-> r.intent, amount |-> amount, reply |-> reply]
           \in stripe_saved
    /\ UNCHANGED stripe

\* PaymentIntent.create: the key is the intent, so the object is the saved
\* answer.  The answer, also a replayed one, is the object as it was created.
CreateAtStripe(r) ==
    \/ /\ stripe_pi[r.intent].status = "absent"
       /\ stripe_pi' = [stripe_pi EXCEPT ![r.intent] =
              [status |-> "requires_payment_method", amount |-> r.amount, refunded |-> 0]]
       /\ UNCHANGED stripe_saved
    \/ /\ stripe_pi[r.intent].status # "absent"
       /\ stripe_pi[r.intent].amount = r.amount
       /\ UNCHANGED stripe

\* PaymentIntent.confirm answers with the status the attempt led to.
ConfirmAtStripe(r, reply) ==
    \/ /\ Payable(r.intent)
       /\ reply \in {"requires_action", "processing", "succeeded"}
       /\ Execute(r, 0, reply, [stripe_pi[r.intent] EXCEPT !.status = reply])
    \/ Replay(r, 0, reply)

CancelAtStripe(r, reply) ==
    \/ /\ Unsettled(r.intent)
       /\ reply = "canceled"
       /\ Execute(r, 0, reply, [stripe_pi[r.intent] EXCEPT !.status = reply])
    \/ Replay(r, 0, reply)

\* Refund.create: Stripe never refunds more than was paid.
RefundAtStripe(r, amount) ==
    \/ /\ stripe_pi[r.intent].status = "succeeded"
       /\ stripe_pi[r.intent].refunded + amount <= stripe_pi[r.intent].amount
       /\ Execute(r, amount, "none", [stripe_pi[r.intent] EXCEPT !.refunded = @ + amount])
    \/ Replay(r, amount, "none")

\* A customer can pay once somebody can have read the client secret: it is in
\* the row, and in the answer of every read of the row (create, the intent, the
\* dashboard, the hosted page), whether or not a session has been inserted.
SecretKnown(k) == Exists(k)

\* stripe.confirmCardPayment in the customer's browser.
CustomerPays(k) ==
    /\ Payable(k)
    /\ SecretKnown(k)
    /\ \E s \in {"requires_action", "processing", "succeeded"} :
           stripe_pi' = [stripe_pi EXCEPT ![k].status = s]
    /\ UNCHANGED <<tables, pages, stripe_saved, call, hook>>

\* A payment in progress succeeds or fails.
Settle(k) ==
    /\ stripe_pi[k].status = "processing"
    /\ \E s \in {"succeeded", "requires_payment_method"} :
           stripe_pi' = [stripe_pi EXCEPT ![k].status = s]
    /\ UNCHANGED <<tables, pages, stripe_saved, call, hook>>

\* Another integration of the same Stripe account is paid: its events reach
\* this gateway, which has no row for them.
PaidElsewhere(k) ==
    /\ k \in Foreign
    /\ stripe_pi[k].status = "absent"
    /\ stripe_pi' = [stripe_pi EXCEPT ![k] = [status |-> "succeeded", amount |-> 1, refunded |-> 0]]
    /\ UNCHANGED <<tables, pages, stripe_saved, call, hook>>

StripeNext == \E k \in Intents : CustomerPays(k) \/ Settle(k) \/ PaidElsewhere(k)
=============================================================================
