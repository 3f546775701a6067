--------------------------- MODULE PaymentService ---------------------------
(***************************************************************************)
(* services/payment.py behind the /payments endpoints.  Each operation is  *)
(* cut at its awaits into three steps: Find loads the row and decides,     *)
(* Stripe is the call to Stripe, Commit is the flush and commit of the row *)
(* and its ledger entries.  The row a request has loaded is not read again *)
(* before it is written, and only changed columns are written.             *)
(***************************************************************************)
EXTENDS Stripe

InFlight(r) == call[r].pc \notin {"idle", "done", "error"}

\* The clients' discipline, when there is one.
Admitted(r) ==
    /\ call[r].pc = "idle"
    /\ Serial => \A q \in Requests : q.intent = r.intent => ~InFlight(q)

\* r has loaded the row and goes on to pc.
Loads(r, pc) ==
    call' = [call EXCEPT ![r] = [pc |-> pc, seen |-> payment_intents[r.intent], reply |-> "none"]]

\* r forgets what it loaded and goes on to pc.
Moves(r, pc) == call' = [call EXCEPT ![r] = [pc |-> pc, seen |-> NoRow, reply |-> "none"]]

Answered(r, reply) == call' = [call EXCEPT ![r].pc = "commit", ![r].reply = reply]

\* create_intent returns: to the client, or to create_session.
Created(r) == Moves(r, IF r.op = "create" THEN "done" ELSE "find_session")

-----------------------------------------------------------------------------
CreateFind(r) ==
    /\ r.op \in Creating
    /\ Admitted(r)
    /\ LET row == payment_intents[r.intent] IN
       \/ ~Exists(r.intent) /\ Moves(r, "stripe")
       \/ Exists(r.intent) /\ row.amount # r.amount /\ Moves(r, "error")
       \/ Exists(r.intent) /\ row.amount = r.amount /\ Created(r)
    /\ UNCHANGED <<tables, pages, stripe, hook>>

\* Mutant: the idempotency key is not forwarded, so Stripe makes another object.
CreateStripeKeyless(r) ==
    /\ r.op \in Creating
    /\ call[r].pc = "stripe"
    /\ stripe_pi' = [stripe_pi EXCEPT ![r.intent] =
           [status |-> "requires_payment_method", amount |-> r.amount, refunded |-> 0]]
    /\ Answered(r, "requires_payment_method")
    /\ UNCHANGED <<tables, pages, stripe_saved, hook>>

CreateStripe(r) ==
    /\ r.op \in Creating
    /\ call[r].pc = "stripe"
    /\ CreateAtStripe(r)
    /\ Answered(r, "requires_payment_method")
    /\ UNCHANGED <<tables, pages, hook>>

\* Mutant: the insert updates a row that is there already and accrues again.
CreateCommitUpsert(r) ==
    /\ r.op \in Creating
    /\ call[r].pc = "commit"
    /\ payment_intents' = [payment_intents EXCEPT ![r.intent] =
           [status |-> call[r].reply, amount |-> r.amount, received |-> 0, refunded |-> 0]]
    /\ ledger' = [ledger EXCEPT ![r.intent] =
           Transfer(@, "customer_pending", "payments_authorised", r.amount)]
    /\ Created(r)
    /\ UNCHANGED <<webhook_events, checkout_sessions, pages, stripe, hook>>

\* The unique idempotency_key and stripe_payment_intent_id let one insert through.
CreateCommit(r) ==
    /\ r.op \in Creating
    /\ call[r].pc = "commit"
    /\ \/ /\ ~Exists(r.intent)
          /\ payment_intents' = [payment_intents EXCEPT ![r.intent] =
                 [status |-> call[r].reply, amount |-> r.amount, received |-> 0, refunded |-> 0]]
          /\ ledger' = [ledger EXCEPT ![r.intent] =
                 Transfer(@, "customer_pending", "payments_authorised", r.amount)]
          /\ Created(r)
       \/ /\ Exists(r.intent)
          /\ Moves(r, "error")
          /\ UNCHANGED <<payment_intents, ledger>>
    /\ UNCHANGED <<webhook_events, checkout_sessions, pages, stripe, hook>>

-----------------------------------------------------------------------------
ConfirmFind(r) ==
    /\ r.op = "confirm"
    /\ Admitted(r)
    /\ LET status == payment_intents[r.intent].status IN
       \/ status = "absent" /\ Moves(r, "error")
       \/ status \in {"succeeded", "canceled", "failed"} /\ Moves(r, "done")
       \/ status \notin {"absent", "succeeded", "canceled", "failed"} /\ Loads(r, "stripe")
    /\ UNCHANGED <<tables, pages, stripe, hook>>

ConfirmStripe(r) ==
    /\ r.op = "confirm"
    /\ call[r].pc = "stripe"
    /\ \E reply \in Statuses : ConfirmAtStripe(r, reply) /\ Answered(r, reply)
    /\ UNCHANGED <<tables, pages, hook>>

\* Mutant: a confirm that Stripe accepted is taken for a payment.
ConfirmCommitOptimistic(r) ==
    /\ r.op = "confirm"
    /\ call[r].pc = "commit"
    /\ payment_intents' = [payment_intents EXCEPT ![r.intent].status = "succeeded"]
    /\ Moves(r, "done")
    /\ UNCHANGED <<ledger, webhook_events, checkout_sessions, pages, stripe, hook>>

\* An assignment that leaves the loaded value as it was writes nothing.
ConfirmCommit(r) ==
    /\ r.op = "confirm"
    /\ call[r].pc = "commit"
    /\ payment_intents' = [payment_intents EXCEPT ![r.intent].status =
           IF call[r].reply = call[r].seen.status THEN @ ELSE call[r].reply]
    /\ Moves(r, "done")
    /\ UNCHANGED <<ledger, webhook_events, checkout_sessions, pages, stripe, hook>>

-----------------------------------------------------------------------------
\* Mutant: a row that is canceled already is canceled again.
CancelFindAgain(r) ==
    /\ r.op = "cancel"
    /\ Admitted(r)
    /\ LET status == payment_intents[r.intent].status IN
       \/ status \in {"absent", "succeeded"} /\ Moves(r, "error")
       \/ status \notin {"absent", "succeeded"} /\ Loads(r, "stripe")
    /\ UNCHANGED <<tables, pages, stripe, hook>>

CancelFind(r) ==
    /\ r.op = "cancel"
    /\ Admitted(r)
    /\ LET status == payment_intents[r.intent].status IN
       \/ status \in {"absent", "succeeded"} /\ Moves(r, "error")
       \/ status = "canceled" /\ Moves(r, "done")
       \/ status \notin {"absent", "succeeded", "canceled"} /\ Loads(r, "stripe")
    /\ UNCHANGED <<tables, pages, stripe, hook>>

\* Mutant: a cancel that Stripe refuses is taken for done.
CancelStripeSwallowed(r) ==
    /\ r.op = "cancel"
    /\ call[r].pc = "stripe"
    /\ Answered(r, "canceled")
    /\ UNCHANGED <<tables, pages, stripe, hook>>

CancelStripe(r) ==
    /\ r.op = "cancel"
    /\ call[r].pc = "stripe"
    /\ \E reply \in Statuses : CancelAtStripe(r, reply) /\ Answered(r, reply)
    /\ UNCHANGED <<tables, pages, hook>>

CancelCommit(r) ==
    /\ r.op = "cancel"
    /\ call[r].pc = "commit"
    /\ payment_intents' = [payment_intents EXCEPT ![r.intent].status = call[r].reply]
    /\ ledger' = [ledger EXCEPT ![r.intent] =
           Transfer(@, "payments_authorised", "customer_pending", call[r].seen.amount)]
    /\ Moves(r, "done")
    /\ UNCHANGED <<webhook_events, checkout_sessions, pages, stripe, hook>>

-----------------------------------------------------------------------------
\* Mutant: what was asked for, not what was received.
RefundableOfAmount(row) == row.amount - row.refunded

Refundable(row) == row.received - row.refunded

\* amount omitted: all that is left.
RefundAmount(r, row) == IF r.amount = 0 THEN Refundable(row) ELSE r.amount

MayRefund(r, row) ==
    /\ row.status = "succeeded"
    /\ Refundable(row) > 0
    /\ RefundAmount(r, row) <= Refundable(row)

\* Mutant: the checks are left to Stripe.
RefundFindUnchecked(r) ==
    /\ r.op = "refund"
    /\ Admitted(r)
    /\ \/ Exists(r.intent) /\ Loads(r, "stripe")
       \/ ~Exists(r.intent) /\ Moves(r, "error")
    /\ UNCHANGED <<tables, pages, stripe, hook>>

RefundFind(r) ==
    /\ r.op = "refund"
    /\ Admitted(r)
    /\ \/ MayRefund(r, payment_intents[r.intent]) /\ Loads(r, "stripe")
       \/ ~MayRefund(r, payment_intents[r.intent]) /\ Moves(r, "error")
    /\ UNCHANGED <<tables, pages, stripe, hook>>

\* Mutant: a refund that Stripe refuses is booked nevertheless.
RefundStripeSwallowed(r) ==
    /\ r.op = "refund"
    /\ call[r].pc = "stripe"
    /\ Answered(r, "none")
    /\ UNCHANGED <<tables, pages, stripe, hook>>

RefundStripe(r) ==
    /\ r.op = "refund"
    /\ call[r].pc = "stripe"
    /\ RefundAtStripe(r, RefundAmount(r, call[r].seen))
    /\ Answered(r, "none")
    /\ UNCHANGED <<tables, pages, hook>>

\* Mutant: the sign is wrong.
RefundCommitWrongSign(r) ==
    /\ r.op = "refund"
    /\ call[r].pc = "commit"
    /\ payment_intents' = [payment_intents EXCEPT ![r.intent].refunded =
           call[r].seen.refunded - RefundAmount(r, call[r].seen)]
    /\ Moves(r, "done")
    /\ UNCHANGED <<ledger, webhook_events, checkout_sessions, pages, stripe, hook>>

\* Mutant: the ledger gets the amount as it was asked for, 0 when omitted.
RefundCommitAsAsked(r) ==
    /\ r.op = "refund"
    /\ call[r].pc = "commit"
    /\ payment_intents' = [payment_intents EXCEPT ![r.intent].refunded =
           call[r].seen.refunded + RefundAmount(r, call[r].seen)]
    /\ ledger' = [ledger EXCEPT ![r.intent] =
           Transfer(@, "payments_captured", "customer", r.amount)]
    /\ Moves(r, "done")
    /\ UNCHANGED <<webhook_events, checkout_sessions, pages, stripe, hook>>

\* amount_refunded is written as the loaded value plus the refund.
RefundCommit(r) ==
    /\ r.op = "refund"
    /\ call[r].pc = "commit"
    /\ LET seen == call[r].seen
           amount == RefundAmount(r, seen)
       IN  /\ payment_intents' = [payment_intents EXCEPT ![r.intent].refunded = seen.refunded + amount]
           /\ ledger' = [ledger EXCEPT ![r.intent] =
                  Transfer(@, "payments_captured", "customer", amount)]
    /\ Moves(r, "done")
    /\ UNCHANGED <<webhook_events, checkout_sessions, pages, stripe, hook>>

-----------------------------------------------------------------------------
\* An exception, a refusal by Stripe, an answer lost on its way or a crash of
\* the process ends a request between two steps; the open transaction is lost.
Abort(r) ==
    /\ InFlight(r)
    /\ Moves(r, "error")
    /\ UNCHANGED <<tables, pages, stripe, hook>>

PaymentStep(r) ==
    \/ CreateFind(r) \/ CreateStripe(r) \/ CreateCommit(r)
    \/ ConfirmFind(r) \/ ConfirmStripe(r) \/ ConfirmCommit(r)
    \/ CancelFind(r) \/ CancelStripe(r) \/ CancelCommit(r)
    \/ RefundFind(r) \/ RefundStripe(r) \/ RefundCommit(r)
    \/ Abort(r)
=============================================================================
