------------------------------ MODULE Gateway ------------------------------
(***************************************************************************)
(* The gateway: API requests, hosted-page loads and webhook deliveries     *)
(* interleaving over one database and one Stripe account; and what should  *)
(* be true of it.                                                          *)
(***************************************************************************)
EXTENDS Webhooks

Init == StateInit

RequestStep(r) == PaymentStep(r) \/ SessionStep(r) \/ TTLPasses(r)

Next ==
    \/ \E r \in Requests : RequestStep(r)
    \/ \E v \in Viewers, r \in Requests : PageStep(v, r)
    \/ \E d \in Deliveries : HookStep(d)
    \/ StripeNext

Spec == Init /\ [][Next]_vars

\* Stripe delivers an event again until it is acknowledged, and not every
\* attempt dies at the same await: nothing is assumed of the API's clients, of
\* the customer, or of any single attempt.
SucceededOf(k) == {d \in Deliveries : d.intent = k /\ d.type = "succeeded"}

Fairness ==
    \A k \in Intents \ Foreign :
        /\ SF_vars(\E d \in SucceededOf(k) : Receive(d))
        /\ SF_vars(\E d \in SucceededOf(k) : InsertEvent(d))
        /\ SF_vars(\E d \in SucceededOf(k) : Apply(d))
        /\ SF_vars(\E d \in SucceededOf(k) : FindSessionOfEvent(d))
        /\ SF_vars(\E d \in SucceededOf(k) : CompleteSession(d))
        /\ SF_vars(\E d \in SucceededOf(k) : Finish(d))

FairSpec == Spec /\ Fairness

-----------------------------------------------------------------------------
(* What holds whatever the clients send, in any interleaving.              *)

\* A terminal status in our table is Stripe's: no stale answer, replayed
\* answer, lost answer or late webhook makes a row say succeeded or canceled of
\* a payment of which Stripe says something else (payment.py status writes).
TerminalAgrees ==
    \A k \in Intents :
        /\ payment_intents[k].status = "succeeded" => stripe_pi[k].status = "succeeded"
        /\ payment_intents[k].status = "canceled" => stripe_pi[k].status = "canceled"

\* However creates with one key race, with equal or different amounts, the row
\* that survives asks for the amount Stripe will collect (create_intent).
SameAmount ==
    \A k \in Intents : Exists(k) => payment_intents[k].amount = stripe_pi[k].amount

\* Racing and replayed refunds never record more refunded than was received
\* (refund_intent's check against a row it read before the call to Stripe).
RefundWithinReceived ==
    \A k \in Intents : payment_intents[k].refunded <= payment_intents[k].received

\* What a row says was refunded is in its books: of racing refunds the row may
\* lose one, and a resent one is booked again, but never the other way round.
RefundsBooked ==
    \A k \in Intents : payment_intents[k].refunded <= ledger[k]["customer"]

\* An intent's authorisation is accrued once, however many creates with its key
\* race or are resent after a crash between Stripe and the commit.
AccruedOnce ==
    \A k \in Intents : ledger[k]["customer_pending"] >= - payment_intents[k].amount

\* A page load that read r open has not written EXPIRED yet, and r is completed.
CompletedBehindALoad(r) ==
    checkout_sessions[r] = "completed" /\ \E v \in Viewers : <<v, r>> \in expiring

\* A session that was there before its intent was paid, open, overdue or expired,
\* is completed whenever the succeeded event is acknowledged, after which nothing
\* would complete it (_dispatch, complete_session).  Excepted are the session
\* completed behind the back of a page load, which that may expire, and the one
\* inserted after the payment, which the delivery may have looked for too early.
PaidSessionCompleted ==
    \A r \in Requests :
        []~CompletedBehindALoad(r) =>
            [](checkout_sessions[r] # "absent" /\ stripe_pi[r.intent].status # "succeeded" =>
                   [](webhook_events[<<r.intent, "succeeded">>] = "processed" =>
                          checkout_sessions[r] = "completed"))

-----------------------------------------------------------------------------
(* What holds while no client uses confirm, the endpoint that writes the   *)
(* status past the webhook.                                                *)

\* The money an intent's books say was captured, refunds included.
Captured(k) == ledger[k]["payments_captured"] + ledger[k]["customer"]

\* Duplicate, concurrent and interrupted deliveries of the succeeded event book
\* the capture at most once.
CapturedOnce ==
    \A k \in Intents : Captured(k) <= payment_intents[k].amount

\* A session shown as completed is one whose payment is in the books, although
\* complete_session commits before the webhook is done.
CompletedIsBooked ==
    \A r \in Requests : checkout_sessions[r] = "completed" =>
        /\ payment_intents[r.intent].status = "succeeded"
        /\ Captured(r.intent) = payment_intents[r.intent].amount

\* An acknowledged succeeded event of one of our intents has been booked:
\* Stripe will not send it again.
AckedIsBooked ==
    \A k \in Intents : webhook_events[<<k, "succeeded">>] = "processed" /\ Exists(k) =>
        /\ payment_intents[k].received = stripe_pi[k].amount
        /\ Captured(k) = stripe_pi[k].amount

\* No late write takes a row out of succeeded.
SucceededIsFinal ==
    [][\A k \in Intents :
        payment_intents[k].status = "succeeded" => payment_intents'[k].status = "succeeded"]_vars

\* Refunds in the books are refunds Stripe has made, if their keys are distinct.
RefundsBookedAreReal ==
    \A k \in Intents : ledger[k]["customer"] <= stripe_pi[k].refunded

-----------------------------------------------------------------------------
(* What holds while, besides, clients have one call in flight per intent.  *)

\* The row alone determines the balance of every account of its intent: no
\* crash, retry or webhook leaves a row changed and its entries missing, or
\* entries of a change the row does not have.
BooksMatchRow ==
    \A k \in Intents :
        LET row == payment_intents[k]
            undone == row.status \in {"absent", "canceled"}
        IN  ledger[k] = [customer_pending |-> IF undone THEN 0 ELSE - row.amount,
                         payments_authorised |-> IF undone THEN 0 ELSE row.amount - row.received,
                         payments_captured |-> row.received - row.refunded,
                         customer |-> row.refunded]

\* create_session resent after any failure ends in the session of the first.
OneSessionPerIntent ==
    \A k \in Intents : Cardinality(SessionsOf(k)) <= 1

\* What Stripe has collected for one of our intents is eventually in its row
\* and its books, and Stripe is told so and stops delivering.
PaidIsBooked ==
    \A k \in Intents \ Foreign :
        stripe_pi[k].status = "succeeded" ~>
            /\ payment_intents[k].status = "succeeded"
            /\ Captured(k) = stripe_pi[k].amount
            /\ webhook_events[<<k, "succeeded">>] = "processed"

-----------------------------------------------------------------------------
(* The two abstract specifications, and how the tables implement them.     *)

\* Every step of the gateway is at most one posting: no commit of a request, a
\* delivery or a page load writes a row without its entries, entries without
\* their row, or another amount than the row accounts for, whatever it had read.
PostingsOfTables == INSTANCE Postings WITH
    rows <- payment_intents, books <- ledger, Amounts <- {r.amount : r \in Requests} \ {0}

ImplementsPostings == PostingsOfTables!Spec

\* The phase of a payment is its status, all that are not terminal being open.
PaymentOf(row) ==
    [phase |-> CASE row.status = "absent" -> "none"
                 [] row.status = "succeeded" -> "paid"
                 [] row.status = "canceled" -> "canceled"
                 [] OTHER -> "open",
     amount |-> row.amount, refunded |-> row.refunded]

\* Crashes, resends and redeliveries of a merchant's calls, one at a time and
\* without confirm, add up to a payment that is asked for once and paid or
\* canceled once, its books at every moment those of its phase.
PaymentsOfTables == INSTANCE Payments WITH
    payments <- [k \in Intents |-> PaymentOf(payment_intents[k])], books <- ledger,
    Amounts <- {r.amount : r \in Requests} \ {0}

ImplementsPayments == PaymentsOfTables!Spec

-----------------------------------------------------------------------------
(* Why the first group holds: what every request and delivery in progress  *)
(* knows is still true when it commits.  Steps preserve TypeOK, CallsOK,   *)
(* StripeKnows and RefundsFit together; the proofs rest on them.           *)

\* An answer to be written is a status, and a refund in progress passed the
\* checks of refund_intent on the row it has read.
CallsOK ==
    \A r \in Requests :
        /\ call[r].pc = "commit" /\ r.op # "refund" => call[r].reply \in Statuses
        /\ call[r].pc \in {"stripe", "commit"} /\ r.op = "refund" => MayRefund(r, call[r].seen)

\* Stripe never takes back what it has told a request or put into an event.
StripeKnows ==
    /\ \A k \in Intents : Exists(k) => stripe_pi[k].status # "absent"
    /\ \A s \in stripe_saved :
           s.reply \in {"succeeded", "canceled"} => stripe_pi[s.intent].status = s.reply
    /\ \A r \in Requests :
           call[r].reply \in {"succeeded", "canceled"} =>
               stripe_pi[r.intent].status = call[r].reply
    /\ \A r \in Requests :
           r.op \in Creating /\ call[r].pc = "commit" =>
               /\ stripe_pi[r.intent].status # "absent"
               /\ stripe_pi[r.intent].amount = r.amount
               /\ call[r].reply = "requires_payment_method"
    /\ \A r \in Requests :
           r.op \notin Creating /\ call[r].pc \in {"stripe", "commit"} => Exists(r.intent)
    /\ \A d \in Deliveries :
           hook[d].pc # "idle" => stripe_pi[d.intent].status = d.type
    /\ \A d \in Deliveries :
           hook[d].capture => hook[d].pc # "idle" /\ d.type = "succeeded" /\ Exists(d.intent)

\* amount_received is written once, before any refund can be accepted.
RefundsFit ==
    /\ \A k \in Intents :
           /\ payment_intents[k].received \in {0, payment_intents[k].amount}
           /\ ~Exists(k) => payment_intents[k] = NoRow
    /\ \A r \in Requests :
           call[r].pc \in {"stripe", "commit"} /\ r.op = "refund" =>
               call[r].seen.received = payment_intents[r.intent].received

\* The inductive invariant.
IInv ==
    /\ TypeOK /\ CallsOK
    /\ StripeKnows /\ TerminalAgrees /\ SameAmount
    /\ RefundsFit /\ RefundWithinReceived

-----------------------------------------------------------------------------
(* What the documentation says and the code does not do.                   *)

\* checkout_session.py: "OPEN/EXPIRED -> COMPLETED", and no way back.  A page load
\* that read the session open writes EXPIRED all the same.
CompletedIsFinal ==
    [][\A r \in Requests :
        checkout_sessions[r] = "completed" => checkout_sessions'[r] = "completed"]_vars
=============================================================================
