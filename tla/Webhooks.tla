------------------------------ MODULE Webhooks ------------------------------
(***************************************************************************)
(* api/webhooks.py: one delivery of an event, cut at its awaits.  All of   *)
(* it is one transaction that commits in Finish, except that               *)
(* complete_session commits in the middle of it.  An event whose handler   *)
(* only logs it (payment_intent.canceled, payment_failed) is "canceled".   *)
(* processing_error is not kept: nothing reads it.                         *)
(***************************************************************************)
EXTENDS CheckoutSessionService

Event(d) == <<d.intent, d.type>>

\* The row of d's event is inserted in a transaction that is still open.
InsertedBy(d) ==
    /\ hook[d].fresh
    /\ hook[d].pc \notin {"idle", "insert"}

\* apply_succeeded_event's staged writes, with those of the ledger.
Capture(k, amount) ==
    /\ payment_intents' = [payment_intents EXCEPT ![k].status = "succeeded", ![k].received = amount]
    /\ ledger' = [ledger EXCEPT ![k] = Transfer(@, "payments_authorised", "payments_captured", amount)]

\* The transaction of d commits: the event's row, the capture if it staged one.
CommitHook(d, event) ==
    /\ webhook_events' = [webhook_events EXCEPT ![Event(d)] = event]
    /\ IF hook[d].capture THEN Capture(d.intent, stripe_pi[d.intent].amount)
                          ELSE UNCHANGED <<payment_intents, ledger>>

HookAt(d, pc) == hook' = [hook EXCEPT ![d].pc = pc]

-----------------------------------------------------------------------------
\* Stripe delivers the event of a status its object has reached.  An event
\* already processed is acknowledged as a duplicate, which changes nothing.
Receive(d) ==
    /\ hook[d].pc = "idle"
    /\ stripe_pi[d.intent].status = d.type
    /\ webhook_events[Event(d)] # "processed"
    /\ LET fresh == webhook_events[Event(d)] = "absent" IN
       hook' = [hook EXCEPT ![d] = [Waiting EXCEPT !.pc = IF fresh THEN "insert" ELSE "apply",
                                                   !.fresh = fresh]]
    /\ UNCHANGED <<tables, pages, stripe, call>>

\* The primary key makes an insert wait for another open insert of the same
\* event, and fail once that one has committed.
InsertEvent(d) ==
    /\ hook[d].pc = "insert"
    /\ \A e \in Deliveries : Event(e) = Event(d) => ~InsertedBy(e)
    /\ \/ webhook_events[Event(d)] = "absent" /\ HookAt(d, "apply")
       \/ webhook_events[Event(d)] # "absent" /\ hook' = [hook EXCEPT ![d] = Waiting]
    /\ UNCHANGED <<tables, pages, stripe, call>>

\* Mutant: the early return for a row that is SUCCEEDED already is missing.
ApplyAlways(d) ==
    /\ hook[d].pc = "apply"
    /\ IF d.type = "succeeded" /\ Exists(d.intent)
       THEN hook' = [hook EXCEPT ![d].pc = "find_session", ![d].capture = TRUE]
       ELSE HookAt(d, "finish")
    /\ UNCHANGED <<tables, pages, stripe, call>>

\* _dispatch and apply_succeeded_event.
Apply(d) ==
    /\ hook[d].pc = "apply"
    /\ \/ d.type = "canceled" /\ HookAt(d, "finish")
       \/ d.type = "succeeded" /\ ~Exists(d.intent) /\ HookAt(d, "finish")
       \/ /\ d.type = "succeeded"
          /\ Exists(d.intent)
          /\ hook' = [hook EXCEPT ![d].pc = "find_session",
                 ![d].capture = payment_intents[d.intent].status # "succeeded"]
    /\ UNCHANGED <<tables, pages, stripe, call>>

\* Mutant: an EXPIRED session is not promoted to COMPLETED.
FindSessionOfEventOpen(d) ==
    /\ hook[d].pc = "find_session"
    /\ LET open == {r \in SessionsOf(d.intent) : checkout_sessions[r] = "open"} IN
       /\ Cardinality(SessionsOf(d.intent)) <= 1
       /\ \/ open = {} /\ HookAt(d, "finish")
          \/ open # {} /\ hook' = [hook EXCEPT ![d].pc = "complete", ![d].found = open]
    /\ UNCHANGED <<tables, pages, stripe, call>>

\* find_by_payment_intent; complete_session has nothing to do for a session
\* that was read COMPLETED.  More than one session is an exception: AbortHook.
FindSessionOfEvent(d) ==
    /\ hook[d].pc = "find_session"
    /\ LET pending == {r \in SessionsOf(d.intent) : checkout_sessions[r] # "completed"} IN
       /\ Cardinality(SessionsOf(d.intent)) <= 1
       /\ \/ pending = {} /\ HookAt(d, "finish")
          \/ pending # {} /\ hook' = [hook EXCEPT ![d].pc = "complete", ![d].found = pending]
    /\ UNCHANGED <<tables, pages, stripe, call>>

\* Mutant: complete_session commits in a session of its own.
CompleteSessionApart(d) ==
    /\ hook[d].pc = "complete"
    /\ checkout_sessions' = [r \in Requests |->
           IF r \in hook[d].found THEN "completed" ELSE checkout_sessions[r]]
    /\ HookAt(d, "finish")
    /\ UNCHANGED <<payment_intents, ledger, webhook_events, pages, stripe, call>>

\* complete_session commits all the delivery has staged so far.
CompleteSession(d) ==
    /\ hook[d].pc = "complete"
    /\ CommitHook(d, IF hook[d].fresh THEN "received" ELSE webhook_events[Event(d)])
    /\ checkout_sessions' = [r \in Requests |->
           IF r \in hook[d].found THEN "completed" ELSE checkout_sessions[r]]
    /\ hook' = [hook EXCEPT ![d] = [Waiting EXCEPT !.pc = "finish"]]
    /\ UNCHANGED <<pages, stripe, call>>

\* processed_at and the commit of whatever is still staged.
Finish(d) ==
    /\ hook[d].pc = "finish"
    /\ CommitHook(d, "processed")
    /\ hook' = [hook EXCEPT ![d] = Waiting]
    /\ UNCHANGED <<checkout_sessions, pages, stripe, call>>

\* Mutant: the exception is logged and the event acknowledged.
AbortHookSwallowed(d) ==
    /\ hook[d].pc \notin {"idle", "insert"}
    /\ webhook_events' = [webhook_events EXCEPT ![Event(d)] = "processed"]
    /\ hook' = [hook EXCEPT ![d] = Waiting]
    /\ UNCHANGED <<payment_intents, ledger, checkout_sessions, pages, stripe, call>>

\* An exception rolls back what is not committed and is answered 500; a crash
\* does the same without an answer.  Stripe will deliver the event again.
AbortHook(d) ==
    /\ hook[d].pc # "idle"
    /\ hook' = [hook EXCEPT ![d] = Waiting]
    /\ UNCHANGED <<tables, pages, stripe, call>>

HookStep(d) ==
    \/ Receive(d) \/ InsertEvent(d) \/ Apply(d) \/ FindSessionOfEvent(d)
    \/ CompleteSession(d) \/ Finish(d) \/ AbortHook(d)
=============================================================================
