----------------------- MODULE CheckoutSessionService -----------------------
(***************************************************************************)
(* services/checkout_session.py: what create_session does after            *)
(* create_intent has returned, and the page loads that expire a session.   *)
(* A session is named by the request that inserted it; its intent is that  *)
(* request's.  complete_session is a step of the webhook (Webhooks).       *)
(***************************************************************************)
EXTENDS PaymentService

\* Mutant: a session is inserted without looking for one.
FindSessionNever(r) ==
    /\ call[r].pc = "find_session"
    /\ Moves(r, "insert_session")
    /\ UNCHANGED <<tables, pages, stripe, hook>>

\* find_by_payment_intent: no row, one row, or MultipleResultsFound.
FindSession(r) ==
    /\ call[r].pc = "find_session"
    /\ \/ SessionsOf(r.intent) = {} /\ Moves(r, "insert_session")
       \/ Cardinality(SessionsOf(r.intent)) = 1 /\ Moves(r, "done")
       \/ Cardinality(SessionsOf(r.intent)) > 1 /\ Moves(r, "error")
    /\ UNCHANGED <<tables, pages, stripe, hook>>

\* Nothing makes payment_intent_id unique in checkout_sessions.
InsertSession(r) ==
    /\ call[r].pc = "insert_session"
    /\ checkout_sessions' = [checkout_sessions EXCEPT ![r] = "open"]
    /\ Moves(r, "done")
    /\ UNCHANGED <<payment_intents, ledger, webhook_events, pages, stripe, hook>>

SessionStep(r) == FindSession(r) \/ InsertSession(r)

\* expires_at passes.
TTLPasses(r) ==
    /\ checkout_sessions[r] # "absent"
    /\ overdue' = overdue \union {r}
    /\ UNCHANGED <<tables, expiring, stripe, call, hook>>

\* get_open_session reads the session; only one that is OPEN and past its TTL
\* is written.
ViewSession(v, r) ==
    /\ \A q \in Requests : <<v, q>> \notin expiring
    /\ checkout_sessions[r] = "open"
    /\ r \in overdue
    /\ expiring' = expiring \union {<<v, r>>}
    /\ UNCHANGED <<tables, overdue, stripe, call, hook>>

ExpireSession(v, r) ==
    /\ <<v, r>> \in expiring
    /\ checkout_sessions' = [checkout_sessions EXCEPT ![r] = "expired"]
    /\ expiring' = expiring \ {<<v, r>>}
    /\ UNCHANGED <<payment_intents, ledger, webhook_events, overdue, stripe, call, hook>>

AbortView(v, r) ==
    /\ <<v, r>> \in expiring
    /\ expiring' = expiring \ {<<v, r>>}
    /\ UNCHANGED <<tables, overdue, stripe, call, hook>>

PageStep(v, r) == ViewSession(v, r) \/ ExpireSession(v, r) \/ AbortView(v, r)
=============================================================================
