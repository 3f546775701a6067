--------------------------- MODULE PaymentsProofs ---------------------------
(***************************************************************************)
(* The third group of Gateway's properties: what a merchant is promised    *)
(* who has one call of an intent in flight at a time.  For every set of    *)
(* intents, requests and deliveries: one session per intent, books that    *)
(* the row determines, and the lifecycle of Payments; and, from the same   *)
(* lemmas on sessions, what any client is promised of a paid session.      *)
(***************************************************************************)
EXTENDS CaptureProofs, FiniteSetTheorems

\* The discipline, as it shows in a state.
NoOverlap ==
    \A q, r \in Requests : q.intent = r.intent /\ InFlight(q) /\ InFlight(r) => q = r

InTable(r) == checkout_sessions[r] # "absent"

\* Whatever page or delivery is at work on a session, it is in the table.
SessionsNamed ==
    /\ \A v \in Viewers, r \in Requests : <<v, r>> \in expiring => InTable(r)
    /\ \A d \in Deliveries : \A r \in hook[d].found : r.intent = d.intent /\ InTable(r)

OneSession ==
    /\ \A q, r \in Requests : q.intent = r.intent /\ InTable(q) /\ InTable(r) => q = r
    /\ \A q, r \in Requests :
           q.intent = r.intent /\ call[r].pc = "insert_session" => ~InTable(q)

\* The inductive invariant of the sessions.
SInv == TypeOK /\ CallsOK /\ NoOverlap /\ SessionsNamed /\ OneSession

\* What a refund or a cancel has read is still so when it commits.
ReadsHold ==
    /\ \A r \in Requests :
           r.op = "refund" /\ call[r].pc \in {"stripe", "commit"} =>
               call[r].seen.refunded = payment_intents[r.intent].refunded
    /\ \A r \in Requests :
           r.op = "cancel" /\ call[r].pc \in {"stripe", "commit"} =>
               payment_intents[r.intent].status # "canceled"

Payment(k) == PaymentOf(payment_intents[k])

BooksOfPhase == \A k \in Intents : ledger[k] = PaymentsOfTables!BooksOf(Payment(k))

\* The inductive invariant of the lifecycle.
LInv == CInv /\ NoOverlap /\ ReadsHold /\ BooksOfPhase

\* A request that has inserted its session has nothing left to do.
SessionsOnce == \A r \in Requests : InTable(r) => call[r].pc = "done"

\* Stripe has been paid what it reports as paid.
EventsPaid ==
    \A k \in Intents :
        webhook_events[<<k, "succeeded">>] # "absent" => stripe_pi[k].status = "succeeded"

\* What holds of sessions and deliveries whatever the clients send.
PInv == IInv /\ RowsComeFirst /\ SessionsNamed /\ SessionsOnce /\ EventsPaid

\* Where PaidSessionCompleted begins to promise something of r, and what.
Unpaid(r) == checkout_sessions[r] # "absent" /\ stripe_pi[r.intent].status # "succeeded"

Closed(r) ==
    webhook_events[<<r.intent, "succeeded">>] = "processed" => checkout_sessions[r] = "completed"

\* A delivery that has looked for sessions completes r or has seen it completed.
Closing(d, r) ==
    d.type = "succeeded" /\ d.intent = r.intent =>
        /\ hook[d].pc = "complete" => r \in hook[d].found \/ checkout_sessions[r] = "completed"
        /\ hook[d].pc = "finish" => checkout_sessions[r] = "completed"

WillClose(r) == InTable(r) /\ Closed(r) /\ \A d \in Deliveries : Closing(d, r)

-----------------------------------------------------------------------------
(* One call of an intent in flight.                                        *)

\* Who steps is in flight or is admitted, and moves only itself.
LEMMA CallSteps ==
    ASSUME TypeOK, NEW r \in Requests, PaymentStep(r) \/ SessionStep(r)
    PROVE  /\ \A q \in Requests \ {r} : call'[q] = call[q]
           /\ InFlight(r) \/ Admitted(r)
           /\ call'[r].pc = "insert_session" => SessionsOf(r.intent) = {}
  <1>1. \/ \E pc \in PCs \ {"insert_session"} : Moves(r, pc)
        \/ Moves(r, "insert_session") /\ SessionsOf(r.intent) = {}
        \/ Loads(r, "stripe")
        \/ \E reply \in Replies : Answered(r, reply)
    BY DEF PaymentStep, CreateFind, CreateStripe, CreateCommit, ConfirmFind, ConfirmStripe,
           ConfirmCommit, CancelFind, CancelStripe, CancelCommit, RefundFind, RefundStripe,
           RefundCommit, Abort, SessionStep, FindSession, InsertSession, Created, PCs, Replies,
           Statuses
  <1>2. InFlight(r) \/ Admitted(r)
    BY DEF PaymentStep, CreateFind, CreateStripe, CreateCommit, ConfirmFind, ConfirmStripe,
           ConfirmCommit, CancelFind, CancelStripe, CancelCommit, RefundFind, RefundStripe,
           RefundCommit, Abort, SessionStep, FindSession, InsertSession, InFlight
  <1>3. CASE \E pc \in PCs \ {"insert_session"} : Moves(r, pc)
    BY <1>2, <1>3, MovesFacts DEF TypeOK
  <1>4. CASE Moves(r, "insert_session") /\ SessionsOf(r.intent) = {}
    BY <1>2, <1>4, MovesFacts DEF TypeOK, PCs
  <1>5. CASE Loads(r, "stripe")
    BY <1>2, <1>5, LoadsFacts DEF TypeOK
  <1>6. CASE \E reply \in Replies : Answered(r, reply)
    BY <1>2, <1>6, AnsweredFacts DEF TypeOK
  <1> QED BY <1>1, <1>3, <1>4, <1>5, <1>6

\* No other call of r's intent is in flight when r takes a step.
LEMMA StepsAlone ==
    ASSUME Serial, NoOverlap, NEW r \in Requests, InFlight(r) \/ Admitted(r)
    PROVE  \A q \in Requests \ {r} : q.intent = r.intent => ~InFlight(q)
  <1>1. CASE InFlight(r)
    BY <1>1 DEF NoOverlap
  <1>2. CASE Admitted(r)
    BY <1>2 DEF Admitted
  <1> QED BY <1>1, <1>2

\* Nobody but requests moves a call.
LEMMA CallsStay ==
    ASSUME [Next]_vars
    PROVE  call' = call \/ \E r \in Requests : PaymentStep(r) \/ SessionStep(r)
  <1> USE DEF tables, pages, stripe
  <1>1. \A r \in Requests : TTLPasses(r) => call' = call
    BY DEF TTLPasses
  <1>2. \A v \in Viewers, r \in Requests : PageStep(v, r) => call' = call
    BY DEF PageStep, ViewSession, ExpireSession, AbortView
  <1>3. \A d \in Deliveries : HookStep(d) => call' = call
    BY DEF HookStep, Receive, InsertEvent, Apply, FindSessionOfEvent, CompleteSession, Finish,
           AbortHook
  <1>4. StripeNext \/ UNCHANGED vars => call' = call
    BY DEF StripeNext, CustomerPays, Settle, PaidElsewhere, vars
  <1> QED BY <1>1, <1>2, <1>3, <1>4 DEF Next, RequestStep

LEMMA NextNoOverlap ==
    ASSUME Serial, TypeOK, NoOverlap, [Next]_vars
    PROVE  NoOverlap'
  <1>1. CASE call' = call
    BY <1>1 DEF NoOverlap, InFlight
  <1>2. ASSUME NEW r \in Requests, PaymentStep(r) \/ SessionStep(r)
        PROVE  NoOverlap'
    <2>1. \A q \in Requests \ {r} : InFlight(q)' <=> InFlight(q)
      BY <1>2, CallSteps DEF InFlight
    <2>2. \A q \in Requests \ {r} : q.intent = r.intent => ~InFlight(q)
      BY <1>2, CallSteps, StepsAlone
    <2> QED BY <2>1, <2>2 DEF NoOverlap
  <1> QED BY <1>1, <1>2, CallsStay

-----------------------------------------------------------------------------
(* One session of an intent.                                               *)

\* Only InsertSession puts a session into the table; none leaves it.
LEMMA SessionsAppear ==
    ASSUME TypeOK, SessionsNamed, [Next]_vars
    PROVE  \A q \in Requests : /\ InTable(q) => InTable(q)'
                               /\ InTable(q)' => InTable(q) \/ InsertSession(q)
  <1> USE DEF tables, pages, stripe
  <1>1. CASE checkout_sessions' = checkout_sessions
    BY <1>1 DEF InTable
  <1>2. ASSUME NEW r \in Requests, InsertSession(r)
        PROVE  \A q \in Requests : /\ InTable(q) => InTable(q)'
                                   /\ InTable(q)' => InTable(q) \/ InsertSession(q)
    <2>1. /\ checkout_sessions'[r] = "open"
          /\ \A q \in Requests \ {r} : checkout_sessions'[q] = checkout_sessions[q]
      BY <1>2 DEF InsertSession, TypeOK
    <2> QED BY <1>2, <2>1 DEF InTable
  <1>3. ASSUME NEW v \in Viewers, NEW r \in Requests, ExpireSession(v, r)
        PROVE  \A q \in Requests : InTable(q)' <=> InTable(q)
    <2>1. /\ checkout_sessions'[r] = "expired"
          /\ \A q \in Requests \ {r} : checkout_sessions'[q] = checkout_sessions[q]
      BY <1>3 DEF ExpireSession, TypeOK
    <2> QED BY <1>3, <2>1 DEF ExpireSession, SessionsNamed, InTable
  <1>4. ASSUME NEW d \in Deliveries, CompleteSession(d)
        PROVE  \A q \in Requests : InTable(q)' <=> InTable(q)
    BY <1>4 DEF CompleteSession, SessionsNamed, InTable
  <1>5. ASSUME NEW r \in Requests, RequestStep(r), ~InsertSession(r)
        PROVE  checkout_sessions' = checkout_sessions
    BY <1>5 DEF RequestStep, PaymentStep, CreateFind, CreateStripe, CreateCommit, ConfirmFind,
         ConfirmStripe, ConfirmCommit, CancelFind, CancelStripe, CancelCommit, RefundFind,
         RefundStripe, RefundCommit, Abort, SessionStep, FindSession, TTLPasses
  <1>6. ASSUME NEW v \in Viewers, NEW r \in Requests, PageStep(v, r), ~ExpireSession(v, r)
        PROVE  checkout_sessions' = checkout_sessions
    BY <1>6 DEF PageStep, ViewSession, AbortView
  <1>7. ASSUME NEW d \in Deliveries, HookStep(d), ~CompleteSession(d)
        PROVE  checkout_sessions' = checkout_sessions
    BY <1>7 DEF HookStep, Receive, InsertEvent, Apply, FindSessionOfEvent, Finish, AbortHook
  <1>8. StripeNext \/ UNCHANGED vars => checkout_sessions' = checkout_sessions
    BY DEF StripeNext, CustomerPays, Settle, PaidElsewhere, vars
  <1> QED BY <1>1, <1>2, <1>3, <1>4, <1>5, <1>6, <1>7, <1>8 DEF Next

\* A page or a delivery begins with a session that it has found in the table.
LEMMA NextSessionsNamed ==
    ASSUME TypeOK, SessionsNamed, [Next]_vars
    PROVE  SessionsNamed'
  <1> USE DEF tables, pages, stripe
  <1>0. \A q \in Requests : InTable(q) => InTable(q)'
    BY SessionsAppear
  <1>1. \A d \in Deliveries : hook[d].found \subseteq Requests
    BY DEF TypeOK, Hooks
  <1>q. CASE UNCHANGED <<expiring, hook>>
    BY <1>0, <1>1, <1>q DEF SessionsNamed
  <1>2. ASSUME NEW r \in Requests, RequestStep(r)
        PROVE  SessionsNamed'
    BY <1>2, <1>q
       DEF RequestStep, PaymentStep, CreateFind, CreateStripe, CreateCommit, ConfirmFind,
           ConfirmStripe, ConfirmCommit, CancelFind, CancelStripe, CancelCommit, RefundFind,
           RefundStripe, RefundCommit, Abort, SessionStep, FindSession, InsertSession, TTLPasses
  <1>3. ASSUME NEW v \in Viewers, NEW r \in Requests, PageStep(v, r)
        PROVE  SessionsNamed'
    <2>1. /\ UNCHANGED <<hook>>
          /\ \A w \in Viewers, q \in Requests : <<w, q>> \in expiring' => <<w, q>> \in expiring \/ InTable(q)
      BY <1>3 DEF PageStep, ViewSession, ExpireSession, AbortView, InTable
    <2> QED BY <1>0, <1>1, <2>1 DEF SessionsNamed
  <1>4. ASSUME NEW d \in Deliveries, HookStep(d)
        PROVE  SessionsNamed'
    <2>1. UNCHANGED <<expiring>>
      BY <1>4 DEF HookStep, Receive, InsertEvent, Apply, FindSessionOfEvent, CompleteSession, Finish,
           AbortHook
    <2>2. /\ OthersStay(d)
          /\ hook'[d].found \subseteq hook[d].found \union SessionsOf(d.intent)
      <3>1. CASE Receive(d)
        BY <3>1, ReceiveSteps
      <3>2. CASE Apply(d)
        BY <3>2, ApplySteps
      <3>3. CASE FindSessionOfEvent(d)
        BY <3>3, FindSessionSteps
      <3>4. CASE HookAt(d, "apply")
        BY <3>4, HookAtSteps
      <3>5. CASE hook' = [hook EXCEPT ![d] = Waiting]
                 \/ hook' = [hook EXCEPT ![d] = [Waiting EXCEPT !.pc = "finish"]]
        BY <3>5, ResetFacts, WaitingType
      <3> QED BY <1>4, <3>1, <3>2, <3>3, <3>4, <3>5
            DEF HookStep, InsertEvent, CompleteSession, Finish, AbortHook
    <2>3. \A r \in hook'[d].found : r.intent = d.intent /\ InTable(r)'
      BY <1>0, <1>1, <2>2 DEF SessionsNamed, SessionsOf, InTable
    <2> QED BY <1>0, <1>1, <2>1, <2>2, <2>3 DEF SessionsNamed, OthersStay
  <1>5. StripeNext \/ UNCHANGED vars => UNCHANGED <<expiring, hook>>
    BY DEF StripeNext, CustomerPays, Settle, PaidElsewhere, vars
  <1> QED BY <1>q, <1>2, <1>3, <1>4, <1>5 DEF Next

LEMMA NextOneSession ==
    ASSUME Serial, SInv, [Next]_vars
    PROVE  OneSession'
  <1>0. TypeOK /\ NoOverlap /\ SessionsNamed
    BY DEF SInv
  <1>1. \A q \in Requests : InTable(q)' => InTable(q) \/ InsertSession(q)
    BY <1>0, SessionsAppear
  \* Who is about to insert is still the only one in flight.
  <1>2. ASSUME NEW q \in Requests, NEW r \in Requests, q.intent = r.intent,
               InsertSession(q), InTable(r)'
        PROVE  q = r
    <2>1. call[q].pc = "insert_session" /\ InFlight(q)
      BY <1>2 DEF InsertSession, InFlight
    <2>2. ~InTable(r)
      BY <1>2, <2>1 DEF SInv, OneSession
    <2>3. call[r].pc = "insert_session" /\ InFlight(r)
      BY <1>1, <1>2, <2>2 DEF InsertSession, InFlight
    <2> QED BY <1>0, <1>2, <2>1, <2>3 DEF NoOverlap
  <1>3. \A q, r \in Requests : q.intent = r.intent /\ InTable(q)' /\ InTable(r)' => q = r
    BY <1>1, <1>2 DEF SInv, OneSession
  <1>4. ASSUME NEW q \in Requests, NEW r \in Requests, q.intent = r.intent,
               call'[r].pc = "insert_session", InTable(q)'
        PROVE  FALSE
    <2>1. CASE call'[r].pc = call[r].pc
      <3>1. InFlight(r) /\ ~InTable(q)
        BY <1>4, <2>1 DEF SInv, OneSession, InFlight
      <3>2. InsertSession(q) /\ InFlight(q)
        BY <1>1, <1>4, <3>1 DEF InsertSession, InFlight
      <3>3. q = r
        BY <1>0, <1>4, <3>1, <3>2 DEF NoOverlap
      <3>4. call'[r].pc = "done"
        BY <1>0, <3>2, <3>3, MovesFacts DEF InsertSession, TypeOK, PCs
      <3> QED BY <1>4, <3>4
    <2>2. CASE call'[r].pc # call[r].pc
      <3>1. PICK p \in Requests : PaymentStep(p) \/ SessionStep(p)
        BY <2>2, CallsStay
      <3>2. p = r
        BY <1>0, <2>2, <3>1, CallSteps
      <3>3. SessionsOf(r.intent) = {}
        BY <1>0, <1>4, <3>1, <3>2, CallSteps
      <3>4. InsertSession(q)
        BY <1>1, <1>4, <3>3 DEF SessionsOf, InTable
      <3>5. call'[q].pc = "done"
        BY <1>0, <3>4, MovesFacts DEF InsertSession, TypeOK, PCs
      <3>6. q # r /\ call'[q] = call[q]
        BY <1>0, <1>4, <3>1, <3>2, <3>5, CallSteps
      <3> QED BY <3>4, <3>5, <3>6 DEF InsertSession
    <2> QED BY <2>1, <2>2
  <1> QED BY <1>3, <1>4 DEF OneSession

LEMMA InitSInv == Init => SInv
  BY InitTypes DEF Init, StateInit, SInv, NoOverlap, SessionsNamed, OneSession, InTable, InFlight,
       Idle, Waiting

\* A create_session that is sent again after any failure, one at a time, ends
\* in the session of the first: find_by_payment_intent's read holds until the
\* insert, though no constraint of the table says so.
THEOREM SessionsAreOne ==
    ASSUME Serial
    PROVE  Spec => []OneSessionPerIntent
  <1>1. SInv /\ [Next]_vars => SInv'
    BY NextTypes, NextNoOverlap, NextSessionsNamed, NextOneSession DEF SInv
  <1>2. SInv => OneSessionPerIntent
    <2> SUFFICES ASSUME SInv, NEW k \in Intents
                 PROVE  Cardinality(SessionsOf(k)) <= 1
      BY DEF OneSessionPerIntent
    <2>1. CASE SessionsOf(k) = {}
      BY <2>1, FS_EmptySet
    <2>2. ASSUME NEW r \in SessionsOf(k)
          PROVE  Cardinality(SessionsOf(k)) <= 1
      <3>1. SessionsOf(k) = {r}
        BY <2>2 DEF SInv, OneSession, SessionsOf, InTable
      <3>2. Cardinality({r}) = 1
        BY FS_Singleton
      <3> QED BY <3>1, <3>2
    <2> QED BY <2>1, <2>2
  <1> QED BY <1>1, <1>2, InitSInv, PTL DEF Spec

-----------------------------------------------------------------------------
(* Every commit is a step of the payment's life.                           *)

\* Books by their balances, and what the four transfers make of them.
Balances(pending, authorised, captured, refunded) ==
    [customer_pending |-> pending, payments_authorised |-> authorised,
     payments_captured |-> captured, customer |-> refunded]

LEMMA Transfers ==
    ASSUME NEW p \in Int, NEW a \in Int, NEW c \in Int, NEW f \in Int, NEW n \in Int
    PROVE  /\ Transfer(Balances(p, a, c, f), "customer_pending", "payments_authorised", n)
                  = Balances(p - n, a + n, c, f)
           /\ Transfer(Balances(p, a, c, f), "payments_authorised", "customer_pending", n)
                  = Balances(p + n, a - n, c, f)
           /\ Transfer(Balances(p, a, c, f), "payments_authorised", "payments_captured", n)
                  = Balances(p, a - n, c + n, f)
           /\ Transfer(Balances(p, a, c, f), "payments_captured", "customer", n)
                  = Balances(p, a, c - n, f + n)
  <1>1. Transfer(Balances(p, a, c, f), "customer_pending", "payments_authorised", n)
            = Balances(p - n, a + n, c, f)
    BY DEF Transfer, Balances
  <1>2. Transfer(Balances(p, a, c, f), "payments_authorised", "customer_pending", n)
            = Balances(p + n, a - n, c, f)
    BY DEF Transfer, Balances
  <1>3. Transfer(Balances(p, a, c, f), "payments_authorised", "payments_captured", n)
            = Balances(p, a - n, c + n, f)
    BY DEF Transfer, Balances
  <1>4. Transfer(Balances(p, a, c, f), "payments_captured", "customer", n)
            = Balances(p, a, c - n, f + n)
    BY DEF Transfer, Balances
  <1> QED BY <1>1, <1>2, <1>3, <1>4

\* The payment of a row, and its books.
LEMMA PhaseFacts ==
    ASSUME NEW row \in Rows
    PROVE  /\ PaymentOf(row).amount = row.amount /\ PaymentOf(row).refunded = row.refunded
           /\ row.status = "absent" => PaymentOf(row).phase = "none"
           /\ row.status = "succeeded" => PaymentOf(row).phase = "paid"
           /\ row.status = "canceled" => PaymentOf(row).phase = "canceled"
           /\ row.status \notin {"absent", "succeeded", "canceled"} => PaymentOf(row).phase = "open"
           /\ PaymentOf(row) = [phase |-> PaymentOf(row).phase, amount |-> row.amount,
                                refunded |-> row.refunded]
  BY DEF PaymentOf

\* Rows that differ in their phase only, or in their refunds only.
LEMMA PhaseChanges ==
    ASSUME NEW old \in Rows, NEW row \in Rows, row.amount = old.amount
    PROVE  /\ row.refunded = old.refunded =>
                  PaymentOf(row) = [PaymentOf(old) EXCEPT !.phase = PaymentOf(row).phase]
           /\ PaymentOf(row).phase = PaymentOf(old).phase =>
                  PaymentOf(row) = [PaymentOf(old) EXCEPT !.refunded = row.refunded]
  <1>1. /\ PaymentOf(row) = [phase |-> PaymentOf(row).phase, amount |-> row.amount,
                             refunded |-> row.refunded]
        /\ PaymentOf(old) = [phase |-> PaymentOf(old).phase, amount |-> old.amount,
                             refunded |-> old.refunded]
    BY PhaseFacts
  <1> DEFINE p == PaymentOf(row)
             q == PaymentOf(old)
  <1> HIDE DEF p, q
  <1>2. /\ p = [phase |-> p.phase, amount |-> row.amount, refunded |-> row.refunded]
        /\ q = [phase |-> q.phase, amount |-> old.amount, refunded |-> old.refunded]
    BY <1>1 DEF p, q
  <1>3. /\ row.refunded = old.refunded => p = [q EXCEPT !.phase = p.phase]
        /\ p.phase = q.phase => p = [q EXCEPT !.refunded = row.refunded]
    BY <1>2
  <1> QED BY <1>3 DEF p, q

LEMMA PhaseBooks ==
    ASSUME NEW row \in Rows
    PROVE  PaymentsOfTables!BooksOf(PaymentOf(row)) =
               CASE row.status \in {"absent", "canceled"} -> Balances(0, 0, 0, row.refunded)
                 [] row.status = "succeeded" ->
                        Balances(- row.amount, 0, row.amount - row.refunded, row.refunded)
                 [] OTHER -> Balances(- row.amount, row.amount, 0, row.refunded)
  <1> DEFINE p == PaymentOf(row)
  <1>1. p.amount = row.amount /\ p.refunded = row.refunded
    BY PhaseFacts
  <1>2. CASE row.status \in {"absent", "canceled"}
    <2>1. p.phase \in {"none", "canceled"}
      BY <1>2, PhaseFacts
    <2> HIDE DEF p
    <2>2. PaymentsOfTables!BooksOf(p) = Balances(0, 0, 0, row.refunded)
      BY <1>1, <2>1 DEF PaymentsOfTables!BooksOf, Balances
    <2> QED BY <1>2, <2>2 DEF p
  <1>3. CASE row.status = "succeeded"
    <2>1. p.phase = "paid"
      BY <1>3, PhaseFacts
    <2> HIDE DEF p
    <2>2. PaymentsOfTables!BooksOf(p) =
              Balances(- row.amount, 0, row.amount - row.refunded, row.refunded)
      BY <1>1, <2>1 DEF PaymentsOfTables!BooksOf, Balances
    <2> QED BY <1>3, <2>2 DEF p
  <1>4. CASE row.status \notin {"absent", "canceled", "succeeded"}
    <2>1. p.phase = "open"
      BY <1>4, PhaseFacts
    <2> HIDE DEF p
    <2>2. PaymentsOfTables!BooksOf(p) = Balances(- row.amount, row.amount, 0, row.refunded)
      BY <1>1, <2>1 DEF PaymentsOfTables!BooksOf, Balances
    <2> QED BY <1>4, <2>2 DEF p
  <1> QED BY <1>2, <1>3, <1>4

\* A row is written, and its books are made those of its new phase.
LEMMA RowBecomes ==
    ASSUME TypeOK, NEW k \in Intents, NEW row, NEW books,
           payment_intents' = [payment_intents EXCEPT ![k] = row],
           ledger' = [ledger EXCEPT ![k] = books],
           books = PaymentsOfTables!BooksOf(PaymentOf(row))
    PROVE  PaymentsOfTables!Becomes(k, PaymentOf(row))
  <1>1. /\ payment_intents'[k] = row
        /\ \A j \in Intents \ {k} : payment_intents'[j] = payment_intents[j]
    BY DEF TypeOK
  <1>2. [j \in Intents |-> PaymentOf(payment_intents'[j])] =
            [[j \in Intents |-> PaymentOf(payment_intents[j])] EXCEPT ![k] = PaymentOf(row)]
    <2> DEFINE before == [j \in Intents |-> PaymentOf(payment_intents[j])]
               after == [j \in Intents |-> PaymentOf(payment_intents'[j])]
               p == PaymentOf(row)
    <2>1. after[k] = p /\ \A j \in Intents \ {k} : after[j] = before[j]
      BY <1>1
    <2>2. DOMAIN before = Intents /\ after = [j \in Intents |-> after[j]]
      OBVIOUS
    <2> HIDE DEF before, after, p
    <2>3. after = [before EXCEPT ![k] = p]
      BY <2>1, <2>2
    <2> QED BY <2>3 DEF before, after, p
  <1> QED BY <1>2 DEF PaymentsOfTables!Becomes

LEMMA LTypes ==
    ASSUME LInv, NEW k \in Intents
    PROVE  /\ TypeOK /\ payment_intents[k] \in Rows
           /\ payment_intents[k].amount \in Nat /\ payment_intents[k].refunded \in Nat
           /\ ~Succeeded(k) => payment_intents[k].received = 0 /\ payment_intents[k].refunded = 0
           /\ Succeeded(k) => payment_intents[k].received = payment_intents[k].amount
           /\ ledger[k] = PaymentsOfTables!BooksOf(PaymentOf(payment_intents[k]))
  <1>1. TypeOK /\ payment_intents[k] \in Rows
    BY DEF LInv, CInv, RInv, IInv, TypeOK
  <1>2. payment_intents[k].refunded <= payment_intents[k].received
    BY DEF LInv, CInv, RInv, IInv, RefundWithinReceived
  <1> QED BY <1>1, <1>2 DEF LInv, CInv, BooksFollow, BooksOfPhase, Payment, Rows

LEMMA CreateOpens ==
    ASSUME LInv, NEW r \in Requests, CreateCommit(r), ~Exists(r.intent)
    PROVE  PaymentsOfTables!Open(r.intent)
  <1> USE RequestType
  <1> DEFINE k == r.intent
             n == r.amount
             row == [status |-> call[r].reply, amount |-> n, received |-> 0, refunded |-> 0]
             new == Transfer(ledger[k], "customer_pending", "payments_authorised", n)
  <1>1. payment_intents' = [payment_intents EXCEPT ![k] = row] /\ ledger' = [ledger EXCEPT ![k] = new]
    BY DEF CreateCommit
  <1>2. call[r].reply = "requires_payment_method" /\ n \in Nat /\ n \in {q.amount : q \in Requests} \ {0}
    BY DEF CreateCommit, LInv, CInv, RInv, IInv, StripeKnows
  <1>3. payment_intents[k].status = "absent" /\ payment_intents[k].refunded = 0
    BY LTypes DEF Exists, Succeeded
  <1>4. ledger[k] = Balances(0, 0, 0, 0)
    BY <1>3, LTypes, PhaseBooks
  <1>5. new = Balances(- n, n, 0, 0)
    <2>1. new = Balances(0 - n, 0 + n, 0, 0)
      BY <1>2, <1>4, Transfers
    <2>2. 0 - n = - n /\ 0 + n = n
      BY <1>2
    <2> QED BY <2>1, <2>2
  <1>6. row \in Rows /\ row.status = "requires_payment_method" /\ row.amount = n /\ row.refunded = 0
    BY <1>2 DEF Rows, Statuses
  <1>7. PaymentOf(row) = [phase |-> "open", amount |-> n, refunded |-> 0]
    BY <1>6, PhaseFacts
  <1>8. new = PaymentsOfTables!BooksOf(PaymentOf(row))
    BY <1>5, <1>6, PhaseBooks
  <1>9. PaymentsOfTables!Becomes(k, PaymentOf(row))
    BY <1>1, <1>8, LTypes, RowBecomes
  <1>10. [j \in Intents |-> PaymentOf(payment_intents[j])][k].phase = "none"
    BY <1>3, LTypes, PhaseFacts
  <1> QED BY <1>2, <1>7, <1>9, <1>10 DEF PaymentsOfTables!Open

LEMMA CancelCancels ==
    ASSUME LInv, NEW r \in Requests, CancelCommit(r)
    PROVE  PaymentsOfTables!Cancel(r.intent)
  <1> USE RequestType
  <1> DEFINE k == r.intent
             old == payment_intents[k]
             n == old.amount
             row == [old EXCEPT !.status = "canceled"]
             new == Transfer(ledger[k], "payments_authorised", "customer_pending", n)
  <1>1. /\ call[r].reply = "canceled" /\ Exists(k) /\ call[r].seen.amount = n
        /\ old.status # "canceled"
    BY DEF CancelCommit, LInv, CInv, RInv, PostersKnow, IInv, StripeKnows, Creating, ReadsHold
  <1>2. payment_intents' = [payment_intents EXCEPT ![k] = row] /\ ledger' = [ledger EXCEPT ![k] = new]
    BY <1>1 DEF CancelCommit
  <1>3. ~Succeeded(k)
    BY <1>1 DEF LInv, CInv, RInv, IInv, StripeKnows, TerminalAgrees, Succeeded
  <1>4. old \in Rows /\ n \in Nat /\ old.refunded = 0
    BY <1>3, LTypes
  <1>5. old.status \notin {"absent", "succeeded", "canceled"}
    BY <1>1, <1>3 DEF Exists, Succeeded
  <1>6. ledger[k] = Balances(- n, n, 0, 0)
    BY <1>4, <1>5, LTypes, PhaseBooks
  <1>7. new = Balances(0, 0, 0, 0)
    <2>1. - n \in Int /\ n \in Int /\ 0 \in Int /\ - n + n = 0 /\ n - n = 0
      BY <1>4
    <2> HIDE DEF n
    <2>2. new = Balances(- n + n, n - n, 0, 0)
      BY <1>6, <2>1, Transfers
    <2> QED BY <2>1, <2>2
  <1>8. row \in Rows /\ row.status = "canceled" /\ row.amount = n /\ row.refunded = 0
    BY <1>4 DEF Rows, Statuses
  <1>9. PaymentOf(row) = [PaymentOf(old) EXCEPT !.phase = "canceled"]
    <2> HIDE DEF row, old
    <2>1. PaymentOf(row).phase = "canceled"
      BY <1>8, PhaseFacts
    <2>2. PaymentOf(row) = [PaymentOf(old) EXCEPT !.phase = PaymentOf(row).phase]
      BY <1>4, <1>8, PhaseChanges
    <2> QED BY <2>1, <2>2
  <1>10. new = PaymentsOfTables!BooksOf(PaymentOf(row))
    BY <1>7, <1>8, PhaseBooks
  <1>11. PaymentsOfTables!Becomes(k, PaymentOf(row))
    BY <1>2, <1>10, LTypes, RowBecomes
  <1>12. /\ [j \in Intents |-> PaymentOf(payment_intents[j])][k] = PaymentOf(old)
         /\ PaymentOf(old).phase = "open"
    BY <1>4, <1>5, PhaseFacts
  <1> QED BY <1>9, <1>11, <1>12 DEF PaymentsOfTables!Cancel

LEMMA RefundRefunds ==
    ASSUME LInv, NEW r \in Requests, RefundCommit(r)
    PROVE  PaymentsOfTables!Refund(r.intent)
  <1> USE RequestType
  <1> DEFINE k == r.intent
             old == payment_intents[k]
             seen == call[r].seen
             n == RefundAmount(r, seen)
             was == old.refunded
             amount == old.amount
             total == seen.refunded + n
             row == [old EXCEPT !.refunded = total]
             new == Transfer(ledger[k], "payments_captured", "customer", n)
  <1>1. payment_intents' = [payment_intents EXCEPT ![k] = row] /\ ledger' = [ledger EXCEPT ![k] = new]
    BY DEF RefundCommit
  <1>2. /\ MayRefund(r, seen) /\ seen.received = old.received /\ seen.refunded = was
    BY DEF RefundCommit, LInv, CInv, RInv, IInv, CallsOK, RefundsFit, ReadsHold
  <1>3. seen \in Rows /\ seen.received \in Nat
    BY DEF LInv, CInv, RInv, IInv, TypeOK, Calls, Rows
  <1>4. old \in Rows /\ was \in Nat /\ amount \in Nat
    BY LTypes
  <1>5. n \in Int /\ n > 0 /\ n <= seen.received - was /\ seen.received > 0
    BY <1>2, <1>3, <1>4, RefundAmountType DEF MayRefund, Refundable
  <1>6. Succeeded(k) /\ old.received = amount
    <2>1. ~Succeeded(k) => old.received = 0
      BY LTypes
    <2> QED BY <1>2, <1>5, <2>1, LTypes
  <1>7. n <= amount - was /\ total = was + n
    BY <1>2, <1>5, <1>6
  <1>8. total \in was + 1 .. amount /\ total \in Nat
    BY <1>4, <1>5, <1>7
  <1>9. ledger[k] = Balances(- amount, 0, amount - was, was)
    BY <1>4, <1>6, LTypes, PhaseBooks DEF Succeeded
  <1>10. new = Balances(- amount, 0, amount - total, total)
    <2>1. /\ - amount \in Int /\ 0 \in Int /\ amount - was \in Int /\ was \in Int
          /\ (amount - was) - n = amount - total /\ was + n = total
      BY <1>4, <1>5, <1>7
    <2> HIDE DEF n, was, amount, total
    <2>2. new = Balances(- amount, 0, (amount - was) - n, was + n)
      BY <1>5, <1>9, <2>1, Transfers
    <2> QED BY <2>1, <2>2
  <1> HIDE DEF total
  <1>11. /\ row \in Rows /\ row.status = "succeeded" /\ row.amount = amount /\ row.refunded = total
    BY <1>4, <1>6, <1>8 DEF Rows, Succeeded
  <1>12. PaymentOf(row) = [PaymentOf(old) EXCEPT !.refunded = total]
    <2>1. old.status = "succeeded"
      BY <1>6 DEF Succeeded
    <2> HIDE DEF row, old
    <2>2. PaymentOf(row).phase = PaymentOf(old).phase
      BY <1>4, <1>11, <2>1, PhaseFacts
    <2> QED BY <1>4, <1>11, <2>2, PhaseChanges
  <1>13. new = PaymentsOfTables!BooksOf(PaymentOf(row))
    BY <1>10, <1>11, PhaseBooks
  <1>14. PaymentsOfTables!Becomes(k, PaymentOf(row))
    BY <1>1, <1>13, LTypes, RowBecomes
  <1>15. /\ [j \in Intents |-> PaymentOf(payment_intents[j])][k] = PaymentOf(old)
         /\ PaymentOf(old).phase = "paid"
         /\ PaymentOf(old).refunded = was /\ PaymentOf(old).amount = amount
    BY <1>4, <1>6, PhaseFacts DEF Succeeded
  <1> QED BY <1>8, <1>12, <1>14, <1>15 DEF PaymentsOfTables!Refund

LEMMA CommitPays ==
    ASSUME LInv, NEW d \in Deliveries, NEW event, CommitHook(d, event), hook[d].capture
    PROVE  PaymentsOfTables!Pay(d.intent)
  <1> USE DeliveryType
  <1> DEFINE k == d.intent
             old == payment_intents[k]
             n == old.amount
             row == [old EXCEPT !.status = "succeeded", !.received = n]
             new == Transfer(ledger[k], "payments_authorised", "payments_captured", n)
  <1>1. /\ Exists(k) /\ ~Succeeded(k) /\ stripe_pi[k].amount = n
        /\ stripe_pi[k].status = "succeeded"
    BY DEF LInv, CInv, RInv, IInv, StripeKnows, SameAmount, CaptureKnows, DeliveryKnows
  <1>2. payment_intents' = [payment_intents EXCEPT ![k] = row] /\ ledger' = [ledger EXCEPT ![k] = new]
    BY <1>1 DEF CommitHook, Capture
  <1>3. old.status \notin {"absent", "succeeded", "canceled"}
    BY <1>1 DEF LInv, CInv, RInv, IInv, TerminalAgrees, Exists, Succeeded
  <1>4. old \in Rows /\ n \in Nat /\ old.refunded = 0
    BY <1>1, LTypes
  <1>5. ledger[k] = Balances(- n, n, 0, 0)
    BY <1>3, <1>4, LTypes, PhaseBooks
  <1>6. new = Balances(- n, 0, n - 0, 0)
    <2>1. - n \in Int /\ n \in Int /\ 0 \in Int /\ n - n = 0 /\ 0 + n = n - 0
      BY <1>4
    <2> HIDE DEF n
    <2>2. new = Transfer(Balances(- n, n, 0, 0), "payments_authorised", "payments_captured", n)
      BY <1>5 DEF n
    <2> DEFINE m == - n
    <2> HIDE DEF m
    <2>3. Transfer(Balances(m, n, 0, 0), "payments_authorised", "payments_captured", n)
              = Balances(m, n - n, 0 + n, 0)
      BY <2>1, Transfers DEF m
    <2> QED BY <2>1, <2>2, <2>3 DEF m
  <1>7. row \in Rows /\ row.status = "succeeded" /\ row.amount = n /\ row.refunded = 0
    BY <1>4 DEF Rows, Statuses
  <1>8. PaymentOf(row) = [PaymentOf(old) EXCEPT !.phase = "paid"]
    <2> HIDE DEF row, old
    <2>1. PaymentOf(row).phase = "paid"
      BY <1>7, PhaseFacts
    <2>2. PaymentOf(row) = [PaymentOf(old) EXCEPT !.phase = PaymentOf(row).phase]
      BY <1>4, <1>7, PhaseChanges
    <2> QED BY <2>1, <2>2
  <1>9. new = PaymentsOfTables!BooksOf(PaymentOf(row))
    BY <1>6, <1>7, PhaseBooks
  <1>10. PaymentsOfTables!Becomes(k, PaymentOf(row))
    BY <1>2, <1>9, LTypes, RowBecomes
  <1>11. /\ [j \in Intents |-> PaymentOf(payment_intents[j])][k] = PaymentOf(old)
         /\ PaymentOf(old).phase = "open"
    BY <1>3, <1>4, PhaseFacts
  <1> QED BY <1>8, <1>10, <1>11 DEF PaymentsOfTables!Pay

\* A step of Payments, or none.
Living == PaymentsOfTables!Next \/ UNCHANGED <<payment_intents, ledger>>

LEMMA NextLives ==
    ASSUME LInv, NoConfirm, [Next]_vars
    PROVE  Living
  <1> USE DEF tables, pages, stripe
  <1>1. ASSUME NEW r \in Requests, RequestStep(r)
        PROVE  Living
    <2>1. ~ConfirmCommit(r)
      BY DEF NoConfirm, ConfirmCommit
    <2>2. CASE CreateCommit(r) \/ CancelCommit(r) \/ RefundCommit(r)
      <3>1. CASE CreateCommit(r) /\ Exists(r.intent)
        BY <3>1 DEF CreateCommit, Living
      <3> QED BY <2>2, <3>1, CreateOpens, CancelCancels, RefundRefunds, RequestType
           DEF Living, PaymentsOfTables!Next
    <2>3. CASE ~(CreateCommit(r) \/ CancelCommit(r) \/ RefundCommit(r))
      BY <1>1, <2>1, <2>3
         DEF RequestStep, PaymentStep, CreateFind, CreateStripe, ConfirmFind, ConfirmStripe,
             CancelFind, CancelStripe, RefundFind, RefundStripe, Abort, SessionStep,
             FindSession, InsertSession, TTLPasses, Living
    <2> QED BY <2>2, <2>3
  <1>2. ASSUME NEW v \in Viewers, NEW r \in Requests, PageStep(v, r)
        PROVE  Living
    BY <1>2 DEF PageStep, ViewSession, ExpireSession, AbortView, Living
  <1>3. ASSUME NEW d \in Deliveries, HookStep(d)
        PROVE  Living
    <2>1. ASSUME NEW event, CommitHook(d, event)
          PROVE  Living
      <3>1. CASE hook[d].capture
        BY <2>1, <3>1, CommitPays, DeliveryType DEF Living, PaymentsOfTables!Next
      <3>2. CASE ~hook[d].capture
        BY <2>1, <3>2 DEF CommitHook, Living
      <3> QED BY <3>1, <3>2
    <2>2. CASE CompleteSession(d) \/ Finish(d)
      BY <2>1, <2>2 DEF CompleteSession, Finish
    <2>3. CASE ~(CompleteSession(d) \/ Finish(d))
      BY <1>3, <2>3
         DEF HookStep, Receive, InsertEvent, Apply, FindSessionOfEvent, AbortHook, Living
    <2> QED BY <2>2, <2>3
  <1>4. StripeNext \/ UNCHANGED vars => Living
    BY DEF StripeNext, CustomerPays, Settle, PaidElsewhere, vars, Living
  <1> QED BY <1>1, <1>2, <1>3, <1>4 DEF Next

\* The books of Payments are always those of the phase, so ours are.
LEMMA LivingBooks ==
    ASSUME TypeOK, BooksOfPhase, Living
    PROVE  BooksOfPhase'
  <1>1. CASE UNCHANGED <<payment_intents, ledger>>
    BY <1>1 DEF BooksOfPhase, Payment
  <1>2. ASSUME NEW k \in Intents, NEW p, PaymentsOfTables!Becomes(k, p)
        PROVE  BooksOfPhase'
    <2> DEFINE before == [j \in Intents |-> PaymentOf(payment_intents[j])]
               after == [j \in Intents |-> PaymentOf(payment_intents'[j])]
               books == PaymentsOfTables!BooksOf(p)
    <2>1. after = [before EXCEPT ![k] = p] /\ ledger' = [ledger EXCEPT ![k] = books]
      BY <1>2 DEF PaymentsOfTables!Becomes
    <2>2. DOMAIN before = Intents /\ DOMAIN ledger = Intents
          /\ \A j \in Intents : before[j] = Payment(j) /\ after[j] = Payment(j)'
      BY DEF TypeOK, Payment
    <2> HIDE DEF before, after, books
    <2>3. Payment(k)' = p /\ ledger'[k] = books
          /\ \A j \in Intents \ {k} : Payment(j)' = Payment(j) /\ ledger'[j] = ledger[j]
      BY <2>1, <2>2
    <2>4. ledger'[k] = PaymentsOfTables!BooksOf(Payment(k)')
      BY <2>3 DEF books
    <2>5. ASSUME NEW j \in Intents \ {k}
          PROVE  ledger'[j] = PaymentsOfTables!BooksOf(Payment(j)')
      BY <2>3 DEF BooksOfPhase
    <2> QED BY <2>4, <2>5 DEF BooksOfPhase, Payment
  <1>3. PaymentsOfTables!Next => \E k \in Intents : \E p : PaymentsOfTables!Becomes(k, p)
    BY DEF PaymentsOfTables!Next, PaymentsOfTables!Open, PaymentsOfTables!Pay,
           PaymentsOfTables!Cancel, PaymentsOfTables!Refund
  <1> QED BY <1>1, <1>2, <1>3 DEF Living

-----------------------------------------------------------------------------
(* What was read holds until it is written.                                *)

\* A request writes no row but that of its intent.
LEMMA WritesOwnRow ==
    ASSUME TypeOK, NEW r \in Requests, PaymentStep(r) \/ SessionStep(r)
    PROVE  \A k \in Intents \ {r.intent} : payment_intents'[k] = payment_intents[k]
  <1> USE DEF tables
  <1>1. CASE CreateCommit(r)
    BY <1>1 DEF CreateCommit, TypeOK
  <1>2. CASE ConfirmCommit(r)
    BY <1>2 DEF ConfirmCommit, TypeOK
  <1>3. CASE CancelCommit(r)
    BY <1>3 DEF CancelCommit, TypeOK
  <1>4. CASE RefundCommit(r)
    BY <1>4 DEF RefundCommit, TypeOK
  <1>5. CASE ~(CreateCommit(r) \/ ConfirmCommit(r) \/ CancelCommit(r) \/ RefundCommit(r))
    BY <1>5 DEF PaymentStep, CreateFind, CreateStripe, ConfirmFind, ConfirmStripe, CancelFind,
         CancelStripe, RefundFind, RefundStripe, Abort, SessionStep, FindSession, InsertSession
  <1> QED BY <1>1, <1>2, <1>3, <1>4, <1>5

ReadHolds(r) ==
    /\ r.op = "refund" /\ call[r].pc \in {"stripe", "commit"} =>
           call[r].seen.refunded = payment_intents[r.intent].refunded
    /\ r.op = "cancel" /\ call[r].pc \in {"stripe", "commit"} =>
           payment_intents[r.intent].status # "canceled"

\* Of r itself: it reads the row, and writes it when it needs it no more.
LEMMA OwnReadHolds ==
    ASSUME TypeOK, ReadsHold, NEW r \in Requests, PaymentStep(r) \/ SessionStep(r)
    PROVE  ReadHolds(r)'
  <1> USE RequestType DEF tables
  <1>1. CASE \E pc \in PCs \ {"stripe", "commit"} : Moves(r, pc)
    BY <1>1, MovesFacts DEF TypeOK, ReadHolds
  <1>2. CASE r.op \in Creating \union {"confirm"}
    BY <1>2 DEF ReadHolds, Creating
  <1>3. CASE (CancelFind(r) \/ RefundFind(r)) /\ Loads(r, "stripe")
    <2>1. call'[r].seen = payment_intents[r.intent] /\ UNCHANGED payment_intents
      BY <1>3, LoadsFacts DEF TypeOK, CancelFind, RefundFind
    <2>2. r.op = "cancel" => payment_intents[r.intent].status # "canceled"
      <3>1. call'[r].pc = "stripe"
        BY <1>3, LoadsFacts DEF TypeOK
      <3>2. ~Moves(r, "done") /\ ~Moves(r, "error")
        BY <3>1, MovesFacts DEF TypeOK, PCs
      <3> QED BY <1>3, <3>2 DEF CancelFind, RefundFind
    <2> QED BY <2>1, <2>2 DEF ReadHolds
  <1>4. CASE CancelStripe(r) \/ RefundStripe(r)
    <2>1. PICK reply \in Replies : Answered(r, reply)
      BY <1>4 DEF CancelStripe, RefundStripe, Replies
    <2>2. call'[r].seen = call[r].seen /\ UNCHANGED payment_intents /\ call[r].pc = "stripe"
      BY <1>4, <2>1, AnsweredFacts DEF TypeOK, CancelStripe, RefundStripe
    <2> QED BY <2>2 DEF ReadHolds, ReadsHold
  <1>5. \/ \E pc \in PCs \ {"stripe", "commit"} : Moves(r, pc)
        \/ r.op \in Creating \union {"confirm"}
        \/ (CancelFind(r) \/ RefundFind(r)) /\ Loads(r, "stripe")
        \/ CancelStripe(r) \/ RefundStripe(r)
    BY DEF PaymentStep, CreateFind, CreateStripe, CreateCommit, ConfirmFind, ConfirmStripe,
           ConfirmCommit, CancelFind, CancelCommit, RefundFind, RefundCommit, Abort, SessionStep,
           FindSession, InsertSession, PCs
  <1> QED BY <1>1, <1>2, <1>3, <1>4, <1>5

\* A delivery writes neither refunds nor "canceled".
KeepsReads(k) ==
    /\ payment_intents'[k].refunded = payment_intents[k].refunded
    /\ payment_intents'[k].status \in {payment_intents[k].status, "succeeded"}

LEMMA DeliveryReadsHold ==
    ASSUME TypeOK, ReadsHold, NEW d \in Deliveries, HookStep(d)
    PROVE  ReadsHold'
  <1> USE DeliveryType, RequestType DEF tables
  <1>1. call' = call
    BY DEF HookStep, Receive, InsertEvent, Apply, FindSessionOfEvent, CompleteSession, Finish,
           AbortHook
  <1>2. \A k \in Intents : KeepsReads(k)
    <2>1. CASE UNCHANGED payment_intents
      BY <2>1 DEF KeepsReads
    <2>2. ASSUME NEW amount, Capture(d.intent, amount)
          PROVE  \A k \in Intents : KeepsReads(k)
      <3> DEFINE row == [payment_intents[d.intent] EXCEPT !.status = "succeeded", !.received = amount]
      <3>1. payment_intents' = [payment_intents EXCEPT ![d.intent] = row]
        BY <2>2 DEF Capture
      <3>2. row.refunded = payment_intents[d.intent].refunded /\ row.status = "succeeded"
        BY DEF TypeOK, Rows
      <3> HIDE DEF row
      <3> QED BY <3>1, <3>2 DEF TypeOK, KeepsReads
    <2>3. UNCHANGED payment_intents \/ \E amount : Capture(d.intent, amount)
      BY DEF HookStep, Receive, InsertEvent, Apply, FindSessionOfEvent, CompleteSession, Finish,
             AbortHook, CommitHook
    <2> QED BY <2>1, <2>2, <2>3
  <1> QED BY <1>1, <1>2 DEF ReadsHold, KeepsReads

LEMMA NextReadsHold ==
    ASSUME Serial, TypeOK, NoOverlap, ReadsHold, [Next]_vars
    PROVE  ReadsHold'
  <1> USE RequestType DEF tables, pages, stripe
  <1>1. ASSUME NEW r \in Requests, PaymentStep(r) \/ SessionStep(r)
        PROVE  ReadsHold'
    <2>1. ASSUME NEW q \in Requests \ {r}
          PROVE  ReadHolds(q)'
      <3>1. call'[q] = call[q]
        BY <1>1, CallSteps
      <3>2. CASE q.intent = r.intent
        <4>1. ~InFlight(q)
          BY <1>1, <3>2, CallSteps, StepsAlone
        <4> QED BY <3>1, <4>1 DEF InFlight, ReadHolds
      <3>3. CASE q.intent # r.intent
        <4>1. payment_intents'[q.intent] = payment_intents[q.intent]
          BY <1>1, <3>3, WritesOwnRow
        <4> QED BY <3>1, <4>1 DEF ReadsHold, ReadHolds
      <3> QED BY <3>2, <3>3
    <2> QED BY <1>1, <2>1, OwnReadHolds DEF ReadsHold, ReadHolds
  <1>2. CASE UNCHANGED <<payment_intents, call>>
    BY <1>2 DEF ReadsHold
  <1>3. \A r \in Requests : TTLPasses(r) => UNCHANGED <<payment_intents, call>>
    BY DEF TTLPasses
  <1>4. \A v \in Viewers, r \in Requests : PageStep(v, r) => UNCHANGED <<payment_intents, call>>
    BY DEF PageStep, ViewSession, ExpireSession, AbortView
  <1>5. StripeNext \/ UNCHANGED vars => UNCHANGED <<payment_intents, call>>
    BY DEF StripeNext, CustomerPays, Settle, PaidElsewhere, vars
  <1> QED BY <1>1, <1>2, <1>3, <1>4, <1>5, DeliveryReadsHold DEF Next, RequestStep

-----------------------------------------------------------------------------
LEMMA InitLInv == Init => LInv
  <1> SUFFICES ASSUME Init
               PROVE  LInv
    OBVIOUS
  <1>1. NoOverlap /\ ReadsHold
    BY DEF Init, StateInit, NoOverlap, ReadsHold, InFlight, Idle
  <1>2. BooksOfPhase
    <2>1. NoRow \in Rows /\ NoRow.status = "absent" /\ NoRow.refunded = 0
      BY DEF NoRow, Rows
    <2>2. PaymentsOfTables!BooksOf(PaymentOf(NoRow)) = Balances(0, 0, 0, 0)
      BY <2>1, PhaseBooks
    <2>3. EmptyBooks = Balances(0, 0, 0, 0)
      BY DEF EmptyBooks, Accounts, Balances
    <2> QED BY <2>2, <2>3 DEF Init, StateInit, BooksOfPhase, Payment
  <1> QED BY <1>1, <1>2, InitCInv DEF LInv

LEMMA NextLInv ==
    ASSUME Serial, NoConfirm, LInv, [Next]_vars
    PROVE  LInv'
  <1>1. TypeOK
    BY DEF LInv, CInv, RInv, IInv
  <1> QED BY <1>1, NextCInv, NextNoOverlap, NextReadsHold, NextLives, LivingBooks DEF LInv

\* With one call of an intent in flight and without confirm, no crash, resend
\* or redelivery leaves a row changed and its entries missing: at every moment
\* the row determines every balance of its intent.
THEOREM BooksAreOfRow ==
    ASSUME Serial
    PROVE  NoConfirm /\ Spec => []BooksMatchRow
  <1>1. NoConfirm /\ LInv /\ [Next]_vars => LInv'
    BY NextLInv
  <1>2. LInv => BooksMatchRow
    <2> SUFFICES ASSUME LInv, NEW k \in Intents
                 PROVE  LET row == payment_intents[k]
                            undone == row.status \in {"absent", "canceled"}
                        IN  ledger[k] = Balances(IF undone THEN 0 ELSE - row.amount,
                                                 IF undone THEN 0 ELSE row.amount - row.received,
                                                 row.received - row.refunded, row.refunded)
      BY DEF BooksMatchRow, Balances
    <2> DEFINE row == payment_intents[k]
    <2>1. /\ row \in Rows /\ row.amount \in Nat /\ row.refunded \in Nat /\ row.received \in Nat
          /\ row.status # "succeeded" => row.received = 0 /\ row.refunded = 0
          /\ row.status = "succeeded" => row.received = row.amount
          /\ ledger[k] = PaymentsOfTables!BooksOf(PaymentOf(row))
      BY LTypes DEF Succeeded, Rows
    <2> HIDE DEF row
    <2>2. CASE row.status \in {"absent", "canceled"}
      BY <2>1, <2>2, PhaseBooks DEF row
    <2>3. CASE row.status = "succeeded"
      <3>1. row.amount - row.received = 0
        BY <2>1, <2>3
      <3> QED BY <2>1, <2>3, <3>1, PhaseBooks DEF row
    <2>4. CASE row.status \notin {"absent", "canceled", "succeeded"}
      <3>1. row.amount - row.received = row.amount /\ row.received - row.refunded = 0
        BY <2>1, <2>4
      <3> QED BY <2>1, <2>4, <3>1, PhaseBooks DEF row
    <2> QED BY <2>2, <2>3, <2>4
  <1> QED BY <1>1, <1>2, NoConfirmStays, InitLInv, PTL DEF Spec

\* To such a merchant the gateway is Payments: each payment is asked for once,
\* paid or canceled once, and refunded up to what was paid, whatever fails.
THEOREM GatewayImplementsPayments ==
    ASSUME Serial
    PROVE  NoConfirm /\ Spec => ImplementsPayments
  <1>1. Init => PaymentsOfTables!Init
    BY DEF Init, StateInit, PaymentsOfTables!Init, PaymentOf, NoRow,
           PaymentsOfTables!EmptyBooks, PaymentsOfTables!Accounts, EmptyBooks, Accounts
  <1>2. NoConfirm /\ LInv /\ [Next]_vars => LInv'
    BY NextLInv
  <1>3. NoConfirm /\ LInv /\ [Next]_vars =>
            [PaymentsOfTables!Next]_<<[k \in Intents |-> PaymentOf(payment_intents[k])], ledger>>
    BY NextLives DEF Living
  <1> QED BY <1>1, <1>2, <1>3, NoConfirmStays, InitLInv, PTL
        DEF Spec, ImplementsPayments, PaymentsOfTables!Spec, PaymentsOfTables!lifecycle

-----------------------------------------------------------------------------
(* A paid session is completed: whatever the clients send, confirm and     *)
(* several calls at a time included.                                       *)

\* Stripe does not take a payment back.
LEMMA PaidStays ==
    ASSUME TypeOK, [Next]_vars, NEW k \in Intents, stripe_pi[k].status = "succeeded"
    PROVE  stripe_pi'[k].status = "succeeded"
  <1> USE RequestType DEF tables, pages, stripe
  \* Whoever writes an object writes one that is not paid, or leaves it paid.
  <1>w. ASSUME NEW j \in Intents, NEW pi, stripe_pi' = [stripe_pi EXCEPT ![j] = pi],
               stripe_pi[j].status = "succeeded" => pi.status = "succeeded"
        PROVE  stripe_pi'[k].status = "succeeded"
    BY <1>w DEF TypeOK
  <1>1. ASSUME NEW r \in Requests, CreateStripe(r)
        PROVE  stripe_pi'[k].status = "succeeded"
    BY <1>1, <1>w DEF CreateStripe, CreateAtStripe
  <1>2. ASSUME NEW r \in Requests, ConfirmStripe(r) \/ CancelStripe(r)
        PROVE  stripe_pi'[k].status = "succeeded"
    <2>1. \/ UNCHANGED stripe_pi
          \/ /\ stripe_pi[r.intent].status # "succeeded"
             /\ \E pi : stripe_pi' = [stripe_pi EXCEPT ![r.intent] = pi]
      BY <1>2 DEF ConfirmStripe, ConfirmAtStripe, CancelStripe, CancelAtStripe, Unsettled, Payable,
             Execute, Replay
    <2> QED BY <1>w, <2>1
  <1>3. ASSUME NEW r \in Requests, RefundStripe(r)
        PROVE  stripe_pi'[k].status = "succeeded"
    <2> DEFINE amount == RefundAmount(r, call[r].seen)
               pi == [stripe_pi[r.intent] EXCEPT !.refunded = @ + amount]
    <2>1. UNCHANGED stripe_pi \/ stripe_pi' = [stripe_pi EXCEPT ![r.intent] = pi]
      BY <1>3 DEF RefundStripe, RefundAtStripe, Execute, Replay
    <2>2. pi.status = stripe_pi[r.intent].status
      BY DEF TypeOK, StripeObjects
    <2> HIDE DEF pi
    <2> QED BY <1>w, <2>1, <2>2
  <1>4. ASSUME NEW r \in Requests, RequestStep(r),
               ~(CreateStripe(r) \/ ConfirmStripe(r) \/ CancelStripe(r) \/ RefundStripe(r))
        PROVE  UNCHANGED stripe_pi
    BY <1>4 DEF RequestStep, PaymentStep, CreateFind, CreateCommit, ConfirmFind, ConfirmCommit,
         CancelFind, CancelCommit, RefundFind, RefundCommit, Abort, SessionStep, FindSession,
         InsertSession, TTLPasses
  <1>5. ASSUME NEW v \in Viewers, NEW r \in Requests, PageStep(v, r)
        PROVE  UNCHANGED stripe_pi
    BY <1>5 DEF PageStep, ViewSession, ExpireSession, AbortView
  <1>6. ASSUME NEW d \in Deliveries, HookStep(d)
        PROVE  UNCHANGED stripe_pi
    BY <1>6 DEF HookStep, Receive, InsertEvent, Apply, FindSessionOfEvent, CompleteSession,
         Finish, AbortHook
  <1>7. ASSUME NEW j \in Intents, CustomerPays(j) \/ Settle(j) \/ PaidElsewhere(j)
        PROVE  stripe_pi'[k].status = "succeeded"
    BY <1>7 DEF CustomerPays, Settle, PaidElsewhere, Payable, TypeOK
  <1>8. UNCHANGED vars => UNCHANGED stripe_pi
    BY DEF vars
  <1> QED BY <1>1, <1>2, <1>3, <1>4, <1>5, <1>6, <1>7, <1>8 DEF Next, StripeNext

\* An event's row is written by the commits of its deliveries only, and becomes
\* processed when one of them finishes.
LEMMA EventsWritten ==
    ASSUME TypeOK, [Next]_vars, NEW k \in Intents
    PROVE  LET e == <<k, "succeeded">>
           IN  \/ webhook_events'[e] = webhook_events[e]
               \/ \E d \in Deliveries : CompleteSession(d) /\ Event(d) = e /\ webhook_events'[e] = "received"
               \/ \E d \in Deliveries : Finish(d) /\ Event(d) = e
  <1> USE DeliveryType DEF tables, pages, stripe
  <1> DEFINE e == <<k, "succeeded">>
  <1>1. ASSUME NEW d \in Deliveries, CompleteSession(d)
        PROVE  \/ webhook_events'[e] = webhook_events[e]
               \/ Event(d) = e /\ webhook_events'[e] = "received"
    <2> DEFINE event == IF hook[d].fresh THEN "received" ELSE webhook_events[Event(d)]
    <2>1. webhook_events' = [webhook_events EXCEPT ![Event(d)] = event]
      BY <1>1 DEF CompleteSession, CommitHook
    <2>2. event = "received" \/ event = webhook_events[Event(d)]
      OBVIOUS
    <2> HIDE DEF event
    <2> QED BY <2>1, <2>2 DEF TypeOK
  <1>2. ASSUME NEW d \in Deliveries, Finish(d), Event(d) # e
        PROVE  webhook_events'[e] = webhook_events[e]
    BY <1>2 DEF Finish, CommitHook, TypeOK
  <1>3. ASSUME NEW d \in Deliveries, HookStep(d), ~CompleteSession(d), ~Finish(d)
        PROVE  UNCHANGED webhook_events
    BY <1>3 DEF HookStep, Receive, InsertEvent, Apply, FindSessionOfEvent, AbortHook
  <1>4. ASSUME NEW r \in Requests, RequestStep(r)
        PROVE  UNCHANGED webhook_events
    BY <1>4 DEF RequestStep, PaymentStep, CreateFind, CreateStripe, CreateCommit, ConfirmFind,
         ConfirmStripe, ConfirmCommit, CancelFind, CancelStripe, CancelCommit, RefundFind,
         RefundStripe, RefundCommit, Abort, SessionStep, FindSession, InsertSession, TTLPasses
  <1>5. ASSUME NEW v \in Viewers, NEW r \in Requests, PageStep(v, r)
        PROVE  UNCHANGED webhook_events
    BY <1>5 DEF PageStep, ViewSession, ExpireSession, AbortView
  <1>6. StripeNext \/ UNCHANGED vars => UNCHANGED webhook_events
    BY DEF StripeNext, CustomerPays, Settle, PaidElsewhere, vars
  <1> QED BY <1>1, <1>2, <1>3, <1>4, <1>5, <1>6 DEF Next

LEMMA NextPInv ==
    ASSUME PInv, [Next]_vars
    PROVE  PInv'
  <1>0. IInv /\ TypeOK /\ CallsOK /\ SessionsNamed
    BY DEF PInv, IInv
  <1>1. IInv'
    BY <1>0, NextTypes, NextAgreement, NextRefunds DEF IInv, Agreement, RefundSafety
  <1>2. SessionsOnce'
    <2> SUFFICES ASSUME NEW r \in Requests, InTable(r)'
                 PROVE  call'[r].pc = "done"
      BY DEF SessionsOnce
    <2>1. CASE InTable(r)
      <3>1. call[r].pc = "done" /\ ~InFlight(r) /\ ~Admitted(r)
        BY <2>1 DEF PInv, SessionsOnce, InFlight, Admitted
      <3> QED BY <1>0, <3>1, CallsStay, CallSteps
    <2>2. CASE InsertSession(r)
      BY <1>0, <2>2, MovesFacts DEF InsertSession, TypeOK, PCs
    <2> QED BY <1>0, <2>1, <2>2, SessionsAppear
  <1>3. EventsPaid'
    <2> SUFFICES ASSUME NEW k \in Intents, webhook_events'[<<k, "succeeded">>] # "absent"
                 PROVE  stripe_pi'[k].status = "succeeded"
      BY DEF EventsPaid
    <2>1. CASE webhook_events[<<k, "succeeded">>] # "absent"
      BY <1>0, <2>1, PaidStays DEF PInv, EventsPaid
    <2>2. ASSUME NEW d \in Deliveries, CompleteSession(d) \/ Finish(d), Event(d) = <<k, "succeeded">>
          PROVE  stripe_pi'[k].status = "succeeded"
      <3>1. d.intent = k /\ d.type = "succeeded" /\ hook[d].pc # "idle"
        BY <2>2 DEF Event, CompleteSession, Finish
      <3>2. stripe_pi[k].status = "succeeded"
        BY <1>0, <3>1 DEF IInv, StripeKnows
      <3> QED BY <1>0, <3>2, PaidStays
    <2> QED BY <1>0, <2>1, <2>2, EventsWritten
  <1> QED BY <1>0, <1>1, <1>2, <1>3, NextRows, NextSessionsNamed DEF PInv

LEMMA InitPInv == Init => PInv
  <1> SUFFICES ASSUME Init
               PROVE  PInv
    OBVIOUS
  <1>1. SessionsNamed /\ SessionsOnce /\ EventsPaid
    BY DEF Init, StateInit, SessionsNamed, SessionsOnce, EventsPaid, InTable, Waiting
  <1>2. CInv
    BY InitCInv
  <1> QED BY <1>1, <1>2 DEF PInv, CInv, RInv

\* Only a page load that is behind takes a session out of completed.
LEMMA CompletedStays ==
    ASSUME PInv, [Next]_vars, NEW r \in Requests,
           checkout_sessions[r] = "completed", ~CompletedBehindALoad(r)
    PROVE  checkout_sessions'[r] = "completed"
  <1> USE DEF tables, pages, stripe
  <1>1. TypeOK
    BY DEF PInv, IInv
  <1>2. ASSUME NEW q \in Requests, InsertSession(q)
        PROVE  checkout_sessions'[r] = "completed"
    <2>1. call[q].pc # "done" /\ q # r
      BY <1>2 DEF InsertSession, PInv, SessionsOnce, InTable
    <2> QED BY <1>1, <1>2, <2>1 DEF InsertSession, TypeOK
  <1>3. ASSUME NEW d \in Deliveries, CompleteSession(d)
        PROVE  checkout_sessions'[r] = "completed"
    BY <1>3 DEF CompleteSession
  <1>4. ASSUME NEW v \in Viewers, NEW q \in Requests, ExpireSession(v, q)
        PROVE  checkout_sessions'[r] = "completed"
    BY <1>1, <1>4 DEF ExpireSession, CompletedBehindALoad, TypeOK
  <1>5. ASSUME NEW q \in Requests, RequestStep(q), ~InsertSession(q)
        PROVE  checkout_sessions' = checkout_sessions
    BY <1>5 DEF RequestStep, PaymentStep, CreateFind, CreateStripe, CreateCommit, ConfirmFind,
         ConfirmStripe, ConfirmCommit, CancelFind, CancelStripe, CancelCommit, RefundFind,
         RefundStripe, RefundCommit, Abort, SessionStep, FindSession, TTLPasses
  <1>6. ASSUME NEW v \in Viewers, NEW q \in Requests, PageStep(v, q), ~ExpireSession(v, q)
        PROVE  checkout_sessions' = checkout_sessions
    BY <1>6 DEF PageStep, ViewSession, AbortView
  <1>7. ASSUME NEW d \in Deliveries, HookStep(d), ~CompleteSession(d)
        PROVE  checkout_sessions' = checkout_sessions
    BY <1>7 DEF HookStep, Receive, InsertEvent, Apply, FindSessionOfEvent, Finish, AbortHook
  <1>8. StripeNext \/ UNCHANGED vars => checkout_sessions' = checkout_sessions
    BY DEF StripeNext, CustomerPays, Settle, PaidElsewhere, vars
  <1> QED BY <1>2, <1>3, <1>4, <1>5, <1>6, <1>7, <1>8 DEF Next

\* The delivery that finds the session, completes it or finds nothing to do: as
\* r is there, what it finds is r alone, and two sessions stop it for good.
LEMMA OwnClosing ==
    ASSUME PInv, [Next]_vars, NEW r \in Requests, WillClose(r), ~CompletedBehindALoad(r),
           NEW d \in Deliveries, HookStep(d), d.type = "succeeded", d.intent = r.intent
    PROVE  Closing(d, r)'
  <1> USE DeliveryType DEF tables
  <1>0. TypeOK /\ r \in SessionsOf(d.intent) /\ Exists(d.intent) /\ Closing(d, r)
    BY DEF PInv, IInv, WillClose, SessionsOf, InTable, RowsComeFirst, Evidence
  <1>1. CASE Receive(d)
    BY <1>0, <1>1, ReceiveSteps DEF Closing
  <1>2. CASE InsertEvent(d)
    <2>1. CASE HookAt(d, "apply")
      BY <1>0, <2>1, HookAtSteps DEF Closing
    <2>2. CASE hook' = [hook EXCEPT ![d] = Waiting]
      BY <1>0, <2>2, ResetFacts, WaitingType DEF Closing
    <2> QED BY <1>2, <2>1, <2>2 DEF InsertEvent
  <1>3. CASE Apply(d)
    BY <1>0, <1>3, ApplySteps DEF Closing
  <1>4. CASE FindSessionOfEvent(d)
    <2> DEFINE found == {q \in SessionsOf(d.intent) : checkout_sessions[q] # "completed"}
    <2>1. r \in found \/ checkout_sessions'[r] = "completed"
      BY <1>0, <1>4 DEF FindSessionOfEvent
    <2>2. CASE found = {} /\ HookAt(d, "finish")
      <3>1. hook'[d].pc = "finish"
        BY <1>0, <2>2, HookAtSteps
      <3> QED BY <2>1, <2>2, <3>1 DEF Closing
    <2>3. CASE hook' = [hook EXCEPT ![d].pc = "complete", ![d].found = found]
      <3>1. hook'[d].pc = "complete" /\ hook'[d].found = found
        BY <1>0, <2>3 DEF TypeOK, Hooks
      <3> QED BY <2>1, <3>1 DEF Closing
    <2> QED BY <1>4, <2>2, <2>3 DEF FindSessionOfEvent
  <1>5. CASE CompleteSession(d)
    <2>1. checkout_sessions'[r] = "completed"
      BY <1>0, <1>5 DEF CompleteSession, Closing
    <2>2. hook'[d].pc = "finish"
      BY <1>0, <1>5, ResetFacts, WaitingType DEF CompleteSession
    <2> QED BY <2>1, <2>2 DEF Closing
  <1>6. CASE Finish(d) \/ AbortHook(d)
    BY <1>0, <1>6, ResetFacts, WaitingType DEF Finish, AbortHook, Closing
  <1> QED BY <1>1, <1>2, <1>3, <1>4, <1>5, <1>6 DEF HookStep

LEMMA NextWillClose ==
    ASSUME PInv, [Next]_vars, NEW r \in Requests, WillClose(r), ~CompletedBehindALoad(r)
    PROVE  WillClose(r)'
  <1> USE DeliveryType DEF tables, pages, stripe
  <1>0. TypeOK /\ SessionsNamed
    BY DEF PInv, IInv
  <1>1. InTable(r)'
    BY <1>0, SessionsAppear DEF WillClose
  \* The progress of a delivery that takes no step.
  <1>2. ASSUME NEW d \in Deliveries, hook'[d] = hook[d]
        PROVE  Closing(d, r)'
    BY <1>2, CompletedStays DEF WillClose, Closing
  <1>3. hook' = hook \/ \E e \in Deliveries : HookStep(e) /\ OthersStay(e)
    <2>1. \A q \in Requests : RequestStep(q) => hook' = hook
      BY DEF RequestStep, PaymentStep, CreateFind, CreateStripe, CreateCommit, ConfirmFind,
             ConfirmStripe, ConfirmCommit, CancelFind, CancelStripe, CancelCommit, RefundFind,
             RefundStripe, RefundCommit, Abort, SessionStep, FindSession, InsertSession, TTLPasses
    <2>2. \A v \in Viewers, q \in Requests : PageStep(v, q) => hook' = hook
      BY DEF PageStep, ViewSession, ExpireSession, AbortView
    <2>3. StripeNext \/ UNCHANGED vars => hook' = hook
      BY DEF StripeNext, CustomerPays, Settle, PaidElsewhere, vars
    <2>4. ASSUME NEW e \in Deliveries, HookStep(e)
          PROVE  OthersStay(e)
      BY <1>0, <2>4 DEF HookStep, Receive, InsertEvent, Apply, FindSessionOfEvent, CompleteSession,
           Finish, AbortHook, HookAt, OthersStay, TypeOK
    <2> QED BY <2>1, <2>2, <2>3, <2>4 DEF Next
  <1>4. ASSUME NEW d \in Deliveries
        PROVE  Closing(d, r)'
    <2>1. CASE d.type = "succeeded" /\ d.intent = r.intent
      BY <1>2, <1>3, <2>1, OwnClosing DEF OthersStay
    <2>2. CASE ~(d.type = "succeeded" /\ d.intent = r.intent)
      BY <2>2 DEF Closing
    <2> QED BY <2>1, <2>2
  <1>5. ASSUME webhook_events'[<<r.intent, "succeeded">>] = "processed"
        PROVE  checkout_sessions'[r] = "completed"
    <2>1. CASE webhook_events[<<r.intent, "succeeded">>] = "processed"
      BY <2>1, CompletedStays DEF WillClose, Closed
    <2>2. ASSUME NEW d \in Deliveries, Finish(d), Event(d) = <<r.intent, "succeeded">>
          PROVE  checkout_sessions'[r] = "completed"
      BY <2>2, CompletedStays DEF WillClose, Closing, Event, Finish
    <2> QED BY <1>0, <1>5, <2>1, <2>2, RequestType, EventsWritten
  <1> QED BY <1>1, <1>4, <1>5 DEF WillClose, Closed

\* For any clients, any number of page loads, crashes and deliveries: a session
\* that was there before the payment is completed whenever the event is
\* acknowledged, unless it was completed behind the back of a page load.
THEOREM PaidSessionsComplete == Spec => PaidSessionCompleted
  <1>1. ASSUME NEW r \in Requests
        PROVE  Spec => ([]~CompletedBehindALoad(r) =>
                   [](checkout_sessions[r] # "absent" /\ stripe_pi[r.intent].status # "succeeded" =>
                          [](webhook_events[<<r.intent, "succeeded">>] = "processed" =>
                                 checkout_sessions[r] = "completed")))
    <2>1. PInv /\ [Next]_vars => PInv'
      BY NextPInv
    <2>2. PInv /\ WillClose(r) /\ ~CompletedBehindALoad(r) /\ [Next]_vars => WillClose(r)'
      BY NextWillClose
    \* Nothing has been delivered of a payment that has not been made.
    <2>3. PInv /\ Unpaid(r) => WillClose(r)
      <3> SUFFICES ASSUME PInv, Unpaid(r)
                   PROVE  WillClose(r)
        OBVIOUS
      <3>1. \A d \in Deliveries : d.type = "succeeded" /\ d.intent = r.intent => hook[d].pc = "idle"
        BY DEF PInv, IInv, StripeKnows, Unpaid
      <3>2. webhook_events[<<r.intent, "succeeded">>] = "absent"
        BY RequestType DEF PInv, EventsPaid, Unpaid
      <3> QED BY <3>1, <3>2 DEF WillClose, Closed, Closing, Unpaid, InTable
    <2>4. WillClose(r) => Closed(r)
      BY DEF WillClose
    <2>5. Spec => ([]~CompletedBehindALoad(r) => [](Unpaid(r) => []Closed(r)))
      BY <2>1, <2>2, <2>3, <2>4, InitPInv, PTL DEF Spec
    <2> QED BY <2>5 DEF Unpaid, Closed
  <1> QED BY <1>1 DEF PaidSessionCompleted
=============================================================================
