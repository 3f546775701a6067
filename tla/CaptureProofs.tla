--------------------------- MODULE CaptureProofs ---------------------------
(***************************************************************************)
(* The second group of Gateway's properties, for every set of intents,     *)
(* requests, deliveries and viewers, while no client uses confirm: a       *)
(* capture is booked once, and what is acknowledged or completed is booked.*)
(***************************************************************************)
EXTENDS GatewayRefinement

\* The hosted page and the merchants it is for do not use the endpoint.
NoConfirm == \A r \in Requests : r.op # "confirm"

\* The part of the primary key of webhook_events: one open insert of an event
\* at a time, only while the row is not there, and a delivery that did not
\* insert the row has seen it.
InsertsExclude ==
    /\ \A d, e \in Deliveries : InsertedBy(d) /\ InsertedBy(e) /\ Event(d) = Event(e) => d = e
    /\ \A d \in Deliveries : InsertedBy(d) => webhook_events[Event(d)] = "absent"
    /\ \A d \in Deliveries :
           hook[d].pc # "idle" /\ ~hook[d].fresh =>
               hook[d].pc # "insert" /\ webhook_events[Event(d)] # "absent"

\* What shows that the row of r's intent was there once.
Evidence(r) ==
    \/ call[r].pc \in {"find_session", "insert_session"}
    \/ checkout_sessions[r] # "absent"
    \/ \E v \in Viewers : <<v, r>> \in expiring
    \/ \E d \in Deliveries : r \in hook[d].found

InPayment(k) == stripe_pi[k].status \in {"processing", "succeeded"}

\* The secret is read from a row: what Stripe settles for an intent of ours has
\* one, and no row is ever made for another.
RowsComeFirst ==
    /\ \A k \in Foreign : ~Exists(k)
    /\ \A r \in Requests : Evidence(r) => Exists(r.intent)
    /\ \A k \in Intents \ Foreign : InPayment(k) => Exists(k)

Succeeded(k) == payment_intents[k].status = "succeeded"

\* Received and captured are the whole amount, or nothing.
BooksFollow ==
    \A k \in Intents :
        /\ payment_intents[k].received = IF Succeeded(k) THEN payment_intents[k].amount ELSE 0
        /\ Captured(k) = payment_intents[k].received

\* What d and its event know of the row.
DeliveryKnows(d) ==
    /\ hook[d].capture => InsertedBy(d) /\ ~Succeeded(d.intent)
    /\ hook[d].pc \in {"find_session", "complete"} =>
           d.type = "succeeded" /\ Exists(d.intent)
    /\ hook[d].pc \in {"find_session", "complete", "finish"} /\ d.type = "succeeded" =>
           hook[d].capture \/ Succeeded(d.intent) \/ d.intent \in Foreign
    /\ \A r \in hook[d].found : r.intent = d.intent

EventsKnow ==
    /\ \A k \in Intents :
           /\ webhook_events[<<k, "succeeded">>] = "received" => Succeeded(k)
           /\ webhook_events[<<k, "succeeded">>] = "processed" => Succeeded(k) \/ k \in Foreign
    /\ \A r \in Requests : checkout_sessions[r] = "completed" => Succeeded(r.intent)

CaptureKnows == (\A d \in Deliveries : DeliveryKnows(d)) /\ EventsKnow

\* The inductive invariant of the second group.
CInv == RInv /\ InsertsExclude /\ RowsComeFirst /\ BooksFollow /\ CaptureKnows

-----------------------------------------------------------------------------
(* What the steps of a delivery do to hook.                                *)

OthersStay(d) == \A e \in Deliveries \ {d} : hook'[e] = hook[e]

LEMMA ResetFacts ==
    ASSUME TypeOK, NEW d \in Deliveries, NEW h \in Hooks, hook' = [hook EXCEPT ![d] = h]
    PROVE  hook'[d] = h /\ OthersStay(d)
  BY DEF TypeOK, OthersStay

LEMMA WaitingType ==
    /\ Waiting \in Hooks /\ [Waiting EXCEPT !.pc = "finish"] \in Hooks
    /\ Waiting.pc = "idle" /\ ~Waiting.fresh /\ ~Waiting.capture /\ Waiting.found = {}
    /\ [Waiting EXCEPT !.pc = "finish"].pc = "finish"
    /\ ~[Waiting EXCEPT !.pc = "finish"].fresh /\ ~[Waiting EXCEPT !.pc = "finish"].capture
    /\ [Waiting EXCEPT !.pc = "finish"].found = {}
  BY DEF Waiting, Hooks

LEMMA ReceiveSteps ==
    ASSUME TypeOK, NEW d \in Deliveries, Receive(d)
    PROVE  /\ OthersStay(d)
           /\ ~hook'[d].capture /\ hook'[d].found = {}
           /\ IF webhook_events[Event(d)] = "absent"
              THEN hook'[d].pc = "insert" /\ hook'[d].fresh
              ELSE hook'[d].pc = "apply" /\ ~hook'[d].fresh
  <1> DEFINE new == webhook_events[Event(d)] = "absent"
             h == [Waiting EXCEPT !.pc = IF new THEN "insert" ELSE "apply", !.fresh = new]
  <1>1. hook' = [hook EXCEPT ![d] = h]
    BY DEF Receive
  <1>2. new \in BOOLEAN
    OBVIOUS
  <1> HIDE DEF new
  <1>3. /\ h \in Hooks /\ ~h.capture /\ h.found = {} /\ h.fresh = new
        /\ h.pc = IF new THEN "insert" ELSE "apply"
    BY <1>2 DEF Waiting, Hooks
  <1> HIDE DEF h
  <1>4. hook'[d] = h /\ OthersStay(d)
    BY <1>1, <1>3, ResetFacts
  <1> QED BY <1>3, <1>4 DEF new

LEMMA HookAtSteps ==
    ASSUME TypeOK, NEW d \in Deliveries, NEW pc \in {"apply", "find_session", "finish"},
           HookAt(d, pc)
    PROVE  /\ OthersStay(d)
           /\ hook'[d].pc = pc /\ hook'[d].fresh = hook[d].fresh
           /\ hook'[d].capture = hook[d].capture /\ hook'[d].found = hook[d].found
  BY HookAtFacts DEF TypeOK, OthersStay

\* Only an event of a row that is there goes on to the session, and stages the
\* capture unless the row is succeeded already.
LEMMA ApplySteps ==
    ASSUME TypeOK, NEW d \in Deliveries, Apply(d)
    PROVE  /\ OthersStay(d)
           /\ hook'[d].fresh = hook[d].fresh /\ hook'[d].found = hook[d].found
           /\ \/ /\ d.type = "canceled" \/ ~Exists(d.intent)
                 /\ hook'[d].pc = "finish" /\ hook'[d].capture = hook[d].capture
              \/ /\ d.type = "succeeded" /\ Exists(d.intent)
                 /\ hook'[d].pc = "find_session"
                 /\ hook'[d].capture <=> ~Succeeded(d.intent)
  <1>1. CASE /\ d.type = "canceled" \/ ~Exists(d.intent)
             /\ HookAt(d, "finish")
    BY <1>1, HookAtSteps
  <1>2. CASE /\ d.type = "succeeded" /\ Exists(d.intent)
             /\ hook' = [hook EXCEPT ![d].pc = "find_session",
                    ![d].capture = payment_intents[d.intent].status # "succeeded"]
    <2> DEFINE c == payment_intents[d.intent].status # "succeeded"
               h == [hook[d] EXCEPT !.pc = "find_session", !.capture = c]
    <2>1. hook' = [hook EXCEPT ![d] = h]
      BY <1>2
    <2>2. c \in BOOLEAN /\ hook[d] \in Hooks
      BY DEF TypeOK
    <2>c. c <=> ~Succeeded(d.intent)
      BY DEF Succeeded
    <2> HIDE DEF c
    <2>3. /\ h \in Hooks /\ h.pc = "find_session" /\ h.capture = c
          /\ h.fresh = hook[d].fresh /\ h.found = hook[d].found
      BY <2>2 DEF Hooks
    <2> HIDE DEF h
    <2>4. hook'[d] = h /\ OthersStay(d)
      BY <2>1, <2>3, ResetFacts
    <2> QED BY <1>2, <2>c, <2>3, <2>4
  <1> QED BY <1>1, <1>2 DEF Apply

LEMMA FindSessionSteps ==
    ASSUME TypeOK, NEW d \in Deliveries, FindSessionOfEvent(d)
    PROVE  /\ OthersStay(d)
           /\ hook'[d].pc \in {"complete", "finish"}
           /\ hook'[d].fresh = hook[d].fresh /\ hook'[d].capture = hook[d].capture
           /\ \/ hook'[d].found = hook[d].found
              \/ hook'[d].found \subseteq SessionsOf(d.intent)
  <1> DEFINE open == {r \in SessionsOf(d.intent) : checkout_sessions[r] # "completed"}
             h == [hook[d] EXCEPT !.pc = "complete", !.found = open]
  <1>1. CASE HookAt(d, "finish")
    BY <1>1, HookAtSteps
  <1>2. CASE hook' = [hook EXCEPT ![d].pc = "complete", ![d].found = open]
    <2>1. hook' = [hook EXCEPT ![d] = h]
      BY <1>2
    <2>2. open \in SUBSET Requests /\ open \subseteq SessionsOf(d.intent) /\ hook[d] \in Hooks
      BY DEF SessionsOf, TypeOK
    <2> HIDE DEF open
    <2>3. /\ h \in Hooks /\ h.pc = "complete" /\ h.capture = hook[d].capture
          /\ h.fresh = hook[d].fresh /\ h.found = open
      BY <2>2 DEF Hooks
    <2> HIDE DEF h
    <2>4. hook'[d] = h /\ OthersStay(d)
      BY <2>1, <2>3, ResetFacts
    <2> QED BY <2>2, <2>3, <2>4
  <1> QED BY <1>1, <1>2 DEF FindSessionOfEvent

-----------------------------------------------------------------------------
(* One open insert per event.                                              *)

\* The transaction of d goes on, or begins or ends without a write.
LEMMA MovesExclude ==
    ASSUME InsertsExclude, NEW d \in Deliveries, OthersStay(d), webhook_events' = webhook_events,
           InsertedBy(d)' => \/ InsertedBy(d)
                             \/ /\ webhook_events[Event(d)] = "absent"
                                /\ \A e \in Deliveries : Event(e) = Event(d) => ~InsertedBy(e),
           hook'[d].pc # "idle" /\ ~hook'[d].fresh =>
               hook'[d].pc # "insert" /\ webhook_events[Event(d)] # "absent"
    PROVE  InsertsExclude'
  <1>1. \A e \in Deliveries \ {d} : InsertedBy(e)' <=> InsertedBy(e)
    BY DEF OthersStay, InsertedBy
  <1>2. \A e \in Deliveries : Event(e)' = Event(e)
    BY DEF Event
  <1>3. \A e \in Deliveries : InsertedBy(e)' => webhook_events'[Event(e)] = "absent"
    BY <1>1 DEF InsertsExclude
  <1>4. \A e, f \in Deliveries : InsertedBy(e)' /\ InsertedBy(f)' /\ Event(e) = Event(f) => e = f
    BY <1>1 DEF InsertsExclude
  <1>5. \A e \in Deliveries :
           hook'[e].pc # "idle" /\ ~hook'[e].fresh =>
               hook'[e].pc # "insert" /\ webhook_events'[Event(e)] # "absent"
    BY DEF InsertsExclude, OthersStay
  <1> QED BY <1>2, <1>3, <1>4, <1>5 DEF InsertsExclude

\* The transaction of d commits the row of its event.
LEMMA CommitExcludes ==
    ASSUME TypeOK, InsertsExclude, NEW d \in Deliveries, OthersStay(d),
           NEW event \in {"received", "processed"}, CommitHook(d, event),
           hook[d].pc \notin {"idle", "insert"},
           ~hook'[d].fresh, hook'[d].pc # "insert"
    PROVE  InsertsExclude'
  <1>1. /\ webhook_events'[Event(d)] = event
        /\ \A e \in Deliveries : \/ Event(e) = Event(d)
                                  \/ webhook_events'[Event(e)] = webhook_events[Event(e)]
    BY DeliveryType DEF CommitHook, TypeOK, Event
  <1>2. ~InsertedBy(d)'
    BY DEF InsertedBy
  <1>3. \A e \in Deliveries \ {d} : InsertedBy(e)' <=> InsertedBy(e)
    BY DEF OthersStay, InsertedBy
  <1>4. \A e \in Deliveries \ {d} : InsertedBy(e) => Event(e) # Event(d)
    <2>1. CASE hook[d].fresh
      BY <2>1 DEF InsertsExclude, InsertedBy
    <2>2. CASE ~hook[d].fresh
      BY <2>2 DEF InsertsExclude
    <2> QED BY <2>1, <2>2
  <1>5. \A e \in Deliveries : InsertedBy(e)' => webhook_events'[Event(e)] = "absent"
    BY <1>1, <1>2, <1>3, <1>4 DEF InsertsExclude
  <1>6. \A e, f \in Deliveries : InsertedBy(e)' /\ InsertedBy(f)' /\ Event(e) = Event(f) => e = f
    BY <1>2, <1>3 DEF InsertsExclude
  <1>7. \A e \in Deliveries :
           hook'[e].pc # "idle" /\ ~hook'[e].fresh =>
               hook'[e].pc # "insert" /\ webhook_events'[Event(e)] # "absent"
    BY <1>1 DEF InsertsExclude, OthersStay
  <1> QED BY <1>5, <1>6, <1>7 DEF InsertsExclude, Event

LEMMA HookExcludes ==
    ASSUME TypeOK, InsertsExclude, NEW d \in Deliveries, HookStep(d)
    PROVE  InsertsExclude'
  <1> USE DEF tables
  <1>1. CASE Receive(d)
    BY <1>1, ReceiveSteps, MovesExclude DEF Receive, InsertedBy
  <1>2. CASE InsertEvent(d)
    <2>1. CASE HookAt(d, "apply")
      <3>1. hook[d].fresh /\ webhook_events[Event(d)] = "absent"
        <4>1. hook[d].fresh
          BY <1>2 DEF InsertEvent, InsertsExclude
        <4>2. CASE hook' = [hook EXCEPT ![d] = Waiting]
          BY <2>1, <4>2, HookAtSteps, ResetFacts, WaitingType
        <4> QED BY <1>2, <4>1, <4>2 DEF InsertEvent
      <3> QED BY <1>2, <2>1, <3>1, HookAtSteps, MovesExclude DEF InsertEvent, InsertedBy
    <2>2. CASE hook' = [hook EXCEPT ![d] = Waiting]
      <3>1. hook'[d] = Waiting /\ OthersStay(d)
        BY <2>2, ResetFacts, WaitingType
      <3> QED BY <1>2, <3>1, WaitingType, MovesExclude DEF InsertEvent, InsertedBy
    <2> QED BY <1>2, <2>1, <2>2 DEF InsertEvent
  <1>3. CASE Apply(d)
    BY <1>3, ApplySteps, MovesExclude DEF Apply, InsertedBy, InsertsExclude
  <1>4. CASE FindSessionOfEvent(d)
    BY <1>4, FindSessionSteps, MovesExclude DEF FindSessionOfEvent, InsertedBy, InsertsExclude
  <1>5. CASE CompleteSession(d)
    <2> DEFINE event == IF hook[d].fresh THEN "received" ELSE webhook_events[Event(d)]
    <2>1. event \in {"received", "processed"}
      <3>1. webhook_events[Event(d)] \in {"absent", "received", "processed"}
        BY DeliveryType DEF TypeOK, Event
      <3> QED BY <1>5, <3>1 DEF CompleteSession, InsertsExclude
    <2>2. CommitHook(d, event) /\ hook' = [hook EXCEPT ![d] = [Waiting EXCEPT !.pc = "finish"]]
          /\ hook[d].pc = "complete"
      BY <1>5 DEF CompleteSession
    <2> HIDE DEF event
    <2>3. hook'[d] = [Waiting EXCEPT !.pc = "finish"] /\ OthersStay(d)
      BY <2>2, ResetFacts, WaitingType
    <2> QED BY <2>1, <2>2, <2>3, WaitingType, CommitExcludes
  <1>6. CASE Finish(d)
    <2>1. hook'[d] = Waiting /\ OthersStay(d)
      BY <1>6, ResetFacts, WaitingType DEF Finish
    <2> QED BY <1>6, <2>1, WaitingType, CommitExcludes DEF Finish
  <1>7. CASE AbortHook(d)
    <2>1. hook'[d] = Waiting /\ OthersStay(d)
      BY <1>7, ResetFacts, WaitingType DEF AbortHook
    <2> QED BY <1>7, <2>1, WaitingType, MovesExclude DEF AbortHook, InsertedBy
  <1> QED BY <1>1, <1>2, <1>3, <1>4, <1>5, <1>6, <1>7 DEF HookStep

\* Nobody but deliveries writes events.
LEMMA NextExcludes ==
    ASSUME TypeOK, InsertsExclude, [Next]_vars
    PROVE  InsertsExclude'
  <1> USE DEF tables, pages, stripe
  <1>1. CASE UNCHANGED <<webhook_events, hook>>
    BY <1>1 DEF InsertsExclude, InsertedBy, Event
  <1>2. ASSUME NEW r \in Requests, RequestStep(r)
        PROVE  UNCHANGED <<webhook_events, hook>>
    BY <1>2 DEF RequestStep, PaymentStep, CreateFind, CreateStripe, CreateCommit, ConfirmFind,
         ConfirmStripe, ConfirmCommit, CancelFind, CancelStripe, CancelCommit, RefundFind,
         RefundStripe, RefundCommit, Abort, SessionStep, FindSession, InsertSession,
         TTLPasses
  <1>3. ASSUME NEW v \in Viewers, NEW r \in Requests, PageStep(v, r)
        PROVE  UNCHANGED <<webhook_events, hook>>
    BY <1>3 DEF PageStep, ViewSession, ExpireSession, AbortView
  <1>4. StripeNext => UNCHANGED <<webhook_events, hook>>
    BY DEF StripeNext, CustomerPays, Settle, PaidElsewhere
  <1>5. UNCHANGED vars => UNCHANGED <<webhook_events, hook>>
    BY DEF vars
  <1> QED BY <1>1, <1>2, <1>3, <1>4, <1>5, HookExcludes DEF Next

-----------------------------------------------------------------------------
(* The row comes before the payment.                                       *)

\* Rows stay, and only intents of ours get one.
RowsStay ==
    /\ \A k \in Intents : Exists(k) => Exists(k)'
    /\ \A k \in Foreign : payment_intents'[k] = payment_intents[k]

LEMMA ForeignType ==
    /\ \A k \in Foreign : k \in Intents
    /\ \A r \in Requests : r.intent \notin Foreign
  BY RequestsAssumption

LEMMA RowsFirst ==
    ASSUME RowsComeFirst, RowsStay,
           \A r \in Requests : Evidence(r)' => Evidence(r) \/ Exists(r.intent) \/ Exists(r.intent)',
           \A k \in Intents \ Foreign : InPayment(k)' => InPayment(k) \/ Exists(k) \/ Exists(k)'
    PROVE  RowsComeFirst'
  <1>1. \A k \in Foreign : ~Exists(k)'
    BY DEF RowsComeFirst, RowsStay, Exists
  <1>2. \A r \in Requests : Evidence(r)' => Exists(r.intent)'
    BY RequestType DEF RowsComeFirst, RowsStay
  <1>3. \A k \in Intents \ Foreign : InPayment(k)' => Exists(k)'
    BY DEF RowsComeFirst, RowsStay
  <1> QED BY <1>1, <1>2, <1>3 DEF RowsComeFirst

\* One row is written, of an intent of ours.
LEMMA RowWritten ==
    ASSUME TypeOK, NEW k \in Intents \ Foreign, NEW row,
           payment_intents' = [payment_intents EXCEPT ![k] = row],
           Exists(k) => row.status # "absent"
    PROVE  RowsStay
  <1>1. /\ payment_intents'[k] = row
        /\ \A j \in Intents \ {k} : payment_intents'[j] = payment_intents[j]
    BY DEF TypeOK
  <1> QED BY <1>1, ForeignType DEF RowsStay, Exists

\* The rows a commit of a request or a delivery writes.
LEMMA CommitsStay ==
    ASSUME IInv, RowsComeFirst, NEW r \in Requests,
           CreateCommit(r) \/ ConfirmCommit(r) \/ CancelCommit(r) \/ RefundCommit(r)
    PROVE  RowsStay /\ (CreateCommit(r) => Exists(r.intent)')
  <1> USE RequestType, ForeignType
  <1>t. TypeOK /\ payment_intents[r.intent] \in Rows
    BY DEF IInv, TypeOK
  <1>1. CASE CreateCommit(r)
    <2>1. CASE Exists(r.intent)
      BY <1>1, <2>1 DEF CreateCommit, RowsStay, Exists
    <2>2. CASE ~Exists(r.intent)
      <3> DEFINE row == [status |-> call[r].reply, amount |-> r.amount,
                         received |-> 0, refunded |-> 0]
      <3>1. payment_intents' = [payment_intents EXCEPT ![r.intent] = row]
        BY <1>1, <2>2 DEF CreateCommit
      <3>2. row.status = "requires_payment_method"
        BY <1>1 DEF CreateCommit, IInv, StripeKnows
      <3> HIDE DEF row
      <3>3. payment_intents'[r.intent] = row
        BY <1>t, <3>1 DEF TypeOK
      <3> QED BY <1>t, <3>1, <3>2, <3>3, RowWritten DEF Exists
    <2> QED BY <2>1, <2>2
  <1>2. CASE ConfirmCommit(r) \/ CancelCommit(r)
    <2>1. Exists(r.intent) /\ call[r].reply \in Statuses
      BY <1>2 DEF ConfirmCommit, CancelCommit, IInv, StripeKnows, CallsOK, Creating
    <2>2. PICK status \in Statuses :
              payment_intents' = [payment_intents EXCEPT ![r.intent].status = status]
      <3>1. CASE ConfirmCommit(r)
        <4> DEFINE s == IF call[r].reply = call[r].seen.status
                        THEN payment_intents[r.intent].status ELSE call[r].reply
        <4>1. payment_intents' = [payment_intents EXCEPT ![r.intent].status = s]
          BY <3>1 DEF ConfirmCommit
        <4>2. s \in Statuses
          BY <1>t, <2>1 DEF Exists, Rows
        <4> QED BY <4>1, <4>2
      <3>2. CASE CancelCommit(r)
        BY <2>1, <3>2 DEF CancelCommit
      <3> QED BY <1>2, <3>1, <3>2
    <2> DEFINE row == [payment_intents[r.intent] EXCEPT !.status = status]
    <2>3. payment_intents' = [payment_intents EXCEPT ![r.intent] = row]
      BY <2>2
    <2>4. row.status # "absent"
      BY <1>t, StatusTypes
    <2> HIDE DEF row
    <2>5. r.op # "create"
      BY <1>2 DEF ConfirmCommit, CancelCommit
    <2> QED BY <1>t, <1>2, <2>3, <2>4, RowWritten DEF ConfirmCommit, CancelCommit, CreateCommit, Creating
  <1>3. CASE RefundCommit(r)
    <2> DEFINE total == call[r].seen.refunded + RefundAmount(r, call[r].seen)
               row == [payment_intents[r.intent] EXCEPT !.refunded = total]
    <2>1. payment_intents' = [payment_intents EXCEPT ![r.intent] = row]
      BY <1>3 DEF RefundCommit
    <2> HIDE DEF total
    <2>2. row.status = payment_intents[r.intent].status
      BY <1>t DEF Rows
    <2> HIDE DEF row
    <2> QED BY <1>t, <1>3, <2>1, <2>2, RowWritten DEF Exists, RefundCommit, CreateCommit, Creating
  <1> QED BY <1>1, <1>2, <1>3

\* A request that writes no row, whose next step is not evidence of one unless
\* the row is there.
LEMMA QuietRows ==
    ASSUME RowsComeFirst, NEW r \in Requests,
           UNCHANGED <<payment_intents, checkout_sessions, expiring, hook>>,
           \A q \in Requests \ {r} : call'[q] = call[q],
           call'[r].pc \notin {"find_session", "insert_session"} \/ Exists(r.intent),
           \A k \in Intents \ Foreign : InPayment(k)' => InPayment(k) \/ Exists(k)
    PROVE  RowsComeFirst'
  <1>1. RowsStay
    BY DEF RowsStay, Exists
  <1>2. \A q \in Requests : Evidence(q)' => Evidence(q) \/ Exists(q.intent)
    BY DEF Evidence
  <1> QED BY <1>1, <1>2, RowsFirst

LEMMA QuietMove ==
    ASSUME TypeOK, RowsComeFirst, NEW r \in Requests, NEW pc \in PCs, Moves(r, pc),
           UNCHANGED <<payment_intents, checkout_sessions, expiring, hook, stripe_pi>>,
           pc \notin {"find_session", "insert_session"} \/ Exists(r.intent)
    PROVE  RowsComeFirst'
  <1>1. call'[r].pc = pc /\ \A q \in Requests \ {r} : call'[q] = call[q]
    BY MovesFacts DEF TypeOK
  <1>2. \A k \in Intents : InPayment(k)' => InPayment(k)
    BY DEF InPayment
  <1> QED BY <1>1, <1>2, QuietRows

LEMMA RequestRows ==
    ASSUME IInv, RowsComeFirst, NEW r \in Requests, PaymentStep(r) \/ SessionStep(r)
    PROVE  RowsComeFirst'
  <1> USE RequestType, ForeignType DEF tables, pages, stripe
  <1>t. TypeOK
    BY DEF IInv
  <1>1. CASE CreateCommit(r) \/ ConfirmCommit(r) \/ CancelCommit(r) \/ RefundCommit(r)
    <2>1. RowsStay /\ (CreateCommit(r) => Exists(r.intent)')
      BY <1>1, CommitsStay
    <2>2. PICK pc \in PCs : Moves(r, pc)
      BY <1>1 DEF CreateCommit, ConfirmCommit, CancelCommit, RefundCommit, Created, PCs
    <2>3. \A q \in Requests \ {r} : call'[q] = call[q]
      BY <1>t, <2>2, MovesFacts DEF TypeOK
    <2>4. UNCHANGED <<checkout_sessions, expiring, hook, stripe_pi>>
      BY <1>1 DEF CreateCommit, ConfirmCommit, CancelCommit, RefundCommit
    <2>5. CreateCommit(r) \/ call'[r].pc = "done"
      BY <1>t, <1>1, MovesFacts
         DEF CreateCommit, ConfirmCommit, CancelCommit, RefundCommit, PCs, TypeOK
    <2>6. \A q \in Requests \ {r} : Evidence(q)' => Evidence(q)
      BY <2>3, <2>4 DEF Evidence
    <2>7. Evidence(r)' => Evidence(r) \/ Exists(r.intent)'
      BY <2>1, <2>4, <2>5 DEF Evidence
    <2>8. \A k \in Intents : InPayment(k)' => InPayment(k)
      BY <2>4 DEF InPayment
    <2> QED BY <2>1, <2>6, <2>7, <2>8, RowsFirst
  <1>3. CASE CreateFind(r) \/ ConfirmFind(r) \/ CancelFind(r) \/ RefundFind(r) \/ Abort(r)
             \/ FindSession(r)
    <2>1. UNCHANGED <<payment_intents, checkout_sessions, expiring, hook, stripe_pi>>
      BY <1>3 DEF CreateFind, ConfirmFind, CancelFind, RefundFind, Abort, FindSession
    <2>2. CASE Loads(r, "stripe")
      <3>1. call'[r].pc = "stripe" /\ \A q \in Requests \ {r} : call'[q] = call[q]
        BY <1>t, <2>2, LoadsFacts DEF TypeOK
      <3>2. \A k \in Intents : InPayment(k)' => InPayment(k)
        BY <2>1 DEF InPayment
      <3> QED BY <2>1, <3>1, <3>2, QuietRows
    <2>3. CASE CreateFind(r)
      BY <1>t, <2>1, <2>3, QuietMove DEF CreateFind, Created, PCs
    <2>4. CASE ConfirmFind(r) \/ CancelFind(r) \/ RefundFind(r) \/ Abort(r)
      <3>1. CASE \E pc \in {"error", "done"} : Moves(r, pc)
        BY <1>t, <2>1, <3>1, QuietMove DEF PCs
      <3> QED BY <2>2, <2>4, <3>1 DEF ConfirmFind, CancelFind, RefundFind, Abort
    <2>5. CASE FindSession(r)
      <3>1. Exists(r.intent)
        BY <2>5 DEF FindSession, RowsComeFirst, Evidence
      <3> QED BY <1>t, <2>1, <2>5, <3>1, QuietMove DEF FindSession, PCs
    <2> QED BY <1>3, <2>3, <2>4, <2>5
  <1>4. CASE CreateStripe(r) \/ ConfirmStripe(r) \/ CancelStripe(r) \/ RefundStripe(r)
    <2>1. PICK reply \in Replies : Answered(r, reply)
      BY <1>4 DEF CreateStripe, ConfirmStripe, CancelStripe, RefundStripe, Replies, Statuses
    <2>2. call'[r].pc = "commit" /\ \A q \in Requests \ {r} : call'[q] = call[q]
      BY <1>t, <2>1, AnsweredFacts DEF TypeOK
    <2>3. UNCHANGED <<payment_intents, checkout_sessions, expiring, hook>>
      BY <1>4 DEF CreateStripe, ConfirmStripe, CancelStripe, RefundStripe
    <2>4. \A k \in Intents \ {r.intent} : InPayment(k)' => InPayment(k)
      <3>1. stripe_pi' = stripe_pi \/ \E pi : stripe_pi' = [stripe_pi EXCEPT ![r.intent] = pi]
        BY <1>4 DEF CreateStripe, CreateAtStripe, ConfirmStripe, ConfirmAtStripe, CancelStripe,
             CancelAtStripe, RefundStripe, RefundAtStripe, Execute, Replay
      <3> QED BY <1>t, <3>1 DEF InPayment, TypeOK
    <2>5. InPayment(r.intent)' => InPayment(r.intent) \/ Exists(r.intent)
      <3>1. CASE r.op \in Creating
        BY <1>t, <1>4, <3>1 DEF CreateStripe, CreateAtStripe, ConfirmStripe, CancelStripe,
             RefundStripe, Creating, InPayment, TypeOK
      <3>2. CASE r.op \notin Creating
        BY <1>4, <3>2 DEF CreateStripe, ConfirmStripe, CancelStripe, RefundStripe, IInv, StripeKnows
      <3> QED BY <3>1, <3>2
    <2> QED BY <2>2, <2>3, <2>4, <2>5, QuietRows
  <1>5. CASE InsertSession(r)
    <2>1. Exists(r.intent)
      BY <1>5 DEF InsertSession, RowsComeFirst, Evidence
    <2>2. RowsStay
      BY <1>5 DEF InsertSession, RowsStay, Exists
    <2>3. \A q \in Requests \ {r} : call'[q] = call[q] /\ checkout_sessions'[q] = checkout_sessions[q]
      BY <1>t, <1>5, MovesFacts DEF InsertSession, TypeOK, PCs
    <2>4. \A q \in Requests \ {r} : Evidence(q)' => Evidence(q)
      BY <1>5, <2>3 DEF InsertSession, Evidence
    <2>5. \A k \in Intents : InPayment(k)' => InPayment(k)
      BY <1>5 DEF InsertSession, InPayment
    <2> QED BY <2>1, <2>2, <2>4, <2>5, RowsFirst
  <1> QED BY <1>1, <1>3, <1>4, <1>5 DEF PaymentStep, SessionStep

\* Pages show only what has a row, and a delivery writes only such a row.
LEMMA PageRows ==
    ASSUME IInv, RowsComeFirst, NEW r \in Requests,
           \/ TTLPasses(r)
           \/ \E v \in Viewers : PageStep(v, r)
    PROVE  RowsComeFirst'
  <1> USE DEF tables, pages, stripe
  <1>1. UNCHANGED <<payment_intents, call, hook, stripe_pi>>
    BY DEF TTLPasses, PageStep, ViewSession, ExpireSession, AbortView
  <1>2. RowsStay /\ (\A k \in Intents : InPayment(k)' => InPayment(k))
    BY <1>1 DEF RowsStay, InPayment, Exists
  <1>3. \A q \in Requests : Evidence(q)' => Evidence(q)
    <2>1. CASE TTLPasses(r)
      BY <1>1, <2>1 DEF TTLPasses, Evidence
    <2>2. CASE \E v \in Viewers : ViewSession(v, r)
      BY <1>1, <2>2 DEF ViewSession, Evidence
    <2>3. CASE \E v \in Viewers : ExpireSession(v, r)
      <3>1. PICK v \in Viewers : ExpireSession(v, r)
        BY <2>3
      <3>2. Evidence(r)
        BY <3>1 DEF ExpireSession, Evidence
      <3>3. \A q \in Requests \ {r} : checkout_sessions'[q] = checkout_sessions[q]
        BY <3>1 DEF ExpireSession, IInv, TypeOK
      <3>4. expiring' \subseteq expiring
        BY <3>1 DEF ExpireSession
      <3> QED BY <1>1, <3>2, <3>3, <3>4 DEF Evidence
    <2>4. CASE \E v \in Viewers : AbortView(v, r)
      BY <1>1, <2>4 DEF AbortView, Evidence
    <2> QED BY <2>1, <2>2, <2>3, <2>4 DEF PageStep
  <1> QED BY <1>2, <1>3, RowsFirst

LEMMA DeliveryRows ==
    ASSUME IInv, RowsComeFirst, NEW d \in Deliveries, HookStep(d)
    PROVE  RowsComeFirst'
  <1> USE DeliveryType, ForeignType DEF tables, pages, stripe
  <1>t. TypeOK
    BY DEF IInv
  <1>1. UNCHANGED <<call, expiring, stripe_pi>>
    BY DEF HookStep, Receive, InsertEvent, Apply, FindSessionOfEvent, CompleteSession, Finish,
         AbortHook
  <1>2. RowsStay
    <2>1. CASE CompleteSession(d) \/ Finish(d)
      <3>1. CASE hook[d].capture
        <4> DEFINE row == [payment_intents[d.intent] EXCEPT !.status = "succeeded",
                               !.received = stripe_pi[d.intent].amount]
        <4>1. payment_intents' = [payment_intents EXCEPT ![d.intent] = row]
          BY <2>1, <3>1 DEF CompleteSession, Finish, CommitHook, Capture
        <4>2. row.status = "succeeded"
          BY <1>t DEF TypeOK, Rows
        <4>3. d.intent \notin Foreign
          BY <3>1 DEF IInv, StripeKnows, RowsComeFirst
        <4> HIDE DEF row
        <4> QED BY <1>t, <4>1, <4>2, <4>3, RowWritten
      <3>2. CASE ~hook[d].capture
        BY <2>1, <3>2 DEF CompleteSession, Finish, CommitHook, RowsStay, Exists
      <3> QED BY <3>1, <3>2
    <2>2. CASE ~(CompleteSession(d) \/ Finish(d))
      BY <2>2 DEF HookStep, Receive, InsertEvent, Apply, FindSessionOfEvent, AbortHook, RowsStay,
           Exists
    <2> QED BY <2>1, <2>2
  <1>3. ASSUME NEW r \in Requests, Evidence(r)'
        PROVE  Evidence(r)
    <2>1. ASSUME NEW e \in Deliveries, r \in hook'[e].found
          PROVE  Evidence(r)
      <3>1. CASE e # d
        <4>1. hook'[e] = hook[e]
          BY <1>t, <3>1 DEF HookStep, Receive, InsertEvent, Apply, FindSessionOfEvent, HookAt,
               CompleteSession, Finish, AbortHook, TypeOK
        <4> QED BY <2>1, <4>1 DEF Evidence
      <3>2. CASE e = d
        <4>1. hook'[d].found \subseteq hook[d].found \union SessionsOf(d.intent)
          <5>1. CASE Receive(d)
            BY <1>t, <5>1, ReceiveSteps
          <5>2. CASE Apply(d)
            BY <1>t, <5>2, ApplySteps
          <5>3. CASE FindSessionOfEvent(d)
            BY <1>t, <5>3, FindSessionSteps
          <5>4. CASE HookAt(d, "apply")
            BY <1>t, <5>4, HookAtSteps
          <5>5. CASE hook' = [hook EXCEPT ![d] = Waiting]
                     \/ hook' = [hook EXCEPT ![d] = [Waiting EXCEPT !.pc = "finish"]]
            BY <1>t, <5>5, ResetFacts, WaitingType
          <5> QED BY <5>1, <5>2, <5>3, <5>4, <5>5
                DEF HookStep, InsertEvent, CompleteSession, Finish, AbortHook
        <4> QED BY <2>1, <3>2, <4>1 DEF Evidence, SessionsOf
      <3> QED BY <3>1, <3>2
    <2>2. ASSUME checkout_sessions'[r] # "absent", checkout_sessions[r] = "absent"
          PROVE  Evidence(r)
      <3>1. CompleteSession(d)
        BY <2>2 DEF HookStep, Receive, InsertEvent, Apply, FindSessionOfEvent, Finish, AbortHook
      <3>2. r \in hook[d].found
        BY <2>2, <3>1 DEF CompleteSession
      <3> QED BY <3>2 DEF Evidence
    <2> QED BY <1>1, <1>3, <2>1, <2>2 DEF Evidence
  <1>4. \A k \in Intents : InPayment(k)' => InPayment(k)
    BY <1>1 DEF InPayment
  <1> QED BY <1>2, <1>3, <1>4, RowsFirst

LEMMA StripeRows ==
    ASSUME IInv, RowsComeFirst, StripeNext
    PROVE  RowsComeFirst'
  <1> USE DEF tables, pages
  <1>1. UNCHANGED <<payment_intents, checkout_sessions, expiring, call, hook>>
    BY DEF StripeNext, CustomerPays, Settle, PaidElsewhere
  <1>2. RowsStay /\ (\A r \in Requests : Evidence(r)' => Evidence(r))
    BY <1>1 DEF RowsStay, Evidence, Exists
  <1>3. ASSUME NEW k \in Intents \ Foreign, InPayment(k)'
        PROVE  InPayment(k) \/ Exists(k)
    <2>1. PICK j \in Intents : CustomerPays(j) \/ Settle(j) \/ PaidElsewhere(j)
      BY DEF StripeNext
    <2>2. CASE k # j
      BY <1>3, <2>1, <2>2 DEF CustomerPays, Settle, PaidElsewhere, InPayment, IInv, TypeOK
    <2>3. CASE k = j /\ CustomerPays(j)
      BY <2>3 DEF CustomerPays, SecretKnown
    <2>4. CASE k = j /\ (Settle(j) \/ PaidElsewhere(j))
      BY <2>4 DEF Settle, PaidElsewhere, InPayment
    <2> QED BY <2>1, <2>2, <2>3, <2>4
  <1> QED BY <1>2, <1>3, RowsFirst

LEMMA NextRows ==
    ASSUME IInv, RowsComeFirst, [Next]_vars
    PROVE  RowsComeFirst'
  <1>1. CASE UNCHANGED vars
    <2>1. RowsStay /\ (\A r \in Requests : Evidence(r)' => Evidence(r))
          /\ (\A k \in Intents : InPayment(k)' => InPayment(k))
      BY <1>1 DEF vars, tables, pages, stripe, RowsStay, Evidence, InPayment, Exists
    <2> QED BY <2>1, RowsFirst
  <1> QED BY <1>1, RequestRows, PageRows, DeliveryRows, StripeRows DEF Next, RequestStep

-----------------------------------------------------------------------------
(* A capture is booked once.                                               *)

CapturedIn(b) == b["payments_captured"] + b["customer"]

\* What each of the four transfers does to what was captured.
LEMMA CapturedTransfer ==
    ASSUME NEW b \in Books, NEW n \in Int
    PROVE  /\ CapturedIn(b) \in Int
           /\ CapturedIn(Transfer(b, "customer_pending", "payments_authorised", n)) = CapturedIn(b)
           /\ CapturedIn(Transfer(b, "payments_authorised", "customer_pending", n)) = CapturedIn(b)
           /\ CapturedIn(Transfer(b, "payments_captured", "customer", n)) = CapturedIn(b)
           /\ CapturedIn(Transfer(b, "payments_authorised", "payments_captured", n))
                  = CapturedIn(b) + n
  <1> DEFINE captured == b["payments_captured"]
             refunded == b["customer"]
  <1>0. captured \in Int /\ refunded \in Int /\ DOMAIN b = Accounts
    BY DEF Books, Accounts
  <1>1. /\ Transfer(b, "customer_pending", "payments_authorised", n)["payments_captured"] = captured
        /\ Transfer(b, "customer_pending", "payments_authorised", n)["customer"] = refunded
    BY <1>0 DEF Transfer, Accounts
  <1>2. /\ Transfer(b, "payments_authorised", "customer_pending", n)["payments_captured"] = captured
        /\ Transfer(b, "payments_authorised", "customer_pending", n)["customer"] = refunded
    BY <1>0 DEF Transfer, Accounts
  <1>3. /\ Transfer(b, "payments_captured", "customer", n)["payments_captured"] = captured - n
        /\ Transfer(b, "payments_captured", "customer", n)["customer"] = refunded + n
    BY <1>0 DEF Transfer, Accounts
  <1>4. /\ Transfer(b, "payments_authorised", "payments_captured", n)["payments_captured"] = captured + n
        /\ Transfer(b, "payments_authorised", "payments_captured", n)["customer"] = refunded
    BY <1>0 DEF Transfer, Accounts
  <1> HIDE DEF captured, refunded
  <1>5. CapturedIn(b) = captured + refunded
    BY DEF CapturedIn, captured, refunded
  <1> QED BY <1>0, <1>1, <1>2, <1>3, <1>4, <1>5 DEF CapturedIn

\* No request captures, or takes a capture back.
CapturesStay ==
    \A k \in Intents :
        /\ payment_intents'[k].received = payment_intents[k].received
        /\ Captured(k)' = Captured(k)
        /\ Succeeded(k)' <=> Succeeded(k)
        /\ Exists(k) => Exists(k)' /\ payment_intents'[k].amount = payment_intents[k].amount

LEMMA RowAndBooks ==
    ASSUME TypeOK, NEW k \in Intents, NEW row, NEW books,
           payment_intents' = [payment_intents EXCEPT ![k] = row],
           ledger' = [ledger EXCEPT ![k] = books],
           row.received = payment_intents[k].received,
           CapturedIn(books) = CapturedIn(ledger[k]),
           row.status = "succeeded" <=> Succeeded(k),
           Exists(k) => row.status # "absent" /\ row.amount = payment_intents[k].amount
    PROVE  CapturesStay
  <1>1. /\ payment_intents'[k] = row /\ ledger'[k] = books
        /\ \A j \in Intents \ {k} :
               payment_intents'[j] = payment_intents[j] /\ ledger'[j] = ledger[j]
    BY DEF TypeOK
  <1>2. Captured(k)' = Captured(k)
    BY <1>1 DEF Captured, CapturedIn
  <1>3. \A j \in Intents \ {k} : Captured(j)' = Captured(j)
    BY <1>1 DEF Captured
  <1> QED BY <1>1, <1>2, <1>3 DEF CapturesStay, Succeeded, Exists

LEMMA FrameCaptures ==
    ASSUME UNCHANGED <<payment_intents, ledger>>
    PROVE  CapturesStay
  BY DEF CapturesStay, Captured, Succeeded, Exists

LEMMA RequestCaptures ==
    ASSUME RInv, NoConfirm, NEW r \in Requests, PaymentStep(r)
    PROVE  CapturesStay
  <1> USE RequestType DEF tables
  <1> DEFINE k == r.intent
             old == payment_intents[k]
             books == ledger[k]
             seen == call[r].seen
  <1>a. TypeOK /\ old \in Rows /\ books \in Books /\ seen \in Rows
    BY DEF RInv, IInv, TypeOK, Calls
  <1>1. CASE CreateCommit(r)
    <2>1. CASE Exists(k)
      BY <1>1, <2>1, FrameCaptures DEF CreateCommit
    <2>2. CASE ~Exists(k)
      <3> DEFINE row == [status |-> call[r].reply, amount |-> r.amount,
                         received |-> 0, refunded |-> 0]
                 new == Transfer(books, "customer_pending", "payments_authorised", r.amount)
      <3>1. payment_intents' = [payment_intents EXCEPT ![k] = row]
            /\ ledger' = [ledger EXCEPT ![k] = new]
        BY <1>1, <2>2 DEF CreateCommit
      <3>2. row.status = "requires_payment_method" /\ row.received = 0
        BY <1>1 DEF CreateCommit, RInv, IInv, StripeKnows
      <3>3. CapturedIn(new) = CapturedIn(books)
        BY <1>a, CapturedTransfer
      <3>4. old.received = 0 /\ ~Succeeded(k)
        BY <2>2 DEF RInv, IInv, RefundsFit, NoRow, Succeeded
      <3> HIDE DEF row, new
      <3> QED BY <1>a, <2>2, <3>1, <3>2, <3>3, <3>4, RowAndBooks
    <2> QED BY <2>1, <2>2
  <1>2. CASE CancelCommit(r)
    <2> DEFINE row == [old EXCEPT !.status = "canceled"]
               new == Transfer(books, "payments_authorised", "customer_pending", seen.amount)
    <2>1. call[r].reply = "canceled" /\ Exists(k)
      BY <1>2 DEF CancelCommit, RInv, PostersKnow, IInv, StripeKnows, Creating
    <2>2. payment_intents' = [payment_intents EXCEPT ![k] = row]
          /\ ledger' = [ledger EXCEPT ![k] = new]
      BY <1>2, <2>1 DEF CancelCommit
    <2>3. ~Succeeded(k)
      BY <2>1 DEF RInv, IInv, StripeKnows, TerminalAgrees, Succeeded
    <2>4. row.status = "canceled" /\ row.received = old.received /\ row.amount = old.amount
      BY <1>a DEF Rows
    <2>5. CapturedIn(new) = CapturedIn(books)
      <3>1. seen.amount \in Int
        BY <1>a DEF Rows
      <3> QED BY <1>a, <3>1, CapturedTransfer
    <2> HIDE DEF row, new
    <2> QED BY <1>a, <2>2, <2>3, <2>4, <2>5, RowAndBooks
  <1>3. CASE RefundCommit(r)
    <2> DEFINE amount == RefundAmount(r, seen)
               total == seen.refunded + amount
               row == [old EXCEPT !.refunded = total]
               new == Transfer(books, "payments_captured", "customer", amount)
    <2>1. payment_intents' = [payment_intents EXCEPT ![k] = row]
          /\ ledger' = [ledger EXCEPT ![k] = new]
      BY <1>3 DEF RefundCommit
    <2>2. amount \in Int
      BY <1>a, RefundAmountType
    <2> HIDE DEF amount
    <2>3. CapturedIn(new) = CapturedIn(books)
      BY <1>a, <2>2, CapturedTransfer
    <2> HIDE DEF total
    <2>4. row.status = old.status /\ row.received = old.received /\ row.amount = old.amount
      BY <1>a DEF Rows
    <2> HIDE DEF row, new
    <2> QED BY <1>a, <2>1, <2>3, <2>4, RowAndBooks DEF Succeeded, Exists
  <1>4. CASE ~(CreateCommit(r) \/ CancelCommit(r) \/ RefundCommit(r))
    <2>1. r.op # "confirm"
      BY DEF NoConfirm
    <2> QED BY <1>4, <2>1, FrameCaptures
       DEF PaymentStep, CreateFind, CreateStripe, ConfirmFind, ConfirmStripe, ConfirmCommit,
           CancelFind, CancelStripe, RefundFind, RefundStripe, Abort
  <1> QED BY <1>1, <1>2, <1>3, <1>4

\* While no delivery commits, what is known of captures stays true.
LEMMA CapturesKept ==
    ASSUME CInv, CapturesStay, UNCHANGED <<webhook_events, hook>>,
           \A r \in Requests :
               checkout_sessions'[r] = "completed" => checkout_sessions[r] = "completed"
    PROVE  BooksFollow' /\ CaptureKnows'
  <1>1. BooksFollow'
    <2> SUFFICES ASSUME NEW k \in Intents
                 PROVE  /\ payment_intents'[k].received =
                              IF Succeeded(k)' THEN payment_intents'[k].amount ELSE 0
                        /\ Captured(k)' = payment_intents'[k].received
      BY DEF BooksFollow
    <2>1. Succeeded(k) => Exists(k)
      BY DEF Succeeded, Exists
    <2> QED BY <2>1 DEF CapturesStay, CInv, BooksFollow
  <1>2. \A d \in Deliveries : DeliveryKnows(d)'
    BY DeliveryType DEF CInv, CaptureKnows, DeliveryKnows, CapturesStay, InsertedBy
  <1>3. EventsKnow'
    BY RequestType DEF CInv, CaptureKnows, EventsKnow, CapturesStay
  <1> QED BY <1>1, <1>2, <1>3 DEF CaptureKnows

\* A delivery moves within its transaction, or begins or ends without a write.
LEMMA MoveCaptures ==
    ASSUME CInv, NEW d \in Deliveries, OthersStay(d), DeliveryKnows(d)',
           UNCHANGED tables
    PROVE  BooksFollow' /\ CaptureKnows'
  <1> USE DEF tables
  <1>1. \A k \in Intents : (Succeeded(k)' <=> Succeeded(k)) /\ (Exists(k)' <=> Exists(k))
    BY DEF Succeeded, Exists
  <1>2. \A e \in Deliveries \ {d} : DeliveryKnows(e)'
    BY <1>1, DeliveryType DEF CInv, CaptureKnows, DeliveryKnows, OthersStay, InsertedBy
  <1>3. EventsKnow'
    BY <1>1, RequestType DEF CInv, CaptureKnows, EventsKnow
  <1>4. BooksFollow'
    BY <1>1 DEF CInv, BooksFollow, Captured
  <1> QED BY <1>2, <1>3, <1>4 DEF CaptureKnows

\* What d has staged, it commits: the whole amount, if nobody has before.
LEMMA CommitSucceeds ==
    ASSUME CInv, NEW d \in Deliveries, NEW event, CommitHook(d, event), hook[d].capture
    PROVE  /\ Succeeded(d.intent)' /\ Exists(d.intent)'
           /\ payment_intents'[d.intent].received = payment_intents'[d.intent].amount
           /\ Captured(d.intent)' = payment_intents'[d.intent].received
           /\ \A k \in Intents \ {d.intent} :
                  payment_intents'[k] = payment_intents[k] /\ ledger'[k] = ledger[k]
  <1> DEFINE k == d.intent
             old == payment_intents[k]
             books == ledger[k]
             amount == stripe_pi[k].amount
             row == [old EXCEPT !.status = "succeeded", !.received = amount]
             new == Transfer(books, "payments_authorised", "payments_captured", amount)
  <1>1. k \in Intents
    BY DeliveryType
  <1>2. payment_intents' = [payment_intents EXCEPT ![k] = row]
        /\ ledger' = [ledger EXCEPT ![k] = new]
    BY DEF CommitHook, Capture
  <1>3. TypeOK /\ old \in Rows /\ books \in Books /\ amount \in Nat
    BY <1>1 DEF CInv, RInv, IInv, TypeOK, StripeObjects
  <1>4. old.amount = amount /\ ~Succeeded(k)
    BY <1>1 DEF CInv, RInv, IInv, StripeKnows, SameAmount, CaptureKnows, DeliveryKnows
  <1>5. CapturedIn(books) = 0
    BY <1>1, <1>4 DEF CInv, BooksFollow, Captured, CapturedIn
  <1>6. payment_intents'[k] = row /\ ledger'[k] = new
        /\ \A j \in Intents \ {k} :
               payment_intents'[j] = payment_intents[j] /\ ledger'[j] = ledger[j]
    BY <1>1, <1>2, <1>3 DEF TypeOK
  <1> HIDE DEF amount, old, books
  <1>7. row.status = "succeeded" /\ row.amount = amount /\ row.received = amount
    BY <1>3, <1>4 DEF Rows
  <1>8. CapturedIn(new) = amount
    BY <1>3, <1>5, CapturedTransfer
  <1> HIDE DEF row, new
  <1>9. Captured(k)' = amount
    BY <1>6, <1>8 DEF Captured, CapturedIn
  <1> QED BY <1>6, <1>7, <1>9 DEF Succeeded, Exists

LEMMA CommitCaptures ==
    ASSUME CInv, NEW d \in Deliveries, OthersStay(d),
           NEW event \in {"received", "processed"}, CommitHook(d, event),
           hook[d].pc \in {"complete", "finish"}, event = "received" => hook[d].pc = "complete",
           ~hook'[d].capture, hook'[d].found = {}, hook'[d].pc \in {"idle", "finish"},
           \A r \in Requests : \/ checkout_sessions'[r] # "completed"
                               \/ checkout_sessions[r] = "completed"
                               \/ r \in hook[d].found /\ hook[d].pc = "complete"
    PROVE  BooksFollow' /\ CaptureKnows' /\ (\A k \in Intents : Succeeded(k) => Succeeded(k)')
  <1> USE DeliveryType, RequestType
  <1>1. \A k \in Intents : (Succeeded(k) => Succeeded(k)') /\ (Exists(k) => Exists(k)')
                            /\ (k # d.intent => (Succeeded(k)' <=> Succeeded(k)))
                            /\ (Succeeded(k)' /\ ~Succeeded(k) => hook[d].capture)
    <2>1. CASE hook[d].capture
      BY <2>1, CommitSucceeds DEF Succeeded, Exists
    <2>2. CASE ~hook[d].capture
      BY <2>2 DEF CommitHook, Succeeded, Exists
    <2> QED BY <2>1, <2>2
  <1>2. BooksFollow'
    <2>1. CASE hook[d].capture
      BY <2>1, CommitSucceeds DEF CInv, BooksFollow, Succeeded, Captured
    <2>2. CASE ~hook[d].capture
      BY <2>2 DEF CommitHook, CInv, BooksFollow, Captured, Succeeded
    <2> QED BY <2>1, <2>2
  <1>3. /\ hook[d].pc = "complete" \/ d.type = "succeeded" =>
               Succeeded(d.intent)' \/ (d.intent \in Foreign /\ hook[d].pc # "complete")
        /\ hook[d].pc = "complete" => d.type = "succeeded"
    <2>1. hook[d].capture => Succeeded(d.intent)'
      BY CommitSucceeds
    <2>2. hook[d].pc = "complete" => d.type = "succeeded" /\ d.intent \notin Foreign
      BY DEF CInv, CaptureKnows, DeliveryKnows, RowsComeFirst
    <2> QED BY <1>1, <2>1, <2>2 DEF CInv, CaptureKnows, DeliveryKnows
  <1>4. DeliveryKnows(d)'
    BY <1>3 DEF DeliveryKnows
  <1>5. ASSUME NEW e \in Deliveries \ {d}
        PROVE  DeliveryKnows(e)'
    <2>1. hook'[e] = hook[e] /\ DeliveryKnows(e)
      BY DEF OthersStay, CInv, CaptureKnows
    <2>2. ASSUME hook[e].capture
          PROVE  InsertedBy(e)' /\ ~Succeeded(e.intent)'
      <3>1. InsertedBy(e)' /\ InsertedBy(e) /\ ~Succeeded(e.intent)
        BY <2>1, <2>2 DEF DeliveryKnows, InsertedBy
      <3>2. ASSUME hook[d].capture
            PROVE  e.intent # d.intent
        <4>1. InsertedBy(d) /\ d.type = "succeeded" /\ e.type = "succeeded"
          BY <2>2, <3>2 DEF CInv, CaptureKnows, DeliveryKnows, RInv, IInv, StripeKnows
        <4> QED BY <3>1, <4>1 DEF CInv, InsertsExclude, Event
      <3> QED BY <1>1, <3>1, <3>2
    <2>3. ASSUME hook[e].capture \/ Succeeded(e.intent) \/ e.intent \in Foreign
          PROVE  hook[e].capture \/ Succeeded(e.intent)' \/ e.intent \in Foreign
      BY <1>1, <2>3
    <2>4. Exists(e.intent) => Exists(e.intent)'
      BY <1>1
    <2> QED BY <2>1, <2>2, <2>3, <2>4 DEF DeliveryKnows
  <1>6. \A k \in Intents :
           /\ webhook_events'[<<k, "succeeded">>] = "received" => Succeeded(k)'
           /\ webhook_events'[<<k, "succeeded">>] = "processed" => Succeeded(k)' \/ k \in Foreign
    <2> SUFFICES ASSUME NEW k \in Intents
                 PROVE  /\ webhook_events'[<<k, "succeeded">>] = "received" => Succeeded(k)'
                        /\ webhook_events'[<<k, "succeeded">>] = "processed" =>
                               Succeeded(k)' \/ k \in Foreign
      OBVIOUS
    <2>1. CASE <<k, "succeeded">> # Event(d)
      <3>1. webhook_events'[<<k, "succeeded">>] = webhook_events[<<k, "succeeded">>]
        BY <2>1 DEF CommitHook, CInv, RInv, IInv, TypeOK
      <3> QED BY <1>1, <3>1 DEF CInv, CaptureKnows, EventsKnow
    <2>2. CASE <<k, "succeeded">> = Event(d)
      <3>1. k = d.intent /\ d.type = "succeeded"
        BY <2>2 DEF Event
      <3>2. webhook_events'[<<k, "succeeded">>] = event
        BY <2>2 DEF CommitHook, CInv, RInv, IInv, TypeOK
      <3> QED BY <1>3, <3>1, <3>2
    <2> QED BY <2>1, <2>2
  <1>7. ASSUME NEW r \in Requests, checkout_sessions'[r] = "completed"
        PROVE  Succeeded(r.intent)'
    <2>1. CASE checkout_sessions[r] = "completed"
      BY <1>1, <2>1 DEF CInv, CaptureKnows, EventsKnow
    <2>2. CASE r \in hook[d].found /\ hook[d].pc = "complete"
      BY <1>3, <2>2 DEF CInv, CaptureKnows, DeliveryKnows
    <2> QED BY <1>7, <2>1, <2>2
  <1>8. EventsKnow'
    BY <1>6, <1>7 DEF EventsKnow
  <1> QED BY <1>1, <1>2, <1>4, <1>5, <1>8 DEF CaptureKnows

LEMMA HookCaptures ==
    ASSUME CInv, NEW d \in Deliveries, HookStep(d)
    PROVE  BooksFollow' /\ CaptureKnows' /\ (\A k \in Intents : Succeeded(k) => Succeeded(k)')
  <1>t. TypeOK /\ DeliveryKnows(d)
    BY DEF CInv, RInv, IInv, CaptureKnows
  <1>m. ASSUME OthersStay(d), DeliveryKnows(d)', UNCHANGED tables
        PROVE  BooksFollow' /\ CaptureKnows' /\ (\A k \in Intents : Succeeded(k) => Succeeded(k)')
    BY <1>m, MoveCaptures DEF tables, Succeeded
  <1>1. CASE Receive(d)
    <2>1. DeliveryKnows(d)'
      BY <1>t, <1>1, ReceiveSteps DEF DeliveryKnows
    <2> QED BY <1>t, <1>1, <1>m, <2>1, ReceiveSteps DEF Receive
  <1>2. CASE InsertEvent(d)
    <2>1. CASE HookAt(d, "apply")
      <3>1. ~hook[d].capture
        BY <1>2, <1>t DEF InsertEvent, DeliveryKnows, InsertedBy
      <3>2. hook[d].found = {} \/ \A r \in hook[d].found : r.intent = d.intent
        BY <1>t DEF DeliveryKnows
      <3>3. DeliveryKnows(d)'
        BY <1>t, <2>1, <3>1, <3>2, HookAtSteps DEF DeliveryKnows
      <3> QED BY <1>t, <1>2, <1>m, <2>1, <3>3, HookAtSteps DEF InsertEvent
    <2>2. CASE hook' = [hook EXCEPT ![d] = Waiting]
      <3>1. hook'[d] = Waiting /\ OthersStay(d)
        BY <1>t, <2>2, ResetFacts, WaitingType
      <3>2. DeliveryKnows(d)'
        BY <3>1, WaitingType DEF DeliveryKnows
      <3> QED BY <1>2, <1>m, <3>1, <3>2 DEF InsertEvent
    <2> QED BY <1>2, <2>1, <2>2 DEF InsertEvent
  <1>3. CASE Apply(d)
    <2>1. UNCHANGED tables /\ hook[d].pc = "apply"
      BY <1>3 DEF Apply
    <2>2. (Succeeded(d.intent)' <=> Succeeded(d.intent)) /\ (Exists(d.intent)' <=> Exists(d.intent))
      BY <2>1 DEF tables, Succeeded, Exists
    <2>3. hook[d].capture => Exists(d.intent) /\ ~Succeeded(d.intent) /\ hook[d].fresh
      BY <1>t DEF CInv, RInv, IInv, StripeKnows, DeliveryKnows, InsertedBy
    <2>4. CASE /\ d.type = "canceled" \/ ~Exists(d.intent)
               /\ hook'[d].pc = "finish" /\ hook'[d].capture = hook[d].capture
      <3>1. d.type = "succeeded" => d.intent \in Foreign
        <4>1. d.type = "succeeded" => InPayment(d.intent)
          BY <2>1 DEF CInv, RInv, IInv, StripeKnows, InPayment
        <4> QED BY <2>4, <4>1, DeliveryType DEF CInv, RowsComeFirst
      <3> QED BY <1>t, <1>3, <1>m, <2>1, <2>2, <2>3, <2>4, <3>1, ApplySteps
            DEF DeliveryKnows, InsertedBy
    <2>5. CASE /\ d.type = "succeeded" /\ Exists(d.intent) /\ hook'[d].pc = "find_session"
               /\ hook'[d].capture <=> ~Succeeded(d.intent)
      <3>1. ~hook[d].fresh => Succeeded(d.intent)
        <4>1. ~hook[d].fresh => webhook_events[<<d.intent, "succeeded">>] \in {"received", "processed"}
          BY <1>t, <2>1, <2>5, DeliveryType DEF CInv, InsertsExclude, Event, TypeOK
        <4>2. d.intent \notin Foreign
          BY <2>5 DEF CInv, RowsComeFirst
        <4> QED BY <4>1, <4>2, DeliveryType DEF CInv, CaptureKnows, EventsKnow
      <3>2. hook'[d].fresh = hook[d].fresh /\ hook'[d].found = hook[d].found /\ OthersStay(d)
        BY <1>t, <1>3, ApplySteps
      <3>3. hook'[d].capture => InsertedBy(d)' /\ ~Succeeded(d.intent)'
        BY <2>2, <2>5, <3>1, <3>2 DEF InsertedBy
      <3>4. DeliveryKnows(d)'
        BY <1>t, <2>2, <2>5, <3>2, <3>3 DEF DeliveryKnows
      <3> QED BY <1>m, <2>1, <3>2, <3>4
    <2> QED BY <1>t, <1>3, <2>4, <2>5, ApplySteps
  <1>4. CASE FindSessionOfEvent(d)
    <2>1. UNCHANGED tables /\ hook[d].pc = "find_session"
      BY <1>4 DEF FindSessionOfEvent
    <2>2. (Succeeded(d.intent)' <=> Succeeded(d.intent)) /\ (Exists(d.intent)' <=> Exists(d.intent))
      BY <2>1 DEF tables, Succeeded, Exists
    <2>3. /\ OthersStay(d) /\ hook'[d].pc \in {"complete", "finish"}
          /\ hook'[d].fresh = hook[d].fresh /\ hook'[d].capture = hook[d].capture
          /\ \/ hook'[d].found = hook[d].found
             \/ hook'[d].found \subseteq SessionsOf(d.intent)
      BY <1>t, <1>4, FindSessionSteps
    <2>4. \A r \in hook'[d].found : r.intent = d.intent
      BY <1>t, <2>3 DEF DeliveryKnows, SessionsOf
    <2>5. hook'[d].capture => InsertedBy(d)' /\ ~Succeeded(d.intent)'
      BY <1>t, <2>2, <2>3 DEF DeliveryKnows, InsertedBy
    <2>6. DeliveryKnows(d)'
      BY <1>t, <2>1, <2>2, <2>3, <2>4, <2>5 DEF DeliveryKnows
    <2> QED BY <1>m, <2>1, <2>3, <2>6
  <1>5. CASE CompleteSession(d)
    <2> DEFINE event == IF hook[d].fresh THEN "received" ELSE webhook_events[Event(d)]
    <2>1. event \in {"received", "processed"}
      <3>1. webhook_events[Event(d)] \in {"absent", "received", "processed"}
        BY <1>t, DeliveryType DEF TypeOK, Event
      <3> QED BY <1>5, <3>1 DEF CompleteSession, CInv, InsertsExclude
    <2>2. CommitHook(d, event) /\ hook' = [hook EXCEPT ![d] = [Waiting EXCEPT !.pc = "finish"]]
          /\ hook[d].pc = "complete"
      BY <1>5 DEF CompleteSession
    <2> HIDE DEF event
    <2>3. hook'[d] = [Waiting EXCEPT !.pc = "finish"] /\ OthersStay(d)
      BY <1>t, <2>2, ResetFacts, WaitingType
    <2>4. \A r \in Requests : \/ checkout_sessions'[r] # "completed"
                              \/ checkout_sessions[r] = "completed"
                              \/ r \in hook[d].found /\ hook[d].pc = "complete"
      BY <1>5, <2>2 DEF CompleteSession
    <2> QED BY <2>1, <2>2, <2>3, <2>4, WaitingType, CommitCaptures
  <1>6. CASE Finish(d)
    <2>1. hook'[d] = Waiting /\ OthersStay(d)
      BY <1>t, <1>6, ResetFacts, WaitingType DEF Finish
    <2> QED BY <1>6, <2>1, WaitingType, CommitCaptures DEF Finish
  <1>7. CASE AbortHook(d)
    <2>1. hook'[d] = Waiting /\ OthersStay(d)
      BY <1>t, <1>7, ResetFacts, WaitingType DEF AbortHook
    <2>2. DeliveryKnows(d)'
      BY <2>1, WaitingType DEF DeliveryKnows
    <2> QED BY <1>7, <1>m, <2>1, <2>2 DEF AbortHook
  <1> QED BY <1>1, <1>2, <1>3, <1>4, <1>5, <1>6, <1>7 DEF HookStep

\* Any step, and that none takes a row out of succeeded.
LEMMA NextCaptures ==
    ASSUME CInv, NoConfirm, [Next]_vars
    PROVE  BooksFollow' /\ CaptureKnows' /\ (\A k \in Intents : Succeeded(k) => Succeeded(k)')
  <1> USE DEF tables, pages, stripe
  <1>0. TypeOK
    BY DEF CInv, RInv, IInv
  <1>q. ASSUME CapturesStay, UNCHANGED <<webhook_events, hook>>,
               \A r \in Requests :
                   checkout_sessions'[r] = "completed" => checkout_sessions[r] = "completed"
        PROVE  BooksFollow' /\ CaptureKnows' /\ (\A k \in Intents : Succeeded(k) => Succeeded(k)')
    BY <1>q, CapturesKept DEF CapturesStay
  <1>1. ASSUME NEW r \in Requests, PaymentStep(r)
        PROVE  CapturesStay /\ UNCHANGED <<webhook_events, hook, checkout_sessions>>
    <2>1. UNCHANGED <<webhook_events, hook, checkout_sessions>>
      BY <1>1 DEF PaymentStep, CreateFind, CreateStripe, CreateCommit, ConfirmFind, ConfirmStripe,
           ConfirmCommit, CancelFind, CancelStripe, CancelCommit, RefundFind, RefundStripe,
           RefundCommit, Abort
    <2> QED BY <1>1, <2>1, RequestCaptures DEF CInv
  <1>2. ASSUME NEW r \in Requests, SessionStep(r) \/ TTLPasses(r)
        PROVE  /\ UNCHANGED <<payment_intents, ledger, webhook_events, hook>>
               /\ \A q \in Requests :
                      checkout_sessions'[q] = "completed" => checkout_sessions[q] = "completed"
    BY <1>0, <1>2 DEF SessionStep, FindSession, InsertSession, TTLPasses, TypeOK
  <1>3. ASSUME NEW v \in Viewers, NEW r \in Requests, PageStep(v, r)
        PROVE  /\ UNCHANGED <<payment_intents, ledger, webhook_events, hook>>
               /\ \A q \in Requests :
                      checkout_sessions'[q] = "completed" => checkout_sessions[q] = "completed"
    BY <1>0, <1>3 DEF PageStep, ViewSession, ExpireSession, AbortView, TypeOK
  <1>4. StripeNext \/ UNCHANGED vars => UNCHANGED <<tables, hook>>
    BY DEF StripeNext, CustomerPays, Settle, PaidElsewhere, vars
  <1> QED BY <1>q, <1>1, <1>2, <1>3, <1>4, FrameCaptures, HookCaptures DEF Next, RequestStep

-----------------------------------------------------------------------------
LEMMA InitCInv == Init => CInv
  <1> SUFFICES ASSUME Init
               PROVE  CInv
    OBVIOUS
  <1> USE RequestType, DeliveryType, ForeignType DEF Init, StateInit
  <1>1. InsertsExclude
    BY DEF InsertsExclude, InsertedBy, Waiting
  <1>2. RowsComeFirst
    BY DEF RowsComeFirst, Evidence, InPayment, Exists, NoRow, NoObject, Idle, Waiting
  <1>3. BooksFollow
    BY DEF BooksFollow, Captured, Succeeded, NoRow, EmptyBooks, Accounts
  <1>4. CaptureKnows
    BY DEF CaptureKnows, DeliveryKnows, EventsKnow, Waiting
  <1> QED BY <1>1, <1>2, <1>3, <1>4, InitRInv DEF CInv

LEMMA NextCInv ==
    ASSUME CInv, NoConfirm, [Next]_vars
    PROVE  CInv'
  BY NextRInv, NextExcludes, NextRows, NextCaptures DEF CInv, RInv, IInv

LEMMA NoConfirmStays == NoConfirm => []NoConfirm
  <1>1. NoConfirm => NoConfirm'
    BY DEF NoConfirm
  <1> QED BY <1>1, PTL

\* Without confirm, every state satisfies the invariant of the second group.
THEOREM CaptureInvariant == NoConfirm /\ Spec => []CInv
  <1>1. NoConfirm /\ CInv /\ [Next]_vars => CInv'
    BY NextCInv
  <1> QED BY <1>1, NoConfirmStays, InitCInv, PTL DEF Spec

-----------------------------------------------------------------------------
\* Duplicate, concurrent and interrupted deliveries of a succeeded event book
\* the capture once: only the delivery that holds the event's row stages it.
THEOREM CapturesAreOnce == NoConfirm /\ Spec => []CapturedOnce
  <1>1. CInv => CapturedOnce
    <2> SUFFICES ASSUME CInv, NEW k \in Intents
                 PROVE  Captured(k) <= payment_intents[k].amount
      BY DEF CapturedOnce
    <2>1. payment_intents[k].amount \in Nat
      BY DEF CInv, RInv, IInv, TypeOK, Rows
    <2> QED BY <2>1 DEF CInv, BooksFollow
  <1> QED BY <1>1, CaptureInvariant, PTL

\* A session that complete_session has marked is that of a booked payment, in
\* the middle of the delivery's transaction and after a crash of it.
THEOREM CompletedAreBooked == NoConfirm /\ Spec => []CompletedIsBooked
  <1>1. CInv => CompletedIsBooked
    BY RequestType DEF CInv, BooksFollow, CaptureKnows, EventsKnow, Succeeded, CompletedIsBooked
  <1> QED BY <1>1, CaptureInvariant, PTL

\* An event that Stripe will not send again has its payment in the books.
THEOREM AckedAreBooked == NoConfirm /\ Spec => []AckedIsBooked
  <1>1. CInv => AckedIsBooked
    BY DEF CInv, RInv, IInv, SameAmount, RowsComeFirst, BooksFollow, CaptureKnows, EventsKnow,
           AckedIsBooked
  <1> QED BY <1>1, CaptureInvariant, PTL

\* No request or delivery that read the row earlier takes it out of succeeded:
\* a cancel commits only what Stripe answered, and Stripe cancels no paid one.
THEOREM SucceededStays == NoConfirm /\ Spec => SucceededIsFinal
  <1>1. NoConfirm /\ CInv /\ [Next]_vars =>
            [\A k \in Intents : payment_intents[k].status = "succeeded" =>
                 payment_intents'[k].status = "succeeded"]_vars
    BY NextCaptures DEF Succeeded
  <1> QED BY <1>1, CaptureInvariant, NoConfirmStays, PTL DEF Spec, SucceededIsFinal

=============================================================================
