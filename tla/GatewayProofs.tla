--------------------------- MODULE GatewayProofs ---------------------------
(***************************************************************************)
(* Theorems about Gateway, for every set of intents, requests, deliveries  *)
(* and viewers and with or without the clients' discipline.                *)
(***************************************************************************)
EXTENDS Gateway, TLAPS

PCs == {"idle", "stripe", "commit", "find_session", "insert_session", "done", "error"}

Replies == Statuses \union {"none"}

\* What the assumption says of a single request or delivery.
LEMMA RequestType ==
    ASSUME NEW r \in Requests
    PROVE  /\ r.intent \in Intents /\ r.op \in Operations
           /\ r.idem \in Nat /\ r.amount \in Nat
           /\ r.op \in Creating => r.amount > 0
  BY RequestsAssumption

LEMMA DeliveryType ==
    ASSUME NEW d \in Deliveries
    PROVE  d.intent \in Intents /\ d.type \in {"succeeded", "canceled"}
  BY DeliveriesAssumption

\* A transfer of an integer amount between two accounts leaves books.
LEMMA TransferType ==
    ASSUME NEW b \in Books, NEW x \in Accounts, NEW y \in Accounts, NEW n \in Int
    PROVE  Transfer(b, x, y, n) \in Books
  BY DEF Transfer, Books

\* An object of Stripe's with another status.
LEMMA ObjectTypes ==
    ASSUME NEW status \in Statuses, NEW pi \in StripeObjects
    PROVE  /\ [pi EXCEPT !.status = status] \in StripeObjects
           /\ [pi EXCEPT !.status = status].status = status
           /\ [pi EXCEPT !.status = status].amount = pi.amount
           /\ status # "absent"
  BY DEF StripeObjects, Statuses

LEMMA NoRowType == NoRow \in Rows
  BY DEF NoRow, Rows

-----------------------------------------------------------------------------
\* What the three ways a request can go on do to call.

LEMMA MovesFacts ==
    ASSUME call \in [Requests -> Calls], NEW r \in Requests, NEW pc \in PCs, Moves(r, pc)
    PROVE  /\ call' \in [Requests -> Calls]
           /\ call'[r].pc = pc /\ call'[r].reply = "none"
           /\ \A q \in Requests : q # r => call'[q] = call[q]
  <1> DEFINE c == [pc |-> pc, seen |-> NoRow, reply |-> "none"]
  <1>1. call' = [call EXCEPT ![r] = c]
    BY DEF Moves
  <1>2. c \in Calls
    BY NoRowType DEF Calls, PCs
  <1> QED BY <1>1, <1>2

LEMMA LoadsFacts ==
    ASSUME call \in [Requests -> Calls], payment_intents \in [Intents -> Rows],
           NEW r \in Requests, Loads(r, "stripe")
    PROVE  /\ call' \in [Requests -> Calls]
           /\ call'[r].pc = "stripe" /\ call'[r].reply = "none"
           /\ call'[r].seen = payment_intents[r.intent]
           /\ \A q \in Requests : q # r => call'[q] = call[q]
  BY RequestType DEF Loads, Calls

LEMMA AnsweredFacts ==
    ASSUME call \in [Requests -> Calls], NEW r \in Requests, NEW reply \in Replies,
           Answered(r, reply)
    PROVE  /\ call' \in [Requests -> Calls]
           /\ call'[r].pc = "commit" /\ call'[r].reply = reply
           /\ call'[r].seen = call[r].seen
           /\ \A q \in Requests : q # r => call'[q] = call[q]
  <1> DEFINE c == [call[r] EXCEPT !.pc = "commit", !.reply = reply]
  <1>1. call' = [call EXCEPT ![r] = c]
    BY DEF Answered
  <1>2. c \in Calls /\ c.pc = "commit" /\ c.reply = reply /\ c.seen = call[r].seen
    BY DEF Calls, Replies
  <1> QED BY <1>1, <1>2

LEMMA RefundAmountType ==
    ASSUME NEW r \in Requests, NEW row \in Rows
    PROVE  /\ RefundAmount(r, row) \in Int
           /\ MayRefund(r, row) => RefundAmount(r, row) > 0
  BY RequestType DEF RefundAmount, MayRefund, Refundable, Rows

-----------------------------------------------------------------------------
\* Every step preserves TypeOK and CallsOK: one lemma per kind of step.

\* A request that moves on to a step other than its commit or its call to
\* Stripe, or that is not a refund, keeps CallsOK.
LEMMA MovesCallsOK ==
    ASSUME call \in [Requests -> Calls], CallsOK, NEW r \in Requests,
           NEW pc \in PCs \ {"commit"}, Moves(r, pc),
           r.op = "refund" => pc # "stripe"
    PROVE  call' \in [Requests -> Calls] /\ CallsOK'
  BY MovesFacts DEF CallsOK

LEMMA CreateTypes ==
    ASSUME TypeOK, CallsOK, NEW r \in Requests,
           CreateFind(r) \/ CreateStripe(r) \/ CreateCommit(r)
    PROVE  TypeOK' /\ CallsOK'
  <1> USE RequestType DEF TypeOK, tables, pages, stripe
  <1>1. CASE CreateFind(r)
    <2>1. PICK pc \in PCs \ {"commit"} : Moves(r, pc)
      BY <1>1 DEF CreateFind, Created, PCs
    <2> QED BY <1>1, <2>1, MovesCallsOK DEF CreateFind, Creating
  <1>2. CASE CreateStripe(r)
    <2>1. Answered(r, "requires_payment_method") /\ "requires_payment_method" \in Replies
      BY <1>2 DEF CreateStripe, Replies, Statuses
    <2>2. stripe_pi' \in [Intents -> StripeObjects]
      BY <1>2 DEF CreateStripe, CreateAtStripe, StripeObjects, Statuses
    <2> QED BY <1>2, <2>1, <2>2, AnsweredFacts
          DEF CreateStripe, CreateAtStripe, CallsOK, Creating, Statuses
  <1>3. CASE CreateCommit(r)
    <2>1. PICK pc \in PCs \ {"commit", "stripe"} : Moves(r, pc)
      BY <1>3 DEF CreateCommit, Created, PCs
    <2>2. call' \in [Requests -> Calls] /\ CallsOK'
      BY <2>1, MovesCallsOK
    <2>3. payment_intents' \in [Intents -> Rows]
      BY <1>3 DEF CreateCommit, CallsOK, Rows, Creating
    <2>4. ledger' \in [Intents -> Books]
      <3>1. Transfer(ledger[r.intent], "customer_pending", "payments_authorised", r.amount) \in Books
        BY TransferType DEF Accounts
      <3> QED BY <1>3, <3>1 DEF CreateCommit
    <2> QED BY <1>3, <2>2, <2>3, <2>4 DEF CreateCommit
  <1> QED BY <1>1, <1>2, <1>3

LEMMA ExecuteTypes ==
    ASSUME TypeOK, NEW r \in Requests, NEW amount \in Nat, NEW reply \in Replies,
           NEW pi \in StripeObjects, Execute(r, amount, reply, pi)
    PROVE  stripe_pi' \in [Intents -> StripeObjects] /\ stripe_saved' \subseteq SavedAnswers
  BY RequestType DEF TypeOK, Execute, SavedAnswers, Replies

LEMMA ConfirmTypes ==
    ASSUME TypeOK, CallsOK, NEW r \in Requests,
           ConfirmFind(r) \/ ConfirmStripe(r) \/ ConfirmCommit(r)
    PROVE  TypeOK' /\ CallsOK'
  <1> USE RequestType DEF TypeOK, tables, pages, stripe
  <1>1. CASE ConfirmFind(r)
    <2>1. CASE Loads(r, "stripe")
      BY <1>1, <2>1, LoadsFacts DEF ConfirmFind, CallsOK
    <2>2. CASE \E pc \in {"error", "done"} : Moves(r, pc)
      BY <1>1, <2>2, MovesCallsOK DEF ConfirmFind, PCs
    <2> QED BY <1>1, <2>1, <2>2 DEF ConfirmFind
  <1>2. CASE ConfirmStripe(r)
    <2>1. PICK reply \in Statuses : ConfirmAtStripe(r, reply) /\ Answered(r, reply)
      BY <1>2 DEF ConfirmStripe
    <2>2. call' \in [Requests -> Calls] /\ CallsOK'
      BY <1>2, <2>1, AnsweredFacts DEF ConfirmStripe, CallsOK, Replies
    <2>3. [stripe_pi[r.intent] EXCEPT !.status = reply] \in StripeObjects
      <3>1. stripe_pi[r.intent] \in StripeObjects
        OBVIOUS
      <3>2. reply \in Statuses
        BY <2>1
      <3> QED BY ONLY <3>1, <3>2, ObjectTypes
    <2>4. stripe_pi' \in [Intents -> StripeObjects] /\ stripe_saved' \subseteq SavedAnswers
      BY <2>1, <2>3, ExecuteTypes DEF ConfirmAtStripe, Replay, Replies
    <2> QED BY <1>2, <2>2, <2>4 DEF ConfirmStripe
  <1>3. CASE ConfirmCommit(r)
    <2>1. call' \in [Requests -> Calls] /\ CallsOK'
      BY <1>3, MovesCallsOK DEF ConfirmCommit, PCs
    <2>2. payment_intents' \in [Intents -> Rows]
      BY <1>3 DEF ConfirmCommit, CallsOK, Rows
    <2> QED BY <1>3, <2>1, <2>2 DEF ConfirmCommit
  <1> QED BY <1>1, <1>2, <1>3

LEMMA CancelTypes ==
    ASSUME TypeOK, CallsOK, NEW r \in Requests,
           CancelFind(r) \/ CancelStripe(r) \/ CancelCommit(r)
    PROVE  TypeOK' /\ CallsOK'
  <1> USE RequestType DEF TypeOK, tables, pages, stripe
  <1>1. CASE CancelFind(r)
    <2>1. CASE Loads(r, "stripe")
      BY <1>1, <2>1, LoadsFacts DEF CancelFind, CallsOK
    <2>2. CASE \E pc \in {"error", "done"} : Moves(r, pc)
      BY <1>1, <2>2, MovesCallsOK DEF CancelFind, PCs
    <2> QED BY <1>1, <2>1, <2>2 DEF CancelFind
  <1>2. CASE CancelStripe(r)
    <2>1. PICK reply \in Statuses : CancelAtStripe(r, reply) /\ Answered(r, reply)
      BY <1>2 DEF CancelStripe
    <2>2. call' \in [Requests -> Calls] /\ CallsOK'
      BY <1>2, <2>1, AnsweredFacts DEF CancelStripe, CallsOK, Replies
    <2>3. [stripe_pi[r.intent] EXCEPT !.status = reply] \in StripeObjects
      <3>1. stripe_pi[r.intent] \in StripeObjects
        OBVIOUS
      <3>2. reply \in Statuses
        BY <2>1
      <3> QED BY ONLY <3>1, <3>2, ObjectTypes
    <2>4. stripe_pi' \in [Intents -> StripeObjects] /\ stripe_saved' \subseteq SavedAnswers
      BY <2>1, <2>3, ExecuteTypes DEF CancelAtStripe, Replay, Replies
    <2> QED BY <1>2, <2>2, <2>4 DEF CancelStripe
  <1>3. CASE CancelCommit(r)
    <2>1. call' \in [Requests -> Calls] /\ CallsOK'
      BY <1>3, MovesCallsOK DEF CancelCommit, PCs
    <2>2. payment_intents' \in [Intents -> Rows]
      BY <1>3 DEF CancelCommit, CallsOK, Rows
    <2>3. Transfer(ledger[r.intent], "payments_authorised", "customer_pending",
                   call[r].seen.amount) \in Books
      BY TransferType DEF Accounts, Calls, Rows
    <2> QED BY <1>3, <2>1, <2>2, <2>3 DEF CancelCommit
  <1> QED BY <1>1, <1>2, <1>3

LEMMA RefundTypes ==
    ASSUME TypeOK, CallsOK, NEW r \in Requests,
           RefundFind(r) \/ RefundStripe(r) \/ RefundCommit(r)
    PROVE  TypeOK' /\ CallsOK'
  <1> USE RequestType DEF TypeOK, tables, pages, stripe
  <1>1. CASE RefundFind(r)
    <2>1. CASE MayRefund(r, payment_intents[r.intent]) /\ Loads(r, "stripe")
      BY <1>1, <2>1, LoadsFacts DEF RefundFind, CallsOK
    <2>2. CASE Moves(r, "error")
      BY <1>1, <2>2, MovesCallsOK DEF RefundFind, PCs
    <2> QED BY <1>1, <2>1, <2>2 DEF RefundFind
  <1> DEFINE amount == RefundAmount(r, call[r].seen)
  <1>a. call[r].pc \in {"stripe", "commit"} /\ r.op = "refund" => amount \in Nat
    BY RefundAmountType DEF CallsOK, Calls
  <1>2. CASE RefundStripe(r)
    <2>1. call' \in [Requests -> Calls] /\ CallsOK'
      BY <1>2, AnsweredFacts DEF RefundStripe, CallsOK, Replies
    <2>2. amount \in Nat /\ "none" \in Replies
      BY <1>2, <1>a DEF RefundStripe, Replies
    <2>3. [stripe_pi[r.intent] EXCEPT !.refunded = @ + amount] \in StripeObjects
      <3> HIDE DEF amount
      <3> DEFINE total == stripe_pi[r.intent].refunded + amount
      <3>1. stripe_pi[r.intent] \in StripeObjects
        OBVIOUS
      <3>2. total \in Nat
        BY <2>2, <3>1 DEF StripeObjects
      <3> HIDE DEF total
      <3>3. [stripe_pi[r.intent] EXCEPT !.refunded = total] \in StripeObjects
        BY <3>1, <3>2 DEF StripeObjects
      <3> QED BY <3>3 DEF total
    <2>4. stripe_pi' \in [Intents -> StripeObjects] /\ stripe_saved' \subseteq SavedAnswers
      <3> HIDE DEF amount
      <3>1. RefundAtStripe(r, amount)
        BY <1>2 DEF RefundStripe, amount
      <3> QED BY <2>2, <2>3, <3>1, ExecuteTypes DEF RefundAtStripe, Replay
    <2> QED BY <1>2, <2>1, <2>4 DEF RefundStripe
  <1>3. CASE RefundCommit(r)
    <2>1. call' \in [Requests -> Calls] /\ CallsOK'
      BY <1>3, MovesCallsOK DEF RefundCommit, PCs
    <2>2. amount \in Nat /\ call[r].seen.refunded \in Nat
      BY <1>3, <1>a DEF RefundCommit, Calls, Rows
    <2>3. payment_intents' \in [Intents -> Rows]
      <3> HIDE DEF amount
      <3> DEFINE total == call[r].seen.refunded + amount
      <3>1. payment_intents' = [payment_intents EXCEPT ![r.intent].refunded = total]
        BY <1>3 DEF RefundCommit, amount
      <3>2. total \in Nat
        BY <2>2
      <3> HIDE DEF total
      <3> DEFINE new == [payment_intents[r.intent] EXCEPT !.refunded = total]
      <3>3. r.intent \in Intents /\ payment_intents[r.intent] \in Rows
        OBVIOUS
      <3>4. new \in Rows
        BY ONLY <3>2, <3>3 DEF Rows
      <3>5. payment_intents' = [payment_intents EXCEPT ![r.intent] = new]
        BY ONLY <3>1
      <3>6. payment_intents \in [Intents -> Rows]
        OBVIOUS
      <3> HIDE DEF new
      <3> QED BY ONLY <3>3, <3>4, <3>5, <3>6
    <2>4. Transfer(ledger[r.intent], "payments_captured", "customer", amount) \in Books
      BY <2>2, TransferType DEF Accounts
    <2> QED BY <1>3, <2>1, <2>3, <2>4 DEF RefundCommit
  <1> QED BY <1>1, <1>2, <1>3

LEMMA SessionTypes ==
    ASSUME TypeOK, CallsOK, NEW r \in Requests,
           Abort(r) \/ SessionStep(r) \/ TTLPasses(r)
    PROVE  TypeOK' /\ CallsOK'
  <1> USE DEF TypeOK, tables, pages, stripe
  <1>1. CASE Abort(r)
    BY <1>1, MovesCallsOK DEF Abort, PCs
  <1>2. CASE FindSession(r)
    <2>1. PICK pc \in {"insert_session", "done", "error"} : Moves(r, pc)
      BY <1>2 DEF FindSession
    <2> QED BY <1>2, <2>1, MovesCallsOK DEF FindSession, PCs
  <1>3. CASE InsertSession(r)
    BY <1>3, MovesCallsOK DEF InsertSession, PCs
  <1>4. CASE TTLPasses(r)
    BY <1>4 DEF TTLPasses, CallsOK
  <1> QED BY <1>1, <1>2, <1>3, <1>4 DEF SessionStep

LEMMA PageTypes ==
    ASSUME TypeOK, CallsOK, NEW v \in Viewers, NEW r \in Requests, PageStep(v, r)
    PROVE  TypeOK' /\ CallsOK'
  <1> USE DEF TypeOK, CallsOK, tables, pages, stripe
  <1>1. CASE ViewSession(v, r)
    BY <1>1 DEF ViewSession
  <1>2. CASE ExpireSession(v, r)
    BY <1>2 DEF ExpireSession
  <1>3. CASE AbortView(v, r)
    BY <1>3 DEF AbortView
  <1> QED BY <1>1, <1>2, <1>3 DEF PageStep

LEMMA StripeTypes ==
    ASSUME TypeOK, CallsOK, StripeNext
    PROVE  TypeOK' /\ CallsOK'
  <1> USE DEF TypeOK, CallsOK, tables, pages
  <1>1. PICK k \in Intents : CustomerPays(k) \/ Settle(k) \/ PaidElsewhere(k)
    BY DEF StripeNext
  <1>2. CASE CustomerPays(k) \/ Settle(k)
    <2>1. PICK s \in Statuses : stripe_pi' = [stripe_pi EXCEPT ![k].status = s]
      BY <1>2 DEF CustomerPays, Settle, Statuses
    <2>2. stripe_pi' \in [Intents -> StripeObjects]
      BY <2>1 DEF StripeObjects
    <2> QED BY <1>2, <2>2 DEF CustomerPays, Settle
  <1>3. CASE PaidElsewhere(k)
    BY <1>3 DEF PaidElsewhere, StripeObjects, Statuses
  <1> QED BY <1>1, <1>2, <1>3

\* What a delivery's commit does to the tables.
LEMMA CommitHookTypes ==
    ASSUME TypeOK, NEW d \in Deliveries,
           NEW event \in {"absent", "received", "processed"}, CommitHook(d, event)
    PROVE  /\ payment_intents' \in [Intents -> Rows]
           /\ ledger' \in [Intents -> Books]
           /\ webhook_events' \in [Intents \X {"succeeded", "canceled"}
                                       -> {"absent", "received", "processed"}]
  <1> USE DeliveryType DEF TypeOK
  <1>1. webhook_events' \in [Intents \X {"succeeded", "canceled"}
                                 -> {"absent", "received", "processed"}]
    BY DEF CommitHook, Event
  <1>2. CASE hook[d].capture
    <2> DEFINE amount == stripe_pi[d.intent].amount
    <2>1. amount \in Nat
      BY DEF StripeObjects
    <2>2. Capture(d.intent, amount)
      BY <1>2 DEF CommitHook
    <2> HIDE DEF amount
    <2>3. Transfer(ledger[d.intent], "payments_authorised", "payments_captured", amount) \in Books
      BY <2>1, TransferType DEF Accounts
    <2>4. payment_intents' \in [Intents -> Rows]
      BY <2>1, <2>2 DEF Capture, Rows, Statuses
    <2>5. ledger' \in [Intents -> Books]
      BY <2>2, <2>3 DEF Capture
    <2> QED BY <1>1, <2>4, <2>5
  <1>3. CASE ~hook[d].capture
    BY <1>1, <1>3 DEF CommitHook
  <1> QED BY <1>2, <1>3

\* What the steps of a delivery that stay inside its transaction do to hook.

LEMMA HookAtFacts ==
    ASSUME hook \in [Deliveries -> Hooks], NEW d \in Deliveries,
           NEW pc \in {"apply", "find_session", "finish"}, HookAt(d, pc)
    PROVE  /\ hook' \in [Deliveries -> Hooks]
           /\ hook'[d].pc = pc /\ hook'[d].fresh = hook[d].fresh
           /\ hook'[d].capture = hook[d].capture /\ hook'[d].found = hook[d].found
           /\ \A e \in Deliveries : e # d => hook'[e] = hook[e]
  <1> DEFINE h == [hook[d] EXCEPT !.pc = pc]
  <1>1. hook' = [hook EXCEPT ![d] = h]
    BY DEF HookAt
  <1>2. h \in Hooks /\ h.pc = pc /\ h.fresh = hook[d].fresh /\ h.capture = hook[d].capture
        /\ h.found = hook[d].found
    BY DEF Hooks
  <1> QED BY <1>1, <1>2

LEMMA ApplyFacts ==
    ASSUME hook \in [Deliveries -> Hooks], NEW d \in Deliveries, Apply(d)
    PROVE  /\ hook' \in [Deliveries -> Hooks]
           /\ hook'[d].pc \in {"find_session", "finish"}
           /\ hook'[d].capture => hook[d].capture \/ (d.type = "succeeded" /\ Exists(d.intent))
           /\ \A e \in Deliveries : e # d => hook'[e] = hook[e]
  <1>1. CASE HookAt(d, "finish")
    BY <1>1, HookAtFacts
  <1>2. CASE /\ d.type = "succeeded" /\ Exists(d.intent)
             /\ hook' = [hook EXCEPT ![d].pc = "find_session",
                    ![d].capture = payment_intents[d.intent].status # "succeeded"]
    <2> DEFINE c == payment_intents[d.intent].status # "succeeded"
               h == [hook[d] EXCEPT !.pc = "find_session", !.capture = c]
    <2>1. hook' = [hook EXCEPT ![d] = h]
      BY <1>2
    <2>2. c \in BOOLEAN
      OBVIOUS
    <2> HIDE DEF c
    <2>3. h \in Hooks /\ h.pc = "find_session"
      BY <2>2 DEF Hooks
    <2> HIDE DEF h
    <2> QED BY <1>2, <2>1, <2>3
  <1> QED BY <1>1, <1>2 DEF Apply

LEMMA FindSessionOfEventFacts ==
    ASSUME hook \in [Deliveries -> Hooks], NEW d \in Deliveries, FindSessionOfEvent(d)
    PROVE  /\ hook' \in [Deliveries -> Hooks]
           /\ hook'[d].pc \in {"complete", "finish"} /\ hook'[d].capture = hook[d].capture
           /\ \A e \in Deliveries : e # d => hook'[e] = hook[e]
  <1> DEFINE open == {r \in SessionsOf(d.intent) : checkout_sessions[r] # "completed"}
             h == [hook[d] EXCEPT !.pc = "complete", !.found = open]
  <1>1. CASE HookAt(d, "finish")
    BY <1>1, HookAtFacts
  <1>2. CASE hook' = [hook EXCEPT ![d].pc = "complete", ![d].found = open]
    <2>1. hook' = [hook EXCEPT ![d] = h]
      BY <1>2
    <2>2. open \in SUBSET Requests
      BY DEF SessionsOf
    <2> HIDE DEF open
    <2>3. h \in Hooks /\ h.pc = "complete" /\ h.capture = hook[d].capture
      BY <2>2 DEF Hooks
    <2> HIDE DEF h
    <2> QED BY <2>1, <2>3
  <1> QED BY <1>1, <1>2 DEF FindSessionOfEvent

LEMMA HookTypes ==
    ASSUME TypeOK, CallsOK, NEW d \in Deliveries, HookStep(d)
    PROVE  TypeOK' /\ CallsOK'
  <1> USE DEF TypeOK, CallsOK, tables, pages, stripe
  <1>w. Waiting \in Hooks
    BY DEF Waiting, Hooks
  <1>1. CASE Receive(d)
    BY <1>1 DEF Receive, Waiting, Hooks
  <1>2. CASE InsertEvent(d)
    BY <1>2, <1>w, HookAtFacts DEF InsertEvent
  <1>3. CASE Apply(d)
    BY <1>3, ApplyFacts DEF Apply
  <1>4. CASE FindSessionOfEvent(d)
    BY <1>4, FindSessionOfEventFacts DEF FindSessionOfEvent
  <1>5. CASE CompleteSession(d)
    <2>1. PICK event \in {"absent", "received", "processed"} : CommitHook(d, event)
      BY <1>5, DeliveryType DEF CompleteSession, Event
    <2>2. hook' \in [Deliveries -> Hooks]
      BY <1>5 DEF CompleteSession, Waiting, Hooks
    <2>3. checkout_sessions' \in [Requests -> {"absent", "open", "completed", "expired"}]
      BY <1>5 DEF CompleteSession
    <2> QED BY <1>5, <2>1, <2>2, <2>3, CommitHookTypes DEF CompleteSession
  <1>6. CASE Finish(d)
    BY <1>6, <1>w, CommitHookTypes DEF Finish
  <1>7. CASE AbortHook(d)
    BY <1>7, <1>w DEF AbortHook
  <1> QED BY <1>1, <1>2, <1>3, <1>4, <1>5, <1>6, <1>7 DEF HookStep

LEMMA InitTypes == Init => TypeOK /\ CallsOK
  <1> SUFFICES ASSUME Init PROVE TypeOK /\ CallsOK
    OBVIOUS
  <1>1. Idle \in Calls /\ Idle.pc = "idle"
    BY NoRowType DEF Idle, Calls
  <1>2. Waiting \in Hooks
    BY DEF Waiting, Hooks
  <1>3. NoObject \in StripeObjects /\ EmptyBooks \in Books
    BY DEF NoObject, StripeObjects, EmptyBooks, Books
  <1> QED BY <1>1, <1>2, <1>3, NoRowType DEF Init, StateInit, TypeOK, CallsOK

LEMMA NextTypes ==
    ASSUME TypeOK, CallsOK, [Next]_vars
    PROVE  TypeOK' /\ CallsOK'
  <1>1. ASSUME NEW r \in Requests, RequestStep(r)
        PROVE  TypeOK' /\ CallsOK'
    BY <1>1, CreateTypes, ConfirmTypes, CancelTypes, RefundTypes, SessionTypes
       DEF RequestStep, PaymentStep
  <1>2. CASE UNCHANGED vars
    BY <1>2 DEF vars, tables, pages, stripe, TypeOK, CallsOK
  <1> QED BY <1>1, <1>2, PageTypes, HookTypes, StripeTypes DEF Next

\* The tables, Stripe's objects and every request and delivery in progress keep
\* their types; in particular no refund makes amount_refunded or a ledger
\* amount negative, and no answer other than a status is written to a row.
THEOREM TypeCorrect == Spec => []TypeOK
  <1>1. Init => TypeOK /\ CallsOK
    BY InitTypes
  <1>2. TypeOK /\ CallsOK /\ [Next]_vars => (TypeOK /\ CallsOK)'
    BY NextTypes
  <1> QED BY <1>1, <1>2, PTL DEF Spec

-----------------------------------------------------------------------------
(* The table agrees with Stripe.                                           *)

Agreement == StripeKnows /\ TerminalAgrees /\ SameAmount

\* A step of Stripe: settled objects stay as they are, amounts are fixed.
Onwards ==
    \A k \in Intents :
        /\ stripe_pi[k].status \in {"succeeded", "canceled"} =>
               stripe_pi'[k].status = stripe_pi[k].status
        /\ stripe_pi[k].status # "absent" =>
               stripe_pi'[k].status # "absent" /\ stripe_pi'[k].amount = stripe_pi[k].amount

\* While only Stripe moves, what is known of it stays true.
LEMMA StripeAgreement ==
    ASSUME TypeOK, Agreement, StripeNext
    PROVE  Agreement'
  <1>1. Onwards /\ stripe_saved' = stripe_saved /\ call' = call /\ hook' = hook
        /\ payment_intents' = payment_intents
    <2>1. PICK k \in Intents : CustomerPays(k) \/ Settle(k) \/ PaidElsewhere(k)
      BY DEF StripeNext
    <2>2. CASE CustomerPays(k) \/ Settle(k)
      <3>1. PICK s \in Statuses : stripe_pi' = [stripe_pi EXCEPT ![k].status = s]
        BY <2>2 DEF CustomerPays, Settle, Statuses
      <3>2. stripe_pi[k].status \notin {"succeeded", "canceled"} /\ s # "absent"
        BY <2>2 DEF CustomerPays, Settle, Payable, Statuses
      <3>3. Onwards
        BY <3>1, <3>2 DEF Onwards, TypeOK, StripeObjects
      <3> QED BY <2>2, <3>3 DEF CustomerPays, Settle, tables
    <2>3. CASE PaidElsewhere(k)
      BY <2>3 DEF PaidElsewhere, Onwards, TypeOK, StripeObjects, tables
    <2> QED BY <2>1, <2>2, <2>3
  <1>2. TerminalAgrees' /\ SameAmount'
    BY <1>1 DEF Onwards, Agreement, StripeKnows, TerminalAgrees, SameAmount, Exists
  <1>3. StripeKnows'
    <2> USE <1>1 DEF Onwards, Agreement, StripeKnows
    <2>1. \A k \in Intents : Exists(k)' => stripe_pi'[k].status # "absent"
      BY DEF Exists
    <2>2. \A x \in stripe_saved' :
              x.reply \in {"succeeded", "canceled"} => stripe_pi'[x.intent].status = x.reply
      BY DEF TypeOK, SavedAnswers
    <2>3. \A r \in Requests :
              call'[r].reply \in {"succeeded", "canceled"} =>
                  stripe_pi'[r.intent].status = call'[r].reply
      BY RequestType
    <2>4. \A r \in Requests :
              r.op \in Creating /\ call'[r].pc = "commit" =>
                  /\ stripe_pi'[r.intent].status # "absent"
                  /\ stripe_pi'[r.intent].amount = r.amount
                  /\ call'[r].reply = "requires_payment_method"
      BY RequestType
    <2>5. \A d \in Deliveries :
              hook'[d].pc # "idle" => stripe_pi'[d.intent].status = d.type
      BY DeliveryType
    <2> QED BY <2>1, <2>2, <2>3, <2>4, <2>5 DEF Exists
  <1> QED BY <1>2, <1>3 DEF Agreement

\* A request that goes on to anything but its commit learns nothing of Stripe.
LEMMA CallAgreement ==
    ASSUME TypeOK, Agreement, NEW r \in Requests,
           UNCHANGED <<stripe_pi, stripe_saved, payment_intents, hook>>,
           \A q \in Requests : q # r => call'[q] = call[q],
           call'[r].reply = "none", call'[r].pc # "commit",
           call'[r].pc = "stripe" => (r.op \in Creating \/ Exists(r.intent))
    PROVE  Agreement'
  BY DEF Agreement, StripeKnows, TerminalAgrees, SameAmount, Exists

\* Stripe executes or repeats a call: the answer is true of its object.
LEMMA AnswerAgreement ==
    ASSUME TypeOK, Agreement, NEW r \in Requests, NEW reply \in Replies,
           call[r].pc = "stripe", Answered(r, reply),
           r.op \in Creating => /\ stripe_pi'[r.intent].status # "absent"
                                /\ stripe_pi'[r.intent].amount = r.amount
                                /\ reply = "requires_payment_method",
           UNCHANGED <<payment_intents, hook>>,
           Onwards,
           \A s \in stripe_saved' : s \in stripe_saved \/ (s.intent = r.intent /\ s.reply = reply),
           reply \in {"succeeded", "canceled"} => stripe_pi'[r.intent].status = reply
    PROVE  Agreement'
  <1>1. /\ call'[r].pc = "commit" /\ call'[r].reply = reply
        /\ \A q \in Requests : q # r => call'[q] = call[q]
    BY AnsweredFacts DEF TypeOK
  <1> USE RequestType, DeliveryType DEF Onwards, Agreement, StripeKnows
  <1>2. \A s \in stripe_saved' :
            s.reply \in {"succeeded", "canceled"} => stripe_pi'[s.intent].status = s.reply
    <2> SUFFICES ASSUME NEW s \in stripe_saved', s.reply \in {"succeeded", "canceled"}
                 PROVE  stripe_pi'[s.intent].status = s.reply
      OBVIOUS
    <2>1. CASE s \in stripe_saved
      <3>1. s.intent \in Intents
        BY <2>1 DEF TypeOK, SavedAnswers
      <3> QED BY <2>1, <3>1
    <2>2. CASE s.intent = r.intent /\ s.reply = reply
      BY <2>2
    <2> QED BY <2>1, <2>2
  <1>3. \A q \in Requests :
            call'[q].reply \in {"succeeded", "canceled"} =>
                stripe_pi'[q.intent].status = call'[q].reply
    BY <1>1
  <1>4. \A q \in Requests :
            q.op \in Creating /\ call'[q].pc = "commit" =>
                /\ stripe_pi'[q.intent].status # "absent"
                /\ stripe_pi'[q.intent].amount = q.amount
                /\ call'[q].reply = "requires_payment_method"
    BY <1>1
  <1>5. \A q \in Requests :
            q.op \notin Creating /\ call'[q].pc \in {"stripe", "commit"} => Exists(q.intent)'
    BY <1>1 DEF Exists
  <1>6. TerminalAgrees' /\ SameAmount'
    BY DEF TerminalAgrees, SameAmount, Exists
  <1> QED BY <1>2, <1>3, <1>4, <1>5, <1>6 DEF Exists

\* A row of an intent Stripe knows is written, in agreement with Stripe.
LEMMA RowAgreement ==
    ASSUME TypeOK, TypeOK', Agreement, NEW k \in Intents, NEW row \in Rows,
           payment_intents' = [payment_intents EXCEPT ![k] = row],
           UNCHANGED <<stripe_pi, stripe_saved>>,
           row.status # "absent", row.amount = stripe_pi[k].amount,
           stripe_pi[k].status # "absent",
           row.status \in {"succeeded", "canceled"} => stripe_pi[k].status = row.status,
           \A q \in Requests : \/ call'[q] = call[q]
                               \/ call'[q].reply = "none" /\ call'[q].pc \notin {"stripe", "commit"},
           \A e \in Deliveries : hook'[e] = hook[e] \/ ~hook'[e].capture,
           \A e \in Deliveries : hook'[e].pc = "idle" \/ hook[e].pc # "idle"
    PROVE  Agreement'
  BY DEF Agreement, StripeKnows, TerminalAgrees, SameAmount, Exists, TypeOK

\* Nothing Agreement speaks of changes.
LEMMA FrameAgreement ==
    ASSUME Agreement, UNCHANGED <<stripe_pi, stripe_saved, payment_intents, call, hook>>
    PROVE  Agreement'
  BY DEF Agreement, StripeKnows, TerminalAgrees, SameAmount, Exists

\* A delivery moves within its transaction.
LEMMA HookAgreement ==
    ASSUME Agreement, UNCHANGED <<stripe_pi, stripe_saved, payment_intents, call>>,
           NEW d \in Deliveries, \A e \in Deliveries : e # d => hook'[e] = hook[e],
           hook'[d].pc # "idle" => stripe_pi[d.intent].status = d.type,
           hook'[d].capture => /\ hook'[d].pc # "idle" /\ d.type = "succeeded"
                               /\ Exists(d.intent)
    PROVE  Agreement'
  BY DEF Agreement, StripeKnows, TerminalAgrees, SameAmount, Exists

LEMMA ExecuteOnwards ==
    ASSUME TypeOK, NEW r \in Requests, NEW amount, NEW reply, NEW pi \in StripeObjects,
           Execute(r, amount, reply, pi), pi.amount = stripe_pi[r.intent].amount,
           stripe_pi[r.intent].status \in {"succeeded", "canceled"} =>
               pi.status = stripe_pi[r.intent].status,
           stripe_pi[r.intent].status # "absent" => pi.status # "absent"
    PROVE  /\ Onwards
           /\ stripe_pi'[r.intent] = pi
           /\ \A s \in stripe_saved' : s \in stripe_saved \/ (s.intent = r.intent /\ s.reply = reply)
  BY RequestType DEF TypeOK, Execute, Onwards

LEMMA ReplayOnwards ==
    ASSUME Agreement, NEW r \in Requests, NEW amount, NEW reply, Replay(r, amount, reply)
    PROVE  /\ Onwards /\ stripe_saved' = stripe_saved
           /\ reply \in {"succeeded", "canceled"} => stripe_pi'[r.intent].status = reply
  <1> DEFINE s == [idem |-> r.idem, op |-> r.op, intent |-> r.intent,
                   amount |-> amount, reply |-> reply]
  <1>1. s \in stripe_saved /\ UNCHANGED stripe
    BY DEF Replay
  <1>2. s.intent = r.intent /\ s.reply = reply
    OBVIOUS
  <1> HIDE DEF s
  <1> QED BY <1>1, <1>2 DEF stripe, Onwards, Agreement, StripeKnows

\* A row is updated to agree with Stripe by a request that is then over.
LEMMA RequestRowAgreement ==
    ASSUME TypeOK, TypeOK', Agreement, NEW r \in Requests, NEW row \in Rows,
           NEW pc \in PCs \ {"stripe", "commit"}, Moves(r, pc), hook' = hook,
           payment_intents' = [payment_intents EXCEPT ![r.intent] = row],
           UNCHANGED <<stripe_pi, stripe_saved>>,
           row.status # "absent", row.amount = stripe_pi[r.intent].amount,
           stripe_pi[r.intent].status # "absent",
           row.status \in {"succeeded", "canceled"} => stripe_pi[r.intent].status = row.status
    PROVE  Agreement'
  <1>1. \A q \in Requests : \/ call'[q] = call[q]
                            \/ call'[q].reply = "none" /\ call'[q].pc \notin {"stripe", "commit"}
    BY MovesFacts DEF TypeOK
  <1>2. \A e \in Deliveries : /\ hook'[e] = hook[e]
                              /\ hook'[e].pc = "idle" \/ hook[e].pc # "idle"
    OBVIOUS
  <1> QED BY <1>1, <1>2, RowAgreement, RequestType

\* A row or an object with another status is still one.
LEMMA StatusTypes ==
    ASSUME NEW status \in Statuses, NEW row \in Rows
    PROVE  /\ [row EXCEPT !.status = status] \in Rows
           /\ [row EXCEPT !.status = status].status = status
           /\ [row EXCEPT !.status = status].amount = row.amount
           /\ status # "absent"
  BY DEF Rows, Statuses

-----------------------------------------------------------------------------
\* Every step preserves Agreement.

LEMMA CreateAgreement ==
    ASSUME TypeOK, CallsOK, TypeOK', Agreement, NEW r \in Requests,
           CreateFind(r) \/ CreateStripe(r) \/ CreateCommit(r)
    PROVE  Agreement'
  <1> USE RequestType DEF tables, pages, stripe
  <1>1. CASE CreateFind(r)
    <2>1. PICK pc \in PCs \ {"commit"} : Moves(r, pc)
      BY <1>1 DEF CreateFind, Created, PCs
    <2> QED BY <1>1, <2>1, MovesFacts, CallAgreement DEF CreateFind, TypeOK
  <1>2. CASE CreateStripe(r)
    <2>1. /\ Onwards /\ stripe_saved' = stripe_saved
          /\ stripe_pi'[r.intent].status # "absent"
          /\ stripe_pi'[r.intent].amount = r.amount
      BY <1>2 DEF CreateStripe, CreateAtStripe, Onwards, TypeOK, StripeObjects
    <2>2. "requires_payment_method" \in Replies
      BY DEF Replies, Statuses
    <2> QED BY <1>2, <2>1, <2>2, AnswerAgreement DEF CreateStripe
  <1>3. CASE CreateCommit(r)
    <2>1. PICK pc \in PCs \ {"commit", "stripe"} : Moves(r, pc)
      BY <1>3 DEF CreateCommit, Created, PCs
    <2>2. CASE Exists(r.intent)
      BY <1>3, <2>1, <2>2, MovesFacts, CallAgreement DEF CreateCommit, TypeOK
    <2>3. CASE ~Exists(r.intent)
      <3> DEFINE row == [status |-> call[r].reply, amount |-> r.amount,
                         received |-> 0, refunded |-> 0]
      <3>1. payment_intents' = [payment_intents EXCEPT ![r.intent] = row]
        BY <1>3, <2>3 DEF CreateCommit
      <3>2. /\ row.status = "requires_payment_method"
            /\ row.amount = stripe_pi[r.intent].amount
            /\ stripe_pi[r.intent].status # "absent"
        BY <1>3 DEF CreateCommit, Agreement, StripeKnows
      <3>3. row \in Rows
        BY <3>2 DEF Rows, Statuses
      <3> HIDE DEF row
      <3> QED BY <1>3, <2>1, <3>1, <3>2, <3>3, RequestRowAgreement DEF CreateCommit
    <2> QED BY <2>2, <2>3
  <1> QED BY <1>1, <1>2, <1>3

LEMMA ConfirmAgreement ==
    ASSUME TypeOK, CallsOK, TypeOK', Agreement, NEW r \in Requests,
           ConfirmFind(r) \/ ConfirmStripe(r) \/ ConfirmCommit(r)
    PROVE  Agreement'
  <1> USE RequestType DEF tables, pages, stripe
  <1>a. payment_intents[r.intent] \in Rows /\ stripe_pi[r.intent] \in StripeObjects
    BY DEF TypeOK
  <1>1. CASE ConfirmFind(r)
    <2>1. CASE Exists(r.intent) /\ Loads(r, "stripe")
      BY <1>1, <2>1, LoadsFacts, CallAgreement DEF ConfirmFind, TypeOK
    <2>2. CASE \E pc \in {"error", "done"} : Moves(r, pc)
      BY <1>1, <2>2, MovesFacts, CallAgreement DEF ConfirmFind, TypeOK, PCs
    <2> QED BY <1>1, <2>1, <2>2 DEF ConfirmFind, Exists
  <1>2. CASE ConfirmStripe(r)
    <2>1. PICK reply \in Statuses : ConfirmAtStripe(r, reply) /\ Answered(r, reply)
      BY <1>2 DEF ConfirmStripe
    <2> DEFINE pi == [stripe_pi[r.intent] EXCEPT !.status = reply]
    <2>2. CASE Payable(r.intent) /\ Execute(r, 0, reply, pi)
      <3>1. /\ pi \in StripeObjects /\ pi.amount = stripe_pi[r.intent].amount
            /\ pi.status = reply /\ reply # "absent"
        <4>1. stripe_pi[r.intent] \in StripeObjects /\ reply \in Statuses
          BY <1>a, <2>1
        <4> QED BY ONLY <4>1, ObjectTypes
      <3>2. stripe_pi[r.intent].status \notin {"succeeded", "canceled"}
        BY <2>2 DEF Payable
      <3> HIDE DEF pi
      <3>3. /\ Onwards
            /\ stripe_pi'[r.intent] = pi
            /\ \A s \in stripe_saved' :
                   s \in stripe_saved \/ (s.intent = r.intent /\ s.reply = reply)
        BY <2>2, <3>1, <3>2, ExecuteOnwards
      <3> QED BY <1>2, <2>1, <3>1, <3>3, AnswerAgreement DEF ConfirmStripe, Replies, Creating
    <2>3. CASE Replay(r, 0, reply)
      <3>1. /\ Onwards /\ stripe_saved' = stripe_saved
            /\ reply \in {"succeeded", "canceled"} => stripe_pi'[r.intent].status = reply
        BY <2>3, ReplayOnwards
      <3> QED BY <1>2, <2>1, <3>1, AnswerAgreement DEF ConfirmStripe, Replies, Creating
    <2> QED BY <2>1, <2>2, <2>3 DEF ConfirmAtStripe
  <1>3. CASE ConfirmCommit(r)
    <2> DEFINE status == IF call[r].reply = call[r].seen.status
                         THEN payment_intents[r.intent].status ELSE call[r].reply
               row == [payment_intents[r.intent] EXCEPT !.status = status]
    <2>1. payment_intents' = [payment_intents EXCEPT ![r.intent] = row]
      BY <1>3 DEF ConfirmCommit
    <2>2. Exists(r.intent) /\ r.op # "refund" /\ call[r].pc = "commit"
      BY <1>3 DEF ConfirmCommit, Agreement, StripeKnows, Creating
    <2>3. /\ status \in Statuses
          /\ status \in {"succeeded", "canceled"} => stripe_pi[r.intent].status = status
      BY <2>2 DEF CallsOK, Agreement, StripeKnows, TerminalAgrees, Exists, TypeOK, Rows
    <2> HIDE DEF status
    <2>4. /\ row \in Rows /\ row.status = status /\ status # "absent"
          /\ row.amount = payment_intents[r.intent].amount
      BY ONLY <1>a, <2>3, StatusTypes
    <2> HIDE DEF row
    <2>5. row.amount = stripe_pi[r.intent].amount /\ stripe_pi[r.intent].status # "absent"
      BY <2>2, <2>4 DEF Agreement, SameAmount, StripeKnows
    <2> QED BY <1>3, <2>1, <2>3, <2>4, <2>5, RequestRowAgreement DEF ConfirmCommit, PCs
  <1> QED BY <1>1, <1>2, <1>3

LEMMA CancelAgreement ==
    ASSUME TypeOK, CallsOK, TypeOK', Agreement, NEW r \in Requests,
           CancelFind(r) \/ CancelStripe(r) \/ CancelCommit(r)
    PROVE  Agreement'
  <1> USE RequestType DEF tables, pages, stripe
  <1>a. payment_intents[r.intent] \in Rows /\ stripe_pi[r.intent] \in StripeObjects
    BY DEF TypeOK
  <1>1. CASE CancelFind(r)
    <2>1. CASE Exists(r.intent) /\ Loads(r, "stripe")
      BY <1>1, <2>1, LoadsFacts, CallAgreement DEF CancelFind, TypeOK
    <2>2. CASE \E pc \in {"error", "done"} : Moves(r, pc)
      BY <1>1, <2>2, MovesFacts, CallAgreement DEF CancelFind, TypeOK, PCs
    <2> QED BY <1>1, <2>1, <2>2 DEF CancelFind, Exists
  <1>2. CASE CancelStripe(r)
    <2>1. PICK reply \in Statuses : CancelAtStripe(r, reply) /\ Answered(r, reply)
      BY <1>2 DEF CancelStripe
    <2> DEFINE pi == [stripe_pi[r.intent] EXCEPT !.status = reply]
    <2>2. CASE Unsettled(r.intent) /\ Execute(r, 0, reply, pi)
      <3>1. /\ pi \in StripeObjects /\ pi.amount = stripe_pi[r.intent].amount
            /\ pi.status = reply /\ reply # "absent"
        <4>1. stripe_pi[r.intent] \in StripeObjects /\ reply \in Statuses
          BY <1>a, <2>1
        <4> QED BY ONLY <4>1, ObjectTypes
      <3>2. stripe_pi[r.intent].status \notin {"succeeded", "canceled"}
        BY <2>2 DEF Unsettled, Payable
      <3> HIDE DEF pi
      <3>3. /\ Onwards
            /\ stripe_pi'[r.intent] = pi
            /\ \A s \in stripe_saved' :
                   s \in stripe_saved \/ (s.intent = r.intent /\ s.reply = reply)
        BY <2>2, <3>1, <3>2, ExecuteOnwards
      <3> QED BY <1>2, <2>1, <3>1, <3>3, AnswerAgreement DEF CancelStripe, Replies, Creating
    <2>3. CASE Replay(r, 0, reply)
      <3>1. /\ Onwards /\ stripe_saved' = stripe_saved
            /\ reply \in {"succeeded", "canceled"} => stripe_pi'[r.intent].status = reply
        BY <2>3, ReplayOnwards
      <3> QED BY <1>2, <2>1, <3>1, AnswerAgreement DEF CancelStripe, Replies, Creating
    <2> QED BY <2>1, <2>2, <2>3 DEF CancelAtStripe
  <1>3. CASE CancelCommit(r)
    <2> DEFINE status == call[r].reply
               row == [payment_intents[r.intent] EXCEPT !.status = status]
    <2>1. payment_intents' = [payment_intents EXCEPT ![r.intent] = row]
      BY <1>3 DEF CancelCommit
    <2>2. Exists(r.intent) /\ r.op # "refund" /\ call[r].pc = "commit"
      BY <1>3 DEF CancelCommit, Agreement, StripeKnows, Creating
    <2>3. /\ status \in Statuses
          /\ status \in {"succeeded", "canceled"} => stripe_pi[r.intent].status = status
      BY <2>2 DEF CallsOK, Agreement, StripeKnows
    <2> HIDE DEF status
    <2>4. /\ row \in Rows /\ row.status = status /\ status # "absent"
          /\ row.amount = payment_intents[r.intent].amount
      BY ONLY <1>a, <2>3, StatusTypes
    <2> HIDE DEF row
    <2>5. row.amount = stripe_pi[r.intent].amount /\ stripe_pi[r.intent].status # "absent"
      BY <2>2, <2>4 DEF Agreement, SameAmount, StripeKnows
    <2> QED BY <1>3, <2>1, <2>3, <2>4, <2>5, RequestRowAgreement DEF CancelCommit, PCs
  <1> QED BY <1>1, <1>2, <1>3

LEMMA RefundAgreement ==
    ASSUME TypeOK, CallsOK, TypeOK', Agreement, NEW r \in Requests,
           RefundFind(r) \/ RefundStripe(r) \/ RefundCommit(r)
    PROVE  Agreement'
  <1> USE RequestType DEF tables, pages, stripe
  <1>a. payment_intents[r.intent] \in Rows /\ stripe_pi[r.intent] \in StripeObjects
    BY DEF TypeOK
  <1> DEFINE amount == RefundAmount(r, call[r].seen)
  <1>b. call[r].pc \in {"stripe", "commit"} /\ r.op = "refund" =>
            amount \in Nat /\ call[r].seen.refunded + amount \in Nat
    BY RefundAmountType DEF CallsOK, Calls, TypeOK, Rows
  <1>1. CASE RefundFind(r)
    <2>1. CASE Exists(r.intent) /\ Loads(r, "stripe")
      BY <1>1, <2>1, LoadsFacts, CallAgreement DEF RefundFind, TypeOK
    <2>2. CASE Moves(r, "error")
      BY <1>1, <2>2, MovesFacts, CallAgreement DEF RefundFind, TypeOK, PCs
    <2> QED BY <1>1, <2>1, <2>2 DEF RefundFind, MayRefund, Exists
  <1>2. CASE RefundStripe(r)
    <2> HIDE DEF amount
    <2>1. RefundAtStripe(r, amount) /\ Answered(r, "none") /\ "none" \in Replies
      BY <1>2 DEF RefundStripe, amount, Replies
    <2>2. amount \in Nat
      BY <1>2, <1>b DEF RefundStripe
    <2> DEFINE total == stripe_pi[r.intent].refunded + amount
               pi == [stripe_pi[r.intent] EXCEPT !.refunded = total]
    <2>3. CASE Execute(r, amount, "none", pi)
      <3>1. total \in Nat
        BY <1>a, <2>2 DEF StripeObjects
      <3> HIDE DEF total
      <3>2. /\ pi \in StripeObjects /\ pi.amount = stripe_pi[r.intent].amount
            /\ pi.status = stripe_pi[r.intent].status
        BY <1>a, <3>1 DEF StripeObjects
      <3> HIDE DEF pi
      <3>3. /\ Onwards
            /\ \A s \in stripe_saved' :
                   s \in stripe_saved \/ (s.intent = r.intent /\ s.reply = "none")
        BY <2>3, <3>2, ExecuteOnwards
      <3> QED BY <1>2, <2>1, <3>3, AnswerAgreement DEF RefundStripe, Creating
    <2>4. CASE Replay(r, amount, "none")
      <3>1. Onwards /\ stripe_saved' = stripe_saved
        BY <2>4, ReplayOnwards
      <3> QED BY <1>2, <2>1, <3>1, AnswerAgreement DEF RefundStripe, Creating
    <2> QED BY <2>1, <2>3, <2>4 DEF RefundAtStripe
  <1>3. CASE RefundCommit(r)
    <2> DEFINE total == call[r].seen.refunded + amount
               row == [payment_intents[r.intent] EXCEPT !.refunded = total]
    <2>1. payment_intents' = [payment_intents EXCEPT ![r.intent] = row]
      BY <1>3 DEF RefundCommit
    <2>2. Exists(r.intent) /\ total \in Nat
      BY <1>3, <1>b DEF RefundCommit, Agreement, StripeKnows, Creating
    <2> HIDE DEF total
    <2>3. /\ row \in Rows /\ row.status = payment_intents[r.intent].status
          /\ row.amount = payment_intents[r.intent].amount
      BY <1>a, <2>2 DEF Rows
    <2> HIDE DEF row
    <2>4. /\ row.amount = stripe_pi[r.intent].amount
          /\ stripe_pi[r.intent].status # "absent" /\ row.status # "absent"
          /\ row.status \in {"succeeded", "canceled"} => stripe_pi[r.intent].status = row.status
      BY <2>2, <2>3 DEF Agreement, SameAmount, StripeKnows, TerminalAgrees, Exists
    <2> QED BY <1>3, <2>1, <2>3, <2>4, RequestRowAgreement DEF RefundCommit, PCs
  <1> QED BY <1>1, <1>2, <1>3

LEMMA SessionAgreement ==
    ASSUME TypeOK, Agreement, NEW r \in Requests,
           Abort(r) \/ SessionStep(r) \/ TTLPasses(r)
    PROVE  Agreement'
  <1> USE DEF tables, pages, stripe
  <1>1. CASE Abort(r)
    BY <1>1, MovesFacts, CallAgreement DEF Abort, TypeOK, PCs
  <1>2. CASE FindSession(r)
    <2>1. PICK pc \in {"insert_session", "done", "error"} : Moves(r, pc)
      BY <1>2 DEF FindSession
    <2> QED BY <1>2, <2>1, MovesFacts, CallAgreement DEF FindSession, TypeOK, PCs
  <1>3. CASE InsertSession(r)
    BY <1>3, MovesFacts, CallAgreement DEF InsertSession, TypeOK, PCs
  <1>4. CASE TTLPasses(r)
    BY <1>4, FrameAgreement DEF TTLPasses
  <1> QED BY <1>1, <1>2, <1>3, <1>4 DEF SessionStep

LEMMA PageAgreement ==
    ASSUME Agreement, NEW v \in Viewers, NEW r \in Requests, PageStep(v, r)
    PROVE  Agreement'
  BY FrameAgreement
     DEF PageStep, ViewSession, ExpireSession, AbortView, tables, pages, stripe

\* A delivery's commit writes the row only if it has staged the capture.
LEMMA CommitAgreement ==
    ASSUME TypeOK, TypeOK', Agreement, NEW d \in Deliveries, NEW event, CommitHook(d, event),
           UNCHANGED <<stripe_pi, stripe_saved, call>>, hook[d].pc # "idle",
           ~hook'[d].capture, \A e \in Deliveries : e # d => hook'[e] = hook[e]
    PROVE  Agreement'
  <1> USE DeliveryType
  <1>1. CASE hook[d].capture
    <2> DEFINE amount == stripe_pi[d.intent].amount
               row == [payment_intents[d.intent] EXCEPT !.status = "succeeded", !.received = amount]
    <2>1. payment_intents' = [payment_intents EXCEPT ![d.intent] = row]
      BY <1>1 DEF CommitHook, Capture
    <2>2. Exists(d.intent) /\ stripe_pi[d.intent].status = "succeeded"
      BY <1>1 DEF Agreement, StripeKnows
    <2>3. payment_intents[d.intent] \in Rows /\ amount \in Nat
      BY DEF TypeOK, StripeObjects
    <2>4. payment_intents[d.intent].amount = amount
      BY <2>2 DEF Agreement, SameAmount
    <2> HIDE DEF amount
    <2>5. /\ row \in Rows /\ row.status = "succeeded"
          /\ row.amount = payment_intents[d.intent].amount
      BY <2>3 DEF Rows, Statuses
    <2> HIDE DEF row
    <2>6. /\ \A q \in Requests : call'[q] = call[q]
          /\ \A e \in Deliveries : /\ hook'[e] = hook[e] \/ ~hook'[e].capture
                                   /\ hook'[e].pc = "idle" \/ hook[e].pc # "idle"
      BY DEF TypeOK
    <2> QED BY <2>1, <2>2, <2>4, <2>5, <2>6, RowAgreement DEF amount
  <1>2. CASE ~hook[d].capture
    <2>1. payment_intents' = payment_intents
      BY <1>2 DEF CommitHook
    <2>2. stripe_pi[d.intent].status = d.type
      BY DEF Agreement, StripeKnows
    <2> QED BY <2>1, <2>2, HookAgreement
  <1> QED BY <1>1, <1>2

LEMMA DeliveryAgreement ==
    ASSUME TypeOK, TypeOK', Agreement, NEW d \in Deliveries, HookStep(d)
    PROVE  Agreement'
  <1> USE DeliveryType DEF tables, pages, stripe
  <1>t. hook \in [Deliveries -> Hooks]
    BY DEF TypeOK
  <1>k. hook[d].pc # "idle" => stripe_pi[d.intent].status = d.type
    BY DEF Agreement, StripeKnows
  <1>c. hook[d].capture => d.type = "succeeded" /\ Exists(d.intent)
    BY DEF Agreement, StripeKnows
  <1>1. CASE Receive(d)
    <2>1. \A e \in Deliveries : e # d => hook'[e] = hook[e]
      BY <1>1, <1>t DEF Receive
    <2>2. ~hook'[d].capture
      BY <1>1, <1>t DEF Receive, Waiting
    <2> QED BY <1>1, <2>1, <2>2, HookAgreement DEF Receive
  <1>2. CASE InsertEvent(d)
    <2>1. CASE HookAt(d, "apply")
      BY <1>2, <1>t, <1>k, <1>c, <2>1, HookAtFacts, HookAgreement DEF InsertEvent
    <2>2. CASE hook' = [hook EXCEPT ![d] = Waiting]
      BY <1>2, <1>t, <2>2, HookAgreement DEF InsertEvent, Waiting
    <2> QED BY <1>2, <2>1, <2>2 DEF InsertEvent
  <1>3. CASE Apply(d)
    BY <1>3, <1>t, <1>k, <1>c, ApplyFacts, HookAgreement DEF Apply
  <1>4. CASE FindSessionOfEvent(d)
    BY <1>4, <1>t, <1>k, <1>c, FindSessionOfEventFacts, HookAgreement DEF FindSessionOfEvent
  <1>5. CASE CompleteSession(d)
    <2>1. ~hook'[d].capture /\ \A e \in Deliveries : e # d => hook'[e] = hook[e]
      BY <1>5, <1>t DEF CompleteSession, Waiting
    <2> QED BY <1>5, <2>1, CommitAgreement DEF CompleteSession
  <1>6. CASE Finish(d)
    <2>1. ~hook'[d].capture /\ \A e \in Deliveries : e # d => hook'[e] = hook[e]
      BY <1>6, <1>t DEF Finish, Waiting
    <2> QED BY <1>6, <2>1, CommitAgreement DEF Finish
  <1>7. CASE AbortHook(d)
    <2>1. /\ ~hook'[d].capture /\ hook'[d].pc = "idle"
          /\ \A e \in Deliveries : e # d => hook'[e] = hook[e]
      BY <1>7, <1>t DEF AbortHook, Waiting
    <2> QED BY <1>7, <2>1, HookAgreement DEF AbortHook
  <1> QED BY <1>1, <1>2, <1>3, <1>4, <1>5, <1>6, <1>7 DEF HookStep

LEMMA InitAgreement == Init => Agreement
  BY RequestType DEF Init, StateInit, Agreement, StripeKnows, TerminalAgrees, SameAmount, Exists,
     NoRow, Idle, Waiting

LEMMA NextAgreement ==
    ASSUME TypeOK, CallsOK, TypeOK', Agreement, [Next]_vars
    PROVE  Agreement'
  <1>1. ASSUME NEW r \in Requests, RequestStep(r)
        PROVE  Agreement'
    BY <1>1, CreateAgreement, ConfirmAgreement, CancelAgreement, RefundAgreement, SessionAgreement
       DEF RequestStep, PaymentStep
  <1>2. CASE UNCHANGED vars
    BY <1>2, FrameAgreement DEF vars, tables, stripe
  <1> QED BY <1>1, <1>2, PageAgreement, DeliveryAgreement, StripeAgreement DEF Next

-----------------------------------------------------------------------------
(* Refunds stay within what was received.                                  *)

RefundSafety == RefundsFit /\ RefundWithinReceived

\* A row is written, its received amount for the first time or not at all.
LEMMA RowRefunds ==
    ASSUME TypeOK, CallsOK, RefundSafety, NEW k \in Intents, NEW row \in Rows,
           payment_intents' = [payment_intents EXCEPT ![k] = row],
           row.status # "absent", row.received \in {0, row.amount},
           row.refunded <= row.received,
           payment_intents[k].received > 0 => row.received = payment_intents[k].received,
           \A q \in Requests : call'[q] = call[q] \/ call'[q].pc \notin {"stripe", "commit"}
    PROVE  RefundSafety'
  <1>1. payment_intents'[k] = row
        /\ \A j \in Intents : j # k => payment_intents'[j] = payment_intents[j]
    BY DEF TypeOK
  <1>2. \A j \in Intents :
            /\ payment_intents'[j].received \in {0, payment_intents'[j].amount}
            /\ payment_intents'[j].status = "absent" => payment_intents'[j] = NoRow
            /\ payment_intents'[j].refunded <= payment_intents'[j].received
    BY <1>1 DEF RefundSafety, RefundsFit, RefundWithinReceived, Exists
  <1>3. \A q \in Requests :
            call'[q].pc \in {"stripe", "commit"} /\ q.op = "refund" =>
                call'[q].seen.received = payment_intents'[q.intent].received
    <2> SUFFICES ASSUME NEW q \in Requests, call'[q].pc \in {"stripe", "commit"}, q.op = "refund"
                 PROVE  call'[q].seen.received = payment_intents'[q.intent].received
      OBVIOUS
    <2>1. call'[q] = call[q]
      OBVIOUS
    <2>2. MayRefund(q, call[q].seen) /\ call[q].seen \in Rows
      BY <2>1 DEF CallsOK, TypeOK, Calls
    <2>3. call[q].seen.received > 0
      BY <2>2 DEF MayRefund, Refundable, Rows
    <2>4. call[q].seen.received = payment_intents[q.intent].received
      BY <2>1 DEF RefundSafety, RefundsFit
    <2> QED BY <1>1, <2>1, <2>3, <2>4, RequestType
  <1> QED BY <1>2, <1>3 DEF RefundSafety, RefundsFit, RefundWithinReceived, Exists

\* No row is written, and a request has just loaded its row or goes on with it.
LEMMA CallRefunds ==
    ASSUME RefundSafety, payment_intents' = payment_intents,
           \A q \in Requests :
               \/ call'[q].pc \notin {"stripe", "commit"}
               \/ call'[q].seen = payment_intents[q.intent]
               \/ call'[q].seen = call[q].seen /\ call[q].pc \in {"stripe", "commit"}
    PROVE  RefundSafety'
  BY DEF RefundSafety, RefundsFit, RefundWithinReceived, Exists

LEMMA MovesRefunds ==
    ASSUME TypeOK, RefundSafety, payment_intents' = payment_intents,
           NEW r \in Requests, NEW pc \in PCs, Moves(r, pc),
           pc \in {"stripe", "commit"} => r.op # "refund"
    PROVE  RefundSafety'
  <1>1. \A q \in Requests : q # r => call'[q] = call[q]
    BY MovesFacts DEF TypeOK
  <1>2. call'[r].pc = pc
    BY MovesFacts DEF TypeOK
  <1> QED BY <1>1, <1>2 DEF RefundSafety, RefundsFit, RefundWithinReceived, Exists

LEMMA LoadsRefunds ==
    ASSUME TypeOK, RefundSafety, payment_intents' = payment_intents,
           NEW r \in Requests, Loads(r, "stripe")
    PROVE  RefundSafety'
  <1>1. /\ call'[r].seen = payment_intents[r.intent]
        /\ \A q \in Requests : q # r => call'[q] = call[q]
    BY LoadsFacts DEF TypeOK
  <1> QED BY <1>1, CallRefunds

LEMMA AnsweredRefunds ==
    ASSUME TypeOK, RefundSafety, payment_intents' = payment_intents,
           NEW r \in Requests, call[r].pc = "stripe", NEW reply \in Replies, Answered(r, reply)
    PROVE  RefundSafety'
  <1>1. /\ call'[r].seen = call[r].seen
        /\ \A q \in Requests : q # r => call'[q] = call[q]
    BY AnsweredFacts DEF TypeOK
  <1> QED BY <1>1, CallRefunds

LEMMA PaymentRefunds ==
    ASSUME TypeOK, CallsOK, Agreement, RefundSafety, NEW r \in Requests, PaymentStep(r)
    PROVE  RefundSafety'
  <1> USE RequestType DEF tables, stripe
  <1>a. payment_intents[r.intent] \in Rows
    BY DEF TypeOK
  <1>b. /\ payment_intents[r.intent].received \in {0, payment_intents[r.intent].amount}
        /\ payment_intents[r.intent].refunded <= payment_intents[r.intent].received
    BY DEF RefundSafety, RefundsFit, RefundWithinReceived
  <1>c. ASSUME NEW pc \in PCs \ {"stripe", "commit"}, Moves(r, pc)
        PROVE  \A q \in Requests : call'[q] = call[q] \/ call'[q].pc \notin {"stripe", "commit"}
    BY <1>c, MovesFacts DEF TypeOK
  <1>1. CASE CreateFind(r)
    <2>1. PICK pc \in PCs : Moves(r, pc)
      BY <1>1 DEF CreateFind, Created, PCs
    <2> QED BY <1>1, <2>1, MovesRefunds DEF CreateFind, Creating
  <1>2. CASE CreateStripe(r) \/ ConfirmStripe(r) \/ CancelStripe(r) \/ RefundStripe(r)
    <2>1. PICK reply \in Replies : Answered(r, reply)
      BY <1>2 DEF CreateStripe, ConfirmStripe, CancelStripe, RefundStripe, Replies, Statuses
    <2> QED BY <1>2, <2>1, AnsweredRefunds
          DEF CreateStripe, ConfirmStripe, CancelStripe, RefundStripe
  <1>3. CASE ConfirmFind(r) \/ CancelFind(r) \/ RefundFind(r)
    <2>1. CASE Loads(r, "stripe")
      BY <1>3, <2>1, LoadsRefunds DEF ConfirmFind, CancelFind, RefundFind
    <2>2. CASE \E pc \in {"done", "error"} : Moves(r, pc)
      BY <1>3, <2>2, MovesRefunds DEF ConfirmFind, CancelFind, RefundFind, PCs
    <2> QED BY <1>3, <2>1, <2>2 DEF ConfirmFind, CancelFind, RefundFind
  <1>4. CASE CreateCommit(r)
    <2>1. PICK pc \in PCs \ {"stripe", "commit"} : Moves(r, pc)
      BY <1>4 DEF CreateCommit, Created, PCs
    <2>2. CASE Exists(r.intent)
      BY <1>4, <2>1, <2>2, MovesRefunds DEF CreateCommit
    <2>3. CASE ~Exists(r.intent)
      <3> DEFINE row == [status |-> call[r].reply, amount |-> r.amount,
                         received |-> 0, refunded |-> 0]
      <3>1. payment_intents' = [payment_intents EXCEPT ![r.intent] = row]
        BY <1>4, <2>3 DEF CreateCommit
      <3>2. row.status = "requires_payment_method"
        BY <1>4 DEF CreateCommit, Agreement, StripeKnows
      <3>3. row \in Rows /\ row.received = 0 /\ row.refunded = 0
        BY <3>2 DEF Rows, Statuses
      <3> HIDE DEF row
      <3>4. payment_intents[r.intent].received = 0
        BY <2>3 DEF RefundSafety, RefundsFit, NoRow
      <3>5. \A q \in Requests : call'[q] = call[q] \/ call'[q].pc \notin {"stripe", "commit"}
        BY <1>c, <2>1
      <3>6. row.received \in {0, row.amount} /\ row.refunded <= row.received
            /\ ~(payment_intents[r.intent].received > 0)
        BY <3>3, <3>4
      <3> QED BY <3>1, <3>2, <3>3, <3>5, <3>6, RowRefunds
    <2> QED BY <2>2, <2>3
  <1>5. CASE ConfirmCommit(r) \/ CancelCommit(r)
    <2>1. PICK status : payment_intents' = [payment_intents EXCEPT ![r.intent].status = status]
      BY <1>5 DEF ConfirmCommit, CancelCommit
    <2> DEFINE old == payment_intents[r.intent]
               row == payment_intents'[r.intent]
    <2>2. /\ row = [old EXCEPT !.status = status]
          /\ payment_intents' = [payment_intents EXCEPT ![r.intent] = row]
      BY <2>1 DEF TypeOK
    <2>3. /\ row.received = old.received /\ row.refunded = old.refunded
          /\ row.amount = old.amount
      BY <1>a, <2>2 DEF Rows
    <2>4. Exists(r.intent) /\ call[r].reply \in Statuses
      BY <1>5 DEF ConfirmCommit, CancelCommit, Agreement, StripeKnows, Creating, CallsOK
    <2>5. row.status # "absent" /\ row \in Rows
      <3>1. CASE ConfirmCommit(r)
        <4>1. row = [old EXCEPT !.status =
                        IF call[r].reply = call[r].seen.status THEN @ ELSE call[r].reply]
          BY <3>1 DEF ConfirmCommit, TypeOK
        <4> HIDE DEF row
        <4> QED BY <1>a, <2>4, <4>1 DEF Exists, Rows, Statuses
      <3>2. CASE CancelCommit(r)
        <4>1. row = [old EXCEPT !.status = call[r].reply]
          BY <3>2 DEF CancelCommit, TypeOK
        <4> HIDE DEF row
        <4> QED BY <1>a, <2>4, <4>1 DEF Rows, Statuses
      <3> QED BY <1>5, <3>1, <3>2
    <2>6. \A q \in Requests : call'[q] = call[q] \/ call'[q].pc \notin {"stripe", "commit"}
      BY <1>5, <1>c DEF ConfirmCommit, CancelCommit, PCs
    <2> HIDE DEF row
    <2> QED BY <1>b, <2>2, <2>3, <2>5, <2>6, RowRefunds
  <1>6. CASE RefundCommit(r)
    <2> DEFINE seen == call[r].seen
               amount == RefundAmount(r, seen)
               total == seen.refunded + amount
               row == [payment_intents[r.intent] EXCEPT !.refunded = total]
    <2>1. payment_intents' = [payment_intents EXCEPT ![r.intent] = row]
      BY <1>6 DEF RefundCommit
    <2>2. MayRefund(r, seen) /\ seen \in Rows
      BY <1>6 DEF RefundCommit, CallsOK, TypeOK, Calls
    <2>3. seen.received = payment_intents[r.intent].received /\ Exists(r.intent)
      BY <1>6 DEF RefundCommit, RefundSafety, RefundsFit, Agreement, StripeKnows, Creating
    <2>4. total \in Nat /\ total <= seen.received
      BY <2>2, RefundAmountType DEF MayRefund, Refundable, Rows
    <2> HIDE DEF total
    <2>5. /\ row \in Rows /\ row.refunded = total
          /\ row.status = payment_intents[r.intent].status
          /\ row.amount = payment_intents[r.intent].amount
          /\ row.received = payment_intents[r.intent].received
      BY <1>a, <2>4 DEF Rows
    <2> HIDE DEF row
    <2>6. \A q \in Requests : call'[q] = call[q] \/ call'[q].pc \notin {"stripe", "commit"}
      BY <1>6, <1>c DEF RefundCommit, PCs
    <2> QED BY <1>b, <2>1, <2>3, <2>4, <2>5, <2>6, RowRefunds DEF Exists
  <1>7. CASE Abort(r)
    BY <1>7, MovesRefunds DEF Abort, PCs
  <1> QED BY <1>1, <1>2, <1>3, <1>4, <1>5, <1>6, <1>7 DEF PaymentStep

LEMMA FrameRefunds ==
    ASSUME RefundSafety, UNCHANGED <<payment_intents, call>>
    PROVE  RefundSafety'
  BY DEF RefundSafety, RefundsFit, RefundWithinReceived, Exists

LEMMA CommitRefunds ==
    ASSUME TypeOK, CallsOK, Agreement, RefundSafety, call' = call,
           NEW d \in Deliveries, NEW event, CommitHook(d, event)
    PROVE  RefundSafety'
  <1> USE DeliveryType
  <1>1. CASE hook[d].capture
    <2> DEFINE old == payment_intents[d.intent]
               amount == stripe_pi[d.intent].amount
               row == [old EXCEPT !.status = "succeeded", !.received = amount]
    <2>1. payment_intents' = [payment_intents EXCEPT ![d.intent] = row]
      BY <1>1 DEF CommitHook, Capture
    <2>2. old.amount = amount
      BY <1>1 DEF Agreement, StripeKnows, SameAmount
    <2>3. old \in Rows /\ amount \in Nat
      BY DEF TypeOK, StripeObjects
    <2>4. old.received \in {0, old.amount} /\ old.refunded <= old.received
      BY DEF RefundSafety, RefundsFit, RefundWithinReceived
    <2> HIDE DEF amount, old
    <2>5. /\ row \in Rows /\ row.status = "succeeded" /\ row.amount = old.amount
          /\ row.received = amount /\ row.refunded = old.refunded
      BY <2>3 DEF Rows, Statuses
    <2> HIDE DEF row
    <2>6. row.refunded <= row.received /\ (old.received > 0 => row.received = old.received)
      BY <2>2, <2>3, <2>4, <2>5 DEF Rows
    <2> QED BY <2>1, <2>2, <2>5, <2>6, RowRefunds DEF old
  <1>2. CASE ~hook[d].capture
    BY <1>2, FrameRefunds DEF CommitHook
  <1> QED BY <1>1, <1>2

LEMMA NextRefunds ==
    ASSUME TypeOK, CallsOK, Agreement, RefundSafety, [Next]_vars
    PROVE  RefundSafety'
  <1> USE DEF tables, pages, stripe
  <1>1. ASSUME NEW r \in Requests, SessionStep(r) \/ TTLPasses(r)
        PROVE  RefundSafety'
    <2>1. CASE SessionStep(r)
      <3>1. PICK pc \in PCs \ {"stripe", "commit"} : Moves(r, pc)
        BY <2>1 DEF SessionStep, FindSession, InsertSession, PCs
      <3> QED BY <2>1, <3>1, MovesRefunds DEF SessionStep, FindSession, InsertSession
    <2>2. CASE TTLPasses(r)
      BY <2>2, FrameRefunds DEF TTLPasses
    <2> QED BY <1>1, <2>1, <2>2
  <1>2. ASSUME NEW v \in Viewers, NEW r \in Requests, PageStep(v, r)
        PROVE  RefundSafety'
    BY <1>2, FrameRefunds DEF PageStep, ViewSession, ExpireSession, AbortView
  <1>3. ASSUME NEW d \in Deliveries, HookStep(d)
        PROVE  RefundSafety'
    <2>1. CASE CompleteSession(d) \/ Finish(d)
      BY <2>1, CommitRefunds DEF CompleteSession, Finish
    <2>2. CASE ~(CompleteSession(d) \/ Finish(d))
      BY <1>3, <2>2, FrameRefunds
         DEF HookStep, Receive, InsertEvent, Apply, FindSessionOfEvent, AbortHook
    <2> QED BY <2>1, <2>2
  <1>4. CASE StripeNext
    BY <1>4, FrameRefunds DEF StripeNext, CustomerPays, Settle, PaidElsewhere
  <1>5. CASE UNCHANGED vars
    BY <1>5, FrameRefunds DEF vars
  <1> QED BY <1>1, <1>2, <1>3, <1>4, <1>5, PaymentRefunds DEF Next, RequestStep

-----------------------------------------------------------------------------
\* The inductive invariant: the types, what is known of Stripe, and the refunds.
THEOREM Invariant == Spec => []IInv
  <1>1. Init => IInv
    BY InitTypes, InitAgreement, RequestType
       DEF Init, StateInit, IInv, Agreement, RefundsFit, RefundWithinReceived, NoRow, Idle
  <1>2. IInv /\ [Next]_vars => IInv'
    BY NextTypes, NextAgreement, NextRefunds DEF IInv, Agreement, RefundSafety
  <1> QED BY <1>1, <1>2, PTL DEF Spec

\* In no interleaving does a row say succeeded or canceled of a payment of
\* which Stripe says something else: neither a stale or replayed answer, nor a
\* late webhook, nor a crash between Stripe and the commit can do it.
THEOREM TerminalStatusesAgree == Spec => []TerminalAgrees
  <1>1. IInv => TerminalAgrees
    BY DEF IInv
  <1> QED BY <1>1, Invariant, PTL

\* The row that wins a race of creates asks for what Stripe will collect.
THEOREM AmountsAgree == Spec => []SameAmount
  <1>1. IInv => SameAmount
    BY DEF IInv
  <1> QED BY <1>1, Invariant, PTL

\* However many refunds race or are resent, a row never records more refunded
\* than received.
THEOREM RefundsStayWithinReceived == Spec => []RefundWithinReceived
  <1>1. IInv => RefundWithinReceived
    BY DEF IInv
  <1> QED BY <1>1, Invariant, PTL

-----------------------------------------------------------------------------
(* An intent is accrued once.                                              *)

\* What a transfer does to the account of the accruals.
LEMMA TransferFacts ==
    ASSUME NEW b \in Books, NEW x \in Accounts, NEW y \in Accounts, NEW n \in Int, x # y
    PROVE  /\ x = "customer_pending" => Transfer(b, x, y, n)["customer_pending"]
                                            = b["customer_pending"] - n
           /\ y = "customer_pending" => Transfer(b, x, y, n)["customer_pending"]
                                            = b["customer_pending"] + n
           /\ x # "customer_pending" /\ y # "customer_pending" =>
                  Transfer(b, x, y, n)["customer_pending"] = b["customer_pending"]
  BY DEF Transfer, Books, Accounts

\* A row and its books are written, and the books still cover the amount.
LEMMA BooksAccrued ==
    ASSUME TypeOK, AccruedOnce, NEW k \in Intents, NEW row \in Rows, NEW books \in Books,
           payment_intents' = [payment_intents EXCEPT ![k] = row],
           ledger' = [ledger EXCEPT ![k] = books],
           books["customer_pending"] >= - row.amount
    PROVE  AccruedOnce'
  BY DEF TypeOK, AccruedOnce

LEMMA FrameAccrued ==
    ASSUME AccruedOnce, UNCHANGED <<payment_intents, ledger>>
    PROVE  AccruedOnce'
  BY DEF AccruedOnce

LEMMA PaymentAccrued ==
    ASSUME IInv, AccruedOnce, NEW r \in Requests, PaymentStep(r)
    PROVE  AccruedOnce'
  <1> USE RequestType DEF tables
  <1> DEFINE k == r.intent
             old == payment_intents[k]
             books == ledger[k]
             seen == call[r].seen
  <1>a. /\ TypeOK /\ old \in Rows /\ books \in Books /\ seen \in Rows
        /\ books["customer_pending"] \in Int
        /\ books["customer_pending"] >= - old.amount
    BY DEF IInv, TypeOK, Calls, AccruedOnce, Books, Accounts
  <1>1. CASE CreateCommit(r)
    <2>1. CASE Exists(k)
      BY <1>1, <2>1, FrameAccrued DEF CreateCommit
    <2>2. CASE ~Exists(k)
      <3> DEFINE amount == r.amount
                 row == [status |-> call[r].reply, amount |-> amount,
                         received |-> 0, refunded |-> 0]
                 new == Transfer(books, "customer_pending", "payments_authorised", amount)
      <3>1. payment_intents' = [payment_intents EXCEPT ![k] = row]
            /\ ledger' = [ledger EXCEPT ![k] = new] /\ amount \in Nat
        BY <1>1, <2>2 DEF CreateCommit
      <3>2. row \in Rows /\ row.amount = amount
        BY <1>1 DEF CreateCommit, IInv, CallsOK, Creating, Rows
      <3>3. new \in Books /\ new["customer_pending"] = books["customer_pending"] - amount
        <4>1. books \in Books /\ amount \in Int
          BY <1>a, <3>1
        <4> HIDE DEF row, books, amount
        <4> QED BY ONLY <4>1, TransferType, TransferFacts DEF Accounts
      <3>4. old.amount = 0
        BY <2>2 DEF IInv, RefundsFit, NoRow
      <3> HIDE DEF row, new, amount
      <3>5. new["customer_pending"] >= - row.amount
        BY <1>a, <3>1, <3>2, <3>3, <3>4
      <3> QED BY <1>a, <3>1, <3>2, <3>3, <3>5, BooksAccrued
    <2> QED BY <2>1, <2>2
  <1>2. CASE ConfirmCommit(r)
    <2>1. \A j \in Intents : payment_intents'[j].amount = payment_intents[j].amount
      BY <1>2, <1>a DEF ConfirmCommit, TypeOK, Rows
    <2> QED BY <1>2, <2>1 DEF ConfirmCommit, AccruedOnce
  <1>3. CASE CancelCommit(r)
    <2> DEFINE row == [old EXCEPT !.status = call[r].reply]
               amount == seen.amount
               new == Transfer(books, "payments_authorised", "customer_pending", amount)
    <2>1. payment_intents' = [payment_intents EXCEPT ![k] = row]
          /\ ledger' = [ledger EXCEPT ![k] = new]
      BY <1>3 DEF CancelCommit
    <2>2. row \in Rows /\ row.amount = old.amount
      BY <1>3, <1>a DEF CancelCommit, IInv, CallsOK, Rows
    <2>3. amount \in Nat
      BY <1>a DEF Rows
    <2>4. new \in Books /\ new["customer_pending"] = books["customer_pending"] + amount
      <3>1. books \in Books /\ amount \in Int
        BY <1>a, <2>3
      <3> HIDE DEF row, books, amount
      <3> QED BY ONLY <3>1, TransferType, TransferFacts DEF Accounts
    <2>5. old.amount \in Nat
      BY <1>a DEF Rows
    <2> HIDE DEF row, new, amount
    <2>6. new["customer_pending"] >= - row.amount
      BY <1>a, <2>2, <2>3, <2>4, <2>5
    <2> QED BY <1>a, <2>1, <2>2, <2>4, <2>6, BooksAccrued
  <1>4. CASE RefundCommit(r)
    <2> DEFINE amount == RefundAmount(r, seen)
               total == seen.refunded + amount
               row == [old EXCEPT !.refunded = total]
               new == Transfer(books, "payments_captured", "customer", amount)
    <2>1. payment_intents' = [payment_intents EXCEPT ![k] = row]
          /\ ledger' = [ledger EXCEPT ![k] = new]
      BY <1>4 DEF RefundCommit
    <2>2. amount \in Nat /\ total \in Nat
      BY <1>4, <1>a, RefundAmountType DEF RefundCommit, IInv, CallsOK, Rows
    <2> HIDE DEF total, amount
    <2>3. row \in Rows /\ row.amount = old.amount
      BY <1>a, <2>2 DEF Rows
    <2>4. new \in Books /\ new["customer_pending"] = books["customer_pending"]
      <3>1. books \in Books /\ amount \in Int
        BY <1>a, <2>2
      <3> HIDE DEF row, books
      <3> QED BY ONLY <3>1, TransferType, TransferFacts DEF Accounts
    <2> HIDE DEF row, new
    <2> QED BY <1>a, <2>1, <2>3, <2>4, BooksAccrued
  <1>5. CASE ~(CreateCommit(r) \/ ConfirmCommit(r) \/ CancelCommit(r) \/ RefundCommit(r))
    BY <1>5, FrameAccrued
       DEF PaymentStep, CreateFind, CreateStripe, ConfirmFind, ConfirmStripe,
           CancelFind, CancelStripe, RefundFind, RefundStripe, Abort
  <1> QED BY <1>1, <1>2, <1>3, <1>4, <1>5

LEMMA CommitAccrued ==
    ASSUME IInv, AccruedOnce, NEW d \in Deliveries, NEW event, CommitHook(d, event)
    PROVE  AccruedOnce'
  <1> USE DeliveryType
  <1>1. CASE hook[d].capture
    <2> DEFINE old == payment_intents[d.intent]
               books == ledger[d.intent]
               amount == stripe_pi[d.intent].amount
               row == [old EXCEPT !.status = "succeeded", !.received = amount]
               new == Transfer(books, "payments_authorised", "payments_captured", amount)
    <2>1. payment_intents' = [payment_intents EXCEPT ![d.intent] = row]
          /\ ledger' = [ledger EXCEPT ![d.intent] = new]
      BY <1>1 DEF CommitHook, Capture
    <2>2. TypeOK /\ old \in Rows /\ books \in Books /\ amount \in Nat
      BY DEF IInv, TypeOK, StripeObjects
    <2>3. books["customer_pending"] >= - old.amount
      BY DEF AccruedOnce
    <2> HIDE DEF old, books, amount
    <2>4. row \in Rows /\ row.amount = old.amount
      BY <2>2 DEF Rows, Statuses
    <2>5. new \in Books /\ new["customer_pending"] = books["customer_pending"]
      BY <2>2, TransferType, TransferFacts DEF Accounts
    <2> HIDE DEF row, new
    <2> QED BY <2>1, <2>2, <2>3, <2>4, <2>5, BooksAccrued
  <1>2. CASE ~hook[d].capture
    BY <1>2, FrameAccrued DEF CommitHook
  <1> QED BY <1>1, <1>2

LEMMA NextAccrued ==
    ASSUME IInv, AccruedOnce, [Next]_vars
    PROVE  AccruedOnce'
  <1> USE DEF tables, pages, stripe
  <1>1. ASSUME NEW r \in Requests, SessionStep(r) \/ TTLPasses(r)
        PROVE  AccruedOnce'
    BY <1>1, FrameAccrued DEF SessionStep, FindSession, InsertSession, TTLPasses
  <1>2. ASSUME NEW v \in Viewers, NEW r \in Requests, PageStep(v, r)
        PROVE  AccruedOnce'
    BY <1>2, FrameAccrued DEF PageStep, ViewSession, ExpireSession, AbortView
  <1>3. ASSUME NEW d \in Deliveries, HookStep(d)
        PROVE  AccruedOnce'
    <2>1. CASE CompleteSession(d) \/ Finish(d)
      BY <2>1, CommitAccrued DEF CompleteSession, Finish
    <2>2. CASE ~(CompleteSession(d) \/ Finish(d))
      BY <1>3, <2>2, FrameAccrued
         DEF HookStep, Receive, InsertEvent, Apply, FindSessionOfEvent, AbortHook
    <2> QED BY <2>1, <2>2
  <1>4. CASE StripeNext
    BY <1>4, FrameAccrued DEF StripeNext, CustomerPays, Settle, PaidElsewhere
  <1>5. CASE UNCHANGED vars
    BY <1>5, FrameAccrued DEF vars
  <1> QED BY <1>1, <1>2, <1>3, <1>4, <1>5, PaymentAccrued DEF Next, RequestStep

\* However many creates with one key race, or are resent after a crash between
\* Stripe and the commit, the accruals of an intent, net of reversals, never
\* exceed the amount of its row.
THEOREM AccrualsAreOnce == Spec => []AccruedOnce
  <1>1. Init => AccruedOnce
    BY DEF Init, StateInit, AccruedOnce, NoRow, EmptyBooks, Accounts
  <1>2. IInv /\ AccruedOnce /\ [Next]_vars => AccruedOnce'
    BY NextAccrued
  <1> QED BY <1>1, <1>2, Invariant, PTL DEF Spec
=============================================================================
