------------------------- MODULE GatewayRefinement -------------------------
(***************************************************************************)
(* Gateway implements Postings, for every set of intents, requests,        *)
(* deliveries and viewers and with or without the clients' discipline: a   *)
(* step of any handler is one posting, or leaves rows and books alone.     *)
(* Then, that the refunds it posts are refunds Stripe has made.            *)
(***************************************************************************)
EXTENDS GatewayProofs, FiniteSetTheorems

\* Stripe saves no answer to a cancel but that it is done.
CancelsSaved == \A s \in stripe_saved : s.op = "cancel" => s.reply = "canceled"

\* What requests that will post something know, beside IInv: a refund, of the
\* books; a cancel, the amount it takes back and that Stripe has canceled.
PostersKnow ==
    /\ \A r \in Requests :
           r.op = "refund" /\ call[r].pc \in {"stripe", "commit"} =>
               call[r].seen.refunded <= ledger[r.intent]["customer"]
    /\ \A r \in Requests :
           r.op = "cancel" /\ call[r].pc \in {"stripe", "commit"} =>
               call[r].seen.amount = payment_intents[r.intent].amount
    /\ \A r \in Requests : r.op = "cancel" /\ call[r].pc = "commit" => call[r].reply = "canceled"
    /\ CancelsSaved

\* The inductive invariant of the refinement.
RInv == IInv /\ RefundsBooked /\ PostersKnow

\* A step of Postings, or none.
Posting == PostingsOfTables!Next \/ UNCHANGED <<payment_intents, ledger>>

-----------------------------------------------------------------------------
(* Every step is a posting or none.                                        *)

LEMMA RowTypes ==
    ASSUME IInv, NEW k \in Intents
    PROVE  payment_intents[k] \in Rows /\ ledger[k] \in Books
  BY DEF IInv, TypeOK

LEMMA CreatePosts ==
    ASSUME RInv, NEW r \in Requests, CreateCommit(r)
    PROVE  Posting
  <1> USE RequestType
  <1>1. CASE Exists(r.intent)
    BY <1>1 DEF CreateCommit, Posting
  <1>2. CASE ~Exists(r.intent)
    <2>1. /\ call[r].reply \in Statuses
          /\ r.amount \in {q.amount : q \in Requests} \ {0}
      BY DEF CreateCommit, RInv, IInv, CallsOK, Creating
    <2>2. PostingsOfTables!Post(r.intent,
              [status |-> call[r].reply, amount |-> r.amount, received |-> 0, refunded |-> 0],
              "customer_pending", "payments_authorised", r.amount)
      BY <1>2 DEF CreateCommit, PostingsOfTables!Post, PostingsOfTables!Transfer, Transfer
    <2>3. PostingsOfTables!Accrue(r.intent)
      BY <1>2, <2>1, <2>2 DEF PostingsOfTables!Accrue, PostingsOfTables!Recorded, Exists
    <2> QED BY <2>3 DEF Posting, PostingsOfTables!Next
  <1> QED BY <1>1, <1>2

LEMMA ConfirmPosts ==
    ASSUME RInv, NEW r \in Requests, ConfirmCommit(r)
    PROVE  Posting
  <1> USE RequestType
  <1> DEFINE k == r.intent
             status == IF call[r].reply = call[r].seen.status
                       THEN payment_intents[k].status ELSE call[r].reply
  <1>1. Exists(k) /\ call[r].reply \in Statuses
    BY DEF ConfirmCommit, RInv, IInv, StripeKnows, CallsOK, Creating
  <1>2. status \in Statuses
    BY <1>1, RowTypes DEF RInv, Rows, Exists
  <1>3. payment_intents' = [payment_intents EXCEPT ![k].status = status] /\ ledger' = ledger
    BY DEF ConfirmCommit
  <1> HIDE DEF status
  <1>4. PostingsOfTables!SetStatus(k)
    BY <1>1, <1>2, <1>3 DEF PostingsOfTables!SetStatus, PostingsOfTables!Recorded, Exists
  <1> QED BY <1>4 DEF Posting, PostingsOfTables!Next

LEMMA CancelPosts ==
    ASSUME RInv, NEW r \in Requests, CancelCommit(r)
    PROVE  Posting
  <1> USE RequestType
  <1> DEFINE k == r.intent
             row == [payment_intents[k] EXCEPT !.status = "canceled"]
  <1>1. /\ Exists(k) /\ call[r].reply = "canceled"
        /\ call[r].seen.amount = payment_intents[k].amount
    BY DEF CancelCommit, RInv, IInv, StripeKnows, PostersKnow, Creating
  <1>2. payment_intents' = [payment_intents EXCEPT ![k] = row]
    BY <1>1, RowTypes DEF CancelCommit, RInv, IInv, TypeOK, Rows
  <1>3. ledger' = [ledger EXCEPT ![k] = Transfer(ledger[k],
            "payments_authorised", "customer_pending", payment_intents[k].amount)]
    BY <1>1 DEF CancelCommit
  <1>4. PostingsOfTables!Reverse(k)
    BY <1>1, <1>2, <1>3
       DEF PostingsOfTables!Reverse, PostingsOfTables!Post, PostingsOfTables!Recorded,
           PostingsOfTables!Transfer, Transfer, Exists
  <1> QED BY <1>4 DEF Posting, PostingsOfTables!Next

LEMMA RefundPosts ==
    ASSUME RInv, NEW r \in Requests, RefundCommit(r)
    PROVE  Posting
  <1> USE RequestType
  <1> DEFINE k == r.intent
             old == payment_intents[k]
             seen == call[r].seen
             n == RefundAmount(r, seen)
             total == seen.refunded + n
             row == [old EXCEPT !.refunded = total]
             inBooks == ledger[k]["customer"]
  <1>1. /\ MayRefund(r, seen) /\ Exists(k) /\ seen.received = old.received
        /\ seen.refunded <= inBooks
    BY DEF RefundCommit, RInv, IInv, CallsOK, StripeKnows, RefundsFit, PostersKnow, Creating
  <1>2. /\ old.received \in Nat /\ seen.received \in Nat /\ seen.refunded \in Nat
        /\ inBooks \in Int /\ seen \in Rows
    BY DEF RInv, IInv, TypeOK, Rows, Calls, Books, Accounts
  <1>3. n \in Int /\ n > 0 /\ n <= seen.received - seen.refunded
    BY <1>1, <1>2, RefundAmountType DEF MayRefund, Refundable
  <1>4. payment_intents' = [payment_intents EXCEPT ![k] = row]
        /\ ledger' = [ledger EXCEPT ![k] = Transfer(ledger[k], "payments_captured", "customer", n)]
    BY DEF RefundCommit
  <1>5. PostingsOfTables!Post(k, row, "payments_captured", "customer", n)
    BY <1>4 DEF PostingsOfTables!Post, PostingsOfTables!Transfer, Transfer
  <1> HIDE DEF n
  <1>6. n \in 1..old.received /\ total \in n..old.received /\ total <= inBooks + n
    BY <1>1, <1>2, <1>3
  <1> HIDE DEF total
  <1>7. PostingsOfTables!Refund(k)
    BY <1>5, <1>6 DEF PostingsOfTables!Refund
  <1> QED BY <1>7 DEF Posting, PostingsOfTables!Next

\* The transaction of a delivery.
LEMMA CommitPosts ==
    ASSUME RInv, NEW d \in Deliveries, NEW event, CommitHook(d, event)
    PROVE  Posting
  <1> USE DeliveryType
  <1>1. CASE hook[d].capture
    <2> DEFINE k == d.intent
               row == [payment_intents[k] EXCEPT !.status = "succeeded",
                                                 !.received = payment_intents[k].amount]
    <2>1. Exists(k) /\ payment_intents[k].amount = stripe_pi[k].amount
      BY <1>1 DEF RInv, IInv, StripeKnows, SameAmount
    <2>2. payment_intents' = [payment_intents EXCEPT ![k] = row]
          /\ ledger' = [ledger EXCEPT ![k] = Transfer(ledger[k],
                 "payments_authorised", "payments_captured", payment_intents[k].amount)]
      BY <1>1, <2>1 DEF CommitHook, Capture
    <2>3. PostingsOfTables!Capture(k)
      BY <2>1, <2>2
         DEF PostingsOfTables!Capture, PostingsOfTables!Post, PostingsOfTables!Recorded,
             PostingsOfTables!Transfer, Transfer, Exists
    <2> QED BY <2>3 DEF Posting, PostingsOfTables!Next
  <1>2. CASE ~hook[d].capture
    BY <1>2 DEF CommitHook, Posting
  <1> QED BY <1>1, <1>2

LEMMA NextPosts ==
    ASSUME RInv, [Next]_vars
    PROVE  Posting
  <1> USE DEF tables, pages, stripe
  <1>1. ASSUME NEW r \in Requests, RequestStep(r)
        PROVE  Posting
    <2>1. CASE CreateCommit(r) \/ ConfirmCommit(r) \/ CancelCommit(r) \/ RefundCommit(r)
      BY <2>1, CreatePosts, ConfirmPosts, CancelPosts, RefundPosts
    <2>2. CASE ~(CreateCommit(r) \/ ConfirmCommit(r) \/ CancelCommit(r) \/ RefundCommit(r))
      BY <1>1, <2>2
         DEF RequestStep, PaymentStep, CreateFind, CreateStripe, ConfirmFind, ConfirmStripe,
             CancelFind, CancelStripe, RefundFind, RefundStripe, Abort, SessionStep,
             FindSession, InsertSession, TTLPasses, Posting
    <2> QED BY <2>1, <2>2
  <1>2. ASSUME NEW v \in Viewers, NEW r \in Requests, PageStep(v, r)
        PROVE  Posting
    BY <1>2 DEF PageStep, ViewSession, ExpireSession, AbortView, Posting
  <1>3. ASSUME NEW d \in Deliveries, HookStep(d)
        PROVE  Posting
    <2>1. CASE CompleteSession(d) \/ Finish(d)
      BY <2>1, CommitPosts DEF CompleteSession, Finish
    <2>2. CASE ~(CompleteSession(d) \/ Finish(d))
      BY <1>3, <2>2
         DEF HookStep, Receive, InsertEvent, Apply, FindSessionOfEvent, AbortHook, Posting
    <2> QED BY <2>1, <2>2
  <1>4. CASE StripeNext
    BY <1>4 DEF StripeNext, CustomerPays, Settle, PaidElsewhere, Posting
  <1>5. CASE UNCHANGED vars
    BY <1>5 DEF vars, Posting
  <1> QED BY <1>1, <1>2, <1>3, <1>4, <1>5 DEF Next

-----------------------------------------------------------------------------
(* What a posting does for those who wait for the next one.                *)

\* The refunds in the books and the amount of a row stay, or only grow.
Kept ==
    \A k \in Intents :
        /\ ledger[k]["customer"] <= ledger'[k]["customer"]
        /\ Exists(k) => payment_intents'[k].amount = payment_intents[k].amount

LEMMA BooksAfter ==
    ASSUME NEW b \in Books, NEW x \in Accounts \ {"customer"}, NEW y \in Accounts \ {x},
           NEW n \in Nat
    PROVE  Transfer(b, x, y, n)["customer"] =
               IF y = "customer" THEN b["customer"] + n ELSE b["customer"]
  BY DEF Transfer, Books, Accounts

LEMMA PostKeeps ==
    ASSUME TypeOK, RefundsBooked, NEW k \in Intents, NEW row,
           NEW x \in Accounts \ {"customer"}, NEW y \in Accounts \ {x}, NEW n \in Nat,
           PostingsOfTables!Post(k, row, x, y, n),
           row.refunded \in Nat, Exists(k) => row.amount = payment_intents[k].amount,
           IF y = "customer" THEN row.refunded <= ledger[k]["customer"] + n
                             ELSE row.refunded <= ledger[k]["customer"]
    PROVE  RefundsBooked' /\ Kept
  <1> DEFINE new == Transfer(ledger[k], x, y, n)
  <1>1. /\ payment_intents' = [payment_intents EXCEPT ![k] = row]
        /\ ledger' = [ledger EXCEPT ![k] = new]
    BY DEF PostingsOfTables!Post, PostingsOfTables!Transfer, Transfer
  <1>2. /\ \A j \in Intents : ledger[j] \in Books /\ ledger[j]["customer"] \in Int
        /\ DOMAIN ledger = Intents /\ DOMAIN payment_intents = Intents
    BY DEF TypeOK, Books, Accounts
  <1>3. new["customer"] = IF y = "customer" THEN ledger[k]["customer"] + n ELSE ledger[k]["customer"]
    BY <1>2, BooksAfter
  <1> HIDE DEF new
  <1>4. row.refunded <= new["customer"] /\ ledger[k]["customer"] <= new["customer"]
    BY <1>2, <1>3
  <1>5. \A j \in Intents \ {k} : ledger'[j] = ledger[j] /\ payment_intents'[j] = payment_intents[j]
    BY <1>1, <1>2
  <1>6. ledger'[k] = new /\ payment_intents'[k] = row
    BY <1>1, <1>2
  <1>7. RefundsBooked'
    BY <1>4, <1>5, <1>6 DEF RefundsBooked
  <1>8. Kept
    BY <1>2, <1>4, <1>5, <1>6 DEF Kept
  <1> QED BY <1>7, <1>8

LEMMA PostingKeeps ==
    ASSUME IInv, RefundsBooked, Posting
    PROVE  RefundsBooked' /\ Kept
  <1>0. TypeOK
    BY DEF IInv
  <1> DEFINE old(k) == payment_intents[k]
             inBooks(k) == ledger[k]["customer"]
  <1>a. ASSUME NEW k \in Intents
        PROVE  /\ old(k) \in Rows /\ old(k).amount \in Nat
               /\ old(k).received \in Nat /\ old(k).refunded \in Nat
               /\ inBooks(k) \in Int /\ old(k).refunded <= inBooks(k)
    BY DEF IInv, TypeOK, Rows, Books, Accounts, RefundsBooked
  <1>1. CASE UNCHANGED <<payment_intents, ledger>>
    BY <1>1, <1>a DEF RefundsBooked, Kept
  <1>2. ASSUME NEW k \in Intents, PostingsOfTables!Accrue(k)
        PROVE  RefundsBooked' /\ Kept
    <2>1. PICK amount \in {q.amount : q \in Requests} \ {0}, s \in Statuses :
              PostingsOfTables!Post(k,
                  [status |-> s, amount |-> amount, received |-> 0, refunded |-> 0],
                  "customer_pending", "payments_authorised", amount)
      BY <1>2 DEF PostingsOfTables!Accrue
    <2>2. amount \in Nat
      BY RequestType
    <2>3. ~Exists(k) /\ 0 <= inBooks(k)
      BY <1>2, <1>a DEF PostingsOfTables!Accrue, PostingsOfTables!Recorded, Exists
    <2> DEFINE row == [status |-> s, amount |-> amount, received |-> 0, refunded |-> 0]
    <2>4. row.refunded = 0
      OBVIOUS
    <2>5. PostingsOfTables!Post(k, row, "customer_pending", "payments_authorised", amount)
      BY <2>1
    <2> HIDE DEF row
    <2>6. row.refunded \in Nat /\ row.refunded <= ledger[k]["customer"]
      BY <2>3, <2>4
    <2> HIDE DEF old, inBooks
    <2> QED BY ONLY <1>0, RefundsBooked, <2>2, <2>3, <2>5, <2>6, PostKeeps DEF Accounts
  <1>3. ASSUME NEW k \in Intents, PostingsOfTables!SetStatus(k)
        PROVE  RefundsBooked' /\ Kept
    <2>1. PICK s \in Statuses : payment_intents' = [payment_intents EXCEPT ![k].status = s]
      BY <1>3 DEF PostingsOfTables!SetStatus
    <2>2. ASSUME NEW j \in Intents
          PROVE  /\ payment_intents'[j].amount = old(j).amount
                 /\ payment_intents'[j].refunded = old(j).refunded
      BY <2>1, <1>a, <1>0 DEF TypeOK, Rows
    <2>3. ledger' = ledger
      BY <1>3 DEF PostingsOfTables!SetStatus
    <2> QED BY <2>2, <2>3, <1>a DEF RefundsBooked, Kept
  <1>4. ASSUME NEW k \in Intents, PostingsOfTables!Reverse(k)
        PROVE  RefundsBooked' /\ Kept
    <2> DEFINE row == [old(k) EXCEPT !.status = "canceled"]
               n == old(k).amount
    <2>1. PostingsOfTables!Post(k, row, "payments_authorised", "customer_pending", n)
      BY <1>4 DEF PostingsOfTables!Reverse
    <2>2. row.refunded = old(k).refunded /\ row.amount = old(k).amount
      BY <1>a DEF Rows
    <2>3. n \in Nat
      BY <1>a
    <2> HIDE DEF row, n
    <2> QED BY <1>0, <1>a, <2>1, <2>2, <2>3, PostKeeps DEF Accounts
  <1>5. ASSUME NEW k \in Intents, PostingsOfTables!Capture(k)
        PROVE  RefundsBooked' /\ Kept
    <2> DEFINE row == [old(k) EXCEPT !.status = "succeeded", !.received = old(k).amount]
               n == old(k).amount
    <2>1. PostingsOfTables!Post(k, row, "payments_authorised", "payments_captured", n)
      BY <1>5 DEF PostingsOfTables!Capture
    <2>2. row.refunded = old(k).refunded /\ row.amount = old(k).amount
      BY <1>a DEF Rows
    <2>3. n \in Nat
      BY <1>a
    <2> HIDE DEF row, n
    <2> QED BY <1>0, <1>a, <2>1, <2>2, <2>3, PostKeeps DEF Accounts
  <1>6. ASSUME NEW k \in Intents, PostingsOfTables!Refund(k)
        PROVE  RefundsBooked' /\ Kept
    <2>1. PICK n \in 1..old(k).received : \E total \in n..old(k).received :
              /\ total <= inBooks(k) + n
              /\ PostingsOfTables!Post(k, [old(k) EXCEPT !.refunded = total],
                                       "payments_captured", "customer", n)
      BY <1>6 DEF PostingsOfTables!Refund
    <2>2. PICK total \in n..old(k).received :
              /\ total <= inBooks(k) + n
              /\ PostingsOfTables!Post(k, [old(k) EXCEPT !.refunded = total],
                                       "payments_captured", "customer", n)
      BY <2>1
    <2>3. n \in Nat /\ total \in Nat
      BY <2>1, <2>2, <1>a
    <2> DEFINE row == [old(k) EXCEPT !.refunded = total]
    <2>4. PostingsOfTables!Post(k, row, "payments_captured", "customer", n)
      BY <2>2
    <2>5. row.refunded = total /\ row.amount = old(k).amount
      BY <1>a DEF Rows
    <2> HIDE DEF row
    <2> QED BY <1>0, <2>2, <2>3, <2>4, <2>5, PostKeeps DEF Accounts
  <1> QED BY <1>1, <1>2, <1>3, <1>4, <1>5, <1>6 DEF Posting, PostingsOfTables!Next

-----------------------------------------------------------------------------
(* What posters know stays true until they post.                           *)

\* What r itself knows; the other requests' knowledge is kept by Kept.
Knows(r) ==
    /\ r.op = "refund" /\ call[r].pc \in {"stripe", "commit"} =>
           call[r].seen.refunded <= ledger[r.intent]["customer"]
    /\ r.op = "cancel" /\ call[r].pc \in {"stripe", "commit"} =>
           call[r].seen.amount = payment_intents[r.intent].amount
    /\ r.op = "cancel" /\ call[r].pc = "commit" => call[r].reply = "canceled"

LEMMA OthersKnow ==
    ASSUME IInv, IInv', PostersKnow, Kept, NEW q \in Requests, call'[q] = call[q]
    PROVE  Knows(q)'
  <1> USE RequestType
  <1>1. CASE q.op = "refund" /\ call[q].pc \in {"stripe", "commit"}
    <2> DEFINE n == call[q].seen.refunded
               before == ledger[q.intent]["customer"]
               after == ledger'[q.intent]["customer"]
    <2>1. n \in Int /\ before \in Int /\ after \in Int
      BY DEF IInv, TypeOK, Calls, Rows, Books, Accounts
    <2>2. n <= before /\ before <= after
      BY <1>1 DEF PostersKnow, Kept
    <2>3. call'[q].seen.refunded = n
      OBVIOUS
    <2> HIDE DEF n, before
    <2>4. n <= after
      BY <2>1, <2>2
    <2> QED BY <1>1, <2>3, <2>4 DEF Knows
  <1>2. CASE q.op = "cancel" /\ call[q].pc \in {"stripe", "commit"}
    <2>1. Exists(q.intent)
      BY <1>2 DEF IInv, StripeKnows, Creating
    <2> QED BY <1>2, <2>1 DEF PostersKnow, Kept, Knows
  <1> QED BY <1>1, <1>2 DEF Knows

\* A request that forgets what it had loaded, or is a create or a confirm.
LEMMA MoverKnows ==
    ASSUME TypeOK, NEW r \in Requests, NEW pc \in PCs \ {"stripe", "commit"}, Moves(r, pc)
    PROVE  Knows(r)'
  <1>1. call'[r].pc = pc
    BY MovesFacts DEF TypeOK
  <1> QED BY <1>1 DEF Knows

\* A request that takes a step knows what it will post, or posts nothing more.
LEMMA RequestKnows ==
    ASSUME IInv, IInv', RefundsBooked, PostersKnow, Kept, NEW r \in Requests,
           PaymentStep(r) \/ SessionStep(r)
    PROVE  Knows(r)' /\ (\A q \in Requests \ {r} : call'[q] = call[q])
  <1> USE RequestType DEF tables, pages, stripe
  <1>0. TypeOK
    BY DEF IInv
  <1>1. CASE \E pc \in PCs \ {"stripe", "commit"} : Moves(r, pc)
    BY <1>0, <1>1, MoverKnows, MovesFacts DEF TypeOK
  <1>2. CASE CreateFind(r) \/ CreateStripe(r)
    <2>1. Knows(r)'
      BY <1>2 DEF CreateFind, CreateStripe, Creating, Knows
    <2> QED BY <1>2, <2>1 DEF CreateFind, CreateStripe, Moves, Created, Answered, IInv, TypeOK
  <1>3. CASE ConfirmFind(r) \/ ConfirmStripe(r)
    <2>1. Knows(r)'
      BY <1>3 DEF ConfirmFind, ConfirmStripe, Knows
    <2> QED BY <1>3, <2>1 DEF ConfirmFind, ConfirmStripe, Moves, Loads, Answered, IInv, TypeOK
  <1>4. CASE (CancelFind(r) \/ RefundFind(r)) /\ Loads(r, "stripe")
    <2>1. /\ call'[r].seen = payment_intents[r.intent] /\ call'[r].pc = "stripe"
          /\ \A q \in Requests \ {r} : call'[q] = call[q]
      BY <1>0, <1>4, LoadsFacts DEF TypeOK
    <2>2. UNCHANGED <<payment_intents, ledger>>
      BY <1>4 DEF CancelFind, RefundFind
    <2> QED BY <2>1, <2>2 DEF Knows, RefundsBooked
  <1>5. CASE CancelStripe(r)
    <2>1. PICK reply \in Statuses : CancelAtStripe(r, reply) /\ Answered(r, reply)
      BY <1>5 DEF CancelStripe
    <2>2. reply = "canceled" /\ r.op = "cancel" /\ call[r].pc = "stripe"
      BY <1>5, <2>1 DEF CancelStripe, CancelAtStripe, Replay, PostersKnow, CancelsSaved
    <2>3. /\ call'[r].reply = reply /\ call'[r].seen = call[r].seen
          /\ \A q \in Requests \ {r} : call'[q] = call[q]
      BY <1>0, <2>1, AnsweredFacts DEF TypeOK, Replies
    <2>4. UNCHANGED <<payment_intents, ledger>>
      BY <1>5 DEF CancelStripe
    <2> QED BY <2>2, <2>3, <2>4 DEF Knows, PostersKnow
  <1>6. CASE RefundStripe(r)
    <2>1. /\ call'[r].seen = call[r].seen
          /\ \A q \in Requests \ {r} : call'[q] = call[q]
      BY <1>0, <1>6, AnsweredFacts DEF RefundStripe, TypeOK, Replies
    <2>2. UNCHANGED <<payment_intents, ledger>> /\ r.op = "refund" /\ call[r].pc = "stripe"
      BY <1>6 DEF RefundStripe
    <2> QED BY <2>1, <2>2 DEF Knows, PostersKnow
  <1>7. CASE ~(\E pc \in PCs \ {"stripe", "commit"} : Moves(r, pc))
    <2>1. ~(CreateCommit(r) \/ ConfirmCommit(r) \/ CancelCommit(r) \/ RefundCommit(r)
            \/ Abort(r) \/ SessionStep(r))
      BY <1>7 DEF CreateCommit, ConfirmCommit, CancelCommit, RefundCommit, Abort, SessionStep,
                  FindSession, InsertSession, Created, PCs
    <2>2. CancelFind(r) \/ RefundFind(r) => Loads(r, "stripe")
      BY <1>7 DEF CancelFind, RefundFind, PCs
    <2> QED BY <2>1, <2>2, <1>2, <1>3, <1>4, <1>5, <1>6 DEF PaymentStep
  <1> QED BY <1>1, <1>7

\* An executed call leaves the saved answers of cancels so.
LEMMA ExecuteSaves ==
    ASSUME CancelsSaved, NEW r \in Requests, NEW amount, NEW reply, NEW pi,
           Execute(r, amount, reply, pi), r.op = "cancel" => reply = "canceled"
    PROVE  CancelsSaved'
  <1> DEFINE s == [idem |-> r.idem, op |-> r.op, intent |-> r.intent,
                   amount |-> amount, reply |-> reply]
  <1>1. stripe_saved' = stripe_saved \union {s}
    BY DEF Execute
  <1>2. s.op = "cancel" => s.reply = "canceled"
    OBVIOUS
  <1> HIDE DEF s
  <1> QED BY <1>1, <1>2 DEF CancelsSaved

LEMMA SavedKnow ==
    ASSUME CancelsSaved, NEW r \in Requests, PaymentStep(r) \/ SessionStep(r)
    PROVE  CancelsSaved'
  <1> USE DEF tables, pages, stripe
  <1>1. CASE UNCHANGED stripe_saved
    BY <1>1 DEF CancelsSaved
  <1>2. CASE ConfirmStripe(r) /\ ~UNCHANGED stripe_saved
    <2>1. PICK reply \in Statuses : ConfirmAtStripe(r, reply)
      BY <1>2 DEF ConfirmStripe
    <2>2. Execute(r, 0, reply, [stripe_pi[r.intent] EXCEPT !.status = reply])
      BY <1>2, <2>1 DEF ConfirmAtStripe, Replay
    <2> QED BY <1>2, <2>2, ExecuteSaves DEF ConfirmStripe
  <1>3. CASE CancelStripe(r) /\ ~UNCHANGED stripe_saved
    <2>1. PICK reply \in Statuses : CancelAtStripe(r, reply)
      BY <1>3 DEF CancelStripe
    <2>2. /\ reply = "canceled"
          /\ Execute(r, 0, reply, [stripe_pi[r.intent] EXCEPT !.status = reply])
      BY <1>3, <2>1 DEF CancelAtStripe, Replay
    <2> QED BY <2>2, ExecuteSaves
  <1>4. CASE RefundStripe(r) /\ ~UNCHANGED stripe_saved
    <2> DEFINE amount == RefundAmount(r, call[r].seen)
    <2>1. Execute(r, amount, "none", [stripe_pi[r.intent] EXCEPT !.refunded = @ + amount])
      BY <1>4 DEF RefundStripe, RefundAtStripe, Replay
    <2> QED BY <1>4, <2>1, ExecuteSaves DEF RefundStripe
  <1>5. CASE ~(ConfirmStripe(r) \/ CancelStripe(r) \/ RefundStripe(r))
    <2>1. UNCHANGED stripe_saved
      BY <1>5
         DEF PaymentStep, CreateFind, CreateStripe, CreateAtStripe, CreateCommit, ConfirmFind,
             ConfirmCommit, CancelFind, CancelCommit, RefundFind, RefundCommit, Abort,
             SessionStep, FindSession, InsertSession
    <2> QED BY <1>1, <2>1
  <1> QED BY <1>1, <1>2, <1>3, <1>4, <1>5

LEMMA NextKnows ==
    ASSUME IInv, IInv', RefundsBooked, PostersKnow, Kept, [Next]_vars
    PROVE  PostersKnow'
  <1> USE DEF tables, pages, stripe
  <1>1. ASSUME NEW r \in Requests, PaymentStep(r) \/ SessionStep(r)
        PROVE  PostersKnow'
    <2>1. \A q \in Requests : Knows(q)'
      BY <1>1, RequestKnows, OthersKnow
    <2> QED BY <1>1, <2>1, SavedKnow DEF PostersKnow, Knows
  <1>2. CASE UNCHANGED <<call, stripe_saved>>
    <2>1. \A q \in Requests : Knows(q)'
      BY <1>2, OthersKnow
    <2> QED BY <1>2, <2>1 DEF PostersKnow, CancelsSaved, Knows
  <1>3. ASSUME NEW r \in Requests, TTLPasses(r)
        PROVE  PostersKnow'
    BY <1>2, <1>3 DEF TTLPasses
  <1>4. ASSUME NEW v \in Viewers, NEW r \in Requests, PageStep(v, r)
        PROVE  PostersKnow'
    BY <1>2, <1>4 DEF PageStep, ViewSession, ExpireSession, AbortView
  <1>5. ASSUME NEW d \in Deliveries, HookStep(d)
        PROVE  PostersKnow'
    BY <1>2, <1>5
       DEF HookStep, Receive, InsertEvent, Apply, FindSessionOfEvent, CompleteSession,
           Finish, AbortHook
  <1>6. CASE StripeNext
    BY <1>2, <1>6 DEF StripeNext, CustomerPays, Settle, PaidElsewhere
  <1>7. CASE UNCHANGED vars
    BY <1>2, <1>7 DEF vars
  <1> QED BY <1>1, <1>3, <1>4, <1>5, <1>6, <1>7 DEF Next, RequestStep

-----------------------------------------------------------------------------
LEMMA InitRInv == Init => RInv
  <1>1. Init => IInv
    BY InitTypes, InitAgreement, RequestType
       DEF Init, StateInit, IInv, Agreement, RefundsFit, RefundWithinReceived, NoRow, Idle
  <1>2. Init => RefundsBooked
    BY DEF Init, StateInit, RefundsBooked, NoRow, EmptyBooks, Accounts
  <1>3. Init => PostersKnow
    BY DEF Init, StateInit, PostersKnow, CancelsSaved, Idle
  <1> QED BY <1>1, <1>2, <1>3 DEF RInv

LEMMA NextRInv ==
    ASSUME RInv, [Next]_vars
    PROVE  RInv'
  <1>1. IInv'
    BY NextTypes, NextAgreement, NextRefunds DEF RInv, IInv, Agreement, RefundSafety
  <1>2. RefundsBooked' /\ Kept
    BY NextPosts, PostingKeeps DEF RInv
  <1> QED BY <1>1, <1>2, NextKnows DEF RInv

\* However refunds race or are resent, a row records no refund that the books
\* do not have (refund_intent's lost update loses refunds from the row alone).
THEOREM RefundsAreBooked == Spec => []RefundsBooked
  <1>1. RInv => RefundsBooked
    BY DEF RInv
  <1> QED BY <1>1, InitRInv, NextRInv, PTL DEF Spec

\* Whatever clients and Stripe do, the gateway's tables change by postings: a
\* row and its books together, in the amount the row accounts for.
THEOREM GatewayImplementsPostings == Spec => ImplementsPostings
  <1>1. Init => PostingsOfTables!Init
    BY DEF Init, StateInit, PostingsOfTables!Init, PostingsOfTables!NoPayment, NoRow,
           PostingsOfTables!EmptyBooks, PostingsOfTables!Accounts, EmptyBooks, Accounts
  <1>2. RInv /\ [Next]_vars => [PostingsOfTables!Next]_<<payment_intents, ledger>>
    BY NextPosts DEF Posting
  <1> QED BY <1>1, <1>2, InitRInv, NextRInv, PTL
        DEF Spec, ImplementsPostings, PostingsOfTables!Spec, PostingsOfTables!postings

-----------------------------------------------------------------------------
(* Refunds in the books are refunds Stripe has made, however the refunds   *)
(* of an intent race with one another and with its other calls, as long as *)
(* no two of them have the same key.                                       *)
(*                                                                         *)
(* Amounts are compared by counting.  A saved answer to a refund of n is   *)
(* split into n coins; the coins of an intent's saved answers are at most  *)
(* what its object says was refunded, and those whose request is done are  *)
(* at least what the books say was.                                        *)

DistinctRefundKeys ==
    \A r, q \in Requests :
        r.op = "refund" /\ q.op = "refund" /\ r.intent = q.intent /\ r.idem = q.idem => r = q

Coins(S) == UNION {{s} \X (1 .. s.amount) : s \in S}

\* The refunds of k Stripe has made, and those of them whose request is done.
Refunds(k) == {s \in stripe_saved : s.op = "refund" /\ s.intent = k}

Booked(k) ==
    {s \in Refunds(k) : \E r \in Requests :
         r.op = "refund" /\ r.intent = k /\ r.idem = s.idem /\ call[r].pc = "done"}

\* What Stripe has saved of a refund that is going to be committed.
AnswerTo(r) ==
    [idem |-> r.idem, op |-> r.op, intent |-> r.intent,
     amount |-> RefundAmount(r, call[r].seen), reply |-> "none"]

RefundsKnown ==
    /\ \A s \in stripe_saved : s.op = "refund" => stripe_pi[s.intent].status # "absent"
    /\ \A r \in Requests : r.op = "refund" /\ call[r].pc = "commit" => AnswerTo(r) \in stripe_saved
    /\ \A k \in Intents :
           /\ IsFiniteSet(Coins(Refunds(k)))
           /\ Cardinality(Coins(Refunds(k))) <= stripe_pi[k].refunded
           /\ ledger[k]["customer"] <= Cardinality(Coins(Booked(k)))

-----------------------------------------------------------------------------
(* Counting coins.                                                         *)

LEMMA CoinsAre ==
    ASSUME NEW S, NEW c
    PROVE  c \in Coins(S) <=> \E s \in S : \E i \in 1 .. s.amount : c = <<s, i>>
  BY DEF Coins

LEMMA CoinsGrow ==
    ASSUME NEW T, NEW S \in SUBSET T, IsFiniteSet(Coins(T))
    PROVE  /\ IsFiniteSet(Coins(S))
           /\ Cardinality(Coins(S)) \in Nat /\ Cardinality(Coins(T)) \in Nat
           /\ Cardinality(Coins(S)) <= Cardinality(Coins(T))
  <1>1. Coins(S) \subseteq Coins(T)
    BY CoinsAre
  <1> QED BY <1>1, FS_Subset, FS_CardinalityType

\* A new answer adds as many coins as its amount.
LEMMA CoinsAdded ==
    ASSUME NEW S, IsFiniteSet(Coins(S)), NEW s, s.amount \in Nat
    PROVE  /\ IsFiniteSet(Coins(S \union {s}))
           /\ Cardinality(Coins(S)) \in Nat /\ Cardinality(Coins(S \union {s})) \in Nat
           /\ Cardinality(Coins(S \union {s})) <= Cardinality(Coins(S)) + s.amount
           /\ s \notin S => Cardinality(Coins(S \union {s})) = Cardinality(Coins(S)) + s.amount
  <1> DEFINE n == s.amount
             N == {s} \X (1 .. n)
             O == Coins(S)
             A == Coins(S \union {s})
  <1>1. IsFiniteSet(1 .. n) /\ Cardinality(1 .. n) = n
    <2>1. n \in Nat
      OBVIOUS
    <2> HIDE DEF n
    <2> QED BY <2>1, FS_Interval
  <1>2. IsFiniteSet(N) /\ Cardinality(N) = n
    <2>1. IsFiniteSet({s}) /\ Cardinality({s}) = 1
      BY FS_Singleton
    <2>2. n \in Nat /\ 1 * n = n
      OBVIOUS
    <2> HIDE DEF n
    <2> QED BY ONLY <1>1, <2>1, <2>2, FS_Product
  <1>3. A = O \union N
    <2>1. \A c : c \in A <=> c \in O \/ c \in N
      <3> TAKE c
      <3>1. c \in N <=> \E i \in 1 .. s.amount : c = <<s, i>>
        OBVIOUS
      <3> QED BY <3>1, CoinsAre
    <2> QED BY <2>1
  <1>4. s \notin S => O \intersect N = {}
    BY CoinsAre
  <1>5. IsFiniteSet(O) /\ n \in Nat
    OBVIOUS
  <1> HIDE DEF O, N, A, n
  <1>6. IsFiniteSet(A) /\ Cardinality(A) = Cardinality(O) + Cardinality(N) - Cardinality(O \intersect N)
    BY <1>2, <1>3, <1>5, FS_Union
  <1>7. Cardinality(O) \in Nat /\ Cardinality(A) \in Nat
    BY <1>5, <1>6, FS_CardinalityType
  <1>8. Cardinality(O \intersect N) \in Nat
    BY <1>5, FS_Subset, FS_CardinalityType
  <1>9. s \notin S => Cardinality(O \intersect N) = 0
    BY <1>4, FS_EmptySet
  <1>10. /\ IsFiniteSet(A) /\ Cardinality(O) \in Nat /\ Cardinality(A) \in Nat
         /\ Cardinality(A) <= Cardinality(O) + n
         /\ s \notin S => Cardinality(A) = Cardinality(O) + n
    BY <1>2, <1>5, <1>6, <1>7, <1>8, <1>9
  <1> QED BY <1>10 DEF O, A, n

-----------------------------------------------------------------------------
(* Steps that neither make nor book a refund.                              *)

\* What Stripe has refunded, and what the books say of it, stay as they are.
Calm ==
    /\ stripe_saved \subseteq stripe_saved'
    /\ \A s \in stripe_saved' : s.op = "refund" => s \in stripe_saved
    /\ \A k \in Intents : stripe_pi[k].status # "absent" =>
           stripe_pi'[k].status # "absent" /\ stripe_pi'[k].refunded = stripe_pi[k].refunded
    /\ \A k \in Intents : ledger'[k]["customer"] = ledger[k]["customer"]
    /\ \A r \in Requests : r.op = "refund" =>
           /\ call[r].pc = "done" => call'[r].pc = "done"
           /\ call'[r].pc = "commit" => call'[r] = call[r]

\* Refunds that are saved and done stay so; the books are then still covered.
LEMMA BookedGrow ==
    ASSUME RefundsKnown, NEW k \in Intents, IsFiniteSet(Coins(Refunds(k)')),
           stripe_saved \subseteq stripe_saved',
           ledger'[k]["customer"] = ledger[k]["customer"], ledger[k]["customer"] \in Int,
           \A r \in Requests : r.op = "refund" /\ call[r].pc = "done" => call'[r].pc = "done"
    PROVE  ledger'[k]["customer"] <= Cardinality(Coins(Booked(k)'))
  <1>1. Booked(k) \subseteq Booked(k)' /\ Booked(k)' \subseteq Refunds(k)'
    BY DEF Booked, Refunds
  <1>2. IsFiniteSet(Coins(Booked(k)'))
    BY <1>1, CoinsGrow
  <1>3. /\ Cardinality(Coins(Booked(k))) <= Cardinality(Coins(Booked(k)'))
        /\ Cardinality(Coins(Booked(k))) \in Nat /\ Cardinality(Coins(Booked(k)')) \in Nat
    BY <1>1, <1>2, CoinsGrow
  <1>4. ledger[k]["customer"] <= Cardinality(Coins(Booked(k)))
    BY DEF RefundsKnown
  <1> QED BY <1>3, <1>4

LEMMA CalmKeeps ==
    ASSUME TypeOK, TypeOK', RefundsKnown, Calm
    PROVE  RefundsKnown'
  <1>1. \A s \in stripe_saved' : s.op = "refund" => stripe_pi'[s.intent].status # "absent"
    BY DEF Calm, RefundsKnown, TypeOK, SavedAnswers
  <1>2. ASSUME NEW r \in Requests, r.op = "refund", call'[r].pc = "commit"
        PROVE  AnswerTo(r)' \in stripe_saved'
    <2>1. call'[r] = call[r]
      BY <1>2 DEF Calm
    <2>2. AnswerTo(r)' = AnswerTo(r)
      BY <2>1 DEF AnswerTo
    <2> QED BY <1>2, <2>1, <2>2 DEF Calm, RefundsKnown
  <1>3. ASSUME NEW k \in Intents
        PROVE  /\ IsFiniteSet(Coins(Refunds(k))')
               /\ Cardinality(Coins(Refunds(k)))' <= stripe_pi'[k].refunded
               /\ ledger'[k]["customer"] <= Cardinality(Coins(Booked(k)))'
    <2>1. Refunds(k)' = Refunds(k)
      BY DEF Refunds, Calm
    <2>2. IsFiniteSet(Coins(Refunds(k))) /\ Cardinality(Coins(Refunds(k))) <= stripe_pi[k].refunded
      BY DEF RefundsKnown
    <2>3. Cardinality(Coins(Refunds(k))) <= stripe_pi'[k].refunded
      <3>1. CASE stripe_pi[k].status # "absent"
        BY <2>2, <3>1 DEF Calm
      <3>2. CASE stripe_pi[k].status = "absent"
        <4>1. Refunds(k) = {}
          BY <3>2 DEF RefundsKnown, Refunds
        <4>2. Coins(Refunds(k)) = {}
          BY <4>1, CoinsAre
        <4>3. Cardinality(Coins(Refunds(k))) = 0
          BY <4>2, FS_EmptySet
        <4>4. stripe_pi'[k].refunded \in Nat
          BY DEF TypeOK, StripeObjects
        <4> QED BY <4>3, <4>4
      <3> QED BY <3>1, <3>2
    <2>4. Coins(Refunds(k))' = Coins(Refunds(k))
      BY <2>1 DEF Coins
    <2>5. ledger[k]["customer"] \in Int
      BY DEF TypeOK, Books, Accounts
    <2>6. ledger'[k]["customer"] <= Cardinality(Coins(Booked(k)'))
      BY <2>1, <2>2, <2>5, BookedGrow DEF Calm
    <2>7. Coins(Booked(k))' = Coins(Booked(k)')
      BY DEF Coins
    <2> QED BY <2>2, <2>3, <2>4, <2>6, <2>7
  <1> QED BY <1>1, <1>2, <1>3 DEF RefundsKnown

-----------------------------------------------------------------------------
(* Every step but those of a refund's call and commit is calm.              *)

\* The books of k are written by a transfer that leaves the customer's alone.
LEMMA CustomerStays ==
    ASSUME TypeOK, NEW k \in Intents, NEW x \in Accounts \ {"customer"},
           NEW y \in Accounts \ {x, "customer"}, NEW n \in Nat,
           ledger' = [ledger EXCEPT ![k] = Transfer(@, x, y, n)]
    PROVE  \A j \in Intents : ledger'[j]["customer"] = ledger[j]["customer"]
  <1> DEFINE new == Transfer(ledger[k], x, y, n)
  <1>1. ledger[k] \in Books
    BY DEF TypeOK
  <1>2. new["customer"] = ledger[k]["customer"]
    BY <1>1, BooksAfter
  <1>3. ledger' = [ledger EXCEPT ![k] = new]
    OBVIOUS
  <1> HIDE DEF new
  <1> QED BY <1>2, <1>3 DEF TypeOK

\* r goes on to a step other than its commit, and Stripe and the books rest.
LEMMA CalmMove ==
    ASSUME TypeOK, NEW r \in Requests,
           \A q \in Requests : q # r => call'[q] = call[q],
           r.op = "refund" => call[r].pc # "done" /\ call'[r].pc # "commit",
           UNCHANGED stripe, \A k \in Intents : ledger'[k]["customer"] = ledger[k]["customer"]
    PROVE  Calm
  BY DEF Calm, stripe

LEMMA CalmFrame ==
    ASSUME UNCHANGED <<stripe, ledger, call>>
    PROVE  Calm
  BY DEF Calm, stripe

\* Stripe executes another call than a refund, or repeats its answer.
LEMMA CalmAnswer ==
    ASSUME TypeOK, NEW r \in Requests, NEW reply \in Replies, NEW pi \in StripeObjects,
           r.op # "refund", Answered(r, reply), UNCHANGED ledger,
           Execute(r, 0, reply, pi) \/ Replay(r, 0, reply),
           pi.status # "absent", pi.refunded = stripe_pi[r.intent].refunded
    PROVE  Calm
  <1>1. \A q \in Requests : q # r => call'[q] = call[q]
    BY AnsweredFacts DEF TypeOK
  <1>2. CASE Replay(r, 0, reply)
    BY <1>1, <1>2 DEF Calm, Replay, stripe
  <1>3. CASE Execute(r, 0, reply, pi)
    <2> DEFINE s == [idem |-> r.idem, op |-> r.op, intent |-> r.intent,
                     amount |-> 0, reply |-> reply]
    <2>1. stripe_pi' = [stripe_pi EXCEPT ![r.intent] = pi] /\ stripe_saved' = stripe_saved \union {s}
      BY <1>3 DEF Execute
    <2>2. s.op # "refund"
      OBVIOUS
    <2> HIDE DEF s
    <2> QED BY <1>1, <2>1, <2>2, RequestType DEF Calm, TypeOK
  <1> QED BY <1>2, <1>3

LEMMA CreateCalm ==
    ASSUME TypeOK, NEW r \in Requests, CreateFind(r) \/ CreateStripe(r) \/ CreateCommit(r)
    PROVE  Calm
  <1> USE RequestType
  <1>0. r.op # "refund"
    BY DEF CreateFind, CreateStripe, CreateCommit, Creating
  <1>1. CASE CreateFind(r)
    <2>1. PICK pc \in PCs : Moves(r, pc)
      BY <1>1 DEF CreateFind, Created, PCs
    <2>2. \A q \in Requests : q # r => call'[q] = call[q]
      BY <2>1, MovesFacts DEF TypeOK
    <2> QED BY <1>0, <1>1, <2>2, CalmMove DEF CreateFind, tables
  <1>2. CASE CreateStripe(r)
    <2>1. \A q \in Requests : q # r => call'[q] = call[q]
      BY <1>2, AnsweredFacts DEF CreateStripe, TypeOK, Replies, Statuses
    <2>2. /\ stripe_saved' = stripe_saved
          /\ \A k \in Intents : stripe_pi[k].status # "absent" => stripe_pi'[k] = stripe_pi[k]
      BY <1>2 DEF CreateStripe, CreateAtStripe, stripe, TypeOK
    <2> QED BY <1>0, <1>2, <2>1, <2>2 DEF CreateStripe, tables, Calm
  <1>3. CASE CreateCommit(r)
    <2>1. PICK pc \in PCs : Moves(r, pc)
      BY <1>3 DEF CreateCommit, Created, PCs
    <2>2. \A q \in Requests : q # r => call'[q] = call[q]
      BY <2>1, MovesFacts DEF TypeOK
    <2>3. \A k \in Intents : ledger'[k]["customer"] = ledger[k]["customer"]
      <3>1. CASE UNCHANGED ledger
        BY <3>1
      <3>2. CASE ledger' = [ledger EXCEPT ![r.intent] =
                     Transfer(@, "customer_pending", "payments_authorised", r.amount)]
        BY <3>2, CustomerStays DEF Accounts
      <3> QED BY <1>3, <3>1, <3>2 DEF CreateCommit
    <2> QED BY <1>0, <1>3, <2>2, <2>3, CalmMove DEF CreateCommit
  <1> QED BY <1>1, <1>2, <1>3

LEMMA ConfirmCalm ==
    ASSUME TypeOK, NEW r \in Requests, ConfirmFind(r) \/ ConfirmStripe(r) \/ ConfirmCommit(r)
    PROVE  Calm
  <1> USE RequestType
  <1>0. r.op # "refund"
    BY DEF ConfirmFind, ConfirmStripe, ConfirmCommit
  <1>1. CASE ConfirmFind(r) \/ ConfirmCommit(r)
    <2>1. \A q \in Requests : q # r => call'[q] = call[q]
      BY <1>1, MovesFacts, LoadsFacts DEF ConfirmFind, ConfirmCommit, TypeOK, PCs
    <2> QED BY <1>0, <1>1, <2>1, CalmMove DEF ConfirmFind, ConfirmCommit, tables
  <1>2. CASE ConfirmStripe(r)
    <2>1. PICK reply \in Statuses : ConfirmAtStripe(r, reply) /\ Answered(r, reply)
      BY <1>2 DEF ConfirmStripe
    <2> DEFINE pi == [stripe_pi[r.intent] EXCEPT !.status = reply]
    <2>2. pi \in StripeObjects /\ pi.status # "absent" /\ pi.refunded = stripe_pi[r.intent].refunded
      BY <2>1 DEF TypeOK, StripeObjects, Statuses
    <2>3. Execute(r, 0, reply, pi) \/ Replay(r, 0, reply)
      BY <2>1 DEF ConfirmAtStripe
    <2> HIDE DEF pi
    <2> QED BY <1>0, <1>2, <2>1, <2>2, <2>3, CalmAnswer DEF ConfirmStripe, tables, Replies
  <1> QED BY <1>1, <1>2

LEMMA CancelCalm ==
    ASSUME TypeOK, NEW r \in Requests, CancelFind(r) \/ CancelStripe(r) \/ CancelCommit(r)
    PROVE  Calm
  <1> USE RequestType
  <1>0. r.op # "refund"
    BY DEF CancelFind, CancelStripe, CancelCommit
  <1>1. CASE CancelFind(r)
    <2>1. \A q \in Requests : q # r => call'[q] = call[q]
      BY <1>1, MovesFacts, LoadsFacts DEF CancelFind, TypeOK, PCs
    <2> QED BY <1>0, <1>1, <2>1, CalmMove DEF CancelFind, tables
  <1>2. CASE CancelStripe(r)
    <2>1. PICK reply \in Statuses : CancelAtStripe(r, reply) /\ Answered(r, reply)
      BY <1>2 DEF CancelStripe
    <2> DEFINE pi == [stripe_pi[r.intent] EXCEPT !.status = reply]
    <2>2. pi \in StripeObjects /\ pi.status # "absent" /\ pi.refunded = stripe_pi[r.intent].refunded
      BY <2>1 DEF TypeOK, StripeObjects, Statuses
    <2>3. Execute(r, 0, reply, pi) \/ Replay(r, 0, reply)
      BY <2>1 DEF CancelAtStripe
    <2> HIDE DEF pi
    <2> QED BY <1>0, <1>2, <2>1, <2>2, <2>3, CalmAnswer DEF CancelStripe, tables, Replies
  <1>3. CASE CancelCommit(r)
    <2> DEFINE n == call[r].seen.amount
    <2>1. \A q \in Requests : q # r => call'[q] = call[q]
      BY <1>3, MovesFacts DEF CancelCommit, TypeOK, PCs
    <2>2. n \in Nat
      BY DEF TypeOK, Calls, Rows
    <2>3. ledger' = [ledger EXCEPT ![r.intent] =
              Transfer(@, "payments_authorised", "customer_pending", n)]
      BY <1>3 DEF CancelCommit
    <2> HIDE DEF n
    <2>4. \A k \in Intents : ledger'[k]["customer"] = ledger[k]["customer"]
      BY <2>2, <2>3, CustomerStays DEF Accounts
    <2> QED BY <1>0, <1>3, <2>1, <2>4, CalmMove DEF CancelCommit
  <1> QED BY <1>1, <1>2, <1>3

\* A refund that is refused or ends early, and the steps of a session.
LEMMA MoveCalm ==
    ASSUME TypeOK, NEW r \in Requests,
           RefundFind(r) \/ Abort(r) \/ SessionStep(r) \/ TTLPasses(r)
    PROVE  Calm
  <1>1. CASE RefundFind(r)
    <2>1. /\ \A q \in Requests : q # r => call'[q] = call[q]
          /\ call'[r].pc # "commit" /\ call[r].pc # "done"
      BY <1>1, MovesFacts, LoadsFacts DEF RefundFind, Admitted, TypeOK, PCs
    <2> QED BY <1>1, <2>1, CalmMove DEF RefundFind, tables
  <1>2. CASE Abort(r)
    <2>1. /\ \A q \in Requests : q # r => call'[q] = call[q]
          /\ call'[r].pc # "commit" /\ call[r].pc # "done"
      BY <1>2, MovesFacts DEF Abort, InFlight, TypeOK, PCs
    <2> QED BY <1>2, <2>1, CalmMove DEF Abort, tables
  <1>3. CASE SessionStep(r)
    <2>1. PICK pc \in {"insert_session", "done", "error"} : Moves(r, pc)
      BY <1>3 DEF SessionStep, FindSession, InsertSession
    <2>2. /\ \A q \in Requests : q # r => call'[q] = call[q]
          /\ call'[r].pc # "commit" /\ call[r].pc # "done"
      BY <1>3, <2>1, MovesFacts DEF SessionStep, FindSession, InsertSession, TypeOK, PCs
    <2> QED BY <1>3, <2>2, CalmMove DEF SessionStep, FindSession, InsertSession, tables
  <1>4. CASE TTLPasses(r)
    BY <1>4, CalmFrame DEF TTLPasses, tables
  <1> QED BY <1>1, <1>2, <1>3, <1>4

LEMMA DeliveryCalm ==
    ASSUME TypeOK, NEW d \in Deliveries, HookStep(d)
    PROVE  Calm
  <1>1. CASE CompleteSession(d) \/ Finish(d)
    <2>1. UNCHANGED <<stripe, call>> /\ \E event : CommitHook(d, event)
      BY <1>1 DEF CompleteSession, Finish
    <2>2. CASE ~hook[d].capture
      BY <2>1, <2>2, CalmFrame DEF CommitHook
    <2>3. CASE hook[d].capture
      <3> DEFINE n == stripe_pi[d.intent].amount
      <3>1. ledger' = [ledger EXCEPT ![d.intent] =
                Transfer(@, "payments_authorised", "payments_captured", n)]
        BY <2>1, <2>3 DEF CommitHook, Capture
      <3>2. n \in Nat
        BY DeliveryType DEF TypeOK, StripeObjects
      <3> HIDE DEF n
      <3>3. \A k \in Intents : ledger'[k]["customer"] = ledger[k]["customer"]
        BY <3>1, <3>2, CustomerStays, DeliveryType DEF Accounts
      <3> QED BY <2>1, <3>3 DEF Calm, stripe
    <2> QED BY <2>2, <2>3
  <1>2. CASE ~(CompleteSession(d) \/ Finish(d))
    BY <1>2, CalmFrame
       DEF HookStep, Receive, InsertEvent, Apply, FindSessionOfEvent, AbortHook, tables
  <1> QED BY <1>1, <1>2

LEMMA StripeCalm ==
    ASSUME TypeOK, StripeNext
    PROVE  Calm
  <1>1. PICK k \in Intents : CustomerPays(k) \/ Settle(k) \/ PaidElsewhere(k)
    BY DEF StripeNext
  <1>2. UNCHANGED <<ledger, call, stripe_saved>>
    BY <1>1 DEF CustomerPays, Settle, PaidElsewhere, tables
  <1>3. CASE CustomerPays(k) \/ Settle(k)
    <2>1. PICK s \in Statuses : stripe_pi' = [stripe_pi EXCEPT ![k].status = s]
      BY <1>3 DEF CustomerPays, Settle, Statuses
    <2>2. s # "absent"
      BY <2>1 DEF Statuses
    <2>3. \A j \in Intents : stripe_pi[j].status # "absent" =>
              stripe_pi'[j].status # "absent" /\ stripe_pi'[j].refunded = stripe_pi[j].refunded
      BY <2>1, <2>2 DEF TypeOK, StripeObjects
    <2> QED BY <1>2, <2>3 DEF Calm
  <1>4. CASE PaidElsewhere(k)
    BY <1>2, <1>4 DEF PaidElsewhere, Calm, TypeOK
  <1> QED BY <1>1, <1>3, <1>4

-----------------------------------------------------------------------------
(* Stripe refunds.                                                         *)

\* The answer r gets is what is saved of it; the others' stay where they are.
LEMMA AnswersSaved ==
    ASSUME TypeOK, RefundsKnown, NEW r \in Requests, Answered(r, "none"),
           stripe_saved \subseteq stripe_saved', AnswerTo(r) \in stripe_saved'
    PROVE  \A q \in Requests : q.op = "refund" /\ call'[q].pc = "commit" =>
               AnswerTo(q)' \in stripe_saved'
  <1>1. /\ call'[r].seen = call[r].seen
        /\ \A q \in Requests : q # r => call'[q] = call[q]
    BY AnsweredFacts DEF TypeOK, Replies
  <1>2. AnswerTo(r)' = AnswerTo(r)
    BY <1>1 DEF AnswerTo
  <1>3. ASSUME NEW q \in Requests, q # r, q.op = "refund", call'[q].pc = "commit"
        PROVE  AnswerTo(q)' \in stripe_saved'
    <2>1. call'[q] = call[q]
      BY <1>1, <1>3
    <2>2. AnswerTo(q)' = AnswerTo(q)
      BY <2>1 DEF AnswerTo
    <2> QED BY <1>3, <2>1, <2>2 DEF RefundsKnown
  <1> QED BY <1>2, <1>3

\* An executed refund adds its coins, and as much to what the object says.
LEMMA ExecutedRefund ==
    ASSUME TypeOK, RefundsKnown, NEW r \in Requests, r.op = "refund",
           NEW n \in Nat, stripe_pi[r.intent].status = "succeeded",
           Execute(r, n, "none", [stripe_pi[r.intent] EXCEPT !.refunded = @ + n]),
           NEW k \in Intents
    PROVE  /\ stripe_pi'[k].status = stripe_pi[k].status
           /\ IsFiniteSet(Coins(Refunds(k)'))
           /\ Cardinality(Coins(Refunds(k)')) <= stripe_pi'[k].refunded
  <1> DEFINE s == [idem |-> r.idem, op |-> r.op, intent |-> r.intent,
                   amount |-> n, reply |-> "none"]
             new == stripe_pi[r.intent].refunded + n
  <1>1. /\ stripe_saved' = stripe_saved \union {s}
        /\ stripe_pi' = [stripe_pi EXCEPT ![r.intent] = [@ EXCEPT !.refunded = new]]
    BY DEF Execute
  <1>2. s.op = "refund" /\ s.intent = r.intent /\ s.amount = n
    OBVIOUS
  <1>3. stripe_pi[k].refunded \in Nat /\ stripe_pi[r.intent].refunded \in Nat
    BY RequestType DEF TypeOK, StripeObjects
  <1>4. stripe_pi'[k].status = stripe_pi[k].status
        /\ stripe_pi'[k].refunded = IF k = r.intent THEN new ELSE stripe_pi[k].refunded
    BY <1>1, RequestType DEF TypeOK, StripeObjects
  <1>5. IsFiniteSet(Coins(Refunds(k))) /\ Cardinality(Coins(Refunds(k))) <= stripe_pi[k].refunded
    BY DEF RefundsKnown
  <1> HIDE DEF s
  <1>6. CASE k # r.intent
    <2>1. Refunds(k)' = Refunds(k)
      BY <1>1, <1>2, <1>6 DEF Refunds
    <2> QED BY <1>4, <1>5, <1>6, <2>1
  <1>7. CASE k = r.intent
    <2>1. Refunds(k)' = Refunds(k) \union {s}
      BY <1>1, <1>2, <1>7 DEF Refunds
    <2> DEFINE R == Refunds(k)
    <2>2. IsFiniteSet(Coins(R)) /\ s.amount \in Nat
      BY <1>2, <1>5
    <2> HIDE DEF R
    <2>3. /\ IsFiniteSet(Coins(R \union {s}))
          /\ Cardinality(Coins(R)) \in Nat /\ Cardinality(Coins(R \union {s})) \in Nat
          /\ Cardinality(Coins(R \union {s})) <= Cardinality(Coins(R)) + s.amount
      BY <2>2, CoinsAdded
    <2>4. Cardinality(Coins(R)) <= stripe_pi[k].refunded
      BY <1>5 DEF R
    <2>5. Cardinality(Coins(R \union {s})) <= stripe_pi'[k].refunded
      BY <1>2, <1>3, <1>4, <1>7, <2>3, <2>4
    <2> QED BY <1>4, <2>1, <2>3, <2>5 DEF R
  <1> QED BY <1>6, <1>7

LEMMA RefundStripeKeeps ==
    ASSUME IInv, RefundsKnown, NEW r \in Requests, RefundStripe(r)
    PROVE  RefundsKnown'
  <1> DEFINE n == RefundAmount(r, call[r].seen)
  <1>1. /\ TypeOK /\ r.op = "refund" /\ call[r].pc = "stripe" /\ Answered(r, "none")
        /\ RefundAtStripe(r, n) /\ ledger' = ledger
    BY DEF RefundStripe, IInv, tables
  <1>2. n \in Nat
    BY <1>1, RefundAmountType DEF IInv, CallsOK, TypeOK, Calls
  <1>3. AnswerTo(r) = [idem |-> r.idem, op |-> r.op, intent |-> r.intent,
                       amount |-> n, reply |-> "none"]
    BY DEF AnswerTo
  <1> HIDE DEF n
  <1>4. stripe_saved \subseteq stripe_saved' /\ AnswerTo(r) \in stripe_saved'
    BY <1>1, <1>3 DEF RefundAtStripe, Execute, Replay, stripe
  <1>5. /\ \A k \in Intents :
              /\ stripe_pi'[k].status = stripe_pi[k].status
              /\ IsFiniteSet(Coins(Refunds(k)'))
              /\ Cardinality(Coins(Refunds(k)')) <= stripe_pi'[k].refunded
        /\ \A s \in stripe_saved' : s.op = "refund" => stripe_pi'[s.intent].status # "absent"
    <2>1. CASE Replay(r, n, "none")
      <3>1. UNCHANGED <<stripe_pi, stripe_saved>>
        BY <2>1 DEF Replay, stripe
      <3>2. \A k \in Intents : Refunds(k)' = Refunds(k)
        BY <3>1 DEF Refunds
      <3> QED BY <3>1, <3>2 DEF RefundsKnown
    <2>2. CASE ~Replay(r, n, "none")
      <3>1. /\ stripe_pi[r.intent].status = "succeeded"
            /\ Execute(r, n, "none", [stripe_pi[r.intent] EXCEPT !.refunded = @ + n])
        BY <1>1, <2>2 DEF RefundAtStripe
      <3>2. \A k \in Intents :
                /\ stripe_pi'[k].status = stripe_pi[k].status
                /\ IsFiniteSet(Coins(Refunds(k)'))
                /\ Cardinality(Coins(Refunds(k)')) <= stripe_pi'[k].refunded
        BY <1>1, <1>2, <3>1, ExecutedRefund
      <3>3. \A s \in stripe_saved' : s \in stripe_saved \/ s.intent = r.intent
        BY <3>1 DEF Execute
      <3>4. \A s \in stripe_saved : s.intent \in Intents
        BY <1>1 DEF TypeOK, SavedAnswers
      <3> QED BY <3>1, <3>2, <3>3, <3>4, RequestType DEF RefundsKnown
    <2> QED BY <2>1, <2>2
  <1>6. \A q \in Requests : q.op = "refund" /\ call'[q].pc = "commit" =>
            AnswerTo(q)' \in stripe_saved'
    BY <1>1, <1>4, AnswersSaved
  <1>7. \A q \in Requests : q.op = "refund" /\ call[q].pc = "done" => call'[q].pc = "done"
    BY <1>1, AnsweredFacts DEF TypeOK, Replies
  <1>8. ASSUME NEW k \in Intents
        PROVE  /\ IsFiniteSet(Coins(Refunds(k))')
               /\ Cardinality(Coins(Refunds(k)))' <= stripe_pi'[k].refunded
               /\ ledger'[k]["customer"] <= Cardinality(Coins(Booked(k)))'
    <2>1. ledger'[k]["customer"] = ledger[k]["customer"] /\ ledger[k]["customer"] \in Int
      BY <1>1 DEF TypeOK, Books, Accounts
    <2>2. ledger'[k]["customer"] <= Cardinality(Coins(Booked(k)'))
      BY <1>4, <1>5, <1>7, <2>1, BookedGrow
    <2>3. Coins(Booked(k))' = Coins(Booked(k)') /\ Coins(Refunds(k))' = Coins(Refunds(k)')
      BY DEF Coins
    <2> QED BY <1>5, <2>2, <2>3
  <1> QED BY <1>5, <1>6, <1>8 DEF RefundsKnown

-----------------------------------------------------------------------------
(* A refund is booked.                                                     *)

\* The answer to r was not booked before: no other request has its key.
LEMMA RefundCommitKeeps ==
    ASSUME IInv, DistinctRefundKeys, RefundsKnown, NEW r \in Requests, RefundCommit(r)
    PROVE  RefundsKnown'
  <1> DEFINE n == RefundAmount(r, call[r].seen)
             s == AnswerTo(r)
  <1>1. /\ TypeOK /\ r.op = "refund" /\ call[r].pc = "commit" /\ Moves(r, "done")
        /\ ledger' = [ledger EXCEPT ![r.intent] = Transfer(@, "payments_captured", "customer", n)]
        /\ UNCHANGED stripe
    BY DEF RefundCommit, IInv
  <1>2. n \in Nat /\ s.amount = n /\ s.intent = r.intent /\ s.idem = r.idem /\ s.op = "refund"
    BY <1>1, RefundAmountType DEF IInv, CallsOK, TypeOK, Calls, AnswerTo
  <1>3. s \in stripe_saved
    BY <1>1 DEF RefundsKnown
  <1> HIDE DEF n, s
  <1>4. call'[r].pc = "done" /\ \A q \in Requests : q # r => call'[q] = call[q]
    BY <1>1, MovesFacts DEF TypeOK, PCs
  <1>5. \A k \in Intents : Refunds(k)' = Refunds(k)
    BY <1>1 DEF Refunds, stripe
  <1>6. \A q \in Requests : q.op = "refund" /\ call'[q].pc = "commit" =>
            AnswerTo(q)' \in stripe_saved'
    <2> SUFFICES ASSUME NEW q \in Requests, q.op = "refund", call'[q].pc = "commit"
                 PROVE  AnswerTo(q)' \in stripe_saved'
      OBVIOUS
    <2>1. call'[q] = call[q]
      BY <1>4
    <2>2. AnswerTo(q)' = AnswerTo(q)
      BY <2>1 DEF AnswerTo
    <2> QED BY <1>1, <2>1, <2>2 DEF RefundsKnown, stripe
  <1>7. ASSUME NEW k \in Intents
        PROVE  ledger'[k]["customer"] <= Cardinality(Coins(Booked(k)'))
    <2>1. IsFiniteSet(Coins(Refunds(k)'))
      BY <1>5 DEF RefundsKnown
    <2>2. ledger[k]["customer"] \in Int /\ ledger[k] \in Books
      BY <1>1 DEF TypeOK, Books, Accounts
    <2>3. CASE k # r.intent
      <3>1. ledger'[k]["customer"] = ledger[k]["customer"]
        BY <1>1, <2>3 DEF TypeOK
      <3> QED BY <1>1, <1>4, <2>1, <2>2, <3>1, BookedGrow DEF stripe
    <2>4. CASE k = r.intent
      <3> DEFINE B == Booked(k)
                 C == Booked(k)'
                 old == ledger[k]["customer"]
      <3>1. s \notin B
        <4> SUFFICES ASSUME s \in B PROVE FALSE
          OBVIOUS
        <4>1. PICK q \in Requests : /\ q.op = "refund" /\ q.intent = k /\ q.idem = s.idem
                                    /\ call[q].pc = "done"
          BY DEF Booked
        <4>2. q = r
          BY <1>1, <1>2, <2>4, <4>1 DEF DistinctRefundKeys
        <4> QED BY <1>1, <4>1, <4>2
      <3>2. s \in C
        BY <1>1, <1>2, <1>3, <1>4, <2>4 DEF Booked, Refunds, stripe
      <3>3. B \subseteq C /\ C \subseteq Refunds(k)' /\ B \subseteq Refunds(k)
        BY <1>1, <1>4, <1>5 DEF Booked
      <3>4. ledger'[k]["customer"] = old + n
        <4>1. Transfer(ledger[k], "payments_captured", "customer", n)["customer"] = old + n
          BY <1>2, <2>2, BooksAfter DEF Accounts
        <4> QED BY <1>1, <2>4, <4>1 DEF TypeOK
      <3>5. IsFiniteSet(Coins(B)) /\ IsFiniteSet(Coins(C))
        <4>1. IsFiniteSet(Coins(Refunds(k)))
          BY DEF RefundsKnown
        <4> HIDE DEF B, C
        <4> QED BY <2>1, <3>3, <4>1, CoinsGrow
      <3>6. old <= Cardinality(Coins(B)) /\ old \in Int
        BY <2>2 DEF RefundsKnown
      <3> HIDE DEF B, C, old
      <3>7. Cardinality(Coins(B \union {s})) = Cardinality(Coins(B)) + n
            /\ Cardinality(Coins(B)) \in Nat
        BY <1>2, <3>1, <3>5, CoinsAdded
      <3>8. Cardinality(Coins(B \union {s})) <= Cardinality(Coins(C))
            /\ Cardinality(Coins(C)) \in Nat
        BY <3>2, <3>3, <3>5, CoinsGrow
      <3>9. ledger'[k]["customer"] <= Cardinality(Coins(C))
        BY <1>2, <3>4, <3>6, <3>7, <3>8
      <3> QED BY <3>9 DEF C
    <2> QED BY <2>3, <2>4
  <1>8. \A k \in Intents : Coins(Booked(k))' = Coins(Booked(k)') /\ Coins(Refunds(k))' = Coins(Refunds(k)')
    BY DEF Coins
  <1> QED BY <1>1, <1>5, <1>6, <1>7, <1>8 DEF RefundsKnown, stripe

-----------------------------------------------------------------------------
LEMMA InitRefunds == Init => RefundsKnown
  <1> SUFFICES ASSUME Init, NEW k \in Intents
               PROVE  /\ IsFiniteSet(Coins(Refunds(k))) /\ Cardinality(Coins(Refunds(k))) = 0
                      /\ Cardinality(Coins(Booked(k))) = 0
                      /\ stripe_pi[k].refunded = 0 /\ ledger[k]["customer"] = 0
    BY DEF RefundsKnown, Init, StateInit, Idle
  <1>1. Refunds(k) = {} /\ Booked(k) = {}
    BY DEF Init, StateInit, Refunds, Booked
  <1>2. Coins(Refunds(k)) = {} /\ Coins(Booked(k)) = {}
    BY <1>1, CoinsAre
  <1> QED BY <1>2, FS_EmptySet DEF Init, StateInit, NoObject, EmptyBooks, Accounts

LEMMA NextRefundsKnown ==
    ASSUME IInv, IInv', DistinctRefundKeys, RefundsKnown, [Next]_vars
    PROVE  RefundsKnown'
  <1>0. TypeOK /\ TypeOK'
    BY DEF IInv
  <1>1. ASSUME NEW r \in Requests, RequestStep(r)
        PROVE  RefundsKnown'
    <2>1. CASE RefundStripe(r) \/ RefundCommit(r)
      BY <2>1, RefundStripeKeeps, RefundCommitKeeps
    <2>2. CASE ~(RefundStripe(r) \/ RefundCommit(r))
      BY <1>0, <1>1, <2>2, CalmKeeps, CreateCalm, ConfirmCalm, CancelCalm, MoveCalm
         DEF RequestStep, PaymentStep
    <2> QED BY <2>1, <2>2
  <1>2. ASSUME NEW v \in Viewers, NEW r \in Requests, PageStep(v, r)
        PROVE  RefundsKnown'
    <2>1. UNCHANGED <<stripe, ledger, call>>
      BY <1>2 DEF PageStep, ViewSession, ExpireSession, AbortView, tables
    <2> QED BY <1>0, <2>1, CalmFrame, CalmKeeps
  <1>3. CASE UNCHANGED vars
    BY <1>0, <1>3, CalmFrame, CalmKeeps DEF vars, tables
  <1> QED BY <1>0, <1>1, <1>2, <1>3, DeliveryCalm, StripeCalm, CalmKeeps DEF Next

LEMMA DistinctKeysStay == DistinctRefundKeys => []DistinctRefundKeys
  <1>1. DistinctRefundKeys => DistinctRefundKeys'
    BY DEF DistinctRefundKeys
  <1> QED BY <1>1, PTL

\* Of refunds with keys of their own, racing on what they read of the row, lost
\* between Stripe and the commit or refused there, the books hold no more than
\* Stripe has made: refund_intent commits only what Stripe has answered.
THEOREM BookedRefundsAreReal == DistinctRefundKeys /\ Spec => []RefundsBookedAreReal
  <1>1. DistinctRefundKeys /\ IInv /\ IInv' /\ RefundsKnown /\ [Next]_vars => RefundsKnown'
    BY NextRefundsKnown
  <1>2. IInv /\ RefundsKnown => RefundsBookedAreReal
    <2> SUFFICES ASSUME IInv, RefundsKnown, NEW k \in Intents
                 PROVE  ledger[k]["customer"] <= stripe_pi[k].refunded
      BY DEF RefundsBookedAreReal
    <2>1. Booked(k) \subseteq Refunds(k)
      BY DEF Booked
    <2>2. /\ IsFiniteSet(Coins(Refunds(k)))
          /\ Cardinality(Coins(Refunds(k))) <= stripe_pi[k].refunded
          /\ ledger[k]["customer"] <= Cardinality(Coins(Booked(k)))
      BY DEF RefundsKnown
    <2>3. /\ Cardinality(Coins(Booked(k))) <= Cardinality(Coins(Refunds(k)))
          /\ Cardinality(Coins(Booked(k))) \in Nat /\ Cardinality(Coins(Refunds(k))) \in Nat
      BY <2>1, <2>2, CoinsGrow
    <2>4. ledger[k]["customer"] \in Int /\ stripe_pi[k].refunded \in Nat
      BY DEF IInv, TypeOK, Books, Accounts, StripeObjects
    <2> QED BY <2>2, <2>3, <2>4
  <1> QED BY <1>1, <1>2, InitRefunds, DistinctKeysStay, Invariant, PTL DEF Spec
=============================================================================
