------------------------ MODULE ReconciliationProofs ------------------------
(***************************************************************************)
(* What the reconciliation worker reports, for every set of intents,       *)
(* requests and deliveries, every number of days and runs, and whatever    *)
(* clients do (confirm included): the worker only reads, so what is        *)
(* invariant of the gateway stays so beside it; and what it reports is     *)
(* judged from what only grows or never changes again: the money that was  *)
(* received and captured, a payment Stripe has settled, a day that is over.*)
(* The mismatches of a run add up to the difference of its totals.         *)
(***************************************************************************)
EXTENDS Reconciliation, CaptureProofs, Sums

Collected(k) == stripe_pi[k].status = "succeeded"

\* Rows and books only tell of money Stripe has collected, and of none that was
\* received but not captured.
MoneyIsReal ==
    \A k \in Intents :
        /\ payment_intents[k].received <= Captured(k)
        /\ payment_intents[k].received # 0 \/ ledger[k]["payments_captured"] # 0 => Collected(k)
        /\ stripe_pi[k].status # "absent" => stripe_pi[k].amount > 0
        /\ stripe_pi[k].refunded # 0 => payment_intents[k].received # 0

ClockTypeOK ==
    /\ today \in Days
    /\ balance_transactions \in [Days -> [Intents -> [listed : BOOLEAN, net : Int]]]
    /\ listing.day = 0 \/ listing.day \in 1..(today - 1)
    /\ pass \in [seen : [Intents -> Rows], pending : SUBSET Intents, drift : SUBSET Intents]
    /\ \A run \in reconciliation_runs : run.run_date \in 1..(today - 1)

\* A day lists an intent once something was collected; what the days list adds
\* up, as far as one day or an intent without refunds can tell.
DaysAddUp ==
    \A k \in Intents :
        /\ \A d \in Days : d > today => balance_transactions[d][k] = Quiet
        /\ Collected(k) => \E d \in Days : balance_transactions[d][k].listed
        /\ \A d \in Days :
              LET b == balance_transactions[d][k] IN
              /\ ~b.listed => b.net = 0
              /\ b.listed => Collected(k)
              /\ b.listed /\ stripe_pi[k].refunded = 0 => b.net = stripe_pi[k].amount
              /\ (\A e \in Days \ {d} : ~balance_transactions[e][k].listed) => b.net = Net(k)

\* What was listed of a day that is over is what there is of it.
ListingHolds ==
    listing.day # 0 => listing.stripe = balance_transactions[listing.day]

\* A pass has read rows that are exceeded since, not contradicted; what it has
\* reported was, by then, more in the books than the row had, or unsettled there.
DriftHolds ==
    \A k \in Intents :
        LET row == pass.seen[k] IN
        /\ row.refunded <= ledger[k]["customer"] /\ row.received <= Captured(k)
        /\ k \in pass.drift =>
              IF row.status = "succeeded"
              THEN row.refunded < ledger[k]["customer"] \/ row.received < Captured(k)
              ELSE Collected(k)

\* The inductive invariant of the worker beside the gateway.
WInv ==
    /\ RInv
    /\ MoneyIsReal /\ ClockTypeOK /\ DaysAddUp
    /\ ListingHolds /\ DriftHolds /\ UnbookedIsReported

-----------------------------------------------------------------------------
(* The worker only reads.                                                  *)

LEMMA BesideWorker ==
    ASSUME [ReconciliationNext]_allVars
    PROVE  [Next]_vars
  BY DEF ReconciliationNext, allVars, RequestMoves, HookMoves, StripeMoves, Midnight,
         ListTransactions, ReconcileDay, AbortRun, StartPass, CheckIntent, AbortPass, Next

\* The gateway's invariants hold beside the worker.
THEOREM WorkerOnlyReads == ReconciliationSpec => Spec
  <1>1. ReconciliationInit => Init
    BY DEF ReconciliationInit
  <1>2. [ReconciliationNext]_allVars => [Next]_vars
    BY BesideWorker
  <1> QED BY <1>1, <1>2, PTL DEF ReconciliationSpec, Spec

-----------------------------------------------------------------------------
(* What Stripe has collected stays collected.                              *)

\* An amount is fixed, refunds only add up, and only of what our row received.
StripeGoesOn ==
    \A k \in Intents :
        /\ stripe_pi[k].status # "absent" =>
               /\ stripe_pi'[k].status # "absent"
               /\ stripe_pi'[k].amount = stripe_pi[k].amount
               /\ stripe_pi'[k].refunded >= stripe_pi[k].refunded
        /\ stripe_pi[k].status = "succeeded" => stripe_pi'[k].status = "succeeded"
        /\ stripe_pi'[k].status # "absent" => stripe_pi'[k].amount > 0
        /\ stripe_pi'[k].refunded # 0 => payment_intents[k].received # 0

LEMMA ObjectStays ==
    ASSUME TypeOK, MoneyIsReal, stripe_pi' = stripe_pi
    PROVE  StripeGoesOn
  BY DEF TypeOK, StripeObjects, MoneyIsReal, StripeGoesOn

LEMMA ObjectGoesOn ==
    ASSUME TypeOK, MoneyIsReal, NEW k \in Intents, NEW pi,
           stripe_pi' = [stripe_pi EXCEPT ![k] = pi],
           stripe_pi[k].status # "absent" =>
               /\ pi.status # "absent" /\ pi.amount = stripe_pi[k].amount
               /\ pi.refunded >= stripe_pi[k].refunded,
           stripe_pi[k].status = "succeeded" => pi.status = "succeeded",
           pi.status # "absent" => pi.amount > 0,
           pi.refunded # 0 => payment_intents[k].received # 0
    PROVE  StripeGoesOn
  <1>1. stripe_pi'[k] = pi /\ \A j \in Intents \ {k} : stripe_pi'[j] = stripe_pi[j]
    BY DEF TypeOK
  <1> QED BY <1>1 DEF TypeOK, StripeObjects, MoneyIsReal, StripeGoesOn

\* Only the status changes, of an object that has none that is final.
LEMMA StatusGoesOn ==
    ASSUME TypeOK, MoneyIsReal, NEW k \in Intents, NEW status \in Statuses,
           stripe_pi' = [stripe_pi EXCEPT ![k].status = status],
           stripe_pi[k].status \notin {"absent", "succeeded"}
    PROVE  StripeGoesOn
  <1> DEFINE pi == [stripe_pi[k] EXCEPT !.status = status]
  <1>1. stripe_pi[k] \in StripeObjects
    BY DEF TypeOK
  <1>2. /\ pi.status = status /\ status # "absent"
        /\ pi.amount = stripe_pi[k].amount /\ pi.refunded = stripe_pi[k].refunded
    BY <1>1 DEF StripeObjects, Statuses
  <1>3. stripe_pi' = [stripe_pi EXCEPT ![k] = pi] /\ stripe_pi[k].refunded \in Nat
    BY <1>1 DEF StripeObjects
  <1>4. /\ stripe_pi[k].amount > 0
        /\ stripe_pi[k].refunded # 0 => payment_intents[k].received # 0
    BY DEF MoneyIsReal
  <1>5. pi.refunded >= stripe_pi[k].refunded /\ pi.amount > 0
    BY <1>2, <1>3, <1>4
  <1> HIDE DEF pi
  <1> QED BY <1>2, <1>3, <1>4, <1>5, ObjectGoesOn

LEMMA RequestsGoOn ==
    ASSUME RInv, MoneyIsReal, NEW r \in Requests, PaymentStep(r)
    PROVE  StripeGoesOn
  <1> USE RequestType DEF stripe
  <1>0. TypeOK
    BY DEF RInv, IInv
  <1>1. CASE stripe_pi' = stripe_pi
    BY <1>0, <1>1, ObjectStays
  <1>2. CASE CreateStripe(r) /\ stripe_pi' # stripe_pi
    <2> DEFINE pi == [status |-> "requires_payment_method", amount |-> r.amount, refunded |-> 0]
    <2>1. stripe_pi[r.intent].status = "absent" /\ stripe_pi' = [stripe_pi EXCEPT ![r.intent] = pi]
          /\ r.op \in Creating
      BY <1>2 DEF CreateStripe, CreateAtStripe
    <2>2. pi.amount = r.amount /\ pi.refunded = 0 /\ pi.status = "requires_payment_method"
      OBVIOUS
    <2> HIDE DEF pi
    <2> QED BY <1>0, <2>1, <2>2, ObjectGoesOn
  <1>3. CASE ConfirmStripe(r) /\ stripe_pi' # stripe_pi
    <2>1. PICK reply \in Statuses : ConfirmAtStripe(r, reply)
      BY <1>3 DEF ConfirmStripe
    <2>2. Payable(r.intent) /\ stripe_pi' = [stripe_pi EXCEPT ![r.intent].status = reply]
      BY <1>3, <2>1 DEF ConfirmAtStripe, Execute, Replay
    <2> QED BY <1>0, <2>2, StatusGoesOn DEF Payable
  <1>4. CASE CancelStripe(r) /\ stripe_pi' # stripe_pi
    <2>1. PICK reply \in Statuses : CancelAtStripe(r, reply)
      BY <1>4 DEF CancelStripe
    <2>2. Unsettled(r.intent) /\ stripe_pi' = [stripe_pi EXCEPT ![r.intent].status = reply]
      BY <1>4, <2>1 DEF CancelAtStripe, Execute, Replay
    <2> QED BY <1>0, <2>2, StatusGoesOn DEF Unsettled, Payable
  <1>5. CASE RefundStripe(r) /\ stripe_pi' # stripe_pi
    <2> DEFINE k == r.intent
               row == call[r].seen
               n == RefundAmount(r, row)
               pi == [stripe_pi[k] EXCEPT !.refunded = @ + n]
    <2>1. MayRefund(r, row) /\ row.received = payment_intents[k].received /\ row \in Rows
      BY <1>0, <1>5 DEF RefundStripe, RInv, IInv, CallsOK, RefundsFit, TypeOK, Calls
    <2>2. n \in Int /\ n > 0
      BY <2>1, RefundAmountType
    <2>3. payment_intents[k].received # 0
      BY <2>1 DEF MayRefund, Refundable, Rows
    <2>4. stripe_pi[k].status = "succeeded" /\ stripe_pi' = [stripe_pi EXCEPT ![k] = pi]
      BY <1>5 DEF RefundStripe, RefundAtStripe, Execute, Replay
    <2>5. stripe_pi[k] \in StripeObjects
      BY <1>0 DEF TypeOK
    <2> HIDE DEF n
    <2>6. /\ pi.status = stripe_pi[k].status /\ pi.amount = stripe_pi[k].amount
          /\ pi.refunded = stripe_pi[k].refunded + n /\ stripe_pi[k].refunded \in Nat
      BY <2>5 DEF StripeObjects
    <2>7. stripe_pi[k].amount > 0
      BY <2>4 DEF MoneyIsReal
    <2>8. pi.refunded >= stripe_pi[k].refunded
      BY <2>2, <2>6
    <2> HIDE DEF pi
    <2> QED BY <1>0, <2>3, <2>4, <2>6, <2>7, <2>8, ObjectGoesOn
  <1> QED BY <1>1, <1>2, <1>3, <1>4, <1>5
          DEF PaymentStep, CreateFind, CreateCommit, ConfirmFind, ConfirmCommit,
              CancelFind, CancelCommit, RefundFind, RefundCommit, Abort

LEMMA StripesGoOn ==
    ASSUME TypeOK, MoneyIsReal, StripeNext
    PROVE  StripeGoesOn
  <1>1. PICK k \in Intents : CustomerPays(k) \/ Settle(k) \/ PaidElsewhere(k)
    BY DEF StripeNext
  <1>2. CASE CustomerPays(k) \/ Settle(k)
    <2>1. PICK s \in Statuses : stripe_pi' = [stripe_pi EXCEPT ![k].status = s]
      BY <1>2 DEF CustomerPays, Settle, Statuses
    <2> QED BY <1>2, <2>1, StatusGoesOn DEF CustomerPays, Settle, Payable
  <1>3. CASE PaidElsewhere(k)
    <2> DEFINE pi == [status |-> "succeeded", amount |-> 1, refunded |-> 0]
    <2>1. stripe_pi[k].status = "absent" /\ stripe_pi' = [stripe_pi EXCEPT ![k] = pi]
      BY <1>3 DEF PaidElsewhere
    <2>2. pi.amount > 0 /\ pi.refunded = 0 /\ pi.status = "succeeded"
      OBVIOUS
    <2> HIDE DEF pi
    <2> QED BY <1>1, <2>1, <2>2, ObjectGoesOn
  <1> QED BY <1>1, <1>2, <1>3

LEMMA NextGoesOn ==
    ASSUME RInv, MoneyIsReal, [Next]_vars
    PROVE  StripeGoesOn
  <1>0. TypeOK
    BY DEF RInv, IInv
  <1>1. CASE stripe_pi' = stripe_pi
    BY <1>0, <1>1, ObjectStays
  <1>2. CASE stripe_pi' # stripe_pi
    <2> USE DEF tables, pages, stripe
    <2>1. ASSUME NEW r \in Requests, RequestStep(r)
          PROVE  PaymentStep(r)
      BY <1>2, <2>1 DEF RequestStep, SessionStep, FindSession, InsertSession, TTLPasses
    <2>2. ASSUME NEW v \in Viewers, NEW r \in Requests, PageStep(v, r)
          PROVE  FALSE
      BY <1>2, <2>2 DEF PageStep, ViewSession, ExpireSession, AbortView
    <2>3. ASSUME NEW d \in Deliveries, HookStep(d)
          PROVE  FALSE
      BY <1>2, <2>3 DEF HookStep, Receive, InsertEvent, Apply, FindSessionOfEvent,
                        CompleteSession, Finish, AbortHook
    <2>4. ~UNCHANGED vars
      BY <1>2 DEF vars
    <2> QED BY <1>0, <2>1, <2>2, <2>3, <2>4, RequestsGoOn, StripesGoOn DEF Next
  <1> QED BY <1>1, <1>2

-----------------------------------------------------------------------------
(* What was received and captured stays so.                                *)

RowsGoOn ==
    \A k \in Intents :
        /\ payment_intents'[k].received >= payment_intents[k].received
        /\ Captured(k)' >= Captured(k)

LEMMA MoneyTypes ==
    ASSUME TypeOK, NEW k \in Intents
    PROVE  /\ payment_intents[k] \in Rows /\ ledger[k] \in Books
           /\ payment_intents[k].amount \in Nat
           /\ payment_intents[k].received \in Nat /\ payment_intents[k].refunded \in Nat
           /\ ledger[k]["customer"] \in Int /\ ledger[k]["payments_captured"] \in Int
           /\ Captured(k) = CapturedIn(ledger[k]) /\ Captured(k) \in Int
  BY DEF TypeOK, Rows, Books, Accounts, Captured, CapturedIn

\* The row and the books of k change, and those of no other intent.
LEMMA PostGoesOn ==
    ASSUME TypeOK, MoneyIsReal, StripeGoesOn, NEW k \in Intents, NEW row, NEW books \in Books,
           payment_intents' = [payment_intents EXCEPT ![k] = row],
           ledger' = [ledger EXCEPT ![k] = books], row.received \in Nat,
           row.received >= payment_intents[k].received,
           CapturedIn(books) >= Captured(k), row.received <= CapturedIn(books),
           row.received # 0 \/ books["payments_captured"] # 0 => Collected(k)'
    PROVE  RowsGoOn /\ MoneyIsReal'
  <1>1. /\ payment_intents'[k] = row /\ ledger'[k] = books
        /\ \A j \in Intents \ {k} :
               payment_intents'[j] = payment_intents[j] /\ ledger'[j] = ledger[j]
    BY DEF TypeOK
  <1>2. Captured(k)' = CapturedIn(books)
    BY <1>1 DEF Captured, CapturedIn
  <1>3. \A j \in Intents \ {k} : Captured(j)' = Captured(j)
    BY <1>1 DEF Captured
  <1>4. ASSUME NEW j \in Intents
        PROVE  /\ payment_intents'[j].received >= payment_intents[j].received
               /\ Captured(j)' >= Captured(j)
               /\ payment_intents'[j].received <= Captured(j)'
               /\ payment_intents[j].received # 0 => payment_intents'[j].received # 0
               /\ payment_intents'[j].received # 0 \/ ledger'[j]["payments_captured"] # 0 =>
                      Collected(j)'
    <2>1. CASE j = k
      BY <1>1, <1>2, <2>1, MoneyTypes
    <2>2. CASE j # k
      <3>1. Collected(j) => Collected(j)'
        BY DEF StripeGoesOn, Collected
      <3>2. payment_intents[j].received <= Captured(j)
        BY DEF MoneyIsReal
      <3>3. payment_intents[j].received # 0 \/ ledger[j]["payments_captured"] # 0 => Collected(j)
        BY DEF MoneyIsReal
      <3> QED BY <1>1, <1>3, <2>2, <3>1, <3>2, <3>3, MoneyTypes
    <2> QED BY <2>1, <2>2
  <1>5. RowsGoOn
    BY <1>4 DEF RowsGoOn
  <1>6. MoneyIsReal'
    BY <1>4 DEF MoneyIsReal, StripeGoesOn
  <1> QED BY <1>5, <1>6

\* The five postings: only a capture is received or captured more by, and it is
\* of a payment that Stripe has collected (TerminalAgrees).
LEMMA PostingGoesOn ==
    ASSUME IInv, IInv', MoneyIsReal, StripeGoesOn, Posting
    PROVE  RowsGoOn /\ MoneyIsReal'
  <1>0. TypeOK /\ TypeOK'
    BY DEF IInv
  <1>1. CASE UNCHANGED <<payment_intents, ledger>>
    <2>1. \A k \in Intents : Captured(k)' = Captured(k)
      BY <1>1 DEF Captured
    <2> QED BY <1>0, <1>1, <2>1, MoneyTypes DEF RowsGoOn, MoneyIsReal, StripeGoesOn, Collected
  <1>2. ASSUME NEW k \in Intents, NEW row, NEW books,
               payment_intents' = [payment_intents EXCEPT ![k] = row],
               ledger' = [ledger EXCEPT ![k] = books]
        PROVE  payment_intents'[k] = row /\ ledger'[k] = books /\ books \in Books
    BY <1>0, <1>2 DEF TypeOK
  <1>3. ASSUME NEW k \in Intents
        PROVE  /\ payment_intents[k].received # 0 => Collected(k)'
               /\ ledger[k]["payments_captured"] # 0 => Collected(k)'
               /\ payment_intents[k].received <= Captured(k)
               /\ payment_intents'[k].status = "succeeded" => Collected(k)'
               /\ payment_intents[k].received \in {0, payment_intents[k].amount}
               /\ ~Exists(k) => payment_intents[k].received = 0
    BY DEF MoneyIsReal, StripeGoesOn, Collected, IInv, TerminalAgrees, RefundsFit, NoRow
  <1>p. SUFFICES ASSUME NEW k \in Intents,
                        \/ PostingsOfTables!Accrue(k) \/ PostingsOfTables!SetStatus(k)
                        \/ PostingsOfTables!Reverse(k) \/ PostingsOfTables!Capture(k)
                        \/ PostingsOfTables!Refund(k)
                 PROVE  RowsGoOn /\ MoneyIsReal'
    BY <1>1 DEF Posting, PostingsOfTables!Next
  <1> DEFINE old == payment_intents[k]
             books == ledger[k]
  <1>t. /\ old \in Rows /\ old.amount \in Nat /\ old.received \in Nat
        /\ books \in Books /\ Captured(k) = CapturedIn(books) /\ Captured(k) \in Int
        /\ books["customer"] \in Int /\ books["payments_captured"] \in Int
    BY <1>0, MoneyTypes
  <1>u. ASSUME NEW n
        PROVE  /\ Transfer(books, "customer_pending", "payments_authorised", n)["payments_captured"]
                      = books["payments_captured"]
               /\ Transfer(books, "payments_authorised", "customer_pending", n)["payments_captured"]
                      = books["payments_captured"]
    BY <1>t DEF Transfer, Books, Accounts
  <1>4. CASE PostingsOfTables!Accrue(k)
    <2>1. PICK n \in {q.amount : q \in Requests} \ {0}, s \in Statuses :
              PostingsOfTables!Post(k,
                  [status |-> s, amount |-> n, received |-> 0, refunded |-> 0],
                  "customer_pending", "payments_authorised", n)
      BY <1>4 DEF PostingsOfTables!Accrue
    <2> DEFINE row == [status |-> s, amount |-> n, received |-> 0, refunded |-> 0]
               new == Transfer(books, "customer_pending", "payments_authorised", n)
    <2>2. /\ payment_intents' = [payment_intents EXCEPT ![k] = row]
          /\ ledger' = [ledger EXCEPT ![k] = new] /\ row.received = 0
      BY <2>1 DEF PostingsOfTables!Post, PostingsOfTables!Transfer, Transfer
    <2>n. n \in Int
      BY RequestType
    <2>3. CapturedIn(new) = CapturedIn(books) /\ new["payments_captured"] = books["payments_captured"]
      BY <1>t, <1>u, <2>n, CapturedTransfer
    <2>4. old.received = 0
      BY <1>3, <1>4 DEF PostingsOfTables!Accrue, PostingsOfTables!Recorded, Exists
    <2> HIDE DEF row, new
    <2>5. /\ row.received \in Nat /\ row.received >= old.received
          /\ CapturedIn(new) >= Captured(k) /\ row.received <= CapturedIn(new)
          /\ row.received # 0 \/ new["payments_captured"] # 0 => Collected(k)'
      BY <1>3, <1>t, <2>2, <2>3, <2>4
    <2> QED BY <1>0, <1>2, <2>2, <2>5, PostGoesOn
  <1>5. CASE PostingsOfTables!SetStatus(k)
    <2>1. PICK s \in Statuses : payment_intents' = [payment_intents EXCEPT ![k].status = s]
      BY <1>5 DEF PostingsOfTables!SetStatus
    <2> DEFINE row == [old EXCEPT !.status = s]
    <2>2. /\ payment_intents' = [payment_intents EXCEPT ![k] = row]
          /\ ledger' = [ledger EXCEPT ![k] = books] /\ row.received = old.received
      BY <1>0, <1>5, <1>t, <2>1 DEF PostingsOfTables!SetStatus, TypeOK, Rows
    <2> HIDE DEF row
    <2>3. /\ row.received \in Nat /\ row.received >= old.received
          /\ CapturedIn(books) >= Captured(k) /\ row.received <= CapturedIn(books)
          /\ row.received # 0 \/ books["payments_captured"] # 0 => Collected(k)'
      BY <1>3, <1>t, <2>2
    <2> QED BY <1>0, <1>t, <2>2, <2>3, PostGoesOn
  <1>6. CASE PostingsOfTables!Reverse(k)
    <2> DEFINE row == [old EXCEPT !.status = "canceled"]
               new == Transfer(books, "payments_authorised", "customer_pending", old.amount)
    <2>1. /\ payment_intents' = [payment_intents EXCEPT ![k] = row]
          /\ ledger' = [ledger EXCEPT ![k] = new] /\ row.received = old.received
      BY <1>6, <1>t DEF PostingsOfTables!Reverse, PostingsOfTables!Post,
                        PostingsOfTables!Transfer, Transfer, Rows
    <2>2. CapturedIn(new) = CapturedIn(books) /\ new["payments_captured"] = books["payments_captured"]
      BY <1>t, <1>u, CapturedTransfer
    <2> HIDE DEF row, new
    <2>3. /\ row.received \in Nat /\ row.received >= old.received
          /\ CapturedIn(new) >= Captured(k) /\ row.received <= CapturedIn(new)
          /\ row.received # 0 \/ new["payments_captured"] # 0 => Collected(k)'
      BY <1>3, <1>t, <2>1, <2>2
    <2> QED BY <1>0, <1>2, <2>1, <2>3, PostGoesOn
  <1>7. CASE PostingsOfTables!Capture(k)
    <2> DEFINE row == [old EXCEPT !.status = "succeeded", !.received = old.amount]
               new == Transfer(books, "payments_authorised", "payments_captured", old.amount)
    <2>1. /\ payment_intents' = [payment_intents EXCEPT ![k] = row]
          /\ ledger' = [ledger EXCEPT ![k] = new]
          /\ row.received = old.amount /\ row.status = "succeeded"
      BY <1>7, <1>t DEF PostingsOfTables!Capture, PostingsOfTables!Post,
                        PostingsOfTables!Transfer, Transfer, Rows
    <2>2. CapturedIn(new) = CapturedIn(books) + old.amount
      BY <1>t, CapturedTransfer
    <2> HIDE DEF row, new
    <2>3. Collected(k)'
      BY <1>2, <1>3, <2>1
    <2>4. /\ row.received \in Nat /\ row.received >= old.received
          /\ CapturedIn(new) >= Captured(k) /\ row.received <= CapturedIn(new)
      BY <1>3, <1>t, <2>1, <2>2
    <2> QED BY <1>0, <1>2, <2>1, <2>3, <2>4, PostGoesOn
  <1>8. CASE PostingsOfTables!Refund(k)
    <2>1. PICK n \in 1..old.received : \E total \in n..old.received :
              PostingsOfTables!Post(k, [old EXCEPT !.refunded = total],
                                    "payments_captured", "customer", n)
      BY <1>8 DEF PostingsOfTables!Refund
    <2>2. PICK total \in n..old.received :
              PostingsOfTables!Post(k, [old EXCEPT !.refunded = total],
                                    "payments_captured", "customer", n)
      BY <2>1
    <2> DEFINE row == [old EXCEPT !.refunded = total]
               new == Transfer(books, "payments_captured", "customer", n)
    <2>3. /\ payment_intents' = [payment_intents EXCEPT ![k] = row]
          /\ ledger' = [ledger EXCEPT ![k] = new] /\ row.received = old.received
      BY <1>t, <2>2 DEF PostingsOfTables!Post, PostingsOfTables!Transfer, Transfer, Rows
    <2>4. n \in Int /\ old.received # 0
      BY <1>t, <2>1
    <2>5. CapturedIn(new) = CapturedIn(books)
      BY <1>t, <2>4, CapturedTransfer
    <2> HIDE DEF row, new
    <2>6. /\ row.received \in Nat /\ row.received >= old.received
          /\ CapturedIn(new) >= Captured(k) /\ row.received <= CapturedIn(new)
          /\ Collected(k)'
      BY <1>3, <1>t, <2>3, <2>4, <2>5
    <2> QED BY <1>0, <1>2, <2>3, <2>6, PostGoesOn
  <1> QED BY <1>p, <1>4, <1>5, <1>6, <1>7, <1>8

-----------------------------------------------------------------------------
(* The days.                                                               *)

Entry == [listed : BOOLEAN, net : Int]

\* A day that is over keeps its entries; today gets what Stripe collects.
DaysGoOn ==
    /\ balance_transactions' \in [Days -> [Intents -> Entry]]
    /\ \A k \in Intents :
          /\ \A d \in Days \ {today} : balance_transactions'[d][k] = balance_transactions[d][k]
          /\ Net(k)' = Net(k) => balance_transactions'[today][k] = balance_transactions[today][k]
          /\ Net(k)' # Net(k) =>
                balance_transactions'[today][k] =
                    [listed |-> TRUE,
                     net |-> balance_transactions[today][k].net + (Net(k)' - Net(k))]

LEMMA NetType ==
    ASSUME TypeOK, NEW k \in Intents
    PROVE  Net(k) \in Int /\ (~Collected(k) => Net(k) = 0)
           /\ (Collected(k) => Net(k) = stripe_pi[k].amount - stripe_pi[k].refunded)
           /\ stripe_pi[k].amount \in Nat /\ stripe_pi[k].refunded \in Nat
  BY DEF TypeOK, StripeObjects, Net, Collected

LEMMA NetTypeNext ==
    ASSUME TypeOK', NEW k \in Intents
    PROVE  Net(k)' \in Int /\ (~Collected(k)' => Net(k)' = 0)
           /\ (Collected(k)' => Net(k)' = stripe_pi'[k].amount - stripe_pi'[k].refunded)
           /\ stripe_pi'[k].amount \in Nat /\ stripe_pi'[k].refunded \in Nat
  BY DEF TypeOK, StripeObjects, Net, Collected

LEMMA EnteredGoesOn ==
    ASSUME TypeOK, TypeOK', ClockTypeOK, Entered
    PROVE  DaysGoOn
  <1>1. /\ balance_transactions \in [Days -> [Intents -> Entry]] /\ today \in Days
        /\ \A k \in Intents : Net(k) \in Int /\ Net(k)' \in Int
    BY NetType, NetTypeNext DEF ClockTypeOK, Entry
  <1> DEFINE day == [k \in Intents |->
                 IF Net(k)' = Net(k) THEN balance_transactions[today][k]
                 ELSE [listed |-> TRUE,
                       net |-> balance_transactions[today][k].net + Net(k)' - Net(k)]]
  <1>2. balance_transactions' = [balance_transactions EXCEPT ![today] = day]
    BY <1>1 DEF Entered
  <1>3. /\ balance_transactions'[today] = day
        /\ \A d \in Days \ {today} : balance_transactions'[d] = balance_transactions[d]
    BY <1>1, <1>2
  <1>4. ASSUME NEW k \in Intents
        PROVE  /\ day[k] \in Entry
               /\ Net(k)' = Net(k) => day[k] = balance_transactions[today][k]
               /\ Net(k)' # Net(k) =>
                     day[k] = [listed |-> TRUE,
                               net |-> balance_transactions[today][k].net + (Net(k)' - Net(k))]
    <2>1. balance_transactions[today][k].net \in Int /\ balance_transactions[today][k] \in Entry
      BY <1>1 DEF Entry
    <2>2. balance_transactions[today][k].net + Net(k)' - Net(k)
              = balance_transactions[today][k].net + (Net(k)' - Net(k))
          /\ balance_transactions[today][k].net + Net(k)' - Net(k) \in Int
      BY <1>1, <2>1
    <2> QED BY <2>1, <2>2 DEF Entry
  <1>5. day \in [Intents -> Entry]
    BY <1>4
  <1> HIDE DEF day
  <1>6. balance_transactions' \in [Days -> [Intents -> Entry]]
    BY <1>1, <1>2, <1>5
  <1> QED BY <1>3, <1>4, <1>6 DEF DaysGoOn

LEMMA UnenteredGoesOn ==
    ASSUME ClockTypeOK, UNCHANGED <<stripe_pi, balance_transactions>>
    PROVE  DaysGoOn
  <1>1. \A k \in Intents : Net(k)' = Net(k)
    BY DEF Net
  <1> QED BY <1>1 DEF DaysGoOn, ClockTypeOK, Entry

LEMMA DaysStayAddedUp ==
    ASSUME TypeOK, TypeOK', MoneyIsReal, StripeGoesOn,
           ClockTypeOK, DaysAddUp, DaysGoOn, today' \in Days, today' >= today
    PROVE  DaysAddUp'
  <1> SUFFICES ASSUME NEW k \in Intents
               PROVE  /\ \A d \in Days : d > today' => balance_transactions'[d][k] = Quiet
                      /\ Collected(k)' => \E d \in Days : balance_transactions'[d][k].listed
                      /\ \A d \in Days :
                            /\ ~balance_transactions'[d][k].listed =>
                                  balance_transactions'[d][k].net = 0
                            /\ balance_transactions'[d][k].listed => Collected(k)'
                            /\ balance_transactions'[d][k].listed /\ stripe_pi'[k].refunded = 0 =>
                                  balance_transactions'[d][k].net = stripe_pi'[k].amount
                            /\ (\A e \in Days \ {d} : ~balance_transactions'[e][k].listed) =>
                                  balance_transactions'[d][k].net = Net(k)'
    BY DEF DaysAddUp
  <1> DEFINE b(d) == balance_transactions[d][k]
             c(d) == balance_transactions'[d][k]
             net == Net(k)
             net2 == Net(k)'
             amount == stripe_pi[k].amount
             amount2 == stripe_pi'[k].amount
             refunded == stripe_pi[k].refunded
             refunded2 == stripe_pi'[k].refunded
             paid == Collected(k)
             paid2 == Collected(k)'
  <1>1. /\ today \in Days
        /\ \A d \in Days : b(d) \in Entry /\ b(d).net \in Int /\ b(d).listed \in BOOLEAN
    BY DEF ClockTypeOK, Entry
  <1>2. /\ \A d \in Days \ {today} : c(d) = b(d)
        /\ net2 = net => c(today) = b(today)
        /\ net2 # net => c(today).listed /\ c(today).net = b(today).net + (net2 - net)
    <2>1. ASSUME net2 # net
          PROVE  c(today).listed /\ c(today).net = b(today).net + (net2 - net)
      <3>1. c(today) = [listed |-> TRUE, net |-> b(today).net + (net2 - net)]
        BY <2>1 DEF DaysGoOn
      <3> HIDE DEF b, c, net, net2
      <3> QED BY <3>1
    <2>2. /\ \A d \in Days \ {today} : c(d) = b(d)
          /\ net2 = net => c(today) = b(today)
      BY DEF DaysGoOn
    <2> QED BY <2>1, <2>2
  <1>3. /\ net \in Int /\ (~paid => net = 0) /\ (paid => net = amount - refunded)
        /\ net2 \in Int /\ (~paid2 => net2 = 0) /\ (paid2 => net2 = amount2 - refunded2)
        /\ amount \in Nat /\ refunded \in Nat /\ amount2 \in Nat /\ refunded2 \in Nat
    BY NetType, NetTypeNext
  <1>4. /\ paid => paid2 /\ amount2 = amount /\ refunded2 >= refunded
        /\ paid2 => amount2 > 0
        /\ refunded2 # 0 => paid
    BY DEF StripeGoesOn, MoneyIsReal, Collected
  <1>5. /\ \A d \in Days : d > today => b(d) = Quiet
        /\ paid => \E d \in Days : b(d).listed
        /\ \A d \in Days :
              /\ ~b(d).listed => b(d).net = 0
              /\ b(d).listed => paid
              /\ b(d).listed /\ refunded = 0 => b(d).net = amount
              /\ (\A e \in Days \ {d} : ~b(e).listed) => b(d).net = net
    BY DEF DaysAddUp
  <1> HIDE DEF b, c, net, net2, amount, amount2, refunded, refunded2, paid, paid2
  <1>6. ASSUME NEW d \in Days, d > today'
        PROVE  c(d) = Quiet
    BY <1>1, <1>2, <1>5, <1>6 DEF Days
  <1>7. paid2 => \E d \in Days : c(d).listed
    <2>1. CASE paid
      BY <1>1, <1>2, <1>5, <2>1
    <2>2. CASE ~paid /\ paid2
      BY <1>1, <1>2, <1>3, <1>4, <2>2
    <2> QED BY <1>4, <2>1, <2>2
  <1>8. net2 # net => paid2
    BY <1>3, <1>4
  <1>9. ASSUME NEW d \in Days
        PROVE  /\ ~c(d).listed => c(d).net = 0
               /\ c(d).listed => paid2
               /\ c(d).listed /\ refunded2 = 0 => c(d).net = amount2
    <2>1. CASE c(d) = b(d)
      BY <1>3, <1>4, <1>5, <2>1
    <2>2. CASE c(d) # b(d)
      <3>1. d = today /\ net2 # net /\ paid2
        BY <1>2, <1>8, <2>2
      <3>2. ASSUME refunded2 = 0
            PROVE  c(d).net = amount2
        <4>1. ~paid
          BY <1>3, <1>4, <3>1, <3>2
        <4>2. b(d).net = 0 /\ net = 0 /\ net2 = amount2
          BY <1>3, <1>5, <3>1, <3>2, <4>1
        <4> QED BY <1>2, <1>3, <3>1, <4>2
      <3> QED BY <1>2, <3>1, <3>2
    <2> QED BY <2>1, <2>2
  <1>10. ASSUME NEW d \in Days, \A e \in Days \ {d} : ~c(e).listed
         PROVE  c(d).net = net2
    <2>1. CASE net2 = net
      <3>1. \A e \in Days : c(e) = b(e)
        BY <1>2, <2>1
      <3> QED BY <1>5, <1>10, <2>1, <3>1
    <2>2. CASE net2 # net
      <3>1. d = today
        BY <1>1, <1>2, <1>10, <2>2
      <3>2. b(d).net = net
        BY <1>2, <1>5, <1>10, <3>1
      <3> QED BY <1>1, <1>2, <1>3, <2>2, <3>1, <3>2
    <2> QED BY <2>1, <2>2
  <1> QED BY <1>6, <1>7, <1>9, <1>10 DEF b, c, net2, amount2, refunded2, paid2

LEMMA GatewayGoesOn ==
    ASSUME RInv, MoneyIsReal, [ReconciliationNext]_allVars
    PROVE  RInv' /\ StripeGoesOn /\ RowsGoOn /\ MoneyIsReal' /\ Kept
  <1>1. RInv'
    BY BesideWorker, NextRInv
  <1>2. StripeGoesOn /\ Posting
    BY BesideWorker, NextGoesOn, NextPosts
  <1> QED BY <1>1, <1>2, PostingGoesOn, PostingKeeps DEF RInv

LEMMA ClockGoesOn ==
    ASSUME TypeOK, TypeOK', ClockTypeOK, [ReconciliationNext]_allVars
    PROVE  DaysGoOn /\ today' \in Days /\ today' >= today
  <1> USE DEF tables, pages, stripe, vars, clock, worker
  <1>0. today \in Days /\ LastDay \in Nat
    BY DaysAssumption DEF ClockTypeOK
  <1>1. CASE today' = today /\ Entered
    BY <1>0, <1>1, EnteredGoesOn DEF Days
  <1>2. CASE today' = today /\ UNCHANGED <<stripe_pi, balance_transactions>>
    BY <1>0, <1>2, UnenteredGoesOn DEF Days
  <1>3. CASE Midnight
    BY <1>0, <1>3, UnenteredGoesOn DEF Midnight, Days
  <1>4. ASSUME NEW d \in Deliveries, HookMoves(d)
        PROVE  today' = today /\ UNCHANGED <<stripe_pi, balance_transactions>>
    BY <1>4 DEF HookMoves, HookStep, Receive, InsertEvent, Apply, FindSessionOfEvent,
                CompleteSession, Finish, AbortHook
  <1>5. CASE \/ ListTransactions \/ ReconcileDay \/ AbortRun \/ StartPass
             \/ (\E k \in Intents : CheckIntent(k)) \/ AbortPass
    BY <1>2, <1>5 DEF ListTransactions, ReconcileDay, AbortRun, StartPass, CheckIntent, AbortPass
  <1>6. CASE UNCHANGED allVars
    BY <1>2, <1>6 DEF allVars
  <1> QED BY <1>1, <1>2, <1>3, <1>4, <1>5, <1>6 DEF ReconciliationNext, RequestMoves, StripeMoves

LEMMA DaysOver ==
    ASSUME ClockTypeOK, DaysGoOn
    PROVE  \A d \in 1..(today - 1) : d \in Days /\ balance_transactions'[d] = balance_transactions[d]
  <1>1. ASSUME NEW d \in Days \ {today}
        PROVE  balance_transactions'[d] = balance_transactions[d]
    <2>1. /\ balance_transactions'[d] \in [Intents -> Entry]
          /\ balance_transactions[d] \in [Intents -> Entry]
      BY DEF DaysGoOn, ClockTypeOK, Entry
    <2>2. \A k \in Intents : balance_transactions'[d][k] = balance_transactions[d][k]
      BY DEF DaysGoOn
    <2> QED BY <2>1, <2>2
  <1>2. \A d \in 1..(today - 1) : d \in Days \ {today}
    BY DaysAssumption DEF ClockTypeOK, Days
  <1> QED BY <1>1, <1>2

\* The day that is listed, and the days that have been, are over.
LEMMA ClockStays ==
    ASSUME TypeOK, ClockTypeOK, ListingHolds, DaysGoOn, today' \in Days, today' >= today,
           [ReconciliationNext]_allVars
    PROVE  ClockTypeOK' /\ ListingHolds'
  <1> USE DEF vars, clock, worker
  <1>0. /\ today \in Nat /\ today' \in Nat /\ LastDay \in Nat /\ today \in Days
        /\ listing.day = 0 \/ listing.day \in 1..(today - 1)
        /\ \A run \in reconciliation_runs : run.run_date \in 1..(today - 1)
    BY DaysAssumption DEF ClockTypeOK, Days
  <1>1. \A d \in 1..(today - 1) : balance_transactions'[d] = balance_transactions[d]
    BY DaysOver
  <1>2. /\ listing'.day = 0 \/ listing'.day \in 1..(today' - 1)
        /\ listing'.day # 0 => listing'.stripe = balance_transactions'[listing'.day]
    <2>1. CASE listing' = listing
      BY <1>0, <1>1, <2>1 DEF ListingHolds
    <2>2. CASE ListTransactions
      <3>1. /\ listing'.day = today - 1 /\ today - 1 \in 1..(today - 1)
            /\ listing'.stripe = balance_transactions[today - 1]
        BY <1>0, <2>2 DEF ListTransactions
      <3>2. balance_transactions'[today - 1] = balance_transactions[today - 1]
        BY <1>1, <3>1
      <3>3. today > 1 /\ today - 1 \in 1..(today' - 1)
        <4>1. today \in Nat /\ today' \in Nat /\ today > 1 /\ today' >= today
          BY <1>0, <2>2 DEF ListTransactions
        <4>2. \A t, u \in Nat : t > 1 /\ u >= t => t - 1 \in 1..(u - 1)
          OBVIOUS
        <4> QED BY <4>1, <4>2
      <3> QED BY <3>1, <3>2, <3>3
    <2>3. CASE listing' = Idling
      BY <2>3 DEF Idling
    <2> QED BY <2>1, <2>2, <2>3
            DEF ReconciliationNext, allVars, RequestMoves, HookMoves, StripeMoves, Midnight,
                ReconcileDay, AbortRun, StartPass, CheckIntent, AbortPass
  <1>3. \A run \in reconciliation_runs' : run.run_date \in 1..(today' - 1)
    <2>1. CASE reconciliation_runs' = reconciliation_runs
      BY <1>0, <2>1
    <2>2. CASE ReconcileDay
      <3>1. \A run \in reconciliation_runs' :
                run \in reconciliation_runs \/ run.run_date = listing.day
        BY <2>2 DEF ReconcileDay
      <3> QED BY <1>0, <2>2, <3>1 DEF ReconcileDay
    <2> QED BY <2>1, <2>2
            DEF ReconciliationNext, allVars, RequestMoves, HookMoves, StripeMoves, Midnight,
                ListTransactions, AbortRun, StartPass, CheckIntent, AbortPass
  <1>4. pass' \in [seen : [Intents -> Rows], pending : SUBSET Intents, drift : SUBSET Intents]
    <2>0. pass \in [seen : [Intents -> Rows], pending : SUBSET Intents, drift : SUBSET Intents]
      BY DEF ClockTypeOK
    <2>1. CASE pass' = pass
      BY <2>0, <2>1
    <2>2. CASE StartPass
      BY <2>2, NoRowType DEF StartPass, TypeOK
    <2>3. ASSUME NEW k \in Intents, CheckIntent(k)
          PROVE  pass' \in [seen : [Intents -> Rows], pending : SUBSET Intents, drift : SUBSET Intents]
      BY <2>0, <2>3 DEF CheckIntent
    <2>4. CASE pass' = NoPass
      BY <2>4, NoRowType DEF NoPass
    <2> QED BY <2>1, <2>2, <2>3, <2>4
            DEF ReconciliationNext, allVars, RequestMoves, HookMoves, StripeMoves, Midnight,
                ListTransactions, ReconcileDay, AbortRun, AbortPass
  <1>5. ClockTypeOK'
    BY <1>2, <1>3, <1>4 DEF ClockTypeOK, DaysGoOn, Entry
  <1> QED BY <1>2, <1>5 DEF ListingHolds

-----------------------------------------------------------------------------
(* reconcile_recent.                                                       *)

LEMMA DriftStays ==
    ASSUME TypeOK, TypeOK', RefundsBooked, MoneyIsReal, ClockTypeOK, DriftHolds,
           StripeGoesOn, RowsGoOn, Kept, [ReconciliationNext]_allVars
    PROVE  DriftHolds'
  <1> USE DEF vars, clock, worker
  <1> DEFINE Exceeds(row, k) ==
                 row.refunded <= ledger[k]["customer"] /\ row.received <= Captured(k)
             Reports(row, k) ==
                 IF row.status = "succeeded"
                 THEN row.refunded < ledger[k]["customer"] \/ row.received < Captured(k)
                 ELSE Collected(k)
  <1>1. ASSUME NEW k \in Intents, NEW row \in Rows, Exceeds(row, k)
        PROVE  Exceeds(row, k)' /\ (Reports(row, k) => Reports(row, k)')
    <2>1. /\ ledger[k]["customer"] \in Int /\ Captured(k) \in Int
          /\ row.refunded \in Nat /\ row.received \in Nat
      BY MoneyTypes DEF Rows
    <2>2. ledger'[k]["customer"] \in Int /\ Captured(k)' \in Int
      BY DEF TypeOK, Books, Accounts, Captured
    <2>3. /\ ledger'[k]["customer"] >= ledger[k]["customer"] /\ Captured(k)' >= Captured(k)
          /\ Collected(k) => Collected(k)'
      BY DEF Kept, RowsGoOn, StripeGoesOn, Collected
    <2> QED BY <1>1, <2>1, <2>2, <2>3
  <1>2. ASSUME NEW k \in Intents, NEW row, row = payment_intents[k] \/ row = NoRow
        PROVE  Exceeds(row, k)
    BY <1>2, MoneyTypes DEF RefundsBooked, MoneyIsReal, NoRow
  <1>3. \A k \in Intents : /\ Exceeds(pass.seen[k], k) /\ pass.seen[k] \in Rows
                           /\ k \in pass.drift => Reports(pass.seen[k], k)
    BY DEF DriftHolds, ClockTypeOK
  <1>4. ASSUME NEW k \in Intents, NEW row \in Rows, Exceeds(row, k),
               ledger[k]["payments_captured"] # ExpectedCaptured(row)
        PROVE  Reports(row, k)
    <2>1. CASE row.status = "succeeded"
      <3>1. /\ row.refunded \in Nat /\ row.received \in Nat
            /\ ledger[k]["customer"] \in Int /\ ledger[k]["payments_captured"] \in Int
            /\ Captured(k) = ledger[k]["payments_captured"] + ledger[k]["customer"]
            /\ ledger[k]["payments_captured"] # row.received - row.refunded
        BY <1>4, <2>1, MoneyTypes DEF Rows, Captured, ExpectedCaptured
      <3> QED BY <1>4, <2>1, <3>1
    <2>2. CASE row.status # "succeeded"
      BY <1>4, <2>2 DEF ExpectedCaptured, MoneyIsReal
    <2> QED BY <2>1, <2>2
  <1> SUFFICES \A k \in Intents : /\ Exceeds(pass.seen[k], k)'
                                  /\ k \in pass'.drift => Reports(pass.seen[k], k)'
    BY DEF DriftHolds
  <1>5. CASE pass' = pass
    BY <1>1, <1>3, <1>5
  <1>6. CASE pass'.drift = {} /\ \A k \in Intents : pass'.seen[k] \in {payment_intents[k], NoRow}
    <2>1. ASSUME NEW k \in Intents
          PROVE  pass'.seen[k] \in Rows /\ Exceeds(pass'.seen[k], k)
      BY <1>2, <1>6, MoneyTypes, NoRowType
    <2> QED BY <1>1, <1>6, <2>1
  <1>7. ASSUME NEW j \in Intents, CheckIntent(j)
        PROVE  \A k \in Intents : /\ Exceeds(pass.seen[k], k)'
                                  /\ k \in pass'.drift => Reports(pass.seen[k], k)'
    <2>1. pass'.seen = pass.seen
      BY <1>7 DEF CheckIntent, ClockTypeOK
    <2>2. ASSUME NEW k \in pass'.drift
          PROVE  \/ k \in pass.drift
                 \/ k = j /\ ledger[k]["payments_captured"] # ExpectedCaptured(pass.seen[k])
      BY <1>7, <2>2 DEF CheckIntent, ClockTypeOK
    <2>3. \A k \in Intents : k \in pass'.drift => Reports(pass.seen[k], k)
      BY <1>3, <1>4, <2>2
    <2> HIDE DEF Reports
    <2> QED BY <1>1, <1>3, <2>1, <2>3
  <1>8. CASE StartPass
    BY <1>6, <1>8 DEF StartPass
  <1>9. CASE AbortPass
    BY <1>6, <1>9 DEF AbortPass, NoPass
  <1> QED BY <1>5, <1>7, <1>8, <1>9
          DEF ReconciliationNext, allVars, RequestMoves, HookMoves, StripeMoves, Midnight,
              ListTransactions, ReconcileDay, AbortRun

-----------------------------------------------------------------------------
(* reconcile_day.                                                          *)

\* A row has received what Stripe collects, or nothing.
LEMMA ReceivedAll ==
    ASSUME IInv, NEW k \in Intents, payment_intents[k].received # 0
    PROVE  payment_intents[k].received = stripe_pi[k].amount
  BY DEF IInv, RefundsFit, SameAmount, NoRow

\* What a run finds on either side, or on both sides with other amounts, is in it.
LEMMA ClassifiedFinds ==
    ASSUME NEW k \in StripeSide, k \in InternalSide => StripeAmount(k) # InternalAmount(k)
    PROVE  \E m \in Classified : m.intent = k
  <1>1. CASE k \in InternalSide
    <2> DEFINE m == Mismatch("amount_mismatch", k, StripeAmount(k), InternalAmount(k))
    <2>1. m \in Classified
      BY <1>1 DEF Classified
    <2>2. m.intent = k
      BY DEF Mismatch
    <2> HIDE DEF m
    <2> QED BY <2>1, <2>2
  <1>2. CASE k \notin InternalSide
    <2> DEFINE m == Mismatch("missing_internal", k, StripeAmount(k), 0)
    <2>1. m \in Classified
      BY <1>2 DEF Classified
    <2>2. m.intent = k
      BY DEF Mismatch
    <2> HIDE DEF m
    <2> QED BY <2>1, <2>2
  <1> QED BY <1>1, <1>2

\* What is in a run was found on one side, or on both with other amounts.
LEMMA ClassifiedFound ==
    ASSUME NEW m \in Classified
    PROVE  \E k \in Intents :
              /\ m.intent = k /\ k \in StripeSide \union InternalSide
              /\ k \in StripeSide /\ k \in InternalSide => StripeAmount(k) # InternalAmount(k)
  <1>1. ASSUME NEW k \in InternalSide \ StripeSide,
               m = Mismatch("missing_stripe", k, 0, InternalAmount(k))
        PROVE  m.intent = k
    BY <1>1 DEF Mismatch
  <1>2. ASSUME NEW k \in StripeSide \ InternalSide,
               m = Mismatch("missing_internal", k, StripeAmount(k), 0)
        PROVE  m.intent = k
    BY <1>2 DEF Mismatch
  <1>3. ASSUME NEW k \in {j \in StripeSide \intersect InternalSide :
                             StripeAmount(j) # InternalAmount(j)},
               m = Mismatch("amount_mismatch", k, StripeAmount(k), InternalAmount(k))
        PROVE  m.intent = k
    BY <1>3 DEF Mismatch
  <1>4. StripeSide \subseteq Intents /\ InternalSide \subseteq Intents
    BY DEF StripeSide, InternalSide
  <1>5. \/ \E k \in InternalSide \ StripeSide :
              m = Mismatch("missing_stripe", k, 0, InternalAmount(k))
        \/ \E k \in StripeSide \ InternalSide :
              m = Mismatch("missing_internal", k, StripeAmount(k), 0)
        \/ \E k \in {j \in StripeSide \intersect InternalSide :
                         StripeAmount(j) # InternalAmount(j)} :
              m = Mismatch("amount_mismatch", k, StripeAmount(k), InternalAmount(k))
    BY DEF Classified
  <1> QED BY <1>1, <1>2, <1>3, <1>4, <1>5

\* The run that is written is of the day that was listed, and is Classified.
LEMMA RunWritten ==
    ASSUME [ReconciliationNext]_allVars, NEW run \in reconciliation_runs' \ reconciliation_runs
    PROVE  ReconcileDay /\ run.run_date = listing.day /\ run.mismatches = Classified
  <1>1. ReconcileDay
    BY DEF ReconciliationNext, allVars, worker, RequestMoves, HookMoves, StripeMoves, Midnight,
           ListTransactions, AbortRun, StartPass, CheckIntent, AbortPass
  <1> DEFINE new == [run_date |-> listing.day,
                     total_stripe |-> SumFunction([k \in StripeSide |-> StripeAmount(k)]),
                     total_internal |-> SumFunction([k \in InternalSide |-> InternalAmount(k)]),
                     mismatches |-> Classified]
  <1>2. run = new
    BY <1>1 DEF ReconcileDay
  <1>3. new.run_date = listing.day /\ new.mismatches = Classified
    OBVIOUS
  <1> HIDE DEF new
  <1> QED BY <1>1, <1>2, <1>3

LEMMA UnbookedStays ==
    ASSUME IInv, IInv', MoneyIsReal, ClockTypeOK, DaysAddUp, ListingHolds, UnbookedIsReported,
           StripeGoesOn, RowsGoOn, DaysGoOn, [ReconciliationNext]_allVars
    PROVE  UnbookedIsReported'
  <1> USE DEF vars, clock, worker
  <1>1. SUFFICES ASSUME NEW run \in reconciliation_runs', NEW k \in Intents,
                        balance_transactions'[run.run_date][k].listed,
                        payment_intents'[k].received # stripe_pi'[k].amount
                 PROVE  \E m \in run.mismatches : m.intent = k
    BY DEF UnbookedIsReported, Reported
  <1>2. CASE run \in reconciliation_runs
    <2>1. run.run_date \in Days /\ balance_transactions[run.run_date][k].listed
      BY <1>1, <1>2, DaysOver DEF ClockTypeOK
    <2>2. Collected(k) /\ stripe_pi[k].amount > 0 /\ stripe_pi'[k].amount = stripe_pi[k].amount
      BY <2>1 DEF DaysAddUp, MoneyIsReal, StripeGoesOn, Collected
    <2>3. ASSUME payment_intents[k].received = stripe_pi[k].amount
          PROVE  FALSE
      <3>1. payment_intents'[k].received # 0
        <4>1. payment_intents[k].received \in Nat /\ payment_intents'[k].received \in Nat
          BY DEF IInv, TypeOK, Rows
        <4>2. payment_intents'[k].received >= payment_intents[k].received
          BY DEF RowsGoOn
        <4> QED BY <2>2, <2>3, <4>1, <4>2
      <3>2. payment_intents'[k].received = stripe_pi'[k].amount
        BY <3>1 DEF IInv, RefundsFit, SameAmount, NoRow, Exists
      <3> QED BY <1>1, <3>2
    <2> QED BY <1>2, <2>1, <2>3 DEF UnbookedIsReported, Reported
  <1>3. CASE run \notin reconciliation_runs
    <2>1. ReconcileDay /\ run.run_date = listing.day /\ run.mismatches = Classified
      BY <1>3, RunWritten
    <2>2. /\ listing.day \in Days /\ listing.stripe = balance_transactions[listing.day]
          /\ UNCHANGED <<balance_transactions, payment_intents, stripe_pi>>
      BY <2>1, DaysOver DEF ReconcileDay, ClockTypeOK, ListingHolds, tables, stripe
    <2>3. payment_intents[k].received = 0
      BY <1>1, <2>2, ReceivedAll
    <2>4. k \in StripeSide /\ StripeAmount(k) = stripe_pi[k].amount /\ stripe_pi[k].amount > 0
      <3>1. balance_transactions[listing.day][k].listed
        BY <1>1, <2>1, <2>2
      <3>2. Collected(k) /\ stripe_pi[k].refunded = 0
        BY <2>2, <2>3, <3>1 DEF DaysAddUp, MoneyIsReal
      <3>3. balance_transactions[listing.day][k].net = stripe_pi[k].amount
        BY <2>2, <3>1, <3>2 DEF DaysAddUp
      <3> QED BY <2>2, <3>1, <3>2, <3>3 DEF StripeSide, StripeAmount, Collected, MoneyIsReal
    <2>5. InternalAmount(k) <= 0 /\ InternalAmount(k) \in Int /\ stripe_pi[k].amount \in Nat
      BY <2>3 DEF InternalAmount, IInv, TypeOK, Rows, StripeObjects
    <2>6. StripeAmount(k) # InternalAmount(k)
      BY <2>4, <2>5
    <2> QED BY <2>1, <2>4, <2>6, ClassifiedFinds
  <1> QED BY <1>2, <1>3

\* Of what a run reports, one of the reasons that MismatchExplained names holds;
\* that the intent is not ours need not be among them.
LEMMA RunExplained ==
    ASSUME TypeOK, ClockTypeOK, DaysAddUp, ListingHolds, TerminalAgrees, ReconcileDay,
           NEW m \in Classified
    PROVE  \/ payment_intents[m.intent].status # stripe_pi[m.intent].status
           \/ payment_intents[m.intent].received - payment_intents[m.intent].refunded
                 # Net(m.intent)
           \/ updated_at[m.intent] # listing.day
           \/ \E d \in Days \ {listing.day} : balance_transactions[d][m.intent].listed
  <1>1. PICK k \in Intents :
            /\ m.intent = k /\ k \in StripeSide \union InternalSide
            /\ k \in StripeSide /\ k \in InternalSide => StripeAmount(k) # InternalAmount(k)
    BY ClassifiedFound
  <1>2. SUFFICES ASSUME payment_intents[k].status = stripe_pi[k].status,
                        payment_intents[k].received - payment_intents[k].refunded = Net(k),
                        updated_at[k] = listing.day,
                        \A d \in Days \ {listing.day} : ~balance_transactions[d][k].listed
                 PROVE  FALSE
    BY <1>1
  <1>3. listing.day \in Days /\ listing.stripe = balance_transactions[listing.day]
    BY DaysAssumption DEF ReconcileDay, ClockTypeOK, ListingHolds, Days
  <1>4. k \in StripeSide <=> Collected(k)
    BY <1>2, <1>3 DEF StripeSide, DaysAddUp
  <1>5. k \in InternalSide <=> Collected(k)
    BY <1>2 DEF InternalSide, Collected
  <1>6. StripeAmount(k) = InternalAmount(k)
    BY <1>2, <1>3 DEF StripeAmount, InternalAmount, DaysAddUp
  <1> QED BY <1>1, <1>4, <1>5, <1>6

-----------------------------------------------------------------------------
(* The totals.                                                             *)

\* What a run reports: the intents of one side only and those that differ.
Differing ==
    (InternalSide \ StripeSide) \union (StripeSide \ InternalSide)
    \union {k \in StripeSide \intersect InternalSide : StripeAmount(k) # InternalAmount(k)}

LEMMA ClassifiedAddsUp ==
    ASSUME IsFiniteSet(StripeSide), IsFiniteSet(InternalSide),
           \A k \in StripeSide : StripeAmount(k) \in Int,
           \A k \in InternalSide : InternalAmount(k) \in Int
    PROVE  SumFunction([k \in StripeSide |-> StripeAmount(k)])
               - SumFunction([k \in InternalSide |-> InternalAmount(k)])
           = SumFunction([m \in Classified |-> m.stripe_amount - m.internal_amount])
  <1> DEFINE S == StripeSide
             I == InternalSide
             U == S \union I
             D == Differing
             ours == [k \in I |-> InternalAmount(k)]
             theirs == [k \in S |-> StripeAmount(k)]
             internal == [k \in U |-> IF k \in I THEN InternalAmount(k) ELSE 0]
             atStripe == [k \in U |-> IF k \in S THEN StripeAmount(k) ELSE 0]
             gap == [k \in U |-> atStripe[k] - internal[k]]
             report == [k \in D |->
                 IF k \notin S THEN Mismatch("missing_stripe", k, 0, InternalAmount(k))
                 ELSE IF k \notin I THEN Mismatch("missing_internal", k, StripeAmount(k), 0)
                 ELSE Mismatch("amount_mismatch", k, StripeAmount(k), InternalAmount(k))]
             shown == [m \in Classified |-> m.stripe_amount - m.internal_amount]
  <1>1. /\ S \in SUBSET U /\ I \in SUBSET U /\ D \in SUBSET U
        /\ DOMAIN ours = I /\ DOMAIN theirs = S /\ DOMAIN shown = Classified
    BY DEF Differing
  <1>2. IsFiniteSet(U) /\ IsFiniteSet(D)
    <2>1. IsFiniteSet(U)
      BY FS_Union
    <2> QED BY <1>1, <2>1, FS_Subset
  <1>3. /\ IsIntOn(ours, I) /\ IsIntOn(theirs, S)
        /\ IsIntOn(internal, U) /\ IsIntOn(atStripe, U)
    BY DEF IsIntOn
  <1>4. /\ Agree(ours, internal, I) /\ \A k \in U \ I : internal[k] = 0
        /\ Agree(theirs, atStripe, S) /\ \A k \in U \ S : atStripe[k] = 0
    BY DEF Agree
  <1>5. \A k \in U : gap[k] = atStripe[k] - internal[k]
    OBVIOUS
  <1>6. \A k \in U \ D : gap[k] = 0
    <2>1. ASSUME NEW k \in U \ D
          PROVE  k \in S /\ k \in I /\ StripeAmount(k) = InternalAmount(k)
      BY DEF Differing
    <2> QED BY <2>1
  <1>7. IsIntOn(gap, D)
    BY <1>1, <1>3 DEF IsIntOn
  <1>8. Agree(gap, gap, D)
    BY DEF Agree
  <1>9. \A k \in D : /\ report[k] \in Classified /\ report[k].intent = k
                     /\ shown[report[k]] = gap[k]
    <2>1. ASSUME NEW k \in D
          PROVE  /\ report[k] \in Classified /\ report[k].intent = k
                 /\ report[k].stripe_amount - report[k].internal_amount = gap[k]
      <3>1. CASE k \in I \ S
        BY <3>1 DEF Classified, Mismatch
      <3>2. CASE k \in S \ I
        BY <3>2 DEF Classified, Mismatch
      <3>3. CASE k \in S \intersect I /\ StripeAmount(k) # InternalAmount(k)
        BY <3>3 DEF Classified, Mismatch
      <3> QED BY <2>1, <3>1, <3>2, <3>3 DEF Differing
    <2> QED BY <2>1
  <1>10. Classified = {report[k] : k \in D}
    <2>1. Classified \subseteq {report[k] : k \in D}
      BY DEF Classified, Differing
    <2> HIDE DEF D, report, shown, gap
    <2>2. {report[k] : k \in D} \subseteq Classified
      BY <1>9
    <2> QED BY <2>1, <2>2
  <1>11. \A j, k \in D : report[j] = report[k] => j = k
    <2> HIDE DEF D, report, shown, gap
    <2> QED BY <1>9
  <1>12. /\ SumFunction(ours) = SumFunctionOnSet(ours, I)
         /\ SumFunction(theirs) = SumFunctionOnSet(theirs, S)
         /\ SumFunction(shown) = SumFunctionOnSet(shown, Classified)
    BY <1>1 DEF SumFunction
  <1> HIDE DEF S, I, U, D, ours, theirs, internal, atStripe, gap, report, shown
  <1>13. SumFunctionOnSet(internal, U) = SumFunctionOnSet(ours, I)
    BY <1>1, <1>2, <1>3, <1>4, SumOfRest
  <1>14. SumFunctionOnSet(atStripe, U) = SumFunctionOnSet(theirs, S)
    BY <1>1, <1>2, <1>3, <1>4, SumOfRest
  <1>15. SumFunctionOnSet(gap, U)
             = SumFunctionOnSet(atStripe, U) - SumFunctionOnSet(internal, U)
    BY <1>2, <1>3, <1>5, SumOfDifferences
  <1>16. SumFunctionOnSet(gap, U) = SumFunctionOnSet(gap, D)
    BY <1>1, <1>2, <1>6, <1>7, <1>8, SumOfRest
  <1>17. SumFunctionOnSet(shown, {report[k] : k \in D}) = SumFunctionOnSet(gap, D)
    BY <1>2, <1>7, <1>9, <1>11, SumOfImage
  <1>18. SumFunction(theirs) - SumFunction(ours) = SumFunction(shown)
    BY <1>10, <1>12, <1>13, <1>14, <1>15, <1>16, <1>17
  <1> QED BY <1>18 DEF ours, theirs, shown, S, I

\* The payments there are at Stripe; a step adds one at most.
AtStripe == {k \in Intents : stripe_pi[k].status # "absent"}

FinitelyMany == IsFiniteSet(AtStripe)

Changes(k) == \E pi : stripe_pi' = [stripe_pi EXCEPT ![k] = pi]

LEMMA PaymentChangesOne ==
    ASSUME NEW r \in Requests, PaymentStep(r), stripe_pi' # stripe_pi
    PROVE  Changes(r.intent)
  <1> USE DEF stripe
  <1>1. CASE CreateStripe(r)
    BY <1>1 DEF CreateStripe, CreateAtStripe, Changes
  <1>2. CASE ConfirmStripe(r)
    BY <1>2 DEF ConfirmStripe, ConfirmAtStripe, Execute, Replay, Changes
  <1>3. CASE CancelStripe(r)
    BY <1>3 DEF CancelStripe, CancelAtStripe, Execute, Replay, Changes
  <1>4. CASE RefundStripe(r)
    BY <1>4 DEF RefundStripe, RefundAtStripe, Execute, Replay, Changes
  <1> QED BY <1>1, <1>2, <1>3, <1>4
          DEF PaymentStep, CreateFind, CreateCommit, ConfirmFind, ConfirmCommit,
              CancelFind, CancelCommit, RefundFind, RefundCommit, Abort

LEMMA NextChangesOne ==
    ASSUME TypeOK, [Next]_vars
    PROVE  UNCHANGED stripe_pi \/ \E k \in Intents : Changes(k)
  <1> USE DEF tables, pages, stripe
  <1> SUFFICES ASSUME stripe_pi' # stripe_pi
               PROVE  \E k \in Intents : Changes(k)
    OBVIOUS
  <1>1. ASSUME NEW r \in Requests, RequestStep(r)
        PROVE  PaymentStep(r)
    BY <1>1 DEF RequestStep, SessionStep, FindSession, InsertSession, TTLPasses
  <1>2. ASSUME NEW v \in Viewers, NEW r \in Requests, PageStep(v, r)
        PROVE  FALSE
    BY <1>2 DEF PageStep, ViewSession, ExpireSession, AbortView
  <1>3. ASSUME NEW d \in Deliveries, HookStep(d)
        PROVE  FALSE
    BY <1>3 DEF HookStep, Receive, InsertEvent, Apply, FindSessionOfEvent,
                CompleteSession, Finish, AbortHook
  <1>4. ASSUME NEW k \in Intents, CustomerPays(k) \/ Settle(k) \/ PaidElsewhere(k)
        PROVE  Changes(k)
    BY <1>4 DEF CustomerPays, Settle, PaidElsewhere, Changes
  <1>5. \A r \in Requests : r.intent \in Intents
    BY RequestType
  <1> QED BY <1>1, <1>2, <1>3, <1>4, <1>5, PaymentChangesOne DEF Next, StripeNext, vars

LEMMA AtStripeStaysFinite ==
    ASSUME TypeOK, [Next]_vars, FinitelyMany
    PROVE  FinitelyMany'
  <1>1. PICK k : AtStripe' \subseteq AtStripe \union {k}
    BY NextChangesOne DEF AtStripe, Changes, TypeOK
  <1>2. IsFiniteSet(AtStripe \union {k})
    BY FS_AddElement DEF FinitelyMany
  <1> QED BY <1>1, <1>2, FS_Subset DEF FinitelyMany

LEMMA RunAddsUp ==
    ASSUME WInv, FinitelyMany, TotalsExplained, [ReconciliationNext]_allVars
    PROVE  TotalsExplained'
  <1> DEFINE Explained(run) ==
                 run.total_stripe - run.total_internal =
                     SumFunction([m \in run.mismatches |-> m.stripe_amount - m.internal_amount])
             new == [run_date |-> listing.day,
                     total_stripe |-> SumFunction([k \in StripeSide |-> StripeAmount(k)]),
                     total_internal |-> SumFunction([k \in InternalSide |-> InternalAmount(k)]),
                     mismatches |-> Classified]
  <1>1. CASE ReconcileDay
    <2>1. listing.day \in Days /\ listing.stripe = balance_transactions[listing.day]
      <3>1. ClockTypeOK /\ ListingHolds
        BY DEF WInv
      <3> QED BY <1>1, <3>1, DaysAssumption DEF ReconcileDay, ClockTypeOK, ListingHolds, Days
    <2>2. /\ StripeSide \subseteq AtStripe
          /\ \A k \in StripeSide : StripeAmount(k) \in Int
      BY <2>1 DEF WInv, ClockTypeOK, DaysAddUp, Collected, StripeSide, StripeAmount, AtStripe
    <2>3. /\ InternalSide \subseteq AtStripe
          /\ \A k \in InternalSide : InternalAmount(k) \in Int
      BY DEF WInv, RInv, IInv, StripeKnows, Exists, TypeOK, Rows, InternalSide, InternalAmount,
             AtStripe
    <2>4. Explained(new)
      BY <2>2, <2>3, ClassifiedAddsUp, FS_Subset DEF FinitelyMany
    <2>5. reconciliation_runs' = reconciliation_runs \union {new}
      BY <1>1 DEF ReconcileDay
    <2> HIDE DEF new
    <2> QED BY <2>4, <2>5 DEF TotalsExplained
  <1>2. CASE UNCHANGED reconciliation_runs
    BY <1>2 DEF TotalsExplained
  <1> QED BY <1>1, <1>2
          DEF ReconciliationNext, allVars, worker, RequestMoves, HookMoves, StripeMoves, Midnight,
              ListTransactions, AbortRun, StartPass, CheckIntent, AbortPass

-----------------------------------------------------------------------------
(* The theorems.                                                           *)

LEMMA InitWInv == ReconciliationInit => WInv
  <1> SUFFICES ASSUME ReconciliationInit
               PROVE  WInv
    OBVIOUS
  <1> USE DEF ReconciliationInit
  <1>1. RInv
    BY InitRInv
  <1>2. /\ \A k \in Intents : /\ payment_intents[k] = NoRow /\ ledger[k] = EmptyBooks
                               /\ stripe_pi[k] = NoObject /\ Captured(k) = 0
    BY DEF Init, StateInit, Captured, EmptyBooks, Accounts
  <1>3. MoneyIsReal
    BY <1>2 DEF MoneyIsReal, NoRow, NoObject, EmptyBooks, Accounts
  <1>4. ClockTypeOK
    BY DaysAssumption, NoRowType DEF ClockTypeOK, Days, Quiet, Idling, NoPass
  <1>5. DaysAddUp
    <2>1. \A k \in Intents : ~Collected(k) /\ Net(k) = 0
      BY <1>2 DEF Collected, Net, NoObject
    <2>2. \A d \in Days, k \in Intents : /\ balance_transactions[d][k] = Quiet
                                        /\ ~Quiet.listed /\ Quiet.net = 0
      BY DEF Quiet
    <2> HIDE DEF ReconciliationInit
    <2> QED BY <2>1, <2>2 DEF DaysAddUp
  <1>6. ListingHolds /\ UnbookedIsReported
    BY DEF ListingHolds, Idling, UnbookedIsReported
  <1>7. DriftHolds
    BY <1>2 DEF DriftHolds, NoPass, NoRow, EmptyBooks, Accounts
  <1> QED BY <1>1, <1>3, <1>4, <1>5, <1>6, <1>7 DEF WInv

LEMMA NextWInv ==
    ASSUME WInv, [ReconciliationNext]_allVars
    PROVE  WInv'
  <1>1. RInv' /\ StripeGoesOn /\ RowsGoOn /\ MoneyIsReal' /\ Kept
    BY GatewayGoesOn DEF WInv
  <1>2. TypeOK /\ TypeOK' /\ IInv /\ IInv' /\ RefundsBooked
    BY <1>1 DEF WInv, RInv, IInv
  <1>3. DaysGoOn /\ today' \in Days /\ today' >= today
    BY <1>2, ClockGoesOn DEF WInv
  <1>4. DaysAddUp'
    BY <1>1, <1>2, <1>3, DaysStayAddedUp DEF WInv
  <1>5. ClockTypeOK' /\ ListingHolds'
    BY <1>2, <1>3, ClockStays DEF WInv
  <1>6. DriftHolds'
    BY <1>1, <1>2, DriftStays DEF WInv
  <1>7. UnbookedIsReported'
    BY <1>1, <1>2, <1>3, UnbookedStays DEF WInv
  <1> QED BY <1>1, <1>4, <1>5, <1>6, <1>7 DEF WInv

\* Rows tell of money Stripe has collected, the days' transactions add up to it,
\* and a listing or pass under way is at most behind what there is by now.
THEOREM WorkerInvariant == ReconciliationSpec => []WInv
  BY InitWInv, NextWInv, PTL DEF ReconciliationSpec

\* The safety net under confirm, for every number of days, runs and requests: a
\* payment that is not in amount_received is in every report of the day it was
\* charged on, although the run reads rows later than it has listed Stripe's day.
THEOREM UnbookedAreReported == ReconciliationSpec => []UnbookedIsReported
  BY WorkerInvariant, PTL DEF WInv

\* No false alarm by reconcile_day about a payment that lived within one day.
THEOREM MismatchesAreExplained == ReconciliationSpec => MismatchExplained
  <1>1. ASSUME WInv, [ReconciliationNext]_allVars,
               NEW run \in reconciliation_runs' \ reconciliation_runs, NEW k \in Reported(run)
        PROVE  \/ payment_intents[k].status # stripe_pi[k].status
               \/ payment_intents[k].received - payment_intents[k].refunded # Net(k)
               \/ updated_at[k] # run.run_date
               \/ \E d \in Days \ {run.run_date} : balance_transactions[d][k].listed
    <2>1. ReconcileDay /\ run.run_date = listing.day /\ run.mismatches = Classified
      BY <1>1, RunWritten
    <2>2. PICK m \in Classified : m.intent = k
      BY <1>1, <2>1 DEF Reported
    <2>3. TypeOK /\ TerminalAgrees
      BY <1>1 DEF WInv, RInv, IInv
    <2> QED BY <1>1, <2>1, <2>2, <2>3, RunExplained DEF WInv
  <1>2. WInv /\ [ReconciliationNext]_allVars =>
            [\A run \in reconciliation_runs' \ reconciliation_runs : \A k \in Reported(run) :
                \/ k \in Foreign
                \/ payment_intents[k].status # stripe_pi[k].status
                \/ payment_intents[k].received - payment_intents[k].refunded # Net(k)
                \/ updated_at[k] # run.run_date
                \/ \E d \in Days \ {run.run_date} : balance_transactions[d][k].listed]_allVars
    BY <1>1
  <1> QED BY <1>2, WorkerInvariant, PTL DEF ReconciliationSpec, MismatchExplained

\* reconcile_recent cries wolf about no row that has stayed as it read it,
\* although it reads rows and entries in two queries: see DriftHolds.
THEOREM DriftsAreReal == ReconciliationSpec => []NoFalseDrift
  <1>1. ASSUME WInv
        PROVE  NoFalseDrift
    <2> SUFFICES ASSUME NEW k \in pass.drift, payment_intents[k] = pass.seen[k],
                        ledger[k]["payments_captured"] = ExpectedCaptured(payment_intents[k]),
                        payment_intents[k].status = stripe_pi[k].status,
                        Captured(k) = payment_intents[k].received
                 PROVE  FALSE
      BY DEF NoFalseDrift
    <2>1. k \in Intents /\ TypeOK
      BY <1>1 DEF WInv, ClockTypeOK, RInv, IInv
    <2>2. CASE payment_intents[k].status = "succeeded"
      <3>1. /\ payment_intents[k].refunded < ledger[k]["customer"]
               \/ payment_intents[k].received < Captured(k)
            /\ ledger[k]["payments_captured"]
                   = payment_intents[k].received - payment_intents[k].refunded
            /\ Captured(k) = ledger[k]["payments_captured"] + ledger[k]["customer"]
        BY <1>1, <2>1, <2>2 DEF WInv, DriftHolds, ExpectedCaptured, Captured
      <3> QED BY <2>1, <3>1, MoneyTypes
    <2>3. CASE payment_intents[k].status # "succeeded"
      BY <1>1, <2>1, <2>3 DEF WInv, DriftHolds, Collected
    <2> QED BY <2>2, <2>3
  <1> QED BY <1>1, WorkerInvariant, PTL

\* The mismatches of every run account for the whole difference of its totals,
\* however many payments a day has: what is on neither list nets to nothing.
THEOREM TotalsAreExplained == ReconciliationSpec => []TotalsExplained
  <1>1. ReconciliationInit => FinitelyMany /\ TotalsExplained
    <2> SUFFICES ASSUME ReconciliationInit
                 PROVE  FinitelyMany /\ TotalsExplained
      OBVIOUS
    <2>1. AtStripe = {}
      BY DEF ReconciliationInit, Init, StateInit, NoObject, AtStripe
    <2> QED BY <2>1, FS_EmptySet DEF ReconciliationInit, TotalsExplained, FinitelyMany
  <1>2. WInv /\ FinitelyMany /\ TotalsExplained /\ [ReconciliationNext]_allVars =>
            FinitelyMany' /\ TotalsExplained'
    BY RunAddsUp, AtStripeStaysFinite, BesideWorker DEF WInv, RInv, IInv
  <1> QED BY <1>1, <1>2, WorkerInvariant, PTL DEF ReconciliationSpec
=============================================================================
