-------------------------- MODULE DashboardProofs --------------------------
(***************************************************************************)
(* list_transactions read page by page misses no row, for every set of     *)
(* payments and filters and every page size, however long the list grows   *)
(* while it is read.  The rows are ranked by when their create began; a    *)
(* row that is there keeps its place in that order and others only come    *)
(* before it, so its rank only grows; and ranks have no gaps, so a page    *)
(* that is not full is the last one.                                       *)
(*                                                                         *)
(* Then the ledger: balanced legs make entries that cancel out, of one     *)
(* currency and one intent, so that what any set of intents has in a       *)
(* currency nets to zero.  What a payment's row says of money, and what a  *)
(* handler holds of it, is never more than its entries say, and the        *)
(* balances that cover it only grow: so the commits are Postings', however *)
(* stale, and a payment's page, whose row is read first, shows entries     *)
(* that cover it.                                                          *)
(***************************************************************************)
EXTENDS Dashboard, Sums

\* An intent's create begins once, and before its row is there.
BeganFirst ==
    /\ \A i, j \in DOMAIN began : began[i] = began[j] => i = j
    /\ \A k \in Intents : Exists(k) => \E i \in DOMAIN began : began[i] = k

\* A handler goes on from a row only if there is one.
HeldExist == \A h \in Handlers : held[h] # NoRead => Exists(held[h].intent)

\* What a walk at w still has to show has not come before its page.
Holds(w) ==
    w.filter.status = "any" =>
        LET rows == Selected(w.merchant, w.filter) IN
        /\ w.start \subseteq rows
        /\ w.pc = "page" => \A k \in w.start \ w.shown : Before(k, rows) >= Offset(w.page)
        /\ w.pc = "end" => w.start \subseteq w.shown

WalkHolds == walk # NoWalk => Holds(walk)

PageAtLeastOne == walk # NoWalk => walk.page >= 1

\* The inductive invariant of the list.
DInv == TypeOK /\ BeganFirst /\ HeldExist /\ PageAtLeastOne /\ WalkHolds

-----------------------------------------------------------------------------
(* Ranks have no gaps.                                                     *)

\* The rank of k among R by the numbers c: how many have a higher number.
Rank(R, c, k) == Cardinality({j \in R : c[j] > c[k]})

LEMMA RankFalls ==
    ASSUME NEW R, IsFiniteSet(R), NEW c \in [R -> Nat], NEW i \in R, NEW j \in R, c[i] > c[j]
    PROVE  Rank(R, c, i) \in Nat /\ Rank(R, c, j) \in Nat /\ Rank(R, c, i) < Rank(R, c, j)
  <1> DEFINE A == {q \in R : c[q] > c[i]}
             B == {q \in R : c[q] > c[j]}
  <1>1. A \subseteq B \ {i} /\ i \in B
    OBVIOUS
  <1>2. IsFiniteSet(B) /\ IsFiniteSet(A) /\ Cardinality(B) \in Nat /\ Cardinality(A) \in Nat
    BY FS_Subset, FS_CardinalityType
  <1>3. IsFiniteSet(B \ {i}) /\ Cardinality(B \ {i}) = Cardinality(B) - 1
    BY <1>1, <1>2, FS_RemoveElement
  <1>4. Cardinality(A) <= Cardinality(B \ {i})
    BY <1>1, <1>3, FS_Subset
  <1> QED BY <1>2, <1>3, <1>4 DEF Rank

\* If a row lies beyond a page, the page is full.
LEMMA PageIsFull ==
    ASSUME NEW R, IsFiniteSet(R), NEW c \in [R -> Nat],
           \A i, j \in R : c[i] = c[j] => i = j,
           NEW o \in Nat, NEW p \in Nat \ {0},
           NEW k \in R, Rank(R, c, k) >= o + p
    PROVE  Cardinality({j \in R : Rank(R, c, j) \in o .. o + p - 1}) = p
  <1> DEFINE B == {j \in R : c[j] > c[k]}
             n == Cardinality(B)
             items == {j \in R : Rank(R, c, j) \in o .. o + p - 1}
             f == [j \in B |-> Rank(R, c, j)]
             g == [j \in items |-> Rank(R, c, j)]
  <1>1. IsFiniteSet(B) /\ n \in Nat /\ n >= o + p /\ n = Rank(R, c, k)
    BY FS_Subset, FS_CardinalityType DEF Rank
  <1>2. \A i, j \in R : Rank(R, c, i) = Rank(R, c, j) => i = j
    <2> SUFFICES ASSUME NEW i \in R, NEW j \in R, i # j
                 PROVE  Rank(R, c, i) # Rank(R, c, j)
      OBVIOUS
    <2>1. c[i] > c[j] \/ c[j] > c[i]
      <3>1. c[i] \in Nat /\ c[j] \in Nat /\ c[i] # c[j]
        OBVIOUS
      <3> QED BY <3>1
    <2>2. ASSUME c[i] > c[j]
          PROVE  Rank(R, c, i) # Rank(R, c, j)
      BY <2>2, RankFalls
    <2>3. ASSUME c[j] > c[i]
          PROVE  Rank(R, c, i) # Rank(R, c, j)
      BY <2>3, RankFalls
    <2> QED BY <2>1, <2>2, <2>3
  <1>3. \A j \in B : Rank(R, c, j) \in 0 .. n - 1
    BY <1>1, RankFalls
  <1> HIDE DEF n
  <1>4. f \in Injection(B, 0 .. n - 1)
    BY <1>2, <1>3 DEF Injection, IsInjective
  <1>5. f \in Surjection(B, 0 .. n - 1)
    <2>1. IsFiniteSet(0 .. n - 1) /\ Cardinality(0 .. n - 1) = n
      <3>1. n \in Nat /\ n - 1 \in Int /\ (n - 1) - 0 + 1 = n /\ (0 > n - 1 => n = 0)
        BY <1>1
      <3>2. /\ IsFiniteSet(0 .. n - 1)
            /\ Cardinality(0 .. n - 1) = IF 0 > n - 1 THEN 0 ELSE (n - 1) - 0 + 1
        BY <3>1, FS_Interval
      <3> QED BY <3>1, <3>2
    <2> QED BY <1>4, <2>1, FS_Injection DEF n
  <1>6. \A m \in o .. o + p - 1 : \E j \in items : Rank(R, c, j) = m
    <2> SUFFICES ASSUME NEW m \in o .. o + p - 1
                 PROVE  \E j \in items : Rank(R, c, j) = m
      OBVIOUS
    <2>1. m \in 0 .. n - 1
      BY <1>1
    <2>2. PICK j \in B : f[j] = m
      BY <1>5, <2>1 DEF Surjection
    <2> QED BY <2>2
  <1>7. g \in Bijection(items, o .. o + p - 1)
    <2>1. g \in [items -> o .. o + p - 1]
      OBVIOUS
    <2>2. \A i, j \in items : g[i] = g[j] => i = j
      BY <1>2
    <2>3. \A m \in o .. o + p - 1 : \E j \in items : g[j] = m
      BY <1>6
    <2> HIDE DEF g
    <2> QED BY <2>1, <2>2, <2>3 DEF Bijection, Injection, Surjection, IsInjective
  <1>8. IsFiniteSet(items)
    BY FS_Subset
  <1>9. Cardinality(items) = Cardinality(o .. o + p - 1)
    BY <1>7, <1>8, FS_Bijection DEF ExistsBijection
  <1>10. Cardinality(o .. o + p - 1) = p
    BY FS_Interval
  <1> QED BY <1>9, <1>10

-----------------------------------------------------------------------------
(* The tables.                                                             *)

LEMMA AppendFacts ==
    ASSUME NEW S, NEW s \in Seq(S), NEW x \in S
    PROVE  /\ Append(s, x) \in Seq(S)
           /\ DOMAIN s \subseteq DOMAIN Append(s, x)
           /\ \A i \in DOMAIN s : Append(s, x)[i] = s[i]
           /\ \A i \in DOMAIN Append(s, x) : i \in DOMAIN s \/ Append(s, x)[i] = x
           /\ \A i, j \in DOMAIN Append(s, x) \ DOMAIN s : i = j
           /\ \E i \in DOMAIN Append(s, x) : Append(s, x)[i] = x
  OBVIOUS

\* Rows are written, never taken away; creates begin one after the other.
TablesGoOn ==
    /\ payment_intents' \in [Intents -> Rows] /\ began' \in Seq(Intents)
    /\ \A k \in Intents : Exists(k) => Exists(k)'
    /\ BeganFirst'
    /\ DOMAIN began \subseteq DOMAIN began'
    /\ \A i \in DOMAIN began : began'[i] = began[i]

LEMMA RowWritten ==
    ASSUME TypeOK, BeganFirst, NEW k \in Intents, NEW row \in Rows, began' = began,
           payment_intents' = [payment_intents EXCEPT ![k] = row],
           row.status # "absent", \E i \in DOMAIN began : began[i] = k
    PROVE  TablesGoOn
  BY DEF TypeOK, Rows, BeganFirst, TablesGoOn, Exists

LEMMA TablesStay ==
    ASSUME TypeOK, BeganFirst, UNCHANGED <<payment_intents, began>>
    PROVE  TablesGoOn
  BY DEF TypeOK, Rows, BeganFirst, TablesGoOn, Exists

\* What handlers do: one reads a row, and commits from what it read.
Finds(h, k) == ConfirmFind(h, k) \/ CancelFind(h, k) \/ ApplyFind(h, k) \/ RefundFind(h, k)

Commits(h) == ConfirmCommit(h) \/ CancelCommit(h) \/ ApplyCommit(h) \/ RefundCommit(h)

LEMMA FindsLoad ==
    ASSUME NEW h \in Handlers, NEW k \in Intents, Finds(h, k)
    PROVE  /\ held[h] = NoRead /\ Exists(k) /\ UNCHANGED <<tables, walk, detail>>
           /\ \E op \in {"confirm", "cancel", "apply", "refund"} :
                  held' = [held EXCEPT ![h] = [op |-> op, intent |-> k, row |-> payment_intents[k]]]
  BY DEF Finds, ConfirmFind, CancelFind, ApplyFind, RefundFind, Loads, Exists

\* Handlers commit what they read, or give up.
LEMMA CommitsHeld ==
    ASSUME TypeOK, HeldExist, NEW h \in Handlers, Commits(h)
    PROVE  /\ Done(h) /\ UNCHANGED <<began, walk, detail>>
           /\ held[h] # NoRead /\ held[h] \in Reads
           /\ held[h].intent \in Intents /\ held[h].row \in Rows
           /\ Exists(held[h].intent)
  <1>1. held[h].op \in {"confirm", "cancel", "apply", "refund"}
    BY DEF Commits, ConfirmCommit, CancelCommit, ApplyCommit, RefundCommit
  <1>2. held[h] # NoRead /\ held[h] \in Reads
    BY <1>1 DEF TypeOK, NoRead
  <1>3. Done(h) /\ UNCHANGED <<began, walk, detail>>
    BY DEF Commits, ConfirmCommit, CancelCommit, ApplyCommit, RefundCommit, Writes
  <1> QED BY <1>2, <1>3 DEF Reads, HeldExist

\* The row that a commit leaves.
LEMMA CommitsRow ==
    ASSUME TypeOK, HeldExist, NEW h \in Handlers, Commits(h)
    PROVE  \/ UNCHANGED payment_intents
           \/ \E row \in Rows :
                 /\ row.status # "absent"
                 /\ payment_intents' = [payment_intents EXCEPT ![held[h].intent] = row]
  <1> DEFINE k == held[h].intent
             seen == held[h].row
             old == payment_intents[k]
  <1>1. /\ k \in Intents /\ seen \in Rows /\ old \in Rows /\ old.status # "absent"
        /\ seen.amount \in Nat /\ seen.received \in Nat /\ seen.refunded \in Nat
    BY CommitsHeld DEF TypeOK, Rows, Exists
  <1>2. CASE ConfirmCommit(h)
    <2>1. CASE UNCHANGED payment_intents
      BY <2>1
    <2>2. ASSUME NEW reply \in {"requires_payment_method", "succeeded"},
                 payment_intents' = [payment_intents EXCEPT ![k].status = reply]
          PROVE  \E row \in Rows : /\ row.status # "absent"
                                   /\ payment_intents' = [payment_intents EXCEPT ![k] = row]
      <3> DEFINE row == [old EXCEPT !.status = reply]
      <3>1. row \in Rows /\ row.status # "absent"
        BY <1>1 DEF Rows, Statuses
      <3>2. payment_intents' = [payment_intents EXCEPT ![k] = row]
        BY <2>2
      <3> HIDE DEF row
      <3> QED BY <3>1, <3>2
    <2> QED BY <1>2, <2>1, <2>2 DEF ConfirmCommit
  <1>3. CASE CancelCommit(h)
    <2> DEFINE row == [old EXCEPT !.status = "canceled"]
    <2>1. row \in Rows /\ row.status # "absent"
      BY <1>1 DEF Rows, Statuses
    <2>2. payment_intents' = [payment_intents EXCEPT ![k] = row]
      BY <1>3 DEF CancelCommit, Writes
    <2> HIDE DEF row
    <2> QED BY <2>1, <2>2
  <1>4. CASE ApplyCommit(h)
    <2> DEFINE row == [old EXCEPT !.status = "succeeded", !.received = seen.amount]
    <2>1. row \in Rows /\ row.status # "absent"
      BY <1>1 DEF Rows, Statuses
    <2>2. payment_intents' = [payment_intents EXCEPT ![k] = row]
      BY <1>4 DEF ApplyCommit, Writes
    <2> HIDE DEF row
    <2> QED BY <2>1, <2>2
  <1>5. CASE RefundCommit(h)
    <2>1. PICK n \in 1 .. Refundable(seen) :
              payment_intents' = [payment_intents EXCEPT ![k] =
                  [old EXCEPT !.refunded = seen.refunded + n]]
      BY <1>5 DEF RefundCommit, Writes
    <2>2. seen.refunded + n \in Nat
      BY <1>1 DEF Refundable
    <2> DEFINE row == [old EXCEPT !.refunded = seen.refunded + n]
    <2>3. row \in Rows /\ row.status # "absent"
      BY <1>1, <2>2 DEF Rows
    <2> HIDE DEF row
    <2> QED BY <2>1, <2>3 DEF row
  <1> QED BY <1>2, <1>3, <1>4, <1>5 DEF Commits

LEMMA CommitsGoOn ==
    ASSUME TypeOK, BeganFirst, HeldExist, NEW h \in Handlers, Commits(h)
    PROVE  TablesGoOn
  <1>1. /\ held[h].intent \in Intents /\ began' = began
        /\ \E i \in DOMAIN began : began[i] = held[h].intent
    BY CommitsHeld DEF BeganFirst
  <1>2. CASE UNCHANGED payment_intents
    BY <1>1, <1>2, TablesStay
  <1>3. ASSUME NEW row \in Rows, row.status # "absent",
               payment_intents' = [payment_intents EXCEPT ![held[h].intent] = row]
        PROVE  TablesGoOn
    BY <1>1, <1>3, RowWritten
  <1> QED BY <1>2, <1>3, CommitsRow

LEMMA CreateGoesOn ==
    ASSUME TypeOK, BeganFirst, NEW k \in Intents, CreateIntent(k)
    PROVE  TablesGoOn
  <1>1. PICK amount \in Amounts :
            Writes(k, [status |-> "requires_payment_method", amount |-> amount,
                       received |-> 0, refunded |-> 0],
                   "customer_pending", "payments_authorised", amount)
    BY DEF CreateIntent
  <1> DEFINE row == [status |-> "requires_payment_method", amount |-> amount,
                     received |-> 0, refunded |-> 0]
  <1>2. row \in Rows /\ row.status # "absent"
    BY DashboardAssumption DEF Rows, Statuses
  <1>3. payment_intents' = [payment_intents EXCEPT ![k] = row] /\ began' = began
    BY <1>1 DEF Writes
  <1>4. \E i \in DOMAIN began : began[i] = k
    BY DEF CreateIntent
  <1> HIDE DEF row
  <1> QED BY <1>2, <1>3, <1>4, RowWritten

LEMMA NextTables ==
    ASSUME TypeOK, BeganFirst, HeldExist, [Next]_vars
    PROVE  TablesGoOn
  <1>1. ASSUME NEW k \in Intents, BeginCreate(k)
        PROVE  TablesGoOn
    <2>1. began \in Seq(Intents) /\ began' = Append(began, k)
      BY <1>1 DEF BeginCreate, TypeOK
    <2>2. /\ began' \in Seq(Intents) /\ DOMAIN began \subseteq DOMAIN began'
          /\ \A i \in DOMAIN began : began'[i] = began[i]
          /\ \A i \in DOMAIN began' : i \in DOMAIN began \/ began'[i] = k
          /\ \A i, j \in DOMAIN began' \ DOMAIN began : i = j
      BY <2>1, AppendFacts
    <2>3. \A i \in DOMAIN began : began[i] # k
      BY <1>1 DEF BeginCreate
    <2>4. \A i, j \in DOMAIN began' : began'[i] = began'[j] => i = j
      BY <2>2, <2>3 DEF BeganFirst
    <2>5. payment_intents' = payment_intents
      BY <1>1 DEF BeginCreate
    <2>6. \A j \in Intents : Exists(j)' => \E i \in DOMAIN began' : began'[i] = j
      BY <2>2, <2>5 DEF BeganFirst, Exists
    <2>7. BeganFirst'
      BY <2>4, <2>6 DEF BeganFirst
    <2> QED BY <2>2, <2>5, <2>7 DEF TablesGoOn, TypeOK, Rows, Exists
  <1>2. CASE UNCHANGED <<payment_intents, began>>
    BY <1>2, TablesStay
  <1>3. ASSUME NEW h \in Handlers, NEW k \in Intents, Finds(h, k)
        PROVE  UNCHANGED <<payment_intents, began>>
    BY <1>3, FindsLoad DEF tables
  <1> QED BY <1>1, <1>2, <1>3, CommitsGoOn, CreateGoesOn
          DEF Next, vars, tables, Finds, Commits, Abort, Adjust, OpenList, ReadRow, ReadPage,
              CloseList, ReadEntries, CloseDetail

-----------------------------------------------------------------------------
(* The types.                                                              *)

LEMMA SelectedTypes ==
    ASSUME NEW m, NEW f
    PROVE  Selected(m, f) \subseteq Intents
  BY DEF Selected

LEMMA NextTypes ==
    ASSUME TypeOK, HeldExist, TablesGoOn, PageAtLeastOne, [Next]_vars
    PROVE  TypeOK' /\ PageAtLeastOne' /\ HeldExist'
  <1>1. (walk' = NoWalk \/ walk' \in Walks) /\ PageAtLeastOne'
    <2>1. CASE walk' = walk
      BY <2>1 DEF TypeOK, PageAtLeastOne
    <2>2. ASSUME NEW m \in Merchants, NEW f \in Filters, OpenList(m, f)
          PROVE  walk' \in Walks /\ walk'.page >= 1
      BY <2>2, SelectedTypes DEF OpenList, Walks
    <2>3. CASE ReadPage
      <3>1. walk \in Walks /\ walk.page \in Nat /\ walk.page >= 1
        BY <2>3 DEF ReadPage, TypeOK, NoWalk, Walks, PageAtLeastOne
      <3>2. Page(Selected(walk.merchant, walk.filter), walk.page) \subseteq Intents
        BY SelectedTypes DEF Page
      <3>3. walk.page + 1 \in Nat /\ walk.page + 1 >= 1
        BY <3>1
      <3>4. walk' \in Walks /\ walk'.page >= 1
        BY <2>3, <3>1, <3>2, <3>3 DEF ReadPage, Walks
      <3> QED BY <3>4 DEF PageAtLeastOne
    <2>4. CASE walk' = NoWalk
      BY <2>4 DEF PageAtLeastOne
    <2>5. ASSUME NEW h \in Handlers, NEW k \in Intents, Finds(h, k)
          PROVE  walk' = walk
      BY <2>5, FindsLoad
    <2>6. ASSUME NEW h \in Handlers, Commits(h)
          PROVE  walk' = walk
      BY <2>6, CommitsHeld
    <2> QED BY <2>1, <2>2, <2>3, <2>4, <2>5, <2>6
            DEF Next, vars, BeginCreate, CreateIntent, Writes, Finds, Commits, Abort, Adjust,
                ReadRow, CloseList, ReadEntries, CloseDetail, PageAtLeastOne
  <1>2. detail' = NoDetail \/ detail'.intent \in Intents
    <2>1. CASE detail' = detail
      BY <2>1 DEF TypeOK
    <2>2. ASSUME NEW m \in Merchants, NEW k \in Intents, ReadRow(m, k)
          PROVE  detail'.intent \in Intents
      BY <2>2 DEF ReadRow
    <2>3. CASE ReadEntries
      BY <2>3 DEF ReadEntries, TypeOK, NoDetail
    <2>4. CASE detail' = NoDetail
      BY <2>4
    <2>5. ASSUME NEW h \in Handlers, NEW k \in Intents, Finds(h, k)
          PROVE  detail' = detail
      BY <2>5, FindsLoad
    <2>6. ASSUME NEW h \in Handlers, Commits(h)
          PROVE  detail' = detail
      BY <2>6, CommitsHeld
    <2> QED BY <2>1, <2>2, <2>3, <2>4, <2>5, <2>6
            DEF Next, vars, BeginCreate, CreateIntent, Writes, Finds, Commits, Abort, Adjust,
                OpenList, ReadPage, CloseList, CloseDetail
  <1>3. held' \in [Handlers -> {NoRead} \union Reads] /\ HeldExist'
    <2>0. \A k \in Intents : Exists(k) => Exists(k)'
      BY DEF TablesGoOn
    <2>1. CASE UNCHANGED held
      BY <2>0, <2>1 DEF TypeOK, HeldExist, Reads, Exists
    <2>2. ASSUME NEW h \in Handlers, Done(h)
          PROVE  held' \in [Handlers -> {NoRead} \union Reads] /\ HeldExist'
      BY <2>0, <2>2 DEF Done, TypeOK, HeldExist, Reads, Exists
    <2>3. ASSUME NEW h \in Handlers, NEW k \in Intents, Finds(h, k)
          PROVE  held' \in [Handlers -> {NoRead} \union Reads] /\ HeldExist'
      <3>1. PICK op \in {"confirm", "cancel", "apply", "refund"} :
                held' = [held EXCEPT ![h] = [op |-> op, intent |-> k, row |-> payment_intents[k]]]
        BY <2>3, FindsLoad
      <3>2. Exists(k)' /\ payment_intents[k] \in Rows
        BY <2>0, <2>3, FindsLoad DEF TypeOK
      <3>3. [op |-> op, intent |-> k, row |-> payment_intents[k]] \in Reads
        BY <3>2 DEF Reads
      <3> QED BY <2>0, <3>1, <3>2, <3>3 DEF TypeOK, HeldExist, Reads, Exists
    <2>4. ASSUME NEW h \in Handlers, Commits(h)
          PROVE  Done(h)
      BY <2>4, CommitsHeld
    <2> QED BY <2>1, <2>2, <2>3, <2>4
            DEF Next, vars, BeginCreate, CreateIntent, Finds, Commits, Abort, Adjust,
                OpenList, ReadPage, CloseList, ReadRow, ReadEntries, CloseDetail
  <1> QED BY <1>1, <1>2, <1>3 DEF TypeOK, TablesGoOn

-----------------------------------------------------------------------------
(* Ranks only grow.                                                        *)

\* Where k is in s; CreatedAt(k) is its place in began.
Place(s, k) == CHOOSE i \in DOMAIN s : s[i] = k

\* How many of R come after k in s.
After(s, R, k) == Cardinality({j \in R : Place(s, j) > Place(s, k)})

IsOnce(s) == \A i, j \in DOMAIN s : s[i] = s[j] => i = j

\* Rows that are in a sequence are finitely many, and in different places.
LEMMA Places ==
    ASSUME NEW S, NEW s \in Seq(S), IsOnce(s),
           NEW R, \A k \in R : \E i \in DOMAIN s : s[i] = k
    PROVE  /\ \A k \in R : Place(s, k) \in DOMAIN s /\ Place(s, k) \in Nat /\ s[Place(s, k)] = k
           /\ \A j, k \in R : Place(s, j) = Place(s, k) => j = k
           /\ IsFiniteSet(R)
  <1>1. \A k \in R : Place(s, k) \in DOMAIN s /\ s[Place(s, k)] = k
    BY DEF Place
  <1>2. DOMAIN s = 1 .. Len(s) /\ Len(s) \in Nat
    OBVIOUS
  <1>3. \A k \in R : Place(s, k) \in Nat
    BY <1>1, <1>2
  <1>4. \A j, k \in R : Place(s, j) = Place(s, k) => j = k
    BY <1>1
  <1> DEFINE f == [k \in R |-> Place(s, k)]
  <1>5. f \in Injection(R, DOMAIN s)
    BY <1>1, <1>4 DEF Injection, IsInjective
  <1>6. IsFiniteSet(DOMAIN s)
    BY <1>2, FS_Interval
  <1>7. IsFiniteSet(R)
    BY <1>5, <1>6, FS_Injection
  <1> QED BY <1>1, <1>3, <1>4, <1>7

LEMMA PlaceStays ==
    ASSUME NEW s, NEW t, IsOnce(t), DOMAIN s \subseteq DOMAIN t, \A i \in DOMAIN s : t[i] = s[i],
           NEW k, \E i \in DOMAIN s : s[i] = k
    PROVE  Place(t, k) = Place(s, k)
  <1>1. Place(s, k) \in DOMAIN s /\ s[Place(s, k)] = k
    BY DEF Place
  <1>2. Place(s, k) \in DOMAIN t /\ t[Place(s, k)] = k
    BY <1>1
  <1>3. Place(t, k) \in DOMAIN t /\ t[Place(t, k)] = k
    BY <1>2 DEF Place
  <1> QED BY <1>2, <1>3 DEF IsOnce

\* More rows, in a longer sequence: not fewer come before k.
LEMMA RankGrows ==
    ASSUME NEW S, NEW s \in Seq(S), NEW t \in Seq(S), IsOnce(t),
           DOMAIN s \subseteq DOMAIN t, \A i \in DOMAIN s : t[i] = s[i],
           NEW T, NEW R \in SUBSET T, NEW k \in R,
           \A j \in R : \E i \in DOMAIN s : s[i] = j,
           \A j \in T : \E i \in DOMAIN t : t[i] = j
    PROVE  After(s, R, k) <= After(t, T, k)
  <1> DEFINE A == {j \in R : Place(s, j) > Place(s, k)}
             B == {j \in T : Place(t, j) > Place(t, k)}
  <1>1. \A j \in R : Place(t, j) = Place(s, j)
    BY PlaceStays
  <1>2. A \subseteq B
    BY <1>1
  <1>3. IsFiniteSet(T)
    BY Places
  <1>4. IsFiniteSet(B)
    BY <1>3, FS_Subset
  <1> QED BY <1>2, <1>4, FS_Subset DEF After

\* A page that is not full is the last one.
LEMMA PageEnds ==
    ASSUME NEW S, NEW s \in Seq(S), IsOnce(s),
           NEW R, \A k \in R : \E i \in DOMAIN s : s[i] = k,
           NEW o \in Nat, NEW p \in Nat \ {0}, NEW k \in R,
           After(s, R, k) >= o + p
    PROVE  Cardinality({q \in R : After(s, R, q) \in o .. o + p - 1}) = p
  <1> DEFINE c == [j \in R |-> Place(s, j)]
  <1>1. c \in [R -> Nat] /\ IsFiniteSet(R) /\ \A i, j \in R : c[i] = c[j] => i = j
    BY Places
  <1>2. ASSUME NEW q \in R
        PROVE  After(s, R, q) = Rank(R, c, q)
    <2>1. {j \in R : Place(s, j) > Place(s, q)} = {j \in R : c[j] > c[q]}
      OBVIOUS
    <2> QED BY <2>1 DEF Rank, After
  <1> HIDE DEF c
  <1>3. Rank(R, c, k) >= o + p
    BY <1>2
  <1>4. {q \in R : After(s, R, q) \in o .. o + p - 1}
            = {q \in R : Rank(R, c, q) \in o .. o + p - 1}
    BY <1>2
  <1>5. Cardinality({q \in R : Rank(R, c, q) \in o .. o + p - 1}) = p
    BY <1>1, <1>3, PageIsFull
  <1> QED BY <1>4, <1>5

-----------------------------------------------------------------------------
(* The walk.                                                               *)

\* The rows a query selects have begun.
LEMMA SelectedBegan ==
    ASSUME BeganFirst, NEW m, NEW f
    PROVE  \A k \in Selected(m, f) : \E i \in DOMAIN began : began[i] = k
  BY DEF BeganFirst, Selected

LEMMA BeforeIsAfter ==
    ASSUME NEW k, NEW R
    PROVE  Before(k, R) = After(began, R, k)
  BY DEF Before, CreatedAt, Place, After

\* While nothing is taken from the tables, a selection by an unchanging filter
\* only grows, and so does what comes before a row of it.
LEMMA SelectionGrows ==
    ASSUME TypeOK, BeganFirst, TablesGoOn, NEW m, NEW f, f.status = "any"
    PROVE  /\ Selected(m, f) \subseteq Selected(m, f)'
           /\ \A k \in Selected(m, f) :
                 Before(k, Selected(m, f)) <= Before(k, Selected(m, f))'
  <1> DEFINE R == Selected(m, f)
             T == Selected(m, f)'
  <1>1. R \subseteq T
    BY DEF TablesGoOn, Selected, Exists
  <1>2. \A j \in R : \E i \in DOMAIN began : began[i] = j
    BY SelectedBegan
  <1>3. \A j \in T : \E i \in DOMAIN began' : began'[i] = j
    BY DEF TablesGoOn, BeganFirst, Selected
  <1>4. /\ began \in Seq(Intents) /\ began' \in Seq(Intents) /\ IsOnce(began')
        /\ DOMAIN began \subseteq DOMAIN began'
        /\ \A i \in DOMAIN began : began'[i] = began[i]
    BY DEF TypeOK, TablesGoOn, BeganFirst, IsOnce
  <1>5. ASSUME NEW k \in R
        PROVE  Before(k, R) <= Before(k, R)'
    <2>1. Before(k, R)' = After(began', T, k)
      BY DEF Before, CreatedAt, Place, After
    <2>2. k \in R
      OBVIOUS
    <2> HIDE DEF R, T
    <2>3. After(began, R, k) <= After(began', T, k)
      BY <1>1, <1>2, <1>3, <1>4, <2>2, RankGrows
    <2> QED BY <2>1, <2>3, BeforeIsAfter
  <1> QED BY <1>1, <1>5

LEMMA OffsetType == Offset(1) = 0 /\ \A page \in Nat : Offset(page) \in Int
  <1>1. PageSize \in Nat
    BY DashboardAssumption
  <1>2. \A p \in Int : (1 - 1) * p = 0
    OBVIOUS
  <1>3. \A n, p \in Int : (n - 1) * p \in Int
    OBVIOUS
  <1> QED BY <1>1, <1>2, <1>3 DEF Offset

LEMMA BeforeType ==
    ASSUME TypeOK, BeganFirst, NEW m, NEW f, NEW k
    PROVE  Before(k, Selected(m, f)) \in Nat
  <1> DEFINE R == Selected(m, f)
  <1>1. IsFiniteSet(R)
    BY SelectedBegan, Places DEF TypeOK, BeganFirst, IsOnce
  <1>2. {j \in R : CreatedAt(j) > CreatedAt(k)} \subseteq R
    OBVIOUS
  <1> HIDE DEF R
  <1>3. IsFiniteSet({j \in R : CreatedAt(j) > CreatedAt(k)})
    BY <1>1, <1>2, FS_Subset
  <1>4. Before(k, R) \in Nat
    BY <1>3, FS_CardinalityType DEF Before
  <1> QED BY <1>4 DEF R

LEMMA BeforeTypeNext ==
    ASSUME TablesGoOn, NEW m, NEW f, NEW k
    PROVE  Before(k, Selected(m, f))' \in Nat
  <1> DEFINE T == Selected(m, f)'
             B == {j \in T : CreatedAt(j)' > CreatedAt(k)'}
  <1>1. \A j \in T : \E i \in DOMAIN began' : began'[i] = j
    BY DEF TablesGoOn, BeganFirst, Selected
  <1>2. began' \in Seq(Intents) /\ IsOnce(began')
    BY DEF TablesGoOn, BeganFirst, IsOnce
  <1>3. Before(k, Selected(m, f))' = Cardinality(B)
    BY DEF Before
  <1> HIDE DEF T
  <1>4. IsFiniteSet(T)
    BY <1>1, <1>2, Places
  <1>5. IsFiniteSet(B)
    BY <1>4, FS_Subset
  <1> QED BY <1>3, <1>5, FS_CardinalityType

\* A row of the selection that is not among a page's comes before it, or the
\* page is full and it comes after it.
LEMMA PageShows ==
    ASSUME TypeOK, BeganFirst, NEW m, NEW f, NEW page \in Nat, page >= 1,
           NEW k \in Selected(m, f), Before(k, Selected(m, f)) >= Offset(page)
    PROVE  LET items == Page(Selected(m, f), page) IN
           \/ k \in items
           \/ Cardinality(items) = PageSize /\ Before(k, Selected(m, f)) >= Offset(page + 1)
  <1> DEFINE R == Selected(m, f)
             o == Offset(page)
             before == Before(k, R)
  <1>1. PageSize \in Nat \ {0}
    BY DashboardAssumption
  <1>2. o \in Nat /\ Offset(page + 1) = o + PageSize
    BY <1>1 DEF Offset
  <1>3. before \in Nat /\ before >= o
    BY BeforeType
  <1>4. k \in Page(R, page) <=> before \in o .. o + PageSize - 1
    BY DEF Page
  <1> HIDE DEF o, before
  <1>5. CASE before <= o + PageSize - 1
    BY <1>1, <1>2, <1>3, <1>4, <1>5
  <1>6. CASE before >= o + PageSize
    <2>1. began \in Seq(Intents) /\ IsOnce(began)
      BY DEF TypeOK, BeganFirst, IsOnce
    <2>2. \A j \in R : \E i \in DOMAIN began : began[i] = j
      BY SelectedBegan
    <2>3. k \in R /\ before = After(began, R, k)
      BY BeforeIsAfter DEF before
    <2>4. Page(R, page) = {q \in R : After(began, R, q) \in o .. o + PageSize - 1}
      <3> HIDE DEF R
      <3> QED BY BeforeIsAfter DEF Page, o
    <2> HIDE DEF R
    <2>5. Cardinality({q \in R : After(began, R, q) \in o .. o + PageSize - 1}) = PageSize
      BY <1>1, <1>2, <1>6, <2>1, <2>2, <2>3, PageEnds
    <2>6. Cardinality(Page(R, page)) = PageSize
      BY <2>4, <2>5
    <2> QED BY <1>2, <1>6, <2>6 DEF R, before
  <1>7. before <= o + PageSize - 1 \/ before >= o + PageSize
    BY <1>1, <1>2, <1>3
  <1> QED BY <1>5, <1>6, <1>7

LEMMA HoldsOn ==
    ASSUME TypeOK, BeganFirst, TablesGoOn, NEW w \in Walks, w.page >= 1, Holds(w)
    PROVE  Holds(w)'
  <1> SUFFICES ASSUME w.filter.status = "any"
               PROVE  /\ w.start \subseteq Selected(w.merchant, w.filter)'
                      /\ w.pc = "page" =>
                            \A k \in w.start \ w.shown :
                                Before(k, Selected(w.merchant, w.filter))' >= Offset(w.page)
                      /\ w.pc = "end" => w.start \subseteq w.shown
    BY DEF Holds, Offset
  <1> DEFINE R == Selected(w.merchant, w.filter)
  <1>1. /\ w.start \subseteq R
        /\ w.pc = "page" => \A k \in w.start \ w.shown : Before(k, R) >= Offset(w.page)
        /\ w.pc = "end" => w.start \subseteq w.shown
    BY DEF Holds
  <1>2. R \subseteq R' /\ \A k \in R : Before(k, R) <= Before(k, R)'
    BY SelectionGrows
  <1>3. ASSUME w.pc = "page", NEW k \in w.start \ w.shown
        PROVE  Before(k, R)' >= Offset(w.page)
    <2>1. Before(k, R) \in Nat /\ Before(k, R)' \in Nat
      BY BeforeType, BeforeTypeNext
    <2>2. Before(k, R) >= Offset(w.page) /\ Before(k, R) <= Before(k, R)'
      BY <1>1, <1>2, <1>3
    <2>3. Offset(w.page) \in Int
      BY OffsetType DEF Walks
    <2> HIDE DEF R
    <2> QED BY <2>1, <2>2, <2>3
  <1> QED BY <1>1, <1>2, <1>3

LEMMA WalkStays ==
    ASSUME DInv, TablesGoOn, [Next]_vars
    PROVE  WalkHolds'
  <1>0. TypeOK /\ BeganFirst /\ HeldExist /\ PageAtLeastOne /\ WalkHolds
    BY DEF DInv
  <1>1. SUFFICES ASSUME NEW w, w = walk', w # NoWalk
                 PROVE  Holds(w)'
    BY DEF WalkHolds
  <1>2. CASE walk' = walk
    <2>1. w \in Walks /\ w.page >= 1 /\ Holds(w)
      BY <1>0, <1>1, <1>2 DEF TypeOK, PageAtLeastOne, WalkHolds
    <2> QED BY <1>0, <2>1, HoldsOn
  <1>3. ASSUME NEW m \in Merchants, NEW f \in Filters, OpenList(m, f)
        PROVE  Holds(w)'
    <2>1. /\ w = [pc |-> "page", merchant |-> m, filter |-> f, page |-> 1,
                  shown |-> {}, start |-> Selected(m, f)]
      BY <1>1, <1>3 DEF OpenList
    <2>2. w \in Walks /\ w.page >= 1
      BY <2>1, SelectedTypes DEF Walks
    <2>3. Offset(1) = 0
      BY OffsetType
    <2>4. \A k : Before(k, Selected(m, f)) >= 0
      BY <1>0, BeforeType
    <2>5. Holds(w)
      BY <2>1, <2>3, <2>4 DEF Holds
    <2> QED BY <1>0, <2>2, <2>5, HoldsOn
  <1>4. CASE ReadPage
    <2> DEFINE R == Selected(walk.merchant, walk.filter)
               items == Page(R, walk.page)
               full == Cardinality(items) = PageSize
    <2>1. walk \in Walks /\ walk.page \in Nat /\ walk.page >= 1 /\ walk.pc = "page"
          /\ walk.shown \subseteq Intents /\ Holds(walk)
      BY <1>0, <1>4 DEF ReadPage, TypeOK, NoWalk, Walks, PageAtLeastOne, WalkHolds
    <2>2. items \subseteq Intents
      BY SelectedTypes DEF Page
    <2>3. /\ w.pc = (IF full THEN "page" ELSE "end")
          /\ w.page = (IF full THEN walk.page + 1 ELSE walk.page)
          /\ w.shown = walk.shown \union items
          /\ w.merchant = walk.merchant /\ w.filter = walk.filter /\ w.start = walk.start
          /\ w \in Walks
      <3>1. walk.page + 1 \in Nat
        BY <2>1
      <3> HIDE DEF items
      <3>2. w = [walk EXCEPT !.pc = IF full THEN "page" ELSE "end",
                             !.page = IF full THEN @ + 1 ELSE @,
                             !.shown = @ \union items]
        BY <1>1, <1>4 DEF ReadPage, items
      <3> HIDE DEF full
      <3> QED BY <2>1, <2>2, <3>1, <3>2 DEF Walks
    <2>4. w.page >= 1
      BY <2>1, <2>3
    <2>5. ASSUME walk.filter.status = "any", NEW k \in walk.start, k \notin w.shown
          PROVE  full /\ Before(k, R) >= Offset(walk.page + 1)
      <3>1. k \in R /\ k \notin items /\ Before(k, R) >= Offset(walk.page)
        BY <2>1, <2>3, <2>5 DEF Holds
      <3> QED BY <1>0, <2>1, <3>1, PageShows
    <2>6. walk.filter.status = "any" => walk.start \subseteq R
      BY <2>1 DEF Holds
    <2>7. Holds(w)
      <3> HIDE DEF full
      <3>1. ASSUME w.filter.status = "any"
            PROVE  /\ w.start \subseteq Selected(w.merchant, w.filter)
                   /\ w.pc = "page" =>
                         \A k \in w.start \ w.shown :
                             Before(k, Selected(w.merchant, w.filter)) >= Offset(w.page)
                   /\ w.pc = "end" => w.start \subseteq w.shown
        BY <2>3, <2>5, <2>6, <3>1
      <3> QED BY <3>1 DEF Holds
    <2> QED BY <1>0, <2>3, <2>4, <2>7, HoldsOn
  <1>5. walk' # NoWalk
    BY <1>1
  <1>6. ASSUME NEW h \in Handlers, NEW k \in Intents, Finds(h, k)
        PROVE  walk' = walk
    BY <1>6, FindsLoad
  <1>7. ASSUME NEW h \in Handlers, Commits(h)
        PROVE  walk' = walk
    BY <1>0, <1>7, CommitsHeld
  <1> QED BY <1>2, <1>3, <1>4, <1>5, <1>6, <1>7
          DEF Next, vars, BeginCreate, CreateIntent, Writes, Finds, Commits, Abort, Adjust,
              ReadRow, CloseList, ReadEntries, CloseDetail

-----------------------------------------------------------------------------
(* The theorems.                                                           *)

LEMMA InitDInv == Init => DInv
  BY DEF Init, DInv, TypeOK, Rows, NoRow, BeganFirst, HeldExist, Exists, PageAtLeastOne, WalkHolds

\* What a client reading the list has not been shown lies at or behind its page,
\* after any creates that commit late (list_transactions' order and offset).
THEOREM ListInvariant == Spec => []DInv
  <1>1. DInv /\ [Next]_vars => DInv'
    <2> SUFFICES ASSUME DInv, [Next]_vars
                 PROVE  DInv'
      OBVIOUS
    <2>1. TablesGoOn
      BY NextTables DEF DInv
    <2>2. TypeOK' /\ PageAtLeastOne' /\ HeldExist'
      BY <2>1, NextTypes DEF DInv
    <2> QED BY <2>1, <2>2, WalkStays DEF DInv, TablesGoOn
  <1> QED BY <1>1, InitDInv, PTL DEF Spec

\* The commits of the payment service keep amounts natural numbers, whatever
\* refunds come in parts, and pages and details are of rows there can be.
THEOREM DashboardTypeCorrect == Spec => []TypeOK
  BY ListInvariant, PTL DEF DInv

\* However many rows are created or change while a merchant reads the list, and
\* whatever the page size: read until a page is not full, it has shown every row
\* that was there when it began.
THEOREM ListsMissNothing == Spec => []ListMissesNothing
  <1>1. DInv => ListMissesNothing
    BY DEF DInv, WalkHolds, Holds, ListMissesNothing, NoWalk
  <1> QED BY <1>1, ListInvariant, PTL

-----------------------------------------------------------------------------
(* Sums of entries.                                                        *)

\* Entries that can be summed.
Summable(S) == IsFiniteSet(S) /\ \A e \in S : Signed(e) \in Int

LEMMA SummableParts ==
    ASSUME NEW S, Summable(S), NEW P \in SUBSET S
    PROVE  Summable(P)
  BY FS_Subset DEF Summable

\* A sum of entries may be taken with the signs of any larger set.
LEMMA SumWithin ==
    ASSUME NEW S, Summable(S), NEW P \in SUBSET S
    PROVE  LET signs == [e \in S |-> Signed(e)] IN
           /\ IsFiniteSet(P) /\ IsIntOn(signs, P)
           /\ SumOf(P) = SumFunctionOnSet(signs, P)
  <1> DEFINE signs == [e \in S |-> Signed(e)]
             own == [e \in P |-> Signed(e)]
  <1>1. IsFiniteSet(P) /\ IsIntOn(signs, P) /\ Agree(own, signs, P) /\ DOMAIN own = P
    BY FS_Subset DEF Summable, IsIntOn, Agree
  <1>2. SumOf(P) = SumFunctionOnSet(own, P)
    BY <1>1 DEF SumOf, SumFunction
  <1> HIDE DEF own, signs
  <1>3. SumFunctionOnSet(own, P) = SumFunctionOnSet(signs, P)
    BY <1>1, SumSame
  <1> QED BY <1>1, <1>2, <1>3 DEF signs

LEMMA SumOfType ==
    ASSUME NEW S, Summable(S)
    PROVE  SumOf(S) \in Int
  <1> DEFINE signs == [e \in S |-> Signed(e)]
  <1>1. IsFiniteSet(S) /\ IsIntOn(signs, S) /\ SumOf(S) = SumFunctionOnSet(signs, S)
    BY SumWithin
  <1> HIDE DEF signs
  <1> QED BY <1>1, SumIsInt

LEMMA SumOfNone == SumOf({}) = 0
  <1> DEFINE own == [e \in {} |-> Signed(e)]
  <1>1. SumOf({}) = SumFunctionOnSet(own, {})
    BY DEF SumOf, SumFunction
  <1> HIDE DEF own
  <1> QED BY <1>1, FS_EmptySet, SumPick

LEMMA SumOfBoth ==
    ASSUME NEW A, Summable(A), NEW B, Summable(B), A \intersect B = {}
    PROVE  /\ Summable(A \union B) /\ SumOf(A) \in Int /\ SumOf(B) \in Int
           /\ SumOf(A \union B) = SumOf(A) + SumOf(B)
  <1> DEFINE S == A \union B
             signs == [e \in S |-> Signed(e)]
  <1>1. Summable(S)
    BY FS_Union DEF Summable
  <1>2. /\ IsFiniteSet(A) /\ IsIntOn(signs, A) /\ SumOf(A) = SumFunctionOnSet(signs, A)
        /\ IsFiniteSet(B) /\ IsIntOn(signs, B) /\ SumOf(B) = SumFunctionOnSet(signs, B)
        /\ SumOf(S) = SumFunctionOnSet(signs, S)
    BY <1>1, SumWithin
  <1> HIDE DEF signs
  <1>3. SumFunctionOnSet(signs, A \union B)
            = SumFunctionOnSet(signs, A) + SumFunctionOnSet(signs, B)
    BY <1>2, SumOfParts
  <1> QED BY <1>1, <1>2, <1>3, SumOfType

LEMMA SumOfOne ==
    ASSUME NEW e, Signed(e) \in Int
    PROVE  Summable({e}) /\ SumOf({e}) = Signed(e)
  <1> DEFINE S == {e}
             signs == [x \in S |-> Signed(x)]
  <1>1. Summable(S) /\ e \in S /\ S \ {e} = {}
    BY FS_Singleton DEF Summable
  <1>2. IsFiniteSet(S) /\ IsIntOn(signs, S) /\ SumOf(S) = SumFunctionOnSet(signs, S)
        /\ signs[e] = Signed(e)
    BY <1>1, SumWithin
  <1> HIDE DEF signs, S
  <1>3. SumFunctionOnSet(signs, S) = signs[e] + SumFunctionOnSet(signs, {})
    BY <1>1, <1>2, SumTake
  <1>4. SumFunctionOnSet(signs, {}) = 0
    BY FS_EmptySet, SumPick
  <1> QED BY <1>1, <1>2, <1>3, <1>4 DEF S

\* The entries of one currency; their net is that of their accounts' balances.
InCurrency(S, c) == {e \in S : e.currency = c}

LEMMA BalancesNet ==
    ASSUME NEW S, Summable(S), NEW c \in {e.currency : e \in S}
    PROVE  SumFunction(get_balances_by_currency(S)[c]) = SumOf(InCurrency(S, c))
  <1> DEFINE E == InCurrency(S, c)
             A == {e.account : e \in E}
             acct == [e \in E |-> e.account]
             signs == [e \in E |-> Signed(e)]
             balances == [a \in A |-> get_balance(E, a, c)]
  <1>1. get_balances_by_currency(S)[c] = balances
    BY DEF get_balances_by_currency, InCurrency
  <1>2. Summable(E)
    <2>1. E \in SUBSET S
      BY DEF InCurrency
    <2> QED BY <2>1, SummableParts
  <1>3. IsFiniteSet(A)
    <2>1. acct \in Surjection(E, A)
      BY DEF Surjection
    <2> QED BY <1>2, <2>1, FS_Surjection DEF Summable
  <1>4. \A e \in E : acct[e] \in A
    OBVIOUS
  <1>5. IsFiniteSet(E) /\ IsIntOn(signs, E) /\ SumOf(E) = SumFunctionOnSet(signs, E)
    BY <1>2, SumWithin
  <1>6. ASSUME NEW a \in A
        PROVE  balances[a] = FibreSums(signs, acct, E, A)[a]
    <2>1. {e \in E : e.account = a /\ e.currency = c} = Fibre(acct, E, a)
      BY DEF Fibre, InCurrency
    <2>2. Fibre(acct, E, a) \in SUBSET E
      BY DEF Fibre
    <2>3. SumOf(Fibre(acct, E, a)) = SumFunctionOnSet(signs, Fibre(acct, E, a))
      BY <1>2, <2>2, SumWithin
    <2>4. get_balance(E, a, c) = SumOf(Fibre(acct, E, a))
      BY <2>1 DEF get_balance
    <2> QED BY <2>3, <2>4 DEF FibreSums
  <1>7. Agree(balances, FibreSums(signs, acct, E, A), A)
    BY <1>6 DEF Agree
  <1>8. DOMAIN balances = A
    OBVIOUS
  <1> HIDE DEF E, A, acct, signs, balances
  <1>9. SumFunctionOnSet(balances, A) = SumFunctionOnSet(FibreSums(signs, acct, E, A), A)
    BY <1>3, <1>7, SumSame
  <1>10. SumFunctionOnSet(FibreSums(signs, acct, E, A), A) = SumFunctionOnSet(signs, E)
    BY <1>3, <1>4, <1>5, SumOfFibres
  <1> QED BY <1>1, <1>5, <1>8, <1>9, <1>10 DEF E, SumFunction

-----------------------------------------------------------------------------
(* The entries of a transaction.                                           *)

\* Balanced legs, whatever their accounts, make entries that cancel out.
LEMMA LegsCancelOut ==
    ASSUME NEW names, NEW legs \in Seq(Legs(names)), Balanced(legs), NEW id, NEW c, NEW k
    PROVE  LET E == EntriesOf(id, legs, c, k) IN
           /\ Summable(E) /\ SumOf(E) = 0 /\ E # {}
           /\ \A e \in E : e.transaction_id = id /\ e.currency = c /\ e.payment_intent_id = k
  <1> DEFINE E == EntriesOf(id, legs, c, k)
             D == DOMAIN legs
             entry == [i \in D |->
                 [transaction_id |-> id, leg |-> i, account |-> legs[i].account,
                  direction |-> legs[i].direction, amount |-> legs[i].amount,
                  currency |-> c, payment_intent_id |-> k]]
             signs == [e \in E |-> Signed(e)]
             amounts == [i \in D |-> legs[i].amount]
             none == [i \in D |-> 0]
             signed == [i \in D |-> IF legs[i].direction = "credit" THEN legs[i].amount
                                                                    ELSE - legs[i].amount]
             C == {i \in D : legs[i].direction = "credit"}
             B == {i \in D : legs[i].direction = "debit"}
  <1>1. /\ D = 1 .. Len(legs) /\ Len(legs) \in Nat /\ Len(legs) >= 2
        /\ \A i \in D : legs[i].amount \in Int /\ legs[i].direction \in Directions
    <2>1. D = 1 .. Len(legs) /\ Len(legs) \in Nat /\ \A i \in D : legs[i] \in Legs(names)
      OBVIOUS
    <2>2. Len(legs) >= 2
      BY DEF Balanced
    <2> QED BY <2>1, <2>2 DEF Legs
  <1>2. IsFiniteSet(D) /\ 1 \in D /\ IsFiniteSet(C) /\ IsFiniteSet(B)
    <2>1. IsFiniteSet(D)
      BY <1>1, FS_Interval
    <2>2. C \subseteq D /\ B \subseteq D
      OBVIOUS
    <2> HIDE DEF C, B, D
    <2>3. IsFiniteSet(C) /\ IsFiniteSet(B)
      BY <2>1, <2>2, FS_Subset
    <2>4. 1 \in D
      BY <1>1
    <2> QED BY <2>1, <2>3, <2>4
  <1>3. E = {entry[i] : i \in D} /\ \A i, j \in D : entry[i] = entry[j] => i = j
    BY DEF EntriesOf
  <1>4. C \intersect B = {} /\ C \union B = D
    BY <1>1 DEF Directions
  <1>5. /\ IsIntOn(amounts, C) /\ IsIntOn(amounts, B) /\ IsIntOn(none, B)
        /\ IsIntOn(signed, C) /\ IsIntOn(signed, B) /\ IsIntOn(signed, D)
    BY <1>1 DEF IsIntOn
  <1>6. \A i \in D : signs[entry[i]] = signed[i]
    BY <1>3 DEF Signed
  <1>7. SumFunctionOnSet(amounts, B) = SumFunctionOnSet(amounts, C)
    BY DEF Balanced, SumOfLegs
  <1>8. Agree(signed, amounts, C)
    BY DEF Agree
  <1>9. \A i \in B : signed[i] = none[i] - amounts[i] /\ none[i] = 0
    BY <1>1
  <1>10. \A e \in E : Signed(e) \in Int
    BY <1>1, <1>3 DEF Signed
  <1>11. SumOf(E) = SumFunctionOnSet(signs, E)
    BY DEF SumOf, SumFunction
  <1>12. E # {} /\ \A e \in E : e.transaction_id = id /\ e.currency = c /\ e.payment_intent_id = k
    <2>1. entry[1] \in E
      BY <1>2, <1>3
    <2>2. \A e \in E : e.transaction_id = id /\ e.currency = c /\ e.payment_intent_id = k
      BY DEF EntriesOf
    <2> QED BY <2>1, <2>2
  <1> HIDE DEF D, entry, signs, amounts, none, signed, C, B
  <1>13. IsFiniteSet(E) /\ SumFunctionOnSet(signs, E) = SumFunctionOnSet(signed, D)
    <2>1. /\ IsFiniteSet({entry[i] : i \in D})
          /\ SumFunctionOnSet(signs, {entry[i] : i \in D}) = SumFunctionOnSet(signed, D)
      BY <1>2, <1>3, <1>5, <1>6, SumOfImage
    <2> QED BY <1>3, <2>1
  <1>14. SumFunctionOnSet(signed, D)
             = SumFunctionOnSet(signed, C) + SumFunctionOnSet(signed, B)
    <2>1. SumFunctionOnSet(signed, C \union B)
              = SumFunctionOnSet(signed, C) + SumFunctionOnSet(signed, B)
      BY <1>2, <1>4, <1>5, SumOfParts
    <2> QED BY <1>4, <2>1
  <1>15. SumFunctionOnSet(signed, C) = SumFunctionOnSet(amounts, C)
    BY <1>2, <1>8, SumSame
  <1>16. SumFunctionOnSet(signed, B) = SumFunctionOnSet(none, B) - SumFunctionOnSet(amounts, B)
    BY <1>2, <1>5, <1>9, SumOfDifferences
  <1>17. SumFunctionOnSet(none, B) = 0
    BY <1>2, <1>9, SumOfZeros
  <1>18. SumFunctionOnSet(amounts, C) \in Int
    BY <1>2, <1>5, SumIsInt
  <1>19. SumOf(E) = 0
    BY <1>7, <1>11, <1>13, <1>14, <1>15, <1>16, <1>17, <1>18
  <1> QED BY <1>10, <1>12, <1>13, <1>19 DEF Summable

\* E moves n from debit to credit, in currency c.
Moves(E, debit, credit, n, c) ==
    /\ get_balance(E, debit, c) = - n /\ get_balance(E, credit, c) = n
    /\ \A a : a # debit /\ a # credit => get_balance(E, a, c) = 0
    /\ \E e \in E : e.account = debit /\ e.amount = n

\* The two entries of a pair, one in each of its accounts.
LEMMA PairEntries ==
    ASSUME NEW debit, NEW credit, debit # credit, NEW n \in Nat \ {0},
           NEW id, NEW c, NEW k
    PROVE  Moves(EntriesOf(id, Pair(debit, credit, n), c, k), debit, credit, n, c)
  <1> DEFINE legs == Pair(debit, credit, n)
             E == EntriesOf(id, legs, c, k)
             e1 == [transaction_id |-> id, leg |-> 1, account |-> debit, direction |-> "debit",
                    amount |-> n, currency |-> c, payment_intent_id |-> k]
             e2 == [transaction_id |-> id, leg |-> 2, account |-> credit, direction |-> "credit",
                    amount |-> n, currency |-> c, payment_intent_id |-> k]
             In(a) == {e \in E : e.account = a /\ e.currency = c}
  <1>1. /\ DOMAIN legs = {1, 2}
        /\ legs[1].account = debit /\ legs[1].direction = "debit" /\ legs[1].amount = n
        /\ legs[2].account = credit /\ legs[2].direction = "credit" /\ legs[2].amount = n
    BY DEF Pair, Leg
  <1>2. E = {e1, e2}
    <2> HIDE DEF legs
    <2>1. E = {[transaction_id |-> id, leg |-> i, account |-> legs[i].account,
                direction |-> legs[i].direction, amount |-> legs[i].amount,
                currency |-> c, payment_intent_id |-> k] : i \in {1, 2}}
      BY <1>1 DEF EntriesOf
    <2> QED BY <1>1, <2>1
  <1>3. /\ Signed(e1) = - n /\ Signed(e2) = n /\ - n \in Int /\ n \in Int
        /\ e1.account = debit /\ e2.account = credit /\ e1.currency = c /\ e2.currency = c
        /\ e1.amount = n
    BY DEF Signed
  <1> HIDE DEF e1, e2, E
  <1>4. /\ In(debit) = {e1} /\ In(credit) = {e2}
        /\ \A a : a # debit /\ a # credit => In(a) = {}
    BY <1>2, <1>3
  <1>5. \A a : get_balance(E, a, c) = SumOf(In(a))
    BY DEF get_balance
  <1>6. SumOf({e1}) = - n /\ SumOf({e2}) = n
    BY <1>3, SumOfOne
  <1>7. \E e \in E : e.account = debit /\ e.amount = n
    BY <1>2, <1>3
  <1> HIDE DEF In
  <1> QED BY <1>4, <1>5, <1>6, <1>7, SumOfNone DEF E, Moves

-----------------------------------------------------------------------------
(* Views net to zero.                                                      *)

\* The transactions of k, and the net of the entries in c of the intents in K.
Numbered(k) == {id \in Transactions : id[1] = k}

Net(c, K) == SumOf({e \in ledger_entries : e.currency = c /\ e.payment_intent_id \in K})

\* The transactions of an intent are numbered from 1, so the next number is new.
IdsCounted ==
    \A id \in Transactions :
        /\ id = <<id[1], id[2]>>
        /\ id[2] \in 1 .. Cardinality(Numbered(id[1]))

\* The inductive invariant of the ledger: whichever intents are taken together,
\* what they have in a currency nets to zero.
LedgerNets ==
    /\ Summable(ledger_entries)
    /\ IdsCounted
    /\ \A c, K : Net(c, K) = 0

LEMMA NewIdIsNew ==
    ASSUME LedgerNets, NEW k
    PROVE  /\ NewTransactionId(k) \notin Transactions
           /\ NewTransactionId(k) = <<k, Cardinality(Numbered(k)) + 1>>
           /\ IsFiniteSet(Transactions) /\ IsFiniteSet(Numbered(k))
           /\ Cardinality(Numbered(k)) \in Nat
  <1> DEFINE f == [e \in ledger_entries |-> e.transaction_id]
             n == Cardinality(Numbered(k))
  <1>1. IsFiniteSet(Transactions)
    <2>1. f \in Surjection(ledger_entries, Transactions)
      BY DEF Surjection, Transactions
    <2> QED BY <2>1, FS_Surjection DEF LedgerNets, Summable
  <1>2. IsFiniteSet(Numbered(k)) /\ n \in Nat
    BY <1>1, FS_Subset, FS_CardinalityType DEF Numbered
  <1>3. NewTransactionId(k) = <<k, n + 1>>
    BY DEF NewTransactionId, Numbered
  <1>4. <<k, n + 1>>[1] = k /\ <<k, n + 1>>[2] = n + 1
    OBVIOUS
  <1> HIDE DEF n
  <1>5. NewTransactionId(k) \notin Transactions
    <2> SUFFICES ASSUME <<k, n + 1>> \in Transactions
                 PROVE  FALSE
      BY <1>3
    <2>1. n + 1 \in 1 .. n
      BY <1>4 DEF LedgerNets, IdsCounted, n
    <2> QED BY <1>2, <2>1
  <1> QED BY <1>1, <1>2, <1>3, <1>5 DEF n

\* What record_transaction appends are new entries that cancel out.
LEMMA RecordedEntries ==
    ASSUME LedgerNets, NEW names, NEW legs \in Seq(Legs(names)), NEW c, NEW k, RecordTransaction(legs, c, k)
    PROVE  LET E == EntriesOf(NewTransactionId(k), legs, c, k) IN
           /\ ledger_entries' = ledger_entries \union E
           /\ ledger_entries \intersect E = {} /\ Summable(E) /\ SumOf(E) = 0 /\ E # {}
           /\ \A e \in E : /\ e.transaction_id = NewTransactionId(k)
                           /\ e.currency = c /\ e.payment_intent_id = k
  <1> DEFINE id == NewTransactionId(k)
             E == EntriesOf(id, legs, c, k)
  <1>1. Balanced(legs) /\ ledger_entries' = ledger_entries \union E
    BY DEF RecordTransaction
  <1> HIDE DEF id
  <1>2. /\ Summable(E) /\ SumOf(E) = 0 /\ E # {}
        /\ \A e \in E : e.transaction_id = id /\ e.currency = c /\ e.payment_intent_id = k
    BY <1>1, LegsCancelOut
  <1>3. id \notin Transactions
    BY NewIdIsNew DEF id
  <1>4. ledger_entries \intersect E = {}
    BY <1>2, <1>3 DEF Transactions
  <1> QED BY <1>1, <1>2, <1>4 DEF id

LEMMA RecordKeepsIds ==
    ASSUME LedgerNets, NEW names, NEW legs \in Seq(Legs(names)), NEW c, NEW k, RecordTransaction(legs, c, k)
    PROVE  IdsCounted'
  <1> DEFINE new == NewTransactionId(k)
             E == EntriesOf(new, legs, c, k)
             n == Cardinality(Numbered(k))
  <1>1. /\ ledger_entries' = ledger_entries \union E /\ E # {}
        /\ \A e \in E : e.transaction_id = new
    BY RecordedEntries
  <1>2. new \notin Transactions /\ new = <<k, n + 1>> /\ n \in Nat /\ IsFiniteSet(Numbered(k))
    BY NewIdIsNew
  <1>3. new[1] = k /\ new[2] = n + 1 /\ new = <<new[1], new[2]>>
    BY <1>2
  <1> HIDE DEF new, E
  <1>4. Transactions' = Transactions \union {new}
    BY <1>1 DEF Transactions
  <1>5. Numbered(k)' = Numbered(k) \union {new} /\ new \notin Numbered(k)
    BY <1>2, <1>3, <1>4 DEF Numbered
  <1>6. Cardinality(Numbered(k)') = n + 1
    BY <1>2, <1>5, FS_AddElement
  <1>7. \A j : j # k => Numbered(j)' = Numbered(j)
    BY <1>3, <1>4 DEF Numbered
  <1>8. ASSUME NEW id \in Transactions'
        PROVE  id = <<id[1], id[2]>> /\ id[2] \in 1 .. Cardinality(Numbered(id[1])')
    <2>1. CASE id = new
      BY <1>2, <1>3, <1>6, <2>1
    <2>2. CASE id \in Transactions /\ id[1] = k
      BY <1>2, <1>6, <2>2 DEF LedgerNets, IdsCounted, n
    <2>3. CASE id \in Transactions /\ id[1] # k
      BY <1>7, <2>3 DEF LedgerNets, IdsCounted
    <2> QED BY <1>4, <2>1, <2>2, <2>3
  <1> QED BY <1>8 DEF IdsCounted

LEMMA RecordKeepsNets ==
    ASSUME LedgerNets, NEW names, NEW legs \in Seq(Legs(names)), NEW c, NEW k, RecordTransaction(legs, c, k)
    PROVE  LedgerNets'
  <1> DEFINE E == EntriesOf(NewTransactionId(k), legs, c, k)
  <1>1. /\ ledger_entries' = ledger_entries \union E
        /\ ledger_entries \intersect E = {} /\ Summable(E) /\ SumOf(E) = 0
        /\ \A e \in E : e.currency = c /\ e.payment_intent_id = k
    BY RecordedEntries
  <1> HIDE DEF E
  <1>2. Summable(ledger_entries)
    BY DEF LedgerNets
  <1>3. Summable(ledger_entries')
    BY <1>1, <1>2, SumOfBoth
  <1>4. ASSUME NEW d, NEW K
        PROVE  Net(d, K)' = 0
    <2> DEFINE Old == {e \in ledger_entries : e.currency = d /\ e.payment_intent_id \in K}
               New == {e \in ledger_entries' : e.currency = d /\ e.payment_intent_id \in K}
    <2>1. SumOf(Old) = 0
      BY DEF LedgerNets, Net
    <2>2. Summable(Old) /\ Old \intersect E = {}
      BY <1>1, <1>2, SummableParts
    <2>3. CASE c = d /\ k \in K
      <3>1. New = Old \union E
        BY <1>1, <2>3
      <3> HIDE DEF Old, New
      <3>2. SumOf(Old \union E) = SumOf(Old) + SumOf(E)
        BY <1>1, <2>2, SumOfBoth
      <3>3. SumOf(New) = 0
        BY <1>1, <2>1, <3>1, <3>2
      <3> QED BY <3>3 DEF Net, New
    <2>4. CASE ~(c = d /\ k \in K)
      <3>1. New = Old
        BY <1>1, <2>4
      <3> QED BY <2>1, <3>1 DEF Net
    <2> QED BY <2>3, <2>4
  <1> QED BY <1>3, <1>4, RecordKeepsIds DEF LedgerNets

\* Every step records a transaction, or none.
Recorded ==
    \/ UNCHANGED ledger_entries
    \/ \E names, c, k : \E legs \in Seq(Legs(names)) : RecordTransaction(legs, c, k)

LEMMA PairIsLegs ==
    ASSUME NEW debit, NEW credit, NEW n \in Int
    PROVE  Pair(debit, credit, n) \in Seq(Legs({debit, credit}))
  <1>1. /\ Leg(debit, "debit", n) \in Legs({debit, credit})
        /\ Leg(credit, "credit", n) \in Legs({debit, credit})
    BY DEF Leg, Legs, Directions
  <1> QED BY <1>1 DEF Pair

LEMMA WritesRecord ==
    ASSUME NEW k, NEW row, NEW debit, NEW credit, NEW n \in Int,
           Writes(k, row, debit, credit, n)
    PROVE  Recorded
  BY PairIsLegs DEF Writes, Recorded

LEMMA AmountsArePositive == \A amount \in Amounts : amount \in Nat \ {0}
  BY DashboardAssumption

LEMMA CommitsRecord ==
    ASSUME TypeOK, HeldExist, NEW h \in Handlers, Commits(h)
    PROVE  Recorded
  <1> DEFINE k == held[h].intent
             seen == held[h].row
  <1>1. seen.amount \in Int /\ seen.received \in Int /\ seen.refunded \in Int
    BY CommitsHeld DEF Rows
  <1>2. CASE ConfirmCommit(h)
    BY <1>2 DEF ConfirmCommit, Recorded
  <1>3. CASE CancelCommit(h)
    <2>1. \E row : Writes(k, row, "payments_authorised", "customer_pending", seen.amount)
      BY <1>3 DEF CancelCommit
    <2> QED BY <1>1, <2>1, WritesRecord
  <1>4. CASE ApplyCommit(h)
    <2>1. \E row : Writes(k, row, "payments_authorised", "payments_captured", seen.amount)
      BY <1>4 DEF ApplyCommit
    <2> QED BY <1>1, <2>1, WritesRecord
  <1>5. CASE RefundCommit(h)
    <2>1. PICK n \in 1 .. Refundable(seen) :
              \E row : Writes(k, row, "payments_captured", "customer", n)
      BY <1>5 DEF RefundCommit
    <2>2. n \in Int
      BY <1>1, <2>1 DEF Refundable
    <2> QED BY <2>1, <2>2, WritesRecord
  <1> QED BY <1>2, <1>3, <1>4, <1>5 DEF Commits

LEMMA NextRecorded ==
    ASSUME TypeOK, HeldExist, [Next]_vars
    PROVE  Recorded
  <1>1. ASSUME NEW k \in Intents, CreateIntent(k)
        PROVE  Recorded
    <2>1. PICK amount \in Amounts : \E row :
              Writes(k, row, "customer_pending", "payments_authorised", amount)
      BY <1>1 DEF CreateIntent
    <2>2. amount \in Int
      BY AmountsArePositive
    <2>3. PICK row : Writes(k, row, "customer_pending", "payments_authorised", amount)
      BY <2>1
    <2> QED BY <2>2, <2>3, WritesRecord
  <1>2. ASSUME NEW h \in Handlers, Commits(h)
        PROVE  Recorded
    BY <1>2, CommitsRecord
  <1>3. ASSUME NEW h \in Handlers, NEW k \in Intents, Finds(h, k)
        PROVE  UNCHANGED ledger_entries
    BY <1>3, FindsLoad DEF tables
  <1>5. CASE Adjust
    BY <1>5, AdjustmentsAssumption DEF Adjust, Recorded
  <1>6. CASE UNCHANGED ledger_entries
    BY <1>6 DEF Recorded
  <1> QED BY <1>1, <1>2, <1>3, <1>5, <1>6
          DEF Next, vars, tables, BeginCreate, Finds, Commits, Abort, OpenList, ReadRow, ReadPage,
              CloseList, ReadEntries, CloseDetail

LEMMA InitLedger == Init => LedgerNets
  <1> SUFFICES ASSUME Init
               PROVE  LedgerNets
    OBVIOUS
  <1>1. ledger_entries = {}
    BY DEF Init
  <1>2. Summable(ledger_entries)
    BY <1>1, FS_EmptySet DEF Summable
  <1>3. IdsCounted
    BY <1>1 DEF IdsCounted, Transactions
  <1>4. ASSUME NEW c, NEW K
        PROVE  Net(c, K) = 0
    <2>1. {e \in ledger_entries : e.currency = c /\ e.payment_intent_id \in K} = {}
      BY <1>1
    <2> QED BY <2>1, SumOfNone DEF Net
  <1> QED BY <1>2, <1>3, <1>4 DEF LedgerNets

LEMMA NextLedger ==
    ASSUME TypeOK, HeldExist, LedgerNets, [Next]_vars
    PROVE  LedgerNets'
  <1>1. CASE UNCHANGED ledger_entries
    BY <1>1 DEF LedgerNets, Summable, IdsCounted, Transactions, Numbered, Net
  <1>2. ASSUME NEW names, NEW legs \in Seq(Legs(names)), NEW c, NEW k, RecordTransaction(legs, c, k)
        PROVE  LedgerNets'
    BY <1>2, RecordKeepsNets
  <1> QED BY <1>1, <1>2, NextRecorded DEF Recorded

\* A view of the entries of some intents, whichever they are, nets to zero.
LEMMA ViewNets ==
    ASSUME LedgerNets, NEW K
    PROVE  NetsToZero({e \in ledger_entries : e.payment_intent_id \in K})
  <1> DEFINE S == {e \in ledger_entries : e.payment_intent_id \in K}
  <1>1. Summable(S)
    BY SummableParts DEF LedgerNets
  <1>2. DOMAIN get_balances_by_currency(S) = {e.currency : e \in S}
    BY DEF get_balances_by_currency
  <1>3. ASSUME NEW c \in {e.currency : e \in S}
        PROVE  SumFunction(get_balances_by_currency(S)[c]) = 0
    <2>1. InCurrency(S, c)
              = {e \in ledger_entries : e.currency = c /\ e.payment_intent_id \in K}
      BY DEF InCurrency
    <2>2. SumOf(InCurrency(S, c)) = 0
      BY <2>1 DEF LedgerNets, Net
    <2> HIDE DEF S
    <2> QED BY <1>1, <2>2, BalancesNet
  <1> HIDE DEF S
  <1>4. NetsToZero(S)
    BY <1>2, <1>3 DEF NetsToZero
  <1> QED BY <1>4 DEF S

LEMMA ViewsNet ==
    ASSUME LedgerNets
    PROVE  ViewsNetToZero
  <1>1. NetsToZero(ledger_entries)
    <2> DEFINE K == {e.payment_intent_id : e \in ledger_entries}
    <2>1. {e \in ledger_entries : e.payment_intent_id \in K} = ledger_entries
      OBVIOUS
    <2> HIDE DEF K
    <2> QED BY <2>1, ViewNets
  <1>2. ASSUME NEW m \in Merchants
        PROVE  NetsToZero(ViewOf(m))
    <2> DEFINE K == {e.payment_intent_id : e \in ViewOf(m)}
    <2>1. {e \in ledger_entries : e.payment_intent_id \in K} = ViewOf(m)
      BY DEF ViewOf
    <2> HIDE DEF K
    <2> QED BY <2>1, ViewNets
  <1> QED BY <1>1, <1>2 DEF ViewsNetToZero

\* The ledger a sequence of record_transaction calls can build: what any set of
\* intents has in any currency nets to zero.
THEOREM LedgerInvariant == Spec => []LedgerNets
  <1>1. DInv /\ LedgerNets /\ [Next]_vars => LedgerNets'
    BY NextLedger DEF DInv
  <1> QED BY <1>1, InitLedger, ListInvariant, PTL DEF Spec

\* Whatever legs adjustments ask for, in accounts of any names: the whole ledger
\* and each merchant's view of it net to zero in every currency.
THEOREM ViewsAreBalanced == Spec => []ViewsNetToZero
  BY LedgerInvariant, ViewsNet, PTL

-----------------------------------------------------------------------------
(* An intent's entries as books.                                           *)

EntriesFor(k) == list_entries_for_intent(ledger_entries, k)

Bal(k, a) == get_balance(EntriesFor(k), a, k.currency)

LEMMA BooksAreBalances ==
    ASSUME NEW k \in Intents, NEW a \in Accounts
    PROVE  EntryBooks[k][a] = Bal(k, a) /\ EntryBooks'[k][a] = Bal(k, a)'
  BY DEF EntryBooks, Bal, EntriesFor

\* A transaction of one intent leaves the entries of the others as they are.
LEMMA OthersEntries ==
    ASSUME LedgerNets, NEW names, NEW legs \in Seq(Legs(names)), NEW c, NEW k,
           RecordTransaction(legs, c, k)
    PROVE  /\ ledger_entries \subseteq ledger_entries'
           /\ \A j : j # k => EntriesFor(j)' = EntriesFor(j)
  <1> DEFINE E == EntriesOf(NewTransactionId(k), legs, c, k)
  <1>1. /\ ledger_entries' = ledger_entries \union E
        /\ \A e \in E : e.payment_intent_id = k
    BY RecordedEntries
  <1> HIDE DEF E
  <1> QED BY <1>1 DEF EntriesFor, list_entries_for_intent

\* The row of k becomes row and n moves from debit to credit in its books.
Moved(k, row, debit, credit, n) ==
    /\ n > 0
    /\ payment_intents' = [payment_intents EXCEPT ![k] = row]
    /\ ledger_entries \subseteq ledger_entries'
    /\ \A j : j # k => EntriesFor(j)' = EntriesFor(j)
    /\ \A a : /\ Bal(k, a) \in Int
              /\ Bal(k, a)' = IF a = debit THEN Bal(k, a) - n
                              ELSE IF a = credit THEN Bal(k, a) + n ELSE Bal(k, a)
    /\ \E e \in EntriesFor(k)' : e.account = debit /\ e.amount = n

LEMMA WritesMove ==
    ASSUME LedgerNets, NEW k \in Intents, NEW row, NEW debit, NEW credit, debit # credit,
           NEW n \in Int, Writes(k, row, debit, credit, n)
    PROVE  Moved(k, row, debit, credit, n)
  <1> DEFINE legs == Pair(debit, credit, n)
             c == k.currency
             E == EntriesOf(NewTransactionId(k), legs, c, k)
             In(a) == {e \in E : e.account = a /\ e.currency = c}
             Old(a) == {e \in EntriesFor(k) : e.account = a /\ e.currency = c}
  <1>1. RecordTransaction(legs, c, k) /\ payment_intents' = [payment_intents EXCEPT ![k] = row]
    BY DEF Writes
  <1>2. n > 0
    <2>1. Balanced(legs)
      BY <1>1 DEF RecordTransaction
    <2>2. 1 \in DOMAIN legs /\ legs[1].amount = n
      BY DEF Pair, Leg
    <2> QED BY <2>1, <2>2 DEF Balanced
  <1>3. n \in Nat \ {0}
    BY <1>2
  <1>4. /\ legs \in Seq(Legs({debit, credit}))
        /\ get_balance(E, debit, c) = - n /\ get_balance(E, credit, c) = n
        /\ \A a : a # debit /\ a # credit => get_balance(E, a, c) = 0
        /\ \E e \in E : e.account = debit /\ e.amount = n
    <2>1. legs \in Seq(Legs({debit, credit}))
      BY PairIsLegs
    <2>2. Moves(E, debit, credit, n, c)
      BY <1>3, PairEntries
    <2> HIDE DEF legs, E
    <2> QED BY <2>1, <2>2 DEF Moves
  <1> HIDE DEF legs
  <1>5. /\ ledger_entries' = ledger_entries \union E
        /\ ledger_entries \intersect E = {} /\ Summable(E)
        /\ \A e \in E : e.currency = c /\ e.payment_intent_id = k
    BY <1>1, <1>4, RecordedEntries
  <1>6. ledger_entries \subseteq ledger_entries' /\ \A j : j # k => EntriesFor(j)' = EntriesFor(j)
    BY <1>1, <1>4, OthersEntries
  <1> HIDE DEF E
  <1>7. EntriesFor(k)' = EntriesFor(k) \union E /\ EntriesFor(k) \subseteq ledger_entries
    BY <1>5 DEF EntriesFor, list_entries_for_intent
  <1>8. \E e \in EntriesFor(k)' : e.account = debit /\ e.amount = n
    BY <1>4, <1>7
  <1>9. ASSUME NEW a
        PROVE  /\ Bal(k, a) \in Int /\ get_balance(E, a, c) \in Int
               /\ Bal(k, a)' = Bal(k, a) + get_balance(E, a, c)
    <2>1. /\ Old(a) \in SUBSET ledger_entries /\ In(a) \in SUBSET E
          /\ Old(a) \intersect In(a) = {}
      BY <1>5, <1>7
    <2>2. {e \in EntriesFor(k)' : e.account = a /\ e.currency = c} = Old(a) \union In(a)
      BY <1>7
    <2>3. /\ Bal(k, a) = SumOf(Old(a)) /\ Bal(k, a)' = SumOf(Old(a) \union In(a))
          /\ get_balance(E, a, c) = SumOf(In(a))
      BY <2>2 DEF Bal, get_balance
    <2> HIDE DEF Old, In
    <2>4. Summable(Old(a)) /\ Summable(In(a))
      BY <1>5, <2>1, SummableParts DEF LedgerNets
    <2>5. /\ SumOf(Old(a)) \in Int /\ SumOf(In(a)) \in Int
          /\ SumOf(Old(a) \union In(a)) = SumOf(Old(a)) + SumOf(In(a))
      BY <2>1, <2>4, SumOfBoth
    <2> QED BY <2>3, <2>5
  <1> HIDE DEF In
  <1>10. ASSUME NEW a
         PROVE  /\ Bal(k, a) \in Int
                /\ Bal(k, a)' = IF a = debit THEN Bal(k, a) - n
                                ELSE IF a = credit THEN Bal(k, a) + n ELSE Bal(k, a)
    BY <1>3, <1>4, <1>9
  <1> QED BY <1>1, <1>2, <1>6, <1>8, <1>10 DEF Moved

LEMMA BalancesAreInt ==
    ASSUME LedgerNets, NEW k, NEW a
    PROVE  Bal(k, a) \in Int
  <1> DEFINE own == {e \in EntriesFor(k) : e.account = a /\ e.currency = k.currency}
  <1>1. own \in SUBSET ledger_entries
    BY DEF EntriesFor, list_entries_for_intent
  <1> HIDE DEF own
  <1>2. SumOf(own) \in Int
    BY <1>1, SummableParts, SumOfType DEF LedgerNets
  <1> QED BY <1>2 DEF own, Bal, get_balance

\* What was received is in two accounts: a refund moves it to the other.
Kept(k) == Bal(k, "payments_captured") + Bal(k, "customer")

\* What row says of money received and refunded is in the entries of k.
Covers(k, row) == Bal(k, "customer") >= row.refunded /\ Kept(k) >= row.received

Accrued(k, row) == \E e \in EntriesFor(k) : e.account = "customer_pending" /\ e.amount = row.amount

RowsCovered ==
    \A k \in Intents :
        LET row == payment_intents[k] IN
        /\ row.received <= row.amount
        /\ Covers(k, row)
        /\ Exists(k) => Accrued(k, row)

\* So is what a handler goes on from, which is of the row's amount.
HeldCovered ==
    \A h \in Handlers : held[h] # NoRead =>
        LET seen == held[h].row
            now == payment_intents[held[h].intent]
        IN  seen.amount = now.amount /\ seen.received <= now.received /\ Covers(held[h].intent, seen)

\* The inductive invariant of the tables.
TInv == TypeOK /\ HeldExist /\ LedgerNets /\ RowsCovered /\ HeldCovered

\* Rows are never taken back, their amount stays, and entries and the balances
\* that cover a row only grow; amount_refunded itself may fall.
MoneyGrows ==
    \A k \in Intents :
        /\ Exists(k) =>
              /\ payment_intents'[k].status # "absent"
              /\ payment_intents'[k].amount = payment_intents[k].amount
              /\ payment_intents'[k].received >= payment_intents[k].received
        /\ EntriesFor(k) \subseteq EntriesFor(k)'
        /\ Bal(k, "customer")' >= Bal(k, "customer")
        /\ Kept(k)' >= Kept(k)

\* A step of Postings, or none, after which the entries cover the rows again.
Posting == PostingsOfEntries!Next \/ UNCHANGED <<payment_intents, EntryBooks>>

PostsWell == Posting /\ RowsCovered' /\ MoneyGrows

LEMMA CoveredStays ==
    ASSUME LedgerNets, LedgerNets', MoneyGrows, NEW k \in Intents, NEW row \in Rows
    PROVE  /\ Covers(k, row) => Covers(k, row)'
           /\ Accrued(k, row) => Accrued(k, row)'
  <1>1. /\ Bal(k, "customer")' >= Bal(k, "customer") /\ Kept(k)' >= Kept(k)
        /\ EntriesFor(k) \subseteq EntriesFor(k)'
    BY DEF MoneyGrows
  <1>2. /\ Bal(k, "customer") \in Int /\ Bal(k, "customer")' \in Int
        /\ Bal(k, "payments_captured") \in Int /\ Bal(k, "payments_captured")' \in Int
    <2>1. \A a : Bal(k, a) \in Int
      BY BalancesAreInt
    <2>2. \A a : Bal(k, a)' \in Int
      <3> DEFINE own(a) == {e \in EntriesFor(k)' : e.account = a /\ e.currency = k.currency}
      <3>1. \A a : own(a) \in SUBSET ledger_entries'
        BY DEF EntriesFor, list_entries_for_intent
      <3>2. \A a : Bal(k, a)' = SumOf(own(a))
        BY DEF Bal, get_balance
      <3>3. Summable(ledger_entries')
        BY DEF LedgerNets
      <3> HIDE DEF own
      <3> QED BY <3>1, <3>2, <3>3, SummableParts, SumOfType
    <2> QED BY <2>1, <2>2
  <1>3. Kept(k) \in Int /\ Kept(k)' \in Int
    BY <1>2 DEF Kept
  <1>4. row.refunded \in Int /\ row.received \in Int
    BY DEF Rows
  <1>5. Covers(k, row) => Covers(k, row)'
    <2> DEFINE c == Bal(k, "customer")
               kept == Kept(k)
    <2> SUFFICES ASSUME c >= row.refunded, kept >= row.received
                 PROVE  c' >= row.refunded /\ kept' >= row.received
      BY DEF Covers
    <2>1. c' >= c /\ kept' >= kept /\ c \in Int /\ c' \in Int /\ kept \in Int /\ kept' \in Int
      BY <1>1, <1>2, <1>3
    <2> HIDE DEF c, kept
    <2> QED BY <1>4, <2>1
  <1>6. Accrued(k, row) => Accrued(k, row)'
    BY <1>1 DEF Accrued
  <1> QED BY <1>5, <1>6

\* What is left to show of a commit: its posting, and the row it writes.
LEMMA CommitPostsWell ==
    ASSUME TInv, LedgerNets', NEW k \in Intents, NEW row \in Rows, row.status # "absent",
           NEW debit \in Accounts \ {"customer"}, NEW credit \in Accounts, debit # credit,
           NEW n \in Int, Writes(k, row, debit, credit, n),
           Exists(k) => /\ row.amount = payment_intents[k].amount
                        /\ row.received >= payment_intents[k].received,
           ~Exists(k) => debit = "customer_pending" /\ row.amount = n,
           debit = "payments_captured" => credit = "customer",
           row.received <= row.amount,
           row.refunded <= Bal(k, "customer") + (IF credit = "customer" THEN n ELSE 0),
           row.received <= Kept(k) + (IF credit = "payments_captured" THEN n ELSE 0)
    PROVE  PostingsOfEntries!Post(k, row, debit, credit, n) /\ RowsCovered' /\ MoneyGrows
  <1> DEFINE old == payment_intents[k]
             c == Bal(k, "customer")
             p == Bal(k, "payments_captured")
  <1>0. LedgerNets /\ RowsCovered /\ payment_intents \in [Intents -> Rows]
    BY DEF TInv, TypeOK
  <1>1. /\ payment_intents' = [payment_intents EXCEPT ![k] = row] /\ n > 0
        /\ ledger_entries \subseteq ledger_entries'
        /\ \A j : j # k => EntriesFor(j)' = EntriesFor(j)
        /\ \A a : /\ Bal(k, a) \in Int
                  /\ Bal(k, a)' = IF a = debit THEN Bal(k, a) - n
                                  ELSE IF a = credit THEN Bal(k, a) + n ELSE Bal(k, a)
        /\ \E e \in EntriesFor(k)' : e.account = debit /\ e.amount = n
    <2>1. Moved(k, row, debit, credit, n)
      BY <1>0, WritesMove
    <2> QED BY <2>1 DEF Moved
  <1>2. \A j, a : j # k => Bal(j, a)' = Bal(j, a)
    BY <1>1 DEF Bal
  <1>3. payment_intents'[k] = row /\ \A j \in Intents : j # k => payment_intents'[j] = payment_intents[j]
    BY <1>0, <1>1
  <1>4. PostingsOfEntries!Post(k, row, debit, credit, n)
    <2>1. EntryBooks' = [EntryBooks EXCEPT ![k] =
              [EntryBooks[k] EXCEPT ![debit] = @ - n, ![credit] = @ + n]]
      <3> DEFINE new == [EntryBooks EXCEPT ![k] =
                    [EntryBooks[k] EXCEPT ![debit] = @ - n, ![credit] = @ + n]]
      <3>1. /\ EntryBooks = [j \in Intents |-> [a \in Accounts |-> Bal(j, a)]]
            /\ EntryBooks' = [j \in Intents |-> [a \in Accounts |-> Bal(j, a)']]
        BY DEF EntryBooks, Bal, EntriesFor
      <3>2. new = [j \in Intents |-> [a \in Accounts |-> new[j][a]]]
        BY <3>1
      <3>3. \A j \in Intents, a \in Accounts : new[j][a] = Bal(j, a)'
        BY <1>1, <1>2, <3>1
      <3> HIDE DEF new
      <3>4. EntryBooks' = [j \in Intents |-> [a \in Accounts |-> new[j][a]]]
        BY <3>1, <3>3
      <3> QED BY <3>2, <3>4 DEF new
    <2> QED BY <1>1, <2>1 DEF PostingsOfEntries!Post, PostingsOfEntries!Transfer
  <1>5. /\ c \in Int /\ p \in Int /\ "customer" # "payments_captured"
        /\ c' = c + (IF credit = "customer" THEN n ELSE 0)
        /\ p' = p + (IF debit = "payments_captured" THEN - n
                     ELSE IF credit = "payments_captured" THEN n ELSE 0)
    BY <1>1
  <1>6. /\ Kept(k) = p + c /\ Kept(k)' = p' + c'
        /\ Kept(k)' >= Kept(k) + (IF credit = "payments_captured" THEN n ELSE 0)
    <2>1. Kept(k) = p + c /\ Kept(k)' = p' + c'
      BY DEF Kept
    <2> HIDE DEF c, p
    <2> QED BY <1>1, <1>5, <2>1
  <1>7. /\ c' >= c /\ c' >= row.refunded /\ Kept(k)' >= Kept(k) /\ Kept(k)' >= row.received
    <2>1. row.refunded \in Int /\ row.received \in Int
      BY DEF Rows
    <2>2. row.refunded <= c + (IF credit = "customer" THEN n ELSE 0)
      OBVIOUS
    <2> HIDE DEF c, p
    <2>3. Kept(k) \in Int /\ Kept(k)' \in Int
      BY <1>1, <1>5, <1>6
    <2> QED BY <1>1, <1>5, <1>6, <2>1, <2>2, <2>3
  <1>8. MoneyGrows
    <2>1. ASSUME NEW j \in Intents, j # k
          PROVE  /\ Exists(j) =>
                       /\ payment_intents'[j].status # "absent"
                       /\ payment_intents'[j].amount = payment_intents[j].amount
                       /\ payment_intents'[j].received >= payment_intents[j].received
                 /\ EntriesFor(j) \subseteq EntriesFor(j)'
                 /\ Bal(j, "customer")' >= Bal(j, "customer")
                 /\ Kept(j)' >= Kept(j)
      <3>1. /\ Bal(j, "customer")' = Bal(j, "customer") /\ Kept(j)' = Kept(j)
            /\ EntriesFor(j)' = EntriesFor(j) /\ payment_intents'[j] = payment_intents[j]
        BY <1>1, <1>2, <1>3, <2>1 DEF Kept
      <3>2. Bal(j, "customer") \in Int /\ Bal(j, "payments_captured") \in Int
            /\ payment_intents[j].received \in Int
        BY <1>0, BalancesAreInt DEF Rows
      <3> QED BY <3>1, <3>2 DEF Exists, Kept
    <2>2. EntriesFor(k) \subseteq EntriesFor(k)'
      BY <1>1 DEF EntriesFor, list_entries_for_intent
    <2> QED BY <1>3, <1>7, <2>1, <2>2 DEF MoneyGrows
  <1>9. RowsCovered'
    <2>1. ASSUME NEW j \in Intents, j # k
          PROVE  /\ payment_intents'[j].received <= payment_intents'[j].amount
                 /\ Covers(j, payment_intents[j])'
                 /\ Exists(j)' => Accrued(j, payment_intents[j])'
      <3> DEFINE w == payment_intents[j]
      <3>1. payment_intents'[j] = w /\ Covers(j, w) /\ w.received <= w.amount /\ (Exists(j) => Accrued(j, w))
        BY <1>0, <1>3, <2>1 DEF RowsCovered
      <3>2. /\ Bal(j, "customer")' = Bal(j, "customer")
            /\ Bal(j, "payments_captured")' = Bal(j, "payments_captured")
            /\ EntriesFor(j)' = EntriesFor(j)
        BY <1>1, <1>2, <2>1
      <3> QED BY <3>1, <3>2 DEF Covers, Kept, Accrued, Exists
    <2>2. Covers(k, row)'
      BY <1>7 DEF Covers
    <2>3. Accrued(k, row)'
      <3>1. CASE Exists(k)
        <4>1. Accrued(k, old) /\ EntriesFor(k) \subseteq EntriesFor(k)'
          BY <1>0, <1>8, <3>1 DEF RowsCovered, MoneyGrows
        <4> QED BY <3>1, <4>1 DEF Accrued
      <3>2. CASE ~Exists(k)
        BY <1>1, <3>2 DEF Accrued
      <3> QED BY <3>1, <3>2
    <2> QED BY <1>3, <2>1, <2>2, <2>3 DEF RowsCovered, Covers, Kept, Accrued
  <1> QED BY <1>4, <1>8, <1>9

\* What a commit of a handler rests on.
LEMMA HeldFacts ==
    ASSUME TInv, NEW h \in Handlers, Commits(h)
    PROVE  LET k == held[h].intent
               seen == held[h].row
               old == payment_intents[k]
           IN  /\ k \in Intents /\ Exists(k) /\ seen \in Rows /\ old \in Rows
               /\ seen.amount \in Nat /\ seen.received \in Nat /\ seen.refunded \in Nat
               /\ old.amount \in Nat /\ old.received \in Nat /\ old.refunded \in Nat
               /\ Bal(k, "customer") \in Int /\ Kept(k) \in Int
               /\ seen.amount = old.amount /\ seen.received <= old.received
               /\ old.received <= old.amount
               /\ Bal(k, "customer") >= seen.refunded
               /\ Bal(k, "customer") >= old.refunded /\ Kept(k) >= old.received
  <1> DEFINE k == held[h].intent
             seen == held[h].row
             old == payment_intents[k]
  <1>1. TypeOK /\ HeldExist /\ LedgerNets /\ RowsCovered /\ HeldCovered
    BY DEF TInv
  <1>2. held[h] # NoRead /\ k \in Intents /\ Exists(k) /\ seen \in Rows /\ old \in Rows
    BY <1>1, CommitsHeld DEF TypeOK
  <1>3. /\ seen.amount \in Nat /\ seen.received \in Nat /\ seen.refunded \in Nat
        /\ old.amount \in Nat /\ old.received \in Nat /\ old.refunded \in Nat
    BY <1>2 DEF Rows
  <1>4. Bal(k, "customer") \in Int /\ Kept(k) \in Int
    BY <1>1, BalancesAreInt DEF Kept
  <1>5. seen.amount = old.amount /\ seen.received <= old.received /\ Covers(k, seen)
    BY <1>1, <1>2 DEF HeldCovered
  <1>6. old.received <= old.amount /\ Covers(k, old)
    BY <1>1, <1>2 DEF RowsCovered
  <1>7. /\ Bal(k, "customer") >= seen.refunded
        /\ Bal(k, "customer") >= old.refunded /\ Kept(k) >= old.received
    BY <1>5, <1>6 DEF Covers
  <1> QED BY <1>2, <1>3, <1>4, <1>5, <1>6, <1>7

LEMMA CreatePostsWell ==
    ASSUME TInv, LedgerNets', NEW k \in Intents, CreateIntent(k)
    PROVE  PostsWell
  <1> DEFINE Row(n) == [status |-> "requires_payment_method", amount |-> n,
                        received |-> 0, refunded |-> 0]
             debit == "customer_pending"
             credit == "payments_authorised"
  <1>1. PICK n \in Amounts : Writes(k, Row(n), debit, credit, n)
    BY DEF CreateIntent
  <1>2. n \in Nat \ {0}
    BY AmountsArePositive
  <1> DEFINE row == Row(n)
  <1>3. /\ row \in Rows /\ row.status = "requires_payment_method" /\ row.amount = n
        /\ row.received = 0 /\ row.refunded = 0
    BY <1>2 DEF Rows, Statuses
  <1>4. ~Exists(k) /\ Bal(k, "customer") >= 0 /\ Kept(k) >= 0
    <2>1. /\ Covers(k, payment_intents[k]) /\ payment_intents[k] \in Rows
          /\ Bal(k, "customer") \in Int /\ Kept(k) \in Int
      BY BalancesAreInt DEF TInv, RowsCovered, TypeOK, Kept
    <2> QED BY <2>1 DEF CreateIntent, Covers, Rows
  <1>5. debit \in Accounts \ {"customer"} /\ credit \in Accounts /\ debit # credit
    BY DEF Accounts
  <1>6. PostingsOfEntries!Post(k, row, debit, credit, n) /\ RowsCovered' /\ MoneyGrows
    <2>1. Bal(k, "customer") \in Int /\ Kept(k) \in Int
      BY BalancesAreInt DEF TInv, Kept
    <2>2. /\ row.refunded <= Bal(k, "customer") + (IF credit = "customer" THEN n ELSE 0)
          /\ row.received <= Kept(k) + (IF credit = "payments_captured" THEN n ELSE 0)
          /\ row.received <= row.amount /\ credit # "customer" /\ debit # "payments_captured"
      BY <1>2, <1>3, <1>4, <2>1
    <2> HIDE DEF row
    <2> QED BY <1>1, <1>2, <1>3, <1>4, <1>5, <2>2, CommitPostsWell DEF row
  <1>7. PostingsOfEntries!Accrue(k)
    <2>1. row.status \in Statuses
      BY DEF Statuses
    <2> QED BY <1>4, <1>6, <2>1 DEF PostingsOfEntries!Accrue, PostingsOfEntries!Recorded, Exists
  <1> QED BY <1>6, <1>7 DEF PostsWell, Posting, PostingsOfEntries!Next

LEMMA CancelPostsWell ==
    ASSUME TInv, LedgerNets', NEW h \in Handlers, CancelCommit(h)
    PROVE  PostsWell
  <1> DEFINE k == held[h].intent
             seen == held[h].row
             old == payment_intents[k]
             row == [old EXCEPT !.status = "canceled"]
             debit == "payments_authorised"
             credit == "customer_pending"
             n == old.amount
  <1>0. Commits(h)
    BY DEF Commits
  <1>1. /\ k \in Intents /\ Exists(k) /\ old \in Rows
        /\ old.amount \in Nat /\ old.received \in Nat /\ old.refunded \in Nat
        /\ Bal(k, "customer") \in Int /\ Kept(k) \in Int
        /\ seen.amount = old.amount /\ old.received <= old.amount
        /\ Bal(k, "customer") >= old.refunded /\ Kept(k) >= old.received
    BY <1>0, HeldFacts
  <1>2. Writes(k, row, debit, credit, n)
    BY <1>1 DEF CancelCommit
  <1>3. /\ row \in Rows /\ row.status = "canceled" /\ row.amount = old.amount
        /\ row.received = old.received /\ row.refunded = old.refunded
    BY <1>1 DEF Rows, Statuses
  <1>4. debit \in Accounts \ {"customer"} /\ credit \in Accounts /\ debit # credit
    BY DEF Accounts
  <1>5. PostingsOfEntries!Post(k, row, debit, credit, n) /\ RowsCovered' /\ MoneyGrows
    <2>1. /\ row.refunded <= Bal(k, "customer") + (IF credit = "customer" THEN n ELSE 0)
          /\ row.received <= Kept(k) + (IF credit = "payments_captured" THEN n ELSE 0)
          /\ row.received >= old.received /\ row.received <= row.amount
          /\ credit # "customer" /\ debit # "payments_captured" /\ n \in Int
      BY <1>1, <1>3
    <2> HIDE DEF row, k, n, debit, credit
    <2> QED BY <1>1, <1>2, <1>3, <1>4, <2>1, CommitPostsWell
  <1>6. PostingsOfEntries!Reverse(k)
    BY <1>1, <1>5 DEF PostingsOfEntries!Reverse, PostingsOfEntries!Recorded, Exists
  <1> QED BY <1>1, <1>5, <1>6 DEF PostsWell, Posting, PostingsOfEntries!Next

LEMMA ApplyPostsWell ==
    ASSUME TInv, LedgerNets', NEW h \in Handlers, ApplyCommit(h)
    PROVE  PostsWell
  <1> DEFINE k == held[h].intent
             seen == held[h].row
             old == payment_intents[k]
             row == [old EXCEPT !.status = "succeeded", !.received = old.amount]
             debit == "payments_authorised"
             credit == "payments_captured"
             n == old.amount
  <1>0. Commits(h)
    BY DEF Commits
  <1>1. /\ k \in Intents /\ Exists(k) /\ old \in Rows
        /\ old.amount \in Nat /\ old.received \in Nat /\ old.refunded \in Nat
        /\ Bal(k, "customer") \in Int /\ Kept(k) \in Int
        /\ seen.amount = old.amount /\ old.received <= old.amount
        /\ Bal(k, "customer") >= old.refunded /\ Kept(k) >= old.received
    BY <1>0, HeldFacts
  <1>2. Writes(k, row, debit, credit, n)
    BY <1>1 DEF ApplyCommit
  <1>3. /\ row \in Rows /\ row.status = "succeeded" /\ row.amount = old.amount
        /\ row.received = old.amount /\ row.refunded = old.refunded
    BY <1>1 DEF Rows, Statuses
  <1>4. debit \in Accounts \ {"customer"} /\ credit \in Accounts /\ debit # credit
    BY DEF Accounts
  <1>5. PostingsOfEntries!Post(k, row, debit, credit, n) /\ RowsCovered' /\ MoneyGrows
    <2>1. /\ row.refunded <= Bal(k, "customer") + (IF credit = "customer" THEN n ELSE 0)
          /\ row.received <= Kept(k) + (IF credit = "payments_captured" THEN n ELSE 0)
          /\ row.received >= old.received /\ row.received <= row.amount
          /\ credit # "customer" /\ debit # "payments_captured" /\ n \in Int
      BY <1>1, <1>3
    <2> HIDE DEF row, k, n, debit, credit
    <2> QED BY <1>1, <1>2, <1>3, <1>4, <2>1, CommitPostsWell
  <1>6. PostingsOfEntries!Capture(k)
    BY <1>1, <1>5 DEF PostingsOfEntries!Capture, PostingsOfEntries!Recorded, Exists
  <1> QED BY <1>1, <1>5, <1>6 DEF PostsWell, Posting, PostingsOfEntries!Next

LEMMA RefundPostsWell ==
    ASSUME TInv, LedgerNets', NEW h \in Handlers, RefundCommit(h)
    PROVE  PostsWell
  <1> DEFINE k == held[h].intent
             seen == held[h].row
             old == payment_intents[k]
             Row(n) == [old EXCEPT !.refunded = seen.refunded + n]
             debit == "payments_captured"
             credit == "customer"
  <1>0. Commits(h)
    BY DEF Commits
  <1>1. /\ k \in Intents /\ Exists(k) /\ old \in Rows
        /\ seen.received \in Nat /\ seen.refunded \in Nat
        /\ old.amount \in Nat /\ old.received \in Nat /\ old.refunded \in Nat
        /\ Bal(k, "customer") \in Int /\ Kept(k) \in Int
        /\ seen.received <= old.received /\ old.received <= old.amount
        /\ Bal(k, "customer") >= seen.refunded /\ Kept(k) >= old.received
    BY <1>0, HeldFacts
  <1>2. PICK n \in 1 .. seen.received - seen.refunded : Writes(k, Row(n), debit, credit, n)
    BY DEF RefundCommit, Refundable
  <1>3. /\ n \in Nat \ {0} /\ n \in 1 .. old.received
        /\ seen.refunded + n \in n .. old.received
    BY <1>1
  <1> DEFINE row == Row(n)
  <1>4. /\ row \in Rows /\ row.status = old.status /\ row.status # "absent"
        /\ row.amount = old.amount /\ row.received = old.received
        /\ row.refunded = seen.refunded + n
    BY <1>1, <1>3 DEF Rows, Exists
  <1>5. EntryBooks[k][credit] = Bal(k, credit)
    BY <1>1, BooksAreBalances DEF Accounts
  <1>6. debit \in Accounts \ {"customer"} /\ credit \in Accounts /\ debit # credit
    BY DEF Accounts
  <1>7. PostingsOfEntries!Post(k, row, debit, credit, n) /\ RowsCovered' /\ MoneyGrows
    <2>1. /\ row.refunded <= Bal(k, "customer") + (IF credit = "customer" THEN n ELSE 0)
          /\ row.received <= Kept(k) + (IF credit = "payments_captured" THEN n ELSE 0)
          /\ row.received >= old.received /\ row.received <= row.amount
          /\ credit = "customer" /\ n \in Int
      BY <1>1, <1>3, <1>4
    <2>2. Writes(k, row, debit, credit, n)
      BY <1>2
    <2> HIDE DEF row, k, debit, credit
    <2> QED BY <1>1, <1>4, <1>6, <2>1, <2>2, CommitPostsWell
  <1>8. PostingsOfEntries!Refund(k)
    <2>1. seen.refunded + n <= EntryBooks[k][credit] + n
      BY <1>1, <1>3, <1>5
    <2> QED BY <1>3, <1>7, <2>1 DEF PostingsOfEntries!Refund
  <1> QED BY <1>1, <1>7, <1>8 DEF PostsWell, Posting, PostingsOfEntries!Next

\* The entries of no intent change, and of its row at most the status.
LEMMA NothingPosted ==
    ASSUME TInv, \A k \in Intents : EntriesFor(k)' = EntriesFor(k),
           \A k \in Intents :
               /\ Exists(k) <=> Exists(k)'
               /\ payment_intents'[k].amount = payment_intents[k].amount
               /\ payment_intents'[k].received = payment_intents[k].received
               /\ payment_intents'[k].refunded = payment_intents[k].refunded
    PROVE  RowsCovered' /\ MoneyGrows /\ UNCHANGED EntryBooks
  <1>1. UNCHANGED EntryBooks
    BY DEF EntryBooks, EntriesFor
  <1>2. ASSUME NEW k \in Intents
        PROVE  /\ \A a : Bal(k, a)' = Bal(k, a) /\ Bal(k, a) \in Int
               /\ Kept(k)' = Kept(k) /\ Kept(k) \in Int
               /\ payment_intents[k].received \in Int
    <2>1. \A a : Bal(k, a)' = Bal(k, a)
      BY DEF Bal
    <2>2. \A a : Bal(k, a) \in Int
      BY BalancesAreInt DEF TInv
    <2>3. payment_intents[k] \in Rows
      BY DEF TInv, TypeOK
    <2> QED BY <2>1, <2>2, <2>3 DEF Kept, Rows
  <1>3. RowsCovered'
    <2> SUFFICES ASSUME NEW k \in Intents
                 PROVE  /\ payment_intents'[k].received <= payment_intents'[k].amount
                        /\ Bal(k, "customer")' >= payment_intents'[k].refunded
                        /\ Kept(k)' >= payment_intents'[k].received
                        /\ Exists(k)' => \E e \in EntriesFor(k)' :
                               e.account = "customer_pending" /\ e.amount = payment_intents'[k].amount
      BY DEF RowsCovered, Covers, Accrued
    <2> QED BY <1>2 DEF TInv, RowsCovered, Covers, Accrued
  <1>4. MoneyGrows
    BY <1>2 DEF MoneyGrows, Exists
  <1> QED BY <1>1, <1>3, <1>4

LEMMA RowsStayPostsWell ==
    ASSUME TInv, UNCHANGED payment_intents, \A k \in Intents : EntriesFor(k)' = EntriesFor(k)
    PROVE  PostsWell
  <1>1. RowsCovered' /\ MoneyGrows /\ UNCHANGED EntryBooks
    BY NothingPosted DEF Exists
  <1> QED BY <1>1 DEF PostsWell, Posting

LEMMA ConfirmPostsWell ==
    ASSUME TInv, NEW h \in Handlers, ConfirmCommit(h)
    PROVE  PostsWell
  <1> DEFINE k == held[h].intent
             old == payment_intents[k]
  <1>1. k \in Intents /\ Exists(k)
    BY HeldFacts DEF Commits
  <1>2. \A j : EntriesFor(j)' = EntriesFor(j)
    BY DEF ConfirmCommit, EntriesFor
  <1>3. CASE UNCHANGED payment_intents
    BY <1>2, <1>3, RowsStayPostsWell
  <1>4. ASSUME NEW reply \in {"requires_payment_method", "succeeded"},
               payment_intents' = [payment_intents EXCEPT ![k].status = reply]
        PROVE  PostsWell
    <2>1. payment_intents \in [Intents -> Rows]
      BY DEF TInv, TypeOK
    <2>2. \A j \in Intents :
              /\ Exists(j) <=> Exists(j)'
              /\ payment_intents'[j].amount = payment_intents[j].amount
              /\ payment_intents'[j].received = payment_intents[j].received
              /\ payment_intents'[j].refunded = payment_intents[j].refunded
      BY <1>1, <1>4, <2>1 DEF Exists, Rows
    <2>3. RowsCovered' /\ MoneyGrows /\ UNCHANGED EntryBooks
      BY <1>2, <2>2, NothingPosted
    <2>4. PostingsOfEntries!SetStatus(k)
      <3>1. reply \in Statuses
        BY DEF Statuses
      <3> QED BY <1>1, <1>4, <2>3, <3>1
              DEF PostingsOfEntries!SetStatus, PostingsOfEntries!Recorded, Exists
    <2> QED BY <1>1, <2>3, <2>4 DEF PostsWell, Posting, PostingsOfEntries!Next
  <1> QED BY <1>3, <1>4 DEF ConfirmCommit

LEMMA AdjustPostsWell ==
    ASSUME TInv, Adjust
    PROVE  PostsWell
  <1>1. \A k \in Intents : k # NoIntent
    <2>1. \A k \in Intents : k.merchant # ""
      BY DashboardAssumption
    <2>2. NoIntent.merchant = ""
      BY DEF NoIntent
    <2> QED BY <2>1, <2>2
  <1>2. PICK a \in Adjustments : RecordTransaction(a.legs, a.currency, NoIntent)
    BY DEF Adjust
  <1>3. a.legs \in Seq(Legs({leg.account : leg \in Range(a.legs)}))
    BY AdjustmentsAssumption
  <1>4. \A k : k # NoIntent => EntriesFor(k)' = EntriesFor(k)
    <2>1. LedgerNets
      BY DEF TInv
    <2> QED BY <1>2, <1>3, <2>1, OthersEntries
  <1>5. UNCHANGED payment_intents
    BY DEF Adjust
  <1> QED BY <1>1, <1>4, <1>5, RowsStayPostsWell

LEMMA NextPostsWell ==
    ASSUME TInv, LedgerNets', [Next]_vars
    PROVE  PostsWell
  <1>1. CASE UNCHANGED <<payment_intents, ledger_entries>>
    <2>1. \A k \in Intents : EntriesFor(k)' = EntriesFor(k)
      BY <1>1 DEF EntriesFor
    <2> QED BY <1>1, <2>1, RowsStayPostsWell
  <1>2. ASSUME NEW k \in Intents, CreateIntent(k)
        PROVE  PostsWell
    BY <1>2, CreatePostsWell
  <1>3. ASSUME NEW h \in Handlers, Commits(h)
        PROVE  PostsWell
    BY <1>3, ConfirmPostsWell, CancelPostsWell, ApplyPostsWell, RefundPostsWell DEF Commits
  <1>4. ASSUME NEW h \in Handlers, NEW k \in Intents, Finds(h, k)
        PROVE  UNCHANGED <<payment_intents, ledger_entries>>
    BY <1>4, FindsLoad DEF tables
  <1> QED BY <1>1, <1>2, <1>3, <1>4, AdjustPostsWell
          DEF Next, vars, tables, BeginCreate, Finds, Commits, Abort, OpenList, ReadRow, ReadPage,
              CloseList, ReadEntries, CloseDetail

\* What a handler holds is of a row that only grows since, and a row just read
\* is covered.
LEMMA HeldStays ==
    ASSUME TInv, TypeOK', HeldExist', LedgerNets', PostsWell, [Next]_vars
    PROVE  HeldCovered'
  <1>0. TypeOK /\ HeldExist /\ LedgerNets /\ RowsCovered /\ HeldCovered /\ MoneyGrows
    BY DEF TInv, PostsWell
  <1> SUFFICES ASSUME NEW h \in Handlers, NEW mine, mine = held'[h], mine # NoRead
               PROVE  /\ mine.row.amount = payment_intents'[mine.intent].amount
                      /\ mine.row.received <= payment_intents'[mine.intent].received
                      /\ Covers(mine.intent, mine.row)'
    BY DEF HeldCovered
  <1> DEFINE k == mine.intent
             seen == mine.row
             now == payment_intents[k]
             new == payment_intents'[k]
  <1>1. k \in Intents /\ seen \in Rows /\ now \in Rows /\ new \in Rows
    <2>1. mine \in Reads
      BY DEF TypeOK
    <2>2. k \in Intents /\ seen \in Rows
      BY <2>1 DEF Reads
    <2> QED BY <1>0, <2>2 DEF TypeOK
  <1>2. \/ held[h] = mine
        \/ Exists(k) /\ seen = now
    <2>1. CASE held' = held
      BY <2>1
    <2>2. ASSUME NEW g \in Handlers, Done(g)
          PROVE  held[h] = mine
      BY <1>0, <2>2 DEF Done, TypeOK
    <2>3. ASSUME NEW g \in Handlers, Commits(g)
          PROVE  Done(g)
      BY <1>0, <2>3, CommitsHeld
    <2>4. ASSUME NEW g \in Handlers, NEW j \in Intents, Finds(g, j)
          PROVE  held[h] = mine \/ (Exists(k) /\ seen = now)
      <3>1. PICK op \in {"confirm", "cancel", "apply", "refund"} :
                held' = [held EXCEPT ![g] = [op |-> op, intent |-> j, row |-> payment_intents[j]]]
        BY <2>4, FindsLoad
      <3>2. Exists(j)
        BY <2>4, FindsLoad
      <3>3. CASE h = g
        <4>1. mine = [op |-> op, intent |-> j, row |-> payment_intents[j]]
          BY <1>0, <3>1, <3>3 DEF TypeOK
        <4> QED BY <3>2, <4>1
      <3>4. CASE h # g
        <4>1. held'[h] = held[h]
          BY <3>1, <3>4, <1>0 DEF TypeOK
        <4> QED BY <4>1
      <3> QED BY <3>3, <3>4
    <2> QED BY <2>1, <2>2, <2>3, <2>4
            DEF Next, vars, BeginCreate, CreateIntent, Finds, Commits, Abort, Adjust,
                OpenList, ReadPage, CloseList, ReadRow, ReadEntries, CloseDetail
  <1>3. /\ Exists(k) /\ seen.amount = now.amount /\ seen.received <= now.received
        /\ Covers(k, seen)
    <2>1. CASE held[h] = mine
      BY <1>0, <2>1 DEF HeldCovered, HeldExist
    <2>2. CASE Exists(k) /\ seen = now
      <3>1. now.received \in Int
        BY <1>1 DEF Rows
      <3> QED BY <1>0, <1>1, <2>2, <3>1 DEF RowsCovered
    <2> QED BY <1>2, <2>1, <2>2
  <1>4. new.amount = now.amount /\ new.received >= now.received
    BY <1>0, <1>1, <1>3 DEF MoneyGrows
  <1>5. Covers(k, seen)'
    BY <1>0, <1>1, <1>3, CoveredStays
  <1>6. seen.received \in Int /\ now.received \in Int /\ new.received \in Int
    BY <1>1 DEF Rows
  <1> HIDE DEF now, new
  <1>7. seen.amount = new.amount /\ seen.received <= new.received
    BY <1>3, <1>4, <1>6
  <1> QED BY <1>5, <1>7 DEF new

\* Nothing is recorded at first.
LEMMA InitBooks == Init => \A k, a : EntriesFor(k) = {} /\ Bal(k, a) = 0
  <1> SUFFICES ASSUME Init, NEW k, NEW a
               PROVE  EntriesFor(k) = {} /\ Bal(k, a) = 0
    OBVIOUS
  <1>1. EntriesFor(k) = {}
    BY DEF Init, EntriesFor, list_entries_for_intent
  <1>2. {e \in EntriesFor(k) : e.account = a /\ e.currency = k.currency} = {}
    BY <1>1
  <1> QED BY <1>1, <1>2, SumOfNone DEF Bal, get_balance

LEMMA InitTInv == Init => TInv
  <1> SUFFICES ASSUME Init
               PROVE  TInv
    OBVIOUS
  <1>1. RowsCovered
    BY InitBooks DEF Init, RowsCovered, Covers, Kept, NoRow, Exists
  <1>2. HeldExist /\ HeldCovered
    BY DEF Init, HeldExist, HeldCovered
  <1> QED BY <1>1, <1>2, InitDInv, InitLedger DEF TInv, DInv

\* However stale the rows that handlers commit from: what a row says of money
\* received, refunded or accrued is never more than its entries say, nor is what
\* a handler holds, which is of the row's amount (payment.py's read, await and
\* commit).
THEOREM TablesInvariant == Spec => []TInv
  <1>1. TInv /\ DInv /\ DInv' /\ [Next]_vars => TInv'
    <2> SUFFICES ASSUME TInv, DInv, DInv', [Next]_vars
                 PROVE  TInv'
      OBVIOUS
    <2>1. TypeOK' /\ HeldExist'
      BY DEF DInv
    <2>2. LedgerNets'
      BY NextLedger DEF TInv
    <2>3. PostsWell
      BY <2>2, NextPostsWell
    <2>4. HeldCovered'
      BY <2>1, <2>2, <2>3, HeldStays
    <2> QED BY <2>1, <2>2, <2>3, <2>4 DEF TInv, PostsWell
  <1> QED BY <1>1, InitTInv, ListInvariant, PTL DEF Spec

\* The entries, taken by their balances, are moved by the five postings alone: the
\* books Gateway keeps are what LedgerService computes from the entries.
THEOREM DashboardImplementsPostings == Spec => ImplementsPostings
  <1>1. Init => PostingsOfEntries!Init
    <2> SUFFICES ASSUME Init
                 PROVE  PostingsOfEntries!Init
      OBVIOUS
    <2>1. payment_intents = [k \in Intents |-> PostingsOfEntries!NoPayment]
      BY DEF Init, NoRow, PostingsOfEntries!NoPayment
    <2>2. EntryBooks = [k \in Intents |-> PostingsOfEntries!EmptyBooks]
      <3>1. EntryBooks = [k \in Intents |-> [a \in Accounts |-> Bal(k, a)]]
        BY DEF EntryBooks, Bal, EntriesFor
      <3>2. EntryBooks = [k \in Intents |-> [a \in Accounts |-> 0]]
        BY <3>1, InitBooks
      <3> QED BY <3>2 DEF PostingsOfEntries!EmptyBooks, PostingsOfEntries!Accounts, Accounts
    <2> QED BY <2>1, <2>2 DEF PostingsOfEntries!Init
  <1>2. TInv /\ TInv' /\ [Next]_vars => [PostingsOfEntries!Next]_(PostingsOfEntries!postings)
    BY NextPostsWell DEF TInv, PostsWell, Posting, PostingsOfEntries!postings
  <1> QED BY <1>1, <1>2, TablesInvariant, PTL
          DEF Spec, ImplementsPostings, PostingsOfEntries!Spec

-----------------------------------------------------------------------------
(* A payment's page.                                                       *)

DetailTyped ==
    detail # NoDetail =>
        /\ detail = [pc |-> detail.pc, intent |-> detail.intent, row |-> detail.row,
                     entries |-> detail.entries]
        /\ detail.pc \in {"entries", "shown"} /\ detail.intent \in Intents /\ detail.row \in Rows

\* The row that was read is in the entries, and stays so.
RowKept == detail.pc = "entries" => Accrued(detail.intent, detail.row) /\ Covers(detail.intent, detail.row)

\* The inductive invariant of the page.
DetailInv == DetailTyped /\ RowKept /\ DetailCoversRow

LEMMA DetailStays ==
    ASSUME TInv, TInv', DetailInv, PostsWell, detail' = detail
    PROVE  DetailInv'
  <1>1. DetailTyped' /\ DetailCoversRow'
    BY DEF DetailInv, DetailTyped, DetailCoversRow
  <1>2. ASSUME NEW read, read = detail, read.pc = "entries"
        PROVE  Accrued(read.intent, read.row)' /\ Covers(read.intent, read.row)'
    <2>1. read.intent \in Intents /\ read.row \in Rows
      BY <1>2 DEF DetailInv, DetailTyped, NoDetail
    <2>2. Accrued(read.intent, read.row) /\ Covers(read.intent, read.row)
      BY <1>2 DEF DetailInv, RowKept
    <2> QED BY <2>1, <2>2, CoveredStays DEF TInv, PostsWell
  <1>3. RowKept'
    BY <1>2 DEF RowKept, Accrued, Covers, Kept, Bal, EntriesFor
  <1> QED BY <1>1, <1>3 DEF DetailInv

LEMMA ReadRowHolds ==
    ASSUME TInv, NEW m, NEW k \in Intents, ReadRow(m, k)
    PROVE  DetailInv'
  <1> DEFINE row == payment_intents[k]
  <1>1. /\ detail' = [pc |-> "entries", intent |-> k, row |-> row, entries |-> {}]
        /\ ledger_entries' = ledger_entries /\ Exists(k)
    BY DEF ReadRow, tables
  <1>2. row \in Rows /\ Covers(k, row) /\ Accrued(k, row)
    BY <1>1 DEF TInv, TypeOK, RowsCovered
  <1> HIDE DEF row
  <1>3. DetailTyped'
    BY <1>1, <1>2 DEF DetailTyped
  <1>4. detail'.intent = k /\ detail'.row = row /\ detail'.pc = "entries"
    BY <1>1
  <1>5. RowKept'
    BY <1>1, <1>2, <1>4 DEF RowKept, Accrued, Covers, Kept, Bal, EntriesFor
  <1>6. DetailCoversRow'
    BY <1>4 DEF DetailCoversRow
  <1> QED BY <1>3, <1>5, <1>6 DEF DetailInv

LEMMA ReadEntriesHolds ==
    ASSUME DetailInv, ReadEntries
    PROVE  DetailInv'
  <1> DEFINE k == detail.intent
             row == detail.row
  <1>1. /\ k \in Intents /\ row \in Rows
        /\ detail = [pc |-> detail.pc, intent |-> k, row |-> row, entries |-> detail.entries]
    BY DEF DetailInv, DetailTyped, NoDetail, ReadEntries
  <1>2. detail' = [pc |-> "shown", intent |-> k, row |-> row, entries |-> EntriesFor(k)]
    BY <1>1 DEF ReadEntries, EntriesFor
  <1>3. Accrued(k, row) /\ Covers(k, row)
    BY DEF DetailInv, RowKept, ReadEntries
  <1> HIDE DEF k, row
  <1>4. DetailTyped' /\ RowKept'
    BY <1>1, <1>2 DEF DetailTyped, RowKept
  <1>5. /\ detail'.entries = EntriesFor(k) /\ detail'.row = row /\ detail'.intent = k
    BY <1>2
  <1>6. DetailCoversRow'
    BY <1>3, <1>5 DEF DetailCoversRow, Accrued, Covers, Kept, Bal
  <1> QED BY <1>4, <1>6 DEF DetailInv

\* However many commits fall between get_transaction's two queries, the entries
\* it shows account for all the money of the row it shows.
THEOREM DetailsCoverRows == Spec => []DetailCoversRow
  <1>1. Init => DetailInv
    BY DEF Init, DetailInv, DetailTyped, RowKept, DetailCoversRow, NoDetail
  <1>2. ASSUME TInv, TInv', DetailInv, [Next]_vars
        PROVE  DetailInv'
    <2>1. CASE detail' = detail
      BY <1>2, <2>1, NextPostsWell, DetailStays DEF TInv
    <2>2. CASE detail' = NoDetail
      BY <2>2 DEF DetailInv, DetailTyped, RowKept, DetailCoversRow, NoDetail
    <2>3. ASSUME NEW m \in Merchants, NEW k \in Intents, ReadRow(m, k)
          PROVE  DetailInv'
      BY <1>2, <2>3, ReadRowHolds
    <2>4. CASE ReadEntries
      BY <1>2, <2>4, ReadEntriesHolds
    <2>5. ASSUME NEW h \in Handlers, NEW k \in Intents, Finds(h, k)
          PROVE  detail' = detail
      BY <2>5, FindsLoad
    <2>6. ASSUME NEW h \in Handlers, Commits(h)
          PROVE  detail' = detail
      BY <1>2, <2>6, CommitsHeld DEF TInv
    <2> QED BY <1>2, <2>1, <2>2, <2>3, <2>4, <2>5, <2>6
            DEF Next, vars, BeginCreate, CreateIntent, Writes, Finds, Commits, Abort, Adjust,
                OpenList, ReadPage, CloseList, CloseDetail
  <1>3. DetailInv => DetailCoversRow
    BY DEF DetailInv
  <1> QED BY <1>1, <1>2, <1>3, TablesInvariant, PTL DEF Spec
=============================================================================
