-------------------------------- MODULE Sums --------------------------------
(***************************************************************************)
(* Sums of integers over finite sets: SumFunctionOnSet(g, S) of the        *)
(* community modules does not depend on the order in which it takes the    *)
(* elements of S, so sums can be split, reindexed and taken fibre by fibre.*)
(*                                                                         *)
(* The library's induction theorems have an operator as a parameter, which *)
(* no prover here can instantiate; the minimal elements of a well-founded  *)
(* relation (WFMin) take its place.                                        *)
(***************************************************************************)
EXTENDS Functions, FiniteSetTheorems, WellFoundedInduction, TLAPS

\* Counting up from 0, as a statement about sets.
LEMMA Counting ==
    ASSUME NEW T, 0 \in T, \A n \in Nat : n \in T => n + 1 \in T
    PROVE  Nat \subseteq T
  <1> SUFFICES ASSUME Nat \ T # {} PROVE FALSE
    OBVIOUS
  <1>1. PICK m \in Nat \ T : \A n \in Nat \ T : ~(<<n, m>> \in OpToRel(<, Nat))
    BY NatLessThanWellFounded, WFMin
  <1>2. \A n \in Nat : n < m => n \in T
    BY <1>1 DEF OpToRel
  <1>3. m # 0
    OBVIOUS
  <1>4. m - 1 \in Nat /\ m - 1 < m /\ (m - 1) + 1 = m
    BY <1>3
  <1> QED BY <1>1, <1>2, <1>4

-----------------------------------------------------------------------------
(* A sum recurses over the subsets of what is summed: there is a function  *)
(* that does, and it is the only one.                                      *)

\* The element a sum takes first.
Pick(s) == CHOOSE x \in s : TRUE

LEMMA PickIn == ASSUME NEW s, s # {} PROVE Pick(s) \in s
  BY DEF Pick

\* it sums g over each set of D, which holds what is left of one when its
\* first element is taken.
Adds(it, g, D) ==
    it = [s \in D |-> IF s = {} THEN 0 ELSE g[Pick(s)] + it[s \ {Pick(s)}]]

Agree(g, h, S) == \A x \in S : g[x] = h[x]

\* it sums g over every set of elements of S.
SumsOver(it, g, S) == Adds(it, g, SUBSET S)

UpTo(S, n) == {s \in SUBSET S : Cardinality(s) <= n}

LEMMA Smaller ==
    ASSUME NEW S, IsFiniteSet(S), NEW s \in SUBSET S, NEW x \in s
    PROVE  /\ IsFiniteSet(s) /\ IsFiniteSet(s \ {x})
           /\ Cardinality(s) \in Nat /\ Cardinality(s \ {x}) \in Nat
           /\ Cardinality(s \ {x}) = Cardinality(s) - 1
  BY FS_Subset, FS_RemoveElement, FS_CardinalityType

LEMMA LessIn ==
    ASSUME NEW S, IsFiniteSet(S), NEW n \in Nat, NEW s \in UpTo(S, n + 1), s # {}
    PROVE  s \ {Pick(s)} \in UpTo(S, n) /\ Pick(s) \in S /\ s \in SUBSET S
  <1>1. s \in SUBSET S /\ Cardinality(s) <= n + 1
    BY DEF UpTo
  <1>2. Pick(s) \in s
    BY PickIn
  <1> DEFINE x == Pick(s)
  <1> HIDE DEF x
  <1>3. x \in s
    BY <1>2 DEF x
  <1>4. /\ Cardinality(s) \in Nat /\ Cardinality(s \ {x}) \in Nat
        /\ Cardinality(s \ {x}) = Cardinality(s) - 1
    BY <1>1, <1>3, Smaller
  <1>5. s \ {x} \in UpTo(S, n)
    BY <1>1, <1>4 DEF UpTo
  <1> QED BY <1>1, <1>3, <1>5 DEF x

LEMMA AddsExists ==
    ASSUME NEW S, IsFiniteSet(S), NEW g
    PROVE  \E it : Adds(it, g, SUBSET S)
  <1> DEFINE T == {n \in Nat : \E it : Adds(it, g, UpTo(S, n))}
  <1>1. 0 \in T
    <2>1. \A s \in UpTo(S, 0) : s = {}
      BY FS_Subset, FS_EmptySet, FS_CardinalityType DEF UpTo
    <2> DEFINE it == [s \in UpTo(S, 0) |-> 0]
    <2>2. Adds(it, g, UpTo(S, 0))
      BY <2>1 DEF Adds
    <2> QED BY <2>2
  <1>2. ASSUME NEW n \in Nat, n \in T
        PROVE  n + 1 \in T
    <2>1. PICK it : Adds(it, g, UpTo(S, n))
      BY <1>2
    <2> DEFINE F(s) == IF s = {} THEN 0 ELSE g[Pick(s)] + it[s \ {Pick(s)}]
               jt == [s \in UpTo(S, n + 1) |-> F(s)]
    <2>2. \A s \in UpTo(S, n + 1) : s # {} => s \ {Pick(s)} \in UpTo(S, n)
      <3> SUFFICES ASSUME NEW s \in UpTo(S, n + 1), s # {}
                   PROVE  s \ {Pick(s)} \in UpTo(S, n)
        OBVIOUS
      <3> QED BY LessIn
    <2>3. UpTo(S, n) \subseteq UpTo(S, n + 1)
      BY FS_Subset, FS_CardinalityType DEF UpTo
    <2>4. it = [s \in UpTo(S, n) |-> F(s)]
      BY <2>1 DEF Adds
    <2> HIDE DEF F
    <2>5. \A s \in UpTo(S, n) : jt[s] = it[s]
      BY <2>3, <2>4
    <2>6. \A s \in UpTo(S, n + 1) :
              F(s) = IF s = {} THEN 0 ELSE g[Pick(s)] + jt[s \ {Pick(s)}]
      BY <2>2, <2>5 DEF F
    <2>7. Adds(jt, g, UpTo(S, n + 1))
      BY <2>6 DEF Adds
    <2> QED BY <2>7
  <1> HIDE DEF T
  <1>3. Cardinality(S) \in T
    BY <1>1, <1>2, Counting, FS_CardinalityType
  <1>4. UpTo(S, Cardinality(S)) = SUBSET S
    BY FS_Subset DEF UpTo
  <1> QED BY <1>3, <1>4 DEF T

LEMMA AddsUnique ==
    ASSUME NEW S, IsFiniteSet(S), NEW R, NEW Q, S \subseteq R, S \subseteq Q, NEW g, NEW h,
           Agree(g, h, S),
           NEW it, SumsOver(it, g, R), NEW jt, SumsOver(jt, h, Q)
    PROVE  it[S] = jt[S]
  <1> DEFINE T == {n \in Nat : \A s \in UpTo(S, n) : it[s] = jt[s]}
  <1>0. \A s \in SUBSET S :
            /\ it[s] = IF s = {} THEN 0 ELSE g[Pick(s)] + it[s \ {Pick(s)}]
            /\ jt[s] = IF s = {} THEN 0 ELSE h[Pick(s)] + jt[s \ {Pick(s)}]
    BY DEF SumsOver, Adds
  <1>1. 0 \in T
    <2>1. \A s \in UpTo(S, 0) : s = {}
      BY FS_Subset, FS_EmptySet, FS_CardinalityType DEF UpTo
    <2> QED BY <1>0, <2>1 DEF UpTo
  <1>2. ASSUME NEW n \in Nat, n \in T
        PROVE  n + 1 \in T
    <2>1. ASSUME NEW s \in UpTo(S, n + 1)
          PROVE  it[s] = jt[s]
      <3>1. CASE s = {}
        BY <1>0, <3>1
      <3>2. CASE s # {}
        <4>1. s \ {Pick(s)} \in UpTo(S, n) /\ Pick(s) \in S /\ s \in SUBSET S
          BY <3>2, LessIn
        <4>2. it[s \ {Pick(s)}] = jt[s \ {Pick(s)}] /\ g[Pick(s)] = h[Pick(s)]
          BY <1>2, <4>1 DEF Agree
        <4> QED BY <1>0, <3>2, <4>1, <4>2
      <3> QED BY <3>1, <3>2
    <2> QED BY <2>1
  <1> HIDE DEF T
  <1>3. Cardinality(S) \in T
    BY <1>1, <1>2, Counting, FS_CardinalityType
  <1> QED BY <1>3, FS_CardinalityType DEF T, UpTo

LEMMA SumIs ==
    ASSUME NEW S, IsFiniteSet(S), NEW g
    PROVE  \E it : SumsOver(it, g, S) /\ SumFunctionOnSet(g, S) = it[S]
  <1> DEFINE it == CHOOSE it : SumsOver(it, g, S)
  <1>1. SumsOver(it, g, S)
    BY AddsExists DEF SumsOver
  <1>2. SumFunctionOnSet(g, S) = it[S]
    BY DEF SumFunctionOnSet, FoldFunctionOnSet, MapThenFoldSet, SumsOver, Adds, Pick
  <1> QED BY <1>1, <1>2

-----------------------------------------------------------------------------
(* What is added up, in whatever order.                                    *)

LEMMA SumPick ==
    ASSUME NEW S, IsFiniteSet(S), NEW g
    PROVE  /\ SumFunctionOnSet(g, {}) = 0
           /\ S # {} => SumFunctionOnSet(g, S) = g[Pick(S)] + SumFunctionOnSet(g, S \ {Pick(S)})
  <1>1. PICK it : SumsOver(it, g, S) /\ SumFunctionOnSet(g, S) = it[S]
    BY SumIs
  <1>2. PICK jt : SumsOver(jt, g, (S \ {Pick(S)})) /\ SumFunctionOnSet(g, S \ {Pick(S)}) = jt[S \ {Pick(S)}]
    BY SumIs, FS_Subset
  <1>3. PICK kt : SumsOver(kt, g, {}) /\ SumFunctionOnSet(g, {}) = kt[{}]
    BY SumIs, FS_EmptySet
  <1>4. SumFunctionOnSet(g, {}) = 0
    BY <1>3 DEF SumsOver, Adds
  <1>5. it[S \ {Pick(S)}] = jt[S \ {Pick(S)}]
    <2> DEFINE Q == S \ {Pick(S)}
    <2>1. IsFiniteSet(Q) /\ Q \subseteq S /\ Q \subseteq Q /\ Agree(g, g, Q)
      BY FS_Subset DEF Agree
    <2>2. SumsOver(jt, g, Q)
      BY <1>2
    <2> HIDE DEF Q
    <2>3. it[Q] = jt[Q]
      BY <1>1, <2>1, <2>2, AddsUnique
    <2> QED BY <2>3 DEF Q
  <1>6. it[S] = IF S = {} THEN 0 ELSE g[Pick(S)] + it[S \ {Pick(S)}]
    <2>1. S \in SUBSET S
      OBVIOUS
    <2> QED BY <1>1, <2>1 DEF SumsOver, Adds
  <1> QED BY <1>1, <1>2, <1>4, <1>5, <1>6

LEMMA SumSame ==
    ASSUME NEW S, IsFiniteSet(S), NEW g, NEW h, Agree(g, h, S)
    PROVE  SumFunctionOnSet(g, S) = SumFunctionOnSet(h, S)
  <1>1. PICK it : SumsOver(it, g, S) /\ SumFunctionOnSet(g, S) = it[S]
    BY SumIs
  <1>2. PICK jt : SumsOver(jt, h, S) /\ SumFunctionOnSet(h, S) = jt[S]
    BY SumIs
  <1>3. S \subseteq S
    OBVIOUS
  <1>4. it[S] = jt[S]
    BY <1>1, <1>2, <1>3, AddsUnique
  <1> QED BY <1>1, <1>2, <1>4

IsIntOn(g, S) == \A x \in S : g[x] \in Int

LEMMA SumIsInt ==
    ASSUME NEW S, IsFiniteSet(S), NEW g, IsIntOn(g, S)
    PROVE  SumFunctionOnSet(g, S) \in Int
  <1> DEFINE T == {n \in Nat : \A s \in UpTo(S, n) : SumFunctionOnSet(g, s) \in Int}
  <1>1. 0 \in T
    <2>1. \A s \in UpTo(S, 0) : s = {}
      BY FS_Subset, FS_EmptySet, FS_CardinalityType DEF UpTo
    <2>2. SumFunctionOnSet(g, {}) = 0
      BY SumPick, FS_EmptySet
    <2> QED BY <2>1, <2>2
  <1>2. ASSUME NEW n \in Nat, n \in T
        PROVE  n + 1 \in T
    <2>1. ASSUME NEW s \in UpTo(S, n + 1)
          PROVE  SumFunctionOnSet(g, s) \in Int
      <3>1. s \in SUBSET S /\ IsFiniteSet(s)
        BY FS_Subset DEF UpTo
      <3>2. CASE s = {}
        <4>1. SumFunctionOnSet(g, {}) = 0
          BY FS_EmptySet, SumPick
        <4> QED BY <3>2, <4>1
      <3>3. CASE s # {}
        <4>1. s \ {Pick(s)} \in UpTo(S, n) /\ Pick(s) \in S
          BY <3>3, LessIn
        <4>2. SumFunctionOnSet(g, s \ {Pick(s)}) \in Int /\ g[Pick(s)] \in Int
          BY <1>2, <4>1 DEF IsIntOn
        <4>3. SumFunctionOnSet(g, s) = g[Pick(s)] + SumFunctionOnSet(g, s \ {Pick(s)})
          BY <3>1, <3>3, SumPick
        <4> QED BY <4>2, <4>3
      <3> QED BY <3>2, <3>3
    <2> QED BY <2>1
  <1> HIDE DEF T
  <1>3. Cardinality(S) \in T
    BY <1>1, <1>2, Counting, FS_CardinalityType
  <1> QED BY <1>3, FS_CardinalityType DEF T, UpTo

\* Any element may be taken first.
LEMMA SumTake ==
    ASSUME NEW S, IsFiniteSet(S), NEW g, IsIntOn(g, S), NEW x \in S
    PROVE  SumFunctionOnSet(g, S) = g[x] + SumFunctionOnSet(g, S \ {x})
  <1> DEFINE T == {n \in Nat : \A s \in UpTo(S, n) : \A y \in s :
                      SumFunctionOnSet(g, s) = g[y] + SumFunctionOnSet(g, s \ {y})}
  <1>1. 0 \in T
    <2>1. \A s \in UpTo(S, 0) : s = {}
      BY FS_Subset, FS_EmptySet, FS_CardinalityType DEF UpTo
    <2> QED BY <2>1
  <1>2. ASSUME NEW n \in Nat, n \in T
        PROVE  n + 1 \in T
    <2>1. ASSUME NEW s \in UpTo(S, n + 1), NEW y \in s
          PROVE  SumFunctionOnSet(g, s) = g[y] + SumFunctionOnSet(g, s \ {y})
      <3> DEFINE p == Pick(s)
      <3>1. s \ {p} \in UpTo(S, n) /\ p \in S /\ s \in SUBSET S /\ p \in s
        BY LessIn, PickIn
      <3>2. IsFiniteSet(s)
        BY <3>1, FS_Subset
      <3>3. SumFunctionOnSet(g, s) = g[p] + SumFunctionOnSet(g, s \ {p})
        BY <3>2, SumPick
      <3> HIDE DEF p
      <3>4. CASE y = p
        BY <3>3, <3>4
      <3>5. CASE y # p
        <4> DEFINE r == (s \ {p}) \ {y}
        <4>1. r = (s \ {y}) \ {p} /\ y \in s \ {p} /\ p \in s \ {y} /\ r \in SUBSET S
          BY <3>1, <3>5
        <4>2. s \ {y} \in UpTo(S, n)
          BY <2>1, <3>1, Smaller DEF UpTo
        <4>3. SumFunctionOnSet(g, s \ {p}) = g[y] + SumFunctionOnSet(g, r)
          BY <1>2, <3>1, <4>1
        <4>4. SumFunctionOnSet(g, s \ {y}) = g[p] + SumFunctionOnSet(g, r)
          BY <1>2, <4>1, <4>2
        <4>5. IsFiniteSet(r) /\ IsIntOn(g, r)
          BY <4>1, FS_Subset DEF IsIntOn
        <4>6. g[p] \in Int /\ g[y] \in Int
          BY <3>1 DEF IsIntOn
        <4> HIDE DEF r
        <4>7. SumFunctionOnSet(g, r) \in Int
          BY <4>5, SumIsInt
        <4> QED BY <3>3, <4>3, <4>4, <4>6, <4>7
      <3> QED BY <3>4, <3>5
    <2> QED BY <2>1
  <1> HIDE DEF T
  <1>3. Cardinality(S) \in T
    BY <1>1, <1>2, Counting, FS_CardinalityType
  <1> QED BY <1>3, FS_CardinalityType DEF T, UpTo

LEMMA SumMore ==
    ASSUME NEW S, IsFiniteSet(S), NEW g, NEW x, x \notin S, IsIntOn(g, S), g[x] \in Int
    PROVE  /\ IsFiniteSet(S \union {x}) /\ IsIntOn(g, S \union {x})
           /\ SumFunctionOnSet(g, S) \in Int
           /\ SumFunctionOnSet(g, S \union {x}) = SumFunctionOnSet(g, S) + g[x]
  <1> DEFINE T == S \union {x}
  <1>1. IsFiniteSet(T) /\ IsIntOn(g, T) /\ x \in T /\ T \ {x} = S
    BY FS_AddElement DEF IsIntOn
  <1>2. SumFunctionOnSet(g, S) \in Int
    BY SumIsInt
  <1> HIDE DEF T
  <1>3. SumFunctionOnSet(g, T) = g[x] + SumFunctionOnSet(g, S)
    BY <1>1, SumTake
  <1> QED BY <1>1, <1>2, <1>3 DEF T

\* A finite set is built from the empty one, element by element.
LEMMA BuiltUp ==
    ASSUME NEW S, IsFiniteSet(S), NEW F, {} \in F,
           \A s \in F : \A x \in S \ s : s \subseteq S => s \union {x} \in F
    PROVE  S \in F
  <1> DEFINE T == {n \in Nat : \A s \in SUBSET S : Cardinality(s) = n => s \in F}
  <1>1. 0 \in T
    BY FS_Subset, FS_EmptySet
  <1>2. ASSUME NEW n \in Nat, n \in T
        PROVE  n + 1 \in T
    <2>1. ASSUME NEW s \in SUBSET S, Cardinality(s) = n + 1
          PROVE  s \in F
      <3>1. s # {}
        BY <2>1, FS_EmptySet
      <3>2. PICK x \in s : TRUE
        BY <3>1
      <3>3. Cardinality(s \ {x}) = n
        <4>1. s \in SUBSET S /\ x \in s /\ Cardinality(s) = n + 1
          BY <2>1, <3>2
        <4>2. Cardinality(s \ {x}) = Cardinality(s) - 1
          BY <4>1, Smaller
        <4> QED BY <4>1, <4>2
      <3>4. s \ {x} \in F /\ s \ {x} \subseteq S /\ x \in S \ (s \ {x})
        BY <1>2, <3>3
      <3>5. (s \ {x}) \union {x} \in F
        BY <3>4
      <3> QED BY <3>5
    <2> QED BY <2>1
  <1> HIDE DEF T
  <1>3. Cardinality(S) \in T
    BY <1>1, <1>2, Counting, FS_CardinalityType
  <1> QED BY <1>3 DEF T

-----------------------------------------------------------------------------
(* What sums are good for.                                                 *)

LEMMA SumOfZeros ==
    ASSUME NEW S, IsFiniteSet(S), NEW g, \A x \in S : g[x] = 0
    PROVE  SumFunctionOnSet(g, S) = 0
  <1> DEFINE F == {s \in SUBSET S : SumFunctionOnSet(g, s) = 0}
  <1>1. {} \in F
    BY FS_EmptySet, SumPick
  <1>2. ASSUME NEW s \in F, NEW x \in S \ s
        PROVE  s \union {x} \in F
    <2>1. s \in SUBSET S /\ IsFiniteSet(s) /\ SumFunctionOnSet(g, s) = 0 /\ g[x] = 0
      BY FS_Subset
    <2>2. IsIntOn(g, s)
      BY <2>1 DEF IsIntOn
    <2>3. SumFunctionOnSet(g, s \union {x}) = SumFunctionOnSet(g, s) + g[x]
      BY <2>1, <2>2, SumMore
    <2> QED BY <2>1, <2>3
  <1> HIDE DEF F
  <1>3. S \in F
    BY <1>1, <1>2, BuiltUp
  <1> QED BY <1>3 DEF F

\* The sum of a set in two parts.
LEMMA SumOfParts ==
    ASSUME NEW A, IsFiniteSet(A), NEW B, IsFiniteSet(B), A \intersect B = {},
           NEW g, IsIntOn(g, A), IsIntOn(g, B)
    PROVE  /\ IsFiniteSet(A \union B) /\ IsIntOn(g, A \union B)
           /\ SumFunctionOnSet(g, A \union B) = SumFunctionOnSet(g, A) + SumFunctionOnSet(g, B)
  <1> DEFINE F == {s \in SUBSET B : SumFunctionOnSet(g, A \union s)
                                        = SumFunctionOnSet(g, A) + SumFunctionOnSet(g, s)}
  <1>0. SumFunctionOnSet(g, A) \in Int
    BY SumIsInt
  <1>1. {} \in F
    <2>1. SumFunctionOnSet(g, {}) = 0 /\ A \union {} = A
      BY FS_EmptySet, SumPick
    <2> QED BY <1>0, <2>1
  <1>2. ASSUME NEW s \in F, NEW x \in B \ s
        PROVE  s \union {x} \in F
    <2> DEFINE R == A \union s
    <2>1. /\ s \in SUBSET B /\ IsFiniteSet(s) /\ IsFiniteSet(R) /\ x \notin R /\ g[x] \in Int
          /\ IsIntOn(g, s) /\ IsIntOn(g, R)
      BY FS_Subset, FS_Union DEF IsIntOn
    <2>2. SumFunctionOnSet(g, R) = SumFunctionOnSet(g, A) + SumFunctionOnSet(g, s)
      OBVIOUS
    <2>3. A \union (s \union {x}) = R \union {x}
      OBVIOUS
    <2> HIDE DEF R
    <2>4. SumFunctionOnSet(g, R \union {x}) = SumFunctionOnSet(g, R) + g[x]
      BY <2>1, SumMore
    <2>5. /\ SumFunctionOnSet(g, s) \in Int
          /\ SumFunctionOnSet(g, s \union {x}) = SumFunctionOnSet(g, s) + g[x]
      BY <2>1, SumMore
    <2>6. SumFunctionOnSet(g, A \union (s \union {x}))
              = SumFunctionOnSet(g, A) + SumFunctionOnSet(g, s \union {x})
      <3> HIDE DEF F
      <3>1. SumFunctionOnSet(g, A \union (s \union {x})) = SumFunctionOnSet(g, R \union {x})
        BY <2>3
      <3> QED BY <1>0, <2>1, <2>2, <3>1, <2>4, <2>5
    <2> QED BY <2>1, <2>6
  <1> HIDE DEF F
  <1>3. B \in F
    BY <1>1, <1>2, BuiltUp
  <1>4. IsFiniteSet(A \union B) /\ IsIntOn(g, A \union B)
    BY FS_Union DEF IsIntOn
  <1> QED BY <1>3, <1>4 DEF F

\* The sum of differences.
LEMMA SumOfDifferences ==
    ASSUME NEW S, IsFiniteSet(S), NEW f, NEW g, NEW h, IsIntOn(f, S), IsIntOn(g, S),
           \A x \in S : h[x] = f[x] - g[x]
    PROVE  SumFunctionOnSet(h, S) = SumFunctionOnSet(f, S) - SumFunctionOnSet(g, S)
  <1> DEFINE F == {s \in SUBSET S : SumFunctionOnSet(h, s)
                                        = SumFunctionOnSet(f, s) - SumFunctionOnSet(g, s)}
  <1>1. {} \in F
    <2>1. /\ SumFunctionOnSet(f, {}) = 0 /\ SumFunctionOnSet(g, {}) = 0
          /\ SumFunctionOnSet(h, {}) = 0
      BY FS_EmptySet, SumPick
    <2> QED BY <2>1
  <1>2. ASSUME NEW s \in F, NEW x \in S \ s
        PROVE  s \union {x} \in F
    <2>1. s \in SUBSET S /\ IsFiniteSet(s) /\ x \notin s
      BY FS_Subset
    <2>2. /\ f[x] \in Int /\ g[x] \in Int /\ h[x] = f[x] - g[x]
          /\ h[x] \in Int /\ IsIntOn(f, s) /\ IsIntOn(g, s) /\ IsIntOn(h, s)
      BY <2>1 DEF IsIntOn
    <2>0. SumFunctionOnSet(h, s) = SumFunctionOnSet(f, s) - SumFunctionOnSet(g, s)
      OBVIOUS
    <2> HIDE DEF F
    <2>3. /\ SumFunctionOnSet(f, s) \in Int
          /\ SumFunctionOnSet(f, s \union {x}) = SumFunctionOnSet(f, s) + f[x]
      <3>1. IsFiniteSet(s) /\ x \notin s /\ IsIntOn(f, s) /\ f[x] \in Int
        BY <2>1, <2>2
      <3> QED BY ONLY <3>1, SumMore
    <2>4. /\ SumFunctionOnSet(g, s) \in Int
          /\ SumFunctionOnSet(g, s \union {x}) = SumFunctionOnSet(g, s) + g[x]
      <3>1. IsFiniteSet(s) /\ x \notin s /\ IsIntOn(g, s) /\ g[x] \in Int
        BY <2>1, <2>2
      <3> QED BY ONLY <3>1, SumMore
    <2>5. /\ SumFunctionOnSet(h, s) \in Int
          /\ SumFunctionOnSet(h, s \union {x}) = SumFunctionOnSet(h, s) + h[x]
      <3>1. IsFiniteSet(s) /\ x \notin s /\ IsIntOn(h, s) /\ h[x] \in Int
        BY <2>1, <2>2
      <3> QED BY ONLY <3>1, SumMore
    <2>6. SumFunctionOnSet(h, s \union {x})
              = SumFunctionOnSet(f, s \union {x}) - SumFunctionOnSet(g, s \union {x})
      BY <2>0, <2>2, <2>3, <2>4, <2>5
    <2> QED BY <2>1, <2>6 DEF F
  <1> HIDE DEF F
  <1>3. S \in F
    BY <1>1, <1>2, BuiltUp
  <1> QED BY <1>3 DEF F

\* Elements that add nothing may be left out.
LEMMA SumOfRest ==
    ASSUME NEW S, IsFiniteSet(S), NEW D \in SUBSET S, NEW g, NEW h, IsIntOn(g, D),
           Agree(g, h, D), \A x \in S \ D : h[x] = 0
    PROVE  SumFunctionOnSet(h, S) = SumFunctionOnSet(g, D)
  <1> DEFINE R == S \ D
  <1>1. IsFiniteSet(D) /\ IsFiniteSet(R) /\ D \intersect R = {} /\ S = D \union R
    BY FS_Subset
  <1>2. IsIntOn(h, D) /\ IsIntOn(h, R)
    BY DEF IsIntOn, Agree
  <1>3. \A x \in R : h[x] = 0
    OBVIOUS
  <1> HIDE DEF R
  <1>4. SumFunctionOnSet(h, D \union R) = SumFunctionOnSet(h, D) + SumFunctionOnSet(h, R)
    BY <1>1, <1>2, SumOfParts
  <1>5. SumFunctionOnSet(h, R) = 0
    BY <1>1, <1>3, SumOfZeros
  <1>6. SumFunctionOnSet(g, D) = SumFunctionOnSet(h, D)
    BY <1>1, SumSame
  <1>7. SumFunctionOnSet(h, D) \in Int
    BY <1>1, <1>2, SumIsInt
  <1> QED BY <1>1, <1>4, <1>5, <1>6, <1>7

\* What f makes of S, if it makes no two elements one, has the sum of S.
LEMMA SumOfImage ==
    ASSUME NEW S, IsFiniteSet(S), NEW f, \A x, y \in S : f[x] = f[y] => x = y,
           NEW g, NEW h, IsIntOn(h, S), \A x \in S : g[f[x]] = h[x]
    PROVE  /\ IsFiniteSet({f[x] : x \in S})
           /\ SumFunctionOnSet(g, {f[x] : x \in S}) = SumFunctionOnSet(h, S)
  <1> DEFINE F == {s \in SUBSET S :
                      /\ IsFiniteSet({f[x] : x \in s})
                      /\ SumFunctionOnSet(g, {f[x] : x \in s}) = SumFunctionOnSet(h, s)}
  <1>1. {} \in F
    <2>1. SumFunctionOnSet(g, {}) = 0 /\ SumFunctionOnSet(h, {}) = 0 /\ {f[x] : x \in {}} = {}
      BY FS_EmptySet, SumPick
    <2> QED BY <2>1, FS_EmptySet
  <1>2. ASSUME NEW s \in F, NEW x \in S \ s
        PROVE  s \union {x} \in F
    <2> DEFINE R == {f[y] : y \in s}
    <2>1. s \in SUBSET S /\ IsFiniteSet(s) /\ IsFiniteSet(R) /\ x \notin s
      BY FS_Subset
    <2>2. /\ h[x] \in Int /\ g[f[x]] = h[x] /\ IsIntOn(h, s) /\ IsIntOn(g, R) /\ f[x] \notin R
      BY <2>1 DEF IsIntOn
    <2>3. {f[y] : y \in s \union {x}} = R \union {f[x]}
      OBVIOUS
    <2>4. SumFunctionOnSet(g, R) = SumFunctionOnSet(h, s)
      OBVIOUS
    <2> HIDE DEF R, F
    <2>5. /\ IsFiniteSet(R \union {f[x]})
          /\ SumFunctionOnSet(g, R \union {f[x]}) = SumFunctionOnSet(g, R) + g[f[x]]
      <3>1. IsFiniteSet(R) /\ f[x] \notin R /\ IsIntOn(g, R) /\ g[f[x]] \in Int
        BY <2>1, <2>2
      <3> QED BY ONLY <3>1, SumMore
    <2>6. SumFunctionOnSet(h, s \union {x}) = SumFunctionOnSet(h, s) + h[x]
      <3>1. IsFiniteSet(s) /\ x \notin s /\ IsIntOn(h, s) /\ h[x] \in Int
        BY <2>1, <2>2
      <3> QED BY ONLY <3>1, SumMore
    <2>7. /\ IsFiniteSet({f[y] : y \in s \union {x}})
          /\ SumFunctionOnSet(g, {f[y] : y \in s \union {x}}) = SumFunctionOnSet(h, s \union {x})
      BY <2>2, <2>3, <2>4, <2>5, <2>6
    <2> QED BY <2>1, <2>7 DEF F
  <1> HIDE DEF F
  <1>3. S \in F
    BY <1>1, <1>2, BuiltUp
  <1> QED BY <1>3 DEF F

\* The elements of S that f puts at a.
Fibre(f, S, a) == {x \in S : f[x] = a}

FibreSums(g, f, S, A) == [a \in A |-> SumFunctionOnSet(g, Fibre(f, S, a))]

\* A sum may be taken fibre by fibre.
LEMMA SumOfFibres ==
    ASSUME NEW S, IsFiniteSet(S), NEW A, IsFiniteSet(A), NEW f, \A x \in S : f[x] \in A,
           NEW g, IsIntOn(g, S)
    PROVE  SumFunctionOnSet(FibreSums(g, f, S, A), A) = SumFunctionOnSet(g, S)
  <1> DEFINE F == {s \in SUBSET S : SumFunctionOnSet(FibreSums(g, f, s, A), A)
                                        = SumFunctionOnSet(g, s)}
  <1>1. {} \in F
    <2>1. SumFunctionOnSet(g, {}) = 0
      BY FS_EmptySet, SumPick
    <2>2. \A a \in A : Fibre(f, {}, a) = {}
      BY DEF Fibre
    <2>3. \A a \in A : FibreSums(g, f, {}, A)[a] = 0
      BY <2>1, <2>2 DEF FibreSums
    <2> QED BY <2>1, <2>3, SumOfZeros
  <1>2. ASSUME NEW s \in F, NEW x \in S \ s
        PROVE  s \union {x} \in F
    <2> DEFINE old == FibreSums(g, f, s, A)
               new == FibreSums(g, f, s \union {x}, A)
               b == f[x]
               B == A \ {b}
    <2>1. s \in SUBSET S /\ IsFiniteSet(s) /\ x \notin s /\ g[x] \in Int /\ IsIntOn(g, s)
      BY FS_Subset DEF IsIntOn
    <2>2. \A a \in A : IsFiniteSet(Fibre(f, s, a)) /\ IsIntOn(g, Fibre(f, s, a))
      BY <2>1, FS_Subset DEF Fibre, IsIntOn
    <2>3. IsIntOn(old, A)
      BY <2>2, SumIsInt DEF FibreSums, IsIntOn
    <2>4. \A a \in B : Fibre(f, s \union {x}, a) = Fibre(f, s, a)
      BY DEF Fibre
    <2>5. Agree(new, old, B)
      BY <2>4 DEF FibreSums, Agree
    <2>6. b \in A /\ Fibre(f, s \union {x}, b) = Fibre(f, s, b) \union {x}
      BY DEF Fibre
    <2>7. x \notin Fibre(f, s, b)
      BY <2>1 DEF Fibre
    <2> DEFINE P == Fibre(f, s, b)
    <2>8. IsFiniteSet(P) /\ IsIntOn(g, P) /\ x \notin P
      BY <2>2, <2>6, <2>7
    <2>9. new[b] = SumFunctionOnSet(g, P \union {x}) /\ old[b] = SumFunctionOnSet(g, P)
      BY <2>6 DEF FibreSums
    <2> HIDE DEF P, old, new, b
    <2>10. new[b] = old[b] + g[x] /\ old[b] \in Int
      BY <2>1, <2>8, <2>9, SumMore
    <2>11. IsFiniteSet(B) /\ IsIntOn(old, B) /\ IsIntOn(new, A)
      BY <2>1, <2>3, <2>5, <2>10, FS_Subset DEF IsIntOn, Agree
    <2>12. SumFunctionOnSet(old, B) = SumFunctionOnSet(new, B) /\ SumFunctionOnSet(old, B) \in Int
      <3> HIDE DEF B
      <3>1. Agree(old, new, B)
        BY <2>5 DEF Agree
      <3> QED BY <2>11, <3>1, SumSame, SumIsInt
    <2>13. SumFunctionOnSet(old, A) = old[b] + SumFunctionOnSet(old, B)
      BY <2>3, <2>6, SumTake
    <2>14. SumFunctionOnSet(new, A) = new[b] + SumFunctionOnSet(new, B)
      BY <2>6, <2>11, SumTake
    <2>15. SumFunctionOnSet(old, A) = SumFunctionOnSet(g, s)
      BY DEF old
    <2> HIDE DEF B, F
    <2>16. /\ SumFunctionOnSet(g, s) \in Int
           /\ SumFunctionOnSet(g, s \union {x}) = SumFunctionOnSet(g, s) + g[x]
      BY <2>1, SumMore
    <2>17. SumFunctionOnSet(new, A) = SumFunctionOnSet(g, s \union {x})
      BY <2>1, <2>10, <2>12, <2>13, <2>14, <2>15, <2>16
    <2> QED BY <2>1, <2>17 DEF new, F
  <1> HIDE DEF F
  <1>3. S \in F
    BY <1>1, <1>2, BuiltUp
  <1> QED BY <1>3 DEF F
=============================================================================
