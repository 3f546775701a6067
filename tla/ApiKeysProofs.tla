--------------------------- MODULE ApiKeysProofs ---------------------------
(***************************************************************************)
(* Theorems about ApiKeys, for every set of onboardings, issues and calls. *)
(***************************************************************************)
EXTENDS ApiKeys, TLAPS

LEMMA IssueType ==
    ASSUME NEW i \in Issues
    PROVE  i.merchant \in Onboardings
  BY CallsAssumption

\* What an operator's step leaves of the types, and of the calls in progress.
LEMMA OperatorStep ==
    ASSUME TypeOK,
           \/ \E o \in Onboardings : CreateMerchant(o) \/ Deactivate(o)
           \/ \E i \in Issues : IssueApiKey(i) \/ \E o \in Onboardings : RevokeApiKey(i, o)
    PROVE  /\ TypeOK'
           /\ UNCHANGED api_call
           /\ \A o \in Onboardings : merchants[o] = "inactive" => merchants'[o] = "inactive"
  <1>1. CASE \E o \in Onboardings : CreateMerchant(o) \/ Deactivate(o)
    BY <1>1 DEF CreateMerchant, Deactivate, TypeOK
  <1>2. CASE \E i \in Issues : IssueApiKey(i) \/ \E o \in Onboardings : RevokeApiKey(i, o)
    BY <1>2 DEF IssueApiKey, RevokeApiKey, TypeOK
  <1> QED BY <1>1, <1>2

\* One call takes a step: the others keep theirs.
LEMMA CallMoves ==
    ASSUME TypeOK, Matched, NEW a \in ApiCalls, NEW c \in ApiCall \union {NoCall},
           api_call' = [api_call EXCEPT ![a] = c], UNCHANGED merchants,
           c # NoCall => /\ c.matched = c.key
                         /\ c.key \in c.outcasts =>
                                c.pc = "merchant" /\ merchants[c.key.merchant] = "inactive"
    PROVE  api_call' \in [ApiCalls -> ApiCall \union {NoCall}] /\ Matched'
  <1>1. api_call' \in [ApiCalls -> ApiCall \union {NoCall}]
    BY DEF TypeOK
  <1>2. \A b \in ApiCalls : api_call'[b] = IF b = a THEN c ELSE api_call[b]
    BY DEF TypeOK
  <1> QED BY <1>1, <1>2 DEF Matched

LEMMA CallStep ==
    ASSUME TypeOK, Matched, NEW a \in ApiCalls,
           (\E i \in Issues : FindKey(a, i)) \/ FindMerchant(a) \/ Stamp(a) \/ EndCall(a)
    PROVE  TypeOK' /\ Matched'
  <1> DEFINE c == api_call[a]
  <1>0. c # NoCall => c \in ApiCall
    BY DEF TypeOK
  <1>1. CASE \E i \in Issues : FindKey(a, i)
    <2>1. PICK i \in Issues : FindKey(a, i)
      BY <1>1
    <2> DEFINE outcasts == {j \in Issues : ShutOut(j)}
               new == [pc |-> "merchant", key |-> i, matched |-> i, outcasts |-> outcasts]
    <2>2. api_call' = [api_call EXCEPT ![a] = new] /\ api_keys[i] = "active"
      BY <2>1 DEF FindKey, Begins
    <2>3. new \in ApiCall
      BY DEF ApiCall
    <2>4. new.key \in new.outcasts => merchants[new.key.merchant] = "inactive"
      BY <2>2 DEF ShutOut
    <2> HIDE DEF outcasts
    <2>5. new.matched = new.key /\ new.pc = "merchant"
      OBVIOUS
    <2> HIDE DEF new
    <2>6. UNCHANGED <<merchants, api_keys, last_used_at, held>>
      BY <2>1 DEF FindKey
    <2> QED BY <2>2, <2>3, <2>4, <2>5, <2>6, CallMoves DEF TypeOK
  <1>2. CASE FindMerchant(a)
    <2>1. c \in ApiCall /\ c # NoCall /\ c.pc = "merchant"
      BY <1>0, <1>2 DEF FindMerchant, NoCall
    <2>2. c.matched = c.key
      BY <2>1 DEF Matched
    <2>3. CASE merchants[c.matched.merchant] = "active"
      <3> DEFINE new == [c EXCEPT !.pc = "stamp"]
      <3>1. new \in ApiCall /\ new.matched = new.key /\ new.key = c.key
            /\ new.outcasts = c.outcasts
        BY <2>1, <2>2 DEF ApiCall
      <3>2. c.key \notin c.outcasts
        BY <2>1, <2>2, <2>3 DEF Matched
      <3>3. api_call' = [api_call EXCEPT ![a] = new]
        BY <1>2, <2>3 DEF FindMerchant
      <3> HIDE DEF new
      <3> QED BY <1>2, <3>1, <3>2, <3>3, CallMoves DEF FindMerchant, TypeOK
    <2>4. CASE merchants[c.matched.merchant] # "active"
      BY <1>2, <2>4, CallMoves DEF FindMerchant, TypeOK
    <2> QED BY <2>3, <2>4
  <1>3. CASE Stamp(a)
    <2> DEFINE new == [c EXCEPT !.pc = "authenticated"]
    <2>1. c \in ApiCall /\ c # NoCall /\ c.pc = "stamp"
      BY <1>0, <1>3 DEF Stamp, NoCall
    <2>2. c.matched = c.key /\ c.key \notin c.outcasts
      BY <2>1 DEF Matched
    <2>3. new \in ApiCall /\ new.matched = new.key /\ new.key = c.key
          /\ new.outcasts = c.outcasts
      BY <2>1, <2>2 DEF ApiCall
    <2>4. c.matched \in Issues
      BY <2>1 DEF ApiCall
    <2>5. api_call' = [api_call EXCEPT ![a] = new]
      BY <1>3 DEF Stamp
    <2> HIDE DEF new
    <2>6. api_call' \in [ApiCalls -> ApiCall \union {NoCall}] /\ Matched'
      BY <1>3, <2>2, <2>3, <2>5, CallMoves DEF Stamp
    <2> QED BY <1>3, <2>4, <2>6 DEF Stamp, TypeOK
  <1>4. CASE EndCall(a)
    BY <1>4, CallMoves DEF EndCall, TypeOK
  <1> QED BY <1>1, <1>2, <1>3, <1>4

-----------------------------------------------------------------------------
\* The inductive invariant: types, and what calls in progress have matched.
THEOREM Invariant == Spec => []IInv
  <1>1. Init => IInv
    BY DEF Init, IInv, TypeOK, Matched, NoCall
  <1>2. IInv /\ [Next]_vars => IInv'
    <2> SUFFICES ASSUME IInv, [Next]_vars PROVE IInv'
      OBVIOUS
    <2> USE DEF IInv
    <2>1. CASE \/ \E o \in Onboardings : CreateMerchant(o) \/ Deactivate(o)
               \/ \E i \in Issues : IssueApiKey(i) \/ \E o \in Onboardings : RevokeApiKey(i, o)
      <3>1. /\ TypeOK' /\ UNCHANGED api_call
            /\ \A o \in Onboardings : merchants[o] = "inactive" => merchants'[o] = "inactive"
        BY <2>1, OperatorStep
      <3>2. \A a \in ApiCalls : api_call[a] # NoCall => api_call[a].key.merchant \in Onboardings
        BY IssueType DEF TypeOK, ApiCall
      <3>3. Matched'
        BY <3>1, <3>2 DEF Matched
      <3> QED BY <3>1, <3>3
    <2>2. CASE \E a \in ApiCalls :
              (\E i \in Issues : FindKey(a, i)) \/ FindMerchant(a) \/ Stamp(a) \/ EndCall(a)
      BY <2>2, CallStep
    <2>3. CASE UNCHANGED vars
      BY <2>3 DEF vars, TypeOK, Matched
    <2> QED BY <2>1, <2>2, <2>3 DEF Next
  <1> QED BY <1>1, <1>2, PTL DEF Spec

\* Every state reached is of the declared types.
THEOREM TypeCorrect == Spec => []TypeOK
  <1>1. IInv => TypeOK
    BY DEF IInv
  <1> QED BY <1>1, Invariant, PTL

\* Whatever keys share a prefix, a call is taken for the owner of its key.
THEOREM CallersAreOwners == Spec => []TakenForOwner
  <1>1. IInv => TakenForOwner
    BY DEF IInv, Matched, TakenForOwner, Authenticated, NoCall
  <1> QED BY <1>1, Invariant, PTL

\* No call that began after its key was revoked, or its merchant deactivated,
\* is authenticated, however the steps of calls and operators interleave.
THEOREM ShutOutIsShutOut == Spec => []ShutOutStaysOut
  <1>1. IInv => ShutOutStaysOut
    BY DEF IInv, Matched, ShutOutStaysOut, Authenticated, NoCall
  <1> QED BY <1>1, Invariant, PTL

\* No later step, of a call that still holds the active row included, brings a
\* revoked key back.
THEOREM RevokedForGood == Spec => RevocationIsFinal
  <1>1. TypeOK /\ [Next]_vars =>
            [\A i \in Issues : api_keys[i] = "revoked" => api_keys'[i] = "revoked"]_vars
    BY DEF TypeOK, Next, vars, CreateMerchant, Deactivate, IssueApiKey, RevokeApiKey,
           FindKey, FindMerchant, Stamp, EndCall
  <1> QED BY <1>1, TypeCorrect, PTL DEF Spec, RevocationIsFinal
=============================================================================
