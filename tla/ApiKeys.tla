------------------------------ MODULE ApiKeys ------------------------------
(***************************************************************************)
(* Merchants, their API keys and the authentication of a merchant's calls: *)
(* services/merchant.py, services/api_key.py and core/auth.py behind the   *)
(* operator's endpoints of api/merchants.py.                               *)
(*                                                                         *)
(* A call is authenticated in three awaits (the keys with the prefix, the  *)
(* merchant, the commit of last_used_at), and the operator onboards,       *)
(* issues, revokes and deactivates between them.  An operator's call is    *)
(* one step: it decides by its commit alone, or by rows nothing deletes.   *)
(***************************************************************************)
EXTENDS Integers, FiniteSets

CONSTANTS
    Onboardings,    \* create_merchant calls; the merchant is named after the call
    Issues,         \* issue_api_key calls; the raw key is named after the call
    ApiCalls        \* concurrent calls of merchants' clients; reusable

\* An onboarding has an email, as it is stored; an issue has a merchant and the
\* prefix its key draws, which another key may draw too.
ASSUME CallsAssumption == \A i \in Issues : i.merchant \in Onboardings

VARIABLES
    merchants,      \* the row each onboarding inserted
    api_keys,       \* the row each issue inserted
    last_used_at,   \* keys for which it is set
    held,           \* keys whose plaintext has reached the operator
    api_call        \* progress of each call, with what it has loaded

vars == <<merchants, api_keys, last_used_at, held, api_call>>

\* key: as presented; matched: the row it was found to be; outcasts: the keys
\* that were shut out when the call began (kept for the property alone).
ApiCall == [pc : {"merchant", "stamp", "authenticated"}, key : Issues, matched : Issues,
            outcasts : SUBSET Issues]

NoCall == [pc |-> "idle"]

TypeOK ==
    /\ merchants \in [Onboardings -> {"absent", "active", "inactive"}]
    /\ api_keys \in [Issues -> {"absent", "active", "revoked"}]
    /\ last_used_at \subseteq Issues
    /\ held \subseteq Issues
    /\ api_call \in [ApiCalls -> ApiCall \union {NoCall}]

-----------------------------------------------------------------------------
\* create_merchant inserts; the unique email is what refuses a second merchant.
CreateMerchant(o) ==
    /\ merchants[o] = "absent"
    /\ \A p \in Onboardings : merchants[p] # "absent" => p.email # o.email
    /\ merchants' = [merchants EXCEPT ![o] = "active"]
    /\ UNCHANGED <<api_keys, last_used_at, held, api_call>>

\* is_active has no endpoint: an operator clears it in the table.
Deactivate(o) ==
    /\ merchants[o] = "active"
    /\ merchants' = [merchants EXCEPT ![o] = "inactive"]
    /\ UNCHANGED <<api_keys, last_used_at, held, api_call>>

\* issue_api_key, also for an inactive merchant.  The answer is the only place
\* the raw key is ever in: if it is lost, the row stays and nobody holds the key.
IssueApiKey(i) ==
    /\ api_keys[i] = "absent"
    /\ merchants[i.merchant] # "absent"
    /\ api_keys' = [api_keys EXCEPT ![i] = "active"]
    /\ held' \in {held, held \union {i}}
    /\ UNCHANGED <<merchants, last_used_at, api_call>>

\* revoke_api_key under the path of merchant o; anything else is a 404, and a
\* key that is revoked already is left as it is.
RevokeApiKey(i, o) ==
    /\ api_keys[i] = "active"
    /\ i.merchant = o
    /\ api_keys' = [api_keys EXCEPT ![i] = "revoked"]
    /\ UNCHANGED <<merchants, last_used_at, held, api_call>>

-----------------------------------------------------------------------------
ShutOut(i) == api_keys[i] = "revoked" \/ merchants[i.merchant] = "inactive"

Candidates(i) == {j \in Issues : api_keys[j] # "absent" /\ j.prefix = i.prefix}

Begins(a, key, matched) ==
    api_call' = [api_call EXCEPT ![a] =
        [pc |-> "merchant", key |-> key, matched |-> matched,
         outcasts |-> {i \in Issues : ShutOut(i)}]]

\* Mutant: any key with the prefix will do.
FindKeyByPrefix(a, i) ==
    /\ api_call[a] = NoCall
    /\ i \in held
    /\ \E j \in Candidates(i) : api_keys[j] = "active" /\ Begins(a, i, j)
    /\ UNCHANGED <<merchants, api_keys, last_used_at, held>>

\* verify_api_key up to the merchant: of the candidates, the one whose hash is
\* that of the key presented, if it was read active.  Otherwise 401.
FindKey(a, i) ==
    /\ api_call[a] = NoCall
    /\ i \in held
    /\ \E j \in Candidates(i) : j = i /\ api_keys[j] = "active" /\ Begins(a, i, j)
    /\ UNCHANGED <<merchants, api_keys, last_used_at, held>>

\* Mutant: the merchant is not checked.
FindMerchantUnchecked(a) ==
    /\ api_call[a].pc = "merchant"
    /\ api_call' = [api_call EXCEPT ![a].pc = "stamp"]
    /\ UNCHANGED <<merchants, api_keys, last_used_at, held>>

FindMerchant(a) ==
    /\ api_call[a].pc = "merchant"
    /\ api_call' = IF merchants[api_call[a].matched.merchant] = "active"
                   THEN [api_call EXCEPT ![a].pc = "stamp"]
                   ELSE [api_call EXCEPT ![a] = NoCall]
    /\ UNCHANGED <<merchants, api_keys, last_used_at, held>>

\* Mutant: the commit writes the row back as it was loaded.
StampRow(a) ==
    /\ api_call[a].pc = "stamp"
    /\ last_used_at' = last_used_at \union {api_call[a].matched}
    /\ api_keys' = [api_keys EXCEPT ![api_call[a].matched] = "active"]
    /\ api_call' = [api_call EXCEPT ![a].pc = "authenticated"]
    /\ UNCHANGED <<merchants, held>>

\* The commit of last_used_at, which writes no other column.
Stamp(a) ==
    /\ api_call[a].pc = "stamp"
    /\ last_used_at' = last_used_at \union {api_call[a].matched}
    /\ api_call' = [api_call EXCEPT ![a].pc = "authenticated"]
    /\ UNCHANGED <<merchants, api_keys, held>>

\* The call has done its work, or failed at any of its awaits.
EndCall(a) ==
    /\ api_call[a] # NoCall
    /\ api_call' = [api_call EXCEPT ![a] = NoCall]
    /\ UNCHANGED <<merchants, api_keys, last_used_at, held>>

-----------------------------------------------------------------------------
Init ==
    /\ merchants = [o \in Onboardings |-> "absent"]
    /\ api_keys = [i \in Issues |-> "absent"]
    /\ last_used_at = {}
    /\ held = {}
    /\ api_call = [a \in ApiCalls |-> NoCall]

Next ==
    \/ \E o \in Onboardings : CreateMerchant(o) \/ Deactivate(o)
    \/ \E i \in Issues : IssueApiKey(i) \/ \E o \in Onboardings : RevokeApiKey(i, o)
    \/ \E a \in ApiCalls :
           (\E i \in Issues : FindKey(a, i)) \/ FindMerchant(a) \/ Stamp(a) \/ EndCall(a)

Spec == Init /\ [][Next]_vars

-----------------------------------------------------------------------------
Authenticated(a) == api_call[a].pc = "authenticated"

\* Whose call it is taken for is the merchant its key was issued to, although
\* prefixes collide (verify_api_key looks rows up by prefix).
TakenForOwner ==
    \A a \in ApiCalls : Authenticated(a) =>
        api_call[a].matched.merchant = api_call[a].key.merchant

\* A call that began after its key was revoked or its merchant deactivated is
\* never authenticated; one that began before may be (three awaits).
ShutOutStaysOut ==
    \A a \in ApiCalls : Authenticated(a) => api_call[a].key \notin api_call[a].outcasts

\* Revocation is for good, although calls that loaded the row while it was
\* active commit to it afterwards.
RevocationIsFinal ==
    [][\A i \in Issues : api_keys[i] = "revoked" => api_keys'[i] = "revoked"]_vars

-----------------------------------------------------------------------------
(* Why a call that is let in is let in rightly; the proofs rest on it.     *)

\* Whoever has got past the key is shut out by the merchant at the latest, and
\* a merchant that is inactive stays so.
Matched ==
    \A a \in ApiCalls : api_call[a] # NoCall =>
        LET c == api_call[a] IN
        /\ c.matched = c.key
        /\ c.key \in c.outcasts =>
               c.pc = "merchant" /\ merchants[c.key.merchant] = "inactive"

\* The inductive invariant.
IInv == TypeOK /\ Matched
=============================================================================
