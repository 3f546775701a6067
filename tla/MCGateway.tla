----------------------------- MODULE MCGateway -----------------------------
(***************************************************************************)
(* Instances of Gateway for TLC.  A run is a choice of the requests the    *)
(* clients may send; those with the same idem are resends, and one more of *)
(* a kind than a race needs is never included.                             *)
(***************************************************************************)
EXTENDS Gateway

Req(op, intent, idem, amount, n) ==
    [op |-> op, intent |-> intent, idem |-> idem, amount |-> amount, n |-> n]

None == {}
OneIntent == {"pi1"}
ForeignIntent == {"pi2"}
BothIntents == OneIntent \union ForeignIntent
OneViewer == {"v1"}

Delivery(intent, type, n) == [intent |-> intent, type |-> type, n |-> n]

SucceededOnce == {Delivery("pi1", "succeeded", 1)}
SucceededTwice == {Delivery("pi1", "succeeded", n) : n \in 1..2}
OwnEvents == SucceededTwice \union {Delivery("pi1", "canceled", 1)}
ForeignToo == SucceededOnce \union {Delivery("pi2", "succeeded", 1)}

\* Every operation racing: creates with one key and two amounts, confirms,
\* cancels with one key, refunds with two keys.
Races == {Req("create", "pi1", 0, 2, 1), Req("create", "pi1", 0, 1, 2),
          Req("confirm", "pi1", 1, 0, 1),
          Req("cancel", "pi1", 3, 0, 1), Req("cancel", "pi1", 3, 0, 2),
          Req("refund", "pi1", 4, 1, 1), Req("refund", "pi1", 5, 0, 1)}

\* Session creates racing with one another, with a plain create that has their
\* key, and with a cancel, but no confirm.
SessionRaces == {Req("create_session", "pi1", 0, 1, n) : n \in 1..2} \union
                {Req("create", "pi1", 0, 1, 1), Req("cancel", "pi1", 1, 0, 1)}

\* A merchant that resends what it got no answer for, one call at a time.
Retries == {Req("create_session", "pi1", 0, 2, 1), Req("create_session", "pi1", 0, 2, 2),
            Req("cancel", "pi1", 1, 0, 1), Req("cancel", "pi1", 1, 0, 2),
            Req("refund", "pi1", 2, 1, 1), Req("refund", "pi1", 2, 1, 2)}

\* The smallest requests that show each disagreement with the documentation.
Created1 == {Req("create", "pi1", 0, 1, 1)}
Confirmed == Created1 \union {Req("confirm", "pi1", 1, 0, 1)}
ResentRefund == {Req("create", "pi1", 0, 2, 1), Req("refund", "pi1", 1, 1, 1),
                 Req("refund", "pi1", 1, 1, 2)}
TwoRefunds == {Req("create", "pi1", 0, 2, 1), Req("refund", "pi1", 1, 1, 1),
               Req("refund", "pi1", 2, 1, 1)}
OneSession == {Req("create_session", "pi1", 0, 1, 1)}
TwoSessions == {Req("create_session", "pi1", 0, 1, n) : n \in 1..2}
=============================================================================
