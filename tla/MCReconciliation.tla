-------------------------- MODULE MCReconciliation --------------------------
(***************************************************************************)
(* An instance of Reconciliation for TLC.                                  *)
(***************************************************************************)
EXTENDS Reconciliation

Req(op, idem, amount) == [op |-> op, intent |-> "pi1", idem |-> idem, amount |-> amount, n |-> 1]

None == {}
ForeignIntent == {"pi2"}
BothIntents == {"pi1"} \union ForeignIntent
SucceededOnce == {[intent |-> "pi1", type |-> "succeeded", n |-> 1]}

\* A payment by confirm or by the customer, and two refunds that may race.
Refunded == {Req("create", 0, 2), Req("confirm", 1, 0),
             Req("refund", 2, 1), Req("refund", 3, 1)}
=============================================================================
