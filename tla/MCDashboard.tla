---------------------------- MODULE MCDashboard ----------------------------
(***************************************************************************)
(* Instances of Dashboard for TLC.  For the list: two payments of one      *)
(* merchant, so that one can be created before or behind the other while   *)
(* it is read, and one of another merchant.  For a payment's page: one     *)
(* payment, and handlers that race over it.  Adjustments have one or two   *)
(* legs, and most of them are refused.                                     *)
(***************************************************************************)
EXTENDS Dashboard

Payment(merchant, currency, n) == [merchant |-> merchant, currency |-> currency, n |-> n]

Payments == {Payment("ann", "usd", 1), Payment("ann", "eur", 2), Payment("bob", "usd", 3)}

OnePayment == {Payment("ann", "usd", 1)}

NoFilters == {}

AnyLeg(account) == {Leg(account, d, n) : d \in Directions, n \in 0..1}

OneToTwoLegs == {<<leg>> : leg \in AnyLeg("customer")} \union
    {<<leg, other>> : leg \in AnyLeg("payments_captured"), other \in AnyLeg("customer")}

UsdAdjustments == {[legs |-> legs, currency |-> "usd"] : legs \in OneToTwoLegs}

Filter(status, currency) == [status |-> status, currency |-> currency]

ThreeFilters == {Filter("any", "any"), Filter("requires_payment_method", "any"), Filter("any", "usd")}
=============================================================================
