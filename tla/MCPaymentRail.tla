---------------------------- MODULE MCPaymentRail ----------------------------
(* An instance of PaymentRail for TLC. *)
EXTENDS PaymentRail

CONSTANT w1

\* One seller with two prices, below and above what the buyer will spend.
TwoPrices ==
    {[mode |-> "fixed", price |-> price, wallet |-> w1, facilitator |-> "hosted", active |-> TRUE] :
        price \in {2001, 400000}}
=============================================================================
