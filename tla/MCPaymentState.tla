---------------------------- MODULE MCPaymentState ----------------------------
(* Instances of PaymentState, ExecutionState and Buyer for TLC: those of PaidHire. *)
EXTENDS Buyer, MCPaidHire

SilentOutcomes == {"noReturn"}
LostOutcomes   == {"relayFailed"}

\* Bound: once a record has lapsed, one of two calls has not begun, or is over and the
\* payload has not expired.
LapsedForOneCall ==
    lapsed # {} =>
        \E h \in Hires : \/ submit[h].pc = "idle"
                         \/ submit[h].pc = "end" /\ expired = {}
=============================================================================
