----------------------------- MODULE PaidLifecycle -----------------------------
(***************************************************************************)
(* reduceSantaClawzPaidLifecycle (packages/protocol/src/hire/lifecycle.ts): *)
(* from what the stores say of a paid hire to the one answer every party   *)
(* reads: the protocol state, whether it is terminal, what the buyer, the  *)
(* seller and the operator have to do, and whether the buyer may pay anew, *)
(* retry the payload or has to wait.  Reputation and wording are left out. *)
(***************************************************************************)

\* Statuses reach the reducer as strings; "unknown" stands for a missing one and
\* for all those it does not test for.
PaymentInputs    == {"settled", "already_settled", "settlement_failed",
                     "authorization_verified", "payment_verified",
                     "execution_completed", "unknown"}
SettlementInputs == {"settled", "failed", "authorized", "not_attempted"}
RelayInputs      == {"failed", "return_rejected", "unknown"}
AgentInputs      == {"completed", "failed", "worker_completed_return_rejected", "unknown"}
ProofInputs      == {"return_validated", "return_rejected", "unknown"}

Inputs ==
    [paymentStatus : PaymentInputs,
     settlementStatus : SettlementInputs,
     relayDeliveryStatus : RelayInputs,
     agentExecutionStatus : AgentInputs,
     proofStatus : ProofInputs,
     sellerExecutionCompleted : BOOLEAN,
     buyerDeliveryAvailable : BOOLEAN,
     buyerComplete : BOOLEAN,
     paymentAuthorized : BOOLEAN,
     paymentSettled : BOOLEAN,
     hasFailure : BOOLEAN,
     returnRejected : BOOLEAN,
     platformFailure : BOOLEAN,
     expiredAuthorizationNoCharge : BOOLEAN,
     safeToRetrySamePayload : BOOLEAN,
     paymentPayloadRetryRejected : BOOLEAN,
     platformTimedOutAfterWorkerAck : BOOLEAN]

PaymentSettled(i) ==
    \/ i.paymentSettled
    \/ i.paymentStatus \in {"settled", "already_settled"}
    \/ i.settlementStatus = "settled"

PaymentAuthorized(i) ==
    \/ i.paymentAuthorized
    \/ PaymentSettled(i)
    \/ i.paymentStatus \in {"authorization_verified", "payment_verified",
                            "execution_completed", "settlement_failed"}
    \/ i.settlementStatus = "authorized"

SettlementFailed(i) ==
    i.paymentStatus = "settlement_failed" \/ i.settlementStatus = "failed"

SellerFailure(i) ==
    \/ i.hasFailure
    \/ i.returnRejected
    \/ i.proofStatus = "return_rejected"
    \/ i.relayDeliveryStatus = "return_rejected"
    \/ i.agentExecutionStatus \in {"failed", "worker_completed_return_rejected"}

PlatformFailure(i) ==
    \/ i.platformFailure
    \/ /\ i.relayDeliveryStatus = "failed"
       /\ ~i.platformTimedOutAfterWorkerAck
       /\ ~SellerFailure(i)

DeliveryAvailable(i) == i.buyerDeliveryAvailable \/ i.buyerComplete

SellerCompleted(i) ==
    \/ i.sellerExecutionCompleted
    \/ i.buyerComplete
    \/ i.agentExecutionStatus = "completed" /\ i.proofStatus = "return_validated"

CanRetry(i) ==
    /\ i.safeToRetrySamePayload
    /\ ~i.paymentPayloadRetryRejected
    /\ ~i.expiredAuthorizationNoCharge

\* Mutant: a failed return is reported as not settled without asking whether it was.
ProtocolStateIgnoresSettlement(i) ==
    IF i.expiredAuthorizationNoCharge THEN "EXPIRED_NO_CHARGE"
    ELSE IF SellerFailure(i) THEN "SELLER_FAILED_NO_SETTLEMENT"
    ELSE IF DeliveryAvailable(i) /\ PaymentSettled(i) THEN "DELIVERED_SETTLED"
    ELSE "AUTHORIZED_WAITING_FOR_DELIVERY"

\* Mutant: a delivery counts as settled.
ProtocolStateTrustsDelivery(i) ==
    IF i.expiredAuthorizationNoCharge THEN "EXPIRED_NO_CHARGE"
    ELSE IF DeliveryAvailable(i) THEN "DELIVERED_SETTLED"
    ELSE IF SellerFailure(i) THEN "SELLER_FAILED_NO_SETTLEMENT"
    ELSE "AUTHORIZED_WAITING_FOR_DELIVERY"

\* The first test that holds decides.
ProtocolState(i) ==
    IF i.expiredAuthorizationNoCharge THEN "EXPIRED_NO_CHARGE"
    ELSE IF DeliveryAvailable(i) /\ PaymentSettled(i) THEN "DELIVERED_SETTLED"
    ELSE IF DeliveryAvailable(i) /\ SellerCompleted(i) /\ SettlementFailed(i)
         THEN "DELIVERED_SETTLEMENT_FAILED_REQUIRES_RECONCILIATION"
    ELSE IF DeliveryAvailable(i) /\ SellerCompleted(i)
         THEN "DELIVERED_AWAITING_SETTLEMENT"
    ELSE IF SellerCompleted(i) THEN "PLATFORM_FAILED_RECONCILE"
    ELSE IF SellerFailure(i) /\ ~PaymentSettled(i) THEN "SELLER_FAILED_NO_SETTLEMENT"
    ELSE IF SellerFailure(i) THEN "PLATFORM_FAILED_RECONCILE"
    ELSE IF PlatformFailure(i) /\ ~PaymentSettled(i) /\ ~SettlementFailed(i)
         THEN "PLATFORM_FAILED_NO_SETTLEMENT"
    ELSE IF PlatformFailure(i) THEN "PLATFORM_FAILED_RECONCILE"
    ELSE IF PaymentAuthorized(i) THEN "AUTHORIZED_WAITING_FOR_DELIVERY"
    ELSE "AWAITING_PAYMENT"

NoChargeStates ==
    {"EXPIRED_NO_CHARGE", "SELLER_FAILED_NO_SETTLEMENT", "PLATFORM_FAILED_NO_SETTLEMENT"}

TerminalStates == NoChargeStates \union {"DELIVERED_SETTLED"}
DeliveredStates ==
    {"DELIVERED_SETTLED", "DELIVERED_AWAITING_SETTLEMENT",
     "DELIVERED_SETTLEMENT_FAILED_REQUIRES_RECONCILIATION"}

\* The answers of one protocol state: the buyer's next action and options, and
\* what the platform owes.
Projection(i) ==
    LET state == ProtocolState(i)
        waits == state = "AUTHORIZED_WAITING_FOR_DELIVERY"
    IN  [protocolState |-> state,
         terminal |-> state \in TerminalStates,
         canCreateFreshPayment |-> state \in TerminalStates \union {"AWAITING_PAYMENT"},
         canRetrySamePaymentPayload |-> waits /\ CanRetry(i),
         shouldWait |-> waits /\ ~CanRetry(i),
         hasBuyerDelivery |-> state \in DeliveredStates,
         buyerAction |->
            CASE state \in DeliveredStates -> "view_delivery"
              [] state \in NoChargeStates -> "create_fresh_payment"
              [] state = "PLATFORM_FAILED_RECONCILE" -> "stop_and_contact_operator"
              [] waits /\ CanRetry(i) -> "retry_same_payment_payload"
              [] waits /\ ~CanRetry(i) -> "poll_or_wait"
              [] state = "AWAITING_PAYMENT" -> "submit_payment",
         operatorObligation |->
            CASE state = "DELIVERED_AWAITING_SETTLEMENT" -> "settle_payment"
              [] state = "DELIVERED_SETTLEMENT_FAILED_REQUIRES_RECONCILIATION"
                    -> "reconcile_platform_state"
              [] state = "PLATFORM_FAILED_RECONCILE" ->
                    IF SellerCompleted(i) THEN "persist_buyer_delivery"
                    ELSE IF SellerFailure(i) THEN "refund_or_clear_payment"
                    ELSE "reconcile_platform_state"
              [] waits /\ i.platformTimedOutAfterWorkerAck -> "reconcile_platform_state"
              [] OTHER -> "none"]
=============================================================================
