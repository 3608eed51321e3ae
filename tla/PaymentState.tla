------------------------------ MODULE PaymentState ------------------------------
(***************************************************************************)
(* buildX402PaymentStateResponse (apps/indexer/src/server.ts), the answer   *)
(* to GET /api/x402/payment-state?paymentPayloadDigestSha256=...: what the  *)
(* ledger entry of a payload and the hire record it names come to for the  *)
(* buyer, through the reducer of PaidLifecycle, at any moment of PaidHire.  *)
(* The entry and the record are read together here; the code awaits in     *)
(* between.                                                                *)
(***************************************************************************)
EXTENDS PaidHire, PaidLifecycle

\* The hire record the entry names, if there is one.
RecordOf(p) ==
    LET h == ledger[p].hire
    IN  IF h # NoHire THEN hires[h] ELSE AbsentHire

HasRecord(p) == RecordOf(p).status # "absent"

\* A delivery in record r.
DeliveryIn(r) == r.status # "absent" /\ r.return = "completed"
HasBuyerDelivery(p) == DeliveryIn(RecordOf(p))

\* The worker acknowledged the request and its return has not come yet.
PostAckPending(r) ==
    /\ r.status # "absent" /\ r.relay = "acknowledged"
    /\ r.return = "none" /\ ~r.invalid

ProjectedStatus(e) ==
    IF e.pay = "settlement_failed" \/ (HasSettled(e) /\ e.pay \in FinalStatus) THEN e.pay
    ELSE IF HasSettled(e) THEN "settled"
    ELSE "execution_completed"

\* A valid delivery in the record overrides the outcome in the entry.
LatestLedger(p) ==
    LET e == ledger[p]
        r == RecordOf(p)
    IN  IF Exists(e) /\ DeliveryIn(r) /\ ~r.invalid
        THEN [e EXCEPT !.pay = ProjectedStatus(e), !.exec = "completed", !.ret = "accepted"]
        ELSE e

\* completionStatus of the entry as stored, before the override.
CompletionStatus(e) ==
    IF e.ret = "rejected" \/ e.pay = "return_rejected" THEN "return_rejected"
    ELSE IF e.exec = "failed" \/ e.pay = "execution_failed" THEN "failed"
    ELSE IF \/ e.exec = "completed"
            \/ e.pay = "execution_completed"
            \/ e.pay = "settled" /\ e.ret = "accepted"
    THEN "completed" ELSE "not_completed"

ExpiredForRetry(e) == e.err \in {"expired_for_retry", "expired_no_ledger"}
RetryRejected(e)   == ExpiredForRetry(e) \/ e.err = "retry_failed"

\* Below, e is the entry with the override and r the record it names.
ExpiredNoCharge(e, r) ==
    /\ Exists(e) /\ ~HasSettled(e) /\ e.ret # "accepted"
    /\ \/ ExpiredForRetry(e) /\ PostAckPending(r)
       \/ e.err = "expired_no_ledger"

Authorized(e) ==
    /\ e.err # "expired_no_ledger"
    /\ e.pay \in {"authorization_verified", "payment_verified", "settled",
                  "already_settled", "execution_completed"}

StoredTerminal(stored, e, r) ==
    \/ ExpiredNoCharge(e, r)
    \/ /\ ~PostAckPending(r) /\ Exists(stored)
       /\ CompletionStatus(stored) # "not_completed"

ReturnRejected(e, r) == (r.status # "absent" /\ r.invalid) \/ e.ret = "rejected"

RelayStatus(r)    == IF r.status # "absent" THEN r.relay ELSE "not_attempted"
AgentStatus(e, r) == IF r.status # "absent" THEN r.agent ELSE e.exec

FailedBeforeWorkerAck(r) == RelayStatus(r) = "failed" /\ ~r.reached

SellerHasCompleted(e, r) == DeliveryIn(r) \/ e.ret = "accepted"

SellerHasFailed(e, r) ==
    /\ ~FailedBeforeWorkerAck(r)
    /\ \/ ReturnRejected(e, r)
       \/ e.exec = "failed"
       \/ AgentStatus(e, r) \in {"failed", "worker_completed_return_rejected"}

Known(value, values) == IF value \in values THEN value ELSE "unknown"

\* What the reducer is given.
ReducerInput(p) ==
    LET e == LatestLedger(p)
        r == RecordOf(p)
        completed == SellerHasCompleted(e, r)
        failed    == SellerHasFailed(e, r)
        rejected  == ReturnRejected(e, r)
        pending   == PostAckPending(r)
    IN
    [paymentStatus |-> Known(e.pay, PaymentInputs),
     settlementStatus |->
        IF HasSettled(e) THEN "settled"
        ELSE IF e.pay = "settlement_failed" THEN "failed"
        ELSE IF Authorized(e) THEN "authorized" ELSE "not_attempted",
     relayDeliveryStatus |-> Known(RelayStatus(r), RelayInputs),
     agentExecutionStatus |-> Known(AgentStatus(e, r), AgentInputs),
     proofStatus |-> IF rejected THEN "return_rejected"
                     ELSE IF completed THEN "return_validated" ELSE "unknown",
     sellerExecutionCompleted |-> completed,
     buyerDeliveryAvailable |-> DeliveryIn(r),
     buyerComplete |-> DeliveryIn(r),
     paymentAuthorized |-> Authorized(e),
     paymentSettled |-> HasSettled(e),
     hasFailure |-> failed,
     returnRejected |-> rejected,
     platformFailure |-> /\ Authorized(e) /\ ~pending
                         /\ RelayStatus(r) = "failed" /\ ~completed /\ ~failed,
     expiredAuthorizationNoCharge |-> ExpiredNoCharge(e, r),
     safeToRetrySamePayload |-> ~StoredTerminal(ledger[p], e, r) /\ ~RetryRejected(e),
     paymentPayloadRetryRejected |-> RetryRejected(e),
     platformTimedOutAfterWorkerAck |-> pending]

\* The answer for payload p; without an entry there is nothing to answer from.
State(p) == Projection(ReducerInput(p))
Answers(p) == Exists(ledger[p])
NoCharge(p) == Answers(p) /\ State(p).protocolState \in NoChargeStates

\* settlementRecovery.canRetrySettlement of the entry as stored: a settlement that
\* failed, one the finalizer has tried, and one that accepted work waits for.
SettlementCanRetry(p) ==
    LET e == ledger[p]
    IN  \/ e.pay = "settlement_failed" \/ e.fin # "none"
        \/ e.pay \in {"authorization_verified", "payment_verified"} /\ Done(e)

\* The delivery is there, the charge is not, and the platform owes it.
SettlementCompletionRequired(p, answer) ==
    /\ answer.operatorObligation = "settle_payment"
    /\ HasBuyerDelivery(p) /\ Authorized(LatestLedger(p)) /\ ~HasSettled(LatestLedger(p))

\* Where each party stands (x402PaymentStatePartyProjection): the first test that
\* holds decides.
PlatformSettlement(p, answer) ==
    LET e == LatestLedger(p)
    IN  IF HasSettled(e) THEN "settled"
        ELSE IF SettlementCompletionRequired(p, answer) THEN "pending_platform_settlement"
        ELSE IF e.pay = "settlement_failed" THEN "retryable_failure"
        ELSE IF Authorized(e) THEN "authorized" ELSE "not_started"

BuyerPaymentAction(p, answer) ==
    IF HasSettled(LatestLedger(p)) THEN "none"
    ELSE IF answer.canRetrySamePaymentPayload THEN "retry_same_payment_payload"
    ELSE IF PlatformSettlement(p, answer) \in {"pending_platform_settlement", "retryable_failure"}
    THEN "do_not_pay_poll_or_settle_same_payload"
    ELSE IF answer.canCreateFreshPayment THEN "create_fresh_payment" ELSE "none"

SettlementOwner(p, answer) ==
    IF SettlementCompletionRequired(p, answer) THEN "platform"
    ELSE IF PlatformSettlement(p, answer) = "retryable_failure"
    THEN "platform_or_buyer_agent_with_original_payload" ELSE "none"

\* x402BuyerProtocolState: a settled payment is called delivered, delivery or not.
BuyerProtocolState(p, answer) ==
    LET state == answer.protocolState
    IN  IF HasSettled(LatestLedger(p)) THEN "BUYER_DELIVERED_SETTLED"
        ELSE IF state \in DeliveredStates THEN state
        ELSE IF answer.canCreateFreshPayment THEN "BUYER_TERMINAL_SAFE_TO_CREATE_FRESH_PAYMENT"
        ELSE IF answer.canRetrySamePaymentPayload THEN "BUYER_WAIT_OR_RETRY_SAME_PAYMENT_PAYLOAD"
        ELSE state

\* x402SettlementTelemetry: how the settlement goes on.
SettlementNextAction(p, answer) ==
    LET e == LatestLedger(p)
    IN  IF HasSettled(e) THEN "none"
        ELSE IF SettlementCompletionRequired(p, answer) THEN "poll_payment_state"
        ELSE IF SettlementCanRetry(p) THEN "retry_settlement_same_payload"
        ELSE IF Authorized(e) THEN "poll_payment_state" ELSE "none"

-----------------------------------------------------------------------------
ChargedForWork(p) == p \in charged /\ WorkDone(p, accepted)

\* DELIVERED_SETTLED is only ever answered for a payload that was charged for an
\* accepted return.
SettledStateIsTrue ==
    \A p \in Payments :
       Answers(p) /\ State(p).protocolState = "DELIVERED_SETTLED"
          => p \in charged /\ WorkDone(p, accepted)

\* A settlement the ledger knows of is never answered as a payment that ended
\* without a charge, and the buyer may pay anew only with the delivery in hand,
\* whatever a later hire with the same payload came to.
SettlementIsNotDenied ==
    \A p \in Payments : Answers(p) /\ HasSettled(ledger[p]) =>
       /\ State(p).protocolState \notin NoChargeStates
       /\ State(p).canCreateFreshPayment => State(p).hasBuyerDelivery

\* Once the handlers are through, the buyer is not sent to pay again for work that
\* has been delivered or charged, unless the state shows it as settled: whichever
\* of its hires the entry names, and whichever was late, rejected or out of reach.
\* The parts of the answer that speak of paying anew agree then, and none allows it
\* while another has the settlement of this payload still to be done.
FreshPaymentIsSafe ==
    AllQuiet /\ faults = 0 /\ crashes = 0 =>
       \A p \in Payments : Answers(p) =>
          LET answer == State(p)
          IN  /\ /\ ~HasSettled(ledger[p])
                 /\ p \in charged \/ \E h \in Hires : PaymentOf[h] = p /\ Delivered(h)
                 => ~answer.canCreateFreshPayment
              /\ BuyerProtocolState(p, answer) = "BUYER_TERMINAL_SAFE_TO_CREATE_FRESH_PAYMENT"
                    <=> BuyerPaymentAction(p, answer) = "create_fresh_payment"
              /\ answer.canCreateFreshPayment =>
                    /\ SettlementOwner(p, answer) = "none"
                    /\ SettlementNextAction(p, answer) # "retry_settlement_same_payload"

\* A new payment is only allowed once the state says how the previous attempt ended.
FreshMeansTerminal ==
    \A p \in Payments :
       Answers(p) /\ State(p).canCreateFreshPayment => State(p).terminal

\* A payment path reported as ended without a charge is never charged later.
NoChargeIsFinal ==
    \A p \in Payments : [](NoCharge(p) => [](p \notin charged))
=============================================================================
