----------------------------- MODULE ExecutionState -----------------------------
(***************************************************************************)
(* GET /api/executions/:requestId/state (apps/indexer/src/server.ts), what *)
(* the buyer polls while the work goes on: the same reducer as             *)
(* PaymentState, given what the route makes of the hire record and of the  *)
(* stored entry that names it, and the agentStatus beside it.  The route   *)
(* tells readable outputs and artifacts from a bare reference to a         *)
(* deliverable, so a delivery has a form here.  Receipts, the workspace    *)
(* and wording are left out.                                               *)
(***************************************************************************)
EXTENDS PaymentState

\* What a verified return gives the buyer; validation asks for one of them.
Forms == {"inline", "artifact", "reference"}

\* The newest entry that names hire h.
EntryOf(h) == IF ledger[PaymentOf[h]].hire = h THEN ledger[PaymentOf[h]] ELSE AbsentEntry

PendingAfterAck(h) ==
    hires[h].relay = "acknowledged" /\ hires[h].return = "none" /\ ~hires[h].invalid

ProofStatus(h) ==
    IF hires[h].invalid \/ EntryOf(h).ret = "rejected" THEN "return_rejected"
    ELSE IF Delivered(h) THEN "return_validated" ELSE "unknown"

\* A reference alone is neither a readable output nor an artifact to this route.
DeliveryAt(h, form) == Delivered(h) /\ form \in {"inline", "artifact"}

ReturnVerified(h) ==
    /\ hires[h].agent \in {"completed", "worker_completed_return_rejected"}
    /\ ProofStatus(h) = "return_validated"

PaidAt(h) ==
    IF HasSettled(EntryOf(h)) \/ hires[h].pay = "settled" THEN "settled" ELSE "authorized"

SettlementAt(h) ==
    IF HasSettled(EntryOf(h)) THEN "settled"
    ELSE IF EntryOf(h).pay = "settlement_failed" THEN "failed"
    ELSE hires[h].pay

\* Mutant: an expired payload is free again whatever became of the hire.
ExpiredAtAnyway(h) == EntryOf(h).err = "expired_for_retry"

\* The authorization ran out while the worker held the hire, uncharged.
ExpiredAt(h) ==
    /\ EntryOf(h).err = "expired_for_retry" /\ PendingAfterAck(h)
    /\ ~HasSettled(EntryOf(h)) /\ EntryOf(h).ret # "accepted"

\* A failed delivery that the verified return has overtaken.
StaleFailure(h) ==
    /\ ReturnVerified(h) /\ ~hires[h].invalid
    /\ hires[h].relay # "return_rejected"
    /\ hires[h].agent # "worker_completed_return_rejected"

SellerFailedAt(h) ==
    \/ ProofStatus(h) = "return_rejected"
    \/ hires[h].agent \in {"failed", "worker_completed_return_rejected"}
    \/ hires[h].invalid

\* Every error of the record or the entry that nothing has overtaken.
HasFailure(h) ==
    \/ SellerFailedAt(h)
    \/ ~ReturnVerified(h) /\ SettlementAt(h) = "failed"
    \/ ~PendingAfterAck(h) /\ hires[h].relay = "failed" /\ ~StaleFailure(h)
    \/ hires[h].relay = "return_rejected"
    \/ ~PendingAfterAck(h) /\ EntryOf(h).err # "none" /\ ~StaleFailure(h)

\* What the reducer is given.
ExecutionInput(h, form) ==
    LET e == EntryOf(h)
        r == hires[h]
        proof    == ProofStatus(h)
        verified == ReturnVerified(h)
        pending  == PendingAfterAck(h)
        ranOut   == ExpiredAt(h)
    IN
    [paymentStatus |-> Known(IF Exists(e) THEN e.pay ELSE PaidAt(h), PaymentInputs),
     settlementStatus |-> SettlementAt(h),
     relayDeliveryStatus |-> Known(r.relay, RelayInputs),
     agentExecutionStatus |-> Known(r.agent, AgentInputs),
     proofStatus |-> proof,
     sellerExecutionCompleted |-> verified,
     buyerDeliveryAvailable |-> DeliveryAt(h, form),
     buyerComplete |-> verified /\ DeliveryAt(h, form),
     paymentAuthorized |-> TRUE,
     paymentSettled |-> PaidAt(h) = "settled",
     hasFailure |-> SellerFailedAt(h),
     returnRejected |-> proof = "return_rejected",
     platformFailure |-> /\ ~pending /\ r.relay = "failed"
                         /\ ~verified /\ proof # "return_rejected"
                         /\ r.agent \notin {"failed", "worker_completed_return_rejected"},
     expiredAuthorizationNoCharge |-> ranOut,
     safeToRetrySamePayload |-> Exists(e) /\ ~HasFailure(h) /\ ~ranOut /\ ~RetryRejected(e),
     paymentPayloadRetryRejected |-> RetryRejected(e),
     platformTimedOutAfterWorkerAck |-> pending]

\* The route answers for a hire that has a record, with the reducer's state and an
\* advice of its own: agentStatus.safeToCreateNewPayment.
ExecutionAnswers(h) == hires[h].status # "absent"
ExecutionAnswer(h, form) == ProtocolState(ExecutionInput(h, form))
MayPayAnew(h) == ExpiredAt(h)

\* Asked by the id of the payment while the entry names no hire record.
PendingInput(p) ==
    LET e == ledger[p] IN
    [paymentStatus |-> Known(e.pay, PaymentInputs),
     settlementStatus |-> "not_attempted",
     relayDeliveryStatus |-> "unknown",
     agentExecutionStatus |-> Known(e.exec, AgentInputs),
     proofStatus |-> "unknown",
     sellerExecutionCompleted |-> e.ret = "accepted",
     buyerDeliveryAvailable |-> FALSE,
     buyerComplete |-> FALSE,
     paymentAuthorized |->
        e.pay \in {"authorization_verified", "payment_verified", "settled",
                   "already_settled", "execution_completed"},
     paymentSettled |-> HasSettled(e),
     hasFailure |-> e.exec = "failed" \/ e.ret = "rejected",
     returnRejected |-> e.ret = "rejected",
     platformFailure |-> TRUE,
     expiredAuthorizationNoCharge |-> FALSE,
     safeToRetrySamePayload |-> ~RetryRejected(e),
     paymentPayloadRetryRejected |-> RetryRejected(e),
     platformTimedOutAfterWorkerAck |-> FALSE]

PendingAnswers(p) == Exists(ledger[p]) /\ ~HasRecord(p)
PendingAnswer(p) == ProtocolState(PendingInput(p))

-----------------------------------------------------------------------------
\* What the route says is never better than the truth: settled is only said of a
\* delivery that was charged; its own advice to pay anew is only given where the
\* payment state gives it too, and once the handlers are through only where nothing
\* was charged; and a payment without a record is only called free of charge while
\* it is.
ExecutionStateIsTrue ==
    /\ \A h \in Hires : ExecutionAnswers(h) /\ ~ChargedForWork(PaymentOf[h]) =>
          \A form \in Forms : ExecutionAnswer(h, form) # "DELIVERED_SETTLED"
    /\ \A h \in Hires : ExecutionAnswers(h) /\ MayPayAnew(h) =>
          /\ State(PaymentOf[h]).canCreateFreshPayment
          /\ AllQuiet /\ faults = 0 /\ crashes = 0 => PaymentOf[h] \notin charged
    /\ \A p \in Payments :
          PendingAnswers(p) /\ p \in charged =>
             PendingAnswer(p) \notin NoChargeStates
=============================================================================
