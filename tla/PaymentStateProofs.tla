--------------------------- MODULE PaymentStateProofs ---------------------------
(***************************************************************************)
(* What the payment-state answer, the execution state and the buyer's      *)
(* script say: for every input of the reducer, and in every reachable      *)
(* state of PaidHire, in those without overlapping saves where that is     *)
(* assumed.                                                                *)
(***************************************************************************)
EXTENDS Buyer, PaidHireProofs

\* Whatever the inputs, and they may contradict each other: no answer combines
\* options that exclude one another, an answer that ends the payment path leaves
\* nothing to wait for or to retry, and a settled payment is never reported as
\* not charged, nor a new one allowed before its delivery, except by the expiry
\* test, which the caller makes only for a payment that is not settled.
THEOREM AnswersAreConsistent ==
  ASSUME NEW i \in Inputs
  PROVE  LET a == Projection(i) IN
         /\ a.terminal => a.canCreateFreshPayment /\ a.operatorObligation = "none"
         /\ a.canCreateFreshPayment => ~a.canRetrySamePaymentPayload /\ ~a.shouldWait
         /\ ~(a.canRetrySamePaymentPayload /\ a.shouldWait)
         /\ a.canRetrySamePaymentPayload => PaymentAuthorized(i) /\ CanRetry(i)
         /\ a.hasBuyerDelivery => DeliveryAvailable(i)
         /\ PaymentSettled(i) /\ ~i.expiredAuthorizationNoCharge =>
               /\ a.protocolState \notin NoChargeStates
               /\ a.canCreateFreshPayment => a.hasBuyerDelivery
<1> DEFINE a == Projection(i)
           state == ProtocolState(i)
           waits == state = "AUTHORIZED_WAITING_FOR_DELIVERY"
<1>1. /\ a.protocolState = state
      /\ a.terminal = (state \in TerminalStates)
      /\ a.canCreateFreshPayment = (state \in TerminalStates \union {"AWAITING_PAYMENT"})
      /\ a.canRetrySamePaymentPayload = (waits /\ CanRetry(i))
      /\ a.shouldWait = (waits /\ ~CanRetry(i))
      /\ a.hasBuyerDelivery = (state \in DeliveredStates)
  BY DEF Projection
<1>2. state \in TerminalStates => a.operatorObligation = "none"
  BY DEF Projection, TerminalStates, NoChargeStates
<1>3. waits => PaymentAuthorized(i)
  BY DEF ProtocolState
<1>4. state \in DeliveredStates => DeliveryAvailable(i)
  BY DEF ProtocolState, DeliveredStates
<1>5. PaymentSettled(i) => PaymentAuthorized(i)
  BY DEF PaymentAuthorized
<1>6. PaymentSettled(i) /\ ~i.expiredAuthorizationNoCharge =>
         state \notin NoChargeStates \union {"AWAITING_PAYMENT"}
  BY <1>5 DEF ProtocolState, NoChargeStates
<1>7. ~waits \/ state \notin TerminalStates \union {"AWAITING_PAYMENT"}
  BY DEF TerminalStates, NoChargeStates
<1>8. TerminalStates \subseteq NoChargeStates \union DeliveredStates
  BY DEF TerminalStates, DeliveredStates
<1> HIDE DEF a, state, waits
<1>9. /\ a.terminal => a.canCreateFreshPayment /\ a.operatorObligation = "none"
      /\ a.canCreateFreshPayment => ~a.canRetrySamePaymentPayload /\ ~a.shouldWait
      /\ ~(a.canRetrySamePaymentPayload /\ a.shouldWait)
      /\ a.canRetrySamePaymentPayload => PaymentAuthorized(i) /\ CanRetry(i)
      /\ a.hasBuyerDelivery => DeliveryAvailable(i)
      /\ PaymentSettled(i) /\ ~i.expiredAuthorizationNoCharge =>
            /\ a.protocolState \notin NoChargeStates
            /\ a.canCreateFreshPayment => a.hasBuyerDelivery
  BY <1>1, <1>2, <1>3, <1>4, <1>6, <1>7, <1>8
<1> QED
  BY <1>9 DEF a

\* The override by a delivered record makes no unsettled entry a settled one, and
\* no settled one unsettled.
LEMMA LatestLedgerSettled ==
  ASSUME NEW p \in Payments, ledger[p] \in Entries
  PROVE  HasSettled(LatestLedger(p)) <=> HasSettled(ledger[p])
<1> DEFINE e == ledger[p]
<1>1. CASE LatestLedger(p) = e
  BY <1>1
<1>2. CASE LatestLedger(p) # e
  <2>1. LatestLedger(p) =
           [e EXCEPT !.pay = ProjectedStatus(e), !.exec = "completed", !.ret = "accepted"]
    BY <1>2 DEF LatestLedger
  <2>2. LatestLedger(p).pay = ProjectedStatus(e) /\ LatestLedger(p).hashes = e.hashes
    BY <2>1 DEF Entries
  <2>3. ProjectedStatus(e) \in {"settled", "already_settled"} => HasSettled(e)
    BY DEF ProjectedStatus
  <2>4. e.pay \in {"settled", "already_settled"} => ProjectedStatus(e) = e.pay
    BY DEF ProjectedStatus, HasSettled, FinalStatus
  <2> QED
    BY <2>2, <2>3, <2>4 DEF HasSettled
<1> QED
  BY <1>1, <1>2

\* What the reducer is told of the settlement is what the entry says.
LEMMA InputSettled ==
  ASSUME NEW p \in Payments, PaymentSettled(ReducerInput(p))
  PROVE  HasSettled(LatestLedger(p))
<1> DEFINE e == LatestLedger(p)
           i == ReducerInput(p)
<1>1. /\ i.paymentSettled = HasSettled(e)
      /\ i.paymentStatus = Known(e.pay, PaymentInputs)
      /\ i.settlementStatus = (IF HasSettled(e) THEN "settled"
                               ELSE IF e.pay = "settlement_failed" THEN "failed"
                               ELSE IF Authorized(e) THEN "authorized" ELSE "not_attempted")
  BY DEF ReducerInput
<1>2. Known(e.pay, PaymentInputs) \in {"settled", "already_settled"} => HasSettled(e)
  BY DEF Known, HasSettled
<1> HIDE DEF i
<1>3. PaymentSettled(i)
  BY DEF i
<1>4. CASE i.paymentSettled
  BY <1>1, <1>4
<1>5. CASE i.paymentStatus \in {"settled", "already_settled"}
  BY <1>1, <1>2, <1>5
<1>6. CASE i.settlementStatus = "settled"
  BY <1>1, <1>6
<1> QED
  BY <1>3, <1>4, <1>5, <1>6 DEF PaymentSettled

\* In every reachable state what the reducer is given is one of its inputs.
LEMMA InputsAreTyped ==
  ASSUME NEW p \in Payments
  PROVE  ReducerInput(p) \in Inputs
<1>1. /\ \A v : /\ Known(v, PaymentInputs) \in PaymentInputs
             /\ Known(v, RelayInputs) \in RelayInputs
             /\ Known(v, AgentInputs) \in AgentInputs
  BY DEF Known, PaymentInputs, RelayInputs, AgentInputs
<1>2. \A e : HasSettled(e) \in BOOLEAN /\ Authorized(e) \in BOOLEAN
             /\ RetryRejected(e) \in BOOLEAN
  BY DEF HasSettled, Authorized, RetryRejected
<1>3. \A e, r : /\ SellerHasCompleted(e, r) \in BOOLEAN /\ SellerHasFailed(e, r) \in BOOLEAN
                /\ ReturnRejected(e, r) \in BOOLEAN /\ DeliveryIn(r) \in BOOLEAN
                /\ ExpiredNoCharge(e, r) \in BOOLEAN /\ PostAckPending(r) \in BOOLEAN
  BY DEF SellerHasCompleted, SellerHasFailed, ReturnRejected, DeliveryIn, ExpiredNoCharge,
         PostAckPending
<1> DEFINE i == ReducerInput(p)
<1>4. /\ i.paymentStatus \in PaymentInputs
      /\ i.settlementStatus \in SettlementInputs
      /\ i.relayDeliveryStatus \in RelayInputs
      /\ i.agentExecutionStatus \in AgentInputs
      /\ i.proofStatus \in ProofInputs
  BY <1>1 DEF ReducerInput, SettlementInputs, ProofInputs
<1> QED
  BY <1>2, <1>3, <1>4 DEF ReducerInput, Inputs

LEMMA SettledStateIsBacked ==
  ASSUME TypeOK, Provenance
  PROVE  SettledStateIsTrue
<1> SUFFICES ASSUME NEW p \in Payments, Answers(p),
                    State(p).protocolState = "DELIVERED_SETTLED"
             PROVE  p \in charged /\ WorkDone(p, accepted)
  BY DEF SettledStateIsTrue
<1>1. ProtocolState(ReducerInput(p)) = "DELIVERED_SETTLED"
  BY DEF State, Projection
<1>2. PaymentSettled(ReducerInput(p))
  BY <1>1 DEF ProtocolState
<1>3. ledger[p] \in Entries
  BY DEF TypeOK, FilesType, LedgerFiles
<1>4. HasSettled(ledger[p])
  BY <1>2, <1>3, InputSettled, LatestLedgerSettled
<1>5. EntryBacked(p, ledger[p], accepted, charged)
  BY DEF Provenance, FilesBacked
<1>6. p \in charged
  BY <1>4, <1>5 DEF HasSettled, EntryBacked, FinalStatus
<1> QED
  BY <1>6 DEF Provenance, ChargeNeedsDelivery, WorkDone

\* In every reachable state, whatever overlaps or fails, the answer "delivered and
\* settled" is given only for a payload that was charged for an accepted return.
THEOREM SettledStateHolds == Spec => []SettledStateIsTrue
<1>1. Spec => []TypeOK
  BY TypeCorrect
<1>2. Spec => []Provenance
  BY EverythingIsBacked
<1>3. TypeOK /\ Provenance => SettledStateIsTrue
  BY SettledStateIsBacked
<1> QED
  BY <1>1, <1>2, <1>3, PTL

LEMMA SettlementIsAnswered ==
  ASSUME TypeOK
  PROVE  SettlementIsNotDenied
<1> SUFFICES ASSUME NEW p \in Payments, Answers(p), HasSettled(ledger[p])
             PROVE  /\ State(p).protocolState \notin NoChargeStates
                    /\ State(p).canCreateFreshPayment => State(p).hasBuyerDelivery
  BY DEF SettlementIsNotDenied
<1> DEFINE i == ReducerInput(p)
<1>1. HasSettled(LatestLedger(p))
  BY LatestLedgerSettled DEF TypeOK, FilesType, LedgerFiles
<1>2. i.paymentSettled = HasSettled(LatestLedger(p))
  BY DEF ReducerInput
<1>3. i.expiredAuthorizationNoCharge = ExpiredNoCharge(LatestLedger(p), RecordOf(p))
  BY DEF ReducerInput
<1>4. ~ExpiredNoCharge(LatestLedger(p), RecordOf(p))
  BY <1>1 DEF ExpiredNoCharge
<1>5. i \in Inputs
  BY InputsAreTyped
<1>6. State(p) = Projection(i)
  BY DEF State
<1> HIDE DEF i
<1>7. PaymentSettled(i) /\ ~i.expiredAuthorizationNoCharge
  BY <1>1, <1>2, <1>3, <1>4 DEF PaymentSettled
<1> QED
  BY <1>5, <1>6, <1>7, AnswersAreConsistent

\* In every reachable state a settlement on record is answered as such, and the
\* buyer is not sent to pay again before the delivery is there.
THEOREM SettlementHolds == Spec => []SettlementIsNotDenied
<1>1. Spec => []TypeOK
  BY TypeCorrect
<1> QED
  BY <1>1, SettlementIsAnswered, PTL

-----------------------------------------------------------------------------
(* Once the handlers are through, an entry either says that the work is    *)
(* done, or nothing has been delivered, charged or tried for its payload:  *)
(* that is what the answers given then rest on.                            *)

QuietAndUndisturbed == AllQuiet /\ Undisturbed

LEMMA BoughtIsDone ==
  ASSUME Inv, KeptInv, QuietAndUndisturbed, NEW p \in Payments,
         \/ p \in charged
         \/ Tried(ledger[p])
         \/ \E h \in Hires : PaymentOf[h] = p /\ Delivered(h)
  PROVE  Done(ledger[p])
<1>1. PICK h \in accepted : PaymentOf[h] = p
  BY DEF Inv, Provenance, FilesBacked, EntryBacked, HireBacked, ChargeNeedsDelivery, WorkDone,
         Delivered
<1>2. h \in Hires
  BY DEF Inv, TypeOK
<1> QED
  BY <1>1, <1>2, AcceptedIsInLedger DEF QuietAndUndisturbed

\* Work that is done is answered as done, and as settled only if it has been.
LEMMA DoneIsAnswered ==
  ASSUME NEW p \in Payments, ledger[p] \in Entries, Done(ledger[p])
  PROVE  /\ ProtocolState(ReducerInput(p))
               \in DeliveredStates \union {"PLATFORM_FAILED_RECONCILE"}
         /\ ProtocolState(ReducerInput(p)) = "DELIVERED_SETTLED"
               => HasSettled(LatestLedger(p))
<1> DEFINE e == LatestLedger(p)
           r == RecordOf(p)
           i == ReducerInput(p)
<1>1. e.ret = "accepted"
  BY DEF LatestLedger, Done, Entries
<1>2. /\ i.sellerExecutionCompleted = SellerHasCompleted(e, r)
      /\ i.expiredAuthorizationNoCharge = ExpiredNoCharge(e, r)
  BY DEF ReducerInput
<1> HIDE DEF i
<1>3. SellerCompleted(i) /\ ~i.expiredAuthorizationNoCharge
  BY <1>1, <1>2 DEF SellerHasCompleted, ExpiredNoCharge, SellerCompleted
<1>4. /\ ProtocolState(i) \in DeliveredStates \union {"PLATFORM_FAILED_RECONCILE"}
      /\ ProtocolState(i) = "DELIVERED_SETTLED" => PaymentSettled(i)
  BY <1>3 DEF ProtocolState, DeliveredStates
<1> QED
  BY <1>4, InputSettled DEF i

\* Before the work is done there is nothing to override, to settle or to deliver.
LEMMA NothingYet ==
  ASSUME Inv, KeptInv, QuietAndUndisturbed, NEW p \in Payments, ~Done(ledger[p])
  PROVE  /\ p \notin charged /\ ~Tried(ledger[p])
         /\ ~HasBuyerDelivery(p)
         /\ LatestLedger(p) = ledger[p]
         /\ ~HasSettled(ledger[p])
<1>1. p \notin charged /\ ~Tried(ledger[p])
  BY BoughtIsDone
<1>2. ~HasBuyerDelivery(p)
  <2> SUFFICES ASSUME HasBuyerDelivery(p) PROVE FALSE
    OBVIOUS
  <2> DEFINE h == ledger[p].hire
  <2>1. h # NoHire /\ Delivered(h)
    BY DEF HasBuyerDelivery, DeliveryIn, RecordOf, AbsentHire, Delivered
  <2>2. h \in Hires /\ PaymentOf[h] = p
    BY <2>1 DEF Inv, TypeOK, FilesType, LedgerFiles, Entries, Provenance, FilesBacked,
                EntryBacked
  <2> QED
    BY <2>1, <2>2, BoughtIsDone
<1>3. LatestLedger(p) = ledger[p]
  BY <1>2 DEF LatestLedger, HasBuyerDelivery
<1>4. ~HasSettled(ledger[p])
  BY <1>1 DEF Inv, Provenance, FilesBacked, EntryBacked, HasSettled, FinalStatus
<1> QED
  BY <1>1, <1>2, <1>3, <1>4

\* The answers of one payload that FreshPaymentIsSafe is about.
FreshIsSafeFor(p) ==
    LET answer == State(p)
    IN  /\ /\ ~HasSettled(ledger[p])
           /\ p \in charged \/ \E h \in Hires : PaymentOf[h] = p /\ Delivered(h)
           => ~answer.canCreateFreshPayment
        /\ BuyerProtocolState(p, answer) = "BUYER_TERMINAL_SAFE_TO_CREATE_FRESH_PAYMENT"
              <=> BuyerPaymentAction(p, answer) = "create_fresh_payment"
        /\ answer.canCreateFreshPayment =>
              /\ SettlementOwner(p, answer) = "none"
              /\ SettlementNextAction(p, answer) # "retry_settlement_same_payload"

\* The fields of an answer that the parties' parts of it are made from.
LEMMA AnswerFields ==
  ASSUME NEW p \in Payments
  PROVE  LET a == State(p)
             state == ProtocolState(ReducerInput(p))
         IN  /\ a.protocolState = state
             /\ a.terminal = (state \in TerminalStates)
             /\ a.canCreateFreshPayment = (state \in TerminalStates \union {"AWAITING_PAYMENT"})
             /\ a.canRetrySamePaymentPayload =
                   (state = "AUTHORIZED_WAITING_FOR_DELIVERY" /\ CanRetry(ReducerInput(p)))
             /\ a.hasBuyerDelivery = (state \in DeliveredStates)
             /\ state \in DeliveredStates => a.buyerAction = "view_delivery"
             /\ a.canCreateFreshPayment => ~a.canRetrySamePaymentPayload
<1> DEFINE i == ReducerInput(p)
           state == ProtocolState(i)
<1>1. State(p) = Projection(i)
  BY DEF State
<1> HIDE DEF i
<1>2. /\ Projection(i).protocolState = state
      /\ Projection(i).terminal = (state \in TerminalStates)
      /\ Projection(i).canCreateFreshPayment =
            (state \in TerminalStates \union {"AWAITING_PAYMENT"})
      /\ Projection(i).canRetrySamePaymentPayload =
            (state = "AUTHORIZED_WAITING_FOR_DELIVERY" /\ CanRetry(i))
      /\ Projection(i).hasBuyerDelivery = (state \in DeliveredStates)
  BY DEF Projection
<1>3. state \in DeliveredStates => Projection(i).buyerAction = "view_delivery"
  <2>1. state \in DeliveredStates =>
           /\ state \notin NoChargeStates
           /\ state \notin {"PLATFORM_FAILED_RECONCILE", "AUTHORIZED_WAITING_FOR_DELIVERY",
                          "AWAITING_PAYMENT"}
    BY DEF DeliveredStates, NoChargeStates
  <2> HIDE DEF state
  <2> QED
    BY <2>1 DEF Projection, state
<1>4. "AUTHORIZED_WAITING_FOR_DELIVERY" \notin TerminalStates \union {"AWAITING_PAYMENT"}
  BY DEF TerminalStates, NoChargeStates
<1> QED
  BY <1>1, <1>2, <1>3, <1>4 DEF i

LEMMA FreshWhenDone ==
  ASSUME NEW p \in Payments, ledger[p] \in Entries, Done(ledger[p])
  PROVE  FreshIsSafeFor(p)
<1> DEFINE a == State(p)
           state == ProtocolState(ReducerInput(p))
<1>1. /\ state \in DeliveredStates \union {"PLATFORM_FAILED_RECONCILE"}
      /\ state = "DELIVERED_SETTLED" => HasSettled(LatestLedger(p))
  BY DoneIsAnswered
<1>2. /\ a.protocolState = state
      /\ a.canCreateFreshPayment = (state \in TerminalStates \union {"AWAITING_PAYMENT"})
      /\ a.canRetrySamePaymentPayload =
            (state = "AUTHORIZED_WAITING_FOR_DELIVERY" /\ CanRetry(ReducerInput(p)))
  BY AnswerFields
<1> HIDE DEF a, state
<1>3. /\ a.canCreateFreshPayment => HasSettled(LatestLedger(p))
      /\ ~a.canRetrySamePaymentPayload
  BY <1>1, <1>2 DEF DeliveredStates, TerminalStates, NoChargeStates
<1>4. HasSettled(LatestLedger(p)) <=> HasSettled(ledger[p])
  BY LatestLedgerSettled
<1>5. CASE HasSettled(LatestLedger(p))
  <2>1. BuyerProtocolState(p, a) = "BUYER_DELIVERED_SETTLED"
    BY <1>5 DEF BuyerProtocolState
  <2>2. BuyerPaymentAction(p, a) = "none"
    BY <1>5 DEF BuyerPaymentAction
  <2>3. ~SettlementCompletionRequired(p, a) /\ PlatformSettlement(p, a) = "settled"
    BY <1>5 DEF SettlementCompletionRequired, PlatformSettlement
  <2>4. SettlementOwner(p, a) = "none" /\ SettlementNextAction(p, a) = "none"
    BY <1>5, <2>3 DEF SettlementOwner, SettlementNextAction
  <2> QED
    BY <1>4, <1>5, <2>1, <2>2, <2>4 DEF FreshIsSafeFor, a
<1>6. CASE ~HasSettled(LatestLedger(p))
  <2>1. BuyerProtocolState(p, a) = state
    BY <1>2, <1>3, <1>6 DEF BuyerProtocolState
  <2>2. BuyerPaymentAction(p, a) # "create_fresh_payment"
    BY <1>3, <1>6 DEF BuyerPaymentAction
  <2>3. state # "BUYER_TERMINAL_SAFE_TO_CREATE_FRESH_PAYMENT"
    BY <1>1 DEF DeliveredStates
  <2> QED
    BY <1>3, <1>6, <2>1, <2>2, <2>3 DEF FreshIsSafeFor, a
<1> QED
  BY <1>5, <1>6

LEMMA FreshBeforeDone ==
  ASSUME Inv, KeptInv, QuietAndUndisturbed, NEW p \in Payments, ~Done(ledger[p])
  PROVE  FreshIsSafeFor(p)
<1> DEFINE a == State(p)
           state == ProtocolState(ReducerInput(p))
<1>1. /\ p \notin charged /\ ~Tried(ledger[p])
      /\ ~HasBuyerDelivery(p)
      /\ LatestLedger(p) = ledger[p]
      /\ ~HasSettled(ledger[p])
  BY NothingYet
<1>2. \A h \in Hires : PaymentOf[h] = p => ~Delivered(h)
  BY BoughtIsDone
<1>3. /\ a.protocolState = state
      /\ a.canCreateFreshPayment => ~a.canRetrySamePaymentPayload
      /\ a.canCreateFreshPayment = (state \in TerminalStates \union {"AWAITING_PAYMENT"})
  BY AnswerFields
<1>4. state \notin DeliveredStates
  <2> DEFINE i == ReducerInput(p)
  <2>1. /\ i.buyerDeliveryAvailable = HasBuyerDelivery(p)
        /\ i.buyerComplete = HasBuyerDelivery(p)
    BY DEF ReducerInput, HasBuyerDelivery
  <2> HIDE DEF i
  <2>2. ProtocolState(i) \in DeliveredStates => DeliveryAvailable(i)
    BY DEF ProtocolState, DeliveredStates
  <2> QED
    BY <1>1, <2>1, <2>2 DEF DeliveryAvailable, i, state
<1>5. state # "BUYER_TERMINAL_SAFE_TO_CREATE_FRESH_PAYMENT"
  BY DEF ProtocolState
<1> HIDE DEF a, state
<1>6. ~SettlementCompletionRequired(p, a)
  BY <1>1 DEF SettlementCompletionRequired
<1>7. PlatformSettlement(p, a) \in {"authorized", "not_started"}
  BY <1>1, <1>6 DEF PlatformSettlement, Tried
<1>8. BuyerPaymentAction(p, a) = "create_fresh_payment"
         <=> ~a.canRetrySamePaymentPayload /\ a.canCreateFreshPayment
  BY <1>1, <1>7 DEF BuyerPaymentAction
<1>9. BuyerProtocolState(p, a) = "BUYER_TERMINAL_SAFE_TO_CREATE_FRESH_PAYMENT"
         <=> a.canCreateFreshPayment
  BY <1>1, <1>3, <1>4, <1>5 DEF BuyerProtocolState
<1>10. SettlementOwner(p, a) = "none"
  BY <1>6, <1>7 DEF SettlementOwner
<1>11. ~SettlementCanRetry(p)
  BY <1>1 DEF SettlementCanRetry, Tried
<1>12. SettlementNextAction(p, a) # "retry_settlement_same_payload"
  BY <1>11 DEF SettlementNextAction
<1> QED
  BY <1>1, <1>2, <1>3, <1>8, <1>9, <1>10, <1>12 DEF FreshIsSafeFor, a

\* Once the handlers are through, nobody is sent to pay again for work that was
\* delivered or charged, and the parts of the answer agree on paying anew, provided
\* loads and saves of a file do not overlap.
THEOREM FreshPaymentsAreSafe ==
  ASSUME Serialized
  PROVE  Spec => []FreshPaymentIsSafe
<1>1. Inv /\ KeptInv => FreshPaymentIsSafe
  <2> SUFFICES ASSUME Inv, KeptInv, QuietAndUndisturbed, NEW p \in Payments
               PROVE  FreshIsSafeFor(p)
    BY DEF FreshPaymentIsSafe, QuietAndUndisturbed, Undisturbed, FreshIsSafeFor
  <2>1. ledger[p] \in Entries
    BY DEF Inv, TypeOK, FilesType, LedgerFiles
  <2> QED
    BY <2>1, FreshWhenDone, FreshBeforeDone
<1> QED
  BY <1>1, SpecKeepsKept, PTL

-----------------------------------------------------------------------------
(* The answers on the way to the delivery, and the script that reads them.  *)

\* A delivery on record stands for an accepted return, and a settlement wherever it
\* is recorded for a charge.
LEMMA RecordsAreBacked ==
  ASSUME Inv, NEW h \in Hires
  PROVE  /\ PaymentOf[h] \in Payments
         /\ Delivered(h) => WorkDone(PaymentOf[h], accepted)
         /\ hires[h].pay = "settled" => PaymentOf[h] \in charged
         /\ HasSettled(EntryOf(h)) => PaymentOf[h] \in charged
<1>1. PaymentOf[h] \in Payments
  BY ConstantsAssumption
<1>2. Delivered(h) => WorkDone(PaymentOf[h], accepted)
  BY DEF Inv, Provenance, FilesBacked, HireBacked, Delivered, WorkDone
<1>3. hires[h].pay = "settled" => PaymentOf[h] \in charged
  BY DEF Inv, Provenance, FilesBacked, HireBacked
<1>4. ~HasSettled(AbsentEntry)
  BY DEF AbsentEntry, HasSettled
<1>5. \A p \in Payments : HasSettled(ledger[p]) => p \in charged
  BY DEF Inv, Provenance, FilesBacked, EntryBacked, HasSettled, FinalStatus
<1> QED
  BY <1>1, <1>2, <1>3, <1>4, <1>5 DEF EntryOf

LEMMA SettledAtIsCharged ==
  ASSUME Inv, NEW h \in Hires, SettlementAt(h) = "settled" \/ PaidAt(h) = "settled"
  PROVE  PaymentOf[h] \in charged
BY RecordsAreBacked DEF SettlementAt, PaidAt

\* The record that the entry names is one of the payload's hires.
LEMMA RecordIsOfPayment ==
  ASSUME Inv, NEW p \in Payments, HasBuyerDelivery(p)
  PROVE  /\ RecordHire(p) \in Hires /\ PaymentOf[RecordHire(p)] = p
         /\ Delivered(RecordHire(p))
<1>1. RecordHire(p) # NoHire /\ Delivered(RecordHire(p))
  BY DEF HasBuyerDelivery, DeliveryIn, RecordOf, AbsentHire, Delivered, RecordHire
<1> QED
  BY <1>1 DEF Inv, TypeOK, FilesType, LedgerFiles, Entries, Provenance, FilesBacked,
              EntryBacked, RecordHire

LEMMA ReportsAreBacked ==
  ASSUME Inv, NEW h \in Hires
  PROVE  LET p == PaymentOf[h]
         IN  /\ \/ WorkDone(p, accepted)
                \/ \A form \in Forms : ~SubmitSaysDone(h, form) /\ ~PollSaysDone(h, form)
             /\ \/ p \in charged
                \/ ~SubmitSaysSettled(h) /\ \A form \in Forms : ~PollSaysSettled(h, form)
BY RecordsAreBacked, SettledAtIsCharged
   DEF SubmitSaysDone, PollSaysDone, DeliveryAt, SubmitSaysSettled, PollSaysSettled

LEMMA RecoveryIsBacked ==
  ASSUME Inv, NEW p \in Payments, ~ChargedForWork(p), Recovered(p)
  PROVE  /\ WorkDone(p, accepted) /\ ~RecoveredSaysSettled(p)
         /\ \A form \in Forms : ~EnrichedSaysSettled(RecordHire(p), form)
<1> DEFINE i == ReducerInput(p)
<1>1. /\ State(p).hasBuyerDelivery = (ProtocolState(i) \in DeliveredStates)
      /\ State(p).protocolState = ProtocolState(i)
  BY AnswerFields
<1>2. /\ i.buyerDeliveryAvailable = HasBuyerDelivery(p)
      /\ i.buyerComplete = HasBuyerDelivery(p)
  BY DEF ReducerInput, HasBuyerDelivery
<1>3. PaymentSettled(i) => HasSettled(LatestLedger(p))
  BY InputSettled
<1> HIDE DEF i
<1>4. /\ ProtocolState(i) \in DeliveredStates => DeliveryAvailable(i)
      /\ ProtocolState(i) = "DELIVERED_SETTLED" => PaymentSettled(i)
  BY DEF ProtocolState, DeliveredStates
<1>5. HasBuyerDelivery(p)
  BY <1>1, <1>2, <1>4 DEF Recovered, DeliveryAvailable
<1>6. WorkDone(p, accepted)
  BY <1>5, RecordIsOfPayment, RecordsAreBacked
<1>7. p \notin charged
  BY <1>6 DEF ChargedForWork
<1>8. ~HasSettled(LatestLedger(p))
  <2>1. ledger[p] \in Entries
    BY DEF Inv, TypeOK, FilesType, LedgerFiles
  <2>2. ~HasSettled(ledger[p])
    BY <1>7 DEF Inv, Provenance, FilesBacked, EntryBacked, HasSettled, FinalStatus
  <2> QED
    BY <2>1, <2>2, LatestLedgerSettled
<1>9. ~RecoveredSaysSettled(p)
  BY <1>1, <1>3, <1>4, <1>8 DEF RecoveredSaysSettled
<1>10. \A form \in Forms : ~EnrichedSaysSettled(RecordHire(p), form)
  BY <1>5, <1>7, RecordIsOfPayment, SettledAtIsCharged DEF EnrichedSaysSettled
<1> QED
  BY <1>6, <1>9, <1>10

\* What the script does with a payload whose handlers are through.
LEMMA QuietReport ==
  ASSUME Inv, KeptInv, QuietAndUndisturbed, NEW p \in Payments
  PROVE  /\ AsksSettlement(p) => RetryIsTaken(p)
         /\ \/ Unused(p) \/ Recovered(p)
            \/ Rerun(p) \notin {"submit", "payAnew"} /\ ~PendingSaysFresh(p)
<1> DEFINE state == ProtocolState(ReducerInput(p))
<1>1. ledger[p] \in Entries
  BY DEF Inv, TypeOK, FilesType, LedgerFiles
<1>2. AsksSettlement(p) => RetryIsTaken(p)
  <2> SUFFICES ASSUME AsksSettlement(p) PROVE RetryIsTaken(p)
    OBVIOUS
  <2>1. /\ RecordHire(p) \in Hires /\ PaymentOf[RecordHire(p)] = p
        /\ Delivered(RecordHire(p))
    BY RecordIsOfPayment DEF AsksSettlement
  <2>2. Done(ledger[p])
    BY <2>1, BoughtIsDone
  <2>3. ~HasSettled(ledger[p])
    BY <1>1, LatestLedgerSettled DEF AsksSettlement
  <2> QED
    BY <2>1, <2>2, <2>3, NoHireAssumption DEF RetryIsTaken, RecordHire
<1>3. CASE Unused(p)
  BY <1>2, <1>3
<1>4. CASE ~Unused(p)
  <2>1. Done(ledger[p])
    BY <1>4, BoughtIsDone DEF Unused
  <2>2. state \in DeliveredStates \union {"PLATFORM_FAILED_RECONCILE"}
    BY <1>1, <2>1, DoneIsAnswered
  <2>3. /\ State(p).protocolState = state
        /\ State(p).terminal = (state \in TerminalStates)
        /\ State(p).canCreateFreshPayment =
              (state \in TerminalStates \union {"AWAITING_PAYMENT"})
        /\ State(p).canRetrySamePaymentPayload =
              (state = "AUTHORIZED_WAITING_FOR_DELIVERY" /\ CanRetry(ReducerInput(p)))
        /\ State(p).hasBuyerDelivery = (state \in DeliveredStates)
        /\ state \in DeliveredStates => State(p).buyerAction = "view_delivery"
    BY AnswerFields
  <2> HIDE DEF state
  <2>4. CASE state \in DeliveredStates
    BY <1>2, <2>3, <2>4 DEF Recovered
  <2>5. CASE state = "PLATFORM_FAILED_RECONCILE"
    <3>1. ~EndedWithoutCharge(p)
      BY <2>3, <2>5 DEF EndedWithoutCharge
    <3>2. ~State(p).canCreateFreshPayment /\ ~State(p).canRetrySamePaymentPayload
      BY <2>3, <2>5 DEF TerminalStates, NoChargeStates
    <3>3. Rerun(p) \notin {"submit", "payAnew"}
      BY <3>1, <3>2 DEF Rerun, AllowsSamePayload
    <3>4. ~PendingSaysFresh(p)
      BY <3>1 DEF PendingSaysFresh, FreshIsSafe
    <3> QED
      BY <1>2, <3>3, <3>4
  <2> QED
    BY <2>2, <2>4, <2>5
<1> QED
  BY <1>3, <1>4

\* Whatever order the answers come in, the script reports as done only accepted work
\* and as settled only what was charged; and once the handlers are through it asks
\* only for settlements that the platform takes up and pays for nothing twice,
\* provided loads and saves of a file do not overlap.
THEOREM BuyerReportsAreTrue ==
  ASSUME Serialized
  PROVE  Spec => []BuyerReportIsTrue
<1>1. Inv /\ KeptInv => BuyerReportIsTrue
  BY ReportsAreBacked, RecoveryIsBacked, QuietReport
     DEF BuyerReportIsTrue, QuietAndUndisturbed, Undisturbed
<1> QED
  BY <1>1, SpecKeepsKept, PTL

-----------------------------------------------------------------------------
(* The answers while the work goes on.                                      *)

LEMMA SettledAnswerIsBacked ==
  ASSUME Inv, NEW h \in Hires, NEW form \in Forms,
         ExecutionAnswer(h, form) = "DELIVERED_SETTLED"
  PROVE  ChargedForWork(PaymentOf[h])
<1> DEFINE i == ExecutionInput(h, form)
           e == EntryOf(h)
<1>1. /\ i.buyerDeliveryAvailable = DeliveryAt(h, form)
      /\ i.buyerComplete = (ReturnVerified(h) /\ DeliveryAt(h, form))
      /\ i.paymentSettled = (PaidAt(h) = "settled")
      /\ i.settlementStatus = SettlementAt(h)
      /\ i.paymentStatus = Known(IF Exists(e) THEN e.pay ELSE PaidAt(h), PaymentInputs)
  BY DEF ExecutionInput
<1>2. i.paymentStatus \in {"settled", "already_settled"} =>
         e.pay \in {"settled", "already_settled"} \/ PaidAt(h) = "settled"
  BY <1>1 DEF Known, PaidAt
<1>3. e.pay \in {"settled", "already_settled"} => HasSettled(e)
  BY DEF HasSettled
<1> HIDE DEF i, e
<1>4. DeliveryAvailable(i) /\ PaymentSettled(i)
  BY DEF ExecutionAnswer, ProtocolState, i
<1>5. Delivered(h)
  BY <1>1, <1>4 DEF DeliveryAvailable, DeliveryAt
<1>6. PaymentOf[h] \in charged
  BY <1>1, <1>2, <1>3, <1>4, RecordsAreBacked, SettledAtIsCharged DEF PaymentSettled, e
<1> QED
  BY <1>5, <1>6, RecordsAreBacked DEF ChargedForWork

\* An expiry that the route of a hire reports is one that the payment state reports.
LEMMA ExpiryIsShared ==
  ASSUME Inv, KeptInv, NEW h \in Hires, ExecutionAnswers(h), ExpiredAt(h)
  PROVE  /\ State(PaymentOf[h]).canCreateFreshPayment
         /\ ~Done(ledger[PaymentOf[h]])
<1> DEFINE p == PaymentOf[h]
           i == ReducerInput(p)
<1>1. p \in Payments
  BY ConstantsAssumption
<1>2. ledger[p].hire = h /\ EntryOf(h) = ledger[p]
  BY DEF ExpiredAt, EntryOf, AbsentEntry
<1>3. RecordOf(p) = hires[h]
  BY <1>2, NoHireAssumption DEF RecordOf
<1>4. PostAckPending(RecordOf(p)) /\ ~DeliveryIn(RecordOf(p))
  BY <1>3 DEF ExpiredAt, PendingAfterAck, PostAckPending, ExecutionAnswers, DeliveryIn
<1>5. LatestLedger(p) = ledger[p]
  BY <1>4 DEF LatestLedger
<1>6. Exists(ledger[p])
  BY DEF KeptInv, HiresHold, Kept, ExecutionAnswers
<1>7. ExpiredNoCharge(LatestLedger(p), RecordOf(p))
  BY <1>2, <1>4, <1>5, <1>6 DEF ExpiredNoCharge, ExpiredForRetry, ExpiredAt
<1>8. i.expiredAuthorizationNoCharge = ExpiredNoCharge(LatestLedger(p), RecordOf(p))
  BY DEF ReducerInput
<1>9. State(p).canCreateFreshPayment =
         (ProtocolState(i) \in TerminalStates \union {"AWAITING_PAYMENT"})
  BY <1>1, AnswerFields
<1> HIDE DEF i
<1>10. ProtocolState(i) = "EXPIRED_NO_CHARGE"
  BY <1>7, <1>8 DEF ProtocolState
<1>11. ~Done(ledger[p])
  BY <1>2 DEF ExpiredAt, Done
<1> QED
  BY <1>9, <1>10, <1>11 DEF TerminalStates, NoChargeStates

\* A payload that is settled has an entry that names a hire with a record.
LEMMA SettledHasRecord ==
  ASSUME Inv, NamedInv, NEW p \in charged
  PROVE  HasRecord(p)
<1>1. p \in Payments /\ ledger[p].hire \in Hires
  BY DEF NamedInv, Named, Inv, TypeOK, FilesType, LedgerFiles, Entries
<1> QED
  BY <1>1, NoHireAssumption
     DEF NamedInv, EntriesNameRecords, NamesRecord, HasFile, HasRecord, RecordOf

\* What is answered while the work goes on is never better than the truth, provided
\* loads and saves of a file do not overlap: settled is said only of a delivery that
\* was charged, paying anew is advised only where the payment state allows it, and
\* once the handlers are through only where nothing was charged; and a settled
\* payload has a record to answer from.
THEOREM ExecutionStatesAreTrue ==
  ASSUME Serialized
  PROVE  Spec => []ExecutionStateIsTrue
<1>1. Inv /\ KeptInv /\ NamedInv => ExecutionStateIsTrue
  <2> SUFFICES ASSUME Inv, KeptInv, NamedInv PROVE ExecutionStateIsTrue
    OBVIOUS
  <2>1. ASSUME NEW h \in Hires, ExecutionAnswers(h), MayPayAnew(h)
        PROVE  /\ State(PaymentOf[h]).canCreateFreshPayment
               /\ AllQuiet /\ faults = 0 /\ crashes = 0 => PaymentOf[h] \notin charged
    <3>1. /\ State(PaymentOf[h]).canCreateFreshPayment
          /\ ~Done(ledger[PaymentOf[h]])
      BY <2>1, ExpiryIsShared DEF MayPayAnew
    <3>2. PaymentOf[h] \in Payments
      BY ConstantsAssumption
    <3> QED
      BY <3>1, <3>2, BoughtIsDone DEF QuietAndUndisturbed, Undisturbed
  <2>2. \A h \in Hires, form \in Forms :
           ExecutionAnswer(h, form) = "DELIVERED_SETTLED" => ChargedForWork(PaymentOf[h])
    BY SettledAnswerIsBacked
  <2>3. \A p \in Payments : PendingAnswers(p) => p \notin charged
    BY SettledHasRecord DEF PendingAnswers
  <2> QED
    BY <2>1, <2>2, <2>3 DEF ExecutionStateIsTrue
<1> QED
  BY <1>1, SpecKeepsNamed, PTL
=============================================================================
