--------------------------------- MODULE Buyer ---------------------------------
(***************************************************************************)
(* scripts/buyer-buy-once.mjs after it has signed: what the script makes of *)
(* the answers it is given, and what it reports and does next.  It presents *)
(* the payload once and reads the answer of the hire route; work under way *)
(* it follows through the execution state, an answer it did not get or     *)
(* cannot use through the payment state, where a later run that is handed  *)
(* the payload starts too.  The answers are those of PaidHire and          *)
(* PaymentState at any moment; a report rests on what each was when read.  *)
(***************************************************************************)
EXTENDS ExecutionState

\* What buyer-run.json says at the end of a run: is the work in hand (Done), has it
\* been settled, and is a new payment safe.  Settled work in hand leaves the buyer
\* free to pay for another job.
FreshIsSafe(done, settled, fresh) == fresh \/ (done /\ settled)

-----------------------------------------------------------------------------
(* The answer of the hire route.                                          *)

Arrived == {"forwarded", "recorded", "reconciled_completed"}

\* The work is done when the request arrived, the worker completed it, and there
\* is something in it for the buyer to open.
SubmitSaysDone(h, form) ==
    /\ hires[h].relay \in Arrived
    /\ hires[h].agent = "completed"
    /\ DeliveryAt(h, form)

SubmitSaysSettled(h) == hires[h].pay = "settled"

-----------------------------------------------------------------------------
(* Polling the execution state of hire h.                                 *)

\* The phase the route reports: only the two that the script tells apart matter.
PhaseShowsReturn(h, form) ==
    \/ form = "artifact" /\ Delivered(h)
    \/ ProofStatus(h) = "return_validated"

SellerCompletedAt(h) ==
    /\ hires[h].agent = "completed" /\ hires[h].relay \in Arrived
    /\ ProofStatus(h) = "return_validated"

ReturnSeen(h, form) ==
    ~HasFailure(h) /\ (PhaseShowsReturn(h, form) \/ SellerCompletedAt(h))

\* Polling ends with the delivery, with a failure, or with a return that holds
\* nothing to open; until then it goes on, for as long as the run may last.
PollEnds(h, form) == ReturnSeen(h, form) \/ HasFailure(h)

PollSaysDone(h, form) == DeliveryAt(h, form) /\ ReturnSeen(h, form)
PollSaysSettled(h, form) == SettlementAt(h) = "settled" /\ PollEnds(h, form)

-----------------------------------------------------------------------------
(* The payment state of payload p: after a failed submission, or at the    *)
(* start of a run that is handed the payload.                             *)

\* The delivery is there: the work is reported as done.
Recovered(p) ==
    LET s == State(p)
    IN  /\ s.hasBuyerDelivery
        /\ s.protocolState = "DELIVERED_SETTLED" \/ s.buyerAction = "view_delivery"

RecoveredSaysSettled(p) ==
    HasSettled(LatestLedger(p)) \/ State(p).protocolState = "DELIVERED_SETTLED"

\* The hire the payment state points to for the details.
RecordHire(p) == ledger[p].hire

\* A recovered delivery is completed from the execution state, read a moment later.
\* When that shows no delivery the first reading stands.
EnrichedSaysSettled(h, form) ==
    DeliveryAt(h, form) /\ (SettlementAt(h) = "settled" \/ PaidAt(h) = "settled")

EndedWithoutCharge(p) == State(p).protocolState = "PLATFORM_FAILED_NO_SETTLEMENT"

\* Mutant: any payload that may not pay anew may be presented again.
AllowsUnlessFresh(p) == ~State(p).canCreateFreshPayment

AllowsSamePayload(p) ==
    LET s == State(p)
    IN  s.canRetrySamePaymentPayload /\ ~s.canCreateFreshPayment /\ ~s.terminal

\* The run that is handed the payload: view, stop, or present it again.
Rerun(p) ==
    IF Recovered(p) THEN "view"
    ELSE IF EndedWithoutCharge(p) THEN "payAnew"
    ELSE IF AllowsSamePayload(p) THEN "submit"
    ELSE IF State(p).canCreateFreshPayment THEN "payAnew" ELSE "stop"

\* The payment state of an undelivered job after a submission that failed for the
\* moment: polled, and when nothing is recovered the run ends without advice, unless
\* the platform says that it failed and did not charge.
PendingSaysFresh(p) == FreshIsSafe(FALSE, FALSE, EndedWithoutCharge(p))

\* With --wait-for-settlement a delivered, unsettled job is settled with the same
\* payload, where the payment state names that as the platform's open duty.
AsksSettlement(p) ==
    /\ HasBuyerDelivery(p)
    /\ Authorized(LatestLedger(p)) /\ ~HasSettled(LatestLedger(p))
    /\ State(p).operatorObligation = "settle_payment"

\* What the settlement-retry route asks of a payload before it takes it up.
RetryIsTaken(p) ==
    LET e == ledger[p]
        h == e.hire
    IN  /\ h # NoHire /\ ~HasSettled(e)
        /\ (Delivered(h) /\ ~hires[h].invalid) \/ Done(e)

-----------------------------------------------------------------------------
\* Nobody has worked for payload p, or been paid.
Unused(p) == p \notin charged /\ \A h \in Hires : PaymentOf[h] = p => ~Delivered(h)

\* What the buyer is told and sent to do, from every answer at every moment: work
\* that is reported as done has been accepted and what is reported as settled has
\* been charged, whichever answer said so; and once the handlers are through, a
\* settlement the script asks for is one the route takes up, and a payload that has
\* bought something is recovered, or else neither presented again nor replaced by a
\* new one.
BuyerReportIsTrue ==
    /\ \A h \in Hires : ExecutionAnswers(h) =>
          LET p == PaymentOf[h]
          IN  /\ \/ WorkDone(p, accepted)
                 \/ \A form \in Forms : ~SubmitSaysDone(h, form) /\ ~PollSaysDone(h, form)
              /\ \/ p \in charged
                 \/ ~SubmitSaysSettled(h) /\ \A form \in Forms : ~PollSaysSettled(h, form)
    /\ \A p \in Payments : Answers(p) /\ ~ChargedForWork(p) /\ Recovered(p) =>
          /\ WorkDone(p, accepted) /\ ~RecoveredSaysSettled(p)
          /\ \A form \in Forms : ~EnrichedSaysSettled(RecordHire(p), form)
    /\ AllQuiet /\ faults = 0 /\ crashes = 0 =>
          \A p \in Payments : Answers(p) =>
             /\ AsksSettlement(p) => RetryIsTaken(p)
             /\ \/ Unused(p) \/ Recovered(p)
                \/ Rerun(p) \notin {"submit", "payAnew"} /\ ~PendingSaysFresh(p)
=============================================================================
