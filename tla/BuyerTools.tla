------------------------------ MODULE BuyerTools ------------------------------
(***************************************************************************)
(* A buyer who works with files: the SDK's quote client prepares a payment  *)
(* and builds its payload (packages/agent-sdk/src/quote-payment.ts), then   *)
(* scripts/buyer-payment-check.mjs checks the payload against the quote     *)
(* manifest and scripts/buyer-pay-quote.mjs pays it and reports.            *)
(*                                                                         *)
(* One payload file holds the payloads of several services.  Any answer may *)
(* be lost, by the transport or by a restart of the platform; the platform  *)
(* is the quote-payment route of server.ts, whose records are modelled in   *)
(* ExecutionIntents and PaidHire and kept here as far as its answers show.   *)
(***************************************************************************)
EXTENDS Integers, FiniteSets

CONSTANTS
    Services,               \* services bought, each of one seller
    TermsOf(_),             \* service -> terms its platform may ask: to, gross, seller, fee
    MaxQuotes,              \* bound: quotes accepted per service
    MaxTries,               \* withClawzPlatformRetry: attempts
    MaxPays,                \* bound: runs of the pay script per service
    MaxEdits,               \* bound: changes of a service's terms
    Nothing

Quotes == 1..MaxQuotes

VARIABLES
    terms,          \* service -> what the platform asks for it now
    stage,          \* service -> what the SDK is doing
    tries,          \* service -> attempts of the SDK
    intents,        \* service -> quote -> the platform's records of an accepted quote
    manifest,       \* service -> the buyer's quote manifest
    file,           \* the payload file: service -> payload
    call,           \* service -> the payment the platform is serving
    report,         \* service -> what the pay script printed last
    pays, edits

toolVars == <<terms, stage, tries, intents, manifest, file, call, report, pays, edits>>

NewIntent(t) == [gross |-> t.gross, status |-> "pending", hire |-> "none", entry |-> "none",
                 moved |-> FALSE]
Accepted(s) == Cardinality({q \in Quotes : intents[s][q] # Nothing})

-----------------------------------------------------------------------------
(* Preparing a payment.                                                   *)

\* requestQuotePayment, retried as a whole: a quote, then its acceptance.  An answer
\* that does not come ends the attempt.
Retried(s) ==
    IF tries[s] < MaxTries
    THEN stage' = [stage EXCEPT ![s] = "asking"] /\ tries' = [tries EXCEPT ![s] = @ + 1]
    ELSE stage' = [stage EXCEPT ![s] = "idle"] /\ tries' = [tries EXCEPT ![s] = 0]

\* The buyer runs one command of a service at a time.
Free(s) == stage[s] = "idle" /\ call[s] = Nothing

Prepare(s) ==
    /\ Free(s) /\ Accepted(s) < MaxQuotes
    /\ stage' = [stage EXCEPT ![s] = "asking"]
    /\ tries' = [tries EXCEPT ![s] = 1]
    /\ UNCHANGED <<terms, intents, manifest, file, call, report, pays, edits>>

AskQuote(s) ==
    /\ stage[s] = "asking"
    /\ \/ stage' = [stage EXCEPT ![s] = "accepting"] /\ UNCHANGED tries
       \/ Retried(s)
    /\ UNCHANGED <<terms, intents, manifest, file, call, report, pays, edits>>

\* An acceptance whose answer is lost leaves an intent that no manifest names.
AcceptQuote(s) ==
    /\ stage[s] = "accepting" /\ Accepted(s) < MaxQuotes
    /\ intents' = [intents EXCEPT ![s][Accepted(s) + 1] = NewIntent(terms[s])]
    /\ \/ /\ manifest' = [manifest EXCEPT
                 ![s] = [quote |-> Accepted(s) + 1, requirement |-> terms[s]]]
          /\ stage' = [stage EXCEPT ![s] = "idle"]
          /\ tries' = [tries EXCEPT ![s] = 0]
       \/ Retried(s) /\ UNCHANGED manifest
    /\ UNCHANGED <<terms, file, call, report, pays, edits>>

\* The request itself fails: the server refuses, or has no room for another quote.
AcceptFails(s) ==
    /\ stage[s] = "accepting"
    /\ stage' = [stage EXCEPT ![s] = "idle"]
    /\ tries' = [tries EXCEPT ![s] = 0]
    /\ UNCHANGED <<terms, intents, manifest, file, call, report, pays, edits>>

\* The seller's wallet or the fee changes; the price of an accepted quote stays.
ChangeTerms(s, t) ==
    /\ edits < MaxEdits /\ t # terms[s]
    /\ terms' = [terms EXCEPT ![s] = t]
    /\ edits' = edits + 1
    /\ UNCHANGED <<stage, tries, intents, manifest, file, call, report, pays>>

-----------------------------------------------------------------------------
(* Payloads.                                                              *)

\* buildTransferWithAuthorizationTypedData for the seller's amount and for the fee.
Signed(req) == [seller |-> req.seller, fee |-> req.fee]

\* What the hosted facilitator reads: amount, wallet and split with its payee once more.
Hosted(req) ==
    [amount |-> req.gross, to |-> req.to, gross |-> req.gross, seller |-> req.seller,
     fee |-> req.fee, payee |-> req.to]

\* buildClawzFeeSplitExactPaymentPayload: it has an identifier, and the wallet's address
\* with the letters in the case the requirement has them.
BuildPayload(req) ==
    [to |-> req.to, exact |-> TRUE, id |-> TRUE, amount |-> req.gross, signed |-> Signed(req), unit |-> "atomic",
     hosted |-> Hosted(req), digest |-> TRUE, fresh |-> TRUE]

\* The payloads of other tools, and edits by hand, that the check is there to find.
OtherPayloads(req) ==
    LET pay == BuildPayload(req)
    IN  {[pay EXCEPT !.signed.seller = req.gross], [pay EXCEPT !.signed.fee = 0],
         [pay EXCEPT !.unit = "decimal"], [pay EXCEPT !.hosted = Nothing],
         [pay EXCEPT !.hosted.seller = req.gross], [pay EXCEPT !.hosted.to = Nothing],
         [pay EXCEPT !.digest = FALSE], [pay EXCEPT !.id = FALSE], [pay EXCEPT !.exact = FALSE]}

WritePayload(s) ==
    /\ Free(s) /\ manifest[s] # Nothing
    /\ \E pay \in {BuildPayload(manifest[s].requirement)}
                     \union OtherPayloads(manifest[s].requirement) :
          file' = [file EXCEPT ![s] = pay]
    /\ UNCHANGED <<terms, stage, tries, intents, manifest, call, report, pays, edits>>

\* The authorizations are valid for 15 minutes.
PayloadExpires(s) ==
    /\ file[s] # Nothing /\ file[s].fresh
    /\ file' = [file EXCEPT ![s].fresh = FALSE]
    /\ UNCHANGED <<terms, stage, tries, intents, manifest, call, report, pays, edits>>

\* normalizePaymentPayload: the service that was named, or the only payload there is.
Selected(s, named) ==
    LET present == {o \in Services : file[o] # Nothing}
    IN  IF named THEN file[s]
        ELSE IF Cardinality(present) = 1 THEN file[CHOOSE o \in present : TRUE]
        ELSE Nothing

\* Mutant: the amount the seller's authorization signs is not compared.
CheckPassesUnsigned(req, pay) ==
    /\ pay.digest
    /\ pay.amount = req.gross /\ pay.to = req.to /\ pay.unit = "atomic"
    /\ pay.hosted = Hosted(req)

\* validatePaymentPayload; neither the request nor the expiry is compared, addresses are
\* whatever the case of their letters (sameAddress), and no identifier is asked for.
CheckPasses(req, pay) ==
    /\ pay.digest
    /\ pay.amount = req.gross /\ pay.to = req.to /\ pay.unit = "atomic"
    /\ pay.hosted = Hosted(req)
    /\ pay.signed = Signed(req)

-----------------------------------------------------------------------------
(* The platform.                                                          *)

\* An answer: the status is a success, and the four statuses it carries.
Answer(ok, payment, settlement, relay, agent) ==
    [ok |-> ok, payment |-> payment, settlement |-> settlement, relay |-> relay, agent |-> agent]

\* buildHireOperationalStatus of the hire, as far as the outcomes here differ.
HireStatus(hire) ==
    CASE hire = "completed" -> <<"forwarded", "completed">>
      [] hire = "failed"    -> <<"forwarded", "failed">>
      [] hire = "rejected"  -> <<"return_rejected", "worker_completed_return_rejected">>
      [] hire = "pending"   -> <<"acknowledged", "running_or_unknown">>
      [] OTHER              -> <<"failed", "submitted">>

HireAnswer(hire, payment) == Answer(TRUE, payment, payment, HireStatus(hire)[1], HireStatus(hire)[2])

\* buildExecutionLifecycleSummary of an intent that is executed or settled.
LifecycleAnswer(i) ==
    LET payment == IF i.status = "settled" \/ i.entry = "settled" THEN "settled" ELSE "authorized"
    IN  HireAnswer(i.hire, payment)

\* paymentSettlementFailureBody of a payload that was not accepted.
Refusal == Answer(FALSE, "failed", "failed", "not_attempted", "not_started")

\* paymentAuthorizedExecutionStateUnknownBody.
StateUnknown == Answer(TRUE, "authorized", "authorized", "not_confirmed", "not_started")

\* matchingRuntimeRail takes the wallet's address letter by letter.
OnRail(req, pay) == pay.to = req.to /\ pay.exact

\* verifyAgentX402PaymentLocally and assertHostedFacilitatorPayloadShape.  The
\* facilitator also looks at the time, and may refuse for want of funds.
IndexerAccepts(req, pay) ==
    /\ OnRail(req, pay) /\ pay.id /\ pay.digest /\ pay.amount = req.gross
    /\ pay.hosted # Nothing
    /\ <<pay.hosted.gross, pay.hosted.seller, pay.hosted.fee, pay.hosted.payee>>
          = <<req.gross, req.seller, req.fee, req.to>>
    /\ pay.signed = Signed(req)

Ends(s, answer) == call' = [call EXCEPT ![s].at = "answered", ![s].answer = answer]

\* What the routes ask for the intent of a call: today's terms, the quote's price.
Requirement(s) == [terms[s] EXCEPT !.gross = intents[s][call[s].quote].gross]

Verify(s) ==
    /\ call[s] # Nothing /\ call[s].at = "sent"
    /\ LET q == call[s].quote
           i == intents[s][q]
       IN  \/ Ends(s, Refusal) /\ UNCHANGED intents
           \/ /\ IndexerAccepts(Requirement(s), call[s].payload) /\ call[s].payload.fresh
              /\ \/ /\ i.status \in {"pending", "approved"}
                    /\ intents' = [intents EXCEPT
                           ![s][q].status = "approved",
                           ![s][q].entry = IF @ = "none" THEN "authorized" ELSE @]
                    /\ call' = [call EXCEPT ![s].at = "hiring"]
                 \/ /\ i.status \notin {"pending", "approved"}
                    /\ Ends(s, LifecycleAnswer(i))
                    /\ UNCHANGED intents
    /\ UNCHANGED <<terms, stage, tries, manifest, file, report, pays, edits>>

\* submitHireRequest; a request that is over, or that still runs, is not sent again.
Hire(s) ==
    /\ call[s] # Nothing /\ call[s].at = "hiring"
    /\ LET q == call[s].quote
           i == intents[s][q]
       IN  \E hire \in IF i.hire \in {"none", "undelivered"}
                       THEN {"completed", "failed", "rejected", "pending", "undelivered"}
                       ELSE {i.hire} :
              /\ intents' = [intents EXCEPT
                     ![s][q].hire = hire,
                     ![s][q].status = IF hire = "failed" THEN "executed" ELSE @]
              /\ \/ hire = "completed" /\ call' = [call EXCEPT ![s].at = "settling"]
                 \/ hire # "completed" /\ Ends(s, HireAnswer(hire, "authorized"))
                 \/ Ends(s, StateUnknown)
    /\ UNCHANGED <<terms, stage, tries, manifest, file, report, pays, edits>>

\* The settlement that the request waits for.  The facilitator may move the money and
\* still fail to say so.
Settle(s) ==
    /\ call[s] # Nothing /\ call[s].at = "settling"
    /\ LET q == call[s].quote
       IN  \/ /\ intents' = [intents EXCEPT ![s][q].entry = "settled", ![s][q].moved = TRUE]
              /\ call' = [call EXCEPT ![s].at = "recording"]
           \/ \E moved \in {intents[s][q].moved, TRUE} :
                 /\ intents' = [intents EXCEPT
                        ![s][q].moved = moved,
                        ![s][q].entry = IF @ = "settled" THEN @ ELSE "failed"]
                 /\ Ends(s, HireAnswer("completed", "authorized"))
    /\ UNCHANGED <<terms, stage, tries, manifest, file, report, pays, edits>>

\* executeExecutionIntent, then settleExecutionIntent.
Record(s) ==
    /\ call[s] # Nothing /\ call[s].at = "recording"
    /\ LET q == call[s].quote
       IN  IF intents[s][q].status = "approved"
           THEN /\ intents' = [intents EXCEPT ![s][q].status = "executed"]
                /\ UNCHANGED call
           ELSE /\ intents' = [intents EXCEPT ![s][q].status = "settled"]
                /\ Ends(s, HireAnswer("completed", "settled"))
    /\ UNCHANGED <<terms, stage, tries, manifest, file, report, pays, edits>>

\* A late return, and its settlement in the background.
LateReturn(s, q) ==
    /\ intents[s][q] # Nothing /\ intents[s][q].hire = "pending"
    /\ \/ intents' = [intents EXCEPT ![s][q].hire = "completed", ![s][q].entry = "settled",
                                     ![s][q].moved = TRUE]
       \/ intents' = [intents EXCEPT ![s][q].hire = "completed"]
    /\ UNCHANGED <<terms, stage, tries, manifest, file, call, report, pays, edits>>

-----------------------------------------------------------------------------
(* The pay script.                                                        *)

Pay(s, named) ==
    /\ Free(s) /\ manifest[s] # Nothing /\ pays[s] < MaxPays
    /\ Selected(s, named) # Nothing
    /\ call' = [call EXCEPT ![s] = [quote |-> manifest[s].quote, payload |-> Selected(s, named),
                                    at |-> "sent", answer |-> Nothing]]
    /\ pays' = [pays EXCEPT ![s] = @ + 1]
    /\ UNCHANGED <<terms, stage, tries, intents, manifest, file, report, edits>>

\* paidExecutionSummary.
Summary(answer) ==
    IF /\ answer.ok
       /\ answer.payment \in {"settled", "paid", "escrowed"} /\ answer.settlement = "settled"
       /\ answer.relay \in {"forwarded", "recorded"} /\ answer.agent = "completed"
    THEN "paid_execution_completed"
    ELSE IF answer.ok /\ answer.relay = "acknowledged" /\ answer.agent = "running_or_unknown"
    THEN "job_running_or_return_timeout"
    ELSE "paid_execution_not_completed"

Report(s) ==
    /\ call[s] # Nothing /\ call[s].at = "answered"
    /\ report' = [report EXCEPT ![s] = [quote |-> call[s].quote, code |-> Summary(call[s].answer)]]
    /\ call' = [call EXCEPT ![s] = Nothing]
    /\ UNCHANGED <<terms, stage, tries, intents, manifest, file, pays, edits>>

\* The connection is lost, or the platform restarts: the script says that the payment
\* may have been made, and the call may be served no further.
AnswerLost(s) ==
    /\ call[s] # Nothing
    /\ report' = [report EXCEPT ![s] = [quote |-> call[s].quote,
                                        code |-> "post_payment_state_unavailable_retryable"]]
    /\ call' = [call EXCEPT ![s] = Nothing]
    /\ UNCHANGED <<terms, stage, tries, intents, manifest, file, pays, edits>>

-----------------------------------------------------------------------------
ToolsInit ==
    /\ terms \in {t \in [Services -> UNION {TermsOf(s) : s \in Services}] :
                     \A s \in Services : t[s] \in TermsOf(s)}
    /\ stage = [s \in Services |-> "idle"]
    /\ tries = [s \in Services |-> 0]
    /\ intents = [s \in Services |-> [q \in Quotes |-> Nothing]]
    /\ manifest = [s \in Services |-> Nothing]
    /\ file = [s \in Services |-> Nothing]
    /\ call = [s \in Services |-> Nothing]
    /\ report = [s \in Services |-> Nothing]
    /\ pays = [s \in Services |-> 0]
    /\ edits = 0

ToolsNext ==
    \E s \in Services :
       \/ Prepare(s) \/ AskQuote(s) \/ AcceptQuote(s) \/ AcceptFails(s)
       \/ \E t \in TermsOf(s) : ChangeTerms(s, t)
       \/ WritePayload(s) \/ PayloadExpires(s)
       \/ \E named \in BOOLEAN : Pay(s, named)
       \/ Verify(s) \/ Hire(s) \/ Settle(s) \/ Record(s) \/ Report(s) \/ AnswerLost(s)
       \/ \E q \in Quotes : LateReturn(s, q)

ToolsSpec == ToolsInit /\ [][ToolsNext]_toolVars

-----------------------------------------------------------------------------
\* Every variable has its type; a manifest names an intent the platform has.
ToolsTypeOK ==
    \A s \in Services :
       /\ terms[s] \in TermsOf(s)
       /\ stage[s] \in {"idle", "asking", "accepting"} /\ tries[s] \in 0..MaxTries
       /\ manifest[s] # Nothing => intents[s][manifest[s].quote] # Nothing
       /\ call[s] # Nothing => call[s].at \in {"sent", "hiring", "settling", "recording", "answered"}
       /\ pays[s] \in 0..MaxPays

\* The buyer's check and the platform's test agree up to two things that the check does
\* not look at: a payload in the file that passes buyer-payment-check against the manifest
\* is accepted by the indexer, as long as the manifest's terms are still asked, exactly if
\* it has an identifier and spells the wallet as the requirement does; and the payload the
\* SDK builds from a manifest passes the check and has both (buyer-payment-check.mjs,
\* x402-adapter.ts).
CheckAndPlatformAgree ==
    \A s \in Services : manifest[s] # Nothing =>
       LET req == manifest[s].requirement
           built == BuildPayload(req)
       IN  /\ CheckPasses(req, built) /\ IndexerAccepts(req, built)
           /\ file[s] # Nothing /\ CheckPasses(req, file[s]) /\ terms[s] = req =>
                 (IndexerAccepts(terms[s], file[s]) <=> file[s].id /\ file[s].exact)

\* When the pay script prints paid_execution_completed, the seller's work is complete
\* and the money of that quote has moved, whatever was lost, refused or retried before
\* (paidExecutionSummary, the answers of /api/x402/quote-intent).
CompletedIsPaid ==
    \A s \in Services :
       report[s] # Nothing /\ report[s].code = "paid_execution_completed" =>
          LET i == intents[s][report[s].quote]
          IN  i.hire = "completed" /\ i.entry = "settled" /\ i.moved
=============================================================================
