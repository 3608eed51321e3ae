------------------------------ MODULE PaymentRail ------------------------------
(***************************************************************************)
(* What a payment is asked, checked and charged against: the x402 adapter  *)
(* (apps/indexer/src/x402-adapter.ts) with the fee previews of             *)
(* protocol-owner-fee.ts, the routes of server.ts that build a runtime     *)
(* from an agent's profile, and the script that buys                       *)
(* (scripts/buyer-buy-once.mjs).                                           *)
(*                                                                         *)
(* The profile may be edited, and the network fee refreshed, between any   *)
(* two of these steps.  One agent, one EVM rail whose settlement trigger   *)
(* is upfront; the protocol owner fee is enabled and has a recipient.      *)
(* Amounts are atomic units (parseUsdAtomic), fees are in basis points.    *)
(***************************************************************************)
EXTENDS Integers

CONSTANTS
    Fixed, Quoted, ActivationProbes,  \* payments: of a fixed price, of an accepted quote, of a probe
    SellerProfiles,         \* profiles the seller may save
    Limits,                 \* --max-usd of buyers
    QuotedAmount, ProbeAmount,
    FeeBps, Floor,          \* the fee policy; the configured network facilitation fee
    MinPayment,             \* the configured least payment of a hosted facilitator
    Samples,                \* network facilitation fees an RPC estimate may give
    MaxEdits, MaxRefreshes, \* bounds: edits of the profile, refreshes begun
    NoWallet, NoPrice, NoSplit, NoRuntime

Payments == Fixed \union Quoted \union ActivationProbes
Facilitators == {"none", "operator", "hosted"}

\* Amounts are whole atomic units; the protocol takes a share and the configured network
\* fee is not nothing, as both of its defaults are not.
ASSUME RailAssumption ==
    /\ \A prof \in SellerProfiles : prof.price \in Nat
    /\ QuotedAmount \in Nat /\ ProbeAmount \in Nat
    /\ FeeBps \in 1..10000 /\ Floor \in Nat \ {0}
    /\ Samples \subseteq Nat /\ Limits \subseteq Nat
    /\ MaxEdits \in Nat /\ MaxRefreshes \in Nat
    /\ NoSplit \notin [seller : Nat, fee : Nat]

VARIABLES
    profile,        \* the agent's saved profile
    netFee,         \* the cached network facilitation fee and its age
    refreshing,     \* a refresh of it is in flight
    stage,          \* payment -> how far it is
    limit,          \* payment -> the buyer's --max-usd
    planPrice,      \* payment -> the price in the plan the buyer has read
    offer,          \* payment -> the requirement the buyer was given
    asked,          \* history: payment -> the terms that requirement was built from
    held,           \* payment -> the runtime the request still has in memory
    charged,        \* external: payment -> what the facilitator has transferred
    edits, refreshes

railVars == <<profile, netFee, refreshing, stage, limit, planPrice, offer, asked, held, charged,
          edits, refreshes>>

Stages == {"idle", "planned", "challenged", "signed", "verified", "delivered",
           "waiting", "late", "unsettled", "settled", "refused", "over"}

-----------------------------------------------------------------------------
(* The requirement of a price.                                            *)

AtLeast(a, b) == IF a > b THEN a ELSE b

\* The higher of the protocol fee, rounded down, and the network fee.
FeeOf(gross, fee) == AtLeast((gross * FeeBps) \div 10000, fee)

\* exactFeeSplitForRail of the preview, in which a fee that takes the whole price
\* leaves the seller 0.
SplitOf(gross, fee) ==
    IF gross > FeeOf(gross, fee) /\ FeeOf(gross, fee) > 0
    THEN [seller |-> gross - FeeOf(gross, fee), fee |-> FeeOf(gross, fee)]
    ELSE NoSplit

\* Mutant: a price that the fee takes whole is let through.
FloorMetLoosely(prof, gross, fee) ==
    prof.facilitator = "hosted" => gross >= FeeOf(gross, fee) /\ gross >= MinPayment

\* pushHostedFacilitatorFloor; an operator's own facilitator is not asked about it.
FloorMet(prof, gross, fee) ==
    prof.facilitator = "hosted" => gross > FeeOf(gross, fee) /\ gross >= MinPayment

\* Whether the plan of a rail has nothing missing, at a fixed price.
RailReady(prof, gross, fee) ==
    /\ prof.active
    /\ prof.wallet # NoWallet
    /\ prof.facilitator # "none"
    /\ FloorMet(prof, gross, fee)

\* buildAgentX402RuntimeContext: the rails that are ready, with their requirement.
RuntimeOf(prof, gross, fee) ==
    IF RailReady(prof, gross, fee)
    THEN [wallet |-> prof.wallet, facilitator |-> prof.facilitator, gross |-> gross,
          split |-> SplitOf(gross, fee)]
    ELSE NoRuntime

-----------------------------------------------------------------------------
(* The network fee, sampled for quotes and probes only.                   *)

\* higherNetworkFacilitationFee of the cached estimate and the floor.
EstimatedFee ==
    IF netFee.age \in {"fresh", "retained"} THEN AtLeast(netFee.value, Floor) ELSE Floor

\* An estimate that is not fresh is used as it is and begins a refresh.
EstimateBegins ==
    IF netFee.age = "fresh" \/ refreshing
    THEN UNCHANGED <<refreshing, refreshes>>
    ELSE refreshing' = TRUE /\ refreshes' = refreshes + 1

MayEstimate == netFee.age = "fresh" \/ refreshing \/ refreshes < MaxRefreshes

\* The monitor's interval; one refresh of a rail at a time.
MonitorTick ==
    /\ ~refreshing /\ refreshes < MaxRefreshes
    /\ refreshing' = TRUE
    /\ refreshes' = refreshes + 1
    /\ UNCHANGED <<profile, netFee, stage, limit, planPrice, offer, asked, held, charged, edits>>

\* sampleNetworkFacilitationFee: an estimate below the floor, none, or one that comes
\* too late gives the floor.
RefreshEnds ==
    /\ refreshing
    /\ refreshing' = FALSE
    /\ \E value \in {AtLeast(s, Floor) : s \in Samples} \union {Floor} :
          netFee' = [value |-> value, age |-> "fresh"]
    /\ UNCHANGED <<profile, stage, limit, planPrice, offer, asked, held, charged, edits, refreshes>>

EstimateAges ==
    /\ netFee.age \in {"fresh", "retained"}
    /\ netFee' = [netFee EXCEPT !.age = IF @ = "fresh" THEN "retained" ELSE "none"]
    /\ UNCHANGED <<profile, refreshing, stage, limit, planPrice, offer, asked, held, charged,
                   edits, refreshes>>

-----------------------------------------------------------------------------
(* The runtime of each route.                                             *)

\* buildX402PlanFromOptions: the plan is made with the configured floor.
FixedRuntime ==
    IF profile.mode = "fixed" THEN RuntimeOf(profile, profile.price, Floor) ELSE NoRuntime

\* Quotes and probes put their own price in the place of the profile's.
SampledRuntime(gross) == RuntimeOf(profile, gross, EstimatedFee)

RouteRuntime(p) ==
    IF p \in Fixed THEN FixedRuntime
    ELSE SampledRuntime(IF p \in Quoted THEN QuotedAmount ELSE ProbeAmount)

\* verifyAgentX402PaymentLocally and assertHostedFacilitatorPayloadShape: the payload
\* repeats wallet, amount and split of the runtime's requirement.
Accepts(runtime, payload) ==
    /\ runtime # NoRuntime
    /\ payload.wallet = runtime.wallet
    /\ payload.gross = runtime.gross
    /\ payload.split = runtime.split

\* What the requirement of payment p is built from.
Terms(p) == IF p \in Fixed THEN <<profile>> ELSE <<profile, EstimatedFee>>

-----------------------------------------------------------------------------
\* The seller saves another profile.
EditProfile(prof) ==
    /\ edits < MaxEdits
    /\ prof # profile
    /\ profile' = prof
    /\ edits' = edits + 1
    /\ UNCHANGED <<netFee, refreshing, stage, limit, planPrice, offer, asked, held, charged, refreshes>>

\* The script reads the plan first; its rails have a price only in fixed pricing.
ReadPlan(p, max) ==
    /\ p \in Fixed /\ stage[p] = "idle"
    /\ stage' = [stage EXCEPT ![p] = "planned"]
    /\ limit' = [limit EXCEPT ![p] = max]
    /\ planPrice' = [planPrice EXCEPT
           ![p] = IF profile.mode = "fixed" THEN profile.price ELSE NoPrice]
    /\ UNCHANGED <<profile, netFee, refreshing, offer, asked, held, charged, edits, refreshes>>

\* A request without a payload is answered with the requirement, or with none.
Challenge(p) ==
    /\ stage[p] = IF p \in Fixed THEN "planned" ELSE "idle"
    /\ IF p \in Fixed THEN UNCHANGED <<refreshing, refreshes>>
       ELSE MayEstimate /\ EstimateBegins
    /\ offer' = [offer EXCEPT ![p] = RouteRuntime(p)]
    /\ asked' = [asked EXCEPT ![p] = Terms(p)]
    /\ stage' = [stage EXCEPT
           ![p] = IF RouteRuntime(p) = NoRuntime THEN "over" ELSE "challenged"]
    /\ UNCHANGED <<profile, netFee, limit, planPrice, held, charged, edits>>

\* priceUsdFromSources: the price of the plan comes before that of the requirement.
PriceSeen(p) == IF planPrice[p] = NoPrice THEN offer[p].gross ELSE planPrice[p]

\* The script stops at a price above its limit and at a requirement without a split;
\* otherwise it signs the requirement.
Sign(p) ==
    /\ stage[p] = "challenged"
    /\ stage' = [stage EXCEPT
           ![p] = IF (p \in Fixed /\ PriceSeen(p) > limit[p]) \/ offer[p].split = NoSplit
                  THEN "over" ELSE "signed"]
    /\ UNCHANGED <<profile, netFee, refreshing, limit, planPrice, offer, asked, held, charged,
                   edits, refreshes>>

\* verifyAgentX402Payment of the paid request, against a runtime built for it; the
\* request keeps that runtime for the settlement.
Submit(p) ==
    /\ stage[p] = "signed"
    /\ IF p \in Fixed THEN UNCHANGED <<refreshing, refreshes>>
       ELSE MayEstimate /\ EstimateBegins
    /\ IF Accepts(RouteRuntime(p), offer[p])
       THEN /\ stage' = [stage EXCEPT ![p] = "verified"]
            /\ held' = [held EXCEPT ![p] = RouteRuntime(p)]
       ELSE stage' = [stage EXCEPT ![p] = "refused"] /\ UNCHANGED held
    /\ UNCHANGED <<profile, netFee, limit, planPrice, offer, asked, charged, edits>>

\* The forward answers with a delivery, or the request ends without one.
Forwarded(p) ==
    /\ stage[p] = "verified"
    /\ \/ stage' = [stage EXCEPT ![p] = "delivered"] /\ UNCHANGED held
       \/ /\ stage' = [stage EXCEPT ![p] = "waiting"]
          /\ held' = [held EXCEPT ![p] = NoRuntime]
    /\ UNCHANGED <<profile, netFee, refreshing, limit, planPrice, offer, asked, charged, edits,
                   refreshes>>

LateReturn(p) ==
    /\ stage[p] = "waiting"
    /\ stage' = [stage EXCEPT ![p] = "late"]
    /\ UNCHANGED <<profile, netFee, refreshing, limit, planPrice, offer, asked, held, charged,
                   edits, refreshes>>

\* settleAgentX402Payment: the local checks again, then the facilitator, which
\* transfers what was signed or fails.
SettleWith(p, runtime) ==
    \/ /\ Accepts(runtime, offer[p])
       /\ charged' = [charged EXCEPT ![p] = offer[p]]
       /\ stage' = [stage EXCEPT ![p] = "settled"]
    \/ stage' = [stage EXCEPT ![p] = "unsettled"] /\ UNCHANGED charged

\* The finalizer uses the runtime of its request, if there is one; otherwise it
\* builds one from the plan of the moment, whatever kind of payment it is.
FinalizerRuntime(p) == IF held[p] # NoRuntime THEN held[p] ELSE FixedRuntime

Finalize(p) ==
    /\ stage[p] \in {"delivered", "late"}
    /\ SettleWith(p, FinalizerRuntime(p))
    /\ held' = [held EXCEPT ![p] = NoRuntime]
    /\ UNCHANGED <<profile, netFee, refreshing, limit, planPrice, offer, asked, edits, refreshes>>

\* settlement-retry, with the payload that was signed.
RetrySettlement(p) ==
    /\ stage[p] = "unsettled"
    /\ SettleWith(p, FixedRuntime)
    /\ UNCHANGED <<profile, netFee, refreshing, limit, planPrice, offer, asked, held, edits,
                   refreshes>>

\* A restart: requests, their runtimes and the cached fee are gone.
Restart ==
    /\ \E p \in Payments : held[p] # NoRuntime
    /\ stage' = [p \in Payments |->
           IF stage[p] = "verified" THEN "waiting"
           ELSE IF stage[p] = "delivered" THEN "unsettled" ELSE stage[p]]
    /\ held' = [p \in Payments |-> NoRuntime]
    /\ netFee' = [netFee EXCEPT !.age = "none"]
    /\ refreshing' = FALSE
    /\ UNCHANGED <<profile, limit, planPrice, offer, asked, charged, edits, refreshes>>

-----------------------------------------------------------------------------
RailInit ==
    /\ profile \in SellerProfiles
    /\ netFee = [value |-> Floor, age |-> "none"]
    /\ refreshing = FALSE
    /\ stage = [p \in Payments |-> "idle"]
    /\ limit = [p \in Payments |-> 0]
    /\ planPrice = [p \in Payments |-> NoPrice]
    /\ offer = [p \in Payments |-> NoRuntime]
    /\ asked = [p \in Payments |-> <<>>]
    /\ held = [p \in Payments |-> NoRuntime]
    /\ charged = [p \in Payments |-> NoRuntime]
    /\ edits = 0 /\ refreshes = 0

RailNext ==
    \/ MonitorTick \/ RefreshEnds \/ EstimateAges \/ Restart
    \/ \E prof \in SellerProfiles : EditProfile(prof)
    \/ \E p \in Payments :
          \/ \E max \in Limits : ReadPlan(p, max)
          \/ Challenge(p) \/ Sign(p) \/ Submit(p) \/ Forwarded(p) \/ LateReturn(p)
          \/ Finalize(p) \/ RetrySettlement(p)

RailSpec == RailInit /\ [][RailNext]_railVars

-----------------------------------------------------------------------------
\* Every variable has its type; a cached fee is never below the floor.
RailTypeOK ==
    /\ profile \in SellerProfiles
    /\ netFee.value \in Nat /\ netFee.value >= Floor
    /\ netFee.age \in {"none", "fresh", "retained"}
    /\ refreshing \in BOOLEAN
    /\ stage \in [Payments -> Stages]
    /\ \A p \in Payments :
          /\ limit[p] \in Limits \union {0}
          /\ held[p] # NoRuntime => stage[p] \in {"verified", "delivered"}
          /\ charged[p] # NoRuntime <=> stage[p] = "settled"
    /\ edits \in 0..MaxEdits /\ refreshes \in 0..MaxRefreshes

\* A requirement of a hosted rail can be paid: the floor check that called the rail
\* ready and the split of the requirement are computed apart, and never disagree, so
\* it leaves something for the seller, pays the floor and the protocol's share, and
\* adds up to the price (pushHostedFacilitatorFloor, exactFeeSplitForRail).
OffersArePayable ==
    \A p \in Payments :
       offer[p] # NoRuntime /\ offer[p].facilitator = "hosted" =>
          LET split == offer[p].split
          IN  /\ split # NoSplit
              /\ split.seller > 0 /\ split.seller + split.fee = offer[p].gross
              /\ split.fee >= Floor
              /\ (split.fee + 1) * 10000 > offer[p].gross * FeeBps

\* A buyer who has signed the requirement of a 402 answer is refused by the indexer's
\* own checks only if the seller or the network has changed the terms since; and once
\* the payload is verified, a delivery in the same request passes the checks of its
\* settlement, whatever has changed meanwhile (the routes of server.ts build the
\* runtime anew for each request, and the request hands its own to the finalizer).
OffersAreHonoured ==
    \A p \in Payments :
       /\ stage[p] = "signed" /\ ~Accepts(RouteRuntime(p), offer[p]) =>
             asked[p] # Terms(p)
       /\ stage[p] = "delivered" => Accepts(FinalizerRuntime(p), offer[p])

\* What is offered can be paid, and paying as offered is accepted.
OffersHold == RailTypeOK /\ OffersArePayable /\ OffersAreHonoured

\* A buyer who sets --max-usd never signs for more (scripts/buyer-buy-once.mjs).
SpendingIsCapped ==
    \A p \in Fixed : stage[p] = "signed" => offer[p].gross <= limit[p]
=============================================================================
