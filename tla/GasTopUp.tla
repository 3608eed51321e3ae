------------------------------- MODULE GasTopUp -------------------------------
(***************************************************************************)
(* scripts/top-up-facilitator-gas.mjs: when the facilitator's wallet has    *)
(* little native ETH for gas, USDC of the treasury is swapped for it, at     *)
(* the cheaper of two venues, within a limit per run.                       *)
(*                                                                         *)
(* Runs may overlap (the script takes no lock), the facilitator goes on     *)
(* spending gas, and the market moves between a quote and the swap.  A run   *)
(* that gives up waiting for a receipt leaves a swap that may still land.   *)
(* The contracts of the venues and of USDC are external.                    *)
(***************************************************************************)
EXTENDS Integers, FiniteSets

CONSTANTS
    TopUps,                 \* runs of the script
    Routes,                 \* --route values in use: "best", "uniswap", "aerodrome"
    Markets,                \* states of the market: price, and the reserves of a pool
    MinNative, TargetNative, MaxUsdc, SlippageBps,
    Treasury, FirstNative,  \* balances at the start
    MaxMoves, MaxGas,       \* bounds: moves of the market, gas units used
    Nothing

Venues == {"uniswap-v3", "aerodrome"}

VARIABLES
    native, usdc,           \* the facilitator's ETH, the treasury's USDC
    allowance,              \* venue -> USDC it may take
    market,
    topUp,                  \* run -> its record
    moves, gasUsed

gasVars == <<native, usdc, allowance, market, topUp, moves, gasUsed>>

Begun(route) == [route |-> route, at |-> "started", native |-> 0, usdc |-> 0, quote |-> Nothing,
                 swap |-> "none", spent |-> 0, got |-> 0]

-----------------------------------------------------------------------------
(* Quotes.                                                                *)

CeilDiv(n, d) == (n + d - 1) \div d
ApplyBpsUp(amount, bps) == CeilDiv(amount * (10000 + bps), 10000)
Capped(amount) == IF amount > MaxUsdc THEN MaxUsdc ELSE amount

\* External: what the venues ask and give in a state of the market.
UniswapCost(m, out) == CeilDiv(m.price * out, 10)
AerodromeOut(m, in) == (m.reserveOut * in) \div (m.reserveIn + in)

Desired(r) == TargetNative - topUp[r].native

\* quoteUniswap: an exact output, and the slippage on the input.
UniswapQuote(out) ==
    [venue |-> "uniswap-v3", in |-> UniswapCost(market, out),
     max |-> ApplyBpsUp(UniswapCost(market, out), SlippageBps), least |-> out]

\* quoteAerodrome: a probe gives a first input, raised up to three times within the
\* limit until the output has room for the slippage.
Raise(wanted, amount) ==
    IF AerodromeOut(market, amount) >= wanted \/ amount >= MaxUsdc THEN amount
    ELSE Capped(ApplyBpsUp(amount, 100))
Raised(wanted, amount) == Raise(wanted, Raise(wanted, Raise(wanted, amount)))

AerodromeInput(out, seed) ==
    LET wanted == CeilDiv(out * 10000, 10000 - SlippageBps)
        half   == IF MaxUsdc \div 2 > 0 THEN MaxUsdc \div 2 ELSE 1
        probe  == IF 0 < seed /\ seed <= MaxUsdc THEN seed ELSE half
        probed == AerodromeOut(market, probe)
    IN  IF probed <= 0 THEN Nothing
        ELSE LET amount == Raised(wanted, Capped(ApplyBpsUp(CeilDiv(wanted * probe, probed), 25)))
             IN  IF AerodromeOut(market, amount) >= wanted THEN [amount |-> amount] ELSE Nothing

\* Mutant: the least output leaves the slippage to the swap a second time.
AerodromeQuoteSlipping(out, seed) ==
    LET input == AerodromeInput(out, seed)
    IN  IF input = Nothing THEN {}
        ELSE {[venue |-> "aerodrome", in |-> input.amount, max |-> input.amount,
               least |-> (out * (10000 - SlippageBps)) \div 10000]}

AerodromeQuote(out, seed) ==
    LET input == AerodromeInput(out, seed)
    IN  IF input = Nothing THEN {}
        ELSE {[venue |-> "aerodrome", in |-> input.amount, max |-> input.amount, least |-> out]}

\* buildQuotes: the candidates of a route; a venue that gives no quote is left out.
Candidates(route, out, uniswapAnswers) ==
    LET uniswap == IF route \in {"best", "uniswap"} /\ uniswapAnswers THEN {UniswapQuote(out)}
                   ELSE {}
        seed == IF uniswap = {} THEN 0 ELSE UniswapQuote(out).max
    IN  uniswap \union IF route \in {"best", "aerodrome"} THEN AerodromeQuote(out, seed) ELSE {}

Cheapest(quotes) == {q \in quotes : \A other \in quotes : q.in <= other.in}

-----------------------------------------------------------------------------
(* A run.                                                                 *)

Step(r, record) == topUp' = [topUp EXCEPT ![r] = record]

Start(r) ==
    /\ topUp[r] = Nothing
    /\ \E route \in Routes : Step(r, Begun(route))
    /\ UNCHANGED <<native, usdc, allowance, market, moves, gasUsed>>

ReadBalance(r) ==
    /\ topUp[r] # Nothing /\ topUp[r].at = "started"
    /\ Step(r, [topUp[r] EXCEPT !.at = "read", !.native = native])
    /\ UNCHANGED <<native, usdc, allowance, market, moves, gasUsed>>

\* Enough gas is a run that does nothing.
ReadTreasury(r) ==
    /\ topUp[r] # Nothing /\ topUp[r].at = "read"
    /\ Step(r, [topUp[r] EXCEPT !.at = IF topUp[r].native >= MinNative THEN "noop" ELSE "quoting",
                                !.usdc = usdc])
    /\ UNCHANGED <<native, usdc, allowance, market, moves, gasUsed>>

\* wouldExceedMaxUsdcPerRun, treasuryHasEnoughUsdc.
MayBuy(r, q) == q.max <= MaxUsdc /\ topUp[r].usdc >= q.max

\* The cheapest quote is selected first; only then is it compared with the limits.
Quote(r) ==
    /\ topUp[r] # Nothing /\ topUp[r].at = "quoting"
    /\ \E uniswapAnswers \in BOOLEAN :
          LET quotes == Candidates(topUp[r].route, Desired(r), uniswapAnswers)
          IN  \/ quotes = {} /\ Step(r, [topUp[r] EXCEPT !.at = "stopped"])
              \/ \E q \in Cheapest(quotes) :
                    Step(r, [topUp[r] EXCEPT !.quote = q,
                                             !.at = IF MayBuy(r, q) THEN "approving" ELSE "stopped"])
    /\ UNCHANGED <<native, usdc, allowance, market, moves, gasUsed>>

\* approveIfNeeded: an allowance that is large enough is used as it is.
Approve(r) ==
    /\ topUp[r] # Nothing /\ topUp[r].at = "approving"
    /\ LET q == topUp[r].quote
       IN  \/ allowance[q.venue] >= q.max /\ UNCHANGED allowance
           \/ /\ allowance[q.venue] < q.max
              /\ allowance' = [allowance EXCEPT ![q.venue] = q.max]
           \/ allowance[q.venue] < q.max /\ UNCHANGED allowance    \* the approval reverts
    /\ Step(r, [topUp[r] EXCEPT !.at = "swapping"])
    /\ UNCHANGED <<native, usdc, market, moves, gasUsed>>

SendSwap(r) ==
    /\ topUp[r] # Nothing /\ topUp[r].at = "swapping"
    /\ Step(r, [topUp[r] EXCEPT !.at = "waiting", !.swap = "pending"])
    /\ UNCHANGED <<native, usdc, allowance, market, moves, gasUsed>>

\* External: the swap lands within its deadline, at the price of the moment, or reverts.
Lands(r, cost, out) ==
    /\ cost <= topUp[r].quote.max /\ out >= topUp[r].quote.least
    /\ cost <= allowance[topUp[r].quote.venue] /\ cost <= usdc
    /\ usdc' = usdc - cost
    /\ native' = native + out
    /\ allowance' = [allowance EXCEPT ![topUp[r].quote.venue] = @ - cost]
    /\ Step(r, [topUp[r] EXCEPT !.swap = "landed", !.spent = cost, !.got = out])

SwapLands(r) ==
    /\ topUp[r] # Nothing /\ topUp[r].swap = "pending"
    /\ LET q == topUp[r].quote
       IN  IF q.venue = "uniswap-v3"
           THEN Lands(r, UniswapCost(market, Desired(r)), Desired(r))
           ELSE Lands(r, q.in, AerodromeOut(market, q.in))
    /\ UNCHANGED <<market, moves, gasUsed>>

SwapReverts(r) ==
    /\ topUp[r] # Nothing /\ topUp[r].swap = "pending"
    /\ Step(r, [topUp[r] EXCEPT !.swap = "reverted"])
    /\ UNCHANGED <<native, usdc, allowance, market, moves, gasUsed>>

\* The receipt, or the end of the wait for it.
Finish(r) ==
    /\ topUp[r] # Nothing /\ topUp[r].at = "waiting"
    /\ Step(r, [topUp[r] EXCEPT !.at = IF topUp[r].swap = "pending" THEN "unheard" ELSE "executed"])
    /\ UNCHANGED <<native, usdc, allowance, market, moves, gasUsed>>

-----------------------------------------------------------------------------
MarketMoves(m) ==
    /\ m # market /\ moves < MaxMoves
    /\ market' = m
    /\ moves' = moves + 1
    /\ UNCHANGED <<native, usdc, allowance, topUp, gasUsed>>

UseGas ==
    /\ native > 0 /\ gasUsed < MaxGas
    /\ native' = native - 1
    /\ gasUsed' = gasUsed + 1
    /\ UNCHANGED <<usdc, allowance, market, topUp, moves>>

GasInit ==
    /\ native = FirstNative /\ usdc = Treasury
    /\ allowance = [v \in Venues |-> 0]
    /\ market \in Markets
    /\ topUp = [r \in TopUps |-> Nothing]
    /\ moves = 0 /\ gasUsed = 0

GasNext ==
    \/ UseGas
    \/ \E m \in Markets : MarketMoves(m)
    \/ \E r \in TopUps :
          \/ Start(r) \/ ReadBalance(r) \/ ReadTreasury(r) \/ Quote(r) \/ Approve(r)
          \/ SendSwap(r) \/ SwapLands(r) \/ SwapReverts(r) \/ Finish(r)

GasSpec == GasInit /\ [][GasNext]_gasVars

-----------------------------------------------------------------------------
\* Every variable has its type.
GasTypeOK ==
    /\ native \in Nat /\ usdc \in 0..Treasury
    /\ allowance \in [Venues -> Nat]
    /\ market \in Markets
    /\ \A r \in TopUps : topUp[r] # Nothing =>
          /\ topUp[r].at \in {"started", "read", "quoting", "approving", "swapping", "waiting",
                              "noop", "stopped", "executed", "unheard"}
          /\ topUp[r].swap \in {"none", "pending", "landed", "reverted"}
    /\ moves \in 0..MaxMoves /\ gasUsed \in 0..MaxGas

\* A run never spends more than --max-usdc-per-run, however the market moved since its
\* quote, and a swap that lands gives the facilitator all that was missing when the run
\* read the balance (quoteUniswap, quoteAerodrome, the limits before the approval).
TopUpsAreBounded ==
    \A r \in TopUps : topUp[r] # Nothing =>
       /\ topUp[r].spent <= MaxUsdc
       /\ topUp[r].swap = "landed" => topUp[r].got >= Desired(r)
=============================================================================
