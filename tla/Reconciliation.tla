---------------------------- MODULE Reconciliation ----------------------------
(***************************************************************************)
(* The administrator's reconciliation of the payment ledger with the chain *)
(* (handleX402Reconciliation in apps/indexer/src/server.ts) and the script *)
(* that does part of it offline (scripts/reconcile-hosted-evm-settlements. *)
(* mjs), beside the settlements they repair: the backfill of transactions  *)
(* the ledger does not know, the matching of failed settlements with       *)
(* transfers, the recount of payouts, and the all-time count that every    *)
(* save of the ledger brings up to date.                                   *)
(*                                                                         *)
(* All payments are of one buyer to one wallet.  A payment is two          *)
(* transfers, to the seller and for the fee, in one transaction or in two; *)
(* the number of a block and its time are one clock.  A load of the ledger *)
(* and the save that follows it at once are one step (PaidHire takes them  *)
(* apart).                                                                 *)
(***************************************************************************)
EXTENDS Naturals, FiniteSets

CONSTANTS
    Payloads,       \* signed payments, each with its ledger entry
    Split,          \* payments that take two transactions
    AmountOf,       \* payment -> what it transfers
    AgentOf,        \* payment -> the agent that is paid
    AnyAgent,       \* a request that names no agent
    Requests,       \* calls of the route and runs of the script: [kind, agent, commit]
    Before, After,  \* the window in which a transfer may match an entry
    MaxTime, MaxRuns,
    NoTime, NoTx, NoRun,
    NotRead         \* what a run remembers of an entry that it will not look at

SellerTx(p) == <<p, "seller">>
FeeTx(p)    == IF p \in Split THEN <<p, "fee">> ELSE SellerTx(p)
TxsOf(p)    == {SellerTx(p), FeeTx(p)}
Txs == UNION {TxsOf(p) : p \in Payloads}
Times == 0..MaxTime
Unmatched == "unmatched-base-relayer"

VARIABLES
    now,
    mined,      \* external: transaction -> when it was mined
    charge,     \* payment -> the settlement in progress
    entry,      \* payment -> its ledger entry
    orphans,    \* transactions with an entry of their own
    adopted,    \* payments whose settlement was recorded in such an entry
    stats,      \* the all-time count and the keys it has counted
    hire,       \* payments whose hire record says settled
    run,        \* the reconciliation in progress
    delivered,  \* history: payments whose return was accepted
    undone,     \* history: the script has put back an older ledger
    runs

recVars == <<now, mined, charge, entry, orphans, adopted, stats, hire, run, delivered,
             undone, runs>>

EntryRecords ==
    [pay    : {"authorized", "completed", "failed", "settled"},
     done   : BOOLEAN,                  \* executed and its return accepted
     budget : BOOLEAN,                  \* the error names the sponsored budget
     at     : Times,                    \* updatedAtIso of a failure, which alone is read
     hashes : SUBSET Txs,
     ref    : Txs \union {NoTx},        \* settlementReference
     agent  : {AgentOf[p] : p \in Payloads} \union {Unmatched}]

OnChain == {t \in Txs : mined[t] # NoTime}

\* paymentLedgerCompletionKey of the entries that are completed.
Key(p) == <<p, "payload">>
CompletedKeys(entries) == {Key(p) : p \in {q \in Payloads : entries[q].done}}

-----------------------------------------------------------------------------
(* The ledger and its count.                                              *)

\* buildPaymentLedgerAllTimeStats: an entry is counted when it is first seen completed.
Recount(st, entries) ==
    LET new == CompletedKeys(entries) \ st.counted
    IN  [count |-> st.count + Cardinality(new), counted |-> st.counted \union new]

SaveLedger(entries) ==
    /\ entry' = entries
    /\ stats' = Recount(stats, entries)

\* reconcileBasePaymentLedgerRollup: the count becomes that of the transfers found.
RolledUp(st, entries, transfers) ==
    [count   |-> Cardinality(transfers),
     counted |-> st.counted \union transfers \union CompletedKeys(entries)]

-----------------------------------------------------------------------------
(* Settlements.                                                           *)

Tick ==
    /\ now < MaxTime
    /\ now' = now + 1
    /\ UNCHANGED <<mined, charge, entry, orphans, adopted, stats, hire, run, delivered,
                   undone, runs>>

Deliver(p) ==
    /\ ~entry[p].done
    /\ delivered' = delivered \union {p}
    /\ SaveLedger([entry EXCEPT ![p].done = TRUE, ![p].pay = "completed"])
    /\ UNCHANGED <<now, mined, charge, orphans, adopted, hire, run, undone, runs>>

\* The finalizer, or a settlement retry of work that is delivered and unpaid.
BeginCharge(p) ==
    /\ entry[p].done /\ entry[p].pay # "settled" /\ p \notin adopted
    /\ charge[p] = "idle"
    /\ charge' = [charge EXCEPT ![p] = "running"]
    /\ UNCHANGED <<now, mined, entry, orphans, adopted, stats, hire, run, delivered,
                   undone, runs>>

\* The facilitator sends the two transfers of a payload once, the seller's first, and
\* may fail before, between or after them.
Mine(p, tx) ==
    /\ charge[p] = "running" /\ tx \in TxsOf(p) /\ mined[tx] = NoTime
    /\ tx # SellerTx(p) => mined[SellerTx(p)] # NoTime
    /\ mined' = [mined EXCEPT ![tx] = now]
    /\ UNCHANGED <<now, charge, entry, orphans, adopted, stats, hire, run, delivered, undone,
                   runs>>

\* recordPaymentLedgerSettlement and markHireRequestPaymentSettled of a settlement.  The
\* entry is the first in the file with the payload or with the transaction as its
\* settlementReference; an entry made by a backfill comes before those of payments.
Settle(p) ==
    /\ charge[p] = "running"
    /\ TxsOf(p) \subseteq OnChain
    /\ charge' = [charge EXCEPT ![p] = "idle"]
    /\ IF SellerTx(p) \in orphans
       THEN adopted' = adopted \union {p} /\ SaveLedger(entry)
       ELSE /\ \E q \in {p} \union {r \in Payloads : entry[r].ref = SellerTx(p)} :
                  SaveLedger([entry EXCEPT ![q] = [@ EXCEPT
                      !.pay = "settled", !.budget = FALSE, !.at = 0, !.agent = AgentOf[p],
                      !.ref = SellerTx(p),
                      !.hashes = @ \union TxsOf(p)]])
            /\ UNCHANGED adopted
    /\ hire' = hire \union {p}
    /\ UNCHANGED <<now, mined, orphans, run, delivered, undone, runs>>

\* The facilitator refuses, before or after it has sent the transfers.
FailToSettle(p, budget) ==
    /\ charge[p] = "running"
    /\ charge' = [charge EXCEPT ![p] = "idle"]
    /\ SaveLedger([entry EXCEPT ![p] = [@ EXCEPT
           !.pay = "failed", !.budget = budget, !.at = IF budget THEN now ELSE 0]])
    /\ UNCHANGED <<now, mined, orphans, adopted, hire, run, delivered, undone, runs>>

-----------------------------------------------------------------------------
(* One reconciliation at a time: a call of the route or a run of the       *)
(* script.                                                                *)

Listed(agent) == {p \in Payloads : agent \in {AnyAgent, entry[p].agent}}

NewRun(request) ==
    [kind |-> request.kind, agent |-> request.agent, commit |-> request.commit,
     pc |-> "begun", known |-> {}, txs |-> {}, todo |-> {},
     ledger |-> [p \in Payloads |-> NotRead], rest |-> <<>>,
     seller |-> {}, fee |-> {}, match |-> [p \in Payloads |-> NoTx],
     feeMatch |-> [p \in Payloads |-> NoTx]]

Candidates(entries, listed) ==
    {p \in listed : entries[p].pay = "failed" /\ entries[p].done /\ entries[p].budget}

\* The call lists the entries of its agent and the hashes they name.
BeginCall(request) ==
    /\ request.kind = "route" /\ run = NoRun /\ runs < MaxRuns
    /\ runs' = runs + 1
    /\ run' = [NewRun(request) EXCEPT
           !.known = UNION {entry[p].hashes : p \in Listed(request.agent)}
                     \union IF request.agent = AnyAgent THEN orphans ELSE {}]
    /\ UNCHANGED <<now, mined, charge, entry, orphans, adopted, stats, hire, delivered,
                   undone>>

\* fetchBaseRelayerTransactions; without a configured relayer there is nothing to fetch.
FetchRelayer(txs) ==
    /\ run # NoRun /\ run.kind = "route" /\ run.pc = "begun"
    /\ run' = [run EXCEPT !.pc = "backfill", !.txs = txs]
    /\ UNCHANGED <<now, mined, charge, entry, orphans, adopted, stats, hire, delivered, undone,
                   runs>>

\* recordPaymentLedgerSettlement of a transaction the listed entries do not name.  It
\* finds an entry by its settlementReference, which then changes its agent; the
\* settled status stays.
Backfill(t) ==
    /\ run # NoRun /\ run.pc = "backfill" /\ t \in run.txs \ run.known
    /\ run' = [run EXCEPT !.known = @ \union {t}]
    /\ IF \E p \in Payloads : entry[p].ref = t
       THEN /\ \E p \in Payloads :
                  /\ entry[p].ref = t
                  /\ SaveLedger([entry EXCEPT
                      ![p].agent = Unmatched, ![p].at = IF entry[p].budget THEN now ELSE 0])
            /\ UNCHANGED orphans
       ELSE orphans' = orphans \union {t} /\ SaveLedger(entry)
    /\ UNCHANGED <<now, mined, charge, adopted, hire, delivered, undone, runs>>

\* The ledger is listed again; the entries to match are taken from this list.
List ==
    /\ run # NoRun /\ run.pc = "backfill" /\ run.txs \subseteq run.known
    /\ run' = LET todo == Candidates(entry, Listed(run.agent))
              IN  [run EXCEPT
                      !.pc = "fetch_seller", !.known = {}, !.todo = todo,
                      !.ledger = [p \in Payloads |-> IF p \in todo THEN entry[p] ELSE NotRead]]
    /\ UNCHANGED <<now, mined, charge, entry, orphans, adopted, stats, hire, delivered,
                   undone, runs>>

\* The script reads both files whole.
BeginScript(request) ==
    /\ request.kind = "script" /\ run = NoRun /\ runs < MaxRuns
    /\ runs' = runs + 1
    /\ run' = [NewRun(request) EXCEPT
           !.pc = "fetch_seller", !.todo = Candidates(entry, Listed(request.agent)),
           !.ledger = entry, !.rest = <<orphans, adopted, stats, hire>>]
    /\ UNCHANGED <<now, mined, charge, entry, orphans, adopted, stats, hire, delivered,
                   undone>>

\* fetchBaseUsdcTransferLogs, once for each wallet.
FetchSellerLogs ==
    /\ run # NoRun /\ run.pc = "fetch_seller"
    /\ run' = [run EXCEPT !.pc = "fetch_fee",
                          !.seller = {SellerTx(p) : p \in Payloads} \intersect OnChain]
    /\ UNCHANGED <<now, mined, charge, entry, orphans, adopted, stats, hire, delivered,
                   undone, runs>>

FetchFeeLogs ==
    /\ run # NoRun /\ run.pc = "fetch_fee"
    /\ run' = [run EXCEPT !.pc = "match",
                          !.fee = {FeeTx(p) : p \in Payloads} \intersect OnChain]
    /\ UNCHANGED <<now, mined, charge, entry, orphans, adopted, stats, hire, delivered,
                   undone, runs>>

Distance(a, b) == IF a > b THEN a - b ELSE b - a

\* The transactions that come closest to time t.
Closest(txs, t) ==
    {x \in txs : \A y \in txs : Distance(mined[x], t) <= Distance(mined[y], t)}

Used == {run.match[p] : p \in Payloads} \ {NoTx}

InWindow(tx, at) == mined[tx] + Before >= at /\ mined[tx] <= at + After

\* Mutant: transfers already used are matched again.
SellerMatchesAgain(p) ==
    Closest({tx \in run.seller : AmountOf[tx[1]] = AmountOf[p] /\ InWindow(tx, run.ledger[p].at)},
            run.ledger[p].at)

SellerMatches(p) ==
    Closest({tx \in run.seller \ Used :
                 AmountOf[tx[1]] = AmountOf[p] /\ InWindow(tx, run.ledger[p].at)},
            run.ledger[p].at)

\* The fee's transfer is looked for in the seller's block and the ones next to it, and
\* first in the same transaction.
FeeMatches(p, seller) ==
    LET near == {tx \in run.fee : /\ AmountOf[tx[1]] = AmountOf[p]
                                  /\ Distance(mined[tx], mined[seller]) <= 1}
    IN  IF seller \in near THEN {seller} ELSE Closest(near, mined[seller])

\* The oldest entry that is left.
NextToMatch ==
    {p \in run.todo : \A q \in run.todo : run.ledger[p].at <= run.ledger[q].at}

\* reconcilePaymentLedgerSettlement: the entry is settled with the transfers found,
\* whatever it says by now.
Reconciled(e, seller, fee) ==
    [e EXCEPT !.pay = "settled", !.budget = FALSE, !.at = 0, !.ref = seller,
              !.hashes = @ \union {seller, fee}]

\* One entry of the loop.  The route saves it at once; the script only keeps the match.
Match(p) ==
    /\ run # NoRun /\ run.pc = "match" /\ p \in NextToMatch
    /\ \/ /\ \E s \in SellerMatches(p) : \E f \in FeeMatches(p, s) :
                /\ run' = [run EXCEPT
                       !.todo = @ \ {p}, !.match[p] = s, !.feeMatch[p] = f,
                       !.pc = IF run.kind = "route" /\ run.commit THEN "mark" ELSE "match"]
                /\ IF run.kind = "route" /\ run.commit
                   THEN SaveLedger([entry EXCEPT ![p] = Reconciled(@, s, f)])
                   ELSE UNCHANGED <<entry, stats>>
       \/ /\ \A s \in SellerMatches(p) : FeeMatches(p, s) = {}
          /\ run' = [run EXCEPT !.todo = @ \ {p}]
          /\ UNCHANGED <<entry, stats>>
    /\ UNCHANGED <<now, mined, charge, orphans, adopted, hire, delivered, undone, runs>>

\* markHireRequestPaymentSettled for the entries matched so far.
MarkHire ==
    /\ run # NoRun /\ run.pc = "mark"
    /\ hire' = hire \union {p \in Payloads : run.match[p] # NoTx}
    /\ run' = [run EXCEPT !.pc = "match"]
    /\ UNCHANGED <<now, mined, charge, entry, orphans, adopted, stats, delivered, undone,
                   runs>>

\* reconcileBaseSellerPayoutRollup, if asked for: the transfers to the wallet among the
\* transactions that were fetched at the start.
Rollup ==
    /\ run # NoRun /\ run.kind = "route" /\ run.pc = "match" /\ run.todo = {}
    /\ run.commit /\ run.txs # {}
    /\ stats' = Recount(RolledUp(stats, entry, {t \in run.txs : t = SellerTx(t[1])}), entry)
    /\ run' = NoRun
    /\ UNCHANGED <<now, mined, charge, entry, orphans, adopted, hire, delivered, undone,
                   runs>>

EndCall ==
    /\ run # NoRun /\ run.pc = "match" /\ run.todo = {}
    /\ run.kind = "route" \/ ~run.commit
    /\ run' = NoRun
    /\ UNCHANGED <<now, mined, charge, entry, orphans, adopted, stats, hire, delivered,
                   undone, runs>>

\* The script puts its copies in the place of the files, one after the other.
WriteLedgerFile ==
    /\ run # NoRun /\ run.kind = "script" /\ run.commit
    /\ run.pc = "match" /\ run.todo = {}
    /\ entry' = [p \in Payloads |->
           IF run.match[p] = NoTx THEN run.ledger[p]
           ELSE Reconciled(run.ledger[p], run.match[p], run.feeMatch[p])]
    /\ orphans' = run.rest[1] /\ adopted' = run.rest[2] /\ stats' = run.rest[3]
    /\ run' = [run EXCEPT !.pc = "write_hires"]
    /\ undone' = (undone \/ entry # run.ledger)
    /\ UNCHANGED <<now, mined, charge, hire, delivered, runs>>

WriteHireFile ==
    /\ run # NoRun /\ run.pc = "write_hires"
    /\ hire' = run.rest[4] \union {p \in Payloads : run.match[p] # NoTx}
    /\ run' = NoRun
    /\ UNCHANGED <<now, mined, charge, entry, orphans, adopted, stats, delivered, undone,
                   runs>>

\* A fetch fails, the server restarts or the script is stopped.
Abandon ==
    /\ run # NoRun
    /\ run' = NoRun
    /\ UNCHANGED <<now, mined, charge, entry, orphans, adopted, stats, hire, delivered,
                   undone, runs>>

-----------------------------------------------------------------------------
RecInit ==
    /\ now = 0
    /\ mined = [t \in Txs |-> NoTime]
    /\ charge = [p \in Payloads |-> "idle"]
    /\ entry = [p \in Payloads |->
           [pay |-> "authorized", done |-> FALSE, budget |-> FALSE, at |-> 0, hashes |-> {},
            ref |-> NoTx, agent |-> AgentOf[p]]]
    /\ orphans = {} /\ adopted = {} /\ stats = [count |-> 0, counted |-> {}] /\ hire = {}
    /\ run = NoRun /\ delivered = {} /\ undone = FALSE /\ runs = 0

RecNext ==
    \/ Tick
    \/ \E p \in Payloads :
          \/ Deliver(p) \/ BeginCharge(p) \/ Settle(p)
          \/ \E tx \in Txs : Mine(p, tx)
          \/ \E budget \in BOOLEAN : FailToSettle(p, budget)
          \/ Match(p)
    \/ \E request \in Requests : BeginCall(request) \/ BeginScript(request)
    \/ FetchRelayer(OnChain)
    \/ \E t \in Txs : Backfill(t)
    \/ List \/ FetchSellerLogs \/ FetchFeeLogs \/ MarkHire \/ Rollup \/ EndCall
    \/ WriteLedgerFile \/ WriteHireFile \/ Abandon

RecSpec == RecInit /\ [][RecNext]_recVars

-----------------------------------------------------------------------------
\* Every variable has its type; an orphan is a transaction of the relayer.
RecTypeOK ==
    /\ now \in Times
    /\ mined \in [Txs -> Times \union {NoTime}]
    /\ charge \in [Payloads -> {"idle", "running"}]
    /\ entry \in [Payloads -> EntryRecords]
    /\ orphans \subseteq OnChain
    /\ stats.count \in 0..(2 * Cardinality(Payloads))
    /\ stats.counted \subseteq Txs \union {Key(p) : p \in Payloads}
    /\ hire \subseteq Payloads /\ adopted \subseteq Payloads /\ delivered \subseteq Payloads
    /\ runs \in 0..MaxRuns

\* One reconciliation does not settle two entries with one transfer
\* (usedSellerTransactions).
TransfersMatchedOnce ==
    run # NoRun => \A p, q \in Payloads :
        run.match[p] # NoTx /\ run.match[p] = run.match[q] => p = q

\* No completion is counted twice, whether it was seen in the ledger or found on chain by
\* the recount, as long as the script undoes nothing (buildPaymentLedgerAllTimeStats,
\* reconcileBasePaymentLedgerRollup).
CompletionsCountedOnce == ~undone => stats.count <= Cardinality(delivered)

\* "unmatched hashes were backfilled" (server.ts, the note of the reconciliation): the
\* entry of a payment to an agent is not turned into one of an unmatched transaction.
OnlyUnmatchedAreBackfilled == \A p \in Payloads : entry[p].agent = AgentOf[p]

\* An entry that a reconciliation settles was paid on chain.
ReconciledIsPaid ==
    \A p \in Payloads : entry[p].pay = "settled" => SellerTx(p) \in OnChain
=============================================================================
