-------------------------------- MODULE MCServices --------------------------------
(* More parts of the system that share no state, side by side for TLC, as in        *)
(* MCStores: a behaviour moves one of them and leaves the others as they begin.     *)
EXTENDS LiveFlow, TLC

CONSTANTS a1, g1, k1, th, sw,   \* values of each kind
          Nothing, Empty, Torn, Altered,
          Two, Three,           \* calls of one kind, begun in order
          LastTime, MaxEdits

\* Of a set of calls that are alike, the lower begin first.
InOrder(calls, Begun(_)) == \A c, d \in calls : c < d /\ Begun(d) => Begun(c)

VARIABLES part, now, edits

-----------------------------------------------------------------------------
(* Books: two payments of one price; the route and the script, for all agents. *)

CONSTANTS Payloads, Split, AnyAgent, Before, After, LastBlock, MaxRuns, NoTime, NoTx, NoRun,
          NotRead
VARIABLES mined, charge, rEntry, orphans, adopted, stats, hire, run, delivered, undone, runs

recVars == <<mined, charge, rEntry, orphans, adopted, stats, hire, run, delivered, undone, runs>>

OnePrice == [p \in Payloads |-> 1]
OneAgent == [p \in Payloads |-> g1]
SomeRequests == {[kind |-> k, agent |-> AnyAgent, commit |-> TRUE] : k \in {"route", "script"}}

Books == INSTANCE Reconciliation WITH AmountOf <- OnePrice, AgentOf <- OneAgent,
            Requests <- SomeRequests, MaxTime <- LastBlock, entry <- rEntry

PaymentsInOrder == InOrder(Payloads, LAMBDA p : p \in delivered)

-----------------------------------------------------------------------------
(* Artifacts: two uploads, a download and the sweep; two receipts.            *)

CONSTANTS Downloads, Receipts, ArtFiles, ArtPolicies, Retention, MaxPerRequest, MaxBytesPerRequest
VARIABLES policy, data, meta, upload, download, sweep, served, receipt, index, post

artVars == <<policy, data, meta, upload, download, sweep, served, receipt, index, post>>

SomeFiles ==
    {[kind |-> "text", facts |-> {}, size |-> 1, mode |-> "platform_scanned"],
     [kind |-> "pdf", facts |-> {"active_content"}, size |-> 2, mode |-> "platform_scanned"],
     [kind |-> "encrypted", facts |-> {}, size |-> 2, mode |-> "buyer_encrypted"]}
SomePolicies == {[scanner |-> TRUE, required |-> TRUE], [scanner |-> FALSE, required |-> TRUE]}

Store == INSTANCE ArtifactStore WITH Uploads <- Two, Files <- ArtFiles, Policies <- ArtPolicies,
            MaxTime <- LastTime

UploadsInOrder == InOrder(Two, LAMBDA u : upload[u].pc # "idle")

-----------------------------------------------------------------------------
(* The message board: three posts of one agent.                               *)

CONSTANTS NoClient, NoThread, NoSwarm, NoPost, Budget, SwarmBudget, SoftLimit, Window, BoardLimit,
          BoardTime
VARIABLES board, candidates, summary, lock, boardPost, posted

boardVars == <<board, candidates, summary, lock, boardPost, posted>>

Post(client, swarm, body, tx, wants) ==
    [agent |-> a1, client |-> client, thread |-> th, swarm |-> swarm, body |-> body,
     output |-> FALSE, wants |-> wants, tx |-> tx]
SomePosts ==
    {Post(k1, NoSwarm, 1, NoTx, "per_message"), Post(k1, NoSwarm, 1, 1, "per_message"),
     Post(k1, sw, 2, NoTx, "per_message"),
     [Post(NoClient, sw, 1, NoTx, "per_message") EXCEPT !.output = TRUE, !.thread = NoThread]}

Board == INSTANCE MessageBoard WITH Posts <- Three, Requests <- SomePosts, MaxTime <- BoardTime,
            queue <- candidates, post <- boardPost

PostsInOrder == InOrder(Three, LAMBDA p : boardPost[p].pc # "idle")

-----------------------------------------------------------------------------
(* Access: the workshop's sessions, challenges and bindings; a workspace's     *)
(* codes and sessions, of two addresses.                                       *)

CONSTANTS Four, WorkshopAgents, SignInLife, ChallengeLife,
          Workspaces, Emails, Threads, ConnectorKinds, CodeLife, SessionLife
VARIABLES store, workshopCall, proved, claimed, hosted, hostedCall, issued, shown, entered

accessVars == <<store, workshopCall, proved, claimed, hosted, hostedCall, issued, shown, entered>>

Workshop == INSTANCE WorkshopBeta WITH Calls <- Four, Agents <- WorkshopAgents,
               SessionLife <- SignInLife, MaxTime <- LastTime, call <- workshopCall
Hosted == INSTANCE HostedWorkspaces WITH Calls <- Four, Kinds <- ConnectorKinds,
             MaxTime <- LastTime, call <- hostedCall

WorkshopInOrder == InOrder(Four, LAMBDA c : workshopCall[c].pc # "idle")
HostedInOrder == InOrder(Four, LAMBDA c : hostedCall[c].pc # "idle")

-----------------------------------------------------------------------------
(* Sealed payloads: two seals, one read and one expiry, in one workspace.      *)

CONSTANTS Seals, Opens, Visibilities, Roles
VARIABLES config, keyFile, audit, record, cipher, manifest, deletion, seal, open, expiry

blobVars == <<config, keyFile, audit, record, cipher, manifest, deletion, seal, open, expiry>>

Blobs == INSTANCE SealedBlobs

SealsInOrder == InOrder(Seals, LAMBDA s : seal[s].pc # "idle")

\* One way to configure the services, with the key broker and the store local or not.
PlainConfig ==
    /\ ~config.production /\ ~config.regulated /\ config.credentials /\ ~config.open
    /\ config.derivation = "http-forwarder"

-----------------------------------------------------------------------------
(* The activation lane: two paid hires of an agent whose profile and runtime    *)
(* change.                                                                    *)

CONSTANTS MaxFailed, Stale, Cooldown, Guard, LaneTime, MaxFaults
VARIABLES profile, runtime, paidCall, hireRecord, entry, attempts, poller, faults

laneVars == <<profile, runtime, paidCall, hireRecord, entry, attempts, poller, faults>>

ActiveAgent == [active |-> TRUE, owned |-> TRUE, published |-> TRUE, pricing |-> "fixed-exact",
                relay |-> TRUE, ready |-> TRUE, anchored |-> FALSE]
SomeProfiles == {ActiveAgent, [ActiveAgent EXCEPT !.owned = FALSE, !.relay = FALSE],
                 [ActiveAgent EXCEPT !.published = FALSE]}
SomeRuntimes == {[connected |-> TRUE, beat |-> "live", timing |-> TRUE, probe |-> FALSE],
                 [connected |-> FALSE, beat |-> "near", timing |-> TRUE, probe |-> FALSE]}

Lane == INSTANCE Readiness WITH Calls <- Two, Profiles <- SomeProfiles, Runtimes <- SomeRuntimes,
           MaxTime <- LaneTime, call <- paidCall, hire <- hireRecord

PaidCallsInOrder == InOrder(Two, LAMBDA c : paidCall[c].pc # "idle")

-----------------------------------------------------------------------------
(* A self-hosted ingress: two copies of one request.                          *)

CONSTANTS HireIds, HireOrders, HirePackages, Skews,
          MaxAge, ReplayTtl, PerMinute, IngressTime, MaxIngressCrashes
VARIABLES skew, sent, copy, seen, bucket, ingress, given, answer, ingressCrashes

ingressVars == <<skew, sent, copy, seen, bucket, ingress, given, answer, ingressCrashes>>

Order(pricing, paymentStatus, paid, quote, lane) ==
    [pricing |-> pricing, status |-> paymentStatus, amount |-> paid, rail |-> paid, quote |-> quote,
     lane |-> lane]
SomeOrders == {Order("fixed-exact", "authorized", TRUE, FALSE, FALSE),
               Order("quote-required", "not-required", FALSE, FALSE, FALSE),
               Order("quote-required", "authorized", TRUE, FALSE, TRUE)}
GoodPackage == [status |-> "completed", id |-> "none", private |-> "none", output |-> TRUE,
                checks |-> FALSE, files |-> FALSE, deliverables |-> TRUE, visible |-> "text",
                demo |-> FALSE, large |-> FALSE]
SomePackages ==
    {GoodPackage, [GoodPackage EXCEPT !.private = "false"],
     [GoodPackage EXCEPT !.visible = "misdigested"], [GoodPackage EXCEPT !.large = TRUE],
     [GoodPackage EXCEPT !.status = "failed", !.id = "own", !.private = "true"]}
SomeSkews == {-1, 1}

Ingress == INSTANCE HireIngress WITH Requests <- HireIds, Copies <- Two, Orders <- HireOrders,
              Packages <- HirePackages, MaxTime <- IngressTime, runs <- given

CopiesInOrder == \A r \in HireIds : InOrder(Two, LAMBDA n : copy[<<r, n>>] # "none")

-----------------------------------------------------------------------------
(* The buyer's tools: two services, one of which may name another wallet.     *)

CONSTANTS Bought, AskedTerms, NotPaid, MaxQuotes, MaxTries, MaxPays
VARIABLES terms, stage, tries, intents, quoteManifest, payloadFile, payCall, printed, pays

toolVars == <<terms, stage, tries, intents, quoteManifest, payloadFile, payCall, printed, pays>>

Terms(payee) == [to |-> payee, gross |-> 4, seller |-> 3, fee |-> 1]
SomeTerms == [s1 |-> {Terms("w1"), Terms("w3")}, s2 |-> {Terms("w2")}]
TermsOf(s) == AskedTerms[s]

Tools == INSTANCE BuyerTools WITH Services <- Bought, manifest <- quoteManifest,
            file <- payloadFile, call <- payCall, report <- printed

\* Bound: of some services nothing is paid, and a payload is built once.
SomeServicesPay ==
    \A s \in NotPaid :
        /\ pays[s] = 0 /\ tries[s] <= 1
        /\ payloadFile[s] \in {Nothing, Tools!BuildPayload(terms[s])}

-----------------------------------------------------------------------------
(* Top-ups of the facilitator's gas: two runs while the market moves.         *)

CONSTANTS GasRoutes, Markets, MinNative, TargetNative, MaxUsdc, SlippageBps, Treasury, FirstNative, MaxMoves, MaxGas
VARIABLES native, usdc, allowance, market, topUp, moves, gasUsed

gasVars == <<native, usdc, allowance, market, topUp, moves, gasUsed>>

SomeRoutes == {"best", "uniswap", "aerodrome"}
SomeMarkets == {[price |-> 20, reserveIn |-> 40, reserveOut |-> 40],
                [price |-> 40, reserveIn |-> 90, reserveOut |-> 40],
                [price |-> 42, reserveIn |-> 40, reserveOut |-> 40]}

Gas == INSTANCE GasTopUp WITH TopUps <- Two, Routes <- GasRoutes

-----------------------------------------------------------------------------
(* Proofs of two agents: one verification while files change; approvals of      *)
(* privacy exceptions.                                                        *)

CONSTANTS Life
VARIABLES file, eventList, place, setting, verification, snap, held, saved,
          exceptionQueue, approval, approved, granted

proofVars == <<file, eventList, place, setting, verification, snap, held, saved>>
exceptionVars == <<exceptionQueue, approval, approved, granted>>

Asking(kind, session, turn, planned) ==
    [kind |-> kind, session |-> session, turn |-> turn, plan |-> planned]
SomeAsks == {Asking("self", "a", Nothing, TRUE), Asking("live", "a", Nothing, FALSE),
             Asking("kept", "a", Nothing, FALSE), Asking("self", "b", "t", FALSE)}

Proof == INSTANCE AgentProof WITH Calls <- {1}, Asks <- SomeAsks, Sessions <- {"a", "b"},
            Turns <- {"t"}, Modes <- {"fast", "team"}, ServerProver <- FALSE, RollupProver <- FALSE,
            events <- eventList, call <- verification

Privacy == INSTANCE PrivacyExceptions WITH Calls <- Three, Exceptions <- {"x", "y"},
              Guardians <- {"g", "h"}, Required <- 2, MaxTime <- LastTime, queue <- exceptionQueue,
              call <- approval, asked <- approved

ApprovalsInOrder == InOrder(Three, LAMBDA c : approval[c].pc # "idle")

-----------------------------------------------------------------------------
Orders == [pricing : STRING, status : STRING, amount : BOOLEAN, rail : BOOLEAN, quote : BOOLEAN,
           lane : BOOLEAN]
Envelopes == [type : {"free_test", "quote_intake", "paid_execution"}, pricing : STRING,
              status : STRING \cup {"quote_requested", "free_test"}, paid : BOOLEAN,
              amount : BOOLEAN, rail : BOOLEAN, quote : BOOLEAN, lane : BOOLEAN, at : Nat]

TermsRecords == [to : STRING, gross : Nat, seller : Nat, fee : Nat]
HostedRecords ==
    [amount : Nat, to : STRING, gross : Nat, seller : Nat, fee : Nat, payee : STRING]
IntentRecords ==
    [gross : Nat, status : {"pending", "approved", "executed", "settled"},
     hire : {"none", "completed", "failed", "rejected", "pending", "undelivered"},
     entry : {"none", "authorized", "settled", "failed"}, moved : BOOLEAN]

ASSUME ServicesAssumption ==
    /\ {LastTime, SignInLife, ChallengeLife, CodeLife, SessionLife} \subseteq Nat
    /\ Nothing \notin Workshop!ChallengeRecords
    \* The target above the minimum is asked by the script; a slippage of all or more, and
    \* an empty pool, give no quote.
    /\ {MinNative, TargetNative, MaxUsdc, Treasury, FirstNative, MaxMoves, MaxGas} \subseteq Nat
    /\ MinNative < TargetNative
    /\ SlippageBps \in 0..9999
    /\ Markets \subseteq [price : Nat, reserveIn : Nat \ {0}, reserveOut : Nat]
    \* A replay is remembered for as long as a timestamp can be in time on both sides: so it
    \* is by default, and the starter does not compare the two settings.
    /\ {MaxAge, ReplayTtl, IngressTime} \subseteq Nat /\ ReplayTtl >= 2 * MaxAge
    /\ Skews \subseteq Int
    /\ Nothing \notin Int /\ Nothing \notin Envelopes
    /\ HireOrders \subseteq Orders
    \* A quoted hire that is paid names its quote, or comes from the activation lane.
    /\ \A o \in HireOrders : o.pricing = "quote-required" /\ o.status # "not-required"
                               => o.quote \/ o.lane
    /\ HirePackages \subseteq Ingress!Package
    \* A file that is uploaded has a size; the scanner is there or not, required or not.
    /\ Retention \in Nat
    /\ ArtFiles \subseteq [kind : STRING, facts : SUBSET STRING, size : Nat, mode : STRING]
    /\ ArtPolicies \subseteq [scanner : BOOLEAN, required : BOOLEAN]
    /\ {MaxQuotes, MaxPays, MaxEdits} \subseteq Nat /\ MaxTries \in Nat \ {0}
    /\ AskedTerms \in [Bought -> SUBSET TermsRecords] /\ NotPaid \subseteq Bought
    /\ Nothing \notin IntentRecords /\ Nothing \notin HostedRecords
    /\ Nothing # Empty /\ Nothing \notin Seals /\ Empty \notin Seals
    /\ Nothing \notin Blobs!Records

Parts == {"flow", "sponsor", "books", "artifacts", "receipts", "board", "workshop", "hosted",
          "blobs", "lane", "ingress", "tools", "gas", "proofs", "exceptions"}

\* A part that does not move begins in one of its initial states.
ServicesInit ==
    /\ part \in Parts
    /\ LiveInit /\ Books!RecInit /\ Store!ArtInit /\ Board!BoardInit
    /\ part \notin {"artifacts"} => policy.scanner
    /\ Workshop!WorkshopInit /\ Hosted!HostedInit
    /\ Blobs!BlobInit /\ PlainConfig
    /\ part # "blobs" => config.kms = "file" /\ config.objects = "local" /\ config.provider = "local-root"
    /\ Lane!ReadinessInit
    /\ profile = ActiveAgent /\ runtime.connected
    /\ Ingress!IngressInit
    /\ part # "ingress" => skew = CHOOSE s \in Skews : TRUE
    /\ Tools!ToolsInit
    /\ part # "tools" => \A s \in Bought : terms[s] = CHOOSE t \in AskedTerms[s] : TRUE
    /\ Gas!GasInit
    /\ part # "gas" => market.price = 20
    /\ Proof!ProofInit
    /\ file.session = "a" /\ (part # "proofs" => file.mode = "fast")
    /\ Privacy!ExceptionsInit
    /\ <<"x", "g">> \in approved

flowVars == <<status, plan, report, events, chain, late, flow, asked, wallet, queue, runner, astray>>

Still(moving, group, variables) == IF group = moving THEN TRUE ELSE UNCHANGED variables

\* Nothing moves but one group of variables, and those the parts have in common.
Only(moving) ==
    /\ UNCHANGED part
    /\ Still(moving, "live", flowVars) /\ Still(moving, "books", recVars)
    /\ Still(moving, "store", artVars) /\ Still(moving, "board", boardVars)
    /\ Still(moving, "access", accessVars) /\ Still(moving, "blobs", blobVars)
    /\ Still(moving, "lane", laneVars) /\ Still(moving, "ingress", ingressVars)
    /\ Still(moving, "tools", toolVars) /\ Still(moving, "gas", gasVars)
    /\ Still(moving, "proofs", proofVars) /\ Still(moving, "exceptions", exceptionVars)

LiveParts ==
    /\ part \in {"flow", "sponsor"} /\ Only("live") /\ UNCHANGED <<now, edits>>
    /\ IF part = "flow" THEN ~astray /\ UNCHANGED sponsoring /\ LiveNext
                        ELSE UNCHANGED asked /\ LiveNext

BooksPart ==
    /\ part = "books" /\ Only("books") /\ UNCHANGED <<crashes, edits>>
    /\ Books!RecNext /\ PaymentsInOrder' /\ (now' # now => run = NoRun)

StoreParts ==
    /\ part \in {"artifacts", "receipts"} /\ Only("store") /\ UNCHANGED edits
    /\ IF part = "artifacts" THEN (Store!ArtifactNext \/ Store!Crash) /\ UploadsInOrder'
                             ELSE Store!ReceiptNext \/ Store!Crash

BoardPart ==
    /\ part = "board" /\ Only("board") /\ UNCHANGED edits
    /\ Board!BoardNext /\ PostsInOrder'

AccessParts ==
    /\ part \in {"workshop", "hosted"} /\ Only("access") /\ UNCHANGED <<crashes, edits>>
    /\ IF part = "workshop"
       THEN /\ Workshop!WorkshopNext /\ WorkshopInOrder'
            /\ UNCHANGED <<hosted, hostedCall, issued, shown, entered>>
       ELSE /\ Hosted!HostedNext /\ HostedInOrder'
            /\ UNCHANGED <<store, workshopCall, proved, claimed>>

BlobsPart ==
    /\ part = "blobs" /\ Only("blobs") /\ UNCHANGED <<now, edits>>
    /\ Blobs!BlobNext /\ SealsInOrder'

LanePart ==
    /\ part = "lane" /\ Only("lane") /\ UNCHANGED crashes
    /\ Lane!ReadinessNext /\ PaidCallsInOrder' /\ ~paidCall'[2].private

IngressPart ==
    /\ part = "ingress" /\ Only("ingress") /\ UNCHANGED <<crashes, edits>>
    /\ Ingress!IngressNext /\ CopiesInOrder'

ToolsPart ==
    /\ part = "tools" /\ Only("tools") /\ UNCHANGED <<now, crashes>>
    /\ Tools!ToolsNext /\ SomeServicesPay'

GasPart ==
    /\ part = "gas" /\ Only("gas") /\ UNCHANGED <<now, crashes, edits>>
    /\ Gas!GasNext

ProofPart ==
    /\ part = "proofs" /\ Only("proofs") /\ UNCHANGED <<now, crashes>>
    /\ Proof!ProofNext

PrivacyPart ==
    /\ part = "exceptions" /\ Only("exceptions") /\ UNCHANGED <<crashes, edits>>
    /\ Privacy!ExceptionsNext /\ ApprovalsInOrder'

ServicesNext ==
    \/ LiveParts \/ BooksPart \/ StoreParts \/ BoardPart \/ AccessParts \/ BlobsPart \/ LanePart
    \/ IngressPart \/ ToolsPart \/ GasPart \/ ProofPart \/ PrivacyPart

allVars == <<part, now, crashes, edits, flowVars, recVars, artVars, boardVars, accessVars, blobVars,
             laneVars, ingressVars, toolVars, gasVars, proofVars, exceptionVars>>

ServicesSpec == ServicesInit /\ [][ServicesNext]_allVars

-----------------------------------------------------------------------------
\* Each property below is about the part that moves, which keeps its types too.

\* As in Reconciliation (handleX402Reconciliation and the payment ledger).
BooksAddUp ==
    part = "books" =>
        Books!RecTypeOK /\ Books!TransfersMatchedOnce /\ Books!CompletionsCountedOnce


\* As in ArtifactStore (createArtifact, cleanupExpired, the download routes).
ArtifactsHold ==
    /\ part \in {"artifacts", "receipts"} => Store!ArtTypeOK
    /\ part = "artifacts" => Store!ArtifactsAreWhole /\ Store!ServedIsScanned

\* As in MessageBoard (postAgentBoardMessage and the anchor candidates).
BoardHolds ==
    part = "board" =>
        /\ Board!BoardTypeOK /\ Board!OneMessagePerClientId
        /\ Board!ProofsWithinBudget /\ Board!SummaryCountsOnce

\* As in WorkshopBeta and HostedWorkspaces (the sessions and bindings both give).
AccessIsEarned ==
    /\ part = "workshop" => Workshop!WorkshopTypeOK /\ Workshop!BindingsAreEarned
    /\ part = "hosted" => Hosted!HostedTypeOK /\ Hosted!SessionsAreProven

\* As in SealedBlobs (the key broker, the blob store and the gateways).
BlobsHold ==
    part = "blobs" =>
        Blobs!BlobTypeOK /\ Blobs!SealedIsReadable /\ Blobs!KeysAreAudited /\ Blobs!DeletionsAreTrue

\* As in Readiness (listActivationLaneCandidates, the hire route and the directory).
LaneHolds ==
    part = "lane" =>
        Lane!ReadinessTypeOK /\ Lane!OneProbeAtATime /\ Lane!ProbesAreCapped /\ Lane!ShownReadyIsAdmitted

\* As in HireIngress (the ingress's replay cache, and both sides' checks of a return).
IngressHolds ==
    part = "ingress" => Ingress!IngressTypeOK /\ Ingress!RunsOnce /\ Ingress!BothSidesAgree

\* As in BuyerTools (buyer-payment-check.mjs, the SDK and the platform's checks).
ToolsHold ==
    part = "tools" => Tools!ToolsTypeOK /\ Tools!CheckAndPlatformAgree /\ Tools!CompletedIsPaid

\* As in GasTopUp (top-up-facilitator-gas.mjs).
TopUpsAreBounded == part = "gas" => Gas!GasTypeOK /\ Gas!TopUpsAreBounded

\* As in AgentProof and PrivacyExceptions (verifyAgentProofBundle, approvePrivacyException).
ProofsHold ==
    /\ part = "proofs" =>
          /\ Proof!ProofTypeOK /\ Proof!HonestIsAccepted /\ Proof!VerifiedIsTrue /\ Proof!AlteredIsRefused
    /\ part = "exceptions" => Privacy!ExceptionsTypeOK /\ Privacy!GrantsAreEarned
=============================================================================
