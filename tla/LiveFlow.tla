-------------------------------- MODULE LiveFlow --------------------------------
(***************************************************************************)
(* The live session turns of the indexer (runLiveSessionTurnFlow in        *)
(* apps/indexer/src/control-plane.ts), the executor that sends their       *)
(* transactions (executeLiveSessionTurnFlow in packages/contracts/src/     *)
(* shared/live-session-turn-flow.ts), the append-only roots of the kernels *)
(* they write, the event log they feed and the sponsor queue that fills    *)
(* the same wallet.                                                        *)
(*                                                                         *)
(* A run keeps four files: its status, the plan of its calls, the report   *)
(* of the steps done and the events.  A crash loses what is in memory.     *)
(* Calls other than the run take turns with it: a load and the save that   *)
(* follows it at once are one step.                                        *)
(***************************************************************************)
EXTENDS Naturals, Sequences, SequencesExt

CONSTANTS
    Labels,         \* the kernel methods that are looked at; the others succeed unseen
    Owners,         \* sessions that ask for sponsoring
    MaxAttempts,    \* sends of one transaction
    MaxAsked, MaxSponsored, MaxCrashes,
    NoTurn, NoFile, NoFlow

\* The calls of a turn, in the order of their plan (buildRuntimeLiveSessionTurnWitnessPlan,
\* buildRuntimeNextTurnWitnessPlan).
TurnCalls(first) ==
    <<first, "acquireLease", "requestApproval", "grantApproval", "reserveBudget",
      "beginTurn", "commitOutput", "settleTurn", "finalizeTurn", "grantDisclosure">>

\* LIVE_FLOW_METHODS, which lists the calls of each plan.
LiveFlowMethods ==
    [kind \in {"first-turn", "next-turn", "abort-turn", "refund-turn", "revoke-disclosure"} |->
       CASE kind = "first-turn"        -> TurnCalls("createSession")
         [] kind = "next-turn"         -> TurnCalls("checkpointSession")
         [] kind = "abort-turn"        -> <<"requestPrivacyException", "abortTurn">>
         [] kind = "refund-turn"       -> <<"refundTurn">>
         [] kind = "revoke-disclosure" -> <<"revokeDisclosure">>]

Kinds == DOMAIN LiveFlowMethods
Methods(kind) == SelectSeq(LiveFlowMethods[kind], LAMBDA l : l \in Labels)

\* The roots of a kernel that one of its methods appends to.
SessionKernel ==
    [createSession     |-> {"sessionHeaderRoot", "sessionMemberRoot"},
     checkpointSession |-> {"sessionCheckpointRoot"}]
TurnKernel ==
    [acquireLease |-> {"activeTurnRoot"}, beginTurn |-> {"activeTurnRoot"},
     commitOutput |-> {"outputRoot"},     finalizeTurn |-> {"finalizationRoot"},
     abortTurn    |-> {"finalizationRoot"}]
ApprovalKernel ==
    [requestApproval         |-> {"approvalRequestRoot"},
     grantApproval           |-> {"approvalDecisionRoot"},
     requestPrivacyException |-> {"privacyExceptionRoot"}]
EscrowKernel ==
    [reserveBudget |-> {"budgetRoot", "nullifierRoot"}, settleTurn |-> {"payoutRoot"},
     refundTurn    |-> {"payoutRoot"}]
DisclosureKernel ==
    [grantDisclosure |-> {"disclosureRoot"}, revokeDisclosure |-> {"revocationRoot"}]

Kernels == {SessionKernel, TurnKernel, ApprovalKernel, EscrowKernel, DisclosureKernel}
KernelOf(label) == CHOOSE k \in Kernels : label \in DOMAIN k
RootsOf(label) == KernelOf(label)[label]
KernelRoots(label) == UNION {KernelOf(label)[m] : m \in DOMAIN KernelOf(label)}
Roots == UNION {RootsOf(l) : l \in Labels}

Jobs == 1..MaxAsked
Calls == Jobs \X Labels

VARIABLES
    status,     \* file: the latest job and how its run goes
    plan,       \* file: the job whose calls are planned
    report,     \* file: the turn and the steps done
    events,     \* file: the events of transactions: <<job, turn, label>>
    chain,      \* external: what was appended to each root
    late,       \* external: transactions that may land later
    flow,       \* the run in memory
    asked,      \* requests so far; a new job and its turn are numbered after its request
    wallet,     \* the sponsored budget and what remains of it
    queue,      \* file: the sponsor jobs
    runner,     \* the run of the sponsor queue, in memory
    astray,     \* history: a transaction landed when nobody waited for its call, or a run
                \* resumed with the plan of another job
    crashes

onChain == <<chain, late>>
sponsoring == <<queue, runner>>
counted == <<astray, crashes>>
liveVars == <<status, plan, report, events, chain, late, flow, asked, wallet, queue, runner,
              astray, crashes>>

-----------------------------------------------------------------------------
(* The run.                                                               *)

PriorTurn == IF status = NoFile THEN 0 ELSE status.turn

\* buildLiveFlowJob: the first turn and the next one are new unless the request names one.
NewJob(kind, turn) ==
    [job |-> asked + 1, kind |-> kind, st |-> "queued", done |-> <<>>,
     turn |-> IF turn # NoTurn THEN turn
              ELSE IF kind \in {"first-turn", "next-turn"} THEN asked + 1 ELSE PriorTurn]

CanResume(kind, turn) ==
    /\ status # NoFile /\ status.st = "failed"
    /\ status.kind = kind /\ turn \in {NoTurn, status.turn}
    /\ Len(status.done) < Len(Methods(kind))

\* A request while a run is in memory is answered by that run.
RunLiveSessionTurnFlow(kind, turn) ==
    /\ flow = NoFlow /\ asked < MaxAsked
    /\ asked' = asked + 1
    /\ status' = IF CanResume(kind, turn) THEN [status EXCEPT !.st = "queued"]
                 ELSE NewJob(kind, turn)
    /\ flow' = [pc |-> "queued", resume |-> CanResume(kind, turn), attempt |-> 1,
                before |-> <<>>]
    /\ UNCHANGED <<plan, report, events, onChain, wallet, sponsoring, counted>>

StartRun ==
    /\ flow # NoFlow /\ flow.pc = "queued"
    /\ status' = [status EXCEPT !.st = "running"]
    /\ flow' = [flow EXCEPT !.pc = "prepare"]
    /\ UNCHANGED <<plan, report, events, onChain, asked, wallet, sponsoring, counted>>

ReportedSteps == IF report = NoFile THEN <<>> ELSE report.steps

\* The run fails: the steps done are those of the report file, whose ever it is.
RunFails ==
    /\ status' = [status EXCEPT !.st = "failed", !.done = ReportedSteps]
    /\ flow' = NoFlow


\* Steps of the report that a resumed run does not repeat.
ResumeSteps ==
    IF flow.resume /\ report # NoFile /\ report.turn = status.turn THEN report.steps ELSE <<>>

\* buildRuntimeFlowWitnessPlan, of the input of the job.
NewPlan == [job |-> status.job, kind |-> status.kind]

\* The executor writes the plan of a new job, or reads the one it finds, and the report.
\* Before that, a configuration or an amount may be missing or wrong.
Prepare ==
    /\ flow # NoFlow /\ flow.pc = "prepare"
    /\ \/ /\ flow.resume => plan # NoFile
          /\ plan' = IF flow.resume THEN plan ELSE NewPlan
          /\ report' = [turn |-> status.turn, steps |-> ResumeSteps]
          /\ flow' = [flow EXCEPT !.pc = "step"]
          /\ UNCHANGED status
          /\ astray' = (astray \/ (flow.resume /\ plan.job # status.job))
       \/ RunFails /\ UNCHANGED <<plan, report, astray>>
    /\ UNCHANGED <<events, onChain, asked, wallet, sponsoring, crashes>>

\* The calls of the plan whose label is not in the report.
Left == SelectSeq(Methods(plan.kind), LAMBDA l : l \notin ToSet(report.steps))

Lengths(label) == [r \in KernelRoots(label) \intersect Roots |-> Len(chain[r])]

Appended(tx) ==
    [r \in Roots |-> IF r \in RootsOf(tx.call[2]) THEN Append(chain[r], tx.call) ELSE chain[r]]

\* One attempt of sendFlowTransaction: the state of the kernel is read, and a transaction
\* is built on it and sent.
Send(outcome) ==
    /\ flow # NoFlow /\ flow.pc = "step" /\ Left # <<>>
    /\ LET label == Head(Left)
           tx == [call |-> <<plan.job, label>>, base |-> Lengths(label)]
       IN  /\ flow' = [flow EXCEPT !.pc = "wait", !.before = Lengths(label)]
           /\ chain' = IF outcome = "lands" THEN Appended(tx) ELSE chain
           /\ late' = IF outcome = "late" THEN late \union {tx} ELSE late
    /\ UNCHANGED <<status, plan, report, events, asked, wallet, sponsoring, counted>>

AwaitedIs(call) == flow # NoFlow /\ flow.pc = "wait" /\ call = <<plan.job, Head(Left)>>

\* A transaction lands if the roots it appends to are as they were when it was built.
LandLate(tx) ==
    /\ tx \in late
    /\ late' = late \ {tx}
    /\ IF \A r \in RootsOf(tx.call[2]) : Len(chain[r]) = tx.base[r]
       THEN /\ chain' = Appended(tx)
            /\ astray' = (astray \/ ~AwaitedIs(tx.call))
       ELSE UNCHANGED <<chain, astray>>
    /\ UNCHANGED <<status, plan, report, events, flow, asked, wallet, sponsoring, crashes>>

KernelChanged == Lengths(Head(Left)) # flow.before

\* waitForStateChange and pushStep: any change of the kernel's state ends the wait.
StepDone ==
    /\ flow # NoFlow /\ flow.pc = "wait" /\ KernelChanged
    /\ report' = [report EXCEPT !.steps = Append(@, Head(Left))]
    /\ flow' = [flow EXCEPT !.pc = "done", !.attempt = 1]
    /\ UNCHANGED <<status, plan, events, onChain, asked, wallet, sponsoring, counted>>

StepTimesOut ==
    /\ flow # NoFlow /\ flow.pc = "wait" /\ ~KernelChanged
    /\ IF flow.attempt < MaxAttempts
       THEN flow' = [flow EXCEPT !.pc = "step", !.attempt = @ + 1] /\ UNCHANGED status
       ELSE RunFails
    /\ UNCHANGED <<plan, report, events, onChain, asked, wallet, sponsoring, counted>>

\* onStep: the status is saved, and the event is recorded and then applied to the wallet
\* (recordLiveFlowStep, ingestEvent).  A save that fails fails the run.
OnStep ==
    /\ flow # NoFlow /\ flow.pc = "done"
    /\ LET label == Last(report.steps)
       IN  status' = [status EXCEPT
               !.done = IF label \in ToSet(@) THEN @ ELSE Append(@, label)]
    /\ flow' = [flow EXCEPT !.pc = "ingest"]
    /\ UNCHANGED <<plan, report, events, onChain, asked, wallet, sponsoring, counted>>

IngestEvent ==
    /\ flow # NoFlow /\ flow.pc = "ingest"
    /\ \/ /\ events' = events \union {<<status.job, status.turn, Last(report.steps)>>}
          /\ flow' = [flow EXCEPT !.pc = "reconcile"]
          /\ UNCHANGED status
       \/ RunFails /\ UNCHANGED events
    /\ UNCHANGED <<plan, report, onChain, asked, wallet, sponsoring, counted>>

ReconcileState ==
    /\ flow # NoFlow /\ flow.pc = "reconcile"
    /\ wallet' = CASE Last(report.steps) = "settleTurn" ->
                          [wallet EXCEPT !.remaining = IF @ = 0 THEN 0 ELSE @ - 1]
                   [] Last(report.steps) = "refundTurn" -> [wallet EXCEPT !.remaining = @ + 1]
                   [] OTHER -> wallet
    /\ flow' = [flow EXCEPT !.pc = "step"]
    /\ UNCHANGED <<status, plan, report, events, onChain, asked, sponsoring, counted>>

FinishRun ==
    /\ flow # NoFlow /\ flow.pc = "step" /\ Left = <<>>
    /\ status' = [status EXCEPT !.st = "succeeded", !.done = report.steps]
    /\ flow' = NoFlow
    /\ UNCHANGED <<plan, report, events, onChain, asked, wallet, sponsoring, counted>>

-----------------------------------------------------------------------------
(* The sponsor queue.                                                     *)

With(st) == {j \in DOMAIN queue : queue[j].st = st}

\* sponsorWallet: one job of a session at a time; the queue runs unless it already does.
SponsorWallet(owner) ==
    /\ Len(queue) < MaxSponsored
    /\ \A j \in With("queued") \union With("running") : queue[j].owner # owner
    /\ queue' = Append(queue, [owner |-> owner, st |-> "queued"])
    /\ runner' = IF runner.pc = "idle" THEN [pc |-> "next", job |-> 0] ELSE runner
    /\ UNCHANGED <<status, plan, report, events, onChain, flow, asked, wallet, counted>>

\* The jobs the queue may take next.
Runnable == With("queued")

TakeJob ==
    /\ runner.pc = "next"
    /\ IF Runnable = {}
       THEN runner' = [pc |-> "idle", job |-> 0] /\ UNCHANGED queue
       ELSE \E j \in Runnable :
              /\ \A k \in Runnable : j <= k
              /\ queue' = [queue EXCEPT ![j].st = "running"]
              /\ runner' = [pc |-> "credit", job |-> j]
    /\ UNCHANGED <<status, plan, report, events, onChain, flow, asked, wallet, counted>>

\* The wallet is credited, or its save fails.
CreditWallet ==
    /\ runner.pc = "credit"
    /\ \/ /\ wallet' = [budget |-> wallet.budget + 1, remaining |-> wallet.remaining + 1]
          /\ runner' = [runner EXCEPT !.pc = "announce"]
          /\ UNCHANGED queue
       \/ /\ queue' = [queue EXCEPT ![runner.job].st = "failed"]
          /\ runner' = [pc |-> "next", job |-> 0]
          /\ UNCHANGED wallet
    /\ UNCHANGED <<status, plan, report, events, onChain, flow, asked, counted>>

\* The event is appended and the job has succeeded; if the append fails, so has the job.
FinishJob(st) ==
    /\ runner.pc = "announce"
    /\ queue' = [queue EXCEPT ![runner.job].st = st]
    /\ runner' = [pc |-> "next", job |-> 0]
    /\ UNCHANGED <<status, plan, report, events, onChain, flow, asked, wallet, counted>>

\* A restart of the process; nothing takes up what was running or queued.
Crash ==
    /\ crashes < MaxCrashes
    /\ crashes' = crashes + 1
    /\ flow' = NoFlow /\ runner' = [pc |-> "idle", job |-> 0]
    /\ UNCHANGED <<status, plan, report, events, onChain, asked, wallet, queue, astray>>

-----------------------------------------------------------------------------
LiveInit ==
    /\ status = NoFile /\ plan = NoFile /\ report = NoFile /\ events = {}
    /\ chain = [r \in Roots |-> <<>>] /\ late = {}
    /\ flow = NoFlow /\ asked = 0
    /\ wallet = [budget |-> 0, remaining |-> 0]
    /\ queue = <<>> /\ runner = [pc |-> "idle", job |-> 0]
    /\ astray = FALSE /\ crashes = 0

LiveNext ==
    \/ \E kind \in {k \in Kinds : Methods(k) # <<>>}, turn \in 1..asked \union {NoTurn} :
          RunLiveSessionTurnFlow(kind, turn)
    \/ StartRun \/ Prepare \/ StepDone \/ StepTimesOut \/ OnStep \/ IngestEvent
    \/ ReconcileState \/ FinishRun
    \/ \E outcome \in {"lands", "lost", "late"} : Send(outcome)
    \/ \E tx \in late : LandLate(tx)
    \/ \E owner \in Owners : SponsorWallet(owner)
    \/ TakeJob \/ CreditWallet
    \/ \E st \in {"succeeded", "failed"} : FinishJob(st)
    \/ Crash

LiveSpec == LiveInit /\ [][LiveNext]_liveVars

-----------------------------------------------------------------------------
\* Every variable has its type.
LiveTypeOK ==
    /\ status # NoFile =>
          /\ status.job \in Jobs /\ status.kind \in Kinds /\ status.turn \in 0..MaxAsked
          /\ status.st \in {"queued", "running", "succeeded", "failed"}
          /\ status.done \in Seq(Labels)
    /\ plan # NoFile => plan.job \in Jobs /\ plan.kind \in Kinds
    /\ report # NoFile => report.turn \in 0..MaxAsked /\ report.steps \in Seq(Labels)
    /\ events \subseteq Jobs \X (0..MaxAsked) \X Labels
    /\ \A r \in Roots : chain[r] \in Seq(Calls)
    /\ flow # NoFlow => flow.pc \in {"queued", "prepare", "step", "wait", "done", "ingest",
                                     "reconcile"}
    /\ queue \in Seq([owner : Owners, st : {"queued", "running", "succeeded", "failed"}])

\* However often a run fails, stops, retries or is resumed, no call of its plan is appended
\* twice to a root, as long as nothing has gone astray (executeLiveSessionTurnFlow,
\* canResumeLiveFlow).
StepsLandOnce ==
    ~astray => \A r \in Roots : IsInjective(chain[r])

\* The event of a step names a call that every root of its method holds, as long as
\* nothing has gone astray (recordLiveFlowStep).
EventsAreBacked ==
    ~astray => \A e \in events : \A r \in RootsOf(e[3]) : <<e[1], e[3]>> \in ToSet(chain[r])

\* The wallet is credited for no sponsor job twice, and for each that has succeeded
\* (runSponsorQueue).
SponsoredOnce ==
    /\ wallet.budget <= Len(queue) - Cardinality(With("queued"))
    /\ Cardinality(With("succeeded")) <= wallet.budget
=============================================================================
