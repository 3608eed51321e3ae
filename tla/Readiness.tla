-------------------------------- MODULE Readiness --------------------------------
(***************************************************************************)
(* When an agent may be paid: the readiness that the directory, the        *)
(* console and the ready route show (buildAgentReadinessState), the gates  *)
(* of the hire route and of submitHireRequest, and the activation lane,    *)
(* whose poller (examples/agents/agent-job-pack-render-demo) pays small    *)
(* probes to agents that have not proven paid work yet.                    *)
(*                                                                         *)
(* One agent.  A tick is half an hour; a request is past its gates, and    *)
(* the poller done with its candidate, within one.  Which payments are of  *)
(* the lane is told by their kind: the comparison of amounts that also     *)
(* catches ordinary jobs of the same price is left out, and so is the      *)
(* operator's force.                                                       *)
(***************************************************************************)
EXTENDS Naturals, FiniteSets

CONSTANTS
    Calls,          \* paid hires of the agent
    Profiles,       \* [active, owned, published, pricing, relay, ready, anchored]
    Runtimes,       \* [connected, beat, timing, probe]
    MaxFailed,      \* ACTIVATION_LANE_MAX_FAILED_PROBES
    Stale, Cooldown, Guard,     \* half an hour, one hour, six hours
    MaxTime, MaxEdits, MaxFaults,
    Nothing

Kinds == {"lane", "public", "ordinary"}

VARIABLES
    now,
    profile,    \* of the agent, with whether a completion of its is anchored
    runtime,    \* its relay connection and its last heartbeat
    call,       \* call -> [pc, kind, private]
    hire,       \* file: call -> the hire record
    entry,      \* file: call -> the ledger entry of its payment
    attempts,   \* file: when the lane last tried, and how often it failed
    poller,     \* [pc, call, last]: last is its own file
    edits, faults

readinessVars == <<now, profile, runtime, call, hire, entry, attempts, poller, edits, faults>>

-----------------------------------------------------------------------------
(* What is known of the agent.                                            *)

\* paidExecutionTerminalOutcome
Outcome(c) ==
    IF hire[c].status # "submitted" THEN hire[c].status
    ELSE IF now - hire[c].at >= Stale THEN "failed"
    ELSE "pending"

Hires == {c \in Calls : hire[c] # Nothing}

\* isActivationLaneHireRequest
Probes == {c \in Hires : call[c].kind # "ordinary"}

\* paidExecutionProofForSession, and the probe its heartbeat reports.
Proven(includePrivate) ==
    \/ \E c \in Hires : Outcome(c) = "completed" /\ (includePrivate \/ ~call[c].private)
    \/ profile.anchored \/ runtime.probe

FailedProbes == Cardinality({c \in Probes : Outcome(c) = "failed"})

HeartbeatLive == runtime.beat # "stale"

Connected == profile.relay /\ runtime.connected

Reachable == IF profile.relay THEN runtime.connected ELSE HeartbeatLive

\* hasReadyPaymentProfile, computePaidJobsEnabled
PaymentReady == profile.pricing = "free-test" \/ profile.ready
PaidJobsEnabled ==
    profile.active /\ profile.published /\ profile.pricing = "fixed-exact" /\ PaymentReady

\* Mutant: the ownership of the endpoint is not asked.
HireableUnowned(proven) ==
    /\ profile.active /\ profile.published
    /\ Reachable /\ HeartbeatLive /\ PaymentReady
    /\ (profile.pricing = "free-test" \/ proven)

\* A relay agent of a fixed price must report the timing of its worker.
Hireable(proven) ==
    /\ profile.active /\ profile.owned /\ profile.published
    /\ Reachable /\ HeartbeatLive /\ PaymentReady
    /\ (profile.pricing = "fixed-exact" /\ Connected => runtime.timing)
    /\ (profile.pricing = "free-test" \/ proven)

\* What each view shows of it: the directory counts private jobs as proof, the public
\* console and the ready route do not.
DirectoryEntry ==
    LET proven == Proven(TRUE)
    IN  [hireable |-> Hireable(proven),
         ready    |-> /\ Hireable(proven)
                      /\ (profile.pricing = "free-test" \/ (PaidJobsEnabled /\ proven))]

ConsoleReadiness == [hireable |-> Hireable(Proven(FALSE)), proven |-> Proven(FALSE)]

ReadyRoute ==
    [online |-> Connected \/ (HeartbeatLive /\ Reachable),
     ready  |-> \/ profile.pricing = "free-test"
                \/ PaymentReady /\ PaidJobsEnabled /\ ConsoleReadiness.proven]

-----------------------------------------------------------------------------
(* The gates.                                                             *)

\* A connected relay is as good as a heartbeat; otherwise the last one must not be about
\* to lapse.
SafeToPay == Reachable /\ (Connected \/ runtime.beat = "live")

\* handleAgentHireRequest, before a payment is asked for and before it is recorded.
RouteAdmits(kind) ==
    /\ profile.active /\ profile.owned /\ profile.published
    /\ profile.pricing # "free-test" /\ profile.ready
    /\ kind = "ordinary" => PaidJobsEnabled /\ ConsoleReadiness.proven
    /\ SafeToPay

\* submitHireRequest, which reads everything again; a self-hosted endpoint is fetched.
SubmitAdmits(kind, answers) ==
    /\ profile.active /\ profile.owned /\ profile.published
    /\ profile.ready /\ profile.pricing # "free-test"
    /\ IF profile.relay THEN runtime.connected ELSE answers
    /\ kind = "ordinary" => PaidJobsEnabled
    /\ Connected \/ runtime.beat = "live"
    /\ kind = "ordinary" => Proven(TRUE)

Ask(c, kind, private) ==
    call' = [call EXCEPT ![c] = [pc |-> "asked", kind |-> kind, private |-> private]]

\* A buyer sends a payment, for a job or for a probe of its own.
Hire(c, kind, private) ==
    /\ call[c].pc = "idle" /\ kind # "lane"
    /\ Ask(c, kind, private)
    /\ UNCHANGED <<now, profile, runtime, hire, entry, attempts, poller, edits, faults>>

\* The payment is verified and its entry recorded; one refused leaves no trace.
Authorize(c) ==
    /\ call[c].pc = "asked"
    /\ IF RouteAdmits(call[c].kind)
       THEN /\ call' = [call EXCEPT ![c].pc = "authorized"]
            /\ entry' = [entry EXCEPT ![c] = [final |-> FALSE, at |-> now]]
       ELSE /\ call' = [call EXCEPT ![c].pc = "refused"]
            /\ UNCHANGED entry
    /\ UNCHANGED <<now, profile, runtime, hire, attempts, poller, edits, faults>>

\* The hire is recorded and forwarded.  A refusal here leaves the entry authorized.
Submit(c, answers) ==
    /\ call[c].pc = "authorized"
    /\ IF SubmitAdmits(call[c].kind, answers)
       THEN /\ call' = [call EXCEPT ![c].pc = "running"]
            /\ hire' = [hire EXCEPT ![c] = [status |-> "submitted", at |-> now]]
       ELSE /\ call' = [call EXCEPT ![c].pc = "refused"]
            /\ UNCHANGED hire
    /\ UNCHANGED <<now, profile, runtime, entry, attempts, poller, edits, faults>>

\* The return, at once or late.  A completion without a verified delivery is refused,
\* which fails the entry and leaves the record as it was; an acknowledgement leaves both
\* open.
Return(c, result) ==
    /\ call[c].pc = "running"
    /\ hire' = IF result \in {"completed", "failed"}
               THEN [hire EXCEPT ![c].status = result] ELSE hire
    /\ entry' = [entry EXCEPT ![c] = [final |-> result # "acknowledged", at |-> now]]
    /\ call' = [call EXCEPT ![c].pc = IF result = "acknowledged" THEN "late" ELSE "done"]
    /\ UNCHANGED <<now, profile, runtime, attempts, poller, edits, faults>>

LateReturn(c, result) ==
    /\ call[c].pc = "late"
    /\ hire' = [hire EXCEPT ![c].status = result]
    /\ entry' = [entry EXCEPT ![c] = [final |-> TRUE, at |-> now]]
    /\ call' = [call EXCEPT ![c].pc = "done"]
    /\ UNCHANGED <<now, profile, runtime, attempts, poller, edits, faults>>

-----------------------------------------------------------------------------
(* The activation lane.                                                   *)

\* hasRecentUnresolvedActivationLanePayment
Unresolved(c) ==
    /\ entry[c] # Nothing /\ ~entry[c].final
    /\ call[c].kind # "ordinary" /\ now - entry[c].at <= Guard

\* activationLaneFailureCapReached
FailureCapReached == FailedProbes >= MaxFailed \/ attempts.failed >= MaxFailed

\* listActivationLaneCandidates: whether the agent is listed.  Neither its publication
\* nor its ownership is looked at.
Candidate ==
    /\ profile.active /\ profile.pricing # "free-test" /\ profile.ready
    /\ ~Proven(TRUE) /\ HeartbeatLive
    /\ (profile.relay => runtime.connected)
    /\ ~\E c \in Calls : Unresolved(c)
    /\ (attempts.last # Nothing => now - attempts.last >= Cooldown)
    /\ ~FailureCapReached

\* recordActivationLaneAttempt; the poller ignores a report that does not arrive.
Report(failed, lost) ==
    IF lost
    THEN /\ faults < MaxFaults /\ faults' = faults + 1
         /\ UNCHANGED attempts
    ELSE /\ attempts' = [last |-> now,
                         failed |-> IF failed THEN attempts.failed + 1 ELSE attempts.failed]
         /\ UNCHANGED faults

Goto(pc) == poller' = [poller EXCEPT !.pc = pc]

\* activation_lane_loop: the candidate is looked up, unless it was tried not long ago.
PollerSees(lost) ==
    /\ poller.pc = "idle" /\ Candidate
    /\ poller.last # Nothing => now - poller.last >= Cooldown
    /\ Goto("challenge") /\ Report(FALSE, lost)
    /\ UNCHANGED <<now, profile, runtime, call, hire, entry, edits>>

\* run_builtin_activation_lane_probe
PollerChallenges(lost) ==
    /\ poller.pc = "challenge"
    /\ Goto(IF RouteAdmits("lane") THEN "start" ELSE "save")
    /\ Report(~RouteAdmits("lane"), lost)
    /\ UNCHANGED <<now, profile, runtime, call, hire, entry, edits>>

PollerStarts(lost) ==
    /\ poller.pc = "start"
    /\ Goto("pay") /\ Report(FALSE, lost)
    /\ UNCHANGED <<now, profile, runtime, call, hire, entry, edits>>

PollerPays(c) ==
    /\ poller.pc = "pay" /\ call[c].pc = "idle"
    /\ Ask(c, "lane", FALSE)
    /\ poller' = [poller EXCEPT !.pc = "wait", !.call = c]
    /\ UNCHANGED <<now, profile, runtime, hire, entry, attempts, edits, faults>>

\* The answer, or the end of the wait for it.
PollerHears(lost) ==
    /\ poller.pc = "wait"
    /\ Goto("save")
    /\ Report(hire[poller.call] = Nothing \/ hire[poller.call].status # "completed", lost)
    /\ UNCHANGED <<now, profile, runtime, call, hire, entry, edits>>

PollerSaves ==
    /\ poller.pc = "save"
    /\ poller' = [pc |-> "idle", call |-> Nothing, last |-> now]
    /\ UNCHANGED <<now, profile, runtime, call, hire, entry, attempts, edits, faults>>

\* Its restart, with its disk or without.
PollerRestarts(forgets) ==
    /\ faults < MaxFaults
    /\ poller' = [pc |-> "idle", call |-> Nothing,
                  last |-> IF forgets THEN Nothing ELSE poller.last]
    /\ faults' = faults + 1
    /\ UNCHANGED <<now, profile, runtime, call, hire, entry, attempts, edits>>

-----------------------------------------------------------------------------
(* The agent and the world.                                               *)

\* Its owner, a moderator, its heartbeat or its connection.
Edit(p, r) ==
    /\ edits < MaxEdits
    /\ profile' = p /\ runtime' = r
    /\ edits' = edits + 1
    /\ UNCHANGED <<now, call, hire, entry, attempts, poller, faults>>

\* refreshSellerReadiness: an agent that is not published yet is, if it can be.
RefreshSellerReadiness ==
    /\ ~profile.published
    /\ profile' = [profile EXCEPT !.published = TRUE]
    /\ UNCHANGED <<now, runtime, call, hire, entry, attempts, poller, edits, faults>>

\* A restart of the service: the requests it was serving are gone.
Restart ==
    /\ faults < MaxFaults
    /\ call' = [c \in Calls |-> IF call[c].pc \in {"asked", "authorized", "running"}
                                THEN [call[c] EXCEPT !.pc = "refused"] ELSE call[c]]
    /\ faults' = faults + 1
    /\ UNCHANGED <<now, profile, runtime, hire, entry, attempts, poller, edits>>

Tick ==
    /\ now < MaxTime
    /\ poller.pc = "idle"
    /\ \A c \in Calls : call[c].pc \notin {"asked", "authorized"}
    /\ now' = now + 1
    /\ UNCHANGED <<profile, runtime, call, hire, entry, attempts, poller, edits, faults>>

-----------------------------------------------------------------------------
ReadinessInit ==
    /\ now = 0 /\ profile \in Profiles /\ runtime \in Runtimes
    /\ call = [c \in Calls |-> [pc |-> "idle", kind |-> "ordinary", private |-> FALSE]]
    /\ hire = [c \in Calls |-> Nothing] /\ entry = [c \in Calls |-> Nothing]
    /\ attempts = [last |-> Nothing, failed |-> 0]
    /\ poller = [pc |-> "idle", call |-> Nothing, last |-> Nothing]
    /\ edits = 0 /\ faults = 0

ReadinessNext ==
    \/ \E c \in Calls :
          \/ \E kind \in Kinds, private \in BOOLEAN : Hire(c, kind, private)
          \/ Authorize(c) \/ PollerPays(c)
          \/ \E answers \in BOOLEAN : Submit(c, answers)
          \/ \E r \in {"completed", "failed", "unverified", "acknowledged"} : Return(c, r)
          \/ \E r \in {"completed", "failed"} : LateReturn(c, r)
    \/ \E lost \in BOOLEAN :
          \/ PollerSees(lost) \/ PollerChallenges(lost) \/ PollerStarts(lost)
          \/ PollerHears(lost) \/ PollerRestarts(lost)
    \/ PollerSaves
    \/ \E p \in Profiles, r \in Runtimes : Edit(p, r)
    \/ RefreshSellerReadiness \/ Restart \/ Tick

ReadinessSpec == ReadinessInit /\ [][ReadinessNext]_readinessVars

-----------------------------------------------------------------------------
\* Every variable has its type.
ReadinessTypeOK ==
    /\ now \in 0..MaxTime /\ edits \in 0..MaxEdits /\ faults \in 0..MaxFaults
    /\ \A c \in Calls :
          /\ call[c].pc \in {"idle", "asked", "authorized", "refused", "running", "late", "done"}
          /\ call[c].kind \in Kinds
          /\ hire[c] # Nothing => hire[c].status \in {"submitted", "completed", "failed"}
          /\ entry[c] # Nothing => entry[c].at \in 0..now
    /\ attempts.failed \in Nat
    /\ poller.pc \in {"idle", "challenge", "start", "pay", "wait", "save"}

Sent == {c \in Calls : call[c].pc # "idle" /\ call[c].kind = "lane"}

\* The lane has one payment of an agent on its way at a time, although the poller forgets
\* what it tried, is restarted while it waits, and its reports are lost: what the service
\* knows (its ledger, the reports that arrived) keeps the agent off the list
\* (listActivationLaneCandidates).
OneProbeAtATime ==
    Cardinality({c \in Sent : call[c].pc = "asked" \/ Unresolved(c)}) <= 1

\* The lane does not pay for an agent that keeps failing more often than the cap says, but
\* for one payment for each report or restart that hid a failure
\* (activationLaneFailureCapReached).
ProbesAreCapped == Cardinality(Sent) <= MaxFailed + faults

\* An agent the directory shows ready for paid work is not refused by the hire route, if
\* its proof is not private and its heartbeat not about to lapse: the two are computed by
\* code that shares little (listRegisteredAgents, handleAgentHireRequest).
ShownReadyIsAdmitted ==
    /\ DirectoryEntry.ready /\ profile.pricing # "free-test"
    /\ Proven(FALSE) /\ runtime.beat # "near"
    => RouteAdmits("ordinary")
=============================================================================
