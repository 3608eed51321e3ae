------------------------------- MODULE PaidHire -------------------------------
(***************************************************************************)
(* A fixed-price paid hire from the signed payload to settlement: the hire *)
(* route, the late-return routes, the settlement finalizer, the            *)
(* settlement-retry route, and the three JSON files they share (payment    *)
(* ledger, hire requests, payload vault).                                  *)
(*                                                                         *)
(* Every handler is an asynchronous task of one Node process.  A mutation  *)
(* of a file loads the whole file, computes the next one, and saves it     *)
(* later; other tasks run in between.  A Load stages the next file in      *)
(* *Write[t] and moves the task on; the task's next step waits for Save.   *)
(* The facilitator, the seller's worker and the clock are the environment. *)
(***************************************************************************)
EXTENDS LedgerEntry, Naturals, FiniteSets

CONSTANTS
    Payments,       \* digests of signed payment payloads; also the finalizers
    PaymentOf,      \* the payload presented by each call of the hire route
    Lates,          \* calls that report a seller's return after the fact
    Retries,        \* calls of the settlement-retry route
    Outcomes,       \* what forwarding a hire to the seller can end in
    LateReturns,    \* <<route, outcome>> pairs of late calls
    SettleResults,  \* the sets of hashes a successful settlement can report
    Serialized,     \* TRUE: loads and saves of one file never overlap
    Expiring,       \* payloads whose authorization may expire
    Lapsing,        \* payloads whose record may be past its stay in the vault
    MaxFaults,      \* saves that fail
    MaxCrashes,     \* restarts of the process
    NoWrite

Settlers == Payments \union Retries
Tasks    == Hires \union Lates \union Settlers

ForwardOutcomes ==
    {"throws", "recorded", "noReturn", "completed", "unverified", "failedReturn",
     "invalidReturn", "relayFailed", "ackTimeout"}
LateRoutes   == {"route", "relay", "reconcile"}
LateOutcomes == {"completed", "failed", "invalid"}

ASSUME ConstantsAssumption ==
    /\ PaymentOf \in [Hires -> Payments]
    /\ Outcomes \subseteq ForwardOutcomes
    /\ LateReturns \subseteq (LateRoutes \X LateOutcomes) \ {<<"reconcile", "invalid">>}
    /\ SettleResults \subseteq SUBSET HashKinds
    /\ Serialized \in BOOLEAN
    /\ Expiring \subseteq Payments
    /\ Lapsing \subseteq Payments
    /\ MaxFaults \in Nat
    /\ MaxCrashes \in Nat
    /\ Payments # {}

ASSUME TasksAssumption ==
    /\ Hires \intersect (Lates \union Settlers) = {}
    /\ Lates \intersect Settlers = {}
    /\ Payments \intersect Retries = {}

HireRecords ==
    [status  : {"absent", "submitted", "completed", "failed"},
     return  : {"none", "completed", "failed"},
     invalid : BOOLEAN,
     relay   : {"recorded", "forwarded", "acknowledged", "failed",
                "return_rejected", "reconciled_completed"},
     agent   : {"submitted", "running_or_unknown", "completed", "failed",
                "worker_completed_return_rejected"},
     reached : BOOLEAN,
     pay     : {"authorized", "settled"}]

LedgerFiles == [Payments -> Entries]
HireFiles   == [Hires -> HireRecords]
VaultFiles  == [Payments -> BOOLEAN]

ASSUME NoWriteAssumption ==
    /\ NoWrite \notin LedgerFiles
    /\ NoWrite \notin HireFiles
    /\ NoWrite \notin VaultFiles

VARIABLES
    ledger,         \* data/payment-ledger.json
    hires,          \* data/hire-requests.json
    vault,          \* which signed payloads the x402 payload vault holds
    ledgerWrite, hireWrite, vaultWrite,  \* the file each task is about to save
    submit,         \* the calls of the hire route
    late,           \* the late-return calls
    settle,         \* finalizers (one lock per payload) and retry calls
    charged,        \* external: payloads the facilitator has settled on chain
    expired,        \* external: payloads whose authorization is past its validity
    lapsed,         \* external: payloads whose record is past its stay in the vault
    accepted,       \* history: hires whose verified completed return was accepted
    faults, crashes

files  == <<ledger, hires, vault>>
writes == <<ledgerWrite, hireWrite, vaultWrite>>
jobs   == <<submit, late, settle>>
clock  == <<expired, lapsed>>
vars   == <<files, writes, jobs, charged, clock, accepted, faults, crashes>>

AbsentHire ==
    [status |-> "absent", return |-> "none", invalid |-> FALSE,
     relay |-> "recorded", agent |-> "submitted", reached |-> FALSE,
     pay |-> "authorized"]

InitialRecord == [AbsentHire EXCEPT !.status = "submitted", !.reached = TRUE]

Delivered(h) == hires[h].return = "completed"

-----------------------------------------------------------------------------
(* Loading and saving the files.                                          *)

Quiet(t) == ledgerWrite[t] = NoWrite /\ hireWrite[t] = NoWrite /\ vaultWrite[t] = NoWrite

Free(pending) == Serialized => \A t \in Tasks : pending[t] = NoWrite

StageLedger(t, p, e) ==
    /\ Free(ledgerWrite)
    /\ ledgerWrite' = [ledgerWrite EXCEPT ![t] = [ledger EXCEPT ![p] = e]]
    /\ UNCHANGED <<files, hireWrite, vaultWrite>>

StageHire(t, h, r) ==
    /\ Free(hireWrite)
    /\ hireWrite' = [hireWrite EXCEPT ![t] = [hires EXCEPT ![h] = r]]
    /\ UNCHANGED <<files, ledgerWrite, vaultWrite>>

\* Loading and saving the vault leave out whatever is past its stay: a minute past
\* the payload's expiry, 48 hours after the record was last stored, or behind the
\* 1000 latest.  A record that lapsed may have been stored again: it need not be gone.
StageVault(t, p, kept) ==
    /\ Free(vaultWrite)
    /\ \E gone \in SUBSET lapsed :
          vaultWrite' = [vaultWrite EXCEPT ![t] =
                           [q \in Payments |-> /\ q \notin gone
                                              /\ IF q = p THEN kept ELSE vault[q]]]
    /\ UNCHANGED <<files, ledgerWrite, hireWrite>>

NoStage == UNCHANGED <<files, writes>>

SaveLedger(t) ==
    /\ ledgerWrite[t] # NoWrite
    /\ ledger' = ledgerWrite[t]
    /\ ledgerWrite' = [ledgerWrite EXCEPT ![t] = NoWrite]
    /\ UNCHANGED <<hires, vault, hireWrite, vaultWrite, jobs, charged, clock,
                   accepted, faults, crashes>>

SaveHires(t) ==
    /\ hireWrite[t] # NoWrite
    /\ hires' = hireWrite[t]
    /\ hireWrite' = [hireWrite EXCEPT ![t] = NoWrite]
    /\ UNCHANGED <<ledger, vault, ledgerWrite, vaultWrite, jobs, charged, clock,
                   accepted, faults, crashes>>

SaveVault(t) ==
    /\ vaultWrite[t] # NoWrite
    /\ vault' = vaultWrite[t]
    /\ vaultWrite' = [vaultWrite EXCEPT ![t] = NoWrite]
    /\ UNCHANGED <<ledger, hires, ledgerWrite, hireWrite, jobs, charged, clock,
                   accepted, faults, crashes>>

-----------------------------------------------------------------------------
(* The hire route: verify the payload, record the authorization, keep the  *)
(* payload, submit the hire, forward it to the seller and commit the       *)
(* outcome.                                                                *)

At(a, pc) == submit[a].pc = pc /\ Quiet(a)

\* A call that is over forgets its local state.
Over(job) == [job EXCEPT !.pc = "end", !.out = "none", !.resume = NoHire]
Goto(a, pc) ==
    submit' = [submit EXCEPT ![a] = IF pc = "end" THEN Over(@) ELSE [@ EXCEPT !.pc = pc]]

HireFrame == UNCHANGED <<late, charged, clock, faults, crashes>>

VerifyOk(a) ==
    /\ At(a, "idle")
    /\ PaymentOf[a] \notin expired
    /\ Goto(a, "authorize")
    /\ NoStage /\ UNCHANGED <<settle, accepted>> /\ HireFrame

\* A payload that fails verification: an entry it already has is annotated, an
\* expired one without an entry is recorded, anything else leaves no trace.
VerifyFails(a) ==
    /\ At(a, "idle")
    /\ Goto(a, CASE Exists(ledger[PaymentOf[a]]) -> "annotate"
                 [] ~Exists(ledger[PaymentOf[a]]) /\ PaymentOf[a] \in expired
                       -> "recordExpired"
                 [] OTHER -> "end")
    /\ NoStage /\ UNCHANGED <<settle, accepted>> /\ HireFrame

Annotate(a) ==
    LET p == PaymentOf[a] IN
    /\ At(a, "annotate")
    /\ \E class \in IF p \in expired THEN {"expired_for_retry"}
                                     ELSE {"retry_failed", "failed"} :
          StageLedger(a, p, AnnotateRetryFailure(ledger[p], class))
    /\ Goto(a, "end")
    /\ UNCHANGED <<settle, accepted>> /\ HireFrame

RecordExpired(a) ==
    LET p == PaymentOf[a] IN
    /\ At(a, "recordExpired")
    /\ StageLedger(a, p, RecordSettlement(ledger[p], "not_settled", {}, "expired_no_ledger"))
    /\ Goto(a, "end")
    /\ UNCHANGED <<settle, accepted>> /\ HireFrame

\* "resume" is the hire whose accepted, unsettled delivery the entry names.
Authorize(a) ==
    LET p == PaymentOf[a]
        e == RecordSettlement(ledger[p], "authorization_verified", {}, "none")
    IN  /\ At(a, "authorize")
        /\ StageLedger(a, p, e)
        /\ submit' = [submit EXCEPT ![a].pc = "store",
                                    ![a].resume = IF Done(e) /\ e.hashes = {}
                                                  THEN e.hire ELSE NoHire]
        /\ UNCHANGED <<settle, accepted>> /\ HireFrame

StorePayload(a) ==
    /\ At(a, "store")
    /\ StageVault(a, PaymentOf[a], TRUE)
    /\ Goto(a, IF submit[a].resume # NoHire THEN "resume" ELSE "submit")
    /\ UNCHANGED <<settle, accepted>> /\ HireFrame

\* Start the finalizer of payload p unless it is already running.
Launch(p, h, payload) ==
    settle' = IF settle[p].pc = "idle"
              THEN [settle EXCEPT ![p] = [pc |-> "mark", pay |-> p, hire |-> h,
                                          payload |-> payload, hashes |-> {}]]
              ELSE settle

Resume(a) ==
    LET h == submit[a].resume IN
    /\ At(a, "resume")
    /\ IF Delivered(h)
       THEN Launch(PaymentOf[a], h, TRUE) /\ Goto(a, "end")
       ELSE /\ Goto(a, IF hires[h].status = "absent" THEN "end" ELSE "submit")
            /\ UNCHANGED settle
    /\ NoStage /\ UNCHANGED accepted /\ HireFrame

\* The agent, its profile or the request no longer passes the checks.
SubmitRejected(a) ==
    /\ At(a, "submit")
    /\ Goto(a, "end")
    /\ NoStage /\ UNCHANGED <<settle, accepted>> /\ HireFrame

Submit(a) ==
    /\ At(a, "submit")
    /\ StageHire(a, a, InitialRecord)
    /\ Goto(a, "forward")
    /\ UNCHANGED <<settle, accepted>> /\ HireFrame

Forward(a, out) ==
    /\ At(a, "forward")
    /\ submit' = [submit EXCEPT ![a] =
                     CASE out = "throws" -> Over(@)
                       [] out = "unverified" -> [@ EXCEPT !.pc = "update", !.out = out]
                       [] OTHER -> [@ EXCEPT !.pc = "commit", !.out = out]]
    /\ accepted' = IF out = "completed" THEN accepted \union {a} ELSE accepted
    /\ NoStage /\ UNCHANGED settle /\ HireFrame

\* The record that the outcome of the forward asks for.
CommittedRecord(out) ==
    [status  |-> CASE out = "completed" -> "completed"
                   [] out \in {"failedReturn", "invalidReturn"} -> "failed"
                   [] OTHER -> "submitted",
     return  |-> CASE out = "completed" -> "completed"
                   [] out = "failedReturn" -> "failed"
                   [] OTHER -> "none",
     invalid |-> out = "invalidReturn",
     relay   |-> CASE out = "recorded" -> "recorded"
                   [] out = "invalidReturn" -> "return_rejected"
                   [] out = "ackTimeout" -> "acknowledged"
                   [] out = "relayFailed" -> "failed"
                   [] OTHER -> "forwarded",
     agent   |-> CASE out = "completed" -> "completed"
                   [] out = "failedReturn" -> "failed"
                   [] out = "invalidReturn" -> "worker_completed_return_rejected"
                   [] out = "ackTimeout" -> "running_or_unknown"
                   [] OTHER -> "submitted",
     reached |-> out # "relayFailed",
     pay     |-> "authorized"]

\* A completed return that arrived by another route meanwhile is kept; every
\* other change made to the record since Submit is overwritten.
Commit(a) ==
    LET out == submit[a].out IN
    /\ At(a, "commit")
    /\ StageHire(a, a, IF Delivered(a) /\ out # "completed"
                       THEN hires[a] ELSE CommittedRecord(out))
    /\ Goto(a, "update")
    /\ UNCHANGED <<settle, accepted>> /\ HireFrame

\* Write the outcome to the ledger entry; a missing entry is left alone.
WriteOutcome(t, h, exec, ret, class) ==
    LET p == PaymentOf[h] IN
    IF Exists(ledger[p])
    THEN StageLedger(t, p, UpdateExecution(ledger[p], h, exec, ret, class))
    ELSE NoStage

Update(a) ==
    LET out == submit[a].out IN
    /\ At(a, "update")
    /\ WriteOutcome(a, a,
          CASE out = "completed" -> "completed"
            [] out \in {"unverified", "failedReturn", "invalidReturn", "relayFailed"}
                  -> "failed"
            [] out = "noReturn" -> "forwarded"
            [] OTHER -> "submitted",
          CASE out = "completed" -> "accepted"
            [] out \in {"unverified", "failedReturn", "invalidReturn"} -> "rejected"
            [] OTHER -> "none",
          IF out \in {"unverified", "invalidReturn", "relayFailed"}
          THEN "failed" ELSE "none")
    /\ Goto(a, IF out = "unverified" THEN "end" ELSE "storeAgain")
    /\ UNCHANGED <<settle, accepted>> /\ HireFrame

StoreAgain(a) ==
    /\ At(a, "storeAgain")
    /\ StageVault(a, PaymentOf[a], TRUE)
    /\ Goto(a, IF submit[a].out = "completed" THEN "launch" ELSE "end")
    /\ UNCHANGED <<settle, accepted>> /\ HireFrame

LaunchFinalizer(a) ==
    /\ At(a, "launch")
    /\ Launch(PaymentOf[a], a, TRUE)
    /\ Goto(a, "end")
    /\ NoStage /\ UNCHANGED accepted /\ HireFrame

HireStep(a) ==
    \/ Annotate(a) \/ RecordExpired(a) \/ Authorize(a) \/ StorePayload(a)
    \/ Resume(a) \/ Submit(a) \/ Commit(a) \/ Update(a) \/ StoreAgain(a)
    \/ LaunchFinalizer(a)
    \/ \E out \in Outcomes : Forward(a, out)

-----------------------------------------------------------------------------
(* Returns that arrive after the fact: POST late-completion ("route"), an   *)
(* unclaimed hire_response on the relay socket ("relay"), and POST          *)
(* reconcile-worker-return ("reconcile").                                  *)

IdleLate == [pc |-> "idle", hire |-> NoHire, via |-> "none", out |-> "none",
             delivered |-> FALSE]
EndedLate == [IdleLate EXCEPT !.pc = "end"]

LateFrame == UNCHANGED <<submit, charged, clock, faults, crashes>>

\* The record that a late return asks for.
LateReturned(r, via, out) ==
    CASE out = "invalid" ->
           [r EXCEPT !.status = "failed", !.invalid = TRUE, !.reached = TRUE,
                     !.relay = "return_rejected",
                     !.agent = "worker_completed_return_rejected"]
      [] out # "invalid" /\ via = "reconcile" ->
           [r EXCEPT !.status = out, !.return = out,
                     !.invalid = @ /\ out # "completed",
                     !.reached = @ \/ out = "completed",
                     !.relay = IF out = "completed" THEN "reconciled_completed" ELSE "failed",
                     !.agent = out]
      [] OTHER ->
           [r EXCEPT !.status = out, !.return = out, !.invalid = FALSE,
                     !.reached = TRUE, !.relay = "forwarded", !.agent = out]

LateRecord(l, h, via, out) ==
    LET next == LateReturned(hires[h], via, out)
    IN  /\ late[l].pc = "idle"
        /\ hires[h].status # "absent"
        /\ StageHire(l, h, next)
        /\ late' = [late EXCEPT ![l] = [pc |-> "update", hire |-> h, via |-> via,
                                        out |-> out,
                                        delivered |-> next.return = "completed"]]
        /\ accepted' = IF out = "completed" THEN accepted \union {h} ELSE accepted
        /\ UNCHANGED settle /\ LateFrame

LateUpdate(l) ==
    LET j == late[l] IN
    /\ j.pc = "update" /\ Quiet(l)
    /\ WriteOutcome(l, j.hire,
          IF j.out = "completed" THEN "completed" ELSE "failed",
          IF j.out = "completed" THEN "accepted" ELSE "rejected",
          IF j.out = "invalid" \/ (j.out = "failed" /\ j.via = "reconcile")
          THEN "failed" ELSE "none")
    /\ late' = [late EXCEPT ![l] = IF j.via = "route" /\ j.delivered
                                   THEN [@ EXCEPT !.pc = "lookup"] ELSE EndedLate]
    /\ UNCHANGED <<settle, accepted>> /\ LateFrame

\* Only the route looks for an unsettled entry of the hire to finalize.
LateLookup(l) ==
    LET h == late[l].hire
        p == PaymentOf[h]
    IN  /\ late[l].pc = "lookup" /\ Quiet(l)
        /\ IF ledger[p].hire = h /\ ~HasSettled(ledger[p])
           THEN Launch(p, h, FALSE) ELSE UNCHANGED settle
        /\ late' = [late EXCEPT ![l] = EndedLate]
        /\ NoStage /\ UNCHANGED accepted /\ LateFrame

LateStep(l) == LateUpdate(l) \/ LateLookup(l)

-----------------------------------------------------------------------------
(* Settlement: the finalizer of payload p is task p; a retry call joins the *)
(* same sequence at "settle" without taking the finalizer's lock.          *)

\* The payload a settlement works on before it has been given one.
SomePayment == CHOOSE p \in Payments : TRUE

IdleSettle == [pc |-> "idle", pay |-> SomePayment, hire |-> NoHire, payload |-> FALSE,
               hashes |-> {}]

SettleAt(t, pc)   == settle[t].pc = pc /\ Quiet(t)
SettleGoto(t, pc) == settle' = [settle EXCEPT ![t].pc = pc]
SettleFrame       == UNCHANGED <<submit, late, accepted, clock, faults, crashes>>

MarkRunning(t) ==
    LET p == settle[t].pay IN
    /\ SettleAt(t, "mark")
    /\ IF Exists(ledger[p]) /\ ledger[p].pay \notin FinalStatus
       THEN StageLedger(t, p, MarkFinalizer(ledger[p], "running")) ELSE NoStage
    /\ SettleGoto(t, "payload")
    /\ UNCHANGED charged /\ SettleFrame

\* The signed payload is in hand or is read back from the vault, and one that has
\* lapsed is not found; the rail may be gone as well.  Reading saves nothing: to
\* delete a record past its expiry the file is loaded again, without it by then.
FindPayload(t) ==
    /\ SettleAt(t, "payload")
    /\ \/ settle[t].payload /\ SettleGoto(t, "settle")
       \/ ~settle[t].payload /\ vault[settle[t].pay] /\ SettleGoto(t, "settle")
       \/ ~settle[t].payload /\ SettleGoto(t, "giveUp")
    /\ NoStage /\ UNCHANGED charged /\ SettleFrame

\* Mutant: the retry route does not ask for a delivery.
RetryStartEager(t, p) ==
    /\ t \in Retries /\ SettleAt(t, "idle")
    /\ ledger[p].hire # NoHire
    /\ ~HasSettled(ledger[p])
    /\ settle' = [settle EXCEPT ![t] = [pc |-> "settle", pay |-> p,
                                        hire |-> ledger[p].hire,
                                        payload |-> TRUE, hashes |-> {}]]
    /\ NoStage /\ UNCHANGED charged /\ SettleFrame

\* The retry route: only an accepted delivery that is not settled yet, going by
\* the hire record or by the entry (which carries the receipt of its outcome).
RetryStart(t, p) ==
    LET e == ledger[p]
        h == e.hire
    IN  /\ t \in Retries /\ SettleAt(t, "idle")
        /\ h # NoHire
        /\ (Delivered(h) /\ ~hires[h].invalid) \/ Done(e)
        /\ ~HasSettled(e)
        /\ settle' = [settle EXCEPT ![t] = [pc |-> "settle", pay |-> p, hire |-> h,
                                            payload |-> TRUE, hashes |-> {}]]
        /\ NoStage /\ UNCHANGED charged /\ SettleFrame

\* The facilitator settles a payload once; asked again it repeats its answer.
Settles(t, hashes) ==
    /\ SettleAt(t, "settle")
    /\ settle[t].pay \in charged \/ settle[t].pay \notin expired
    /\ charged' = charged \union {settle[t].pay}
    /\ settle' = [settle EXCEPT ![t].pc = "record", ![t].hashes = hashes]
    /\ NoStage /\ SettleFrame

\* Mutant: the error is swallowed and the settlement recorded as if it had succeeded.
SettleThrowsSwallowed(t) ==
    /\ SettleAt(t, "settle")
    /\ SettleGoto(t, "record")
    /\ NoStage /\ UNCHANGED charged /\ SettleFrame

\* Every attempt failed or timed out; a timed-out one may have settled.
SettleThrows(t) ==
    /\ SettleAt(t, "settle")
    /\ \/ UNCHANGED charged
       \/ settle[t].pay \notin expired /\ charged' = charged \union {settle[t].pay}
    /\ SettleGoto(t, "fail")
    /\ NoStage /\ SettleFrame

RecordSettled(t) ==
    LET p == settle[t].pay IN
    /\ SettleAt(t, "record")
    /\ StageLedger(t, p, RecordSettlement(ledger[p], "inferred", settle[t].hashes, "none"))
    /\ SettleGoto(t, "markPaid")
    /\ UNCHANGED charged /\ SettleFrame

MarkPaid(t) ==
    LET h == settle[t].hire IN
    /\ SettleAt(t, "markPaid")
    /\ IF hires[h].status # "absent"
       THEN StageHire(t, h, [hires[h] EXCEPT !.pay = "settled"]) ELSE NoStage
    /\ SettleGoto(t, "forget")
    /\ UNCHANGED charged /\ SettleFrame

ForgetPayload(t) ==
    /\ SettleAt(t, "forget")
    /\ \/ vault[settle[t].pay] /\ StageVault(t, settle[t].pay, FALSE)
       \/ (vault[settle[t].pay] => settle[t].pay \in lapsed) /\ NoStage
    /\ SettleGoto(t, "end")
    /\ UNCHANGED charged /\ SettleFrame

\* Mutant: the payload is dropped after a failed settlement as after a good one.
RecordFailedForgets(t) ==
    LET p == settle[t].pay IN
    /\ SettleAt(t, "fail")
    /\ IF Exists(ledger[p])
       THEN StageLedger(t, p, RecordSettlementFailure(ledger[p])) ELSE NoStage
    /\ SettleGoto(t, "forget")
    /\ UNCHANGED charged /\ SettleFrame

RecordFailed(t) ==
    LET p == settle[t].pay IN
    /\ SettleAt(t, "fail")
    /\ IF Exists(ledger[p])
       THEN StageLedger(t, p, RecordSettlementFailure(ledger[p])) ELSE NoStage
    /\ SettleGoto(t, "failed")
    /\ UNCHANGED charged /\ SettleFrame

\* Mutant: a finalizer without a payload ends without a trace.
GiveUpSilently(t) ==
    /\ SettleAt(t, "giveUp")
    /\ SettleGoto(t, "gaveUp")
    /\ NoStage /\ UNCHANGED charged /\ SettleFrame

GiveUp(t) ==
    LET p == settle[t].pay IN
    /\ SettleAt(t, "giveUp")
    /\ IF Exists(ledger[p]) /\ ledger[p].pay \notin FinalStatus
       THEN StageLedger(t, p, MarkFinalizer(ledger[p], "failed")) ELSE NoStage
    /\ SettleGoto(t, "gaveUp")
    /\ UNCHANGED charged /\ SettleFrame

\* A finalizer releases its lock and can be launched again; a retry call is over.
Ended(t) == IF t \in Payments THEN IdleSettle ELSE [IdleSettle EXCEPT !.pc = "done"]

SettleEnds(t) ==
    /\ \E pc \in {"end", "failed", "gaveUp"} : SettleAt(t, pc)
    /\ settle' = [settle EXCEPT ![t] = Ended(t)]
    /\ NoStage /\ UNCHANGED charged /\ SettleFrame

SettleStep(t) ==
    \/ MarkRunning(t) \/ FindPayload(t) \/ SettleThrows(t) \/ RecordSettled(t)
    \/ MarkPaid(t) \/ ForgetPayload(t) \/ RecordFailed(t) \/ GiveUp(t) \/ SettleEnds(t)
    \/ \E hashes \in SettleResults : Settles(t, hashes)

-----------------------------------------------------------------------------
(* Failures and the environment.                                           *)

DropWrites(ts) ==
    /\ ledgerWrite' = [t \in Tasks |-> IF t \in ts THEN NoWrite ELSE ledgerWrite[t]]
    /\ hireWrite'   = [t \in Tasks |-> IF t \in ts THEN NoWrite ELSE hireWrite[t]]
    /\ vaultWrite'  = [t \in Tasks |-> IF t \in ts THEN NoWrite ELSE vaultWrite[t]]

\* Where a settlement goes when the save it awaits rejects: from the facilitator
\* call on, any error is recorded as a settlement failure.
Catch(t) ==
    CASE settle[t].pc \in {"markPaid", "forget", "end"} -> "fail"
      [] settle[t].pc = "failed" /\ t \in Retries -> "done"
      [] OTHER -> "giveUp"

\* A finalizer that cannot even save that it gave up rejects unhandled, which
\* ends the process: that is Crash.
SaveFails(t) ==
    /\ ~Quiet(t)
    /\ faults < MaxFaults
    /\ t \in Settlers => settle[t].pc \notin {"idle", "gaveUp", "done"}
    /\ faults' = faults + 1
    /\ DropWrites({t})
    /\ submit' = IF t \in Hires THEN [submit EXCEPT ![t] = Over(@)] ELSE submit
    /\ late'   = IF t \in Lates THEN [late EXCEPT ![t] = EndedLate] ELSE late
    /\ settle' = IF t \in Settlers THEN [settle EXCEPT ![t].pc = Catch(t)] ELSE settle
    /\ UNCHANGED <<files, charged, clock, accepted, crashes>>

\* The process restarts: every task and every unsaved file is lost.
Crash ==
    /\ crashes < MaxCrashes
    /\ crashes' = crashes + 1
    /\ DropWrites(Tasks)
    /\ submit' = [a \in Hires |-> IF submit[a].pc = "idle" THEN submit[a]
                                  ELSE Over(submit[a])]
    /\ late'   = [l \in Lates |-> IF late[l].pc = "idle" THEN late[l]
                                  ELSE EndedLate]
    /\ settle' = [t \in Settlers |-> IF settle[t].pc = "idle" THEN settle[t]
                                     ELSE Ended(t)]
    /\ UNCHANGED <<files, charged, clock, accepted, faults>>

Expire(p) ==
    /\ p \notin expired
    /\ expired' = expired \union {p}
    /\ UNCHANGED <<files, writes, jobs, charged, lapsed, accepted, faults, crashes>>

Lapse(p) ==
    /\ p \notin lapsed
    /\ lapsed' = lapsed \union {p}
    /\ UNCHANGED <<files, writes, jobs, charged, expired, accepted, faults, crashes>>

-----------------------------------------------------------------------------
Init ==
    /\ ledger = [p \in Payments |-> AbsentEntry]
    /\ hires = [h \in Hires |-> AbsentHire]
    /\ vault = [p \in Payments |-> FALSE]
    /\ ledgerWrite = [t \in Tasks |-> NoWrite]
    /\ hireWrite = [t \in Tasks |-> NoWrite]
    /\ vaultWrite = [t \in Tasks |-> NoWrite]
    /\ submit = [a \in Hires |-> [pc |-> "idle", out |-> "none", resume |-> NoHire]]
    /\ late = [l \in Lates |-> IdleLate]
    /\ settle = [t \in Settlers |-> IdleSettle]
    /\ charged = {} /\ expired = {} /\ lapsed = {} /\ accepted = {}
    /\ faults = 0 /\ crashes = 0

Next ==
    \/ \E a \in Hires : VerifyOk(a) \/ VerifyFails(a) \/ SubmitRejected(a) \/ HireStep(a)
    \/ \E l \in Lates, h \in Hires, r \in LateReturns : LateRecord(l, h, r[1], r[2])
    \/ \E l \in Lates : LateStep(l)
    \/ \E t \in Retries, p \in Payments : RetryStart(t, p)
    \/ \E t \in Settlers : SettleStep(t)
    \/ \E t \in Tasks : SaveLedger(t) \/ SaveHires(t) \/ SaveVault(t) \/ SaveFails(t)
    \/ Crash
    \/ \E p \in Expiring : Expire(p)
    \/ \E p \in Lapsing : Lapse(p)

Spec == Init /\ [][Next]_vars

\* A started task is run to its end: the event loop keeps scheduling it, saves
\* return, and the calls it waits for (worker, facilitator) have timeouts.
\* Nothing obliges a client to call, a payload to expire or a process to crash.
Fairness ==
    /\ \A a \in Hires : WF_vars(HireStep(a))
    /\ \A l \in Lates : WF_vars(LateStep(l))
    /\ \A t \in Settlers : WF_vars(SettleStep(t))
    /\ \A t \in Tasks : /\ WF_vars(SaveLedger(t))
                        /\ WF_vars(SaveHires(t))
                        /\ WF_vars(SaveVault(t))

FairSpec == Spec /\ Fairness

-----------------------------------------------------------------------------
SubmitJobs ==
    [pc     : {"idle", "authorize", "annotate", "recordExpired", "store", "resume",
               "submit", "forward", "commit", "update", "storeAgain", "launch", "end"},
     out    : ForwardOutcomes \union {"none"},
     resume : Hires \union {NoHire}]

LateJobs ==
    [pc        : {"idle", "update", "lookup", "end"},
     hire      : Hires \union {NoHire},
     via       : LateRoutes \union {"none"},
     out       : LateOutcomes \union {"none"},
     delivered : BOOLEAN]

SettleJobs ==
    [pc      : {"idle", "mark", "payload", "settle", "record", "markPaid", "forget",
                "end", "fail", "failed", "giveUp", "gaveUp", "done"},
     pay     : Payments,
     hire    : Hires \union {NoHire},
     payload : BOOLEAN,
     hashes  : SUBSET HashKinds]

\* Every variable has its type: the shapes of the three files, of the writes in
\* flight and of the handlers' local state.
FilesType ==
    /\ ledger \in LedgerFiles
    /\ hires \in HireFiles
    /\ vault \in VaultFiles
    /\ ledgerWrite \in [Tasks -> LedgerFiles \union {NoWrite}]
    /\ hireWrite \in [Tasks -> HireFiles \union {NoWrite}]
    /\ vaultWrite \in [Tasks -> VaultFiles \union {NoWrite}]

JobsType ==
    /\ submit \in [Hires -> SubmitJobs]
    /\ late \in [Lates -> LateJobs]
    /\ settle \in [Settlers -> SettleJobs]

TypeOK ==
    /\ FilesType
    /\ JobsType
    /\ charged \in SUBSET Payments
    /\ expired \in SUBSET Payments
    /\ lapsed \in SUBSET Payments
    /\ accepted \in SUBSET Hires
    /\ faults \in 0..MaxFaults
    /\ crashes \in 0..MaxCrashes

WorkDone(p, done) == \E h \in done : PaymentOf[h] = p

\* The buyer is charged only for work: a payload is settled on chain only if a
\* verified completed return of one of its hires has been accepted, whatever
\* handlers overlap, fail or are cut off by a restart.
ChargeNeedsDelivery ==
    \A p \in charged : \E h \in accepted : PaymentOf[h] = p

\* No store claims money that did not move: transaction hashes, a
\* settlement-final status and a hire marked settled all stand for a charge.
RecordedSettlementIsReal ==
    /\ \A p \in Payments :
          ledger[p].hashes # {} \/ ledger[p].pay \in FinalStatus => p \in charged
    /\ \A h \in Hires : hires[h].pay = "settled" => PaymentOf[h] \in charged

\* A settlement of the entry's payload has been tried.
Tried(e) == e.pay = "settlement_failed" \/ e.fin # "none"

\* What a ledger entry, a hire record or a handler says of deliveries and charges
\* is backed by the accepted returns (done) and the settled payloads (paid).
EntryBacked(p, e, done, paid) ==
    /\ e.hire # NoHire => PaymentOf[e.hire] = p
    /\ Done(e) \/ Tried(e) => WorkDone(p, done)
    /\ e.hashes # {} \/ e.pay \in FinalStatus => p \in paid

HireBacked(h, r, done, paid) ==
    /\ r.return = "completed" => h \in done
    /\ r.pay = "settled" => PaymentOf[h] \in paid

SubmitBacked(a, j, done) ==
    /\ j.out = "completed" => a \in done
    /\ j.pc = "launch" => j.out = "completed"
    /\ j.pc = "resume" => j.resume # NoHire
    /\ j.resume # NoHire => PaymentOf[j.resume] = PaymentOf[a]

LateBacked(j, done) ==
    /\ j.pc \in {"update", "lookup"} => j.hire # NoHire
    /\ j.pc = "update" /\ (j.out = "completed" \/ j.delivered) => j.hire \in done
    /\ j.pc = "lookup" => j.hire \in done

SettleBacked(j, done, paid) ==
    /\ j.pc \notin {"idle", "done"} =>
          j.hire # NoHire /\ PaymentOf[j.hire] = j.pay /\ WorkDone(j.pay, done)
    /\ j.pc \in {"record", "markPaid", "forget"} => j.pay \in paid

FilesBacked ==
    /\ \A p \in Payments : EntryBacked(p, ledger[p], accepted, charged)
    /\ \A h \in Hires : HireBacked(h, hires[h], accepted, charged)
    /\ \A t \in Tasks : ledgerWrite[t] # NoWrite =>
          \A p \in Payments : EntryBacked(p, ledgerWrite[t][p], accepted, charged)
    /\ \A t \in Tasks : hireWrite[t] # NoWrite =>
          \A h \in Hires : HireBacked(h, hireWrite[t][h], accepted, charged)

JobsBacked ==
    /\ \A a \in Hires : SubmitBacked(a, submit[a], accepted)
    /\ \A l \in Lates : LateBacked(late[l], accepted)
    /\ \A t \in Settlers : SettleBacked(settle[t], accepted, charged)

\* Nothing in a file, in a save on its way or in a handler's hands speaks of a
\* delivery or a charge that did not happen, however stale the data it was built
\* from: the inductive strengthening of the two properties above.
Provenance == FilesBacked /\ JobsBacked /\ ChargeNeedsDelivery

\* A hire is only forwarded with its signed payload in the vault, and the payload
\* stays there until it has been charged or its stay is over: no failure, restart or
\* failed settlement before that leaves a delivery the finalizer cannot settle.
PayloadKeptForItsStay ==
    \A h \in Hires :
       hires[h].status # "absent" /\ PaymentOf[h] \notin charged \union lapsed
          => vault[PaymentOf[h]]

Settling(t) == settle[t].pc \notin {"idle", "done"}
AllQuiet ==
    /\ \A a \in Hires : submit[a].pc \in {"idle", "end"}
    /\ \A l \in Lates : late[l].pc \in {"idle", "end"}
    /\ \A t \in Settlers : ~Settling(t)
    /\ \A t \in Tasks : Quiet(t)

\* Once the handlers are through, and none was cut off, a hire whose record holds
\* a completed return has an entry that says completed and accepted, in whatever
\* order late failures, rejected returns and retries of the payload came.
DeliveryReachesLedger ==
    AllQuiet /\ faults = 0 /\ crashes = 0 =>
       \A h \in Hires : Delivered(h) => Done(ledger[PaymentOf[h]])

\* What the ledger has learned it keeps: settlement hashes are never dropped and
\* an accepted return is never taken back.
LedgerNeverForgets ==
    [][\A p \in Payments :
         /\ ledger[p].hashes \subseteq ledger'[p].hashes
         /\ Done(ledger[p]) => Done(ledger'[p])]_vars

\* The outcome of settling p is on record somewhere an operator looks.
Resolved(p) ==
    \/ HasSettled(ledger[p])
    \/ ledger[p].pay = "settlement_failed"
    \/ ledger[p].fin = "failed"
    \/ \E h \in Hires : PaymentOf[h] = p /\ hires[h].pay = "settled"

\* A delivery is followed by a settlement or by a recorded failure to settle.
DeliveryIsResolved ==
    \A h \in Hires : Delivered(h) ~> Resolved(PaymentOf[h])
=============================================================================
