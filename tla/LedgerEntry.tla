----------------------------- MODULE LedgerEntry -----------------------------
(***************************************************************************)
(* One entry of the payment ledger kept by the control plane              *)
(* (apps/indexer/src/control-plane.ts) and the functions that compute its *)
(* next value.  An entry belongs to one signed x402 payment payload; it is *)
(* found by the payload's digest.  Identifiers, amounts, timestamps and    *)
(* message texts are left out; every field a later decision reads is kept: *)
(*                                                                         *)
(*   pay      paymentStatus, "absent" when there is no entry               *)
(*   exec     executionStatus                                              *)
(*   ret      returnStatus                                                 *)
(*   hire     hireRequestId                                                *)
(*   hashes   which settlement transaction hashes are recorded             *)
(*   err      the class of errorCode                                       *)
(*   fin      settlementRecovery.settlementFinalizerStatus                 *)
(***************************************************************************)

CONSTANTS
    Hires,      \* hire request ids
    NoHire      \* an entry that names no hire request

ASSUME NoHireAssumption == NoHire \notin Hires

FinalStatus ==
    {"settled", "already_settled", "seller_settled", "protocol_fee_settled",
     "partially_settled"}

\* Statuses of an attempt that has not produced an execution result yet.
EarlyStatus ==
    {"payment_challenged", "payment_submitted", "authorization_verified",
     "payment_verified", "not_settled", "execution_forwarded"}

ExecutionResultStatus ==
    {"execution_completed", "execution_failed", "return_rejected"}

PaymentStatus ==
    FinalStatus \union EarlyStatus \union ExecutionResultStatus \union
    {"settlement_failed", "unmatched_relayer_transaction"}

ExecutionStatus == {"not_started", "submitted", "forwarded", "completed", "failed"}
ReturnStatus    == {"none", "accepted", "rejected"}
HashKinds       == {"seller", "protocolFee", "other"}
ErrorClass      == {"none", "failed", "retry_failed", "expired_for_retry",
                    "expired_no_ledger"}
FinalizerStatus == {"none", "running", "failed"}

Entries ==
    [pay     : PaymentStatus \union {"absent"},
     exec    : ExecutionStatus,
     ret     : ReturnStatus,
     hire    : Hires \union {NoHire},
     hashes  : SUBSET HashKinds,
     err     : ErrorClass,
     fin     : FinalizerStatus]

AbsentEntry ==
    [pay |-> "absent", exec |-> "not_started", ret |-> "none", hire |-> NoHire,
     hashes |-> {}, err |-> "none", fin |-> "none"]

Exists(e) == e.pay # "absent"
Done(e)   == e.exec = "completed" /\ e.ret = "accepted"

\* Whether the server treats the payment as settled.
HasSettled(e) == e.pay \in {"settled", "already_settled"} \/ e.hashes # {}

-----------------------------------------------------------------------------

\* The status the recorded transaction hashes stand for.
InferStatus(hashes) ==
    CASE {"seller", "protocolFee"} \subseteq hashes -> "settled"
      [] "seller" \in hashes /\ "protocolFee" \notin hashes -> "seller_settled"
      [] "seller" \notin hashes /\ "protocolFee" \in hashes -> "protocol_fee_settled"
      [] hashes = {"other"} -> "settled"
      [] OTHER -> "payment_verified"

\* The statuses that do not give way to a candidate.
Keeps(old, new) ==
    /\ old # "absent"
    /\ new \notin FinalStatus
    /\ \/ old \in FinalStatus
       \/ old = "settlement_failed"
       \/ old \in ExecutionResultStatus /\ new \in EarlyStatus

MergeStatus(old, new) == IF Keeps(old, new) THEN old ELSE new

\* Mutant: the new hashes replace the recorded ones.
RecordSettlementDropsHashes(e, status, newHashes, errorClass) ==
    LET candidate == IF status # "inferred" THEN status ELSE InferStatus(newHashes)
    IN  [e EXCEPT !.pay = MergeStatus(@, candidate),
                  !.hashes = newHashes,
                  !.err = errorClass]

\* An authorization, an expired payload or a facilitator settlement is recorded:
\* status "inferred" leaves the status to the hashes.
RecordSettlement(e, status, newHashes, errorClass) ==
    LET hashes    == e.hashes \union newHashes
        candidate == IF status # "inferred" THEN status
                     ELSE IF hashes = {} /\ Exists(e) THEN e.pay
                     ELSE InferStatus(hashes)
        pay       == MergeStatus(e.pay, candidate)
        final     == pay \in FinalStatus
    IN  [e EXCEPT !.pay = pay,
                  !.hashes = hashes,
                  !.err = IF final THEN "none"
                          ELSE IF errorClass # "none" THEN errorClass ELSE @,
                  !.fin = IF final THEN "none" ELSE @]

\* What an execution result asks the payment status to become.
ExecutionCandidate(e, exec, ret) ==
    CASE ret = "rejected" -> "return_rejected"
      [] ret # "rejected" /\ exec = "completed" -> "execution_completed"
      [] ret # "rejected" /\ exec = "failed" -> "execution_failed"
      [] ret # "rejected" /\ exec = "forwarded" -> "execution_forwarded"
      [] OTHER -> e.pay

\* Mutant: an accepted return gives way to a later failure.
UpdateExecutionForgets(e, h, newExec, newRet, errorClass) ==
    IF ~Exists(e) THEN e
    ELSE [e EXCEPT !.hire = h, !.exec = newExec, !.ret = newRet,
                   !.pay = MergeStatus(@, ExecutionCandidate(e, newExec, newRet)),
                   !.err = errorClass]

\* The outcome of hire request h is written to the entry.  An accepted return is
\* not taken back by a later failure; the entry names h whatever happens.
UpdateExecution(e, h, newExec, newRet, errorClass) ==
    LET exec == IF Done(e) /\ newExec # "completed" THEN "completed" ELSE newExec
        ret  == IF Done(e) /\ newRet # "accepted" THEN e.ret ELSE newRet
        done == exec = "completed" /\ ret = "accepted"
    IN  IF ~Exists(e) THEN e
        ELSE [e EXCEPT !.hire = h,
                       !.exec = exec,
                       !.ret = ret,
                       !.pay = MergeStatus(@, ExecutionCandidate(e, exec, ret)),
                       !.err = IF done THEN "none"
                               ELSE IF errorClass # "none" THEN errorClass ELSE @]

RecordSettlementFailure(e) ==
    IF ~Exists(e) THEN e
    ELSE [e EXCEPT !.pay = "settlement_failed", !.err = "failed", !.fin = "failed"]

MarkFinalizer(e, status) ==
    IF ~Exists(e) \/ e.pay \in FinalStatus THEN e
    ELSE [e EXCEPT !.fin = status]

AnnotateRetryFailure(e, errorClass) ==
    IF ~Exists(e) THEN e ELSE [e EXCEPT !.err = errorClass]
=============================================================================
