---------------------------- MODULE PaidHireProofs ----------------------------
(***************************************************************************)
(* Proofs about PaidHire for any number of payloads, calls, faults and     *)
(* restarts: the type invariant, the two charging invariants (through the  *)
(* inductive invariant TypeOK /\ Provenance), and, when the saves of a file *)
(* do not overlap, that the ledger never forgets, that a signed payload is *)
(* kept until it is charged or its stay in the vault is over, that a       *)
(* delivery reaches the ledger, and that an entry only names hires that    *)
(* have a record.                                                          *)
(*                                                                         *)
(* Every handler step stages at most one write and changes at most one job *)
(* of each kind, so a step is shown to keep the invariant by showing what  *)
(* it stages (LegalStage) and what it does to the jobs (LegalJobs).  What   *)
(* the functions on a ledger entry return and preserve comes first: each of *)
(* the lemmas there is about one function of LedgerEntry.                   *)
(***************************************************************************)
EXTENDS PaidHire, TLAPS

LEMMA InferStatusType ==
  ASSUME NEW hashes
  PROVE  /\ InferStatus(hashes) \in PaymentStatus
         /\ hashes = {} => InferStatus(hashes) = "payment_verified"
         /\ InferStatus(hashes) # "settlement_failed"
BY DEF InferStatus, PaymentStatus, FinalStatus, EarlyStatus

LEMMA MergeStatusType ==
  ASSUME NEW old \in PaymentStatus \union {"absent"}, NEW new \in PaymentStatus
  PROVE  /\ MergeStatus(old, new) \in PaymentStatus
         /\ MergeStatus(old, new) \in {old, new}
         /\ old \in FinalStatus => MergeStatus(old, new) \in FinalStatus
<1>1. "absent" \notin FinalStatus
  BY DEF FinalStatus
<1> QED
  BY <1>1 DEF MergeStatus, Keeps

LEMMA ExecutionCandidateType ==
  ASSUME NEW e \in Entries, Exists(e), NEW exec \in ExecutionStatus, NEW ret \in ReturnStatus
  PROVE  /\ ExecutionCandidate(e, exec, ret) \in PaymentStatus
         /\ ExecutionCandidate(e, exec, ret) \in ExecutionResultStatus
               \union {"execution_forwarded", e.pay}
<1>1. /\ e.pay \in PaymentStatus
      /\ {"execution_forwarded"} \union ExecutionResultStatus \subseteq PaymentStatus
  BY DEF Entries, Exists, PaymentStatus, EarlyStatus
<1>2. {"return_rejected", "execution_completed", "execution_failed"}
         \subseteq ExecutionResultStatus
  BY DEF ExecutionResultStatus
<1> QED
  BY <1>1, <1>2 DEF ExecutionCandidate

\* Whatever is recorded, the entry keeps its execution outcome and its hire, its
\* hashes grow by the new ones, and its status is final only if it was, is asked
\* to be, or there are hashes to infer it from.
LEMMA RecordSettlementResult ==
  ASSUME NEW e \in Entries,
         NEW status \in PaymentStatus \union {"inferred"},
         NEW newHashes \in SUBSET HashKinds,
         NEW class \in ErrorClass
  PROVE  LET r == RecordSettlement(e, status, newHashes, class)
         IN  /\ r \in Entries
             /\ r.exec = e.exec /\ r.ret = e.ret /\ r.hire = e.hire
             /\ r.hashes = e.hashes \union newHashes
             /\ r.pay \in FinalStatus =>
                   e.pay \in FinalStatus \/ status \in FinalStatus \/ r.hashes # {}
             /\ r.pay = "settlement_failed" =>
                   e.pay = "settlement_failed" \/ status = "settlement_failed"
             /\ r.fin \in {e.fin, "none"}
             /\ Exists(r)
<1> DEFINE hashes == e.hashes \union newHashes
           candidate == IF status # "inferred" THEN status
                        ELSE IF hashes = {} /\ Exists(e) THEN e.pay
                        ELSE InferStatus(hashes)
           pay == MergeStatus(e.pay, candidate)
           r == RecordSettlement(e, status, newHashes, class)
<1>1. /\ e.pay \in PaymentStatus \union {"absent"}
      /\ e.hashes \in SUBSET HashKinds
      /\ e.err \in ErrorClass /\ e.fin \in FinalizerStatus
  BY DEF Entries
<1>2. hashes \in SUBSET HashKinds
  BY <1>1
<1>3. candidate \in PaymentStatus
  BY <1>1, InferStatusType DEF Exists
<1>4. pay \in PaymentStatus /\ pay \in {e.pay, candidate}
  BY <1>1, <1>3, MergeStatusType
<1>5. r = [e EXCEPT !.pay = pay,
                    !.hashes = hashes,
                    !.err = IF pay \in FinalStatus THEN "none"
                            ELSE IF class # "none" THEN class ELSE e.err,
                    !.fin = IF pay \in FinalStatus THEN "none" ELSE e.fin]
  BY DEF RecordSettlement
<1>6. "none" \in ErrorClass /\ "none" \in FinalizerStatus
  BY DEF ErrorClass, FinalizerStatus
<1> HIDE DEF hashes, candidate, pay, r
<1>7. /\ r \in Entries
      /\ r.exec = e.exec /\ r.ret = e.ret /\ r.hire = e.hire
      /\ r.hashes = hashes /\ r.pay = pay
      /\ r.fin \in {e.fin, "none"}
  BY <1>1, <1>2, <1>4, <1>5, <1>6 DEF Entries
<1>8. ASSUME r.pay \in FinalStatus, e.pay \notin FinalStatus, status \notin FinalStatus
      PROVE  r.hashes # {}
  <2>1. candidate \in FinalStatus
    BY <1>4, <1>7, <1>8
  <2>2. candidate = InferStatus(hashes) \/ candidate = e.pay \/ candidate = status
    BY DEF candidate
  <2>3. "payment_verified" \notin FinalStatus
    BY DEF FinalStatus
  <2> QED
    BY <1>7, <1>8, <2>1, <2>2, <2>3, InferStatusType
<1>9. Exists(r)
  <2>1. "absent" \notin PaymentStatus
    BY DEF PaymentStatus, FinalStatus, EarlyStatus, ExecutionResultStatus
  <2> QED
    BY <1>4, <1>7, <2>1 DEF Exists
<1>10. r.pay = "settlement_failed" =>
          e.pay = "settlement_failed" \/ status = "settlement_failed"
  <2>1. candidate \in {e.pay, status, InferStatus(hashes)}
    BY DEF candidate
  <2> QED
    BY <1>4, <1>7, <2>1, InferStatusType
<1> QED
  BY <1>7, <1>8, <1>9, <1>10 DEF r, hashes

\* An execution result never takes an accepted return back, moves no money, and
\* leaves the entry naming the hire it came from.
LEMMA UpdateExecutionResult ==
  ASSUME NEW e \in Entries, Exists(e), NEW h \in Hires,
         NEW newExec \in ExecutionStatus, NEW newRet \in ReturnStatus,
         NEW class \in ErrorClass
  PROVE  LET r == UpdateExecution(e, h, newExec, newRet, class)
         IN  /\ r \in Entries
             /\ r.hire = h
             /\ r.hashes = e.hashes
             /\ r.pay \in FinalStatus <=> e.pay \in FinalStatus
             /\ r.pay = "settlement_failed" => e.pay = "settlement_failed"
             /\ r.fin = e.fin
             /\ Done(r) <=> Done(e) \/ (newExec = "completed" /\ newRet = "accepted")
             /\ Exists(r)
<1> DEFINE exec == IF Done(e) /\ newExec # "completed" THEN "completed" ELSE newExec
           ret == IF Done(e) /\ newRet # "accepted" THEN e.ret ELSE newRet
           candidate == ExecutionCandidate(e, exec, ret)
           pay == MergeStatus(e.pay, candidate)
           err == IF exec = "completed" /\ ret = "accepted" THEN "none"
                  ELSE IF class # "none" THEN class ELSE e.err
           r == UpdateExecution(e, h, newExec, newRet, class)
<1>1. /\ e.pay \in PaymentStatus /\ e.hashes \in SUBSET HashKinds
      /\ e.err \in ErrorClass /\ e.fin \in FinalizerStatus
      /\ e.exec \in ExecutionStatus /\ e.ret \in ReturnStatus
  BY DEF Entries, Exists
<1>2. /\ exec \in ExecutionStatus /\ ret \in ReturnStatus
      /\ exec = "completed" /\ ret = "accepted"
            <=> Done(e) \/ (newExec = "completed" /\ newRet = "accepted")
  BY <1>1 DEF Done, ExecutionStatus
<1>3. candidate \in PaymentStatus
      /\ candidate \in ExecutionResultStatus \union {"execution_forwarded", e.pay}
  BY <1>2, ExecutionCandidateType
<1>4. pay \in PaymentStatus /\ pay \in {e.pay, candidate}
      /\ (e.pay \in FinalStatus => pay \in FinalStatus)
  BY <1>1, <1>3, MergeStatusType
<1>5. pay \in FinalStatus => e.pay \in FinalStatus
  <2>1. (ExecutionResultStatus \union {"execution_forwarded"}) \intersect FinalStatus = {}
    BY DEF ExecutionResultStatus, FinalStatus
  <2> QED
    BY <1>3, <1>4, <2>1
<1>6. err \in ErrorClass
  BY <1>1 DEF ErrorClass
<1>7. r = [e EXCEPT !.hire = h, !.exec = exec, !.ret = ret, !.pay = pay,
                    !.err = err]
  BY DEF UpdateExecution
<1> HIDE DEF exec, ret, candidate, pay, err, r
<1>8. /\ r \in Entries
      /\ r.hire = h /\ r.hashes = e.hashes /\ r.pay = pay
      /\ r.exec = exec /\ r.ret = ret /\ r.fin = e.fin
  BY <1>1, <1>2, <1>4, <1>6, <1>7 DEF Entries
<1>9. Exists(r)
  <2>1. "absent" \notin PaymentStatus
    BY DEF PaymentStatus, FinalStatus, EarlyStatus, ExecutionResultStatus
  <2> QED
    BY <1>4, <1>8, <2>1 DEF Exists
<1>10. r.pay = "settlement_failed" => e.pay = "settlement_failed"
  <2>1. "settlement_failed" \notin ExecutionResultStatus \union {"execution_forwarded"}
    BY DEF ExecutionResultStatus
  <2> QED
    BY <1>3, <1>4, <1>8, <2>1
<1> QED
  BY <1>2, <1>4, <1>5, <1>8, <1>9, <1>10 DEF Done, r

\* The remaining functions change only how the entry's failures are described.
LEMMA RecordSettlementFailureResult ==
  ASSUME NEW e \in Entries
  PROVE  LET r == RecordSettlementFailure(e)
         IN  /\ r \in Entries
             /\ r.exec = e.exec /\ r.ret = e.ret /\ r.hire = e.hire
             /\ r.hashes = e.hashes
             /\ r.pay \notin FinalStatus \/ r = e
             /\ Exists(r) <=> Exists(e)
<1>1. CASE ~Exists(e)
  BY <1>1 DEF RecordSettlementFailure
<1>2. CASE Exists(e)
  BY <1>2 DEF RecordSettlementFailure, Entries, PaymentStatus, FinalStatus, ErrorClass,
              FinalizerStatus, Exists
<1> QED
  BY <1>1, <1>2

LEMMA MarkFinalizerResult ==
  ASSUME NEW e \in Entries, NEW status \in FinalizerStatus
  PROVE  LET r == MarkFinalizer(e, status)
         IN  /\ r \in Entries
             /\ r.exec = e.exec /\ r.ret = e.ret /\ r.hire = e.hire
             /\ r.hashes = e.hashes /\ r.pay = e.pay
BY DEF MarkFinalizer, Entries

LEMMA AnnotateRetryFailureResult ==
  ASSUME NEW e \in Entries, NEW class \in ErrorClass
  PROVE  LET r == AnnotateRetryFailure(e, class)
         IN  /\ r \in Entries
             /\ r.exec = e.exec /\ r.ret = e.ret /\ r.hire = e.hire
             /\ r.hashes = e.hashes /\ r.pay = e.pay /\ r.fin = e.fin
BY DEF AnnotateRetryFailure, Entries

-----------------------------------------------------------------------------
(* The hires. *)

Inv == TypeOK /\ Provenance

\* What a ledger entry never loses.
Grows(d, e) ==
    /\ d.hashes \subseteq e.hashes
    /\ Done(d) => Done(e)
    /\ Exists(d) => Exists(e)
    /\ d.hire # NoHire => e.hire # NoHire

\* Deliveries and charges only accumulate.
HistoryGrows ==
    /\ accepted \subseteq accepted' /\ accepted' \in SUBSET Hires
    /\ charged \subseteq charged' /\ charged' \in SUBSET Payments

\* Where a call of the hire route has stored its payload, and before that its entry.
Stored == {"resume", "submit", "forward", "commit", "update", "storeAgain", "launch"}
Recorded == {"store"} \union Stored

\* Only the hire's own call, with its payload stored, puts a record of hire h into the
\* file, and nobody takes one out.
HireIntroduced(t, h, r) ==
    /\ r.status # "absent" =>
          hires[h].status # "absent" \/ (h = t /\ submit[h].pc \in Stored)
    /\ hires[h].status # "absent" => r.status # "absent"

\* Only a handler with the outcome of a hire makes an entry name it.
HireNamed(t, old, new) ==
    \/ new = old
    \/ t \in Hires /\ new = t /\ submit[t].pc = "update"
    \/ t \in Lates /\ new = late[t].hire /\ late[t].pc = "update"

\* Task t stages nothing, or one write whose contents are backed.
LegalStage(t) ==
    \/ NoStage
    \/ \E p \in Payments, e \in Entries :
          /\ EntryBacked(p, e, accepted', charged')
          /\ Grows(ledger[p], e)
          /\ HireNamed(t, ledger[p].hire, e.hire)
          /\ StageLedger(t, p, e)
    \/ \E h \in Hires, r \in HireRecords :
          /\ HireBacked(h, r, accepted', charged')
          /\ HireIntroduced(t, h, r)
          /\ StageHire(t, h, r)
    \/ \E p \in Payments, kept \in BOOLEAN :
          /\ kept \/ p \in charged'
          /\ StageVault(t, p, kept)

\* At most one job of each kind is replaced, by one that is backed.
LegalSubmit ==
    \/ UNCHANGED submit
    \/ \E a \in Hires, j \in SubmitJobs :
          SubmitBacked(a, j, accepted') /\ submit' = [submit EXCEPT ![a] = j]

LegalLate ==
    \/ UNCHANGED late
    \/ \E l \in Lates, j \in LateJobs :
          /\ LateBacked(j, accepted')
          /\ j.pc = "update" => hires[j.hire].status # "absent"
          /\ late' = [late EXCEPT ![l] = j]

LegalSettle ==
    \/ UNCHANGED settle
    \/ \E t \in Settlers, j \in SettleJobs :
          SettleBacked(j, accepted', charged') /\ settle' = [settle EXCEPT ![t] = j]

LegalJobs == LegalSubmit /\ LegalLate /\ LegalSettle

\* A step of the handler that runs as task t.
HandlerStep(t) ==
    /\ LegalStage(t)
    /\ LegalJobs
    /\ HistoryGrows
    /\ ChargeNeedsDelivery'
    /\ UNCHANGED <<clock, faults, crashes>>

LEMMA EntryBackedGrows ==
  ASSUME NEW p, NEW e, NEW done, NEW done2, done \subseteq done2,
         NEW paid, NEW paid2, paid \subseteq paid2,
         EntryBacked(p, e, done, paid)
  PROVE  EntryBacked(p, e, done2, paid2)
BY DEF EntryBacked, WorkDone

LEMMA HireBackedGrows ==
  ASSUME NEW h, NEW r, NEW done, NEW done2, done \subseteq done2,
         NEW paid, NEW paid2, paid \subseteq paid2,
         HireBacked(h, r, done, paid)
  PROVE  HireBacked(h, r, done2, paid2)
BY DEF HireBacked

LEMMA JobsBackedGrow ==
  ASSUME NEW done, NEW done2, done \subseteq done2,
         NEW paid, NEW paid2, paid \subseteq paid2
  PROVE  /\ \A a, j : SubmitBacked(a, j, done) => SubmitBacked(a, j, done2)
         /\ \A j : LateBacked(j, done) => LateBacked(j, done2)
         /\ \A j : SettleBacked(j, done, paid) => SettleBacked(j, done2, paid2)
BY DEF SubmitBacked, LateBacked, SettleBacked, WorkDone

\* A legal stage keeps the files and the writes in flight typed and backed.
LEMMA StageKeepsFiles ==
  ASSUME Inv, HistoryGrows, NEW t \in Tasks, LegalStage(t)
  PROVE  FilesType' /\ FilesBacked'
<1> USE NoWriteAssumption
<1>1. FilesType /\ FilesBacked
  BY DEF Inv, TypeOK, Provenance
<1>2. /\ \A p, e : EntryBacked(p, e, accepted, charged)
                      => EntryBacked(p, e, accepted', charged')
      /\ \A h, r : HireBacked(h, r, accepted, charged)
                      => HireBacked(h, r, accepted', charged')
  BY EntryBackedGrows, HireBackedGrows DEF HistoryGrows
<1>3. CASE NoStage
  BY <1>1, <1>2, <1>3 DEF NoStage, files, writes, FilesType, FilesBacked
<1>4. ASSUME NEW p \in Payments, NEW e \in Entries,
             EntryBacked(p, e, accepted', charged'),
             StageLedger(t, p, e)
      PROVE  FilesType' /\ FilesBacked'
  <2> DEFINE f == [ledger EXCEPT ![p] = e]
  <2>1. f \in LedgerFiles /\ \A q \in Payments : EntryBacked(q, f[q], accepted', charged')
    BY <1>1, <1>2, <1>4 DEF FilesType, FilesBacked, LedgerFiles
  <2>2. /\ ledgerWrite' = [ledgerWrite EXCEPT ![t] = f]
        /\ ledger' = ledger /\ hires' = hires /\ vault' = vault
        /\ hireWrite' = hireWrite /\ vaultWrite' = vaultWrite
    BY <1>4 DEF StageLedger, files
  <2> HIDE DEF f
  <2>3. FilesType'
    BY <1>1, <2>1, <2>2 DEF FilesType
  <2>4. FilesBacked'
    BY <1>1, <1>2, <2>1, <2>2 DEF FilesType, FilesBacked
  <2> QED
    BY <2>3, <2>4
<1>5. ASSUME NEW h \in Hires, NEW r \in HireRecords,
             HireBacked(h, r, accepted', charged'),
             StageHire(t, h, r)
      PROVE  FilesType' /\ FilesBacked'
  <2> DEFINE f == [hires EXCEPT ![h] = r]
  <2>1. f \in HireFiles /\ \A g \in Hires : HireBacked(g, f[g], accepted', charged')
    BY <1>1, <1>2, <1>5 DEF FilesType, FilesBacked, HireFiles
  <2>2. /\ hireWrite' = [hireWrite EXCEPT ![t] = f]
        /\ ledger' = ledger /\ hires' = hires /\ vault' = vault
        /\ ledgerWrite' = ledgerWrite /\ vaultWrite' = vaultWrite
    BY <1>5 DEF StageHire, files
  <2> HIDE DEF f
  <2>3. FilesType'
    BY <1>1, <2>1, <2>2 DEF FilesType
  <2>4. FilesBacked'
    BY <1>1, <1>2, <2>1, <2>2 DEF FilesType, FilesBacked
  <2> QED
    BY <2>3, <2>4
<1>6. ASSUME NEW p \in Payments, NEW kept \in BOOLEAN, StageVault(t, p, kept)
      PROVE  FilesType' /\ FilesBacked'
  <2>1. PICK f \in VaultFiles : vaultWrite' = [vaultWrite EXCEPT ![t] = f]
    BY <1>1, <1>6 DEF StageVault, FilesType, VaultFiles
  <2> QED
    BY <1>1, <1>2, <1>6, <2>1 DEF StageVault, files, FilesType, FilesBacked
<1> QED
  BY <1>3, <1>4, <1>5, <1>6 DEF LegalStage

\* Legal changes of the jobs keep them typed and backed.
LEMMA StepKeepsJobs ==
  ASSUME Inv, HistoryGrows, LegalJobs
  PROVE  JobsType' /\ JobsBacked'
<1>1. JobsType /\ JobsBacked
  BY DEF Inv, TypeOK, Provenance
<1>2. /\ \A a, j : SubmitBacked(a, j, accepted) => SubmitBacked(a, j, accepted')
      /\ \A j : LateBacked(j, accepted) => LateBacked(j, accepted')
      /\ \A j : SettleBacked(j, accepted, charged) => SettleBacked(j, accepted', charged')
  BY JobsBackedGrow DEF HistoryGrows
<1>3. /\ submit' \in [Hires -> SubmitJobs]
      /\ \A a \in Hires : SubmitBacked(a, submit'[a], accepted')
  BY <1>1, <1>2 DEF LegalJobs, LegalSubmit, JobsType, JobsBacked
<1>4. late' \in [Lates -> LateJobs] /\ \A l \in Lates : LateBacked(late'[l], accepted')
  BY <1>1, <1>2 DEF LegalJobs, LegalLate, JobsType, JobsBacked
<1>5. /\ settle' \in [Settlers -> SettleJobs]
      /\ \A t \in Settlers : SettleBacked(settle'[t], accepted', charged')
  BY <1>1, <1>2 DEF LegalJobs, LegalSettle, JobsType, JobsBacked
<1> QED
  BY <1>3, <1>4, <1>5 DEF JobsType, JobsBacked

LEMMA HandlerStepKeepsInv ==
  ASSUME Inv, NEW t \in Tasks, HandlerStep(t)
  PROVE  Inv'
<1>1. FilesType' /\ FilesBacked'
  BY StageKeepsFiles DEF HandlerStep
<1>2. JobsType' /\ JobsBacked'
  BY StepKeepsJobs DEF HandlerStep
<1> QED
  BY <1>1, <1>2 DEF HandlerStep, HistoryGrows, clock, Inv, TypeOK, Provenance

LEMMA TasksAreDistinct ==
  /\ Hires \subseteq Tasks /\ Lates \subseteq Tasks /\ Settlers \subseteq Tasks
  /\ Payments \subseteq Settlers /\ Retries \subseteq Settlers
BY DEF Tasks, Settlers

-----------------------------------------------------------------------------
(* The hire route.                                                         *)

LEMMA GotoIsLegal ==
  ASSUME Inv, NEW a \in Hires, accepted' = accepted,
         NEW pc \in {"authorize", "annotate", "recordExpired", "store", "resume",
                     "submit", "forward", "commit", "update", "storeAgain",
                     "launch", "end"},
         Goto(a, pc),
         pc = "launch" => submit[a].out = "completed",
         pc = "resume" => submit[a].resume # NoHire
  PROVE  LegalSubmit
<1> DEFINE j == IF pc = "end" THEN Over(submit[a]) ELSE [submit[a] EXCEPT !.pc = pc]
<1>1. submit[a] \in SubmitJobs /\ SubmitBacked(a, submit[a], accepted)
  BY DEF Inv, TypeOK, JobsType, Provenance, JobsBacked
<1>2. submit' = [submit EXCEPT ![a] = j]
  BY DEF Goto
<1>3. j \in SubmitJobs
  BY <1>1 DEF SubmitJobs, Over
<1>4. SubmitBacked(a, j, accepted')
  BY <1>1 DEF SubmitBacked, SubmitJobs, Over
<1> QED
  BY <1>2, <1>3, <1>4 DEF LegalSubmit

LEMMA LaunchIsLegal ==
  ASSUME NEW p \in Payments, NEW h \in Hires, NEW payload \in BOOLEAN,
         PaymentOf[h] = p, h \in accepted', Launch(p, h, payload)
  PROVE  LegalSettle
<1> DEFINE j == [pc |-> "mark", pay |-> p, hire |-> h, payload |-> payload, hashes |-> {}]
<1>1. j \in SettleJobs
  BY DEF SettleJobs
<1>2. SettleBacked(j, accepted', charged')
  BY NoHireAssumption DEF SettleBacked, WorkDone
<1>3. settle' = settle \/ settle' = [settle EXCEPT ![p] = j]
  BY DEF Launch
<1> QED
  BY <1>1, <1>2, <1>3 DEF LegalSettle, Settlers

\* The facts every step of the route shares.
LEMMA HireRouteFacts ==
  ASSUME Inv, NEW a \in Hires
  PROVE  /\ PaymentOf[a] \in Payments
         /\ ledger[PaymentOf[a]] \in Entries
         /\ EntryBacked(PaymentOf[a], ledger[PaymentOf[a]], accepted, charged)
         /\ hires[a] \in HireRecords
         /\ HireBacked(a, hires[a], accepted, charged)
         /\ submit[a] \in SubmitJobs
         /\ SubmitBacked(a, submit[a], accepted)
         /\ ChargeNeedsDelivery
         /\ accepted \in SUBSET Hires /\ charged \in SUBSET Payments
BY ConstantsAssumption
   DEF Inv, TypeOK, FilesType, JobsType, Provenance, FilesBacked, JobsBacked,
       LedgerFiles, HireFiles

\* A step that only moves on, without staging anything.
LEMMA MoveOnStep ==
  ASSUME Inv, NEW a \in Hires,
         VerifyOk(a) \/ VerifyFails(a) \/ SubmitRejected(a)
  PROVE  HandlerStep(a)
<1>1. /\ NoStage /\ UNCHANGED <<settle, accepted, late, charged, clock, faults, crashes>>
  BY DEF VerifyOk, VerifyFails, SubmitRejected, HireFrame
<1>2. \E pc \in {"authorize", "annotate", "recordExpired", "end"} : Goto(a, pc)
  BY DEF VerifyOk, VerifyFails, SubmitRejected
<1>3. LegalSubmit
  BY <1>1, <1>2, GotoIsLegal
<1> QED
  BY <1>1, <1>3, HireRouteFacts
     DEF HandlerStep, LegalStage, LegalJobs, LegalLate, LegalSettle, HistoryGrows,
         ChargeNeedsDelivery

\* An entry whose execution outcome, hire and hashes stay is as backed as before.
LEMMA StillBacked ==
  ASSUME Inv, HistoryGrows, NEW p \in Payments, NEW e \in Entries,
         e.exec = ledger[p].exec, e.ret = ledger[p].ret, e.hire = ledger[p].hire,
         e.hashes = ledger[p].hashes,
         e.pay \in FinalStatus => ledger[p].pay \in FinalStatus,
         Tried(e) => Tried(ledger[p]) \/ WorkDone(p, accepted),
         Exists(ledger[p]) => Exists(e)
  PROVE  EntryBacked(p, e, accepted', charged') /\ Grows(ledger[p], e)
<1>1. EntryBacked(p, ledger[p], accepted, charged)
  BY DEF Inv, Provenance, FilesBacked
<1> QED
  BY <1>1, EntryBackedGrows DEF HistoryGrows, EntryBacked, Grows, Done, WorkDone

LEMMA AnnotateStep ==
  ASSUME Inv, NEW a \in Hires, Annotate(a)
  PROVE  HandlerStep(a)
<1> DEFINE p == PaymentOf[a]
<1>1. UNCHANGED <<settle, accepted, late, charged, clock, faults, crashes>>
  BY DEF Annotate, HireFrame
<1>2. HistoryGrows
  BY <1>1, HireRouteFacts DEF HistoryGrows
<1>3. PICK class \in ErrorClass : StageLedger(a, p, AnnotateRetryFailure(ledger[p], class))
  BY DEF Annotate, ErrorClass
<1>4. LegalStage(a)
  <2> DEFINE e == AnnotateRetryFailure(ledger[p], class)
  <2>1. /\ e \in Entries
        /\ EntryBacked(p, e, accepted', charged') /\ Grows(ledger[p], e)
        /\ e.hire = ledger[p].hire
    BY <1>2, HireRouteFacts, AnnotateRetryFailureResult, StillBacked DEF Exists, Tried
  <2> QED
    BY <1>3, <2>1, HireRouteFacts DEF LegalStage, HireNamed
<1>5. LegalSubmit
  BY <1>1, GotoIsLegal DEF Annotate
<1> QED
  BY <1>1, <1>2, <1>4, <1>5, HireRouteFacts
     DEF HandlerStep, LegalJobs, LegalLate, LegalSettle, ChargeNeedsDelivery

\* Recording an authorization or an expired payload adds no hashes and asks for no
\* settlement-final status.
LEMMA RecordedUnsettled ==
  ASSUME Inv, HistoryGrows, NEW p \in Payments,
         NEW status \in {"authorization_verified", "not_settled"},
         NEW class \in ErrorClass
  PROVE  LET e == RecordSettlement(ledger[p], status, {}, class)
         IN  /\ e \in Entries
             /\ EntryBacked(p, e, accepted', charged') /\ Grows(ledger[p], e)
             /\ Exists(e)
             /\ Done(e) => Done(ledger[p])
             /\ e.hire = ledger[p].hire
<1>1. ledger[p] \in Entries /\ EntryBacked(p, ledger[p], accepted, charged)
  BY DEF Inv, TypeOK, FilesType, LedgerFiles, Provenance, FilesBacked
<1>2. status \in PaymentStatus /\ status \notin FinalStatus \union {"settlement_failed"}
  BY DEF PaymentStatus, EarlyStatus, FinalStatus
<1>3. PICK none \in SUBSET HashKinds : none = {}
  OBVIOUS
<1> DEFINE e == RecordSettlement(ledger[p], status, none, class)
<1>4. /\ e \in Entries
      /\ e.exec = ledger[p].exec /\ e.ret = ledger[p].ret /\ e.hire = ledger[p].hire
      /\ e.hashes = ledger[p].hashes \union none
      /\ e.pay \in FinalStatus => ledger[p].pay \in FinalStatus \/ e.hashes # {}
      /\ Tried(e) => Tried(ledger[p])
      /\ Exists(e)
  BY <1>1, <1>2, RecordSettlementResult DEF Exists, Tried
<1> HIDE DEF e
<1>5. e.hashes = ledger[p].hashes
  BY <1>3, <1>4
<1>6. EntryBacked(p, e, accepted, charged)
  BY <1>1, <1>4, <1>5 DEF EntryBacked, Done
<1>7. EntryBacked(p, e, accepted', charged')
  BY <1>6, EntryBackedGrows DEF HistoryGrows
<1>8. Done(e) <=> Done(ledger[p])
  BY <1>4 DEF Done
<1>9. Grows(ledger[p], e)
  BY <1>4, <1>5, <1>8 DEF Grows
<1> QED
  BY <1>3, <1>4, <1>7, <1>8, <1>9 DEF e

LEMMA RecordExpiredStep ==
  ASSUME Inv, NEW a \in Hires, RecordExpired(a)
  PROVE  HandlerStep(a)
<1>1. UNCHANGED <<settle, accepted, late, charged, clock, faults, crashes>>
  BY DEF RecordExpired, HireFrame
<1>2. HistoryGrows
  BY <1>1, HireRouteFacts DEF HistoryGrows
<1>3. "expired_no_ledger" \in ErrorClass
  BY DEF ErrorClass
<1>4. LegalStage(a)
  BY <1>2, <1>3, HireRouteFacts, RecordedUnsettled DEF RecordExpired, LegalStage, HireNamed
<1>5. LegalSubmit
  BY <1>1, GotoIsLegal DEF RecordExpired
<1> QED
  BY <1>1, <1>2, <1>4, <1>5, HireRouteFacts
     DEF HandlerStep, LegalJobs, LegalLate, LegalSettle, ChargeNeedsDelivery

LEMMA AuthorizeStep ==
  ASSUME Inv, NEW a \in Hires, Authorize(a)
  PROVE  HandlerStep(a)
<1> DEFINE p == PaymentOf[a]
           e == RecordSettlement(ledger[p], "authorization_verified", {}, "none")
           j == [submit[a] EXCEPT !.pc = "store",
                                  !.resume = IF Done(e) /\ e.hashes = {}
                                             THEN e.hire ELSE NoHire]
<1>1. UNCHANGED <<settle, accepted, late, charged, clock, faults, crashes>>
  BY DEF Authorize, HireFrame
<1>2. HistoryGrows
  BY <1>1, HireRouteFacts DEF HistoryGrows
<1>3. "none" \in ErrorClass
  BY DEF ErrorClass
<1>4. /\ e \in Entries
      /\ EntryBacked(p, e, accepted', charged') /\ Grows(ledger[p], e)
      /\ e.hire = ledger[p].hire
  BY <1>2, <1>3, HireRouteFacts, RecordedUnsettled
<1>5. StageLedger(a, p, e) /\ submit' = [submit EXCEPT ![a] = j]
  BY HireRouteFacts DEF Authorize, SubmitJobs
<1> HIDE DEF e
<1>6. LegalStage(a)
  BY <1>4, <1>5, HireRouteFacts DEF LegalStage, HireNamed
<1>7. j \in SubmitJobs
  BY ZenonT(60), <1>4, HireRouteFacts DEF SubmitJobs, Entries
<1>8. SubmitBacked(a, j, accepted')
  BY <1>1, <1>4, HireRouteFacts DEF SubmitBacked, SubmitJobs, EntryBacked
<1>9. LegalSubmit
  BY <1>5, <1>7, <1>8 DEF LegalSubmit
<1> QED
  BY <1>1, <1>2, <1>6, <1>9, HireRouteFacts
     DEF HandlerStep, LegalJobs, LegalLate, LegalSettle, ChargeNeedsDelivery

LEMMA StorePayloadStep ==
  ASSUME Inv, NEW a \in Hires, StorePayload(a) \/ StoreAgain(a)
  PROVE  HandlerStep(a)
<1>1. UNCHANGED <<settle, accepted, late, charged, clock, faults, crashes>>
  BY DEF StorePayload, StoreAgain, HireFrame
<1>2. StageVault(a, PaymentOf[a], TRUE)
  BY DEF StorePayload, StoreAgain
<1>3. LegalSubmit
  BY <1>1, GotoIsLegal DEF StorePayload, StoreAgain
<1> QED
  BY <1>1, <1>2, <1>3, HireRouteFacts
     DEF HandlerStep, LegalStage, LegalJobs, LegalLate, LegalSettle, HistoryGrows,
         ChargeNeedsDelivery

LEMMA ResumeStep ==
  ASSUME Inv, NEW a \in Hires, Resume(a)
  PROVE  HandlerStep(a)
<1> DEFINE h == submit[a].resume
<1>1. UNCHANGED <<accepted, late, charged, clock, faults, crashes>> /\ NoStage
  BY DEF Resume, HireFrame
<1>2. h \in Hires /\ PaymentOf[h] = PaymentOf[a]
  BY HireRouteFacts DEF Resume, At, SubmitBacked, SubmitJobs
<1>3. LegalSubmit
  BY <1>1, GotoIsLegal DEF Resume
<1>4. LegalSettle
  <2>1. CASE Delivered(h)
    <3>1. h \in accepted'
      BY <1>1, <1>2, <2>1, HireRouteFacts DEF Delivered, HireBacked
    <3> QED
      BY <1>2, <2>1, <3>1, HireRouteFacts, LaunchIsLegal DEF Resume
  <2>2. CASE ~Delivered(h)
    BY <2>2 DEF Resume, LegalSettle
  <2> QED
    BY <2>1, <2>2
<1> QED
  BY <1>1, <1>3, <1>4, HireRouteFacts
     DEF HandlerStep, LegalStage, LegalJobs, LegalLate, HistoryGrows, ChargeNeedsDelivery

LEMMA SubmitStep ==
  ASSUME Inv, NEW a \in Hires, Submit(a)
  PROVE  HandlerStep(a)
<1>1. UNCHANGED <<settle, accepted, late, charged, clock, faults, crashes>>
  BY DEF Submit, HireFrame
<1>2. InitialRecord \in HireRecords /\ HireBacked(a, InitialRecord, accepted', charged')
  BY DEF InitialRecord, AbsentHire, HireRecords, HireBacked
<1>3. HireIntroduced(a, a, InitialRecord)
  BY DEF Submit, At, Stored, InitialRecord, AbsentHire, HireIntroduced
<1>4. LegalStage(a)
  BY <1>2, <1>3 DEF Submit, LegalStage
<1>5. LegalSubmit
  BY <1>1, GotoIsLegal DEF Submit
<1> QED
  BY <1>1, <1>4, <1>5, HireRouteFacts
     DEF HandlerStep, LegalJobs, LegalLate, LegalSettle, HistoryGrows, ChargeNeedsDelivery

LEMMA ForwardStep ==
  ASSUME Inv, NEW a \in Hires, NEW out \in Outcomes, Forward(a, out)
  PROVE  HandlerStep(a)
<1> DEFINE j == CASE out = "throws" -> Over(submit[a])
                  [] out = "unverified" -> [submit[a] EXCEPT !.pc = "update", !.out = out]
                  [] OTHER -> [submit[a] EXCEPT !.pc = "commit", !.out = out]
<1>1. UNCHANGED <<settle, late, charged, clock, faults, crashes>> /\ NoStage
  BY DEF Forward, HireFrame
<1>2. accepted' = IF out = "completed" THEN accepted \union {a} ELSE accepted
  BY DEF Forward
<1>3. submit' = [submit EXCEPT ![a] = j]
  BY DEF Forward
<1>4. out \in ForwardOutcomes
  BY ConstantsAssumption
<1>5. j \in SubmitJobs
  BY <1>4, HireRouteFacts DEF SubmitJobs, Over
<1>6. SubmitBacked(a, j, accepted')
  BY <1>2, <1>4, HireRouteFacts DEF SubmitBacked, SubmitJobs, Over
<1>7. LegalSubmit
  BY <1>3, <1>5, <1>6 DEF LegalSubmit
<1>8. ChargeNeedsDelivery' /\ HistoryGrows
  BY <1>1, <1>2, HireRouteFacts DEF ChargeNeedsDelivery, HistoryGrows
<1> QED
  BY <1>1, <1>7, <1>8 DEF HandlerStep, LegalStage, LegalJobs, LegalLate, LegalSettle

LEMMA CommitStep ==
  ASSUME Inv, NEW a \in Hires, Commit(a)
  PROVE  HandlerStep(a)
<1> DEFINE out == submit[a].out
           r == IF Delivered(a) /\ out # "completed" THEN hires[a] ELSE CommittedRecord(out)
<1>1. UNCHANGED <<settle, accepted, late, charged, clock, faults, crashes>>
  BY DEF Commit, HireFrame
<1>2. /\ CommittedRecord(out) \in HireRecords
      /\ CommittedRecord(out).return = "completed" => out = "completed"
      /\ CommittedRecord(out).pay = "authorized"
      /\ CommittedRecord(out).status # "absent"
  BY HireRouteFacts DEF CommittedRecord, HireRecords, SubmitJobs, ForwardOutcomes
<1>3. r \in HireRecords /\ HireBacked(a, r, accepted', charged')
  BY <1>1, <1>2, HireRouteFacts DEF HireBacked, SubmitBacked
<1>4. HireIntroduced(a, a, r)
  BY <1>2 DEF Commit, At, Stored, HireIntroduced
<1>5. LegalStage(a)
  BY <1>3, <1>4 DEF Commit, LegalStage
<1>6. LegalSubmit
  BY <1>1, GotoIsLegal DEF Commit
<1> QED
  BY <1>1, <1>5, <1>6, HireRouteFacts
     DEF HandlerStep, LegalJobs, LegalLate, LegalSettle, HistoryGrows, ChargeNeedsDelivery

\* The outcome of hire h reaches the ledger: it is backed when a completed and
\* accepted outcome is one that has been accepted.
LEMMA WriteOutcomeIsLegal ==
  ASSUME Inv, HistoryGrows, NEW t \in Tasks, NEW h \in Hires,
         NEW exec \in ExecutionStatus, NEW ret \in ReturnStatus, NEW class \in ErrorClass,
         exec = "completed" /\ ret = "accepted" => h \in accepted,
         HireNamed(t, NoHire, h),
         WriteOutcome(t, h, exec, ret, class)
  PROVE  LegalStage(t)
<1> DEFINE p == PaymentOf[h]
           e == UpdateExecution(ledger[p], h, exec, ret, class)
<1>1. CASE ~Exists(ledger[p])
  BY <1>1 DEF WriteOutcome, LegalStage
<1>2. CASE Exists(ledger[p])
  <2>1. /\ e \in Entries /\ e.hire = h /\ e.hashes = ledger[p].hashes
        /\ e.pay \in FinalStatus <=> ledger[p].pay \in FinalStatus
        /\ Done(e) <=> Done(ledger[p]) \/ (exec = "completed" /\ ret = "accepted")
        /\ Tried(e) => Tried(ledger[p])
        /\ Exists(e)
    BY <1>2, HireRouteFacts, UpdateExecutionResult DEF Tried
  <2>2. StageLedger(t, p, e)
    BY <1>2 DEF WriteOutcome
  <2> HIDE DEF e
  <2>3. EntryBacked(p, e, accepted, charged) /\ Grows(ledger[p], e)
    BY <2>1, HireRouteFacts, NoHireAssumption DEF EntryBacked, WorkDone, Grows
  <2>4. EntryBacked(p, e, accepted', charged')
    BY <2>3, EntryBackedGrows DEF HistoryGrows
  <2>5. HireNamed(t, ledger[p].hire, e.hire)
    BY <2>1, NoHireAssumption DEF HireNamed
  <2> QED
    BY <2>1, <2>2, <2>3, <2>4, <2>5, HireRouteFacts DEF LegalStage
<1> QED
  BY <1>1, <1>2

LEMMA UpdateStep ==
  ASSUME Inv, NEW a \in Hires, Update(a)
  PROVE  HandlerStep(a)
<1>1. UNCHANGED <<settle, accepted, late, charged, clock, faults, crashes>>
  BY DEF Update, HireFrame
<1>2. HistoryGrows
  BY <1>1, HireRouteFacts DEF HistoryGrows
<1>3. PICK exec \in ExecutionStatus, ret \in ReturnStatus, class \in ErrorClass :
         /\ exec = "completed" => submit[a].out = "completed"
         /\ WriteOutcome(a, a, exec, ret, class)
  BY DEF Update, ExecutionStatus, ReturnStatus, ErrorClass
<1>4. HireNamed(a, NoHire, a)
  BY DEF HireNamed, Update, At
<1>5. LegalStage(a)
  BY <1>2, <1>3, <1>4, HireRouteFacts, TasksAreDistinct, WriteOutcomeIsLegal
     DEF SubmitBacked
<1>6. LegalSubmit
  BY <1>1, GotoIsLegal DEF Update
<1> QED
  BY <1>1, <1>2, <1>5, <1>6, HireRouteFacts
     DEF HandlerStep, LegalJobs, LegalLate, LegalSettle, ChargeNeedsDelivery

LEMMA LaunchFinalizerStep ==
  ASSUME Inv, NEW a \in Hires, LaunchFinalizer(a)
  PROVE  HandlerStep(a)
<1>1. UNCHANGED <<accepted, late, charged, clock, faults, crashes>> /\ NoStage
  BY DEF LaunchFinalizer, HireFrame
<1>2. a \in accepted'
  BY <1>1, HireRouteFacts DEF LaunchFinalizer, At, SubmitBacked
<1>3. LegalSettle
  BY <1>2, HireRouteFacts, LaunchIsLegal DEF LaunchFinalizer
<1>4. LegalSubmit
  BY <1>1, GotoIsLegal DEF LaunchFinalizer
<1> QED
  BY <1>1, <1>3, <1>4, HireRouteFacts
     DEF HandlerStep, LegalStage, LegalJobs, LegalLate, HistoryGrows, ChargeNeedsDelivery

-----------------------------------------------------------------------------
(* Late returns.                                                           *)

LEMMA LateFacts ==
  ASSUME Inv, NEW l \in Lates
  PROVE  /\ late[l] \in LateJobs
         /\ LateBacked(late[l], accepted)
         /\ late[l].pc \in {"update", "lookup"} => late[l].hire \in Hires
         /\ ChargeNeedsDelivery
         /\ accepted \in SUBSET Hires /\ charged \in SUBSET Payments
         /\ EndedLate \in LateJobs /\ LateBacked(EndedLate, accepted)
         /\ EndedLate.pc = "end"
BY DEF Inv, TypeOK, JobsType, Provenance, JobsBacked, LateJobs, LateBacked, EndedLate,
       IdleLate

LEMMA LateRecordStep ==
  ASSUME Inv, NEW l \in Lates, NEW h \in Hires, NEW r \in LateReturns,
         LateRecord(l, h, r[1], r[2])
  PROVE  HandlerStep(l)
<1> DEFINE via == r[1]
           out == r[2]
           rec == hires[h]
           next == LateReturned(rec, via, out)
           j == [pc |-> "update", hire |-> h, via |-> via, out |-> out,
                 delivered |-> next.return = "completed"]
<1>1. via \in LateRoutes /\ out \in LateOutcomes
  BY ConstantsAssumption
<1>2. /\ UNCHANGED <<settle, submit, charged, clock, faults, crashes>>
      /\ accepted' = IF out = "completed" THEN accepted \union {h} ELSE accepted
      /\ StageHire(l, h, next)
      /\ late' = [late EXCEPT ![l] = j]
  BY DEF LateRecord, LateFrame
<1>3. HistoryGrows /\ ChargeNeedsDelivery'
  BY <1>2, LateFacts DEF HistoryGrows, ChargeNeedsDelivery
<1>4. rec \in HireRecords /\ HireBacked(h, rec, accepted', charged')
  BY <1>3, HireRouteFacts, HireBackedGrows DEF HistoryGrows
<1>5. /\ next \in HireRecords
      /\ next.return = "completed" => out = "completed" \/ rec.return = "completed"
      /\ next.pay = rec.pay
      /\ next.status # "absent"
  <2>1. CASE out = "invalid"
    BY ZenonT(60), <1>4, <2>1 DEF HireRecords, LateReturned
  <2>2. CASE out # "invalid" /\ via = "reconcile"
    <3>1. PICK inv \in BOOLEAN, rea \in BOOLEAN,
              relay \in {"reconciled_completed", "failed"} :
              next = [rec EXCEPT !.status = out, !.return = out, !.invalid = inv,
                                 !.reached = rea, !.relay = relay, !.agent = out]
      <4>1. PICK inv \in BOOLEAN : inv = (rec.invalid /\ out # "completed")
        OBVIOUS
      <4>2. PICK rea \in BOOLEAN : rea = (rec.reached \/ out = "completed")
        OBVIOUS
      <4>3. PICK relay \in {"reconciled_completed", "failed"} :
                relay = IF out = "completed" THEN "reconciled_completed" ELSE "failed"
        OBVIOUS
      <4> QED
        BY <2>2, <4>1, <4>2, <4>3 DEF LateReturned
    <3> QED
      BY ZenonT(60), <1>1, <1>4, <2>2, <3>1 DEF HireRecords, LateOutcomes
  <2>3. CASE out # "invalid" /\ via # "reconcile"
    BY ZenonT(60), <1>1, <1>4, <2>3 DEF HireRecords, LateOutcomes, LateReturned
  <2> QED
    BY <2>1, <2>2, <2>3
<1> HIDE DEF next
<1>6. HireBacked(h, next, accepted', charged')
  BY <1>2, <1>4, <1>5 DEF HireBacked
<1>7. HireIntroduced(l, h, next)
  BY <1>5 DEF LateRecord, HireIntroduced
<1>8. LegalStage(l)
  BY <1>2, <1>5, <1>6, <1>7 DEF LegalStage
<1>9. j \in LateJobs
  BY <1>1 DEF LateJobs
<1>10. LateBacked(j, accepted') /\ hires[j.hire].status # "absent"
  BY <1>6, NoHireAssumption, <1>2 DEF LateBacked, HireBacked, LateRecord
<1>11. LegalLate
  BY <1>2, <1>9, <1>10 DEF LegalLate
<1> QED
  BY <1>2, <1>3, <1>8, <1>11 DEF HandlerStep, LegalJobs, LegalSubmit, LegalSettle

LEMMA LateUpdateStep ==
  ASSUME Inv, NEW l \in Lates, LateUpdate(l)
  PROVE  HandlerStep(l)
<1> DEFINE j == late[l]
           next == IF j.via = "route" /\ j.delivered
                   THEN [j EXCEPT !.pc = "lookup"] ELSE EndedLate
<1>1. UNCHANGED <<settle, accepted, submit, charged, clock, faults, crashes>>
  BY DEF LateUpdate, LateFrame
<1>2. HistoryGrows
  BY <1>1, LateFacts DEF HistoryGrows
<1>3. j.pc = "update" /\ j.hire \in Hires /\ late' = [late EXCEPT ![l] = next]
  BY LateFacts DEF LateUpdate
<1>4. PICK exec \in ExecutionStatus, ret \in ReturnStatus, class \in ErrorClass :
         /\ exec = "completed" => j.out = "completed"
         /\ WriteOutcome(l, j.hire, exec, ret, class)
  BY DEF LateUpdate, ExecutionStatus, ReturnStatus, ErrorClass
<1>5. HireNamed(l, NoHire, j.hire)
  BY <1>3 DEF HireNamed
<1>6. LegalStage(l)
  BY <1>2, <1>3, <1>4, <1>5, LateFacts, TasksAreDistinct, WriteOutcomeIsLegal DEF LateBacked
<1>7. next \in LateJobs /\ LateBacked(next, accepted') /\ next.pc # "update"
  BY <1>1, <1>3, LateFacts, NoHireAssumption DEF LateJobs, LateBacked
<1>8. LegalLate
  BY <1>3, <1>7 DEF LegalLate
<1> QED
  BY <1>1, <1>2, <1>6, <1>8, LateFacts
     DEF HandlerStep, LegalJobs, LegalSubmit, LegalSettle, ChargeNeedsDelivery

LEMMA LateLookupStep ==
  ASSUME Inv, NEW l \in Lates, LateLookup(l)
  PROVE  HandlerStep(l)
<1> DEFINE h == late[l].hire
<1>1. UNCHANGED <<accepted, submit, charged, clock, faults, crashes>> /\ NoStage
  BY DEF LateLookup, LateFrame
<1>2. h \in Hires /\ h \in accepted' /\ PaymentOf[h] \in Payments
  BY <1>1, LateFacts, ConstantsAssumption DEF LateLookup, LateBacked
<1>3. UNCHANGED settle \/ Launch(PaymentOf[h], h, FALSE)
  BY DEF LateLookup
<1>4. LegalSettle
  BY <1>2, <1>3, LaunchIsLegal DEF LegalSettle
<1>5. LegalLate
  BY <1>1, LateFacts DEF LateLookup, LegalLate
<1> QED
  BY <1>1, <1>4, <1>5, LateFacts
     DEF HandlerStep, LegalStage, LegalJobs, LegalSubmit, HistoryGrows, ChargeNeedsDelivery

-----------------------------------------------------------------------------
(* Settlement.                                                             *)

LEMMA SettleFacts ==
  ASSUME Inv, NEW t \in Settlers
  PROVE  /\ settle[t] \in SettleJobs
         /\ SettleBacked(settle[t], accepted, charged)
         /\ settle[t].pay \in Payments
         /\ ledger[settle[t].pay] \in Entries
         /\ EntryBacked(settle[t].pay, ledger[settle[t].pay], accepted, charged)
         /\ ChargeNeedsDelivery
         /\ accepted \in SUBSET Hires /\ charged \in SUBSET Payments
BY DEF Inv, TypeOK, FilesType, LedgerFiles, JobsType, Provenance, FilesBacked, JobsBacked,
       SettleJobs

\* A settlement that is under way may move to any later step; a charge is what lets
\* it record one.
LEMMA SettleGotoIsLegal ==
  ASSUME Inv, HistoryGrows, NEW t \in Settlers,
         NEW pc \in {"payload", "settle", "record", "markPaid", "forget", "end", "fail",
                     "failed", "giveUp", "gaveUp"},
         NEW hashes \in SUBSET HashKinds,
         settle' = [settle EXCEPT ![t] = [settle[t] EXCEPT !.pc = pc, !.hashes = hashes]],
         settle[t].pc \notin {"idle", "done"},
         pc \in {"record", "markPaid", "forget"} => settle[t].pay \in charged'
  PROVE  LegalSettle
<1> DEFINE j == [settle[t] EXCEPT !.pc = pc, !.hashes = hashes]
<1>1. j \in SettleJobs /\ j.pc = pc /\ j.pay = settle[t].pay /\ j.hire = settle[t].hire
  BY SettleFacts DEF SettleJobs
<1>2. SettleBacked(settle[t], accepted', charged')
  BY SettleFacts, JobsBackedGrow DEF HistoryGrows
<1> HIDE DEF j
<1>3. SettleBacked(j, accepted', charged')
  BY <1>1, <1>2 DEF SettleBacked
<1>4. settle' = [settle EXCEPT ![t] = j]
  BY DEF j
<1> QED
  BY <1>1, <1>3, <1>4 DEF LegalSettle

LEMMA SettleGotoKeepsHashes ==
  ASSUME Inv, NEW t \in Settlers, NEW pc, SettleGoto(t, pc)
  PROVE  /\ settle[t].hashes \in SUBSET HashKinds
         /\ settle' = [settle EXCEPT ![t] = [settle[t] EXCEPT !.pc = pc,
                                                  !.hashes = settle[t].hashes]]
<1>1. settle \in [Settlers -> SettleJobs] /\ settle[t] \in SettleJobs
  BY DEF Inv, TypeOK, JobsType
<1>2. [settle[t] EXCEPT !.pc = pc] = [settle[t] EXCEPT !.pc = pc, !.hashes = settle[t].hashes]
  BY <1>1 DEF SettleJobs
<1>3. settle' = [settle EXCEPT ![t] = [settle[t] EXCEPT !.pc = pc]]
  BY DEF SettleGoto
<1> QED
  BY <1>1, <1>2, <1>3 DEF SettleJobs

LEMMA SettleMovesOn ==
  ASSUME Inv, HistoryGrows, NEW t \in Settlers,
         NEW pc \in {"payload", "settle", "record", "markPaid", "forget", "end", "fail",
                     "failed", "giveUp", "gaveUp"},
         SettleGoto(t, pc),
         settle[t].pc \notin {"idle", "done"},
         pc \in {"record", "markPaid", "forget"} => settle[t].pay \in charged'
  PROVE  LegalSettle
<1> DEFINE hashes == settle[t].hashes
<1>1. /\ hashes \in SUBSET HashKinds
      /\ settle' = [settle EXCEPT ![t] = [settle[t] EXCEPT !.pc = pc, !.hashes = hashes]]
  BY SettleGotoKeepsHashes
<1> HIDE DEF hashes
<1> QED
  BY <1>1, SettleGotoIsLegal

\* A finalizer's ledger write that touches neither outcome nor hashes.
LEMMA WriteKeepingOutcome ==
  ASSUME Inv, HistoryGrows, NEW t \in Settlers, NEW e \in Entries,
         e.exec = ledger[settle[t].pay].exec, e.ret = ledger[settle[t].pay].ret,
         e.hire = ledger[settle[t].pay].hire, e.hashes = ledger[settle[t].pay].hashes,
         e.pay \in FinalStatus => ledger[settle[t].pay].pay \in FinalStatus,
         settle[t].pc \notin {"idle", "done"},
         Exists(ledger[settle[t].pay]) => Exists(e),
         StageLedger(t, settle[t].pay, e)
  PROVE  LegalStage(t)
<1>1. WorkDone(settle[t].pay, accepted)
  BY SettleFacts DEF SettleBacked
<1> QED
  BY <1>1, SettleFacts, StillBacked DEF LegalStage, HireNamed

\* The steps around the facilitator call that leave charges alone.
LEMMA QuietSettleStep ==
  ASSUME Inv, NEW t \in Settlers,
         MarkRunning(t) \/ FindPayload(t) \/ RecordFailed(t) \/ GiveUp(t)
           \/ MarkPaid(t) \/ ForgetPayload(t)
  PROVE  HandlerStep(t)
<1> DEFINE p == settle[t].pay
<1>1. UNCHANGED <<charged, submit, late, accepted, clock, faults, crashes>>
  BY DEF MarkRunning, FindPayload, RecordFailed, GiveUp, MarkPaid, ForgetPayload,
         SettleFrame
<1>2. HistoryGrows /\ ChargeNeedsDelivery'
  BY <1>1, SettleFacts DEF HistoryGrows, ChargeNeedsDelivery
<1>3. settle[t].pc \notin {"idle", "done"}
  BY DEF MarkRunning, FindPayload, RecordFailed, GiveUp, MarkPaid, ForgetPayload, SettleAt
<1>4. LegalSettle
  <2>1. PICK pc \in {"payload", "settle", "forget", "end", "failed", "giveUp", "gaveUp"} :
           /\ SettleGoto(t, pc)
           /\ pc = "forget" => settle[t].pc = "markPaid"
    BY DEF MarkRunning, FindPayload, RecordFailed, GiveUp, MarkPaid, ForgetPayload,
           SettleAt
  <2>3. pc = "forget" => settle[t].pay \in charged'
    BY <1>1, <2>1, SettleFacts DEF SettleBacked
  <2> QED
    BY <1>2, <1>3, <2>1, <2>3, SettleMovesOn
<1>5. LegalStage(t)
  <2>1. CASE MarkRunning(t) \/ GiveUp(t)
    <3>1. PICK status \in FinalizerStatus :
             NoStage \/ StageLedger(t, p, MarkFinalizer(ledger[p], status))
      BY <2>1 DEF MarkRunning, GiveUp, FinalizerStatus
    <3> QED
      BY <1>2, <1>3, <3>1, SettleFacts, MarkFinalizerResult, WriteKeepingOutcome
         DEF LegalStage, Exists
  <2>2. CASE RecordFailed(t)
    <3>1. NoStage \/ StageLedger(t, p, RecordSettlementFailure(ledger[p]))
      BY <2>2 DEF RecordFailed
    <3> QED
      BY <1>2, <1>3, <3>1, SettleFacts, RecordSettlementFailureResult, WriteKeepingOutcome
         DEF LegalStage
  <2>3. CASE FindPayload(t)
    BY <2>3 DEF FindPayload, LegalStage
  <2>4. CASE ForgetPayload(t)
    BY <1>1, <2>4, SettleFacts DEF ForgetPayload, SettleAt, SettleBacked, LegalStage
  <2>5. CASE MarkPaid(t)
    <3> DEFINE h == settle[t].hire
               r == [hires[h] EXCEPT !.pay = "settled"]
    <3>1. h \in Hires /\ PaymentOf[h] \in charged
      BY <2>5, SettleFacts DEF MarkPaid, SettleAt, SettleBacked, SettleJobs
    <3>2. hires[h] \in HireRecords /\ HireBacked(h, hires[h], accepted', charged')
      BY <1>2, <3>1, HireRouteFacts, HireBackedGrows DEF HistoryGrows
    <3>3. r \in HireRecords /\ r.return = hires[h].return /\ r.status = hires[h].status
      BY <3>2 DEF HireRecords
    <3> HIDE DEF r
    <3>4. HireBacked(h, r, accepted', charged')
      BY <1>1, <3>1, <3>2, <3>3 DEF HireBacked
    <3>5. NoStage \/ StageHire(t, h, r)
      BY <2>5 DEF MarkPaid, r
    <3>6. HireIntroduced(t, h, r)
      BY <3>3 DEF HireIntroduced
    <3> QED
      BY <3>1, <3>3, <3>4, <3>5, <3>6 DEF LegalStage
  <2> QED
    BY <2>1, <2>2, <2>3, <2>4, <2>5
<1> QED
  BY <1>1, <1>2, <1>4, <1>5 DEF HandlerStep, LegalJobs, LegalSubmit, LegalLate

LEMMA RecordSettledStep ==
  ASSUME Inv, NEW t \in Settlers, RecordSettled(t)
  PROVE  HandlerStep(t)
<1> DEFINE p == settle[t].pay
           e == RecordSettlement(ledger[p], "inferred", settle[t].hashes, "none")
<1>1. UNCHANGED <<charged, submit, late, accepted, clock, faults, crashes>>
  BY DEF RecordSettled, SettleFrame
<1>2. HistoryGrows /\ ChargeNeedsDelivery'
  BY <1>1, SettleFacts DEF HistoryGrows, ChargeNeedsDelivery
<1>3. settle[t].pc = "record" /\ p \in charged
  BY SettleFacts DEF RecordSettled, SettleAt, SettleBacked
<1>4. LegalSettle
  BY <1>1, <1>2, <1>3, SettleMovesOn DEF RecordSettled
<1>5. /\ e \in Entries
      /\ e.exec = ledger[p].exec /\ e.ret = ledger[p].ret /\ e.hire = ledger[p].hire
      /\ e.hashes = ledger[p].hashes \union settle[t].hashes
      /\ Tried(e) => Tried(ledger[p])
      /\ Exists(e)
  BY SettleFacts, RecordSettlementResult DEF SettleJobs, ErrorClass, Tried
<1>6. StageLedger(t, p, e)
  BY DEF RecordSettled
<1> HIDE DEF e
<1>7. EntryBacked(p, e, accepted, charged) /\ Grows(ledger[p], e)
  BY <1>3, <1>5, SettleFacts DEF EntryBacked, Grows, Done
<1>8. LegalStage(t)
  BY <1>2, <1>5, <1>6, <1>7, SettleFacts, EntryBackedGrows
     DEF HistoryGrows, LegalStage, HireNamed
<1> QED
  BY <1>1, <1>2, <1>4, <1>8 DEF HandlerStep, LegalJobs, LegalSubmit, LegalLate

LEMMA RetryStartStep ==
  ASSUME Inv, NEW t \in Retries, NEW p \in Payments, RetryStart(t, p)
  PROVE  HandlerStep(t)
<1> DEFINE h == ledger[p].hire
           j == [pc |-> "settle", pay |-> p, hire |-> h, payload |-> TRUE, hashes |-> {}]
<1>1. UNCHANGED <<charged, submit, late, accepted, clock, faults, crashes>> /\ NoStage
  BY DEF RetryStart, SettleFrame
<1>2. /\ ChargeNeedsDelivery
      /\ accepted \in SUBSET Hires /\ charged \in SUBSET Payments
      /\ ledger[p] \in Entries /\ EntryBacked(p, ledger[p], accepted, charged)
  BY DEF Inv, TypeOK, FilesType, LedgerFiles, Provenance, FilesBacked
<1>3. h \in Hires /\ PaymentOf[h] = p
  BY <1>2 DEF RetryStart, EntryBacked, Entries
<1>4. WorkDone(p, accepted)
  <2>1. CASE Delivered(h)
    BY <1>3, <2>1, HireRouteFacts DEF Delivered, HireBacked, WorkDone
  <2>2. CASE Done(ledger[p])
    BY <1>2, <2>2 DEF EntryBacked
  <2> QED
    BY <2>1, <2>2 DEF RetryStart
<1>5. j \in SettleJobs
  BY <1>3 DEF SettleJobs
<1>6. SettleBacked(j, accepted', charged')
  BY <1>1, <1>3, <1>4, NoHireAssumption DEF SettleBacked
<1>7. settle' = [settle EXCEPT ![t] = j]
  BY DEF RetryStart
<1>8. LegalSettle
  BY <1>5, <1>6, <1>7, TasksAreDistinct DEF LegalSettle
<1> QED
  BY <1>1, <1>2, <1>8
     DEF HandlerStep, LegalStage, LegalJobs, LegalSubmit, LegalLate, HistoryGrows,
         ChargeNeedsDelivery

\* The facilitator charges only for a settlement that is under way.
LEMMA ChargeIsEarned ==
  ASSUME Inv, NEW t \in Settlers, SettleAt(t, "settle"),
         accepted' = accepted,
         charged' = charged \/ charged' = charged \union {settle[t].pay}
  PROVE  HistoryGrows /\ ChargeNeedsDelivery'
BY SettleFacts DEF SettleAt, SettleBacked, WorkDone, HistoryGrows, ChargeNeedsDelivery

LEMMA SettlesStep ==
  ASSUME Inv, NEW t \in Settlers, NEW hashes \in SettleResults, Settles(t, hashes)
  PROVE  HandlerStep(t)
<1>1. UNCHANGED <<submit, late, accepted, clock, faults, crashes>> /\ NoStage
  BY DEF Settles, SettleFrame
<1>2. HistoryGrows /\ ChargeNeedsDelivery'
  BY <1>1, ChargeIsEarned DEF Settles
<1>3. settle' = [settle EXCEPT ![t] = [settle[t] EXCEPT !.pc = "record", !.hashes = hashes]]
  BY SettleFacts DEF Settles, Inv, TypeOK, JobsType, SettleJobs
<1>4. LegalSettle
  BY <1>2, <1>3, ConstantsAssumption, SettleGotoIsLegal DEF Settles, SettleAt
<1> QED
  BY <1>1, <1>2, <1>4 DEF HandlerStep, LegalStage, LegalJobs, LegalSubmit, LegalLate

LEMMA SettleThrowsStep ==
  ASSUME Inv, NEW t \in Settlers, SettleThrows(t)
  PROVE  HandlerStep(t)
<1>1. UNCHANGED <<submit, late, accepted, clock, faults, crashes>> /\ NoStage
  BY DEF SettleThrows, SettleFrame
<1>2. HistoryGrows /\ ChargeNeedsDelivery'
  BY <1>1, ChargeIsEarned DEF SettleThrows
<1>3. LegalSettle
  BY <1>2, SettleMovesOn DEF SettleThrows, SettleAt
<1> QED
  BY <1>1, <1>2, <1>3 DEF HandlerStep, LegalStage, LegalJobs, LegalSubmit, LegalLate

LEMMA EndedIsLegal ==
  ASSUME NEW t \in Settlers, NEW done, NEW paid
  PROVE  Ended(t) \in SettleJobs /\ SettleBacked(Ended(t), done, paid)
<1>1. SomePayment \in Payments
  BY ConstantsAssumption DEF SomePayment
<1> QED
  BY <1>1 DEF Ended, IdleSettle, SettleJobs, SettleBacked

LEMMA SettleEndsStep ==
  ASSUME Inv, NEW t \in Settlers, SettleEnds(t)
  PROVE  HandlerStep(t)
<1>1. UNCHANGED <<charged, submit, late, accepted, clock, faults, crashes>> /\ NoStage
  BY DEF SettleEnds, SettleFrame
<1>2. LegalSettle
  BY EndedIsLegal DEF SettleEnds, LegalSettle
<1> QED
  BY <1>1, <1>2, SettleFacts
     DEF HandlerStep, LegalStage, LegalJobs, LegalSubmit, LegalLate, HistoryGrows,
         ChargeNeedsDelivery

-----------------------------------------------------------------------------
(* Saves, failures and the environment.                                    *)

\* Once saved, a write that was backed in flight is a backed file.
LEMMA SaveStep ==
  ASSUME Inv, NEW t \in Tasks, SaveLedger(t) \/ SaveHires(t) \/ SaveVault(t)
  PROVE  Inv'
<1>1. FilesType /\ FilesBacked
  BY DEF Inv, TypeOK, Provenance
<1>2. UNCHANGED <<submit, late, settle, charged, clock, accepted, faults, crashes>>
  BY DEF SaveLedger, SaveHires, SaveVault, jobs
<1>3. FilesType' /\ FilesBacked'
  <2>1. CASE SaveLedger(t)
    BY <1>1, <1>2, <2>1 DEF SaveLedger, FilesType, FilesBacked
  <2>2. CASE SaveHires(t)
    BY <1>1, <1>2, <2>2 DEF SaveHires, FilesType, FilesBacked
  <2>3. CASE SaveVault(t)
    BY <1>1, <1>2, <2>3 DEF SaveVault, FilesType, FilesBacked
  <2> QED
    BY <2>1, <2>2, <2>3
<1>4. JobsType' /\ JobsBacked' /\ ChargeNeedsDelivery'
  BY <1>2 DEF Inv, TypeOK, Provenance, JobsType, JobsBacked, ChargeNeedsDelivery
<1> QED
  BY <1>2, <1>3, <1>4 DEF clock, Inv, TypeOK, Provenance

LEMMA DroppedWritesKeepFiles ==
  ASSUME Inv, NEW ts, DropWrites(ts), UNCHANGED <<files, accepted, charged>>
  PROVE  FilesType' /\ FilesBacked'
BY DEF Inv, TypeOK, Provenance, DropWrites, files, FilesType, FilesBacked

LEMMA OverIsLegal ==
  ASSUME NEW a, NEW j \in SubmitJobs, NEW done
  PROVE  Over(j) \in SubmitJobs /\ SubmitBacked(a, Over(j), done)
BY DEF Over, SubmitJobs, SubmitBacked

LEMMA SaveFailsStep ==
  ASSUME Inv, NEW t \in Tasks, SaveFails(t)
  PROVE  Inv'
<1>1. UNCHANGED <<files, charged, clock, accepted, crashes>> /\ DropWrites({t})
  BY DEF SaveFails
<1>2. FilesType' /\ FilesBacked'
  BY <1>1, DroppedWritesKeepFiles
<1>3. HistoryGrows /\ ChargeNeedsDelivery'
  BY <1>1 DEF Inv, TypeOK, Provenance, HistoryGrows, ChargeNeedsDelivery
<1>4. LegalSubmit
  BY HireRouteFacts, OverIsLegal DEF SaveFails, LegalSubmit
<1>5. LegalLate
  BY <1>1, LateFacts DEF SaveFails, LegalLate
<1>6. LegalSettle
  <2>1. CASE t \notin Settlers
    BY <2>1 DEF SaveFails, LegalSettle
  <2>2. CASE t \in Settlers
    <3> DEFINE j == [settle[t] EXCEPT !.pc = Catch(t)]
    <3>1. Catch(t) \in {"fail", "giveUp", "done"}
      BY DEF Catch
    <3>2. settle[t].pc \notin {"idle", "done"} /\ settle' = [settle EXCEPT ![t] = j]
      BY <2>2 DEF SaveFails
    <3>3. j \in SettleJobs /\ SettleBacked(j, accepted', charged')
      BY <1>1, <2>2, <3>1, <3>2, SettleFacts DEF SettleJobs, SettleBacked
    <3> QED
      BY <2>2, <3>2, <3>3 DEF LegalSettle
  <2> QED
    BY <2>1, <2>2
<1>7. JobsType' /\ JobsBacked'
  BY <1>3, <1>4, <1>5, <1>6, StepKeepsJobs DEF LegalJobs
<1>8. faults' \in 0..MaxFaults
  BY ConstantsAssumption DEF SaveFails, Inv, TypeOK
<1> QED
  BY <1>1, <1>2, <1>3, <1>7, <1>8 DEF HistoryGrows, clock, Inv, TypeOK, Provenance

LEMMA CrashStep ==
  ASSUME Inv, Crash
  PROVE  Inv'
<1>1. UNCHANGED <<files, charged, clock, accepted, faults>> /\ DropWrites(Tasks)
  BY DEF Crash
<1>2. FilesType' /\ FilesBacked'
  BY <1>1, DroppedWritesKeepFiles
<1>3. /\ submit' \in [Hires -> SubmitJobs]
      /\ \A a \in Hires : SubmitBacked(a, submit'[a], accepted')
  BY <1>1, HireRouteFacts, OverIsLegal DEF Crash
<1>4. late' \in [Lates -> LateJobs] /\ \A l \in Lates : LateBacked(late'[l], accepted')
  BY <1>1, LateFacts DEF Crash
<1>5. /\ settle' \in [Settlers -> SettleJobs]
      /\ \A t \in Settlers : SettleBacked(settle'[t], accepted', charged')
  BY <1>1, SettleFacts, EndedIsLegal DEF Crash
<1>6. crashes' \in 0..MaxCrashes
  BY ConstantsAssumption DEF Crash, Inv, TypeOK
<1>7. ChargeNeedsDelivery'
  BY <1>1 DEF Inv, Provenance, ChargeNeedsDelivery
<1> QED
  BY <1>1, <1>2, <1>3, <1>4, <1>5, <1>6, <1>7
     DEF clock, Inv, TypeOK, JobsType, Provenance, JobsBacked

LEMMA UnchangedKeepsInv ==
  ASSUME Inv, UNCHANGED <<files, writes, jobs, charged, accepted, faults, crashes>>,
         expired' \in SUBSET Payments, lapsed' \in SUBSET Payments
  PROVE  Inv'
BY DEF Inv, TypeOK, FilesType, JobsType, Provenance, FilesBacked, JobsBacked,
       ChargeNeedsDelivery, files, writes, jobs

-----------------------------------------------------------------------------
LEMMA InitImpliesInv == Init => Inv
<1> SUFFICES ASSUME Init PROVE Inv
  OBVIOUS
<1>1. /\ AbsentEntry \in Entries /\ ~Done(AbsentEntry) /\ ~Tried(AbsentEntry)
      /\ AbsentEntry.pay \notin FinalStatus
  BY DEF Tried, AbsentEntry, Entries, PaymentStatus, ExecutionStatus, ReturnStatus, ErrorClass,
         FinalizerStatus, Done, FinalStatus
<1>2. /\ AbsentEntry.hire = NoHire /\ AbsentEntry.hashes = {}
  BY DEF AbsentEntry
<1>3. /\ AbsentHire \in HireRecords
      /\ \A h \in Hires : HireBacked(h, AbsentHire, {}, {})
  BY DEF AbsentHire, HireRecords, HireBacked
<1>4. FilesType /\ FilesBacked
  BY <1>1, <1>2, <1>3
     DEF Init, FilesType, LedgerFiles, HireFiles, VaultFiles, FilesBacked, EntryBacked
<1>5. JobsType
  <2>1. SomePayment \in Payments
    BY ConstantsAssumption DEF SomePayment
  <2> QED
    BY <2>1 DEF Init, JobsType, SubmitJobs, LateJobs, SettleJobs, IdleLate, IdleSettle
<1>6. JobsBacked
  BY DEF Init, JobsBacked, SubmitBacked, LateBacked, SettleBacked, IdleLate, IdleSettle
<1>7. ChargeNeedsDelivery
  BY DEF Init, ChargeNeedsDelivery
<1> QED
  BY <1>4, <1>5, <1>6, <1>7, ConstantsAssumption DEF Init, Inv, TypeOK, Provenance

LEMMA HireStepIsHandlerStep ==
  ASSUME Inv, NEW a \in Hires,
         VerifyOk(a) \/ VerifyFails(a) \/ SubmitRejected(a) \/ HireStep(a)
  PROVE  HandlerStep(a)
BY MoveOnStep, AnnotateStep, RecordExpiredStep, AuthorizeStep, StorePayloadStep,
   ResumeStep, SubmitStep, ForwardStep, CommitStep, UpdateStep, LaunchFinalizerStep
   DEF HireStep

LEMMA SettleStepIsHandlerStep ==
  ASSUME Inv, NEW t \in Settlers, SettleStep(t)
  PROVE  HandlerStep(t)
BY QuietSettleStep, RecordSettledStep, SettlesStep, SettleThrowsStep, SettleEndsStep
   DEF SettleStep

LEMMA NextKeepsInv == Inv /\ [Next]_vars => Inv'
<1> SUFFICES ASSUME Inv, [Next]_vars PROVE Inv'
  OBVIOUS
<1>1. CASE \E a \in Hires : VerifyOk(a) \/ VerifyFails(a) \/ SubmitRejected(a) \/ HireStep(a)
  BY <1>1, HireStepIsHandlerStep, HandlerStepKeepsInv, TasksAreDistinct
<1>2. CASE \E l \in Lates, h \in Hires, r \in LateReturns : LateRecord(l, h, r[1], r[2])
  BY <1>2, LateRecordStep, HandlerStepKeepsInv, TasksAreDistinct
<1>3. CASE \E l \in Lates : LateStep(l)
  BY <1>3, LateUpdateStep, LateLookupStep, HandlerStepKeepsInv, TasksAreDistinct
     DEF LateStep
<1>4. CASE \E t \in Retries, p \in Payments : RetryStart(t, p)
  BY <1>4, RetryStartStep, HandlerStepKeepsInv, TasksAreDistinct
<1>5. CASE \E t \in Settlers : SettleStep(t)
  BY <1>5, SettleStepIsHandlerStep, HandlerStepKeepsInv, TasksAreDistinct
<1>6. CASE \E t \in Tasks : SaveLedger(t) \/ SaveHires(t) \/ SaveVault(t) \/ SaveFails(t)
  BY <1>6, SaveStep, SaveFailsStep
<1>7. CASE Crash
  BY <1>7, CrashStep
<1>8. CASE (\E p \in Expiring : Expire(p)) \/ \E p \in Lapsing : Lapse(p)
  BY <1>8, UnchangedKeepsInv, ConstantsAssumption DEF Expire, Lapse, Inv, TypeOK
<1>9. CASE UNCHANGED vars
  BY <1>9, UnchangedKeepsInv DEF vars, clock, Inv, TypeOK
<1> QED
  BY <1>1, <1>2, <1>3, <1>4, <1>5, <1>6, <1>7, <1>8, <1>9 DEF Next

LEMMA SpecKeepsInv == Spec => []Inv
BY InitImpliesInv, NextKeepsInv, PTL DEF Spec

\* Every variable keeps its type, for any number of payloads, calls, faults and
\* restarts.
THEOREM TypeCorrect == Spec => []TypeOK
BY SpecKeepsInv, PTL DEF Inv

\* Nothing in a file, in flight or in a handler's hands speaks of a delivery or a
\* charge that did not happen.
THEOREM EverythingIsBacked == Spec => []Provenance
BY SpecKeepsInv, PTL DEF Inv

\* The buyer is charged only for a verified completed return that was accepted.
THEOREM ChargesAreEarned == Spec => []ChargeNeedsDelivery
BY SpecKeepsInv, PTL DEF Inv, Provenance

\* Hashes, settlement-final statuses and hires marked settled all stand for a charge.
THEOREM SettlementsAreReal == Spec => []RecordedSettlementIsReal
<1>1. Inv => RecordedSettlementIsReal
  BY DEF Inv, Provenance, FilesBacked, EntryBacked, HireBacked, RecordedSettlementIsReal
<1> QED
  BY <1>1, SpecKeepsInv, PTL

-----------------------------------------------------------------------------
(* When the saves of a file do not overlap, the one write in flight was    *)
(* computed from the ledger it is about to replace, so nothing the ledger  *)
(* has learned meanwhile can be missing from it.                           *)

FreshWrite ==
    \A t \in Tasks : ledgerWrite[t] # NoWrite =>
       /\ \A u \in Tasks \ {t} : ledgerWrite[u] = NoWrite
       /\ \A p \in Payments : Grows(ledger[p], ledgerWrite[t][p])

LEMMA StageIsFresh ==
  ASSUME Serialized, Inv, FreshWrite, NEW t \in Tasks, LegalStage(t)
  PROVE  FreshWrite' /\ ledger' = ledger
<1> USE NoWriteAssumption
<1>1. CASE UNCHANGED <<ledger, ledgerWrite>>
  BY <1>1 DEF FreshWrite
<1>2. ASSUME NEW p \in Payments, NEW e \in Entries, Grows(ledger[p], e),
             StageLedger(t, p, e)
      PROVE  FreshWrite' /\ ledger' = ledger
  <2> DEFINE f == [ledger EXCEPT ![p] = e]
  <2>1. /\ ledger \in LedgerFiles /\ DOMAIN ledger = Payments
        /\ ledgerWrite \in [Tasks -> LedgerFiles \union {NoWrite}]
    BY DEF Inv, TypeOK, FilesType, LedgerFiles
  <2>2. /\ \A u \in Tasks : ledgerWrite[u] = NoWrite
        /\ ledgerWrite' = [ledgerWrite EXCEPT ![t] = f]
        /\ ledger' = ledger
    BY <1>2 DEF StageLedger, Free, files
  <2>3. \A q \in Payments : Grows(ledger[q], f[q])
    BY <1>2, <2>1 DEF Grows
  <2> HIDE DEF f
  <2> QED
    BY <2>1, <2>2, <2>3 DEF FreshWrite
<1> QED
  BY <1>1, <1>2 DEF LegalStage, NoStage, StageHire, StageVault, files, writes

\* A step of a handler leaves the files alone; a save replaces the ledger by the
\* write in flight; a failure only drops writes.
LEMMA LedgerSteps ==
  ASSUME Inv, [Next]_vars
  PROVE  \/ \E t \in Tasks : LegalStage(t)
         \/ \E t \in Tasks : SaveLedger(t)
         \/ ledger' = ledger /\ \E ts : DropWrites(ts)
         \/ UNCHANGED <<ledger, ledgerWrite>>
<1>1. CASE \E a \in Hires : VerifyOk(a) \/ VerifyFails(a) \/ SubmitRejected(a) \/ HireStep(a)
  BY <1>1, HireStepIsHandlerStep, TasksAreDistinct DEF HandlerStep
<1>2. CASE \E l \in Lates, h \in Hires, r \in LateReturns : LateRecord(l, h, r[1], r[2])
  BY <1>2, LateRecordStep, TasksAreDistinct DEF HandlerStep
<1>3. CASE \E l \in Lates : LateStep(l)
  BY <1>3, LateUpdateStep, LateLookupStep, TasksAreDistinct DEF LateStep, HandlerStep
<1>4. CASE \E t \in Retries, p \in Payments : RetryStart(t, p)
  BY <1>4, RetryStartStep, TasksAreDistinct DEF HandlerStep
<1>5. CASE \E t \in Settlers : SettleStep(t)
  BY <1>5, SettleStepIsHandlerStep, TasksAreDistinct DEF HandlerStep
<1>6. CASE \E t \in Tasks : SaveLedger(t) \/ SaveHires(t) \/ SaveVault(t) \/ SaveFails(t)
  BY <1>6 DEF SaveHires, SaveVault, SaveFails, files
<1>7. CASE Crash
  BY <1>7 DEF Crash, files
<1>8. CASE (\E p \in Expiring : Expire(p)) \/ \E p \in Lapsing : Lapse(p)
  BY <1>8 DEF Expire, Lapse, files, writes
<1>9. CASE UNCHANGED vars
  BY <1>9 DEF vars, files, writes
<1> QED
  BY <1>1, <1>2, <1>3, <1>4, <1>5, <1>6, <1>7, <1>8, <1>9 DEF Next

LEMMA SerialStep ==
  ASSUME Serialized, Inv, FreshWrite, [Next]_vars
  PROVE  FreshWrite' /\ \A p \in Payments : Grows(ledger[p], ledger'[p])
<1>1. ledgerWrite \in [Tasks -> LedgerFiles \union {NoWrite}]
  BY DEF Inv, TypeOK, FilesType
<1>2. \A p \in Payments : Grows(ledger[p], ledger[p])
  BY DEF Grows
<1>3. CASE \E t \in Tasks : LegalStage(t)
  BY <1>2, <1>3, StageIsFresh
<1>4. ASSUME NEW t \in Tasks, SaveLedger(t)
      PROVE  FreshWrite' /\ \A p \in Payments : Grows(ledger[p], ledger'[p])
  BY <1>1, <1>4 DEF SaveLedger, FreshWrite
<1>5. CASE ledger' = ledger /\ \E ts : DropWrites(ts)
  BY <1>1, <1>2, <1>5 DEF DropWrites, FreshWrite
<1>6. CASE UNCHANGED <<ledger, ledgerWrite>>
  BY <1>2, <1>6 DEF FreshWrite
<1> QED
  BY <1>3, <1>4, <1>5, <1>6, LedgerSteps

\* The ledger never drops a settlement hash and never takes an accepted return back,
\* provided the loads and saves of the ledger file do not overlap.
THEOREM LedgerRemembers ==
  ASSUME Serialized
  PROVE  Spec => LedgerNeverForgets
<1>1. Init => FreshWrite
  BY DEF Init, FreshWrite
<1>2. Inv /\ FreshWrite /\ [Next]_vars => FreshWrite'
  BY SerialStep
<1>3. Inv /\ FreshWrite /\ [Next]_vars =>
         [\A p \in Payments : /\ ledger[p].hashes \subseteq ledger'[p].hashes
                              /\ Done(ledger[p]) => Done(ledger'[p])]_vars
  BY SerialStep DEF Grows
<1> QED
  BY <1>1, <1>2, <1>3, SpecKeepsInv, PTL DEF Spec, LedgerNeverForgets

-----------------------------------------------------------------------------
(* Under the same condition a payload serves its stay in the vault, and an *)
(* entry stays in the ledger, from the moment a call of the hire route has *)
(* stored them, so a hire that was submitted always has both; and an       *)
(* accepted return is in the ledger, or a handler is about to bring it     *)
(* there.                                                                  *)

\* The payload can still be settled, unless it has been or its stay is over.
Usable(p) == vault[p] \/ p \in charged \/ p \in lapsed

FreshVault ==
    \A t \in Tasks : vaultWrite[t] # NoWrite =>
       /\ \A u \in Tasks \ {t} : vaultWrite[u] = NoWrite
       /\ \A p \in Payments : vault[p] => vaultWrite[t][p] \/ p \in charged \/ p \in lapsed

\* What a call of the hire route has stored is in the file or in its own write.
CallHolds(a) ==
    /\ submit[a].pc \in Stored =>
          \/ Usable(PaymentOf[a])
          \/ vaultWrite[a] # NoWrite /\ vaultWrite[a][PaymentOf[a]]
    /\ submit[a].pc \in Recorded =>
          \/ Exists(ledger[PaymentOf[a]])
          \/ ledgerWrite[a] # NoWrite /\ Exists(ledgerWrite[a][PaymentOf[a]])

CallsHold == \A a \in Hires : CallHolds(a)

\* The payload and the entry of payment p are safe.
Kept(p) == Usable(p) /\ Exists(ledger[p])

HiresHold ==
    /\ \A h \in Hires : hires[h].status # "absent" => Kept(PaymentOf[h])
    /\ \A t \in Tasks : hireWrite[t] # NoWrite =>
          \A h \in Hires : hireWrite[t][h].status # "absent" => Kept(PaymentOf[h])
    /\ \A l \in Lates : late[l].pc = "update" => Kept(PaymentOf[late[l].hire])

\* An accepted return is in the entry, or on its way there.
Entered(p) ==
    \/ Done(ledger[p])
    \/ \E t \in Tasks : ledgerWrite[t] # NoWrite /\ Done(ledgerWrite[t][p])

\* A handler has a completed outcome of h to write to the ledger.
Announced(h) ==
    \/ submit[h].pc \in {"commit", "update"} /\ submit[h].out = "completed"
    \/ \E l \in Lates : late[l].pc = "update" /\ late[l].hire = h /\ late[l].out = "completed"

Undisturbed == faults = 0 /\ crashes = 0

AcceptedReach ==
    Undisturbed => \A h \in accepted : Announced(h) \/ Entered(PaymentOf[h])

KeptInv == FreshWrite /\ FreshVault /\ CallsHold /\ HiresHold /\ AcceptedReach

\* Payloads and entries stay: what the rest of the section needs of a step.
KeepsGrowing ==
    /\ \A p \in Payments : Usable(p) => Usable(p)'
    /\ \A p \in Payments : Grows(ledger[p], ledger'[p])

\* How a step of task t moves the calls of the hire route on.
CallsMove(t) ==
    /\ \A a \in Hires : a # t => submit'[a] = submit[a]
    /\ t \in Hires =>
          /\ Quiet(t)
          /\ submit'[t].pc \in Stored =>
                submit[t].pc \in Stored \/ StageVault(t, PaymentOf[t], TRUE)
          /\ submit'[t].pc \in Recorded =>
                \/ submit[t].pc \in Recorded
                \/ \E e \in Entries : Exists(e) /\ StageLedger(t, PaymentOf[t], e)

\* A return is accepted by a handler that will enter it, and an outcome that was
\* announced stays so until it is staged for the entry.
AnnouncedMoves ==
    \A h \in Hires : Announced(h) \/ h \in accepted' \ accepted
                        => Announced(h)' \/ Entered(PaymentOf[h])'

CallStep(a) == VerifyOk(a) \/ VerifyFails(a) \/ SubmitRejected(a) \/ HireStep(a)

LEMMA GotoMoves ==
  ASSUME Inv, NEW a \in Hires, NEW pc, Goto(a, pc)
  PROVE  submit'[a].pc = pc /\ \A b \in Hires : b # a => submit'[b] = submit[b]
<1>1. submit \in [Hires -> SubmitJobs] /\ submit[a] \in SubmitJobs
  BY DEF Inv, TypeOK, JobsType
<1> QED
  BY <1>1 DEF Goto, Over, SubmitJobs

LEMMA CallStepMovesCalls ==
  ASSUME Inv, NEW a \in Hires, CallStep(a)
  PROVE  CallsMove(a)
<1> USE DEF CallsMove, Stored, Recorded, At
<1>1. submit \in [Hires -> SubmitJobs] /\ submit[a] \in SubmitJobs
  BY DEF Inv, TypeOK, JobsType
<1>2. CASE VerifyOk(a) \/ VerifyFails(a) \/ SubmitRejected(a)
  <2>1. Quiet(a)
    BY <1>2 DEF VerifyOk, VerifyFails, SubmitRejected
  <2>2. PICK pc \in {"authorize", "annotate", "recordExpired", "end"} : Goto(a, pc)
    BY <1>2 DEF VerifyOk, VerifyFails, SubmitRejected
  <2> QED
    BY <2>1, <2>2, GotoMoves
<1>3. CASE Annotate(a) \/ RecordExpired(a)
  <2>1. Quiet(a) /\ Goto(a, "end")
    BY <1>3 DEF Annotate, RecordExpired
  <2>2. submit'[a].pc = "end" /\ \A b \in Hires : b # a => submit'[b] = submit[b]
    BY <2>1, GotoMoves
  <2> QED
    BY <2>1, <2>2
<1>4. CASE Authorize(a)
  <2> DEFINE e == RecordSettlement(ledger[PaymentOf[a]], "authorization_verified", {}, "none")
  <2>1. HistoryGrows
    BY <1>4, HireRouteFacts DEF Authorize, HireFrame, HistoryGrows
  <2>2. "none" \in ErrorClass
    BY DEF ErrorClass
  <2>3. e \in Entries /\ Exists(e)
    BY <2>1, <2>2, HireRouteFacts, RecordedUnsettled
  <2>4. Quiet(a) /\ StageLedger(a, PaymentOf[a], e)
    BY <1>4 DEF Authorize
  <2>5. submit'[a].pc = "store" /\ \A b \in Hires : b # a => submit'[b] = submit[b]
    BY <1>1, <1>4 DEF Authorize, SubmitJobs
  <2> QED
    BY <2>3, <2>4, <2>5
<1>5. CASE StorePayload(a) \/ StoreAgain(a)
  BY <1>5, GotoMoves DEF StorePayload, StoreAgain
<1>6. CASE Resume(a) \/ Submit(a) \/ LaunchFinalizer(a)
  BY <1>6, GotoMoves DEF Resume, Submit, LaunchFinalizer
<1>7. CASE Commit(a) \/ Update(a)
  BY <1>7, GotoMoves DEF Commit, Update
<1>8. ASSUME NEW out \in Outcomes, Forward(a, out) PROVE CallsMove(a)
  BY <1>1, <1>8 DEF Forward, Over, SubmitJobs
<1> QED
  BY <1>2, <1>3, <1>4, <1>5, <1>6, <1>7, <1>8 DEF CallStep, HireStep

\* The outcome of a delivered hire is staged for its entry as accepted.
LEMMA OutcomeIsEntered ==
  ASSUME Inv, NEW t \in Tasks, NEW h \in Hires, NEW class \in ErrorClass,
         Exists(ledger[PaymentOf[h]]),
         WriteOutcome(t, h, "completed", "accepted", class)
  PROVE  Entered(PaymentOf[h])'
<1> DEFINE p == PaymentOf[h]
           e == UpdateExecution(ledger[p], h, "completed", "accepted", class)
           f == [ledger EXCEPT ![p] = e]
<1>1. "completed" \in ExecutionStatus /\ "accepted" \in ReturnStatus
  BY DEF ExecutionStatus, ReturnStatus
<1>2. Done(e) /\ e \in Entries
  BY <1>1, HireRouteFacts, UpdateExecutionResult
<1>3. ledger \in LedgerFiles /\ ledgerWrite \in [Tasks -> LedgerFiles \union {NoWrite}]
  BY DEF Inv, TypeOK, FilesType
<1>4. ledgerWrite' = [ledgerWrite EXCEPT ![t] = f]
  BY DEF WriteOutcome, StageLedger
<1> HIDE DEF e
<1>5. f \in LedgerFiles /\ f[p] = e
  BY <1>2, <1>3, HireRouteFacts DEF LedgerFiles
<1> HIDE DEF f
<1>6. ledgerWrite'[t] # NoWrite /\ Done(ledgerWrite'[t][p])
  BY <1>2, <1>3, <1>4, <1>5, NoWriteAssumption
<1> QED
  BY <1>6 DEF Entered

LEMMA CallStepKeepsAnnounced ==
  ASSUME Inv, CallsHold, NEW a \in Hires, CallStep(a)
  PROVE  AnnouncedMoves
<1>1. submit \in [Hires -> SubmitJobs] /\ submit[a] \in SubmitJobs
  BY DEF Inv, TypeOK, JobsType
<1>2. \A b \in Hires : b # a => submit'[b] = submit[b]
  BY CallStepMovesCalls DEF CallsMove
<1>3. late' = late
  BY DEF CallStep, HireStep, VerifyOk, VerifyFails, SubmitRejected, Annotate,
         RecordExpired, Authorize, StorePayload, Resume, Submit, Commit, Update,
         StoreAgain, LaunchFinalizer, Forward, HireFrame
<1>4. ASSUME submit[a].pc = "commit", submit[a].out = "completed"
      PROVE  submit'[a].pc = "update" /\ submit'[a].out = "completed"
  <2>1. Goto(a, "update")
    BY <1>4 DEF CallStep, HireStep, VerifyOk, VerifyFails, SubmitRejected, Annotate,
           RecordExpired, Authorize, StorePayload, Resume, Submit, Commit, Update,
           StoreAgain, LaunchFinalizer, Forward, At
  <2> QED
    BY <1>1, <1>4, <2>1 DEF Goto, SubmitJobs
<1>5. ASSUME submit[a].pc = "update", submit[a].out = "completed"
      PROVE  Entered(PaymentOf[a])'
  <2>1. Update(a)
    BY <1>5 DEF CallStep, HireStep, VerifyOk, VerifyFails, SubmitRejected, Annotate,
           RecordExpired, Authorize, StorePayload, Resume, Submit, Commit,
           StoreAgain, LaunchFinalizer, Forward, At
  <2>2. Quiet(a) /\ WriteOutcome(a, a, "completed", "accepted", "none")
    BY <1>5, <2>1 DEF Update, At
  <2>3. Exists(ledger[PaymentOf[a]])
    BY <1>5, <2>2 DEF CallsHold, CallHolds, Recorded, Stored, Quiet
  <2>4. "none" \in ErrorClass
    BY DEF ErrorClass
  <2> QED
    BY <2>2, <2>3, <2>4, OutcomeIsEntered, TasksAreDistinct
<1>6. ASSUME NEW h \in Hires, h \in accepted' \ accepted
      PROVE  Announced(h)'
  <2>1. PICK out \in Outcomes : Forward(a, out)
    BY <1>6 DEF CallStep, HireStep, VerifyOk, VerifyFails, SubmitRejected, Annotate,
           RecordExpired, Authorize, StorePayload, Resume, Submit, Commit, Update,
           StoreAgain, LaunchFinalizer
  <2>2. h = a /\ out = "completed"
    BY <1>6, <2>1 DEF Forward
  <2>3. submit'[a].pc = "commit" /\ submit'[a].out = "completed"
    BY <1>1, <2>1, <2>2 DEF Forward, SubmitJobs
  <2> QED
    BY <2>2, <2>3 DEF Announced
<1> QED
  BY <1>2, <1>3, <1>4, <1>5, <1>6 DEF AnnouncedMoves, Announced

LEMMA LateStepKeepsAnnounced ==
  ASSUME Inv, HiresHold, NEW l \in Lates,
         LateStep(l) \/ \E h \in Hires, r \in LateReturns : LateRecord(l, h, r[1], r[2])
  PROVE  AnnouncedMoves /\ submit' = submit
<1> DEFINE Ready(h) == /\ late[l].pc = "update" /\ late[l].out = "completed"
                       /\ late[l].hire = h
<1>1. submit' = submit /\ \A m \in Lates : m # l => late'[m] = late[m]
  BY DEF LateStep, LateUpdate, LateLookup, LateRecord, LateFrame, Inv, TypeOK, JobsType
<1>2. ASSUME NEW h \in Hires, Ready(h) PROVE Entered(PaymentOf[h])'
  <2> USE <1>2
  <2>1. LateUpdate(l)
    BY DEF LateStep, LateLookup, LateRecord
  <2>2. WriteOutcome(l, h, "completed", "accepted", "none")
    BY <2>1 DEF LateUpdate
  <2>3. Exists(ledger[PaymentOf[h]])
    BY DEF HiresHold, Kept
  <2>4. "none" \in ErrorClass
    BY DEF ErrorClass
  <2> QED
    BY <2>2, <2>3, <2>4, OutcomeIsEntered, TasksAreDistinct
<1>3. ASSUME NEW h \in Hires, h \in accepted' \ accepted
      PROVE  Announced(h)'
  <2>1. PICK g \in Hires, r \in LateReturns : LateRecord(l, g, r[1], r[2])
    BY <1>3 DEF LateStep, LateUpdate, LateLookup
  <2>2. h = g /\ r[2] = "completed"
    BY <1>3, <2>1 DEF LateRecord
  <2>3. late'[l].pc = "update" /\ late'[l].hire = h /\ late'[l].out = "completed"
    BY <2>1, <2>2 DEF LateRecord, Inv, TypeOK, JobsType
  <2> QED
    BY <2>3 DEF Announced
<1> QED
  BY <1>1, <1>2, <1>3 DEF AnnouncedMoves, Announced

LEMMA SettleStepKeepsAnnounced ==
  ASSUME NEW t \in Settlers,
         SettleStep(t) \/ \E p \in Payments : RetryStart(t, p)
  PROVE  AnnouncedMoves /\ submit' = submit
<1>1. submit' = submit /\ late' = late /\ accepted' = accepted
  BY DEF SettleStep, MarkRunning, FindPayload, SettleThrows, RecordSettled, MarkPaid,
         ForgetPayload, RecordFailed, GiveUp, SettleEnds, Settles, RetryStart, SettleFrame
<1> QED
  BY <1>1 DEF AnnouncedMoves, Announced

\* What a handler does, as far as this section is concerned.
KeptStep(t) == HandlerStep(t) /\ CallsMove(t) /\ AnnouncedMoves

LEMMA KeptSteps ==
  ASSUME Inv, CallsHold, HiresHold, [Next]_vars
  PROVE  \/ \E t \in Tasks : KeptStep(t)
         \/ \E t \in Tasks : SaveLedger(t) \/ SaveHires(t) \/ SaveVault(t)
         \/ \E t \in Tasks : SaveFails(t)
         \/ Crash
         \/ /\ UNCHANGED <<files, writes, jobs, charged, accepted, faults, crashes>>
            /\ lapsed \subseteq lapsed'
<1>1. CASE \E a \in Hires : CallStep(a)
  BY <1>1, HireStepIsHandlerStep, CallStepMovesCalls, CallStepKeepsAnnounced,
     TasksAreDistinct DEF KeptStep, CallStep
<1>2. CASE \E l \in Lates, h \in Hires, r \in LateReturns : LateRecord(l, h, r[1], r[2])
  BY <1>2, LateRecordStep, LateStepKeepsAnnounced, TasksAreDistinct, TasksAssumption
     DEF KeptStep, CallsMove
<1>3. CASE \E l \in Lates : LateStep(l)
  <2>1. PICK l \in Lates : LateStep(l)
    BY <1>3
  <2>2. HandlerStep(l)
    BY <2>1, LateUpdateStep, LateLookupStep DEF LateStep
  <2>3. AnnouncedMoves /\ submit' = submit
    BY <2>1, LateStepKeepsAnnounced
  <2> QED
    BY <2>2, <2>3, TasksAreDistinct, TasksAssumption DEF KeptStep, CallsMove
<1>4. CASE \E t \in Retries, p \in Payments : RetryStart(t, p)
  BY <1>4, RetryStartStep, SettleStepKeepsAnnounced, TasksAreDistinct, TasksAssumption
     DEF KeptStep, CallsMove
<1>5. CASE \E t \in Settlers : SettleStep(t)
  BY <1>5, SettleStepIsHandlerStep, SettleStepKeepsAnnounced, TasksAreDistinct,
     TasksAssumption DEF KeptStep, CallsMove
<1>6. CASE (\E p \in Expiring : Expire(p)) \/ \E p \in Lapsing : Lapse(p)
  BY <1>6 DEF Expire, Lapse, jobs
<1>7. CASE UNCHANGED vars
  BY <1>7 DEF vars, clock, jobs
<1> QED
  BY <1>1, <1>2, <1>3, <1>4, <1>5, <1>6, <1>7 DEF Next, CallStep

\* The vault, like the ledger, loses nothing that is still needed.
LEMMA HandlerKeepsGrowing ==
  ASSUME Serialized, Inv, FreshWrite, FreshVault, NEW t \in Tasks, HandlerStep(t)
  PROVE  FreshWrite' /\ FreshVault' /\ KeepsGrowing /\ UNCHANGED files
<1> USE NoWriteAssumption
<1>1. UNCHANGED files
  BY DEF HandlerStep, LegalStage, NoStage, StageLedger, StageHire, StageVault
<1>2. FreshWrite'
  BY StageIsFresh DEF HandlerStep
<1>3. KeepsGrowing
  BY <1>1 DEF KeepsGrowing, Usable, Grows, files, clock, HandlerStep, HistoryGrows
<1>4. FreshVault'
  <2>1. CASE UNCHANGED vaultWrite
    BY <1>1, <2>1 DEF FreshVault, files, clock, HandlerStep, HistoryGrows
  <2>2. ASSUME NEW p \in Payments, NEW kept \in BOOLEAN, kept \/ p \in charged',
               StageVault(t, p, kept)
        PROVE  FreshVault'
    <3>1. /\ vault \in [Payments -> BOOLEAN]
          /\ vaultWrite \in [Tasks -> VaultFiles \union {NoWrite}]
      BY DEF Inv, TypeOK, FilesType, VaultFiles
    <3>2. PICK gone \in SUBSET lapsed :
             vaultWrite' = [vaultWrite EXCEPT ![t] =
                              [q \in Payments |-> /\ q \notin gone
                                                 /\ IF q = p THEN kept ELSE vault[q]]]
      BY <2>2 DEF StageVault
    <3> DEFINE f == [q \in Payments |-> q \notin gone /\ IF q = p THEN kept ELSE vault[q]]
    <3>3. /\ \A u \in Tasks : vaultWrite[u] = NoWrite
          /\ vaultWrite' = [vaultWrite EXCEPT ![t] = f]
          /\ vault' = vault /\ lapsed' = lapsed
      BY <2>2, <3>2 DEF StageVault, Free, files, clock, HandlerStep
    <3>4. \A q \in Payments : vault[q] => f[q] \/ q \in charged' \/ q \in lapsed
      BY <2>2
    <3> HIDE DEF f
    <3> QED
      BY <3>1, <3>3, <3>4 DEF FreshVault
  <2> QED
    BY <2>1, <2>2 DEF HandlerStep, LegalStage, NoStage, StageLedger, StageHire, writes
<1> QED
  BY <1>1, <1>2, <1>3, <1>4

LEMMA SaveKeepsGrowing ==
  ASSUME Inv, FreshWrite, FreshVault, NEW t \in Tasks,
         SaveLedger(t) \/ SaveHires(t) \/ SaveVault(t)
  PROVE  FreshWrite' /\ FreshVault' /\ KeepsGrowing
<1>1. /\ ledgerWrite \in [Tasks -> LedgerFiles \union {NoWrite}]
      /\ vaultWrite \in [Tasks -> VaultFiles \union {NoWrite}]
  BY DEF Inv, TypeOK, FilesType
<1>2. CASE SaveLedger(t)
  BY <1>1, <1>2 DEF SaveLedger, FreshWrite, FreshVault, KeepsGrowing, Usable, clock
<1>3. CASE SaveHires(t)
  BY <1>3 DEF SaveHires, FreshWrite, FreshVault, KeepsGrowing, Usable, Grows, clock
<1>4. CASE SaveVault(t)
  BY <1>1, <1>4 DEF SaveVault, FreshWrite, FreshVault, KeepsGrowing, Usable, Grows, clock
<1> QED
  BY <1>2, <1>3, <1>4

LEMMA DropKeepsGrowing ==
  ASSUME FreshWrite, FreshVault, NEW ts, DropWrites(ts), UNCHANGED <<files, charged, clock>>
  PROVE  FreshWrite' /\ FreshVault' /\ KeepsGrowing
BY DEF DropWrites, files, clock, FreshWrite, FreshVault, KeepsGrowing, Usable, Grows

\* What another task does leaves what a call holds where it was.
LEMMA OtherCallHolds ==
  ASSUME KeepsGrowing, NEW a \in Hires, CallHolds(a), PaymentOf[a] \in Payments,
         submit'[a] = submit[a],
         \/ vaultWrite'[a] = vaultWrite[a]
         \/ vault' = vaultWrite[a],
         \/ ledgerWrite'[a] = ledgerWrite[a]
         \/ ledger' = ledgerWrite[a]
  PROVE  CallHolds(a)'
<1> DEFINE p == PaymentOf[a]
<1>1. Usable(p) => Usable(p)'
  BY DEF KeepsGrowing
<1>2. Exists(ledger[p]) => Exists(ledger'[p])
  BY DEF KeepsGrowing, Grows
<1>3. vaultWrite[a] # NoWrite /\ vaultWrite[a][p] =>
         Usable(p)' \/ (vaultWrite'[a] # NoWrite /\ vaultWrite'[a][p])
  BY DEF Usable
<1>4. ledgerWrite[a] # NoWrite /\ Exists(ledgerWrite[a][p]) =>
         Exists(ledger'[p]) \/ (ledgerWrite'[a] # NoWrite /\ Exists(ledgerWrite'[a][p]))
  OBVIOUS
<1> QED
  BY <1>1, <1>2, <1>3, <1>4 DEF CallHolds

LEMMA HandlerKeepsCalls ==
  ASSUME Inv, CallsHold, KeepsGrowing, NEW t \in Tasks, KeptStep(t)
  PROVE  CallsHold'
<1> USE NoWriteAssumption
<1> SUFFICES ASSUME NEW a \in Hires PROVE CallHolds(a)'
  BY DEF CallsHold
<1>1. CallHolds(a) /\ PaymentOf[a] \in Payments /\ a \in Tasks
  BY ConstantsAssumption, TasksAreDistinct DEF CallsHold
<1>2. /\ ledgerWrite \in [Tasks -> LedgerFiles \union {NoWrite}]
      /\ vaultWrite \in [Tasks -> VaultFiles \union {NoWrite}]
      /\ ledger \in [Payments -> Entries] /\ vault \in [Payments -> BOOLEAN]
  BY DEF Inv, TypeOK, FilesType, LedgerFiles, VaultFiles
<1>3. CASE a # t
  <2>1. vaultWrite'[a] = vaultWrite[a] /\ ledgerWrite'[a] = ledgerWrite[a]
    BY <1>1, <1>2, <1>3 DEF KeptStep, HandlerStep, LegalStage, NoStage, StageLedger,
       StageHire, StageVault, writes
  <2> QED
    BY <1>1, <1>3, <2>1, OtherCallHolds DEF KeptStep, CallsMove
<1>4. CASE a = t
  <2> DEFINE p == PaymentOf[a]
  <2>1. Quiet(a)
    BY <1>4 DEF KeptStep, CallsMove
  <2>2. submit'[a].pc \in Stored =>
           Usable(p)' \/ (vaultWrite'[a] # NoWrite /\ vaultWrite'[a][p])
    <3>1. CASE StageVault(a, p, TRUE)
      <4>1. PICK f \in VaultFiles :
               /\ vaultWrite' = [vaultWrite EXCEPT ![a] = f]
               /\ f[p] \/ p \in lapsed
        BY <1>1, <1>2, <3>1 DEF StageVault, VaultFiles
      <4>2. lapsed' = lapsed
        BY DEF KeptStep, HandlerStep, clock
      <4> QED
        BY <1>1, <1>2, <4>1, <4>2 DEF Usable
    <3>2. CASE submit[a].pc \in Stored
      BY <1>1, <2>1, <3>2 DEF CallHolds, Quiet, KeepsGrowing
    <3> QED
      BY <1>4, <3>1, <3>2 DEF KeptStep, CallsMove
  <2>3. submit'[a].pc \in Recorded =>
           \/ Exists(ledger'[p])
           \/ ledgerWrite'[a] # NoWrite /\ Exists(ledgerWrite'[a][p])
    <3>1. ASSUME NEW e \in Entries, Exists(e), StageLedger(a, p, e)
          PROVE  ledgerWrite'[a] # NoWrite /\ Exists(ledgerWrite'[a][p])
      <4>1. ledgerWrite'[a] = [ledger EXCEPT ![p] = e]
        BY <1>1, <1>2, <3>1 DEF StageLedger
      <4>2. [ledger EXCEPT ![p] = e] \in LedgerFiles /\ [ledger EXCEPT ![p] = e][p] = e
        BY <1>1, <1>2 DEF LedgerFiles
      <4> QED
        BY <3>1, <4>1, <4>2
    <3>2. CASE submit[a].pc \in Recorded
      BY <1>1, <2>1, <3>2 DEF CallHolds, Quiet, KeepsGrowing, Grows
    <3> QED
      BY <1>4, <3>1, <3>2 DEF KeptStep, CallsMove
  <2> QED
    BY <2>2, <2>3 DEF CallHolds
<1> QED
  BY <1>3, <1>4

\* A record of a hire only enters the file when its payload and entry are safe.
LEMMA HandlerKeepsHires ==
  ASSUME Inv, CallsHold, HiresHold, KeepsGrowing, NEW t \in Tasks, KeptStep(t),
         UNCHANGED files
  PROVE  HiresHold'
<1> USE NoWriteAssumption
<1>1. /\ hireWrite \in [Tasks -> HireFiles \union {NoWrite}]
      /\ hires \in [Hires -> HireRecords]
      /\ \A h \in Hires : PaymentOf[h] \in Payments
  BY ConstantsAssumption DEF Inv, TypeOK, FilesType, HireFiles
<1>2. \A p \in Payments : Kept(p) => Kept(p)'
  BY DEF KeepsGrowing, Grows, Kept
<1>3. \A h \in Hires : hires[h].status # "absent" => Kept(PaymentOf[h])
  BY DEF HiresHold
<1>4. hires' = hires
  BY DEF files
<1>5. ASSUME NEW h \in Hires, NEW r \in HireRecords, HireIntroduced(t, h, r),
             StageHire(t, h, r)
      PROVE  \A u \in Tasks : hireWrite'[u] # NoWrite =>
                \A g \in Hires : hireWrite'[u][g].status # "absent" => Kept(PaymentOf[g])'
  <2> DEFINE f == [hires EXCEPT ![h] = r]
  <2>1. r.status # "absent" => Kept(PaymentOf[h])
    <3>1. CASE hires[h].status # "absent"
      BY <1>3, <3>1
    <3>2. CASE h = t /\ submit[h].pc \in Stored
      <4>1. CallHolds(h) /\ Quiet(h)
        BY <3>2 DEF CallsHold, KeptStep, CallsMove
      <4> QED
        BY <3>2, <4>1 DEF CallHolds, Quiet, Recorded, Kept
    <3> QED
      BY <1>5, <3>1, <3>2 DEF HireIntroduced
  <2>2. \A g \in Hires : f[g].status # "absent" => Kept(PaymentOf[g])'
    BY <1>1, <1>2, <1>3, <2>1
  <2>3. hireWrite' = [hireWrite EXCEPT ![t] = f]
    BY <1>5 DEF StageHire
  <2> HIDE DEF f
  <2>4. ASSUME NEW u \in Tasks, hireWrite'[u] # NoWrite, NEW g \in Hires,
               hireWrite'[u][g].status # "absent"
        PROVE  Kept(PaymentOf[g])'
    <3>1. CASE u = t
      BY <1>1, <2>2, <2>3, <2>4, <3>1
    <3>2. CASE u # t
      BY <1>1, <1>2, <2>3, <2>4, <3>2 DEF HiresHold
    <3> QED
      BY <3>1, <3>2
  <2> QED
    BY <2>4
<1>6. \A u \in Tasks : hireWrite'[u] # NoWrite =>
         \A g \in Hires : hireWrite'[u][g].status # "absent" => Kept(PaymentOf[g])'
  <2>1. CASE UNCHANGED hireWrite
    BY <1>1, <1>2, <2>1 DEF HiresHold
  <2> QED
    BY <1>5, <2>1 DEF KeptStep, HandlerStep, LegalStage, NoStage, StageLedger, StageVault,
       writes
<1>7. ASSUME NEW m \in Lates, late'[m].pc = "update"
      PROVE  Kept(PaymentOf[late[m].hire])'
  <2>1. late \in [Lates -> LateJobs]
    BY DEF Inv, TypeOK, JobsType
  <2>2. ASSUME NEW h \in Hires, h = late'[m].hire, Kept(PaymentOf[h])
        PROVE  Kept(PaymentOf[late[m].hire])'
    BY <1>1, <1>2, <2>2
  <2>3. CASE late'[m] = late[m]
    <3>1. late[m].hire \in Hires /\ Kept(PaymentOf[late[m].hire])
      BY <1>7, <2>3, LateFacts DEF HiresHold
    <3> QED
      BY <2>2, <2>3, <3>1
  <2>4. ASSUME NEW j \in LateJobs, late'[m] = j, LateBacked(j, accepted'),
               j.pc = "update" => hires[j.hire].status # "absent"
        PROVE  Kept(PaymentOf[late[m].hire])'
    <3>1. j.hire \in Hires
      BY <1>7, <2>4 DEF LateBacked, LateJobs
    <3> QED
      BY <1>3, <1>7, <2>2, <2>4, <3>1
  <2> QED
    BY <2>1, <2>3, <2>4 DEF KeptStep, HandlerStep, LegalJobs, LegalLate
<1> QED
  BY <1>2, <1>3, <1>4, <1>6, <1>7, <1>1 DEF HiresHold

\* Accepted returns reach the ledger: what is announced is entered.
LEMMA HandlerKeepsAccepted ==
  ASSUME Serialized, Inv, AcceptedReach, KeepsGrowing,
         NEW t \in Tasks, KeptStep(t), UNCHANGED files
  PROVE  AcceptedReach'
<1> SUFFICES ASSUME Undisturbed', NEW h \in accepted'
             PROVE  Announced(h)' \/ Entered(PaymentOf[h])'
  BY DEF AcceptedReach
<1> DEFINE p == PaymentOf[h]
<1>1. h \in Hires /\ ledger' = ledger
  BY DEF KeptStep, HandlerStep, HistoryGrows, files
<1>2. Undisturbed
  BY DEF Undisturbed, KeptStep, HandlerStep
<1>3. Entered(p) => Entered(p)'
  <2>1. CASE Done(ledger[p])
    BY <1>1, <2>1 DEF Entered
  <2>2. ASSUME NEW u \in Tasks, ledgerWrite[u] # NoWrite, Done(ledgerWrite[u][p])
        PROVE  Entered(p)'
    <3>1. ledgerWrite' = ledgerWrite
      BY <2>2 DEF KeptStep, HandlerStep, LegalStage, NoStage, StageLedger, StageHire,
         StageVault, Free, writes
    <3> QED
      BY <2>2, <3>1 DEF Entered
  <2> QED
    BY <2>1, <2>2 DEF Entered
<1>4. h \in accepted => Announced(h) \/ Entered(p)
  BY <1>2 DEF AcceptedReach
<1> QED
  BY <1>1, <1>3, <1>4 DEF KeptStep, AnnouncedMoves

LEMMA SaveKeepsHeld ==
  ASSUME Inv, FreshWrite, CallsHold, HiresHold, AcceptedReach, KeepsGrowing,
         NEW t \in Tasks, SaveLedger(t) \/ SaveHires(t) \/ SaveVault(t)
  PROVE  CallsHold' /\ HiresHold' /\ AcceptedReach'
<1> USE NoWriteAssumption
<1>1. /\ hireWrite \in [Tasks -> HireFiles \union {NoWrite}]
      /\ ledgerWrite \in [Tasks -> LedgerFiles \union {NoWrite}]
      /\ vaultWrite \in [Tasks -> VaultFiles \union {NoWrite}]
      /\ \A h \in Hires : PaymentOf[h] \in Payments
  BY ConstantsAssumption DEF Inv, TypeOK, FilesType
<1>2. UNCHANGED <<submit, late, accepted, faults, crashes>>
  BY DEF SaveLedger, SaveHires, SaveVault, jobs
<1>3. \A p \in Payments : Kept(p) => Kept(p)'
  BY DEF KeepsGrowing, Grows, Kept
<1>4. CallsHold'
  <2> SUFFICES ASSUME NEW a \in Hires PROVE CallHolds(a)'
    BY DEF CallsHold
  <2>1. a \in Tasks /\ CallHolds(a) /\ submit'[a] = submit[a]
    BY <1>2, TasksAreDistinct DEF CallsHold
  <2>2. vaultWrite'[a] = vaultWrite[a] \/ vault' = vaultWrite[a]
    BY <1>1, <2>1 DEF SaveLedger, SaveHires, SaveVault
  <2>3. ledgerWrite'[a] = ledgerWrite[a] \/ ledger' = ledgerWrite[a]
    BY <1>1, <2>1 DEF SaveLedger, SaveHires, SaveVault
  <2> QED
    BY <1>1, <2>1, <2>2, <2>3, OtherCallHolds
<1>5. HiresHold'
  <2>1. \A h \in Hires : hires'[h].status # "absent" => Kept(PaymentOf[h])'
    BY <1>1, <1>3 DEF HiresHold, SaveLedger, SaveHires, SaveVault
  <2>2. \A u \in Tasks : hireWrite'[u] # NoWrite =>
           \A h \in Hires : hireWrite'[u][h].status # "absent" => Kept(PaymentOf[h])'
    BY <1>1, <1>3 DEF HiresHold, SaveLedger, SaveHires, SaveVault
  <2>3. \A l \in Lates : late[l].pc = "update" => Kept(PaymentOf[late[l].hire])'
    <3> SUFFICES ASSUME NEW l \in Lates, late[l].pc = "update"
                 PROVE  Kept(PaymentOf[late[l].hire])'
      BY <1>2
    <3>1. late[l].hire \in Hires /\ late'[l].hire = late[l].hire
      BY <1>2, LateFacts
    <3>2. PICK h \in Hires : h = late[l].hire
      BY <3>1
    <3>3. Kept(PaymentOf[h])'
      BY <1>1, <1>3, <3>2 DEF HiresHold
    <3> QED
      BY <3>1, <3>2, <3>3
  <2> QED
    BY <1>2, <2>1, <2>2, <2>3 DEF HiresHold
<1>6. AcceptedReach'
  <2> SUFFICES ASSUME Undisturbed', NEW h \in accepted'
               PROVE  Announced(h)' \/ Entered(PaymentOf[h])'
    BY DEF AcceptedReach
  <2> DEFINE p == PaymentOf[h]
  <2>1. h \in Hires
    BY <1>2 DEF Inv, TypeOK
  <2>2. Announced(h) \/ Entered(p)
    BY <1>2 DEF AcceptedReach, Undisturbed
  <2>3. Announced(h) => Announced(h)'
    BY <1>2 DEF Announced
  <2>4. Entered(p) => Entered(p)'
    <3>1. CASE SaveLedger(t)
      BY <1>1, <2>1, <3>1 DEF SaveLedger, Entered, FreshWrite, Grows
    <3>2. CASE SaveHires(t) \/ SaveVault(t)
      BY <3>2 DEF SaveHires, SaveVault, Entered
    <3> QED
      BY <3>1, <3>2
  <2> QED
    BY <2>2, <2>3, <2>4
<1> QED
  BY <1>4, <1>5, <1>6

\* A call that is cut off holds nothing any more.
LEMMA EndedCallHolds ==
  ASSUME NEW a, submit'[a].pc \in {"idle", "end"}
  PROVE  CallHolds(a)'
BY DEF CallHolds, Stored, Recorded

LEMMA FailureKeepsHeld ==
  ASSUME Inv, CallsHold, HiresHold, KeepsGrowing,
         Crash \/ \E t \in Tasks : SaveFails(t)
  PROVE  CallsHold' /\ HiresHold' /\ AcceptedReach'
<1>1. UNCHANGED files /\ \E ts : DropWrites(ts)
  BY DEF Crash, SaveFails
<1>2. submit \in [Hires -> SubmitJobs] /\ late \in [Lates -> LateJobs]
  BY DEF Inv, TypeOK, JobsType
<1>3. \A p \in Payments : Kept(p) => Kept(p)'
  BY DEF KeepsGrowing, Grows, Kept
<1>4. \A h \in Hires : PaymentOf[h] \in Payments
  BY ConstantsAssumption
<1>5. CallsHold'
  <2> SUFFICES ASSUME NEW a \in Hires PROVE CallHolds(a)'
    BY DEF CallsHold
  <2>1. CallHolds(a) /\ PaymentOf[a] \in Payments /\ a \in Tasks
    BY <1>4, TasksAreDistinct DEF CallsHold
  <2>2. CASE submit'[a].pc \in {"idle", "end"}
    BY <2>2, EndedCallHolds
  <2>3. CASE submit'[a].pc \notin {"idle", "end"}
    <3>1. submit[a] \in SubmitJobs /\ Over(submit[a]).pc = "end"
      BY <1>2 DEF Over, SubmitJobs
    <3>2. ~Crash
      BY <2>3, <3>1 DEF Crash
    <3>3. PICK t \in Tasks : SaveFails(t)
      BY <3>2
    <3>4. t # a
      BY <1>2, <2>3, <3>1, <3>3 DEF SaveFails
    <3>5. /\ submit'[a] = submit[a]
          /\ vaultWrite'[a] = vaultWrite[a] /\ ledgerWrite'[a] = ledgerWrite[a]
      BY <1>2, <2>1, <3>3, <3>4 DEF SaveFails, DropWrites
    <3> QED
      BY <2>1, <3>5, OtherCallHolds
  <2> QED
    BY <2>2, <2>3
<1>6. HiresHold'
  <2>1. \A h \in Hires : hires'[h].status # "absent" => Kept(PaymentOf[h])'
    BY <1>1, <1>3, <1>4 DEF HiresHold, files
  <2>2. \A u \in Tasks : hireWrite'[u] # NoWrite =>
           \A h \in Hires : hireWrite'[u][h].status # "absent" => Kept(PaymentOf[h])'
    BY <1>1, <1>3, <1>4 DEF HiresHold, DropWrites
  <2>3. ASSUME NEW l \in Lates, late'[l].pc = "update"
        PROVE  Kept(PaymentOf[late[l].hire])'
    <3>1. late'[l] = late[l]
      <4>1. EndedLate.pc = "end"
        BY DEF EndedLate, IdleLate
      <4>2. CASE Crash
        BY <1>2, <2>3, <4>1, <4>2 DEF Crash
      <4>3. ASSUME NEW t \in Tasks, SaveFails(t) PROVE late'[l] = late[l]
        BY <1>2, <2>3, <4>1, <4>3 DEF SaveFails
      <4> QED
        BY <4>2, <4>3
    <3>2. PICK h \in Hires : h = late[l].hire
      BY <2>3, <3>1, LateFacts
    <3>3. Kept(PaymentOf[h])'
      BY <1>3, <1>4, <2>3, <3>1, <3>2 DEF HiresHold
    <3> QED
      BY <3>1, <3>2, <3>3
  <2> QED
    BY <2>1, <2>2, <2>3 DEF HiresHold
<1>7. ~Undisturbed'
  <2>1. faults \in Nat /\ crashes \in Nat
    BY ConstantsAssumption DEF Inv, TypeOK
  <2>2. faults' = faults + 1 \/ crashes' = crashes + 1
    BY DEF Crash, SaveFails
  <2> QED
    BY <2>1, <2>2 DEF Undisturbed
<1> QED
  BY <1>5, <1>6, <1>7 DEF AcceptedReach

LEMMA KeptIsKept ==
  ASSUME Serialized, Inv, KeptInv, [Next]_vars
  PROVE  KeptInv'
<1> USE DEF KeptInv
<1>1. CASE \E t \in Tasks : KeptStep(t)
  <2>1. PICK t \in Tasks : KeptStep(t)
    BY <1>1
  <2>2. FreshWrite' /\ FreshVault' /\ KeepsGrowing /\ UNCHANGED files
    BY <2>1, HandlerKeepsGrowing DEF KeptStep
  <2> QED
    BY <2>1, <2>2, HandlerKeepsCalls, HandlerKeepsHires, HandlerKeepsAccepted
<1>2. CASE \E t \in Tasks : SaveLedger(t) \/ SaveHires(t) \/ SaveVault(t)
  BY <1>2, SaveKeepsGrowing, SaveKeepsHeld
<1>3. CASE Crash \/ \E t \in Tasks : SaveFails(t)
  <2>1. UNCHANGED <<files, charged, clock>> /\ \E ts : DropWrites(ts)
    BY <1>3 DEF Crash, SaveFails
  <2> QED
    BY <1>3, <2>1, DropKeepsGrowing, FailureKeepsHeld
<1>4. CASE /\ UNCHANGED <<files, writes, jobs, charged, accepted, faults, crashes>>
           /\ lapsed \subseteq lapsed'
  BY <1>4 DEF files, writes, jobs, FreshWrite, FreshVault, CallsHold, CallHolds, HiresHold, Kept,
     Usable, AcceptedReach, Undisturbed, Announced, Entered
<1> QED
  BY <1>1, <1>2, <1>3, <1>4, KeptSteps

\* Once the handlers are through, the entry of an accepted return says so.
LEMMA AcceptedIsInLedger ==
  ASSUME KeptInv, AllQuiet, Undisturbed, NEW h \in accepted, h \in Hires
  PROVE  Done(ledger[PaymentOf[h]])
BY DEF KeptInv, AcceptedReach, Announced, Entered, AllQuiet, Quiet

LEMMA SpecKeepsKept ==
  ASSUME Serialized
  PROVE  Spec => [](Inv /\ KeptInv)
<1>1. Init => KeptInv
  <2> SUFFICES ASSUME Init PROVE KeptInv
    OBVIOUS
  <2>1. FreshWrite /\ FreshVault
    BY DEF Init, FreshWrite, FreshVault
  <2>2. CallsHold /\ HiresHold
    BY DEF Init, CallsHold, CallHolds, Stored, Recorded, HiresHold, AbsentHire, IdleLate
  <2>3. AcceptedReach
    BY DEF Init, AcceptedReach
  <2> QED
    BY <2>1, <2>2, <2>3 DEF KeptInv
<1>2. Inv /\ KeptInv /\ [Next]_vars => KeptInv'
  BY KeptIsKept
<1> QED
  BY <1>1, <1>2, SpecKeepsInv, PTL DEF Spec

\* Nothing leaves a submitted hire without the signed payload it can be settled with
\* before that payload has been charged or its stay in the vault is over.
THEOREM PayloadsAreKept ==
  ASSUME Serialized
  PROVE  Spec => []PayloadKeptForItsStay
<1>1. KeptInv => PayloadKeptForItsStay
  BY DEF KeptInv, HiresHold, Kept, Usable, PayloadKeptForItsStay
<1> QED
  BY <1>1, SpecKeepsKept, PTL

\* Once the handlers are through, a delivery that is on record is in the ledger.
THEOREM DeliveriesReachLedger ==
  ASSUME Serialized
  PROVE  Spec => []DeliveryReachesLedger
<1>1. Inv /\ KeptInv => DeliveryReachesLedger
  BY AcceptedIsInLedger DEF Inv, Provenance, FilesBacked, HireBacked, Delivered, Undisturbed,
     DeliveryReachesLedger
<1> QED
  BY <1>1, SpecKeepsKept, PTL

-----------------------------------------------------------------------------
(* An entry only names hires that have a record; a record stays once it is *)
(* in the file; and whatever is settled has an entry that names a hire.    *)

HasFile(h) == hires[h].status # "absent"
Named(p)   == ledger[p].hire # NoHire

FreshHires ==
    \A t \in Tasks : hireWrite[t] # NoWrite =>
       /\ \A u \in Tasks \ {t} : hireWrite[u] = NoWrite
       /\ \A h \in Hires : HasFile(h) => hireWrite[t][h].status # "absent"

\* An entry that names a hire names one that has a record.
NamesRecord(e) == \A h \in Hires : e.hire = h => HasFile(h)

EntriesNameRecords ==
    /\ \A p \in Payments : NamesRecord(ledger[p])
    /\ \A t \in Tasks : ledgerWrite[t] # NoWrite =>
          \A p \in Payments : NamesRecord(ledgerWrite[t][p])
    /\ \A l \in Lates : late[l].pc = "update" =>
          \A h \in Hires : late[l].hire = h => HasFile(h)

\* Where a call of the hire route has submitted its record, and where it has named it.
Submitted == {"forward", "commit", "update", "storeAgain", "launch"}
NamesIt(a) == submit[a].pc \in {"storeAgain", "launch"} \/ submit[a].resume # NoHire

CallNames(a) ==
    /\ submit[a].pc \in Submitted =>
          HasFile(a) \/ (hireWrite[a] # NoWrite /\ hireWrite[a][a].status # "absent")
    /\ NamesIt(a) =>
          \/ Named(PaymentOf[a])
          \/ ledgerWrite[a] # NoWrite /\ ledgerWrite[a][PaymentOf[a]].hire # NoHire
    /\ submit[a].pc = "idle" => submit[a].resume = NoHire

NamedInv ==
    /\ FreshHires
    /\ EntriesNameRecords
    /\ \A a \in Hires : CallNames(a)
    /\ \A t \in Settlers : Settling(t) => Named(settle[t].pay)
    /\ \A p \in charged : Named(p)

\* How a step of task t moves on what the invariant follows.
CallsName(t) ==
    /\ \A a \in Hires : a # t => submit'[a] = submit[a]
    /\ t \in Hires =>
          /\ Quiet(t) /\ submit'[t].pc # "idle"
          /\ submit'[t].pc \in Submitted =>
                submit[t].pc \in Submitted \/ StageHire(t, t, InitialRecord)
          /\ NamesIt(t)' =>
                \/ Named(PaymentOf[t])
                \/ \E e \in Entries : e.hire = t /\ StageLedger(t, PaymentOf[t], e)

SettlementsNamed ==
    /\ \A u \in Settlers : Settling(u)' => Named(settle'[u].pay)
    /\ \A p \in charged' : Named(p)

NamedStep(t) == HandlerStep(t) /\ CallsName(t) /\ SettlementsNamed

\* A call with nothing to save has what it holds in the files.
LEMMA QuietCallNames ==
  ASSUME NamedInv, NEW a \in Hires, Quiet(a)
  PROVE  /\ submit[a].pc \in Submitted => HasFile(a)
         /\ NamesIt(a) => Named(PaymentOf[a])
BY DEF NamedInv, CallNames, Quiet

LEMMA LaunchIsNamed ==
  ASSUME Inv, NamedInv, NEW p \in Payments, NEW h, NEW payload, Named(p),
         Launch(p, h, payload), charged' = charged
  PROVE  SettlementsNamed
<1>1. settle \in [Settlers -> SettleJobs]
  BY DEF Inv, TypeOK, JobsType
<1>2. \A u \in Settlers : settle'[u] = settle[u] \/ settle'[u].pay = p
  BY <1>1 DEF Launch
<1> QED
  BY <1>2 DEF SettlementsNamed, NamedInv, Settling

LEMMA CallStepNames ==
  ASSUME Inv, KeptInv, NamedInv, NEW a \in Hires, CallStep(a)
  PROVE  CallsName(a) /\ SettlementsNamed
<1> DEFINE p == PaymentOf[a]
<1>1. submit \in [Hires -> SubmitJobs] /\ submit[a] \in SubmitJobs
      /\ p \in Payments
  BY HireRouteFacts DEF Inv, TypeOK, JobsType
<1>2. Quiet(a)
  BY DEF CallStep, VerifyOk, VerifyFails, SubmitRejected, HireStep, Annotate, RecordExpired,
         Authorize, StorePayload, Resume, Submit, Commit, Update, StoreAgain,
         LaunchFinalizer, Forward, At
<1>3. /\ submit[a].pc \in Submitted => HasFile(a)
      /\ NamesIt(a) => Named(p)
  BY <1>2, QuietCallNames
<1>4. charged' = charged
  BY DEF CallStep, VerifyOk, VerifyFails, SubmitRejected, HireStep, Annotate, RecordExpired,
         Authorize, StorePayload, Resume, Submit, Commit, Update, StoreAgain,
         LaunchFinalizer, Forward, HireFrame
<1>5. settle' = settle => SettlementsNamed
  BY <1>4 DEF SettlementsNamed, NamedInv, Settling
<1>6. ASSUME NEW pc, Goto(a, pc)
      PROVE  /\ submit'[a].pc = pc
             /\ \A b \in Hires : b # a => submit'[b] = submit[b]
             /\ submit'[a].resume \in {submit[a].resume, NoHire}
  BY <1>1, <1>6 DEF Goto, Over, SubmitJobs
<1> USE DEF CallsName, NamesIt, Submitted, At
<1>7. CASE VerifyOk(a) \/ VerifyFails(a) \/ SubmitRejected(a)
  <2>1. PICK pc \in {"authorize", "annotate", "recordExpired", "end"} : Goto(a, pc)
    BY <1>7 DEF VerifyOk, VerifyFails, SubmitRejected
  <2>2. settle' = settle
    BY <1>7 DEF VerifyOk, VerifyFails, SubmitRejected
  <2> QED
    BY <1>2, <1>3, <1>5, <1>6, <2>1, <2>2
<1>8. CASE Annotate(a) \/ RecordExpired(a)
  <2>1. Goto(a, "end") /\ settle' = settle
    BY <1>8 DEF Annotate, RecordExpired
  <2> QED
    BY <1>2, <1>3, <1>5, <1>6, <2>1
<1>9. CASE Authorize(a)
  <2> DEFINE e == RecordSettlement(ledger[p], "authorization_verified", {}, "none")
  <2>1. e.hire = ledger[p].hire
    <3>1. HistoryGrows
      BY <1>9, HireRouteFacts DEF Authorize, HireFrame, HistoryGrows
    <3>2. "none" \in ErrorClass
      BY DEF ErrorClass
    <3> QED
      BY <1>1, <3>1, <3>2, RecordedUnsettled
  <2>2. submit' = [submit EXCEPT ![a].pc = "store",
                                 ![a].resume = IF Done(e) /\ e.hashes = {}
                                               THEN e.hire ELSE NoHire]
    BY <1>9 DEF Authorize
  <2> HIDE DEF e
  <2>3. /\ submit'[a].pc = "store"
        /\ \A b \in Hires : b # a => submit'[b] = submit[b]
        /\ submit'[a].resume \in {e.hire, NoHire}
    BY <1>1, <2>2 DEF SubmitJobs
  <2>4. settle' = settle
    BY <1>9 DEF Authorize
  <2> QED
    BY <1>2, <1>5, <2>1, <2>3, <2>4 DEF Named
<1>10. CASE StorePayload(a)
  <2>1. \E pc \in {"resume", "submit"} : Goto(a, pc)
    BY <1>10 DEF StorePayload
  <2>2. settle' = settle
    BY <1>10 DEF StorePayload
  <2> QED
    BY <1>2, <1>3, <1>5, <1>6, <2>1, <2>2
<1>11. CASE Resume(a)
  <2>1. \E pc \in {"submit", "end"} : Goto(a, pc)
    BY <1>11 DEF Resume
  <2>2. Named(p)
    BY <1>3, <1>11, HireRouteFacts DEF Resume, SubmitBacked
  <2>3. SettlementsNamed
    BY <1>1, <1>4, <1>5, <1>11, <2>2, LaunchIsNamed DEF Resume
  <2> QED
    BY <1>2, <1>6, <2>1, <2>2, <2>3
<1>12. CASE Submit(a)
  <2>1. Goto(a, "forward") /\ settle' = settle /\ StageHire(a, a, InitialRecord)
    BY <1>12 DEF Submit
  <2> QED
    BY <1>2, <1>3, <1>5, <1>6, <2>1
<1>13. ASSUME NEW out \in Outcomes, Forward(a, out)
       PROVE  CallsName(a) /\ SettlementsNamed
  <2>1. /\ submit[a].pc \in Submitted
        /\ \A b \in Hires : b # a => submit'[b] = submit[b]
        /\ submit'[a].pc \in {"end", "update", "commit"}
        /\ submit'[a].resume \in {submit[a].resume, NoHire}
    BY <1>1, <1>13 DEF Forward, Over, SubmitJobs
  <2>2. settle' = settle
    BY <1>13 DEF Forward
  <2> QED
    BY <1>2, <1>3, <1>5, <2>1, <2>2
<1>14. CASE Commit(a)
  <2>1. Goto(a, "update") /\ settle' = settle /\ submit[a].pc = "commit"
    BY <1>14 DEF Commit
  <2> QED
    BY <1>2, <1>3, <1>5, <1>6, <2>1
<1>15. CASE Update(a)
  <2>1. PICK exec \in ExecutionStatus, ret \in ReturnStatus, class \in ErrorClass :
           WriteOutcome(a, a, exec, ret, class)
    BY <1>15 DEF Update, ExecutionStatus, ReturnStatus, ErrorClass
  <2>2. Exists(ledger[p])
    BY <1>2, <1>15 DEF Update, KeptInv, CallsHold, CallHolds, Recorded, Stored, Quiet
  <2>3. \E e \in Entries : e.hire = a /\ StageLedger(a, p, e)
    BY <2>1, <2>2, HireRouteFacts, UpdateExecutionResult DEF WriteOutcome
  <2>4. submit[a].pc = "update" /\ settle' = settle
    BY <1>15 DEF Update
  <2>5. \E pc \in {"end", "storeAgain"} : Goto(a, pc)
    BY <1>15 DEF Update
  <2> QED
    BY <1>2, <1>5, <1>6, <2>3, <2>4, <2>5
<1>16. CASE StoreAgain(a)
  <2>1. \E pc \in {"launch", "end"} : Goto(a, pc)
    BY <1>16 DEF StoreAgain
  <2>2. submit[a].pc = "storeAgain" /\ settle' = settle
    BY <1>16 DEF StoreAgain
  <2> QED
    BY <1>2, <1>3, <1>5, <1>6, <2>1, <2>2
<1>17. CASE LaunchFinalizer(a)
  <2>1. submit[a].pc = "launch" /\ Launch(p, a, TRUE) /\ Goto(a, "end")
    BY <1>17 DEF LaunchFinalizer
  <2>2. Named(p)
    BY <1>3, <2>1
  <2>3. SettlementsNamed
    BY <1>1, <1>4, <2>1, <2>2, LaunchIsNamed
  <2> QED
    BY <1>2, <1>6, <2>1, <2>2, <2>3
<1> QED
  BY <1>7, <1>8, <1>9, <1>10, <1>11, <1>12, <1>13, <1>14, <1>15, <1>16, <1>17
     DEF CallStep, HireStep

LEMMA LateStepNames ==
  ASSUME Inv, NamedInv, NEW l \in Lates,
         \/ LateStep(l)
         \/ \E h \in Hires, r \in LateReturns : LateRecord(l, h, r[1], r[2])
  PROVE  CallsName(l) /\ SettlementsNamed
<1>1. /\ submit' = submit /\ charged' = charged /\ l \notin Hires
      /\ l \in Tasks
  BY TasksAssumption, TasksAreDistinct
     DEF LateStep, LateUpdate, LateLookup, LateRecord, LateFrame
<1>2. settle' = settle => SettlementsNamed
  BY <1>1 DEF SettlementsNamed, NamedInv, Settling
<1>3. CASE LateLookup(l)
  <2> DEFINE h == late[l].hire
  <2>1. h \in Hires /\ PaymentOf[h] \in Payments
    BY <1>3, LateFacts, ConstantsAssumption DEF LateLookup
  <2>2. \/ ledger[PaymentOf[h]].hire = h /\ Launch(PaymentOf[h], h, FALSE)
        \/ settle' = settle
    BY <1>3 DEF LateLookup
  <2>3. SettlementsNamed
    BY <1>1, <1>2, <2>1, <2>2, LaunchIsNamed, NoHireAssumption DEF Named
  <2> QED
    BY <1>1, <2>3 DEF CallsName
<1>4. CASE ~LateLookup(l)
  <2>1. settle' = settle
    BY <1>4 DEF LateStep, LateUpdate, LateRecord
  <2> QED
    BY <1>1, <1>2, <2>1 DEF CallsName
<1> QED
  BY <1>3, <1>4

LEMMA SettleStepNames ==
  ASSUME Inv, NamedInv, NEW t \in Settlers,
         SettleStep(t) \/ (t \in Retries /\ \E p \in Payments : RetryStart(t, p))
  PROVE  CallsName(t) /\ SettlementsNamed
<1>1. /\ submit' = submit /\ t \notin Hires
      /\ settle \in [Settlers -> SettleJobs]
  BY TasksAssumption
     DEF SettleStep, MarkRunning, FindPayload, SettleThrows, RecordSettled, MarkPaid,
         ForgetPayload, RecordFailed, GiveUp, SettleEnds, Settles, RetryStart, SettleFrame,
         Settlers, Inv, TypeOK, JobsType
<1>2. \A u \in Settlers : u # t => settle'[u] = settle[u]
  BY <1>1
     DEF SettleStep, MarkRunning, FindPayload, SettleThrows, RecordSettled, MarkPaid,
         ForgetPayload, RecordFailed, GiveUp, SettleEnds, Settles, RetryStart, SettleGoto
<1>3. CASE SettleStep(t) /\ ~SettleEnds(t)
  <2>1. /\ settle[t].pc \notin {"idle", "done"}
        /\ charged' = charged \/ charged' = charged \union {settle[t].pay}
    BY <1>3
       DEF SettleStep, MarkRunning, FindPayload, SettleThrows, RecordSettled, MarkPaid,
           ForgetPayload, RecordFailed, GiveUp, Settles, SettleAt
  <2>2. settle'[t].pay = settle[t].pay
    <3>1. CASE \E pc : SettleGoto(t, pc)
      BY <1>1, <3>1 DEF SettleGoto, SettleJobs
    <3>2. CASE \E hashes \in SettleResults : Settles(t, hashes)
      BY <1>1, <3>2 DEF Settles, SettleJobs
    <3> QED
      BY <1>3, <3>1, <3>2
         DEF SettleStep, MarkRunning, FindPayload, SettleThrows, RecordSettled, MarkPaid,
             ForgetPayload, RecordFailed, GiveUp
  <2> QED
    BY <1>1, <1>2, <2>1, <2>2 DEF CallsName, SettlementsNamed, NamedInv, Settling
<1>4. CASE SettleEnds(t)
  <2>1. settle'[t].pc \in {"idle", "done"} /\ charged' = charged
    BY <1>1, <1>4 DEF SettleEnds, Ended, IdleSettle
  <2> QED
    BY <1>1, <1>2, <2>1 DEF CallsName, SettlementsNamed, NamedInv, Settling
<1>5. ASSUME NEW p \in Payments, RetryStart(t, p)
      PROVE  CallsName(t) /\ SettlementsNamed
  <2>1. settle'[t].pay = p /\ charged' = charged /\ Named(p)
    BY <1>1, <1>5 DEF RetryStart, SettleFrame, Named
  <2> QED
    BY <1>1, <1>2, <2>1 DEF CallsName, SettlementsNamed, NamedInv, Settling
<1> QED
  BY <1>3, <1>4, <1>5

LEMMA NamedSteps ==
  ASSUME Inv, KeptInv, NamedInv, [Next]_vars
  PROVE  \/ \E t \in Tasks : NamedStep(t)
         \/ \E t \in Tasks : SaveLedger(t) \/ SaveHires(t) \/ SaveVault(t)
         \/ Crash \/ \E t \in Tasks : SaveFails(t)
         \/ UNCHANGED <<files, writes, jobs, charged>>
<1> USE TasksAreDistinct DEF NamedStep
<1>1. CASE \E a \in Hires : CallStep(a)
  BY <1>1, HireStepIsHandlerStep, CallStepNames DEF CallStep
<1>2. CASE \E l \in Lates, h \in Hires, r \in LateReturns : LateRecord(l, h, r[1], r[2])
  BY <1>2, LateRecordStep, LateStepNames
<1>3. CASE \E l \in Lates : LateStep(l)
  BY <1>3, LateUpdateStep, LateLookupStep, LateStepNames DEF LateStep
<1>4. CASE \E t \in Retries, p \in Payments : RetryStart(t, p)
  BY <1>4, RetryStartStep, SettleStepNames DEF Settlers
<1>5. CASE \E t \in Settlers : SettleStep(t)
  BY <1>5, SettleStepIsHandlerStep, SettleStepNames
<1>6. CASE (\E p \in Expiring : Expire(p)) \/ \E p \in Lapsing : Lapse(p)
  BY <1>6 DEF Expire, Lapse
<1>7. CASE UNCHANGED vars
  BY <1>7 DEF vars
<1> QED
  BY <1>1, <1>2, <1>3, <1>4, <1>5, <1>6, <1>7 DEF Next, CallStep

\* Records and names stay.
RecordsStay == \A h \in Hires : HasFile(h) => HasFile(h)'
NamesStay   == \A p \in Payments : Named(p) => Named(p)'

LEMMA HandlerKeepsRecords ==
  ASSUME Serialized, Inv, FreshHires, NEW t \in Tasks, HandlerStep(t)
  PROVE  FreshHires' /\ UNCHANGED files
<1> USE NoWriteAssumption
<1>1. UNCHANGED files
  BY DEF HandlerStep, LegalStage, NoStage, StageLedger, StageHire, StageVault
<1>2. CASE UNCHANGED hireWrite
  BY <1>1, <1>2 DEF FreshHires, HasFile, files
<1>3. ASSUME NEW h \in Hires, NEW r \in HireRecords, HireIntroduced(t, h, r),
             StageHire(t, h, r)
      PROVE  FreshHires'
  <2> DEFINE f == [hires EXCEPT ![h] = r]
  <2>1. /\ hires \in [Hires -> HireRecords]
        /\ hireWrite \in [Tasks -> HireFiles \union {NoWrite}]
    BY DEF Inv, TypeOK, FilesType, HireFiles
  <2>2. /\ \A u \in Tasks : hireWrite[u] = NoWrite
        /\ hireWrite' = [hireWrite EXCEPT ![t] = f]
        /\ hires' = hires
    BY <1>3 DEF StageHire, Free, files
  <2>3. \A g \in Hires : HasFile(g) => f[g].status # "absent"
    BY <1>3, <2>1 DEF HireIntroduced, HasFile
  <2> HIDE DEF f
  <2> QED
    BY <2>1, <2>2, <2>3 DEF FreshHires, HasFile
<1> QED
  BY <1>1, <1>2, <1>3 DEF HandlerStep, LegalStage, NoStage, StageLedger, StageVault, writes

LEMMA HandlerKeepsEntriesNamed ==
  ASSUME Inv, NamedInv, NEW t \in Tasks, NamedStep(t), UNCHANGED files
  PROVE  EntriesNameRecords'
<1> USE NoWriteAssumption
<1>1. /\ ledger \in [Payments -> Entries]
      /\ ledgerWrite \in [Tasks -> LedgerFiles \union {NoWrite}]
      /\ late \in [Lates -> LateJobs]
  BY DEF Inv, TypeOK, FilesType, LedgerFiles, JobsType
<1>2. ledger' = ledger /\ hires' = hires
  BY DEF files
<1>3. EntriesNameRecords
  BY DEF NamedInv
<1>4. \A e : NamesRecord(e) <=> NamesRecord(e)'
  BY <1>2 DEF NamesRecord, HasFile
<1>5. \A p \in Payments : NamesRecord(ledger[p])'
  BY <1>2, <1>3 DEF EntriesNameRecords, NamesRecord, HasFile
<1>6. \A u \in Tasks : ledgerWrite'[u] # NoWrite =>
         \A p \in Payments : NamesRecord(ledgerWrite[u][p])'
  <2>1. CASE UNCHANGED ledgerWrite
    BY <1>2, <1>3, <2>1 DEF EntriesNameRecords, NamesRecord, HasFile
  <2>2. ASSUME NEW p \in Payments, NEW e \in Entries, StageLedger(t, p, e),
               HireNamed(t, ledger[p].hire, e.hire)
        PROVE  \A u \in Tasks : ledgerWrite'[u] # NoWrite =>
                  \A q \in Payments : NamesRecord(ledgerWrite[u][q])'
    <3> DEFINE f == [ledger EXCEPT ![p] = e]
    <3>1. NamesRecord(e)
      <4>1. CASE e.hire = ledger[p].hire
        BY <1>3, <4>1 DEF EntriesNameRecords, NamesRecord
      <4>2. CASE t \in Hires /\ e.hire = t /\ submit[t].pc = "update"
        <5>1. Quiet(t)
          BY <4>2 DEF NamedStep, CallsName
        <5> QED
          BY <4>2, <5>1, QuietCallNames DEF Submitted, NamesRecord
      <4>3. CASE t \in Lates /\ e.hire = late[t].hire /\ late[t].pc = "update"
        BY <1>3, <4>3 DEF EntriesNameRecords, NamesRecord
      <4> QED
        BY <2>2, <4>1, <4>2, <4>3 DEF HireNamed
    <3>2. \A q \in Payments : NamesRecord(f[q])
      BY <1>1, <1>3, <3>1 DEF EntriesNameRecords
    <3>3. ledgerWrite' = [ledgerWrite EXCEPT ![t] = f]
      BY <2>2 DEF StageLedger
    <3> HIDE DEF f
    <3>4. \A u \in Tasks : ledgerWrite'[u] # NoWrite =>
             \A q \in Payments : NamesRecord(ledgerWrite'[u][q])
      BY <1>1, <1>3, <3>2, <3>3 DEF EntriesNameRecords
    <3> QED
      BY <1>2, <3>4 DEF NamesRecord, HasFile
  <2> QED
    BY <2>1, <2>2 DEF NamedStep, HandlerStep, LegalStage, NoStage, StageHire, StageVault,
       writes
<1>7. \A l \in Lates : late'[l].pc = "update" =>
         \A h \in Hires : late'[l].hire = h => HasFile(h)'
  BY <1>1, <1>2, <1>3
     DEF EntriesNameRecords, HasFile, NamedStep, HandlerStep, LegalJobs, LegalLate
<1> QED
  BY <1>5, <1>6, <1>7 DEF EntriesNameRecords

\* What another task does leaves a call's record and name where they were.
LEMMA OtherCallNames ==
  ASSUME RecordsStay, NamesStay, NEW a \in Hires, CallNames(a), PaymentOf[a] \in Payments,
         submit'[a] = submit[a],
         \/ hireWrite'[a] = hireWrite[a]
         \/ hires' = hireWrite[a],
         \/ ledgerWrite'[a] = ledgerWrite[a]
         \/ ledger' = ledgerWrite[a]
  PROVE  CallNames(a)'
<1>1. HasFile(a) => HasFile(a)'
  BY DEF RecordsStay
<1>2. Named(PaymentOf[a]) => Named(PaymentOf[a])'
  BY DEF NamesStay, Named
<1>3. hireWrite[a] # NoWrite /\ hireWrite[a][a].status # "absent" =>
         HasFile(a)' \/ (hireWrite'[a] # NoWrite /\ hireWrite'[a][a].status # "absent")
  BY DEF HasFile
<1>4. ledgerWrite[a] # NoWrite /\ ledgerWrite[a][PaymentOf[a]].hire # NoHire =>
         \/ Named(PaymentOf[a])'
         \/ ledgerWrite'[a] # NoWrite /\ ledgerWrite'[a][PaymentOf[a]].hire # NoHire
  BY DEF Named
<1> QED
  BY <1>1, <1>2, <1>3, <1>4 DEF CallNames, NamesIt

LEMMA HandlerKeepsCallNames ==
  ASSUME Inv, NamedInv, RecordsStay, NamesStay, NEW t \in Tasks, NamedStep(t)
  PROVE  \A a \in Hires : CallNames(a)'
<1> USE NoWriteAssumption
<1> SUFFICES ASSUME NEW a \in Hires PROVE CallNames(a)'
  OBVIOUS
<1> DEFINE p == PaymentOf[a]
<1>1. CallNames(a) /\ p \in Payments /\ a \in Tasks
  BY ConstantsAssumption, TasksAreDistinct DEF NamedInv
<1>2. /\ ledgerWrite \in [Tasks -> LedgerFiles \union {NoWrite}]
      /\ hireWrite \in [Tasks -> HireFiles \union {NoWrite}]
      /\ ledger \in [Payments -> Entries] /\ hires \in [Hires -> HireRecords]
  BY DEF Inv, TypeOK, FilesType, LedgerFiles, HireFiles
<1>3. CASE a # t
  <2>1. hireWrite'[a] = hireWrite[a] /\ ledgerWrite'[a] = ledgerWrite[a]
    BY <1>1, <1>2, <1>3 DEF NamedStep, HandlerStep, LegalStage, NoStage, StageLedger,
       StageHire, StageVault, writes
  <2> QED
    BY <1>1, <1>3, <2>1, OtherCallNames DEF NamedStep, CallsName
<1>4. CASE a = t
  <2>1. Quiet(a)
    BY <1>4 DEF NamedStep, CallsName
  <2>2. /\ submit[a].pc \in Submitted => HasFile(a)
        /\ NamesIt(a) => Named(p)
    BY <2>1, QuietCallNames
  <2>3. submit'[a].pc \in Submitted =>
           HasFile(a)' \/ (hireWrite'[a] # NoWrite /\ hireWrite'[a][a].status # "absent")
    <3>1. CASE StageHire(a, a, InitialRecord)
      <4>1. hireWrite'[a] = [hires EXCEPT ![a] = InitialRecord]
        BY <1>1, <1>2, <3>1 DEF StageHire
      <4>2. InitialRecord \in HireRecords /\ InitialRecord.status # "absent"
        BY DEF InitialRecord, AbsentHire, HireRecords
      <4>3. [hires EXCEPT ![a] = InitialRecord] \in HireFiles
        BY <1>2, <4>2 DEF HireFiles
      <4> QED
        BY <1>2, <4>1, <4>2, <4>3
    <3>2. CASE submit[a].pc \in Submitted
      BY <2>2, <3>2 DEF RecordsStay
    <3> QED
      BY <1>4, <3>1, <3>2 DEF NamedStep, CallsName
  <2>4. NamesIt(a)' =>
           \/ Named(p)'
           \/ ledgerWrite'[a] # NoWrite /\ ledgerWrite'[a][p].hire # NoHire
    <3>1. ASSUME NEW e \in Entries, e.hire = a, StageLedger(a, p, e)
          PROVE  ledgerWrite'[a] # NoWrite /\ ledgerWrite'[a][p].hire # NoHire
      <4>1. ledgerWrite'[a] = [ledger EXCEPT ![p] = e]
        BY <1>1, <1>2, <3>1 DEF StageLedger
      <4>2. [ledger EXCEPT ![p] = e] \in LedgerFiles /\ [ledger EXCEPT ![p] = e][p] = e
        BY <1>1, <1>2 DEF LedgerFiles
      <4> QED
        BY <3>1, <4>1, <4>2, NoHireAssumption
    <3>2. Named(p) => Named(p)'
      BY <1>1 DEF NamesStay, Named
    <3> QED
      BY <1>4, <3>1, <3>2 DEF NamedStep, CallsName
  <2> QED
    BY <1>4, <2>3, <2>4 DEF CallNames, NamedStep, CallsName
<1> QED
  BY <1>3, <1>4

LEMMA SaveKeepsNamed ==
  ASSUME Inv, NamedInv, NamesStay, NEW t \in Tasks,
         SaveLedger(t) \/ SaveHires(t) \/ SaveVault(t)
  PROVE  NamedInv'
<1> USE NoWriteAssumption
<1>1. /\ hireWrite \in [Tasks -> HireFiles \union {NoWrite}]
      /\ ledgerWrite \in [Tasks -> LedgerFiles \union {NoWrite}]
      /\ \A h \in Hires : PaymentOf[h] \in Payments
      /\ \A u \in Settlers : settle[u].pay \in Payments
      /\ charged \in SUBSET Payments
  BY ConstantsAssumption, SettleFacts DEF Inv, TypeOK, FilesType
<1>2. UNCHANGED <<submit, late, settle, charged>>
  BY DEF SaveLedger, SaveHires, SaveVault, jobs
<1>3. FreshHires' /\ RecordsStay
  <2>1. CASE SaveHires(t)
    BY <1>1, <2>1 DEF SaveHires, NamedInv, FreshHires, RecordsStay, HasFile
  <2>2. CASE SaveLedger(t) \/ SaveVault(t)
    BY <2>2 DEF SaveLedger, SaveVault, NamedInv, FreshHires, RecordsStay, HasFile
  <2> QED
    BY <2>1, <2>2
<1>4. EntriesNameRecords'
  <2>1. \A e : NamesRecord(e) => \A h \in Hires : e.hire = h => HasFile(h)'
    BY <1>3 DEF NamesRecord, RecordsStay
  <2>2. \A p \in Payments, h \in Hires : ledger'[p].hire = h => HasFile(h)'
    BY <1>1, <2>1 DEF SaveLedger, SaveHires, SaveVault, NamedInv, EntriesNameRecords
  <2>3. \A u \in Tasks : ledgerWrite'[u] # NoWrite =>
           \A p \in Payments, h \in Hires : ledgerWrite'[u][p].hire = h => HasFile(h)'
    BY <1>1, <2>1 DEF SaveLedger, SaveHires, SaveVault, NamedInv, EntriesNameRecords
  <2>4. \A l \in Lates : late'[l].pc = "update" =>
           \A h \in Hires : late'[l].hire = h => HasFile(h)'
    BY <1>2, <1>3 DEF RecordsStay, NamedInv, EntriesNameRecords
  <2> QED
    BY <2>2, <2>3, <2>4 DEF EntriesNameRecords, NamesRecord
<1>5. \A a \in Hires : CallNames(a)'
  <2> SUFFICES ASSUME NEW a \in Hires PROVE CallNames(a)'
    OBVIOUS
  <2>1. a \in Tasks /\ CallNames(a) /\ submit'[a] = submit[a]
    BY <1>2, TasksAreDistinct DEF NamedInv
  <2>2. hireWrite'[a] = hireWrite[a] \/ hires' = hireWrite[a]
    BY <1>1, <2>1 DEF SaveLedger, SaveHires, SaveVault
  <2>3. ledgerWrite'[a] = ledgerWrite[a] \/ ledger' = ledgerWrite[a]
    BY <1>1, <2>1 DEF SaveLedger, SaveHires, SaveVault
  <2> QED
    BY <1>1, <1>3, <2>1, <2>2, <2>3, OtherCallNames
<1>6. /\ \A u \in Settlers : Settling(u)' => Named(settle[u].pay)'
      /\ \A p \in charged' : Named(p)'
  BY <1>1, <1>2 DEF NamesStay, Named, NamedInv, Settling
<1> QED
  BY <1>3, <1>4, <1>5, <1>6 DEF NamedInv

LEMMA FailureKeepsNamed ==
  ASSUME Inv, NamedInv, Crash \/ \E t \in Tasks : SaveFails(t)
  PROVE  NamedInv'
<1>1. /\ UNCHANGED files /\ charged' = charged
      /\ \E ts : DropWrites(ts)
  BY DEF Crash, SaveFails
<1>2. /\ submit \in [Hires -> SubmitJobs] /\ late \in [Lates -> LateJobs]
      /\ settle \in [Settlers -> SettleJobs]
  BY DEF Inv, TypeOK, JobsType
<1>3. FreshHires'
  BY <1>1 DEF NamedInv, FreshHires, DropWrites, HasFile, files
<1>4. \A l \in Lates : late'[l] = late[l] \/ late'[l].pc = "end"
  <2>1. EndedLate.pc = "end"
    BY DEF EndedLate, IdleLate
  <2> QED
    BY <1>2, <2>1 DEF Crash, SaveFails
<1>5. EntriesNameRecords'
  BY <1>1, <1>4 DEF NamedInv, EntriesNameRecords, NamesRecord, DropWrites, HasFile, files
<1>6. \A a \in Hires : CallNames(a)'
  <2> SUFFICES ASSUME NEW a \in Hires PROVE CallNames(a)'
    OBVIOUS
  <2>1. Over(submit[a]).pc = "end" /\ Over(submit[a]).resume = NoHire
    BY <1>2 DEF Over, SubmitJobs
  <2>2. CASE submit'[a] = Over(submit[a])
    BY <2>1, <2>2 DEF CallNames, NamesIt, Submitted
  <2>3. CASE submit'[a] # Over(submit[a])
    <3>1. CASE Crash
      <4>1. submit'[a] = submit[a] /\ submit[a].pc = "idle"
        BY <2>3, <3>1 DEF Crash
      <4>2. submit[a].resume = NoHire
        BY <4>1 DEF NamedInv, CallNames
      <4> QED
        BY <4>1, <4>2 DEF CallNames, NamesIt, Submitted
    <3>2. ASSUME NEW t \in Tasks, SaveFails(t) PROVE CallNames(a)'
      <4>1. t # a
        BY <1>2, <2>3, <3>2 DEF SaveFails
      <4>2. /\ submit'[a] = submit[a] /\ a \in Tasks
            /\ hireWrite'[a] = hireWrite[a] /\ ledgerWrite'[a] = ledgerWrite[a]
        BY <1>2, <3>2, <4>1, TasksAreDistinct DEF SaveFails, DropWrites
      <4> QED
        BY <1>1, <4>2 DEF NamedInv, CallNames, NamesIt, HasFile, Named, files
    <3> QED
      BY <3>1, <3>2
  <2> QED
    BY <2>2, <2>3
<1>7. \A u \in Settlers : Settling(u)' => Settling(u) /\ settle'[u].pay = settle[u].pay
  <2> SUFFICES ASSUME NEW u \in Settlers, Settling(u)'
               PROVE  Settling(u) /\ settle'[u].pay = settle[u].pay
    OBVIOUS
  <2>1. CASE Crash
    <3>1. Ended(u).pc \in {"idle", "done"}
      BY DEF Ended, IdleSettle
    <3> QED
      BY <2>1, <3>1 DEF Crash, Settling
  <2>2. ASSUME NEW t \in Tasks, SaveFails(t)
        PROVE  Settling(u) /\ settle'[u].pay = settle[u].pay
    BY <1>2, <2>2 DEF SaveFails, Settling, SettleJobs
  <2> QED
    BY <2>1, <2>2
<1>8. /\ \A u \in Settlers : Settling(u)' => Named(settle[u].pay)'
      /\ \A p \in charged' : Named(p)'
  BY <1>1, <1>7 DEF NamedInv, Named, files
<1> QED
  BY <1>3, <1>5, <1>6, <1>8 DEF NamedInv

LEMMA NamedIsKept ==
  ASSUME Serialized, Inv, KeptInv, NamedInv, [Next]_vars
  PROVE  NamedInv'
<1>1. NamesStay
  <2>1. \A p \in Payments : Grows(ledger[p], ledger'[p])
    BY SerialStep DEF KeptInv
  <2> QED
    BY <2>1 DEF NamesStay, Named, Grows
<1>2. CASE \E t \in Tasks : NamedStep(t)
  <2>1. PICK t \in Tasks : NamedStep(t)
    BY <1>2
  <2>2. FreshHires' /\ UNCHANGED files
    BY <2>1, HandlerKeepsRecords DEF NamedStep, NamedInv
  <2>3. RecordsStay
    BY <2>2 DEF RecordsStay, HasFile, files
  <2>4. EntriesNameRecords'
    BY <2>1, <2>2, HandlerKeepsEntriesNamed
  <2>5. \A a \in Hires : CallNames(a)'
    BY <1>1, <2>1, <2>3, HandlerKeepsCallNames
  <2>6. /\ \A u \in Settlers : Settling(u)' => Named(settle[u].pay)'
        /\ \A p \in charged' : Named(p)'
    BY <2>1, <2>2 DEF NamedStep, SettlementsNamed, Named, files
  <2> QED
    BY <2>2, <2>4, <2>5, <2>6 DEF NamedInv
<1>3. CASE \E t \in Tasks : SaveLedger(t) \/ SaveHires(t) \/ SaveVault(t)
  BY <1>1, <1>3, SaveKeepsNamed
<1>4. CASE Crash \/ \E t \in Tasks : SaveFails(t)
  BY <1>4, FailureKeepsNamed
<1>5. CASE UNCHANGED <<files, writes, jobs, charged>>
  BY <1>5 DEF files, writes, jobs, NamedInv, FreshHires, HasFile, EntriesNameRecords,
     NamesRecord, CallNames, NamesIt, Named, Settling
<1> QED
  BY <1>2, <1>3, <1>4, <1>5, NamedSteps

LEMMA SpecKeepsNamed ==
  ASSUME Serialized
  PROVE  Spec => [](Inv /\ KeptInv /\ NamedInv)
<1>1. Init => NamedInv
  <2> SUFFICES ASSUME Init PROVE NamedInv
    OBVIOUS
  <2>1. FreshHires
    BY DEF Init, FreshHires
  <2>2. EntriesNameRecords
    BY NoHireAssumption
       DEF Init, EntriesNameRecords, NamesRecord, AbsentEntry, IdleLate
  <2>3. \A a \in Hires : CallNames(a)
    BY DEF Init, CallNames, NamesIt, Submitted
  <2>4. \A t \in Settlers : ~Settling(t)
    BY DEF Init, Settling, IdleSettle
  <2> QED
    BY <2>1, <2>2, <2>3, <2>4 DEF NamedInv, Init
<1>2. Inv /\ KeptInv /\ NamedInv /\ [Next]_vars => NamedInv'
  BY NamedIsKept
<1> QED
  BY <1>1, <1>2, SpecKeepsKept, PTL DEF Spec
=============================================================================
