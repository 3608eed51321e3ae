----------------------------- MODULE AnchorQueue -----------------------------
(***************************************************************************)
(* The social anchor queue (apps/indexer/src/control-plane.ts): candidates *)
(* are queued, put in batches whose root is anchored by a contract on      *)
(* Zeko, and followed until the root is observed or the batch is given up. *)
(*                                                                         *)
(* The shared cycle, the priority cycle of a session, the operator's       *)
(* routes and every call that queues a candidate load the file and save a  *)
(* changed copy of it later.  A save takes a lock and merges the copy with *)
(* the file of that moment; what the copy has wins.  The chain is the      *)
(* environment.                                                            *)
(***************************************************************************)
EXTENDS Naturals, FiniteSets

CONSTANTS
    Items,          \* candidates, and the calls that queue them
    Sessions,
    Owner,          \* the session of each candidate
    Priority,       \* sessions in mode priority-self-funded, and their cycles
    Shared,         \* the shared cycle
    Operators,      \* calls of the operator's routes
    MaxTries,       \* maxAttempts
    MaxCrashes      \* restarts of the process

Cycles == {Shared} \union Priority
Procs  == Items \union Cycles \union Operators

ASSUME ConstantsAssumption ==
    /\ IsFiniteSet(Items)
    /\ Owner \in [Items -> Sessions]
    /\ Priority \subseteq Sessions
    /\ MaxTries \in Nat \ {0}
    /\ MaxCrashes \in Nat

ASSUME ProcsAssumption ==
    /\ Shared \notin Items \union Priority \union Operators
    /\ Items \intersect (Priority \union Operators) = {}
    /\ Operators \intersect Priority = {}

\* A batch's id is the digest of its candidates: a batch is the set of them.
Batches == {B \in SUBSET Items : B # {} /\ \A x, y \in B : Owner[x] = Owner[y]}
NoBatch == {}

ItemStatuses  == {"absent", "pending", "submitted", "retrying", "confirmed", "expired"}
BatchStatuses == {"absent", "submitted", "retrying", "confirmed", "failed"}

ItemRecords  == [status : ItemStatuses, batch : Batches \union {NoBatch}]
BatchRecords == [status : BatchStatuses, tries : 0..MaxTries]
Files        == [item : [Items -> ItemRecords], batch : [Batches -> BatchRecords]]

Blank == [item  |-> [x \in Items |-> [status |-> "absent", batch |-> NoBatch]],
          batch |-> [B \in Batches |-> [status |-> "absent", tries |-> 0]]]

VARIABLES
    file,           \* state/social-anchor-queue.json
    pc, copy, hand, \* of each process: its step, its copy of the file, its batch
    sent,           \* external: roots the network has accepted
    anchored,       \* external: roots in the contract's state or event log
    vouched,        \* history: batches an operator confirmed without a transaction
    overlapped,     \* history: a copy was made while another one was in use
    crashes

vars == <<file, pc, copy, hand, sent, anchored, vouched, overlapped, crashes>>
chain == <<sent, anchored>>

Steps == {"idle", "start", "observe", "resend", "resent", "resave", "next",
          "send", "sent", "save", "error", "exported", "committing", "done"}
Holding == {"observe", "resend", "resent", "resave", "send", "sent", "save"}

ActiveStatus(s) == s \in {"pending", "submitted", "retrying"}
ActiveBatches(q) == {B \in Batches : q.batch[B].status \in {"submitted", "retrying"}}
Pending(q, s) == {x \in Items : Owner[x] = s /\ q.item[x].status = "pending"}

-----------------------------------------------------------------------------
(* The file.                                                              *)

\* Mutant: a save replaces the file.
MergeOverwrites(mine, current) == mine

\* What a save writes: of the file of the moment, candidates still active and
\* batches that the copy does not have.
Merge(mine, current) ==
    [item  |-> [x \in Items |->
                  IF mine.item[x].status # "absent" THEN mine.item[x]
                  ELSE IF ActiveStatus(current.item[x].status) THEN current.item[x]
                  ELSE Blank.item[x]],
     batch |-> [B \in Batches |->
                  IF mine.batch[B].status # "absent" THEN mine.batch[B]
                  ELSE current.batch[B]]]

Capped(n) == IF n < MaxTries THEN n ELSE MaxTries

\* Batches F and the candidates that name them as theirs.
Mark(q, F, itemStatus, record) ==
    [item  |-> [x \in Items |->
                  IF q.item[x].batch \in F THEN [q.item[x] EXCEPT !.status = itemStatus]
                  ELSE q.item[x]],
     batch |-> [B \in Batches |-> IF B \in F THEN record ELSE q.batch[B]]]

\* How often a batch was tried matters only while it is active.
Confirm(q, F) == Mark(q, F, "confirmed", [status |-> "confirmed", tries |-> 0])

Expire(q, B) == Mark(q, {B}, "expired", [status |-> "failed", tries |-> 0])

Retry(q, B, status) ==
    Mark(q, {B}, status, [status |-> status, tries |-> Capped(q.batch[B].tries + 1)])

\* A batch the copy already had is listed after the new one and wins.
NewBatch(q, B, status, tries) ==
    [item  |-> [x \in Items |->
                  IF x \in B THEN [status |-> status, batch |-> B] ELSE q.item[x]],
     batch |-> IF q.batch[B].status = "absent"
               THEN [q.batch EXCEPT ![B] = [status |-> status, tries |-> tries]]
               ELSE q.batch]

-----------------------------------------------------------------------------
(* Processes.                                                             *)

At(p, step) == pc[p] = step
Goto(p, step) == pc' = [pc EXCEPT ![p] = step]

Rest(p) == IF p \in Cycles THEN "idle" ELSE "done"
End(p) ==
    /\ Goto(p, Rest(p))
    /\ copy' = [copy EXCEPT ![p] = Blank]
    /\ hand' = [hand EXCEPT ![p] = NoBatch]

\* The process goes on with copy q of the file it has just loaded.
Take(p, q, step) ==
    /\ Goto(p, step)
    /\ copy' = [copy EXCEPT ![p] = q]
    /\ overlapped' = (overlapped \/ \E r \in Procs \ {p} : pc[r] \in Holding)

\* The process changes its copy and is about to save it.
Stage(p, q, step) ==
    /\ Goto(p, step)
    /\ copy' = [copy EXCEPT ![p] = q]
    /\ UNCHANGED overlapped

\* A fact that has not been queued; a repeated one is found in the file and dropped.
Enqueue(x) ==
    /\ At(x, "idle")
    /\ Take(x, [file EXCEPT !.item[x].status = "pending"], "save")
    /\ UNCHANGED <<file, hand, chain, vouched, crashes>>

\* A candidate of a priority session starts that session's cycle, unless it runs.
Wakes(p) == IF p \in Items /\ Owner[p] \in Priority /\ pc[Owner[p]] = "idle"
            THEN {Owner[p]} ELSE {}

Save(p) ==
    /\ file' = Merge(copy[p], file)
    /\ \/ At(p, "resave") /\ Goto(p, "next") /\ UNCHANGED <<copy, hand>>
       \/ /\ At(p, "save")
          /\ pc' = [r \in Procs |-> IF r = p THEN Rest(p)
                                    ELSE IF r \in Wakes(p) THEN "start" ELSE pc[r]]
          /\ copy' = [copy EXCEPT ![p] = Blank]
          /\ hand' = [hand EXCEPT ![p] = NoBatch]
    /\ UNCHANGED <<chain, vouched, overlapped, crashes>>

-----------------------------------------------------------------------------
(* A cycle first looks after the batches it finds.                        *)

\* The timer finds the shared cycle idle, or a candidate started this one.
Begin(r) ==
    /\ At(r, IF r = Shared THEN "idle" ELSE "start")
    /\ Take(r, file, "observe")
    /\ UNCHANGED <<file, hand, chain, vouched, crashes>>

ReadFails(r) ==
    /\ At(r, "observe")
    /\ \/ /\ ActiveBatches(copy[r]) = {}
          /\ Goto(r, "next") /\ UNCHANGED <<copy, overlapped>>
       \/ \E B \in ActiveBatches(copy[r]) : Stage(r, Retry(copy[r], B, "retrying"), "resave")
    /\ UNCHANGED <<file, hand, chain, vouched, crashes>>

\* An active batch whose root is not seen, and not yet due for another try.
NotDue(r) ==
    /\ At(r, "observe")
    /\ ActiveBatches(copy[r]) # {}
    /\ Goto(r, "next")
    /\ UNCHANGED <<file, copy, hand, chain, vouched, overlapped, crashes>>

\* Mutant: the number of tries is not compared with the maximum.
ObserveForever(r) ==
    /\ At(r, "observe")
    /\ \E seen \in SUBSET anchored :
          LET failed == {B \in seen : copy[r].batch[B].status = "failed"} IN
          \/ /\ failed # {}
             /\ Stage(r, Confirm(copy[r], failed), "resave") /\ UNCHANGED hand
          \/ /\ failed = {} /\ ActiveBatches(copy[r]) = {}
             /\ Goto(r, "next") /\ UNCHANGED <<copy, hand, overlapped>>
          \/ /\ failed = {}
             /\ \E B \in ActiveBatches(copy[r]) :
                   \/ /\ B \in seen
                      /\ Stage(r, Confirm(copy[r], {B}), "resave") /\ UNCHANGED hand
                   \/ /\ B \notin seen
                      /\ Goto(r, "resend") /\ hand' = [hand EXCEPT ![r] = B]
                      /\ UNCHANGED <<copy, overlapped>>
    /\ UNCHANGED <<file, chain, vouched, crashes>>

\* The contract keeps one root and the log may be cut short: only some of the
\* anchored roots are seen.  Which of two active batches is older is left open.
Observe(r) ==
    /\ At(r, "observe")
    /\ \E seen \in SUBSET anchored :
          LET failed == {B \in seen : copy[r].batch[B].status = "failed"} IN
          \/ /\ failed # {}
             /\ Stage(r, Confirm(copy[r], failed), "resave") /\ UNCHANGED hand
          \/ /\ failed = {} /\ ActiveBatches(copy[r]) = {}
             /\ Goto(r, "next") /\ UNCHANGED <<copy, hand, overlapped>>
          \/ /\ failed = {}
             /\ \E B \in ActiveBatches(copy[r]) :
                   \/ /\ B \in seen
                      /\ Stage(r, Confirm(copy[r], {B}), "resave") /\ UNCHANGED hand
                   \/ /\ B \notin seen /\ copy[r].batch[B].tries >= MaxTries
                      /\ Stage(r, Expire(copy[r], B), "resave") /\ UNCHANGED hand
                   \/ /\ B \notin seen /\ copy[r].batch[B].tries < MaxTries
                      /\ Goto(r, "resend") /\ hand' = [hand EXCEPT ![r] = B]
                      /\ UNCHANGED <<copy, overlapped>>
    /\ UNCHANGED <<file, chain, vouched, crashes>>

\* The submission: the network accepts the transaction or does not.
Send(p) ==
    /\ \/ At(p, "send") /\ Goto(p, "sent")
       \/ At(p, "resend") /\ Goto(p, "resent")
    /\ sent' \in {sent, sent \union {hand[p]}}
    /\ UNCHANGED <<file, copy, hand, anchored, vouched, overlapped, crashes>>

\* Mutant: a submission that returned is taken for a confirmed one.
ResentTrusted(r) ==
    LET B == hand[r] IN
    /\ At(r, "resent")
    /\ \/ Stage(r, Confirm(copy[r], {B}), "resave")
       \/ Stage(r, IF copy[r].batch[B].tries + 1 >= MaxTries THEN Expire(copy[r], B)
                   ELSE Retry(copy[r], B, "retrying"), "resave")
    /\ UNCHANGED <<file, hand, chain, vouched, crashes>>

\* The root is seen in time, or it is not, or the submission throws.
Resent(r) ==
    LET B == hand[r] IN
    /\ At(r, "resent")
    /\ \/ B \in anchored /\ Stage(r, Confirm(copy[r], {B}), "resave")
       \/ Stage(r, Retry(copy[r], B, "submitted"), "resave")
       \/ Stage(r, IF copy[r].batch[B].tries + 1 >= MaxTries THEN Expire(copy[r], B)
                   ELSE Retry(copy[r], B, "retrying"), "resave")
    /\ UNCHANGED <<file, hand, chain, vouched, crashes>>

-----------------------------------------------------------------------------
(* Then it makes a new batch, unless one is active.                       *)

Served(r) == IF r = Shared THEN {s \in Sessions \ Priority : Pending(copy[r], s) # {}}
             ELSE {r}

CycleEnds(r) ==
    /\ At(r, "next")
    /\ ActiveBatches(copy[r]) # {} \/ Served(r) = {}
    /\ End(r)
    /\ UNCHANGED <<file, chain, vouched, overlapped, crashes>>

\* The file is loaded again; without pending candidates the settlement throws.
Settle(r) ==
    /\ At(r, "next")
    /\ ActiveBatches(copy[r]) = {}
    /\ \E s \in Served(r) :
          LET B == Pending(file, s) IN
          \/ /\ B # {}
             /\ Take(r, file, "send")
             /\ hand' = [hand EXCEPT ![r] = B]
          \/ /\ B = {}
             /\ Goto(r, "error") /\ UNCHANGED <<copy, hand, overlapped>>
    /\ UNCHANGED <<file, chain, vouched, crashes>>

SettleConfirmed(p) ==
    /\ At(p, "sent")
    /\ hand[p] \in anchored
    /\ Stage(p, NewBatch(copy[p], hand[p], "confirmed", 0), "save")
    /\ UNCHANGED <<file, hand, chain, vouched, crashes>>

SettleSubmitted(p) ==
    /\ At(p, "sent")
    /\ Stage(p, NewBatch(copy[p], hand[p], "submitted", 1), "save")
    /\ UNCHANGED <<file, hand, chain, vouched, crashes>>

\* A cycle records the error; the operator is told of it.
SettleThrows(p) ==
    /\ At(p, "sent")
    /\ IF p \in Cycles THEN Goto(p, "error") /\ UNCHANGED <<copy, hand>> ELSE End(p)
    /\ UNCHANGED <<file, chain, vouched, overlapped, crashes>>

\* The error is the only change of this copy.
RecordError(r) ==
    /\ At(r, "error")
    /\ Take(r, file, "save")
    /\ UNCHANGED <<file, hand, chain, vouched, crashes>>

-----------------------------------------------------------------------------
(* The operator's routes, for a session with pending candidates.          *)

OperatorSettles(o, s) ==
    /\ At(o, "idle")
    /\ Pending(file, s) # {}
    /\ Take(o, file, "send")
    /\ hand' = [hand EXCEPT ![o] = Pending(file, s)]
    /\ UNCHANGED <<file, chain, vouched, crashes>>

\* A settlement that is only local, or a commit without a transaction's hash.
Vouch(o, s) ==
    /\ At(o, "idle")
    /\ Pending(file, s) # {}
    /\ Take(o, NewBatch(file, Pending(file, s), "confirmed", 0), "save")
    /\ vouched' = vouched \union {Pending(file, s)}
    /\ UNCHANGED <<file, hand, chain, crashes>>

Export(o, s) ==
    /\ At(o, "idle")
    /\ Pending(file, s) # {}
    /\ Goto(o, "exported")
    /\ hand' = [hand EXCEPT ![o] = Pending(file, s)]
    /\ UNCHANGED <<file, copy, chain, vouched, overlapped, crashes>>

\* The operator submits the exported root with keys of its own.
SubmitExported(o) ==
    /\ At(o, "exported")
    /\ Goto(o, "committing")
    /\ sent' = sent \union {hand[o]}
    /\ UNCHANGED <<file, copy, hand, anchored, vouched, overlapped, crashes>>

\* The expected batch must be the one that is pending now.
Commit(o) ==
    LET s == CHOOSE t \in Sessions : \A x \in hand[o] : Owner[x] = t IN
    /\ At(o, "committing")
    /\ IF Pending(file, s) = hand[o]
       THEN Take(o, NewBatch(file, hand[o], "submitted", 0), "save") /\ UNCHANGED hand
       ELSE End(o) /\ UNCHANGED overlapped
    /\ UNCHANGED <<file, chain, vouched, crashes>>

-----------------------------------------------------------------------------
\* External: a root that was accepted reaches the contract.
Land(B) ==
    /\ B \in sent \ anchored
    /\ anchored' = anchored \union {B}
    /\ UNCHANGED <<file, pc, copy, hand, sent, vouched, overlapped, crashes>>

\* The process ends; the file, written aside and renamed, is whole.
Crash ==
    /\ crashes < MaxCrashes
    /\ crashes' = crashes + 1
    /\ \E p \in Procs : pc[p] \notin {"idle", "done"}
    /\ pc' = [p \in Procs |-> IF pc[p] = "idle" THEN "idle" ELSE Rest(p)]
    /\ copy' = [p \in Procs |-> Blank]
    /\ hand' = [p \in Procs |-> NoBatch]
    /\ UNCHANGED <<file, chain, vouched, overlapped>>

Init ==
    /\ file = Blank
    /\ pc = [p \in Procs |-> "idle"]
    /\ copy = [p \in Procs |-> Blank]
    /\ hand = [p \in Procs |-> NoBatch]
    /\ sent = {} /\ anchored = {} /\ vouched = {}
    /\ overlapped = FALSE
    /\ crashes = 0

Reconciles(r) == Begin(r) \/ ReadFails(r) \/ NotDue(r) \/ Observe(r) \/ Resent(r)
CycleStep(r) == Reconciles(r) \/ CycleEnds(r) \/ Settle(r) \/ RecordError(r)
SubmitStep(p) == Send(p) \/ SettleConfirmed(p) \/ SettleSubmitted(p) \/ SettleThrows(p)
OperatorStep(o) ==
    \/ \E s \in Sessions : OperatorSettles(o, s) \/ Vouch(o, s) \/ Export(o, s)
    \/ SubmitExported(o) \/ Commit(o)

Next ==
    \/ \E x \in Items : Enqueue(x)
    \/ \E r \in Cycles : CycleStep(r)
    \/ \E p \in Cycles \union Operators : SubmitStep(p)
    \/ \E o \in Operators : OperatorStep(o)
    \/ \E p \in Procs : Save(p)
    \/ \E B \in Batches : Land(B)
    \/ Crash

Spec == Init /\ [][Next]_vars

\* The cycles run; reading the contract, and a submission, does not fail for ever.
Fairness ==
    \A r \in Cycles :
       /\ WF_vars(CycleStep(r)) /\ WF_vars(SubmitStep(r)) /\ WF_vars(Save(r))
       /\ SF_vars(Observe(r))
       /\ SF_vars(SettleConfirmed(r) \/ SettleSubmitted(r))

FairSpec == Spec /\ Fairness

-----------------------------------------------------------------------------
\* Every variable has its type: the file, the copies, the steps and the chain.
TypeOK ==
    /\ file \in Files
    /\ pc \in [Procs -> Steps]
    /\ copy \in [Procs -> Files]
    /\ hand \in [Procs -> Batches \union {NoBatch}]
    /\ sent \in SUBSET Batches
    /\ anchored \in SUBSET sent
    /\ vouched \in SUBSET Batches
    /\ overlapped \in BOOLEAN
    /\ crashes \in 0..MaxCrashes

\* Whatever overlaps, a batch and a candidate are only ever recorded as confirmed
\* when the root that covers the candidate is anchored or an operator vouched for it.
ConfirmedIsAnchored ==
    /\ \A B \in Batches : file.batch[B].status = "confirmed" => B \in anchored \union vouched
    /\ \A x \in Items : file.item[x].status = "confirmed" =>
          x \in file.item[x].batch /\ file.item[x].batch \in anchored \union vouched

\* As long as no two calls worked on copies at once, a recorded batch owns its
\* candidates: each is in one batch only and is in the status of that batch.
BatchesOwnItems ==
    ~overlapped => \A B \in Batches : file.batch[B].status # "absent" =>
       \A x \in B : /\ file.item[x].batch = B
                    /\ file.item[x].status =
                          IF file.batch[B].status = "failed" THEN "expired"
                          ELSE file.batch[B].status

\* No save, however old its copy, drops a candidate that is still to be anchored.
ActiveIsKept ==
    [][\A x \in Items : ActiveStatus(file.item[x].status)
                        => file'.item[x].status # "absent"]_vars

\* A candidate of the shared lane that is queued is confirmed or given up in the
\* end, as long as no two calls worked on copies at once.
SharedIsResolved ==
    \A x \in Items : Owner[x] \notin Priority =>
       (ActiveStatus(file.item[x].status)
        ~> file.item[x].status \in {"confirmed", "expired"} \/ overlapped)
=============================================================================
