-------------------------- MODULE AnchorQueueProofs --------------------------
(***************************************************************************)
(* Proofs about AnchorQueue for any candidates, sessions and calls.  What  *)
(* makes ConfirmedIsAnchored inductive is that it holds of every copy a    *)
(* process may still save, however old, and that a candidate only ever     *)
(* names a batch that it is a member of.                                   *)
(***************************************************************************)
EXTENDS AnchorQueue, TLAPS

\* A file in which what is confirmed is in a batch of G.
Sound(q, G) ==
    /\ \A B \in Batches : q.batch[B].status = "confirmed" => B \in G
    /\ \A x \in Items : q.item[x].status = "confirmed" =>
          x \in q.item[x].batch /\ q.item[x].batch \in G
    /\ \A x \in Items : q.item[x].batch = NoBatch \/ x \in q.item[x].batch

Good == anchored \union vouched

InHand(p) == pc[p] \in {"resend", "resent", "send", "sent", "exported", "committing"}

Inv ==
    /\ TypeOK
    /\ \A p \in Procs : InHand(p) => hand[p] \in Batches
    /\ Sound(file, Good)
    /\ \A p \in Procs : Sound(copy[p], Good)

\* A batch is not empty.
LEMMA BatchNotEmpty == NoBatch \notin Batches
  BY DEF Batches, NoBatch

LEMMA BlankTyped == Blank \in Files
  <1>1. [status |-> "absent", batch |-> NoBatch] \in ItemRecords
    BY DEF ItemRecords, ItemStatuses
  <1>2. [status |-> "absent", tries |-> 0] \in BatchRecords
    BY ConstantsAssumption DEF BatchRecords, BatchStatuses
  <1> QED BY <1>1, <1>2 DEF Files, Blank

\* The pending candidates of a session are a batch.
LEMMA PendingIsBatch ==
    ASSUME NEW q, NEW s, Pending(q, s) # {}
    PROVE  Pending(q, s) \in Batches
  BY DEF Pending, Batches

\* The parts of a file.
LEMMA Parts ==
    ASSUME NEW q \in Files
    PROVE  /\ \A x \in Items : q.item[x].status \in ItemStatuses
                               /\ q.item[x].batch \in Batches \union {NoBatch}
                               /\ q.item[x] \in ItemRecords
           /\ \A B \in Batches : q.batch[B].status \in BatchStatuses
                                 /\ q.batch[B].tries \in 0..MaxTries
                                 /\ q.batch[B] \in BatchRecords
           /\ q.item \in [Items -> ItemRecords]
           /\ q.batch \in [Batches -> BatchRecords]
  BY DEF Files, ItemRecords, BatchRecords

LEMMA MergeTyped ==
    ASSUME NEW q \in Files, NEW f \in Files
    PROVE  Merge(q, f) \in Files
<1>1. \A x \in Items : Blank.item[x] \in ItemRecords
  BY BlankTyped, Parts
<1> QED BY <1>1, Parts DEF Merge, Files

\* Sound copies merge to a sound file.
LEMMA MergeSound ==
    ASSUME NEW q \in Files, NEW f \in Files, NEW G, Sound(q, G), Sound(f, G)
    PROVE  Sound(Merge(q, f), G)
<1>1. \A x \in Items : Blank.item[x].status = "absent" /\ Blank.item[x].batch = NoBatch
  BY DEF Blank
<1> QED BY <1>1 DEF Sound, Merge, ActiveStatus

LEMMA MarkTyped ==
    ASSUME NEW q \in Files, NEW F, NEW s \in ItemStatuses, NEW r \in BatchRecords
    PROVE  Mark(q, F, s, r) \in Files
<1>1. \A x \in Items : [q.item[x] EXCEPT !.status = s] \in ItemRecords
  BY Parts DEF ItemRecords
<1> QED BY <1>1, Parts DEF Mark, Files

\* Confirming anchored batches leaves a file sound; any other mark does too.
LEMMA MarkSound ==
    ASSUME NEW q \in Files, NEW G, Sound(q, G), NEW F \in SUBSET Batches, NEW s, NEW r,
           s = "confirmed" \/ r.status = "confirmed" => F \subseteq G
    PROVE  Sound(Mark(q, F, s, r), G)
<1> DEFINE m == Mark(q, F, s, r)
<1>1. \A x \in Items : /\ m.item[x].batch = q.item[x].batch
                       /\ m.item[x].status = IF q.item[x].batch \in F THEN s ELSE q.item[x].status
  BY Parts DEF Mark, ItemRecords
<1>2. \A B \in Batches : m.batch[B] = IF B \in F THEN r ELSE q.batch[B]
  BY DEF Mark
<1>3. \A x \in Items : q.item[x].batch \in F => x \in q.item[x].batch
  BY BatchNotEmpty DEF Sound
<1> QED BY <1>1, <1>2, <1>3 DEF Sound

LEMMA RetryTyped ==
    ASSUME NEW q \in Files, NEW B \in Batches, NEW s \in {"submitted", "retrying"}
    PROVE  Retry(q, B, s) \in Files
<1>1. Capped(q.batch[B].tries + 1) \in 0..MaxTries
  BY Parts, ConstantsAssumption DEF Capped
<1>2. [status |-> s, tries |-> Capped(q.batch[B].tries + 1)] \in BatchRecords
  BY <1>1 DEF BatchRecords, BatchStatuses
<1>3. s \in ItemStatuses
  BY DEF ItemStatuses
<1> QED BY <1>2, <1>3, MarkTyped DEF Retry

LEMMA RetrySound ==
    ASSUME NEW q \in Files, NEW G, Sound(q, G), NEW B \in Batches, NEW s \in {"submitted", "retrying"}
    PROVE  Sound(Retry(q, B, s), G)
  BY MarkSound DEF Retry

LEMMA ConfirmKeeps ==
    ASSUME NEW q \in Files, NEW G, Sound(q, G), NEW F \in SUBSET Batches, F \subseteq G
    PROVE  Confirm(q, F) \in Files /\ Sound(Confirm(q, F), G)
<1>1. [status |-> "confirmed", tries |-> 0] \in BatchRecords /\ "confirmed" \in ItemStatuses
  BY ConstantsAssumption DEF BatchRecords, BatchStatuses, ItemStatuses
<1> QED BY <1>1, MarkTyped, MarkSound DEF Confirm

LEMMA ExpireKeeps ==
    ASSUME NEW q \in Files, NEW G, Sound(q, G), NEW B \in Batches
    PROVE  Expire(q, B) \in Files /\ Sound(Expire(q, B), G)
<1>1. [status |-> "failed", tries |-> 0] \in BatchRecords /\ "expired" \in ItemStatuses
  BY ConstantsAssumption DEF BatchRecords, BatchStatuses, ItemStatuses
<1> QED BY <1>1, MarkTyped, MarkSound DEF Expire

LEMMA NewBatchTyped ==
    ASSUME NEW q \in Files, NEW B \in Batches, NEW s \in {"submitted", "confirmed"},
           NEW n \in 0..1
    PROVE  NewBatch(q, B, s, n) \in Files
<1>1. [status |-> s, tries |-> n] \in BatchRecords
  BY ConstantsAssumption DEF BatchRecords, BatchStatuses
<1>2. [status |-> s, batch |-> B] \in ItemRecords
  BY DEF ItemRecords, ItemStatuses
<1> QED BY <1>1, <1>2, Parts DEF NewBatch, Files

LEMMA NewBatchSound ==
    ASSUME NEW q \in Files, NEW G, Sound(q, G), NEW B \in Batches, NEW s, NEW n,
           s = "confirmed" => B \in G
    PROVE  Sound(NewBatch(q, B, s, n), G)
<1> DEFINE m == NewBatch(q, B, s, n)
<1>1. \A x \in Items : m.item[x] = IF x \in B THEN [status |-> s, batch |-> B] ELSE q.item[x]
  BY DEF NewBatch
<1>2. \A C \in Batches : m.batch[C] = q.batch[C] \/ (C = B /\ m.batch[C].status = s)
  BY Parts DEF NewBatch
<1> QED BY <1>1, <1>2 DEF Sound

\* One process goes on with copy q and batch h.
LEMMA StageKeeps ==
    ASSUME Inv, NEW p \in Procs, NEW q \in Files, NEW step \in Steps,
           NEW h \in Batches \union {NoBatch},
           step \in {"resend", "resent", "send", "sent", "exported", "committing"} => h \in Batches,
           pc' = [pc EXCEPT ![p] = step],
           copy' = [copy EXCEPT ![p] = q],
           hand' = [hand EXCEPT ![p] = h],
           vouched \subseteq vouched', vouched' \in SUBSET Batches,
           sent \subseteq sent', sent' \in SUBSET Batches,
           overlapped' \in BOOLEAN,
           UNCHANGED <<file, anchored, crashes>>,
           Sound(q, anchored \union vouched')
    PROVE  Inv'
<1>0. TypeOK
  BY DEF Inv
<1>1. TypeOK'
  <2>1. file' \in Files /\ pc' \in [Procs -> Steps] /\ copy' \in [Procs -> Files]
    BY <1>0 DEF TypeOK
  <2>2. hand' \in [Procs -> Batches \union {NoBatch}] /\ crashes' \in 0..MaxCrashes
    BY <1>0 DEF TypeOK
  <2>3. anchored' \in SUBSET sent'
    BY <1>0 DEF TypeOK
  <2> QED BY <2>1, <2>2, <2>3 DEF TypeOK
<1>2. \A r \in Procs : InHand(r)' => hand'[r] \in Batches
  BY DEF Inv, TypeOK, InHand
<1>3. Sound(file', Good')
  BY DEF Inv, Sound, Good
<1>4. ASSUME NEW r \in Procs PROVE Sound(copy'[r], Good')
  <2>1. CASE r = p
    BY <2>1 DEF Inv, TypeOK, Good
  <2>2. CASE r # p
    <3>1. copy'[r] = copy[r] /\ Sound(copy[r], Good)
      BY <2>2 DEF Inv, TypeOK
    <3> QED BY <3>1 DEF Sound, Good
  <2> QED BY <2>1, <2>2
<1> QED BY <1>1, <1>2, <1>3, <1>4 DEF Inv

LEMMA BlankSound == ASSUME NEW G PROVE Sound(Blank, G)
  BY DEF Blank, Sound

LEMMA InitInv == Init => Inv
<1> SUFFICES ASSUME Init PROVE Inv
  OBVIOUS
<1>1. TypeOK
  <2>1. pc \in [Procs -> Steps]
    BY DEF Init, Steps
  <2>2. file \in Files /\ copy \in [Procs -> Files]
    BY BlankTyped DEF Init
  <2>3. crashes \in 0..MaxCrashes
    BY ConstantsAssumption DEF Init
  <2>4. /\ hand \in [Procs -> Batches \union {NoBatch}] /\ overlapped \in BOOLEAN
        /\ sent \in SUBSET Batches /\ anchored \in SUBSET sent /\ vouched \in SUBSET Batches
    BY DEF Init
  <2> QED BY <2>1, <2>2, <2>3, <2>4 DEF TypeOK
<1>2. Sound(file, Good) /\ \A p \in Procs : Sound(copy[p], Good)
  BY BlankSound DEF Init
<1> QED BY <1>1, <1>2 DEF Init, Inv, InHand

\* What Inv says of one process.
LEMMA Facts ==
    ASSUME Inv, NEW p \in Procs
    PROVE  /\ file \in Files /\ copy[p] \in Files /\ pc[p] \in Steps
           /\ hand[p] \in Batches \union {NoBatch}
           /\ InHand(p) => hand[p] \in Batches
           /\ Sound(file, Good) /\ Sound(copy[p], Good)
           /\ hand = [hand EXCEPT ![p] = hand[p]] /\ copy = [copy EXCEPT ![p] = copy[p]]
           /\ vouched \in SUBSET Batches /\ sent \in SUBSET Batches
           /\ anchored \in SUBSET Batches /\ overlapped \in BOOLEAN
           /\ anchored \subseteq Good
  BY DEF Inv, TypeOK, Good

\* One process stages a copy of its own with the batch it has.
LEMMA ChangeKeeps ==
    ASSUME Inv, NEW p \in Procs, NEW q \in Files, NEW step \in {"save", "resave"},
           Stage(p, q, step), Sound(q, Good),
           UNCHANGED <<file, hand, chain, vouched, crashes>>
    PROVE  Inv'
<1>1. step \in Steps /\ step \notin {"resend", "resent", "send", "sent", "exported", "committing"}
  BY DEF Steps
<1>2. /\ pc' = [pc EXCEPT ![p] = step] /\ copy' = [copy EXCEPT ![p] = q]
      /\ hand' = [hand EXCEPT ![p] = hand[p]]
  BY Facts DEF Stage, Goto
<1>3. /\ vouched' = vouched /\ sent' = sent /\ overlapped' = overlapped
      /\ UNCHANGED <<file, anchored, crashes>>
  BY DEF Stage, chain
<1>4. Sound(q, anchored \union vouched')
  BY <1>3 DEF Good
<1>5. /\ vouched \subseteq vouched' /\ vouched' \in SUBSET Batches
      /\ sent \subseteq sent' /\ sent' \in SUBSET Batches /\ overlapped' \in BOOLEAN
      /\ hand[p] \in Batches \union {NoBatch}
  BY <1>3, Facts
<1> QED BY <1>1, <1>2, <1>3, <1>4, <1>5, StageKeeps

\* One process loads the file.
LEMMA TakeKeeps ==
    ASSUME Inv, NEW p \in Procs, NEW q \in Files, NEW step \in Steps,
           NEW h \in Batches \union {NoBatch},
           step \in {"resend", "resent", "send", "sent", "exported", "committing"} => h \in Batches,
           Take(p, q, step), hand' = [hand EXCEPT ![p] = h],
           vouched \subseteq vouched', vouched' \in SUBSET Batches,
           UNCHANGED <<file, chain, crashes>>,
           Sound(q, anchored \union vouched')
    PROVE  Inv'
<1>1. /\ pc' = [pc EXCEPT ![p] = step] /\ copy' = [copy EXCEPT ![p] = q]
      /\ sent' = sent /\ overlapped' \in BOOLEAN /\ UNCHANGED <<file, anchored, crashes>>
  BY Facts DEF Take, Goto, chain
<1>2. sent \subseteq sent' /\ sent' \in SUBSET Batches
  BY <1>1, Facts
<1> QED BY <1>1, <1>2, StageKeeps

\* One process goes on without touching its copy.
LEMMA GotoKeeps ==
    ASSUME Inv, NEW p \in Procs, NEW step \in Steps, Goto(p, step),
           NEW h \in Batches \union {NoBatch}, hand' = [hand EXCEPT ![p] = h],
           step \in {"resend", "resent", "send", "sent", "exported", "committing"} => h \in Batches,
           sent \subseteq sent', sent' \in SUBSET Batches,
           UNCHANGED <<file, copy, anchored, vouched, overlapped, crashes>>
    PROVE  Inv'
<1>1. pc' = [pc EXCEPT ![p] = step] /\ copy' = [copy EXCEPT ![p] = copy[p]]
  BY Facts DEF Goto
<1>2. /\ vouched \subseteq vouched' /\ vouched' \in SUBSET Batches /\ overlapped' \in BOOLEAN
      /\ copy[p] \in Files /\ Sound(copy[p], anchored \union vouched')
  BY Facts DEF Good
<1> QED BY <1>1, <1>2, StageKeeps

LEMMA EndKeeps ==
    ASSUME Inv, NEW p \in Procs, End(p),
           UNCHANGED <<file, chain, vouched, overlapped, crashes>>
    PROVE  Inv'
<1>1. Rest(p) \in Steps /\ Rest(p) \notin {"resend", "resent", "send", "sent", "exported", "committing"}
  BY DEF Rest, Steps
<1>2. /\ pc' = [pc EXCEPT ![p] = Rest(p)] /\ copy' = [copy EXCEPT ![p] = Blank]
      /\ hand' = [hand EXCEPT ![p] = NoBatch]
  BY DEF End, Goto
<1>3. /\ vouched \subseteq vouched' /\ vouched' \in SUBSET Batches
      /\ sent \subseteq sent' /\ sent' \in SUBSET Batches /\ overlapped' \in BOOLEAN
      /\ UNCHANGED <<file, anchored, crashes>>
  BY Facts DEF chain
<1>4. Blank \in Files /\ Sound(Blank, anchored \union vouched')
  BY BlankTyped, BlankSound
<1> QED BY <1>1, <1>2, <1>3, <1>4, StageKeeps

-----------------------------------------------------------------------------
(* The actions.                                                            *)

LEMMA EnqueueKeeps == ASSUME Inv, NEW x \in Items, Enqueue(x) PROVE Inv'
<1> DEFINE q == [file EXCEPT !.item[x].status = "pending"]
<1>1. x \in Procs
  BY DEF Procs
<1>2. file \in Files /\ Sound(file, Good) /\ hand[x] \in Batches \union {NoBatch}
      /\ hand = [hand EXCEPT ![x] = hand[x]] /\ vouched \in SUBSET Batches
  BY <1>1, Facts
<1>3. /\ \A y \in Items : q.item[y].batch = file.item[y].batch
                            /\ (q.item[y].status = file.item[y].status
                                \/ q.item[y].status = "pending")
      /\ q.batch = file.batch
  BY <1>2, Parts DEF Files, ItemRecords
<1>4. q \in Files
  <2>1. [file.item[x] EXCEPT !.status = "pending"] \in ItemRecords
    BY <1>2, Parts DEF ItemRecords, ItemStatuses
  <2> QED BY <1>2, <2>1, Parts DEF Files
<1>5. Sound(q, Good)
  BY <1>2, <1>3 DEF Sound
<1>6. "save" \in Steps
  BY DEF Steps
<1> HIDE DEF q
<1>7. Take(x, q, "save") /\ UNCHANGED <<file, hand, chain, vouched, crashes>>
  BY DEF Enqueue, q
<1> QED BY <1>1, <1>2, <1>4, <1>5, <1>6, <1>7, TakeKeeps DEF Good

\* A save merges two sound files, and the process that saved starts or ends.
LEMMA SaveKeeps == ASSUME Inv, NEW p \in Procs, Save(p) PROVE Inv'
<1>1. file \in Files /\ copy[p] \in Files /\ Sound(file, Good) /\ Sound(copy[p], Good)
  BY Facts
<1>2. file' \in Files /\ Sound(file', Good)
  BY <1>1, MergeTyped, MergeSound DEF Save
<1>3. UNCHANGED <<sent, anchored, vouched, overlapped, crashes>> /\ Good' = Good
  BY DEF Save, chain, Good
<1>4. CASE pc' = [pc EXCEPT ![p] = "next"] /\ UNCHANGED <<copy, hand>>
  BY <1>2, <1>3, <1>4 DEF Inv, TypeOK, InHand, Steps
<1>5. CASE /\ pc' = [r \in Procs |-> IF r = p THEN Rest(p)
                                      ELSE IF r \in Wakes(p) THEN "start" ELSE pc[r]]
           /\ copy' = [copy EXCEPT ![p] = Blank]
           /\ hand' = [hand EXCEPT ![p] = NoBatch]
  <2>1. Rest(p) \in {"idle", "done"} /\ {"idle", "done", "start"} \subseteq Steps
    BY DEF Rest, Steps
  <2>2. pc' \in [Procs -> Steps]
    BY <1>5, <2>1 DEF Inv, TypeOK
  <2>3. copy' \in [Procs -> Files] /\ \A r \in Procs : Sound(copy'[r], Good)
    BY <1>5, BlankTyped, BlankSound DEF Inv, TypeOK
  <2>4. hand' \in [Procs -> Batches \union {NoBatch}]
    BY <1>5 DEF Inv, TypeOK
  <2>5. ASSUME NEW r \in Procs, InHand(r)' PROVE hand'[r] \in Batches
    <3>1. pc'[r] \notin {"idle", "done", "start"}
      BY <2>5 DEF InHand
    <3>2. r # p /\ pc'[r] = pc[r]
      BY <1>5, <2>1, <3>1 DEF Inv, TypeOK
    <3>3. InHand(r)
      BY <2>5, <3>2 DEF InHand
    <3> QED BY <1>5, <3>2, <3>3 DEF Inv, TypeOK
  <2>6. TypeOK'
    BY <1>2, <1>3, <2>2, <2>3, <2>4 DEF Inv, TypeOK
  <2> QED BY <1>2, <1>3, <2>3, <2>5, <2>6 DEF Inv
<1> QED BY <1>4, <1>5 DEF Save, Goto

\* The steps of a cycle that look after the batches it found.
LEMMA ReconcileKeeps == ASSUME Inv, NEW r \in Cycles, Reconciles(r) PROVE Inv'
<1>1. r \in Procs
  BY DEF Procs
<1>2. /\ file \in Files /\ copy[r] \in Files /\ Sound(file, Good) /\ Sound(copy[r], Good)
      /\ hand[r] \in Batches \union {NoBatch} /\ hand = [hand EXCEPT ![r] = hand[r]]
      /\ vouched \in SUBSET Batches /\ sent \in SUBSET Batches
      /\ anchored \in SUBSET Batches /\ anchored \subseteq Good
  BY <1>1, Facts
<1>3. "observe" \in Steps /\ "next" \in Steps /\ "resend" \in Steps
  BY DEF Steps
<1>4. \A B \in ActiveBatches(copy[r]) : B \in Batches
  BY DEF ActiveBatches
<1>5. CASE Begin(r)
  BY <1>1, <1>2, <1>3, <1>5, TakeKeeps DEF Begin, Good
<1>6. CASE ReadFails(r)
  <2>1. CASE Goto(r, "next") /\ UNCHANGED <<copy, overlapped>>
    BY <1>1, <1>2, <1>3, <1>6, <2>1, GotoKeeps DEF ReadFails, chain
  <2>2. ASSUME NEW B \in Batches, Stage(r, Retry(copy[r], B, "retrying"), "resave")
        PROVE  Inv'
    <3>1. Retry(copy[r], B, "retrying") \in Files /\ Sound(Retry(copy[r], B, "retrying"), Good)
      BY <1>2, RetryTyped, RetrySound
    <3> QED BY <1>1, <1>6, <2>2, <3>1, ChangeKeeps DEF ReadFails
  <2> QED BY <1>4, <1>6, <2>1, <2>2 DEF ReadFails
<1>7. CASE NotDue(r)
  BY <1>1, <1>2, <1>3, <1>7, GotoKeeps DEF NotDue, chain
<1>8. CASE Observe(r)
  <2>1. ASSUME NEW F \in SUBSET anchored, Stage(r, Confirm(copy[r], F), "resave"), UNCHANGED hand
        PROVE  Inv'
    <3>1. F \in SUBSET Batches /\ F \subseteq Good
      BY <1>2
    <3>2. Confirm(copy[r], F) \in Files /\ Sound(Confirm(copy[r], F), Good)
      BY <1>2, <3>1, ConfirmKeeps
    <3> QED BY <1>1, <1>8, <2>1, <3>2, ChangeKeeps DEF Observe
  <2>2. ASSUME NEW B \in Batches, Stage(r, Expire(copy[r], B), "resave"), UNCHANGED hand
        PROVE  Inv'
    <3>1. Expire(copy[r], B) \in Files /\ Sound(Expire(copy[r], B), Good)
      BY <1>2, ExpireKeeps
    <3> QED BY <1>1, <1>8, <2>2, <3>1, ChangeKeeps DEF Observe
  <2>3. ASSUME NEW B \in Batches, Goto(r, "resend"), hand' = [hand EXCEPT ![r] = B],
               UNCHANGED <<copy, overlapped>>
        PROVE  Inv'
    BY <1>1, <1>2, <1>3, <1>8, <2>3, GotoKeeps DEF Observe, chain
  <2>4. CASE Goto(r, "next") /\ UNCHANGED <<copy, hand, overlapped>>
    BY <1>1, <1>2, <1>3, <1>8, <2>4, GotoKeeps DEF Observe, chain
  <2>5. PICK seen \in SUBSET anchored :
          LET failed == {B \in seen : copy[r].batch[B].status = "failed"} IN
          \/ /\ failed # {}
             /\ Stage(r, Confirm(copy[r], failed), "resave") /\ UNCHANGED hand
          \/ /\ failed = {} /\ ActiveBatches(copy[r]) = {}
             /\ Goto(r, "next") /\ UNCHANGED <<copy, hand, overlapped>>
          \/ /\ failed = {}
             /\ \E B \in ActiveBatches(copy[r]) :
                   \/ /\ B \in seen
                      /\ Stage(r, Confirm(copy[r], {B}), "resave") /\ UNCHANGED hand
                   \/ /\ B \notin seen /\ copy[r].batch[B].tries >= MaxTries
                      /\ Stage(r, Expire(copy[r], B), "resave") /\ UNCHANGED hand
                   \/ /\ B \notin seen /\ copy[r].batch[B].tries < MaxTries
                      /\ Goto(r, "resend") /\ hand' = [hand EXCEPT ![r] = B]
                      /\ UNCHANGED <<copy, overlapped>>
    BY <1>8 DEF Observe
  <2> DEFINE failed == {B \in seen : copy[r].batch[B].status = "failed"}
  <2>6. failed \in SUBSET anchored /\ \A B \in seen : {B} \in SUBSET anchored
    OBVIOUS
  <2>7. CASE Stage(r, Confirm(copy[r], failed), "resave") /\ UNCHANGED hand
    BY <2>1, <2>6, <2>7
  <2>8. CASE \E B \in ActiveBatches(copy[r]) :
                   \/ /\ B \in seen
                      /\ Stage(r, Confirm(copy[r], {B}), "resave") /\ UNCHANGED hand
                   \/ /\ Stage(r, Expire(copy[r], B), "resave") /\ UNCHANGED hand
                   \/ /\ Goto(r, "resend") /\ hand' = [hand EXCEPT ![r] = B]
                      /\ UNCHANGED <<copy, overlapped>>
    BY <1>4, <2>1, <2>2, <2>3, <2>6, <2>8
  <2> QED BY <2>4, <2>5, <2>7, <2>8
<1>9. CASE Resent(r)
  <2> DEFINE B == hand[r]
  <2>1. B \in Batches
    BY <1>1, <1>9, Facts DEF Resent, At, InHand
  <2>2. /\ Retry(copy[r], B, "submitted") \in Files /\ Sound(Retry(copy[r], B, "submitted"), Good)
        /\ Retry(copy[r], B, "retrying") \in Files /\ Sound(Retry(copy[r], B, "retrying"), Good)
        /\ Expire(copy[r], B) \in Files /\ Sound(Expire(copy[r], B), Good)
    BY <1>2, <2>1, RetryTyped, RetrySound, ExpireKeeps
  <2>3. B \in anchored => Confirm(copy[r], {B}) \in Files /\ Sound(Confirm(copy[r], {B}), Good)
    <3> HAVE B \in anchored
    <3>1. {B} \in SUBSET Batches /\ {B} \subseteq Good
      BY <1>2, <2>1
    <3> QED BY <1>2, <3>1, ConfirmKeeps
  <2>4. PICK q \in Files : Sound(q, Good) /\ Stage(r, q, "resave")
    BY <1>9, <2>2, <2>3 DEF Resent
  <2> QED BY <1>1, <1>9, <2>4, ChangeKeeps DEF Resent
<1> QED BY <1>5, <1>6, <1>7, <1>8, <1>9 DEF Reconciles

\* The steps of a cycle that make a new batch.
LEMMA CycleKeeps ==
    ASSUME Inv, NEW r \in Cycles, CycleEnds(r) \/ Settle(r) \/ RecordError(r)
    PROVE  Inv'
<1>1. r \in Procs
  BY DEF Procs
<1>2. /\ file \in Files /\ Sound(file, Good) /\ hand[r] \in Batches \union {NoBatch}
      /\ hand = [hand EXCEPT ![r] = hand[r]] /\ vouched \in SUBSET Batches /\ sent \in SUBSET Batches
  BY <1>1, Facts
<1>3. "send" \in Steps /\ "save" \in Steps /\ "error" \in Steps
  BY DEF Steps
<1>4. CASE CycleEnds(r)
  BY <1>1, <1>4, EndKeeps DEF CycleEnds
<1>5. CASE Settle(r)
  <2>1. CASE Goto(r, "error") /\ UNCHANGED <<copy, hand, overlapped>>
    BY <1>1, <1>2, <1>3, <1>5, <2>1, GotoKeeps DEF Settle, chain
  <2>2. ASSUME NEW B \in Batches, Take(r, file, "send"), hand' = [hand EXCEPT ![r] = B]
        PROVE  Inv'
    BY <1>1, <1>2, <1>3, <1>5, <2>2, TakeKeeps DEF Settle, Good
  <2>3. PICK s : LET B == Pending(file, s) IN
                 \/ B # {} /\ Take(r, file, "send") /\ hand' = [hand EXCEPT ![r] = B]
                 \/ Goto(r, "error") /\ UNCHANGED <<copy, hand, overlapped>>
    BY <1>5 DEF Settle
  <2> QED BY <2>1, <2>2, <2>3, PendingIsBatch
<1>6. CASE RecordError(r)
  BY <1>1, <1>2, <1>3, <1>6, TakeKeeps DEF RecordError, Good
<1> QED BY <1>4, <1>5, <1>6

\* A submission and what follows from it.
LEMMA SubmitKeeps ==
    ASSUME Inv, NEW p \in Cycles \union Operators, SubmitStep(p)
    PROVE  Inv'
<1>1. p \in Procs
  BY DEF Procs
<1>2. /\ copy[p] \in Files /\ Sound(copy[p], Good) /\ anchored \subseteq Good
      /\ hand[p] \in Batches \union {NoBatch} /\ hand = [hand EXCEPT ![p] = hand[p]]
      /\ vouched \in SUBSET Batches /\ sent \in SUBSET Batches
  BY <1>1, Facts
<1>3. pc[p] \in {"send", "resend", "sent"} => hand[p] \in Batches
  BY <1>1, Facts DEF InHand
<1>4. "sent" \in Steps /\ "resent" \in Steps /\ "error" \in Steps
  BY DEF Steps
<1>5. CASE Send(p)
  <2>1. hand[p] \in Batches
    BY <1>3, <1>5 DEF Send, At
  <2>2. sent \subseteq sent' /\ sent' \in SUBSET Batches
    BY <1>2, <1>5, <2>1 DEF Send
  <2>3. PICK step \in {"sent", "resent"} : Goto(p, step)
    BY <1>5 DEF Send
  <2> QED BY <1>1, <1>2, <1>4, <1>5, <2>1, <2>2, <2>3, GotoKeeps DEF Send
<1>6. CASE SettleConfirmed(p)
  <2>1. hand[p] \in Batches /\ hand[p] \in Good
    BY <1>2, <1>3, <1>6 DEF SettleConfirmed, At
  <2>2. /\ NewBatch(copy[p], hand[p], "confirmed", 0) \in Files
        /\ Sound(NewBatch(copy[p], hand[p], "confirmed", 0), Good)
    BY <1>2, <2>1, NewBatchTyped, NewBatchSound
  <2> QED BY <1>1, <1>6, <2>2, ChangeKeeps DEF SettleConfirmed
<1>7. CASE SettleSubmitted(p)
  <2>1. hand[p] \in Batches
    BY <1>3, <1>7 DEF SettleSubmitted, At
  <2>2. /\ NewBatch(copy[p], hand[p], "submitted", 1) \in Files
        /\ Sound(NewBatch(copy[p], hand[p], "submitted", 1), Good)
    BY <1>2, <2>1, NewBatchTyped, NewBatchSound
  <2> QED BY <1>1, <1>7, <2>2, ChangeKeeps DEF SettleSubmitted
<1>8. CASE SettleThrows(p)
  <2>1. CASE Goto(p, "error") /\ UNCHANGED <<copy, hand>>
    BY <1>1, <1>2, <1>4, <1>8, <2>1, GotoKeeps DEF SettleThrows, chain
  <2>2. CASE End(p)
    BY <1>1, <1>8, <2>2, EndKeeps DEF SettleThrows
  <2> QED BY <1>8, <2>1, <2>2 DEF SettleThrows
<1> QED BY <1>5, <1>6, <1>7, <1>8 DEF SubmitStep

\* The operator's routes.
LEMMA OperatorKeeps == ASSUME Inv, NEW o \in Operators, OperatorStep(o) PROVE Inv'
<1>1. o \in Procs
  BY DEF Procs
<1>2. /\ file \in Files /\ Sound(file, Good) /\ hand[o] \in Batches \union {NoBatch}
      /\ hand = [hand EXCEPT ![o] = hand[o]] /\ vouched \in SUBSET Batches /\ sent \in SUBSET Batches
  BY <1>1, Facts
<1>3. "send" \in Steps /\ "save" \in Steps /\ "exported" \in Steps /\ "committing" \in Steps
  BY DEF Steps
<1>4. pc[o] \in {"exported", "committing"} => hand[o] \in Batches
  BY <1>1, Facts DEF InHand
<1>5. ASSUME NEW s \in Sessions, OperatorSettles(o, s) PROVE Inv'
  <2>1. Pending(file, s) \in Batches
    BY <1>5, PendingIsBatch DEF OperatorSettles
  <2> QED BY <1>1, <1>2, <1>3, <1>5, <2>1, TakeKeeps DEF OperatorSettles, Good
<1>6. ASSUME NEW s \in Sessions, Vouch(o, s) PROVE Inv'
  <2> DEFINE B == Pending(file, s)
             q == NewBatch(file, B, "confirmed", 0)
  <2>1. B \in Batches
    BY <1>6, PendingIsBatch DEF Vouch
  <2>2. /\ vouched' = vouched \union {B} /\ Take(o, q, "save")
        /\ UNCHANGED <<file, hand, chain, crashes>>
    BY <1>6 DEF Vouch
  <2>3. Sound(file, anchored \union vouched')
    BY <1>2, <2>2 DEF Sound, Good
  <2>4. q \in Files /\ Sound(q, anchored \union vouched')
    BY <1>2, <2>1, <2>2, <2>3, NewBatchTyped, NewBatchSound
  <2>5. vouched \subseteq vouched' /\ vouched' \in SUBSET Batches
    BY <1>2, <2>1, <2>2
  <2> HIDE DEF q, B
  <2> QED BY <1>1, <1>2, <1>3, <2>2, <2>4, <2>5, TakeKeeps
<1>7. ASSUME NEW s \in Sessions, Export(o, s) PROVE Inv'
  <2>1. Pending(file, s) \in Batches
    BY <1>7, PendingIsBatch DEF Export
  <2> QED BY <1>1, <1>2, <1>3, <1>7, <2>1, GotoKeeps DEF Export, chain
<1>8. CASE SubmitExported(o)
  <2>1. hand[o] \in Batches
    BY <1>4, <1>8 DEF SubmitExported, At
  <2>2. sent \subseteq sent' /\ sent' \in SUBSET Batches
    BY <1>2, <1>8, <2>1 DEF SubmitExported
  <2> QED BY <1>1, <1>2, <1>3, <1>8, <2>1, <2>2, GotoKeeps DEF SubmitExported
<1>9. CASE Commit(o)
  <2> DEFINE q == NewBatch(file, hand[o], "submitted", 0)
  <2>1. CASE Take(o, q, "save") /\ UNCHANGED hand
    <3>1. hand[o] \in Batches
      BY <1>4, <1>9 DEF Commit, At
    <3>2. q \in Files /\ Sound(q, Good)
      BY <1>2, <3>1, NewBatchTyped, NewBatchSound
    <3>3. UNCHANGED <<file, chain, vouched, crashes>>
      BY <1>9 DEF Commit
    <3> HIDE DEF q
    <3> QED BY <1>1, <1>2, <1>3, <2>1, <3>2, <3>3, TakeKeeps DEF Good
  <2>2. CASE End(o) /\ UNCHANGED overlapped
    BY <1>1, <1>9, <2>2, EndKeeps DEF Commit
  <2> QED BY <1>9, <2>1, <2>2 DEF Commit
<1> QED BY <1>5, <1>6, <1>7, <1>8, <1>9 DEF OperatorStep

LEMMA LandKeeps == ASSUME Inv, NEW B \in Batches, Land(B) PROVE Inv'
<1>1. TypeOK'
  BY DEF Inv, TypeOK, Land
<1>2. UNCHANGED <<file, copy, pc, hand>> /\ Good \subseteq Good'
  BY DEF Land, Good
<1>3. Sound(file', Good')
  BY <1>2 DEF Inv, Sound
<1>4. \A p \in Procs : Sound(copy'[p], Good')
  BY <1>2 DEF Inv, Sound
<1> QED BY <1>1, <1>2, <1>3, <1>4 DEF Inv, InHand

LEMMA CrashKeeps == ASSUME Inv, Crash PROVE Inv'
<1>1. /\ copy' = [p \in Procs |-> Blank] /\ hand' = [p \in Procs |-> NoBatch]
      /\ UNCHANGED <<file, sent, anchored, vouched, overlapped>>
  BY DEF Crash, chain
<1>2. \A p \in Procs : pc'[p] \in {"idle", "done"}
  BY DEF Crash, Rest
<1>3. pc' \in [Procs -> Steps]
  BY <1>2 DEF Crash, Steps
<1>4. crashes' \in 0..MaxCrashes
  BY ConstantsAssumption DEF Inv, TypeOK, Crash
<1>5. copy' \in [Procs -> Files] /\ \A p \in Procs : Sound(copy'[p], Good')
  BY <1>1, BlankTyped, BlankSound
<1>6. TypeOK'
  BY <1>1, <1>3, <1>4, <1>5 DEF Inv, TypeOK
<1>7. Sound(file', Good')
  BY <1>1 DEF Inv, Good
<1> QED BY <1>2, <1>5, <1>6, <1>7 DEF Inv, InHand

LEMMA InvIsInductive == Inv /\ [Next]_vars => Inv'
<1> SUFFICES ASSUME Inv, [Next]_vars PROVE Inv'
  OBVIOUS
<1>1. CASE UNCHANGED vars
  BY <1>1 DEF vars, Inv, TypeOK, InHand, Good
<1>2. CASE Next
  <2>1. CASE \E x \in Items : Enqueue(x)
    BY <2>1, EnqueueKeeps
  <2>2. ASSUME NEW r \in Cycles, CycleStep(r) PROVE Inv'
    BY <2>2, ReconcileKeeps, CycleKeeps DEF CycleStep
  <2>3. CASE \E p \in Cycles \union Operators : SubmitStep(p)
    BY <2>3, SubmitKeeps
  <2>4. CASE \E o \in Operators : OperatorStep(o)
    BY <2>4, OperatorKeeps
  <2>5. CASE \E p \in Procs : Save(p)
    BY <2>5, SaveKeeps
  <2>6. CASE \E B \in Batches : Land(B)
    BY <2>6, LandKeeps
  <2>7. CASE Crash
    BY <2>7, CrashKeeps
  <2> QED BY <1>2, <2>1, <2>2, <2>3, <2>4, <2>5, <2>6, <2>7 DEF Next
<1> QED BY <1>1, <1>2

\* Every copy of the file, however old, holds only confirmations that are backed.
THEOREM Invariant == Spec => []Inv
  BY InitInv, InvIsInductive, PTL DEF Spec

\* Every variable has its type, for any candidates, calls and restarts.
THEOREM AnchorsTypeCorrect == Spec => []TypeOK
<1>1. Inv => TypeOK
  BY DEF Inv
<1> QED BY <1>1, Invariant, PTL

\* What the file calls confirmed is anchored or was vouched for, however the calls
\* that save it overlap and whenever the process restarts.
THEOREM ConfirmationsAreReal == Spec => []ConfirmedIsAnchored
<1>1. Inv => ConfirmedIsAnchored
  BY DEF Inv, Sound, Good, ConfirmedIsAnchored
<1> QED BY <1>1, Invariant, PTL

\* The merge under the lock keeps every candidate still to be anchored.
THEOREM NoCandidateIsDropped == Spec => ActiveIsKept
<1> DEFINE Kept == \A x \in Items : ActiveStatus(file.item[x].status)
                                    => file'.item[x].status # "absent"
<1>1. ASSUME Inv, [Next]_vars PROVE [Kept]_vars
  <2>1. CASE UNCHANGED file
    BY <2>1 DEF ActiveStatus
  <2>2. ASSUME NEW p \in Procs, Save(p) PROVE Kept
    BY <2>2 DEF Save, Merge, ActiveStatus
  <2>3. Next => UNCHANGED file \/ \E p \in Procs : Save(p)
    BY DEF Next, Enqueue, CycleStep, Reconciles, Begin, ReadFails, NotDue, Observe, Resent,
       CycleEnds, Settle, RecordError, SubmitStep, Send, SettleConfirmed, SettleSubmitted,
       SettleThrows, OperatorStep, OperatorSettles, Vouch, Export, SubmitExported, Commit,
       Land, Crash
  <2> QED BY <1>1, <2>1, <2>2, <2>3 DEF vars
<1> QED BY <1>1, Invariant, PTL DEF Spec, ActiveIsKept
=============================================================================
