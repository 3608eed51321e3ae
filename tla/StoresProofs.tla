------------------------------- MODULE StoresProofs -------------------------------
(***************************************************************************)
(* Proofs about the parts that MCStores instantiates, for any constants:   *)
(* first of a part's own specification, then of the one that a run checks, *)
(* whose steps are steps of its parts.  The last parts are about the relay *)
(* hub and the payment rail, which MCStores extends and which keep         *)
(* specifications of their own.                                            *)
(***************************************************************************)
EXTENDS MCStores, FiniteSetTheorems, SequenceTheorems, TLAPS

-----------------------------------------------------------------------------
(* Procurement.  An award and its bids are changed together in a copy of   *)
(* the file, so a file that agrees is copied into one that agrees.  What   *)
(* callers were told is in the file and in the next one, as long as calls  *)
(* do not overlap: there is only one next one.                             *)

RecordAgrees(r) ==
    /\ r.status = "awarded" =>
          \A a \in Agents : r.bid[a].status \in (IF a = r.selected THEN {"accepted"}
                                                 ELSE {"none", "rejected"})
    /\ r.status # "awarded" =>
          /\ r.selected = NoAgent
          /\ \A a \in Agents : r.bid[a].status \in {"none", "submitted"}

FileAgrees(f) == \A i \in Intents : RecordAgrees(f[i])

\* What a call tells a caller is so in file f.
Backed(x, f) ==
    /\ x.op = "create" => x.key # NoKey /\ f[x.intent].createKey = x.key
    /\ x.op = "accept" => f[x.intent].status = "awarded" /\ f[x.intent].selected = x.agent

KeysDiffer(f) ==
    \A i, j \in Intents : f[i].createKey = f[j].createKey /\ f[i].createKey # NoKey => i = j

DrawnOnly(f, us) == \A i \in Intents : f[i].status # "absent" \/ f[i].createKey # NoKey => i \in us

\* File f keeps what callers were told, ans.
Keeps(f, ans, us) ==
    /\ KeysDiffer(f)
    /\ DrawnOnly(f, us)
    /\ \A x \in ans : Backed(x, f)

BidsInOrder ==
    /\ \A j, k \in Callers : ~Bids!Quiet(j) /\ ~Bids!Quiet(k) => j = k
    /\ Keeps(pFile, pAnswers, pUsed)
    /\ \A k \in Callers :
          ~Bids!Quiet(k) => Keeps(pWrite[k].file, pAnswers \union pWrite[k].answers, pUsed)

BidsInv ==
    /\ Bids!TypeOK
    /\ pWrite = [k \in Callers |-> pWrite[k]]
    /\ FileAgrees(pFile)
    /\ \A k \in Callers : ~Bids!Quiet(k) => FileAgrees(pWrite[k].file)
    /\ ~pOverlapped => BidsInOrder

LEMMA BidsInit == Bids!Init => BidsInv
<1> SUFFICES ASSUME Bids!Init PROVE BidsInv
  OBVIOUS
<1>1. Bids!AbsentIntent \in Bids!IntentRecords
  BY DEF Bids!AbsentIntent, Bids!IntentRecords, Bids!NoBid, Bids!BidRecords, Bids!IntentStatuses,
         Bids!BidStatuses
<1>2. Bids!TypeOK
  <2>1. pFile \in Bids!Files
    BY <1>1 DEF Bids!Init, Bids!Files
  <2>2. pCalls \in 0..MaxCalls
    BY StoresAssumption DEF Bids!Init
  <2> QED BY <2>1, <2>2 DEF Bids!Init, Bids!TypeOK, Bids!Quiet
<1>3. RecordAgrees(Bids!AbsentIntent)
  BY DEF RecordAgrees, Bids!AbsentIntent, Bids!NoBid
<1>4. Keeps(pFile, pAnswers, pUsed)
  BY DEF Bids!Init, Bids!AbsentIntent, Keeps, KeysDiffer, DrawnOnly
<1> QED BY <1>2, <1>3, <1>4 DEF Bids!Init, BidsInv, FileAgrees, Bids!Quiet, BidsInOrder

\* A call that has loaded the file is about to save f, with one record changed.
LEMMA BidsStage ==
    ASSUME BidsInv, NEW k \in Callers, NEW i \in Intents, NEW r \in Bids!IntentRecords,
           NEW ans \in SUBSET Bids!Answers,
           Bids!Saves(k, [pFile EXCEPT ![i] = r], ans),
           pUsed \subseteq pUsed', pUsed' \subseteq Intents,
           RecordAgrees(r),
           ~pOverlapped /\ Keeps(pFile, pAnswers, pUsed)
              => Keeps([pFile EXCEPT ![i] = r], pAnswers \union ans, pUsed')
    PROVE  BidsInv'
<1> DEFINE f == [pFile EXCEPT ![i] = r]
<1> USE DEF Bids!Saves, Bids!Starts
<1>1. f \in Bids!Files
  BY DEF BidsInv, Bids!TypeOK, Bids!Files
<1>2. FileAgrees(f)
  BY DEF BidsInv, Bids!TypeOK, Bids!Files, FileAgrees
<1> HIDE DEF f
<1>3. pWrite' = [pWrite EXCEPT ![k] = [file |-> f, answers |-> ans]]
  BY DEF f
<1>4. \A j \in Callers : pWrite'[j] = IF j = k THEN [file |-> f, answers |-> ans] ELSE pWrite[j]
  BY <1>3 DEF BidsInv
<1>5. pWrite' = [j \in Callers |-> pWrite'[j]]
  BY <1>3 DEF BidsInv
<1>6. Bids!TypeOK'
  <2>1. pCalls' \in 0..MaxCalls
    BY StoresAssumption DEF BidsInv, Bids!TypeOK
  <2>2. pOverlapped' \in BOOLEAN
    OBVIOUS
  <2>3. \A j \in Callers : ~(Bids!Quiet(j))' => /\ pWrite'[j].file \in Bids!Files
                                                /\ pWrite'[j].answers \subseteq Bids!Answers
    BY <1>1, <1>4 DEF BidsInv, Bids!TypeOK, Bids!Quiet
  <2> QED BY <2>1, <2>2, <2>3 DEF BidsInv, Bids!TypeOK
<1>7. \A j \in Callers : ~(Bids!Quiet(j))' => FileAgrees(pWrite'[j].file)
  BY <1>2, <1>4 DEF BidsInv, Bids!Quiet
<1>8. ASSUME ~pOverlapped' PROVE BidsInOrder'
  <2>1. ~pOverlapped /\ \A j \in Callers : Bids!Quiet(j)
    BY <1>8 DEF BidsInv, Bids!TypeOK
  <2>2. Keeps(pFile, pAnswers, pUsed)
    BY <2>1 DEF BidsInv, BidsInOrder
  <2>3. Keeps(f, pAnswers \union ans, pUsed')
    BY <2>1, <2>2 DEF f
  <2>4. Keeps(pFile, pAnswers, pUsed')
    BY <2>2 DEF Keeps, DrawnOnly
  <2>5. \A j \in Callers \ {k} : pWrite'[j] = NoWrite
    BY <1>4, <2>1 DEF Bids!Quiet
  <2>6. \A j \in Callers : ~(Bids!Quiet(j))' => j = k
    BY <2>5 DEF Bids!Quiet
  <2>7. /\ pWrite'[k].file = f /\ pWrite'[k].answers = ans
        /\ pFile' = pFile /\ pAnswers' = pAnswers
    BY <1>4
  <2>8. Keeps(pFile', pAnswers', pUsed')
    BY <2>4, <2>7
  <2>9. Keeps(pWrite'[k].file, pAnswers' \union pWrite'[k].answers, pUsed')
    BY <2>3, <2>7
  <2> QED BY <2>6, <2>8, <2>9 DEF BidsInOrder
<1> QED BY <1>5, <1>6, <1>7, <1>8 DEF BidsInv, FileAgrees

\* A call that answers from the file.
LEMMA BidsAnswer ==
    ASSUME BidsInv, NEW k \in Callers, NEW ans \in SUBSET Bids!Answers,
           Bids!AnswersOnly(k, ans),
           \A x \in ans : Backed(x, pFile)
    PROVE  BidsInv'
<1> USE DEF Bids!AnswersOnly, Bids!Starts
<1>1. Bids!TypeOK'
  BY StoresAssumption DEF BidsInv, Bids!TypeOK, Bids!Quiet
<1>2. ASSUME ~pOverlapped' PROVE BidsInOrder'
  <2>1. ~pOverlapped /\ \A j \in Callers : Bids!Quiet(j)
    BY <1>2 DEF BidsInv, Bids!TypeOK
  <2> QED BY <2>1 DEF BidsInv, BidsInOrder, Keeps, Bids!Quiet, KeysDiffer, DrawnOnly, Backed
<1> QED BY <1>1, <1>2 DEF BidsInv, Bids!Quiet, FileAgrees, RecordAgrees

LEMMA BidsSave ==
    ASSUME BidsInv, NEW k \in Callers, Bids!Save(k)
    PROVE  BidsInv'
<1> USE DEF Bids!Save
<1>1. \A j \in Callers : pWrite'[j] = IF j = k THEN NoWrite ELSE pWrite[j]
  BY DEF BidsInv
<1>2. \A j \in Callers : ~(Bids!Quiet(j))' => ~Bids!Quiet(j) /\ pWrite'[j] = pWrite[j]
  BY <1>1 DEF Bids!Quiet
<1>3. Bids!TypeOK'
  <2>1. pFile' \in Bids!Files /\ pAnswers' \subseteq Bids!Answers
    BY DEF BidsInv, Bids!TypeOK
  <2> QED BY <1>2, <2>1 DEF BidsInv, Bids!TypeOK
<1>4. pWrite' = [j \in Callers |-> pWrite'[j]]
  BY DEF BidsInv
<1>5. FileAgrees(pFile')
  BY DEF BidsInv
<1>6. ASSUME ~pOverlapped' PROVE BidsInOrder'
  <2>1. BidsInOrder
    BY <1>6 DEF BidsInv
  <2>2. Keeps(pFile', pAnswers', pUsed')
    BY <2>1 DEF BidsInOrder
  <2>3. \A j \in Callers : (Bids!Quiet(j))'
    BY <1>1, <2>1 DEF BidsInOrder, Bids!Quiet
  <2> QED BY <2>2, <2>3 DEF BidsInOrder
<1>7. \A j \in Callers : ~(Bids!Quiet(j))' => FileAgrees(pWrite'[j].file)
  BY <1>2 DEF BidsInv
<1> HIDE DEF Bids!Save
<1> QED BY <1>3, <1>4, <1>5, <1>6, <1>7 DEF BidsInv

LEMMA BidsCrash ==
    ASSUME BidsInv, Bids!Crash
    PROVE  BidsInv'
<1> USE DEF Bids!Crash
<1>1. \A j \in Callers : (Bids!Quiet(j))'
  BY DEF Bids!Quiet
<1>2. \/ pFile' = pFile
      \/ \E k \in Callers : ~Bids!Quiet(k) /\ pFile' = pWrite[k].file
  OBVIOUS
<1>3. pFile' \in Bids!Files /\ FileAgrees(pFile')
  BY <1>2 DEF BidsInv, Bids!TypeOK
<1>4. Bids!TypeOK'
  BY <1>1, <1>3 DEF BidsInv, Bids!TypeOK
<1>5. ASSUME ~pOverlapped' PROVE Keeps(pFile', pAnswers', pUsed')
  <2>1. ASSUME NEW k \in Callers, ~Bids!Quiet(k)
        PROVE  Keeps(pWrite[k].file, pAnswers, pUsed)
    BY <1>5, <2>1 DEF BidsInv, BidsInOrder, Keeps
  <2>2. Keeps(pFile, pAnswers, pUsed)
    BY <1>5 DEF BidsInv, BidsInOrder
  <2> QED BY <1>2, <2>1, <2>2
<1>6. pWrite' = [k \in Callers |-> pWrite'[k]]
  OBVIOUS
<1> HIDE DEF Bids!Crash
<1> QED BY <1>1, <1>3, <1>4, <1>5, <1>6 DEF BidsInv, BidsInOrder

\* The calls that stage a change.
LEMMA BidsCreate ==
    ASSUME BidsInv, NEW k \in Callers, NEW i \in Intents, NEW key \in Keys \union {NoKey},
           Bids!Create(k, i, key)
    PROVE  BidsInv'
<1>1. pFile \in Bids!Files /\ pUsed \subseteq Intents
  BY DEF BidsInv, Bids!TypeOK
<1>2. BidsInv'
  <2> DEFINE r == [Bids!AbsentIntent EXCEPT !.status = "open", !.createKey = key]
             ans == Bids!Created(key, i)
  <2>1. /\ r \in Bids!IntentRecords
        /\ r.status = "open" /\ r.createKey = key /\ r.selected = NoAgent
        /\ \A b \in Agents : r.bid[b].status = "none"
    BY DEF Bids!AbsentIntent, Bids!IntentRecords, Bids!NoBid, Bids!BidRecords,
           Bids!IntentStatuses, Bids!BidStatuses
  <2>2. ans \in SUBSET Bids!Answers
    BY DEF Bids!Created, Bids!Answers
  <2>3. /\ i \notin pUsed /\ pUsed' = pUsed \union {i}
        /\ key = NoKey \/ \A o \in Intents : pFile[o].createKey # key
        /\ Bids!Saves(k, [pFile EXCEPT ![i] = r], ans)
    BY DEF Bids!Create
  <2>4. \A x \in ans : x = [op |-> "create", key |-> key, intent |-> i] /\ key # NoKey
    BY DEF Bids!Created
  <2> HIDE DEF r, ans
  <2>5. ASSUME Keeps(pFile, pAnswers, pUsed)
        PROVE  Keeps([pFile EXCEPT ![i] = r], pAnswers \union ans, pUsed')
    <3>1. \A j \in Intents : [pFile EXCEPT ![i] = r][j] = IF j = i THEN r ELSE pFile[j]
      BY <1>1 DEF Bids!Files
    <3> DEFINE f == [pFile EXCEPT ![i] = r]
    <3> HIDE DEF f
    <3>2. \A j \in Intents : f[j] = IF j = i THEN r ELSE pFile[j]
      BY <3>1 DEF f
    <3>3. pFile[i].createKey = NoKey /\ pFile[i].status = "absent"
      BY <2>3, <2>5 DEF Keeps, DrawnOnly
    <3>4. KeysDiffer(f)
      BY <2>1, <2>3, <2>5, <3>2 DEF Keeps, KeysDiffer
    <3>5. DrawnOnly(f, pUsed')
      BY <2>1, <2>3, <2>5, <3>2 DEF Keeps, DrawnOnly
    <3>6. \A x \in ans : Backed(x, f)
      BY <2>1, <2>4, <3>2 DEF Backed
    <3>7. ASSUME NEW x \in pAnswers PROVE Backed(x, f)
      <4>1. Backed(x, pFile)
        BY <2>5 DEF Keeps
      <4>2. (x.op = "create" \/ x.op = "accept") /\ x.intent \in Intents
        BY DEF BidsInv, Bids!TypeOK, Bids!Answers
      <4>3. x.intent # i
        BY <3>3, <4>1, <4>2 DEF Backed
      <4> QED BY <3>2, <4>1, <4>2, <4>3 DEF Backed
    <3> QED BY <3>4, <3>5, <3>6, <3>7 DEF Keeps, f
  <2>6. RecordAgrees(r)
    BY <2>1 DEF RecordAgrees
  <2> QED BY <1>1, <2>1, <2>2, <2>3, <2>5, <2>6, BidsStage
<1> QED BY <1>2

LEMMA BidsChange ==
    ASSUME BidsInv, NEW k \in Callers, NEW i \in Intents, NEW key \in Keys \union {NoKey},
           NEW a \in Agents,
           Bids!Bid(k, i, a, key) \/ Bids!Decline(k, i, a, key) \/ Bids!Accept(k, i, a)
    PROVE  BidsInv'
<1>1. pFile \in Bids!Files /\ pFile[i] \in Bids!IntentRecords /\ RecordAgrees(pFile[i])
      /\ pUsed \subseteq Intents
  BY DEF BidsInv, Bids!TypeOK, Bids!Files, FileAgrees
<1>3. ASSUME NEW r \in Bids!IntentRecords, NEW ans \in SUBSET Bids!Answers,
             Bids!Saves(k, [pFile EXCEPT ![i] = r], ans), pUsed' = pUsed,
             RecordAgrees(r),
             r.createKey = pFile[i].createKey,
             pFile[i].status # "absent",
             pFile[i].status = "awarded"
                => r.status = "awarded" /\ r.selected = pFile[i].selected,
             \A x \in ans : /\ x.op = "accept" /\ x.intent = i
                            /\ r.status = "awarded" /\ r.selected = x.agent
      PROVE  BidsInv'
  <2>1. ASSUME Keeps(pFile, pAnswers, pUsed)
        PROVE  Keeps([pFile EXCEPT ![i] = r], pAnswers \union ans, pUsed')
    <3> DEFINE f == [pFile EXCEPT ![i] = r]
    <3>1. \A j \in Intents : f[j] = IF j = i THEN r ELSE pFile[j]
      BY <1>1 DEF Bids!Files
    <3> HIDE DEF f
    <3>2. KeysDiffer(f)
      BY <1>3, <2>1, <3>1 DEF Keeps, KeysDiffer
    <3>3. DrawnOnly(f, pUsed')
      BY <1>3, <2>1, <3>1 DEF Keeps, DrawnOnly
    <3>4. \A x \in ans : Backed(x, f)
      BY <1>3, <3>1 DEF Backed
    <3>5. ASSUME NEW x \in pAnswers PROVE Backed(x, f)
      <4>1. Backed(x, pFile)
        BY <2>1 DEF Keeps
      <4>2. x.intent \in Intents
        BY DEF BidsInv, Bids!TypeOK, Bids!Answers
      <4> QED BY <1>3, <3>1, <4>1, <4>2 DEF Backed
    <3> QED BY <3>2, <3>3, <3>4, <3>5 DEF Keeps, f
  <2> QED BY <1>1, <1>3, <2>1, BidsStage
<1>4. CASE Bids!Bid(k, i, a, key)
  <2> DEFINE old == pFile[i].bid[a]
             bid == [status |-> "submitted", key |-> IF key = NoKey THEN old.key ELSE key]
             r == [[pFile[i] EXCEPT !.bid[a] = bid] EXCEPT !.decline[a] = "none"]
  <2>1. bid \in Bids!BidRecords /\ bid.status = "submitted"
    BY <1>1 DEF Bids!IntentRecords, Bids!BidRecords, Bids!BidStatuses
  <2> HIDE DEF bid
  <2>2. /\ r \in Bids!IntentRecords
        /\ r.createKey = pFile[i].createKey /\ r.status = pFile[i].status
        /\ r.selected = pFile[i].selected
        /\ \A b \in Agents : r.bid[b] = IF b = a THEN bid ELSE pFile[i].bid[b]
    BY <1>1, <2>1 DEF Bids!IntentRecords
  <2>3. pFile[i].status = "open"
    BY <1>4 DEF Bids!Bid
  <2>4. RecordAgrees(r)
    BY <1>1, <2>1, <2>2, <2>3 DEF RecordAgrees
  <2>5. [pFile EXCEPT ![i].bid[a] = bid, ![i].decline[a] = "none"] = [pFile EXCEPT ![i] = r]
    BY <1>1 DEF Bids!Files
  <2>6. Bids!Saves(k, [pFile EXCEPT ![i].bid[a] = bid, ![i].decline[a] = "none"], {})
        /\ pUsed' = pUsed
    BY <1>4 DEF Bids!Bid, bid
  <2>7. Bids!Saves(k, [pFile EXCEPT ![i] = r], {})
    BY <2>5, <2>6
  <2> HIDE DEF r
  <2> QED BY <1>3, <2>2, <2>3, <2>4, <2>6, <2>7
<1>5. CASE Bids!Decline(k, i, a, key)
  <2> DEFINE r == [pFile[i] EXCEPT !.decline[a] = key]
  <2>1. /\ r \in Bids!IntentRecords
        /\ r.createKey = pFile[i].createKey /\ r.status = pFile[i].status
        /\ r.selected = pFile[i].selected /\ r.bid = pFile[i].bid
    BY <1>1 DEF Bids!IntentRecords
  <2>2. pFile[i].status # "absent" /\ pUsed' = pUsed
        /\ Bids!Saves(k, [pFile EXCEPT ![i] = r], {})
    BY <1>1, <1>5 DEF Bids!Decline, Bids!Files
  <2>3. RecordAgrees(r)
    BY <1>1, <2>1 DEF RecordAgrees
  <2> HIDE DEF r
  <2> QED BY <1>3, <2>1, <2>2, <2>3
<1>6. CASE Bids!Accept(k, i, a)
  <2> DEFINE bids == [o \in Agents |-> [pFile[i].bid[o] EXCEPT !.status =
                        IF o = a THEN "accepted" ELSE IF @ = "none" THEN "none" ELSE "rejected"]]
             r == [pFile[i] EXCEPT !.status = "awarded", !.selected = a, !.bid = bids]
  <2>1. /\ bids \in [Agents -> Bids!BidRecords]
        /\ \A b \in Agents : bids[b].status \in (IF b = a THEN {"accepted"}
                                                 ELSE {"none", "rejected"})
    BY <1>1 DEF Bids!IntentRecords, Bids!BidRecords, Bids!BidStatuses
  <2>2. pFile[i].status = "open" /\ pUsed' = pUsed
        /\ Bids!Saves(k, [pFile EXCEPT ![i].status = "awarded", ![i].selected = a,
                                       ![i].bid = bids], Bids!Awarded(i, a))
    BY <1>6 DEF Bids!Accept
  <2> HIDE DEF bids
  <2>3. /\ r \in Bids!IntentRecords
        /\ r.createKey = pFile[i].createKey /\ r.status = "awarded"
        /\ r.selected = a /\ r.bid = bids
    BY <1>1, <2>1 DEF Bids!IntentRecords, Bids!IntentStatuses
  <2>4. RecordAgrees(r)
    BY <2>1, <2>3 DEF RecordAgrees
  <2>5. [pFile EXCEPT ![i].status = "awarded", ![i].selected = a, ![i].bid = bids]
          = [pFile EXCEPT ![i] = r]
    BY <1>1 DEF Bids!Files
  <2>6. Bids!Saves(k, [pFile EXCEPT ![i] = r], Bids!Awarded(i, a))
    BY <2>2, <2>5
  <2>7. Bids!Awarded(i, a) \in SUBSET Bids!Answers
        /\ \A x \in Bids!Awarded(i, a) : x.op = "accept" /\ x.intent = i /\ x.agent = a
    BY DEF Bids!Awarded, Bids!Answers
  <2> HIDE DEF r
  <2> QED BY <1>3, <2>2, <2>3, <2>4, <2>6, <2>7
<1> QED BY <1>4, <1>5, <1>6

LEMMA BidsNext ==
    ASSUME BidsInv, [Bids!Next]_pVars
    PROVE  BidsInv'
<1>1. CASE UNCHANGED pVars
  BY <1>1 DEF pVars, BidsInv, BidsInOrder, Bids!TypeOK, Bids!Quiet, FileAgrees, RecordAgrees,
              Keeps, KeysDiffer, DrawnOnly, Backed
<1>2. ASSUME NEW k \in Callers, NEW i \in Intents, NEW key \in Keys \union {NoKey},
             Bids!CreateAgain(k, i, key)
      PROVE  BidsInv'
  <2>1. Bids!Created(key, i) \in SUBSET Bids!Answers
    BY DEF Bids!Created, Bids!Answers
  <2>2. \A x \in Bids!Created(key, i) : Backed(x, pFile)
    BY <1>2 DEF Bids!CreateAgain, Bids!Created, Backed
  <2> QED BY <1>2, <2>1, <2>2, BidsAnswer DEF Bids!CreateAgain
<1>3. ASSUME NEW k \in Callers, NEW i \in Intents, NEW a \in Agents, Bids!AcceptAgain(k, i, a)
      PROVE  BidsInv'
  <2>1. Bids!Awarded(i, a) \in SUBSET Bids!Answers
    BY DEF Bids!Awarded, Bids!Answers
  <2>2. \A x \in Bids!Awarded(i, a) : Backed(x, pFile)
    BY <1>3 DEF Bids!AcceptAgain, Bids!Awarded, Backed
  <2> QED BY <1>3, <2>1, <2>2, BidsAnswer DEF Bids!AcceptAgain
<1> QED BY <1>1, <1>2, <1>3, BidsCreate, BidsChange, BidsSave, BidsCrash DEF Bids!Next, Bids!Call

LEMMA BidsHold ==
    ASSUME BidsInv
    PROVE  Bids!AwardMatchesBids /\ Bids!AnswersAgree
<1>1. Bids!AwardMatchesBids
  BY DEF BidsInv, FileAgrees, RecordAgrees, Bids!AwardMatchesBids
<1>2. Bids!AnswersAgree
  <2>1. SUFFICES ASSUME ~pOverlapped, NEW x \in pAnswers, NEW y \in pAnswers
        PROVE  /\ x.op = "create" /\ y.op = "create" /\ x.key = y.key => x.intent = y.intent
               /\ x.op = "accept" /\ y.op = "accept" /\ x.intent = y.intent
                     => x.agent = y.agent
    BY DEF Bids!AnswersAgree
  <2>2. Backed(x, pFile) /\ Backed(y, pFile) /\ KeysDiffer(pFile)
    BY <2>1 DEF BidsInv, BidsInOrder, Keeps
  <2>3. x.intent \in Intents /\ y.intent \in Intents
    BY DEF BidsInv, Bids!TypeOK, Bids!Answers
  <2> QED BY <2>2, <2>3 DEF Backed, KeysDiffer
<1> QED BY <1>1, <1>2

\* In Procurement by itself: an award, its bids and what callers were told agree
\* (acceptProcurementBid, createProcurementIntent), whatever saves overtake each other.
THEOREM BidsAgree == Bids!Spec => [](Bids!TypeOK /\ Bids!AwardMatchesBids /\ Bids!AnswersAgree)
<1>1. BidsInv => Bids!TypeOK /\ Bids!AwardMatchesBids /\ Bids!AnswersAgree
  BY BidsHold DEF BidsInv
<1>2. Bids!Spec => []BidsInv
  BY BidsInit, BidsNext, PTL DEF Bids!Spec, pVars, Bids!vars
<1> QED BY <1>1, <1>2, PTL

LEMMA StoresBidsInit == StoresInit => BidsInv
  BY BidsInit DEF StoresInit

LEMMA StoresBidsStep ==
    ASSUME BidsInv, [StoresNext]_allVars
    PROVE  BidsInv'
<1>1. [Bids!Next]_pVars
  BY DEF StoresNext, allVars, pVars
<1> QED BY <1>1, BidsNext

\* An awarded intent has one accepted bid, that of the agent it names, and none still open,
\* also when a copy made before the award is saved over it; and as long as calls do not
\* overlap, a key is answered with one intent and an intent with one bid to hire
\* (createProcurementIntent, submitProcurementBid, acceptProcurementBid).
THEOREM AwardsAgreeAlways == StoresSpec => []AwardsAgree
<1>1. BidsInv => AwardsAgree
  BY BidsHold DEF BidsInv, AwardsAgree
<1>2. StoresSpec => []BidsInv
  BY StoresBidsInit, StoresBidsStep, PTL DEF StoresSpec
<1> QED BY <1>1, <1>2, PTL

-----------------------------------------------------------------------------
(* Heartbeats.  A record on file, in a copy about to be saved or in a       *)
(* stamped task has asked for its lease, and the longest lease asked for    *)
(* only grows: an older copy saved late brings back no longer lease.        *)

LeasedIn(f, l) ==
    \A a \in Agents :
       f[a] # NoRecord /\ f[a].status = "live" => f[a].at + f[a].ttl <= l[a]

BeatsInv ==
    /\ Beats!TypeOK
    /\ hWrite = [k \in Callers |-> hWrite[k]]
    /\ lease \in [Agents -> Int]
    /\ \A k \in Callers : hTask[k].pc # "idle" => hTask[k].hb.agent \in Agents
    /\ \A k \in Callers :
          hTask[k].pc = "stamped" /\ hTask[k].hb.status = "live" =>
             hTask[k].at + Beats!ClampTtl(hTask[k].hb.ttl) <= lease[hTask[k].hb.agent]
    /\ LeasedIn(hFile, lease)
    /\ \A k \in Callers : hWrite[k] # NoWrite => LeasedIn(hWrite[k], lease)

LEMMA ClampTtlRange ==
    ASSUME NEW ttl \in Nat
    PROVE  /\ Beats!ClampTtl(ttl) \in MinTtl..MaxTtl
           /\ ttl \in MinTtl..MaxTtl => Beats!ClampTtl(ttl) = ttl
  BY StoresAssumption DEF Beats!ClampTtl

LEMMA BeatsIdle == Beats!Idle \in Beats!TaskRecords /\ Beats!Idle.pc = "idle"
<1>1. 0 \in Beats!Times /\ 0 \in Nat
  BY StoresAssumption DEF Beats!Times
<1> QED BY <1>1 DEF Beats!Idle, Beats!TaskRecords, Beats!NoHeartbeat, Beats!Heartbeat,
                    Beats!Statuses, Beats!Probes

LEMMA BeatsInit == Beats!Init => BeatsInv
<1> SUFFICES ASSUME Beats!Init PROVE BeatsInv
  OBVIOUS
<1> USE DEF Beats!Init
<1>1. Beats!TypeOK
  <2>1. now \in Beats!Times /\ beats \in 0..MaxBeats
    BY StoresAssumption DEF Beats!Times
  <2> QED BY <2>1, BeatsIdle DEF Beats!TypeOK, Beats!Files
<1>2. lease \in [Agents -> Int] /\ LeasedIn(hFile, lease)
  BY DEF LeasedIn
<1>3. \A k \in Callers : hTask[k].pc = "idle" /\ hWrite[k] = NoWrite
  BY BeatsIdle
<1>4. hWrite = [k \in Callers |-> hWrite[k]]
  OBVIOUS
<1> HIDE DEF Beats!Init
<1> QED BY <1>1, <1>2, <1>3, <1>4 DEF BeatsInv

LEMMA BeatsArrive ==
    ASSUME BeatsInv, NEW k \in Callers, NEW hb \in Beats!Heartbeat, hb.agent \in Agents,
           Beats!Arrives(k, hb), connected' \subseteq RelayAgents
    PROVE  BeatsInv'
<1> USE DEF Beats!Arrives
<1> DEFINE t == [Beats!Idle EXCEPT !.pc = "arrived", !.hb = hb]
<1>1. t \in Beats!TaskRecords /\ t.pc = "arrived" /\ t.hb = hb
  BY BeatsIdle DEF Beats!TaskRecords
<1> HIDE DEF t
<1>2. hTask' \in [Callers -> Beats!TaskRecords]
      /\ \A j \in Callers : hTask'[j] = IF j = k THEN t ELSE hTask[j]
  BY <1>1 DEF BeatsInv, Beats!TypeOK, t
<1>3. Beats!TypeOK'
  <2>1. beats' \in 0..MaxBeats
    BY StoresAssumption DEF BeatsInv, Beats!TypeOK
  <2>2. hOverlapped' \in BOOLEAN
    OBVIOUS
  <2> QED BY <1>2, <2>1, <2>2 DEF BeatsInv, Beats!TypeOK
<1>4. lease' = lease /\ hFile' = hFile /\ hWrite' = hWrite
  OBVIOUS
<1> HIDE DEF Beats!Arrives
<1> QED BY <1>1, <1>2, <1>3, <1>4 DEF BeatsInv, LeasedIn

LEMMA BeatsStamp ==
    ASSUME BeatsInv, NEW k \in Callers, Beats!Stamp(k)
    PROVE  BeatsInv'
<1> DEFINE hb == hTask[k].hb
           end == now + Beats!ClampTtl(hb.ttl)
           a == hb.agent
<1>1. /\ hTask[k].pc = "arrived" /\ hb \in Beats!Heartbeat /\ a \in Agents
      /\ hTask[k] \in Beats!TaskRecords /\ now \in Nat /\ now \in Beats!Times
  BY StoresAssumption DEF BeatsInv, Beats!TypeOK, Beats!TaskRecords, Beats!Stamp, Beats!Times
<1>2. hb.ttl \in Nat
  BY <1>1 DEF Beats!Heartbeat
<1>3. end \in Int
  BY <1>1, <1>2, ClampTtlRange, StoresAssumption
<1>4. /\ hTask' = [hTask EXCEPT ![k].pc = "stamped", ![k].at = now]
      /\ lease' = [lease EXCEPT ![a] = IF hb.status = "live" /\ end > @ THEN end ELSE @]
      /\ UNCHANGED <<hFile, hWrite, connected, now, hOverlapped, beats>>
  BY DEF Beats!Stamp
<1>5. \A j \in Callers \ {k} : hTask'[j] = hTask[j]
  BY <1>4 DEF BeatsInv, Beats!TypeOK
<1>6. hTask'[k].pc = "stamped" /\ hTask'[k].at = now /\ hTask'[k].hb = hb
      /\ hTask' \in [Callers -> Beats!TaskRecords]
  BY <1>1, <1>4 DEF BeatsInv, Beats!TypeOK, Beats!TaskRecords
<1>7. Beats!TypeOK'
  BY <1>4, <1>6 DEF BeatsInv, Beats!TypeOK
<1> HIDE DEF end
<1>8. /\ lease' \in [Agents -> Int]
      /\ \A b \in Agents : lease'[b] >= lease[b]
      /\ hb.status = "live" => lease'[a] >= end
  BY <1>1, <1>3, <1>4 DEF BeatsInv
<1>9. \A f \in Beats!Files : LeasedIn(f, lease) => LeasedIn(f, lease')
  <2>1. SUFFICES ASSUME NEW f \in Beats!Files, LeasedIn(f, lease), NEW b \in Agents,
                        f[b] # NoRecord, f[b].status = "live"
                 PROVE  f[b].at + f[b].ttl <= lease'[b]
    BY DEF LeasedIn
  <2>2. f[b].at + f[b].ttl <= lease[b] /\ f[b].at \in Int /\ f[b].ttl \in Int
    BY <2>1, StoresAssumption DEF LeasedIn, Beats!Files, Beats!Records, Beats!Times
  <2>3. lease[b] \in Int /\ lease'[b] \in Int /\ lease'[b] >= lease[b]
    BY <1>8 DEF BeatsInv
  <2> QED BY <2>2, <2>3
<1>10. ASSUME NEW j \in Callers, hTask'[j].pc # "idle" PROVE hTask'[j].hb.agent \in Agents
  BY <1>1, <1>5, <1>6, <1>10 DEF BeatsInv
<1>11. ASSUME NEW j \in Callers, hTask'[j].pc = "stamped", hTask'[j].hb.status = "live"
       PROVE  hTask'[j].at + Beats!ClampTtl(hTask'[j].hb.ttl) <= lease'[hTask'[j].hb.agent]
  <2>1. CASE j = k
    <3>1. end <= lease'[a]
      BY <1>3, <1>6, <1>8, <1>11, <1>1, <2>1
    <3> QED BY <1>6, <2>1, <3>1 DEF end
  <2>2. CASE j # k
    <3>1. /\ hTask[j].hb.agent \in Agents
          /\ hTask[j].at + Beats!ClampTtl(hTask[j].hb.ttl) <= lease[hTask[j].hb.agent]
          /\ hTask[j].at \in Int /\ hTask[j].hb.ttl \in Nat
      BY <1>5, <1>11, <2>2 DEF BeatsInv, Beats!TypeOK, Beats!TaskRecords, Beats!Heartbeat,
                               Beats!Times
    <3>2. Beats!ClampTtl(hTask[j].hb.ttl) \in Int
      BY <3>1, ClampTtlRange, StoresAssumption
    <3>3. lease'[hTask[j].hb.agent] >= lease[hTask[j].hb.agent]
          /\ lease[hTask[j].hb.agent] \in Int /\ lease'[hTask[j].hb.agent] \in Int
      BY <1>8, <3>1 DEF BeatsInv
    <3> QED BY <1>5, <2>2, <3>1, <3>2, <3>3
  <2> QED BY <2>1, <2>2
<1>12. LeasedIn(hFile', lease')
       /\ \A j \in Callers : hWrite'[j] # NoWrite => LeasedIn(hWrite'[j], lease')
  BY <1>4, <1>9 DEF BeatsInv, Beats!TypeOK
<1>13. hWrite' = [j \in Callers |-> hWrite'[j]]
  BY <1>4 DEF BeatsInv
<1> QED BY <1>7, <1>8, <1>10, <1>11, <1>12, <1>13 DEF BeatsInv

LEMMA BeatsRecord ==
    ASSUME BeatsInv, NEW k \in Callers, Beats!Record(k)
    PROVE  BeatsInv'
<1> DEFINE hb == hTask[k].hb
           a == hb.agent
           old == hFile[a]
           new == Beats!NextRecord(old, hb, hTask[k].at)
           f == [hFile EXCEPT ![a] = new]
<1>1. /\ hTask[k].pc = "stamped" /\ hb \in Beats!Heartbeat /\ a \in Agents
      /\ hTask[k] \in Beats!TaskRecords /\ hTask[k].at \in Beats!Times
      /\ old \in Beats!Records \union {NoRecord}
  BY DEF BeatsInv, Beats!TypeOK, Beats!TaskRecords, Beats!Record, Beats!Files
<1>2. hb.ttl \in Nat /\ hb.probe \in Beats!Probes /\ hb.status \in Beats!Statuses
  BY <1>1 DEF Beats!Heartbeat
<1>3. /\ new \in Beats!Records
      /\ new.status = hb.status /\ new.at = hTask[k].at /\ new.ttl = Beats!ClampTtl(hb.ttl)
  <2>1. Beats!ClampTtl(hb.ttl) \in MinTtl..MaxTtl
    BY <1>2, ClampTtlRange
  <2>2. (IF hb.probe = "none" /\ old # NoRecord THEN old.probe ELSE hb.probe) \in Beats!Probes
    BY <1>1, <1>2 DEF Beats!Records
  <2> QED BY <1>1, <1>2, <2>1, <2>2 DEF Beats!NextRecord, Beats!Records
<1>4. /\ hTask' = [hTask EXCEPT ![k] = Beats!Idle]
      /\ hWrite' = [hWrite EXCEPT ![k] = IF Beats!CanCoalesce(old, new) THEN NoWrite ELSE f]
      /\ UNCHANGED <<hFile, connected, now, last, lease, hOverlapped, beats>>
  BY DEF Beats!Record
<1> HIDE DEF new
<1>5. f \in Beats!Files /\ \A b \in Agents : f[b] = IF b = a THEN new ELSE hFile[b]
  BY <1>1, <1>3 DEF BeatsInv, Beats!TypeOK, Beats!Files
<1> HIDE DEF f
<1>6. new.status = "live" => new.at + new.ttl <= lease[a]
  BY <1>1, <1>3 DEF BeatsInv
<1>7. LeasedIn(f, lease)
  BY <1>5, <1>6 DEF BeatsInv, LeasedIn
<1>9. /\ hTask' \in [Callers -> Beats!TaskRecords]
      /\ \A j \in Callers : hTask'[j] = IF j = k THEN Beats!Idle ELSE hTask[j]
  BY <1>4, BeatsIdle DEF BeatsInv, Beats!TypeOK
<1>10. /\ hWrite' = [j \in Callers |-> hWrite'[j]]
       /\ \A j \in Callers : hWrite'[j] = hWrite[j] \/ hWrite'[j] = NoWrite \/ hWrite'[j] = f
  BY <1>4 DEF BeatsInv
<1>11. Beats!TypeOK'
  <2>1. \A j \in Callers : hWrite'[j] \in Beats!Files \union {NoWrite}
    BY <1>5, <1>10 DEF BeatsInv, Beats!TypeOK
  <2> QED BY <1>4, <1>9, <2>1 DEF BeatsInv, Beats!TypeOK
<1>12. \A j \in Callers : hWrite'[j] # NoWrite => LeasedIn(hWrite'[j], lease)
  BY <1>7, <1>10 DEF BeatsInv
<1>13. LeasedIn(hFile, lease) /\ hFile' = hFile /\ lease' = lease
  BY <1>4 DEF BeatsInv
<1> QED BY BeatsIdle, <1>9, <1>10, <1>11, <1>12, <1>13 DEF BeatsInv

LEMMA BeatsNext ==
    ASSUME BeatsInv, [Beats!Next]_hVars
    PROVE  BeatsInv'
<1>1. CASE UNCHANGED hVars
  BY <1>1 DEF hVars, BeatsInv, Beats!TypeOK
<1>2. ASSUME NEW k \in Callers, NEW hb \in Posts, Beats!Post(k, hb)
      PROVE  BeatsInv'
  BY <1>2, StoresAssumption, BeatsArrive DEF Beats!Post, BeatsInv, Beats!TypeOK
<1>3. ASSUME NEW k \in Callers, NEW a \in Agents,
             Beats!RelayConnected(k, a) \/ Beats!RelayDisconnected(k, a)
      PROVE  BeatsInv'
  <2>1. PICK s \in {"live", "waiting"} :
           Beats!Arrives(k, [agent |-> a, status |-> s, ttl |-> DefaultTtl, probe |-> "none"])
    BY <1>3 DEF Beats!RelayConnected, Beats!RelayDisconnected
  <2>2. [agent |-> a, status |-> s, ttl |-> DefaultTtl, probe |-> "none"] \in Beats!Heartbeat
    BY StoresAssumption DEF Beats!Heartbeat, Beats!Statuses, Beats!Probes
  <2>3. connected' \subseteq RelayAgents
    BY <1>3 DEF Beats!RelayConnected, Beats!RelayDisconnected, BeatsInv, Beats!TypeOK
  <2> QED BY <2>1, <2>2, <2>3, BeatsArrive
<1>4. ASSUME NEW k \in Callers, Beats!Save(k) PROVE BeatsInv'
  <2>1. /\ hWrite[k] \in Beats!Files /\ LeasedIn(hWrite[k], lease)
        /\ hFile' = hWrite[k] /\ hWrite' = [hWrite EXCEPT ![k] = NoWrite]
        /\ UNCHANGED <<hTask, connected, now, last, lease, hOverlapped, beats>>
    BY <1>4 DEF Beats!Save, BeatsInv, Beats!TypeOK
  <2>2. /\ hWrite' = [j \in Callers |-> hWrite'[j]]
        /\ \A j \in Callers : hWrite'[j] = hWrite[j] \/ hWrite'[j] = NoWrite
    BY <2>1 DEF BeatsInv
  <2>3. Beats!TypeOK'
    BY <2>1, <2>2 DEF BeatsInv, Beats!TypeOK
  <2>4. \A j \in Callers : hWrite'[j] # NoWrite => LeasedIn(hWrite'[j], lease')
    BY <2>1, <2>2 DEF BeatsInv
  <2> QED BY <2>1, <2>2, <2>3, <2>4 DEF BeatsInv
<1>5. CASE Beats!Tick
  <2>1. now' \in Beats!Times
    BY <1>5, StoresAssumption DEF Beats!Tick, Beats!Times, BeatsInv, Beats!TypeOK
  <2> QED BY <1>5, <2>1 DEF Beats!Tick, BeatsInv, Beats!TypeOK
<1> QED BY <1>1, <1>2, <1>3, <1>4, <1>5, BeatsStamp, BeatsRecord DEF Beats!Next

LEMMA BeatsHold ==
    ASSUME BeatsInv
    PROVE  Beats!PaidOnALease
<1>1. SUFFICES ASSUME NEW a \in Agents \ RelayAgents, Beats!SafeToPay(a)
               PROVE  now + MinFresh <= lease[a]
  BY DEF Beats!PaidOnALease
<1>2. /\ hFile[a] # NoRecord /\ hFile[a].status = "live"
      /\ Beats!StaleAt(hFile[a]) - now >= MinFresh
  BY <1>1 DEF Beats!SafeToPay, Beats!Reachable, Beats!EffectiveStaleAt, Beats!RelayBacked,
              Beats!Status
<1>3. hFile[a] \in Beats!Records
  BY <1>2 DEF BeatsInv, Beats!TypeOK, Beats!Files
<1>4. hFile[a].ttl \in MinTtl..MaxTtl /\ hFile[a].ttl \in Nat /\ hFile[a].at \in Nat
      /\ now \in Nat /\ lease[a] \in Int /\ MinFresh \in Int
  BY <1>3, StoresAssumption DEF Beats!Records, Beats!Times, BeatsInv, Beats!TypeOK
<1>5. Beats!StaleAt(hFile[a]) = hFile[a].at + hFile[a].ttl
  BY <1>4, ClampTtlRange DEF Beats!StaleAt
<1>6. hFile[a].at + hFile[a].ttl <= lease[a]
  BY <1>2 DEF BeatsInv, LeasedIn
<1> QED BY <1>2, <1>4, <1>5, <1>6

\* In Heartbeats by itself: no payment without a lease (heartbeatPaymentSafety).
THEOREM BeatsArePaidOnALease == Beats!Spec => [](Beats!TypeOK /\ Beats!PaidOnALease)
<1>1. BeatsInv => Beats!TypeOK /\ Beats!PaidOnALease
  BY BeatsHold DEF BeatsInv
<1>2. Beats!Spec => []BeatsInv
  BY BeatsInit, BeatsNext, PTL DEF Beats!Spec, hVars, Beats!vars
<1> QED BY <1>1, <1>2, PTL

LEMMA StoresBeatsStep ==
    ASSUME BeatsInv, [StoresNext]_allVars
    PROVE  BeatsInv'
<1>1. [Beats!Next]_hVars
  BY DEF StoresNext, allVars, hVars
<1> QED BY <1>1, BeatsNext

\* A self-hosted agent is safe to pay only while a lease that it asked for by a live
\* heartbeat lasts, in whatever order heartbeats are stamped and saved, and when an old
\* copy of the file is saved over a newer one (heartbeatPaymentSafety).
THEOREM PaidOnALeaseAlways == StoresSpec => []PaidOnALease
<1>1. BeatsInv => PaidOnALease
  BY BeatsHold DEF BeatsInv, PaidOnALease
<1>2. StoresInit => BeatsInv
  BY BeatsInit DEF StoresInit
<1>3. StoresSpec => []BeatsInv
  BY <1>2, StoresBeatsStep, PTL DEF StoresSpec
<1> QED BY <1>1, <1>3, PTL

-----------------------------------------------------------------------------
(* The read caches.  A refresh whose epoch has not ended since it was       *)
(* launched reads all that was answered before that epoch began, so what    *)
(* becomes the entry, and what a read that joined it is answered with, is   *)
(* no older than the last write that was answered.                          *)

RefreshRecords == [pc : {"unused", "queued", "running", "has_read"}, epoch : Nat, value : Nat]
WriteRecords == [pc : {"idle", "saved", "built", "cached", "done"}, kind : Cache!Kinds,
                 number : Nat, answer : Nat]
ReadRecords == [pc : {"idle", "waiting", "answered", "failed"}, on : Refreshes \union {NoRefresh},
                value : Nat, fresh : BOOLEAN, since : [clearing : Nat, retry : Nat]]
Entries == [value : Nat, age : {"fresh", "retained"}]

RefreshTypes ==
    /\ refresh \in [Refreshes -> RefreshRecords]
    /\ \A f \in Refreshes : refresh[f].epoch <= epoch /\ refresh[f].value <= data
    /\ inflight \in Refreshes \union {NoRefresh}
    /\ queue \in Seq(Refreshes)

EntryTypes == entry = NoEntry \/ (entry \in Entries /\ entry.value <= data)

ReadTypes ==
    /\ read \in [Readers -> ReadRecords]
    /\ \A r \in Readers : read[r].since.clearing <= data

WriteTypes ==
    /\ rWrite \in [Writers -> WriteRecords]
    /\ \A w \in Writers :
          /\ rWrite[w].number <= data /\ rWrite[w].answer <= data
          /\ rWrite[w].pc \in {"built", "cached"} => rWrite[w].kind = "retry"
    /\ followed \in [clearing : Nat, retry : Nat]
    /\ followed.clearing <= data

\* Writes that will begin an epoch when they are answered.
Underway == {w \in Writers : rWrite[w].pc \in {"saved", "built", "cached"}}

CacheTypes ==
    /\ route \in Cache!Routes
    /\ data \in Nat /\ epoch \in Nat
    /\ epoch + Cardinality(Underway) <= data
    /\ RefreshTypes /\ EntryTypes /\ ReadTypes /\ WriteTypes

NoRetry == \A w \in Writers : rWrite[w].pc \in {"cached", "done"} => rWrite[w].kind # "retry"

NamedRefreshesRun ==
    /\ inflight # NoRefresh => refresh[inflight].pc # "unused"
    /\ \A r \in Readers :
          read[r].pc = "waiting" => read[r].on \in Refreshes /\ refresh[read[r].on].pc # "unused"

EntryFollows == entry # NoEntry => entry.value >= followed.clearing
RefreshesFollow ==
    \A f \in Refreshes : refresh[f].pc = "has_read" /\ refresh[f].epoch = epoch
                            => refresh[f].value >= followed.clearing
WaitsFollow ==
    \A r \in Readers :
       read[r].pc = "waiting" /\ refresh[read[r].on].pc = "has_read"
          => refresh[read[r].on].value >= read[r].since.clearing
ReadsFollow ==
    \A r \in Readers : read[r].pc = "answered" => read[r].value >= read[r].since.clearing

CacheFollows == EntryFollows /\ RefreshesFollow /\ WaitsFollow /\ ReadsFollow

CacheInv ==
    /\ CacheTypes
    /\ NamedRefreshesRun
    /\ route # "public" /\ NoRetry => CacheFollows

LEMMA CacheInit == Cache!Init => CacheInv
<1> SUFFICES ASSUME Cache!Init PROVE CacheInv
  OBVIOUS
<1> USE DEF Cache!Init
<1>1. Underway = {}
  BY DEF Underway
<1>2. Cardinality(Underway) = 0
  BY <1>1, FS_EmptySet
<1>3. RefreshTypes
  BY DEF RefreshTypes, RefreshRecords, Cache!Unused
<1>4. ReadTypes
  BY DEF ReadTypes, ReadRecords, Cache!None
<1>5. WriteTypes
  BY DEF WriteTypes, WriteRecords, Cache!None, Cache!Kinds
<1>6. CacheTypes
  BY <1>2, <1>3, <1>4, <1>5 DEF CacheTypes, EntryTypes
<1>7. NamedRefreshesRun
  BY DEF NamedRefreshesRun
<1>8. CacheFollows
  BY DEF CacheFollows, EntryFollows, RefreshesFollow, WaitsFollow, ReadsFollow, Cache!Unused
<1> QED BY <1>6, <1>7, <1>8 DEF CacheInv

LEMMA UnderwayIsFinite == IsFiniteSet(Underway) /\ Cardinality(Underway) \in Nat
<1>1. Underway \in SUBSET Writers
  BY DEF Underway
<1> QED BY <1>1, StoresAssumption, FS_Subset, FS_CardinalityType

\* The types are kept when only reads and refreshes change.
LEMMA ReadSideTypes ==
    ASSUME CacheTypes, UNCHANGED <<route, data, epoch, rWrite, followed>>,
           RefreshTypes', EntryTypes', ReadTypes'
    PROVE  CacheTypes' /\ (NoRetry' => NoRetry)
<1>1. Underway' = Underway
  BY DEF Underway
<1>2. WriteTypes'
  BY DEF CacheTypes, WriteTypes
<1> QED BY <1>1, <1>2 DEF CacheTypes, NoRetry

\* Reader r, with no refresh touched.
LEMMA CacheReadStep ==
    ASSUME CacheInv, NEW r \in Readers, Cache!ReadHit(r) \/ Cache!BudgetExpires(r)
    PROVE  CacheInv'
<1> DEFINE new == read'[r]
<1>1. UNCHANGED <<route, data, epoch, entry, inflight, refresh, queue, rWrite, followed>>
  BY DEF Cache!ReadHit, Cache!BudgetExpires
<1>2. /\ read' \in [Readers -> ReadRecords] /\ \A o \in Readers \ {r} : read'[o] = read[o]
      /\ new.since \in {read[r].since, followed}
      /\ new.pc = "failed" \/ (new.pc = "answered" /\ new.value = entry.value
                               /\ new.since = followed /\ entry # NoEntry)
  <2>1. read[r] \in ReadRecords /\ followed \in [clearing : Nat, retry : Nat]
    BY DEF CacheInv, CacheTypes, ReadTypes, WriteTypes
  <2>2. CASE Cache!ReadHit(r)
    <3>1. entry # NoEntry /\ entry \in Entries
      BY <2>2 DEF Cache!ReadHit, CacheInv, CacheTypes, EntryTypes
    <3>2. entry.value \in Nat
      BY <3>1 DEF Entries
    <3> QED BY <2>1, <2>2, <3>1, <3>2
            DEF Cache!ReadHit, Cache!Answer, Cache!Begins, ReadRecords, CacheInv, CacheTypes,
                ReadTypes
  <2>3. CASE Cache!BudgetExpires(r)
    BY <2>1, <2>3 DEF Cache!BudgetExpires, ReadRecords, CacheInv, CacheTypes, ReadTypes
  <2> QED BY <2>2, <2>3
<1> HIDE DEF new
<1>3. ReadTypes'
  BY <1>1, <1>2 DEF CacheInv, CacheTypes, ReadTypes, WriteTypes, new
<1>4. RefreshTypes' /\ EntryTypes'
  BY <1>1 DEF CacheInv, CacheTypes, RefreshTypes, EntryTypes
<1>5. CacheTypes' /\ (NoRetry' => NoRetry)
  BY <1>1, <1>3, <1>4, ReadSideTypes DEF CacheInv
<1>6. NamedRefreshesRun'
  BY <1>1, <1>2 DEF CacheInv, NamedRefreshesRun, new
<1>7. ASSUME CacheFollows PROVE CacheFollows'
  <2>1. EntryFollows' /\ RefreshesFollow'
    BY <1>1, <1>7 DEF CacheFollows, EntryFollows, RefreshesFollow
  <2>2. WaitsFollow' /\ ReadsFollow'
    BY <1>1, <1>2, <1>7 DEF CacheFollows, WaitsFollow, ReadsFollow, EntryFollows, new
  <2> QED BY <2>1, <2>2 DEF CacheFollows
<1> QED BY <1>1, <1>5, <1>6, <1>7 DEF CacheInv

LEMMA CacheAges ==
    ASSUME CacheInv, Cache!EntryAges
    PROVE  CacheInv'
<1>1. UNCHANGED <<route, data, epoch, inflight, refresh, queue, rWrite, read, followed>>
  BY DEF Cache!EntryAges
<1>2. entry' = NoEntry \/ (entry' \in Entries /\ entry'.value = entry.value /\ entry # NoEntry)
  BY DEF Cache!EntryAges, CacheInv, CacheTypes, EntryTypes, Entries
<1>3. ReadTypes' /\ RefreshTypes' /\ EntryTypes'
  BY <1>1, <1>2 DEF CacheInv, CacheTypes, ReadTypes, RefreshTypes, EntryTypes
<1>4. CacheTypes' /\ (NoRetry' => NoRetry)
  BY <1>1, <1>3, ReadSideTypes DEF CacheInv
<1>5. NamedRefreshesRun'
  BY <1>1 DEF CacheInv, NamedRefreshesRun
<1>6. CacheFollows => CacheFollows'
  BY <1>1, <1>2 DEF CacheFollows, EntryFollows, RefreshesFollow, WaitsFollow, ReadsFollow
<1> QED BY <1>1, <1>4, <1>5, <1>6 DEF CacheInv

LEMMA CacheLaunch ==
    ASSUME CacheInv, NEW f \in Refreshes, Cache!Launch(f), UNCHANGED <<data, epoch>>
    PROVE  /\ RefreshTypes' /\ inflight' = f
           /\ refresh[f].pc = "unused" /\ refresh'[f].pc \in {"running", "queued"}
           /\ \A g \in Refreshes \ {f} : refresh'[g] = refresh[g]
<1>1. PICK runs \in BOOLEAN :
         /\ refresh[f] = Cache!Unused /\ inflight' = f
         /\ refresh' = [refresh EXCEPT ![f] =
               [pc |-> IF runs THEN "running" ELSE "queued", epoch |-> epoch, value |-> 0]]
         /\ queue' = IF runs THEN queue ELSE Append(queue, f)
  BY Zenon DEF Cache!Launch
<1> DEFINE new == [pc |-> IF runs THEN "running" ELSE "queued", epoch |-> epoch, value |-> 0]
<1>2. new \in RefreshRecords /\ new.pc \in {"running", "queued"}
      /\ new.epoch = epoch /\ new.value = 0 /\ data \in Nat /\ epoch \in Nat
      /\ refresh' = [refresh EXCEPT ![f] = new]
  BY <1>1 DEF RefreshRecords, CacheInv, CacheTypes
<1> HIDE DEF new
<1>3. queue' \in Seq(Refreshes)
  BY <1>1 DEF CacheInv, CacheTypes, RefreshTypes
<1>4. /\ refresh' \in [Refreshes -> RefreshRecords] /\ refresh'[f] = new
      /\ \A g \in Refreshes \ {f} : refresh'[g] = refresh[g]
  BY <1>1, <1>2 DEF CacheInv, CacheTypes, RefreshTypes
<1>5. RefreshTypes'
  BY <1>1, <1>2, <1>3, <1>4 DEF CacheInv, CacheTypes, RefreshTypes
<1>6. refresh[f].pc = "unused"
  BY <1>1 DEF Cache!Unused
<1> QED BY <1>1, <1>2, <1>4, <1>5, <1>6

\* Refreshes are launched and read reads; nothing a read is owed by a refresh changes.
LEMMA CacheColdStep ==
    ASSUME CacheInv, NEW r \in Readers, Cache!ReadRetained(r) \/ Cache!ReadCold(r)
    PROVE  CacheInv'
<1>1. UNCHANGED <<route, data, epoch, entry, rWrite, followed>>
  BY DEF Cache!ReadRetained, Cache!ReadCold
<1>2. \/ UNCHANGED <<inflight, refresh, queue>>
      \/ \E f \in Refreshes : Cache!Launch(f)
  BY DEF Cache!ReadRetained, Cache!ReadCold
<1>3. RefreshTypes'
  <2>1. CASE UNCHANGED <<inflight, refresh, queue>>
    BY <1>1, <2>1 DEF CacheInv, CacheTypes, RefreshTypes
  <2>2. CASE \E f \in Refreshes : Cache!Launch(f)
    BY <1>1, <2>2, CacheLaunch
  <2> QED BY <1>2, <2>1, <2>2
<1>4. \A g \in Refreshes : /\ refresh[g].pc # "unused" => refresh'[g] = refresh[g]
                           /\ refresh'[g].pc = "has_read" => refresh'[g] = refresh[g]
  <2>1. CASE UNCHANGED <<inflight, refresh, queue>>
    BY <2>1
  <2>2. ASSUME NEW f \in Refreshes, Cache!Launch(f)
        PROVE  \A g \in Refreshes :
                  /\ refresh[g].pc # "unused" => refresh'[g] = refresh[g]
                  /\ refresh'[g].pc = "has_read" => refresh'[g] = refresh[g]
    BY <1>1, <2>2, CacheLaunch
  <2> QED BY <1>2, <2>1, <2>2
<1>5. inflight' # NoRefresh => refresh'[inflight'].pc # "unused"
  <2>1. CASE UNCHANGED <<inflight, refresh, queue>>
    BY <2>1 DEF CacheInv, NamedRefreshesRun
  <2>2. CASE \E f \in Refreshes : Cache!Launch(f)
    BY <1>1, <2>2, CacheLaunch
  <2> QED BY <1>2, <2>1, <2>2
<1>6. /\ read[r] \in ReadRecords /\ followed \in [clearing : Nat, retry : Nat]
      /\ read \in [Readers -> ReadRecords]
  BY DEF CacheInv, CacheTypes, ReadTypes, WriteTypes
<1>7. PICK new \in ReadRecords :
         /\ read' = [read EXCEPT ![r] = new]
         /\ new.since \in {read[r].since, followed}
         /\ \/ new.pc = "failed"
            \/ /\ new.pc = "answered" /\ new.value = entry.value
               /\ new.since = followed /\ entry # NoEntry
            \/ /\ new.pc = "waiting" /\ new.on \in Refreshes /\ new.since = followed
               /\ refresh'[new.on].pc # "unused"
               /\ \/ refresh'[new.on].pc # "has_read"
                  \/ route # "public" => refresh'[new.on].epoch = epoch
  <2>1. CASE Cache!ReadRetained(r)
    <3> DEFINE new == Cache!Answer(Cache!Begins(r), entry.value, FALSE)
    <3>1. entry # NoEntry /\ entry.value \in Nat /\ read' = [read EXCEPT ![r] = new]
      BY <2>1 DEF Cache!ReadRetained, CacheInv, CacheTypes, EntryTypes, Entries
    <3>2. new \in ReadRecords /\ new.pc = "answered" /\ new.value = entry.value
          /\ new.since = followed
      BY <1>6, <3>1 DEF Cache!Answer, Cache!Begins, ReadRecords
    <3> QED BY <3>1, <3>2
  <2>2. CASE Cache!ReadCold(r)
    <3>1. CASE Cache!Joins /\ Cache!Waits(r, inflight) /\ UNCHANGED <<inflight, refresh, queue>>
      <4> DEFINE new == [Cache!Begins(r) EXCEPT !.pc = "waiting", !.on = inflight]
      <4>1. /\ inflight # NoRefresh /\ inflight \in Refreshes
            /\ route # "public" => refresh[inflight].epoch = epoch
        BY <3>1 DEF Cache!Joins, Cache!OfThisEpoch, CacheInv, CacheTypes, RefreshTypes
      <4>2. /\ new \in ReadRecords /\ new.pc = "waiting" /\ new.on = inflight
            /\ new.since = followed /\ read' = [read EXCEPT ![r] = new]
        BY <1>6, <3>1, <4>1 DEF Cache!Waits, Cache!Begins, ReadRecords
      <4>3. refresh'[inflight] = refresh[inflight] /\ refresh[inflight].pc # "unused"
        BY <3>1, <4>1 DEF CacheInv, NamedRefreshesRun
      <4> HIDE DEF new
      <4> QED BY <4>1, <4>2, <4>3
    <3>2. ASSUME NEW f \in Refreshes, Cache!Launch(f), Cache!Waits(r, f)
          PROVE  \E new \in ReadRecords :
                    /\ read' = [read EXCEPT ![r] = new]
                    /\ new.pc = "waiting" /\ new.on \in Refreshes /\ new.since = followed
                    /\ refresh'[new.on].pc # "unused" /\ refresh'[new.on].pc # "has_read"
      <4> DEFINE new == [Cache!Begins(r) EXCEPT !.pc = "waiting", !.on = f]
      <4>1. /\ new \in ReadRecords /\ new.pc = "waiting" /\ new.on = f
            /\ new.since = followed /\ read' = [read EXCEPT ![r] = new]
        BY <1>6, <3>2 DEF Cache!Waits, Cache!Begins, ReadRecords
      <4>2. refresh'[f].pc \in {"running", "queued"}
        BY <1>1, <3>2, CacheLaunch
      <4> HIDE DEF new
      <4> QED BY <4>1, <4>2
    <3>3. CASE read' = [read EXCEPT ![r].pc = "failed"]
      <4> DEFINE new == [read[r] EXCEPT !.pc = "failed"]
      <4>1. new \in ReadRecords /\ new.pc = "failed" /\ new.since = read[r].since
            /\ read' = [read EXCEPT ![r] = new]
        BY <1>6, <3>3 DEF ReadRecords
      <4> QED BY <4>1
    <3> QED BY <2>2, <3>1, <3>2, <3>3 DEF Cache!ReadCold
  <2> QED BY <2>1, <2>2
<1>8. /\ read' \in [Readers -> ReadRecords]
      /\ \A o \in Readers : read'[o] = IF o = r THEN new ELSE read[o]
  BY <1>6, <1>7
<1>9. ReadTypes'
  BY <1>1, <1>7, <1>8 DEF CacheInv, CacheTypes, ReadTypes, WriteTypes
<1>10. CacheTypes' /\ (NoRetry' => NoRetry)
  BY <1>1, <1>3, <1>9, ReadSideTypes DEF CacheInv, CacheTypes, EntryTypes
<1>11. NamedRefreshesRun'
  BY <1>4, <1>5, <1>7, <1>8 DEF CacheInv, NamedRefreshesRun
<1>12. ASSUME CacheFollows, route # "public" PROVE CacheFollows'
  <2>1. EntryFollows' /\ RefreshesFollow'
    BY <1>1, <1>4, <1>12 DEF CacheFollows, EntryFollows, RefreshesFollow
  <2>2. ReadsFollow'
    BY <1>1, <1>7, <1>8, <1>12 DEF CacheFollows, EntryFollows, ReadsFollow
  <2>3. ASSUME NEW o \in Readers, read'[o].pc = "waiting", refresh'[read'[o].on].pc = "has_read"
        PROVE  refresh'[read'[o].on].value >= read'[o].since.clearing
    <3>1. CASE o = r
      BY <1>1, <1>7, <1>8, <1>12, <2>1, <2>3, <3>1 DEF RefreshesFollow
    <3>2. CASE o # r
      BY <1>4, <1>8, <1>12, <2>3, <3>2 DEF CacheFollows, WaitsFollow, CacheInv, NamedRefreshesRun
    <3> QED BY <3>1, <3>2
  <2> QED BY <2>1, <2>2, <2>3 DEF CacheFollows, WaitsFollow
<1> QED BY <1>1, <1>10, <1>11, <1>12 DEF CacheInv

LEMMA CacheProduce ==
    ASSUME CacheInv, NEW f \in Refreshes, Cache!Produce(f)
    PROVE  CacheInv'
<1> DEFINE new == [refresh[f] EXCEPT !.pc = "has_read", !.value = data]
<1>1. /\ refresh[f].pc = "running" /\ refresh' = [refresh EXCEPT ![f] = new]
      /\ UNCHANGED <<route, data, epoch, entry, inflight, queue, rWrite, read, followed>>
  BY DEF Cache!Produce, CacheInv, CacheTypes, RefreshTypes
<1>2. new \in RefreshRecords /\ new.pc = "has_read" /\ new.value = data
      /\ new.epoch = refresh[f].epoch
  BY DEF CacheInv, CacheTypes, RefreshTypes, RefreshRecords
<1> HIDE DEF new
<1>3. /\ refresh' \in [Refreshes -> RefreshRecords]
      /\ \A g \in Refreshes : refresh'[g] = IF g = f THEN new ELSE refresh[g]
  BY <1>1, <1>2 DEF CacheInv, CacheTypes, RefreshTypes
<1>4. RefreshTypes'
  BY <1>1, <1>2, <1>3 DEF CacheInv, CacheTypes, RefreshTypes
<1>5. ReadTypes' /\ EntryTypes'
  BY <1>1 DEF CacheInv, CacheTypes, ReadTypes, EntryTypes
<1>6. CacheTypes' /\ (NoRetry' => NoRetry)
  BY <1>1, <1>4, <1>5, ReadSideTypes DEF CacheInv
<1>7. NamedRefreshesRun'
  BY <1>1, <1>2, <1>3 DEF CacheInv, CacheTypes, RefreshTypes, NamedRefreshesRun
<1>8. ASSUME CacheFollows PROVE CacheFollows'
  <2>1. followed.clearing <= data /\ \A r \in Readers : read[r].since.clearing <= data
    BY DEF CacheInv, CacheTypes, WriteTypes, ReadTypes
  <2>2. followed.clearing \in Nat /\ data \in Nat
        /\ \A r \in Readers : read[r].since.clearing \in Nat
    BY DEF CacheInv, CacheTypes, WriteTypes, ReadTypes, ReadRecords
  <2>3. EntryFollows' /\ ReadsFollow'
    BY <1>1, <1>8 DEF CacheFollows, EntryFollows, ReadsFollow
  <2>4. RefreshesFollow'
    BY <1>1, <1>2, <1>3, <1>8, <2>1, <2>2 DEF CacheFollows, RefreshesFollow
  <2>5. WaitsFollow'
    BY <1>1, <1>2, <1>3, <1>8, <2>1, <2>2
    DEF CacheFollows, WaitsFollow, CacheInv, NamedRefreshesRun
  <2> QED BY <2>3, <2>4, <2>5 DEF CacheFollows
<1> QED BY <1>1, <1>6, <1>7, <1>8 DEF CacheInv

LEMMA CacheSlot ==
    ASSUME CacheInv, NEW f \in Refreshes, Cache!GiveUpSlot(f), Cache!Landed(f),
           UNCHANGED <<data, epoch>>
    PROVE  /\ RefreshTypes'
           /\ inflight' = IF inflight = f THEN NoRefresh ELSE inflight
           /\ refresh'[f].pc = "unused"
           /\ \A g \in Refreshes \ {f} :
                 \/ refresh'[g] = refresh[g]
                 \/ /\ refresh'[g].pc = "running" /\ refresh'[g].epoch = refresh[g].epoch
                    /\ refresh'[g].value = refresh[g].value
<1>1. refresh \in [Refreshes -> RefreshRecords] /\ queue \in Seq(Refreshes)
      /\ epoch \in Nat /\ data \in Nat
  BY DEF CacheInv, CacheTypes, RefreshTypes
<1>2. queue' \in Seq(Refreshes)
  BY <1>1, HeadTailProperties DEF Cache!GiveUpSlot
<1>3. inflight' = IF inflight = f THEN NoRefresh ELSE inflight
  BY DEF Cache!Landed
<1>4. ASSUME NEW g \in Refreshes
      PROVE  /\ g = f => refresh'[g] = Cache!Unused
             /\ g # f => \/ refresh'[g] = refresh[g]
                         \/ refresh'[g] = [refresh[g] EXCEPT !.pc = "running"]
  BY DEF Cache!GiveUpSlot
<1>5. ASSUME NEW g \in Refreshes PROVE [refresh[g] EXCEPT !.pc = "running"] \in RefreshRecords
  BY <1>1 DEF RefreshRecords
<1>6. Cache!Unused \in RefreshRecords
  BY DEF RefreshRecords, Cache!Unused
<1>7. \A g \in Refreshes : refresh'[g] \in RefreshRecords
  BY <1>1, <1>4, <1>5, <1>6
<1>8. refresh' = [g \in Refreshes |-> refresh'[g]]
  BY DEF Cache!GiveUpSlot
<1>9. refresh' \in [Refreshes -> RefreshRecords]
  BY <1>7, <1>8
<1>10. /\ refresh'[f].pc = "unused" /\ refresh'[f].epoch = 0 /\ refresh'[f].value = 0
  <2>1. refresh'[f] = Cache!Unused
    BY <1>4
  <2> QED BY <2>1 DEF Cache!Unused
<1>11. ASSUME NEW g \in Refreshes \ {f}
       PROVE  \/ refresh'[g] = refresh[g]
              \/ /\ refresh'[g].pc = "running" /\ refresh'[g].epoch = refresh[g].epoch
                 /\ refresh'[g].value = refresh[g].value
  BY <1>1, <1>4 DEF RefreshRecords
<1>12. \A g \in Refreshes : refresh'[g].epoch <= epoch' /\ refresh'[g].value <= data'
  BY <1>1, <1>10, <1>11 DEF CacheInv, CacheTypes, RefreshTypes
<1>13. RefreshTypes'
  BY <1>2, <1>3, <1>9, <1>12 DEF CacheInv, CacheTypes, RefreshTypes
<1> QED BY <1>3, <1>10, <1>11, <1>13

LEMMA CacheRefreshOver ==
    ASSUME CacheInv, NEW f \in Refreshes, Cache!RefreshEnds(f) \/ Cache!RefreshFails(f)
    PROVE  CacheInv'
<1>1. UNCHANGED <<route, data, epoch, rWrite, followed>>
      /\ Cache!GiveUpSlot(f) /\ Cache!Landed(f)
  BY DEF Cache!RefreshEnds, Cache!RefreshFails
<1>2. /\ RefreshTypes'
      /\ inflight' = IF inflight = f THEN NoRefresh ELSE inflight
      /\ \A g \in Refreshes \ {f} :
            \/ refresh'[g] = refresh[g]
            \/ /\ refresh'[g].pc = "running" /\ refresh'[g].epoch = refresh[g].epoch
               /\ refresh'[g].value = refresh[g].value
      /\ refresh'[f].pc = "unused"
  BY <1>1, CacheSlot
<1>3. /\ refresh[f] \in RefreshRecords /\ refresh[f].value \in Nat /\ refresh[f].value <= data
      /\ read \in [Readers -> ReadRecords] /\ followed.clearing \in Nat
  BY DEF CacheInv, CacheTypes, RefreshTypes, RefreshRecords, ReadTypes, WriteTypes
<1>4. \/ entry' = entry
      \/ /\ entry' \in Entries /\ entry'.value = refresh[f].value
         /\ refresh[f].pc = "has_read" /\ refresh[f].epoch = epoch
  BY <1>3 DEF Cache!RefreshEnds, Cache!RefreshFails, Cache!EntryAfter, Entries
<1>5. EntryTypes'
  BY <1>1, <1>3, <1>4 DEF EntryTypes, CacheInv, CacheTypes
<1>6. read' = [r \in Readers |-> read'[r]]
  BY DEF Cache!RefreshEnds, Cache!RefreshFails, Cache!Wake, Cache!WakeFailing
<1>7. ASSUME NEW r \in Readers
      PROVE  /\ read'[r] \in ReadRecords
             /\ \/ read'[r] = read[r] /\ (read[r].pc = "waiting" => read[r].on # f)
                \/ read'[r].pc = "failed" /\ read'[r].since = read[r].since
                \/ /\ read'[r].pc = "answered" /\ read'[r].since = read[r].since
                   /\ read'[r].value = refresh[f].value
                   /\ read[r].pc = "waiting" /\ read[r].on = f /\ refresh[f].pc = "has_read"
  <2>1. read[r] \in ReadRecords
    BY <1>3
  <2>2. CASE Cache!RefreshEnds(f)
    <3>1. read'[r] = IF read[r].pc = "waiting" /\ read[r].on = f
                     THEN Cache!Answer(read[r], refresh[f].value, TRUE) ELSE read[r]
      BY <2>2 DEF Cache!RefreshEnds, Cache!Wake
    <3>2. refresh[f].pc = "has_read"
      BY <2>2 DEF Cache!RefreshEnds
    <3>3. /\ Cache!Answer(read[r], refresh[f].value, TRUE) \in ReadRecords
          /\ Cache!Answer(read[r], refresh[f].value, TRUE).pc = "answered"
          /\ Cache!Answer(read[r], refresh[f].value, TRUE).since = read[r].since
          /\ Cache!Answer(read[r], refresh[f].value, TRUE).value = refresh[f].value
      BY <1>3, <2>1 DEF Cache!Answer, ReadRecords
    <3> QED BY <2>1, <3>1, <3>2, <3>3
  <2>3. CASE Cache!RefreshFails(f)
    <3>1. read'[r] = IF read[r].pc = "waiting" /\ read[r].on = f
                     THEN [read[r] EXCEPT !.pc = "failed"] ELSE read[r]
      BY <2>3 DEF Cache!RefreshFails, Cache!WakeFailing
    <3>2. /\ [read[r] EXCEPT !.pc = "failed"] \in ReadRecords
          /\ [read[r] EXCEPT !.pc = "failed"].pc = "failed"
          /\ [read[r] EXCEPT !.pc = "failed"].since = read[r].since
      BY <2>1 DEF ReadRecords
    <3> QED BY <2>1, <3>1, <3>2
  <2> QED BY <2>2, <2>3
<1>8. ReadTypes'
  <2>1. \A r \in Readers : read'[r].since = read[r].since
    BY <1>7
  <2> QED BY <1>1, <1>6, <1>7, <2>1 DEF CacheInv, CacheTypes, ReadTypes
<1>9. CacheTypes' /\ (NoRetry' => NoRetry)
  BY <1>1, <1>2, <1>5, <1>8, ReadSideTypes DEF CacheInv
<1>10. NamedRefreshesRun'
  <2>1. inflight' # NoRefresh => inflight # f /\ inflight' = inflight /\ inflight \in Refreshes
    BY <1>2 DEF CacheInv, CacheTypes, RefreshTypes
  <2>2. \A g \in Refreshes \ {f} : refresh[g].pc # "unused" => refresh'[g].pc # "unused"
    BY <1>2
  <2> QED BY <1>7, <2>1, <2>2 DEF CacheInv, NamedRefreshesRun
<1>11. ASSUME CacheFollows PROVE CacheFollows'
  <2>1. EntryFollows'
    BY <1>1, <1>4, <1>11 DEF CacheFollows, EntryFollows, RefreshesFollow
  <2>2. RefreshesFollow'
    BY <1>1, <1>2, <1>11 DEF CacheFollows, RefreshesFollow
  <2>3. ReadsFollow'
    BY <1>7, <1>11 DEF CacheFollows, ReadsFollow, WaitsFollow
  <2>4. WaitsFollow'
    BY <1>2, <1>7, <1>11 DEF CacheFollows, WaitsFollow, CacheInv, NamedRefreshesRun
  <2> QED BY <2>1, <2>2, <2>3, <2>4 DEF CacheFollows
<1> QED BY <1>1, <1>9, <1>10, <1>11 DEF CacheInv

\* The types are kept when a write changes, whatever the cache does.
LEMMA WriteSideTypes ==
    ASSUME CacheTypes, UNCHANGED <<route, refresh, queue, read>>,
           data' \in Nat, epoch' \in Nat, data' >= data, epoch' >= epoch,
           epoch' + Cardinality(Underway') <= data',
           inflight' \in {inflight, NoRefresh},
           entry' = NoEntry \/ entry' = entry
              \/ (entry' \in Entries /\ entry'.value <= data),
           WriteTypes'
    PROVE  CacheTypes'
<1>1. data \in Nat /\ epoch \in Nat
  BY DEF CacheTypes
<1>2. \A f \in Refreshes : refresh[f].epoch \in Nat /\ refresh[f].value \in Nat
  BY DEF CacheTypes, RefreshTypes, RefreshRecords
<1>3. RefreshTypes'
  BY <1>1, <1>2 DEF CacheTypes, RefreshTypes
<1>4. \A r \in Readers : read[r].since.clearing \in Nat
  BY DEF CacheTypes, ReadTypes, ReadRecords
<1>5. ReadTypes'
  BY <1>1, <1>4 DEF CacheTypes, ReadTypes
<1>6. EntryTypes'
  BY <1>1 DEF CacheTypes, EntryTypes, Entries
<1> QED BY <1>3, <1>5, <1>6 DEF CacheTypes

\* Write w becomes new.
LEMMA CacheWriteChange ==
    ASSUME CacheTypes, NEW w \in Writers, NEW new \in WriteRecords,
           rWrite' = [rWrite EXCEPT ![w] = new],
           data' \in Nat, data' >= data,
           new.number <= data', new.answer <= data',
           new.pc \in {"built", "cached"} => new.kind = "retry",
           followed' \in [clearing : Nat, retry : Nat], followed'.clearing <= data'
    PROVE  /\ WriteTypes'
           /\ \A v \in Writers : rWrite'[v] = IF v = w THEN new ELSE rWrite[v]
           /\ Cardinality(Underway') =
                 Cardinality(Underway)
                 + (IF new.pc \in {"saved", "built", "cached"} THEN 1 ELSE 0)
                 - (IF rWrite[w].pc \in {"saved", "built", "cached"} THEN 1 ELSE 0)
           /\ Cardinality(Underway) \in Nat
<1>1. /\ rWrite' \in [Writers -> WriteRecords]
      /\ \A v \in Writers : rWrite'[v] = IF v = w THEN new ELSE rWrite[v]
  BY DEF CacheTypes, WriteTypes
<1>2. \A v \in Writers : rWrite[v].number \in Nat /\ rWrite[v].answer \in Nat
  BY DEF CacheTypes, WriteTypes, WriteRecords
<1>3. data \in Nat
  BY DEF CacheTypes
<1>4. WriteTypes'
  BY <1>1, <1>2, <1>3 DEF CacheTypes, WriteTypes
<1>5. IsFiniteSet(Underway) /\ Cardinality(Underway) \in Nat
  BY UnderwayIsFinite
<1>6. Underway' = IF new.pc \in {"saved", "built", "cached"} THEN Underway \union {w}
                  ELSE Underway \ {w}
  BY <1>1 DEF Underway
<1>7. w \in Underway <=> rWrite[w].pc \in {"saved", "built", "cached"}
  BY DEF Underway
<1>8. /\ Cardinality(Underway \union {w}) =
             IF w \in Underway THEN Cardinality(Underway) ELSE Cardinality(Underway) + 1
      /\ Cardinality(Underway \ {w}) =
             IF w \in Underway THEN Cardinality(Underway) - 1 ELSE Cardinality(Underway)
  BY <1>5, FS_AddElement, FS_RemoveElement
<1>9. Cardinality(Underway') =
         Cardinality(Underway)
         + (IF new.pc \in {"saved", "built", "cached"} THEN 1 ELSE 0)
         - (IF rWrite[w].pc \in {"saved", "built", "cached"} THEN 1 ELSE 0)
  <2>1. CASE new.pc \in {"saved", "built", "cached"}
    BY <1>5, <1>6, <1>7, <1>8, <2>1
  <2>2. CASE new.pc \notin {"saved", "built", "cached"}
    BY <1>5, <1>6, <1>7, <1>8, <2>2
  <2> QED BY <2>1, <2>2
<1> QED BY <1>1, <1>4, <1>5, <1>9

LEMMA CacheSave ==
    ASSUME CacheInv, NEW w \in Writers, NEW kind \in Cache!Kinds, Cache!Save(w, kind)
    PROVE  CacheInv'
<1> DEFINE new == [pc |-> IF kind = "background" THEN "done" ELSE "saved",
                   kind |-> kind, number |-> data + 1, answer |-> 0]
<1>1. /\ rWrite[w].pc = "idle" /\ data' = data + 1
      /\ rWrite' = [rWrite EXCEPT ![w] = new]
      /\ UNCHANGED <<route, epoch, entry, inflight, refresh, queue, read, followed>>
  BY DEF Cache!Save
<1>2. /\ data \in Nat /\ epoch \in Nat /\ epoch + Cardinality(Underway) <= data
      /\ followed \in [clearing : Nat, retry : Nat] /\ followed.clearing <= data
      /\ followed.clearing \in Nat
  BY DEF CacheInv, CacheTypes, WriteTypes
<1>3. /\ new \in WriteRecords /\ new.number = data + 1 /\ new.answer = 0
      /\ new.pc \in {"done", "saved"} /\ (new.pc = "done" => new.kind # "retry")
  BY <1>2 DEF WriteRecords, Cache!Kinds
<1> HIDE DEF new
<1>4. CacheTypes
  BY DEF CacheInv
<1>5. /\ WriteTypes'
      /\ \A v \in Writers : rWrite'[v] = IF v = w THEN new ELSE rWrite[v]
      /\ Cardinality(Underway') =
            Cardinality(Underway)
            + (IF new.pc \in {"saved", "built", "cached"} THEN 1 ELSE 0)
            - (IF rWrite[w].pc \in {"saved", "built", "cached"} THEN 1 ELSE 0)
      /\ Cardinality(Underway) \in Nat
  <2>1. data' \in Nat /\ data' >= data /\ new.number <= data' /\ new.answer <= data'
        /\ followed' \in [clearing : Nat, retry : Nat] /\ followed'.clearing <= data'
        /\ (new.pc \in {"built", "cached"} => new.kind = "retry")
    BY <1>1, <1>2, <1>3
  <2> QED BY <1>1, <1>3, <1>4, <2>1, CacheWriteChange
<1>6. epoch' + Cardinality(Underway') <= data' /\ data' \in Nat /\ data' >= data
  BY <1>1, <1>2, <1>3, <1>5
<1>7. CacheTypes'
  BY <1>1, <1>2, <1>4, <1>5, <1>6, WriteSideTypes
<1>8. NamedRefreshesRun' /\ (CacheFollows => CacheFollows')
  BY <1>1 DEF CacheInv, NamedRefreshesRun, CacheFollows, EntryFollows, RefreshesFollow,
              WaitsFollow, ReadsFollow
<1>9. NoRetry' => NoRetry
  BY <1>1, <1>5 DEF NoRetry
<1> QED BY <1>1, <1>7, <1>8, <1>9 DEF CacheInv

\* The steps of a write that begin no epoch.
LEMMA CacheWriteStep ==
    ASSUME CacheInv, NEW w \in Writers,
           Cache!BuildAnswer(w) \/ Cache!CacheAnswer(w) \/ Cache!WriteFails(w)
    PROVE  CacheInv'
<1>1. UNCHANGED <<route, data, epoch, refresh, queue, read, followed>>
  BY DEF Cache!BuildAnswer, Cache!CacheAnswer, Cache!WriteFails
<1>2. /\ data \in Nat /\ epoch \in Nat /\ epoch + Cardinality(Underway) <= data
      /\ followed \in [clearing : Nat, retry : Nat] /\ followed.clearing <= data
      /\ rWrite[w] \in WriteRecords /\ rWrite[w].number <= data /\ rWrite[w].answer <= data
      /\ rWrite[w].answer \in Nat
      /\ rWrite[w].pc \in {"built", "cached"} => rWrite[w].kind = "retry"
  BY DEF CacheInv, CacheTypes, WriteTypes, WriteRecords
<1>3. rWrite[w].pc \in {"saved", "built"}
  BY DEF Cache!BuildAnswer, Cache!CacheAnswer, Cache!WriteFails
<1>4. PICK new \in WriteRecords :
         /\ rWrite' = [rWrite EXCEPT ![w] = new]
         /\ new.number <= data /\ new.answer <= data
         /\ new.kind = rWrite[w].kind
         /\ new.pc \in {"built", "cached"} => new.kind = "retry"
         /\ new.pc = "cached" \/ UNCHANGED <<entry, inflight>>
  <2>1. CASE Cache!BuildAnswer(w)
    <3> DEFINE new == [rWrite[w] EXCEPT !.pc = "built", !.answer = data]
    <3>1. new \in WriteRecords /\ rWrite' = [rWrite EXCEPT ![w] = new]
      BY <1>2, <2>1 DEF Cache!BuildAnswer, WriteRecords
    <3>2. new.pc = "built" /\ new.answer = data
          /\ new.number = rWrite[w].number /\ new.kind = rWrite[w].kind
      BY <1>2 DEF WriteRecords
    <3>3. rWrite[w].kind = "retry" /\ UNCHANGED <<entry, inflight>>
      BY <1>2, <2>1 DEF Cache!BuildAnswer
    <3> HIDE DEF new
    <3>4. new.number <= data /\ new.answer <= data /\ new.kind = "retry"
      BY <1>2, <3>2, <3>3
    <3> QED BY <3>1, <3>2, <3>3, <3>4
  <2>2. CASE Cache!CacheAnswer(w)
    <3> DEFINE new == [rWrite[w] EXCEPT !.pc = "cached"]
    <3>1. new \in WriteRecords /\ rWrite' = [rWrite EXCEPT ![w] = new]
      BY <1>2, <2>2 DEF Cache!CacheAnswer, WriteRecords
    <3>2. new.pc = "cached" /\ new.answer = rWrite[w].answer
          /\ new.number = rWrite[w].number /\ new.kind = rWrite[w].kind
      BY <1>2 DEF WriteRecords
    <3>3. rWrite[w].kind = "retry"
      BY <1>2, <2>2 DEF Cache!CacheAnswer
    <3> HIDE DEF new
    <3> QED BY <1>2, <3>1, <3>2, <3>3
  <2>3. CASE Cache!WriteFails(w)
    <3> DEFINE new == [rWrite[w] EXCEPT !.pc = "done"]
    <3>1. new \in WriteRecords /\ rWrite' = [rWrite EXCEPT ![w] = new]
      BY <1>2, <2>3 DEF Cache!WriteFails, WriteRecords
    <3>2. new.pc = "done" /\ new.answer = rWrite[w].answer
          /\ new.number = rWrite[w].number /\ new.kind = rWrite[w].kind
      BY <1>2 DEF WriteRecords
    <3>3. UNCHANGED <<entry, inflight>>
      BY <1>2, <2>3 DEF Cache!WriteFails
    <3> HIDE DEF new
    <3> QED BY <1>2, <3>1, <3>2, <3>3
  <2> QED BY <2>1, <2>2, <2>3
<1>5. /\ inflight' \in {inflight, NoRefresh}
      /\ entry' = entry \/ (entry' \in Entries /\ entry'.value <= data)
  BY <1>2 DEF Cache!BuildAnswer, Cache!CacheAnswer, Cache!WriteFails, Entries
<1>6. CacheTypes
  BY DEF CacheInv
<1>7. /\ WriteTypes'
      /\ \A v \in Writers : rWrite'[v] = IF v = w THEN new ELSE rWrite[v]
      /\ Cardinality(Underway') =
            Cardinality(Underway)
            + (IF new.pc \in {"saved", "built", "cached"} THEN 1 ELSE 0)
            - (IF rWrite[w].pc \in {"saved", "built", "cached"} THEN 1 ELSE 0)
      /\ Cardinality(Underway) \in Nat
  <2>1. data' \in Nat /\ data' >= data /\ new.number <= data' /\ new.answer <= data'
        /\ followed' \in [clearing : Nat, retry : Nat] /\ followed'.clearing <= data'
    BY <1>1, <1>2, <1>4
  <2> QED BY <1>4, <1>6, <2>1, CacheWriteChange
<1>8. epoch' + Cardinality(Underway') <= data' /\ data' \in Nat /\ data' >= data
      /\ epoch' \in Nat /\ epoch' >= epoch
  BY <1>1, <1>2, <1>3, <1>7
<1>9. CacheTypes'
  BY <1>1, <1>5, <1>6, <1>7, <1>8, WriteSideTypes
<1>10. NamedRefreshesRun'
  BY <1>1, <1>5 DEF CacheInv, NamedRefreshesRun
<1>11. ASSUME NoRetry' PROVE NoRetry /\ UNCHANGED <<entry, inflight>>
  <2>1. new.pc \notin {"cached"}
    BY <1>4, <1>7, <1>11 DEF NoRetry
  <2> QED BY <1>3, <1>4, <1>7, <1>11, <2>1 DEF NoRetry
<1>12. ASSUME CacheFollows, UNCHANGED <<entry, inflight>> PROVE CacheFollows'
  BY <1>1, <1>12 DEF CacheFollows, EntryFollows, RefreshesFollow, WaitsFollow, ReadsFollow
<1> QED BY <1>1, <1>9, <1>10, <1>11, <1>12 DEF CacheInv

\* An answered write begins an epoch, in which no refresh has been launched yet.
LEMMA CacheAnswered ==
    ASSUME CacheInv, NEW w \in Writers, Cache!WriteAnswered(w)
    PROVE  CacheInv'
<1> DEFINE new == [rWrite[w] EXCEPT !.pc = "done"]
<1>1. /\ rWrite' = [rWrite EXCEPT ![w] = new] /\ epoch' = epoch + 1
      /\ UNCHANGED <<route, data, refresh, queue, read>>
      /\ inflight' \in {inflight, NoRefresh} /\ entry' \in {entry, NoEntry}
      /\ rWrite[w].pc \in {"saved", "cached"}
      /\ route # "public" /\ rWrite[w].kind = "clearing" => entry' = NoEntry
  BY DEF Cache!WriteAnswered, Cache!ClearsCache, CacheInv, CacheTypes, WriteTypes, WriteRecords
<1>2. /\ data \in Nat /\ epoch \in Nat /\ epoch + Cardinality(Underway) <= data
      /\ followed \in [clearing : Nat, retry : Nat] /\ followed.clearing <= data
      /\ rWrite[w] \in WriteRecords /\ rWrite[w].number <= data /\ rWrite[w].answer <= data
      /\ rWrite[w].number \in Nat
  BY DEF CacheInv, CacheTypes, WriteTypes, WriteRecords
<1>3. /\ new \in WriteRecords /\ new.pc = "done" /\ new.kind = rWrite[w].kind
      /\ new.number <= data /\ new.answer <= data
  BY <1>2 DEF WriteRecords
<1> HIDE DEF new
<1>4. /\ followed' \in [clearing : Nat, retry : Nat] /\ followed'.clearing <= data
      /\ rWrite[w].kind # "clearing" => followed'.clearing = followed.clearing
  <2>1. \/ followed' = followed
        \/ /\ rWrite[w].kind \in DOMAIN followed
           /\ followed' = [followed EXCEPT ![rWrite[w].kind] = rWrite[w].number]
    BY DEF Cache!WriteAnswered
  <2>2. DOMAIN followed = {"clearing", "retry"}
    BY <1>2
  <2>3. CASE rWrite[w].kind = "clearing"
               /\ followed' = [followed EXCEPT !.clearing = rWrite[w].number]
    BY <1>2, <2>3
  <2>4. CASE rWrite[w].kind = "retry"
               /\ followed' = [followed EXCEPT !.retry = rWrite[w].number]
    BY <1>2, <2>4
  <2>5. CASE followed' = followed
    BY <1>2, <2>5
  <2> QED BY <2>1, <2>2, <2>3, <2>4, <2>5
<1>5. CacheTypes
  BY DEF CacheInv
<1>6. /\ WriteTypes'
      /\ \A v \in Writers : rWrite'[v] = IF v = w THEN new ELSE rWrite[v]
      /\ Cardinality(Underway') =
            Cardinality(Underway)
            + (IF new.pc \in {"saved", "built", "cached"} THEN 1 ELSE 0)
            - (IF rWrite[w].pc \in {"saved", "built", "cached"} THEN 1 ELSE 0)
      /\ Cardinality(Underway) \in Nat
  <2>1. data' \in Nat /\ data' >= data /\ new.number <= data' /\ new.answer <= data'
        /\ followed' \in [clearing : Nat, retry : Nat] /\ followed'.clearing <= data'
        /\ (new.pc \in {"built", "cached"} => new.kind = "retry")
    BY <1>1, <1>2, <1>3, <1>4
  <2> QED BY <1>1, <1>3, <1>5, <2>1, CacheWriteChange
<1>7. epoch' + Cardinality(Underway') <= data' /\ data' \in Nat /\ data' >= data
      /\ epoch' \in Nat /\ epoch' >= epoch
  BY <1>1, <1>2, <1>3, <1>6
<1>8. CacheTypes'
  BY <1>1, <1>5, <1>6, <1>7, WriteSideTypes
<1>9. NamedRefreshesRun'
  BY <1>1 DEF CacheInv, NamedRefreshesRun
<1>10. NoRetry' => NoRetry
  <2>1. ASSUME NoRetry', rWrite[w].pc \in {"cached", "done"} PROVE rWrite[w].kind # "retry"
    BY <1>3, <1>6, <2>1 DEF NoRetry
  <2> QED BY <1>6, <2>1 DEF NoRetry
<1>11. ASSUME CacheFollows, route # "public" PROVE CacheFollows'
  <2>1. EntryFollows'
    BY <1>1, <1>4, <1>11 DEF CacheFollows, EntryFollows
  <2>2. RefreshesFollow'
    <3>1. \A f \in Refreshes : refresh[f].epoch \in Nat /\ refresh[f].epoch <= epoch
      BY DEF CacheInv, CacheTypes, RefreshTypes, RefreshRecords
    <3> QED BY <1>1, <1>2, <3>1 DEF RefreshesFollow
  <2>3. WaitsFollow' /\ ReadsFollow'
    BY <1>1, <1>11 DEF CacheFollows, WaitsFollow, ReadsFollow
  <2> QED BY <2>1, <2>2, <2>3 DEF CacheFollows
<1> QED BY <1>1, <1>8, <1>9, <1>10, <1>11 DEF CacheInv

LEMMA CacheNext ==
    ASSUME CacheInv, [Cache!Next]_cVars
    PROVE  CacheInv'
<1>1. CASE UNCHANGED cVars
  BY <1>1 DEF cVars, CacheInv, CacheTypes, RefreshTypes, EntryTypes, ReadTypes, WriteTypes,
              Underway, NamedRefreshesRun, NoRetry, CacheFollows, EntryFollows, RefreshesFollow,
              WaitsFollow, ReadsFollow
<1> QED BY <1>1, CacheAges, CacheProduce, CacheRefreshOver, CacheReadStep, CacheColdStep,
           CacheSave, CacheWriteStep, CacheAnswered DEF Cache!Next

LEMMA CacheHolds ==
    ASSUME CacheInv
    PROVE  Cache!TypeOK /\ Cache!AnswersFollowWrites
<1>1. epoch \in 0..data
  BY UnderwayIsFinite DEF CacheInv, CacheTypes
<1>2. entry = NoEntry \/ (entry.value \in 0..data /\ entry.age \in {"fresh", "retained"})
  BY DEF CacheInv, CacheTypes, EntryTypes, Entries
<1>3. /\ \A f \in Refreshes :
            /\ refresh[f].pc \in {"unused", "queued", "running", "has_read"}
            /\ refresh[f].epoch <= epoch /\ refresh[f].value <= data
      /\ inflight \in Refreshes \union {NoRefresh} /\ queue \in Seq(Refreshes)
  BY DEF CacheInv, CacheTypes, RefreshTypes, RefreshRecords
<1>4. \A w \in Writers : /\ rWrite[w].pc \in {"idle", "saved", "built", "cached", "done"}
                         /\ rWrite[w].kind \in Cache!Kinds
  BY DEF CacheInv, CacheTypes, WriteTypes, WriteRecords
<1>5. \A r \in Readers : /\ read[r].pc \in {"idle", "waiting", "answered", "failed"}
                         /\ read[r].on \in Refreshes \union {NoRefresh}
  BY DEF CacheInv, CacheTypes, ReadTypes, ReadRecords
<1>6. Cache!TypeOK
  BY <1>1, <1>2, <1>3, <1>4, <1>5 DEF Cache!TypeOK, CacheInv, CacheTypes
<1>7. Cache!AnswersFollowWrites
  BY DEF Cache!AnswersFollowWrites, CacheInv, CacheFollows, ReadsFollow, NoRetry
<1> QED BY <1>6, <1>7

\* In HotReads by itself: reads reflect the writes answered before them (cachedX402Plan).
THEOREM CacheFollowsWrites == Cache!Spec => [](Cache!TypeOK /\ Cache!AnswersFollowWrites)
<1>1. CacheInv => Cache!TypeOK /\ Cache!AnswersFollowWrites
  BY CacheHolds
<1>2. Cache!Spec => []CacheInv
  BY CacheInit, CacheNext, PTL DEF Cache!Spec, cVars, Cache!vars
<1> QED BY <1>1, <1>2, PTL

LEMMA StoresCacheStep ==
    ASSUME CacheInv, [StoresNext]_allVars
    PROVE  CacheInv'
<1>1. [Cache!Next]_cVars
  BY DEF StoresNext, allVars, cVars
<1> QED BY <1>1, CacheNext

\* A plan or payment-state read that begins after the answer to a write is answered with
\* data that reflect it, in whatever order refreshes that were launched before it end,
\* unless a settlement retry has put its own answer into the cache (cachedX402Plan,
\* cachedX402PaymentState, invalidateCachesAfterWrite).
THEOREM AnswersFollowWritesAlways == StoresSpec => []AnswersFollowWrites
<1>1. CacheInv => AnswersFollowWrites
  BY CacheHolds DEF AnswersFollowWrites
<1>2. StoresInit => CacheInv
  BY CacheInit DEF StoresInit
<1>3. StoresSpec => []CacheInv
  BY <1>2, StoresCacheStep, PTL DEF StoresSpec
<1> QED BY <1>1, <1>3, PTL

-----------------------------------------------------------------------------
(* The relay hub, for any connections and calls.  The inductive invariant adds to    *)
(* the properties what makes them inductive: an unarmed acknowledgement timer means  *)
(* that the worker was seen, and a connection remembers only calls that were         *)
(* answered by a return.                                                             *)

DisarmedMeansSeen ==
    \A m \in Calls : answer[m] = "waiting" /\ m \notin ackTimer => saw[m] # "nothing"

RecentMeansAnswered ==
    \A c \in Conns : \A m \in recent[c] : answer[m] = "response"

HubInv ==
    /\ TypeOK
    /\ CallsAccountedFor
    /\ TimeoutsAreTrue
    /\ ReturnsAreKept
    /\ DisarmedMeansSeen
    /\ RecentMeansAnswered

LEMMA InitInv == Init => HubInv
  BY DEF Init, HubInv, TypeOK, CallsAccountedFor, TimeoutsAreTrue, ReturnsAreKept,
         DisarmedMeansSeen, RecentMeansAnswered, Sockets, Traces, Answers, BadFrameLimit

\* A rejected connection: each of its calls is settled, the others are untouched.
LEMMA RejectKeepsInv ==
    ASSUME HubInv, NEW c \in Conns, RejectPending(c),
           UNCHANGED <<recent, saw, returned, late, sent>>,
           NEW s \in {"open", "ending", "destroyed", "closed"},
           sock' = [sock EXCEPT ![c] = s],
           sock[c] # "new",
           fresh' \in SUBSET Conns,
           badFrames' \in [Conns -> 0..BadFrameLimit]
    PROVE  HubInv'
<1> USE DEF HubInv, RejectPending, Disarm, Answered
<1>1. TypeOK'
  BY DEF TypeOK, Sockets, Answers
<1>2. /\ \A m \in pending[c] : answer'[m] = "dropped"
      /\ \A m \in Calls \ pending[c] : answer'[m] = answer[m]
      /\ \A d \in Conns : pending'[d] = IF d = c THEN {} ELSE pending[d]
  BY DEF TypeOK
<1>3. CallsAccountedFor'
  <2>1. \A m \in Calls, d \in Conns : m \in pending[c] /\ m \in pending[d] => d = c
    BY DEF CallsAccountedFor
  <2>2. \A m \in Calls : answer'[m] = "waiting" <=> \E d \in Conns : m \in pending'[d]
    BY <1>2, <2>1 DEF CallsAccountedFor, TypeOK
  <2>3. \A m \in Calls : answer'[m] = "waiting" <=> m \in returnTimer'
    BY <1>2 DEF CallsAccountedFor, TypeOK
  <2>4. \A m \in Calls, d, e \in Conns : m \in pending'[d] /\ m \in pending'[e] => d = e
    BY <1>2 DEF CallsAccountedFor
  <2>5. ackTimer' \subseteq returnTimer'
    BY DEF CallsAccountedFor
  <2>6. \A d \in Conns : sock'[d] \in {"new", "closed"} => pending'[d] = {}
    BY <1>2 DEF CallsAccountedFor, TypeOK
  <2> QED BY <2>2, <2>3, <2>4, <2>5, <2>6 DEF CallsAccountedFor
<1>4. TimeoutsAreTrue'
  BY <1>2 DEF TimeoutsAreTrue, TypeOK
<1>5. \A m \in pending[c] : answer[m] = "waiting"
  BY DEF CallsAccountedFor, TypeOK
<1>6. ReturnsAreKept'
  BY <1>2, <1>5 DEF ReturnsAreKept, TypeOK
<1>7. DisarmedMeansSeen'
  BY <1>2 DEF DisarmedMeansSeen, TypeOK
<1>8. RecentMeansAnswered'
  BY <1>2, <1>5 DEF RecentMeansAnswered, TypeOK
<1> QED BY <1>1, <1>3, <1>4, <1>6, <1>7, <1>8

\* One waiting call is settled.
LEMMA SettleKeepsInv ==
    ASSUME HubInv, NEW c \in Conns, NEW m \in pending[c], NEW how \in Answers,
           Settle(c, m, how),
           how \notin {"none", "waiting", "return_timeout"},
           \A k \in Calls \ {m} : saw'[k] = saw[k],
           saw' \in [Calls -> Traces],
           how = "ack_timeout" => saw'[m] = "nothing",
           how = "return_timeout_after_ack" => saw'[m] # "nothing",
           UNCHANGED <<sock, fresh, sent, late>>,
           badFrames' \in [Conns -> 0..BadFrameLimit],
           returned \subseteq returned', returned' \subseteq returned \union {m},
           m \in returned' => how = "response" \/ m \in late,
           \A d \in Conns : recent'[d] \subseteq recent[d] \union {m},
           recent' \in [Conns -> SUBSET Calls],
           how # "response" => recent' = recent
    PROVE  HubInv'
<1> USE DEF HubInv, Settle, Disarm, Answered
<1>0. m \in Calls /\ answer[m] = "waiting"
  BY DEF TypeOK, CallsAccountedFor
<1>1. TypeOK'
  BY <1>0 DEF TypeOK
<1>2. /\ answer'[m] = how
      /\ \A k \in Calls \ {m} : answer'[k] = answer[k]
      /\ \A d \in Conns : pending'[d] = IF d = c THEN pending[d] \ {m} ELSE pending[d]
  BY <1>0 DEF TypeOK
<1>3. CallsAccountedFor'
  <2>1. \A d \in Conns : m \in pending[d] => d = c
    BY <1>0 DEF CallsAccountedFor
  <2>2. \A k \in Calls : answer'[k] = "waiting" <=> \E d \in Conns : k \in pending'[d]
    <3>1. answer'[m] # "waiting" /\ \A d \in Conns : m \notin pending'[d]
      <4>1. answer'[m] # "waiting"
        BY <1>2
      <4>2. ASSUME NEW d \in Conns PROVE m \notin pending'[d]
        <5>1. CASE d = c
          BY <1>2, <5>1
        <5>2. CASE d # c
          BY <1>2, <2>1, <5>2
        <5> QED BY <5>1, <5>2
      <4> QED BY <4>1, <4>2
    <3>2. ASSUME NEW k \in Calls \ {m}
          PROVE  answer'[k] = "waiting" <=> \E d \in Conns : k \in pending'[d]
      <4>1. answer'[k] = answer[k] /\ \A d \in Conns : k \in pending'[d] <=> k \in pending[d]
        BY <1>2
      <4> QED BY <4>1 DEF CallsAccountedFor
    <3> QED BY <3>1, <3>2
  <2>3. \A k \in Calls : answer'[k] = "waiting" <=> k \in returnTimer'
    BY <1>2, <1>0 DEF CallsAccountedFor
  <2>4. \A k \in Calls, d, e \in Conns : k \in pending'[d] /\ k \in pending'[e] => d = e
    BY <1>2 DEF CallsAccountedFor
  <2>5. ackTimer' \subseteq returnTimer'
    BY DEF CallsAccountedFor
  <2>6. \A d \in Conns : sock'[d] \in {"new", "closed"} => pending'[d] = {}
    BY <1>2 DEF CallsAccountedFor
  <2> QED BY <2>2, <2>3, <2>4, <2>5, <2>6 DEF CallsAccountedFor
<1>4. TimeoutsAreTrue'
  BY <1>0, <1>2 DEF TimeoutsAreTrue
<1>5. ReturnsAreKept'
  BY <1>0, <1>2 DEF ReturnsAreKept, TypeOK
<1>6. DisarmedMeansSeen'
  BY <1>0, <1>2 DEF DisarmedMeansSeen
<1>7. RecentMeansAnswered'
  BY <1>0, <1>2 DEF RecentMeansAnswered, TypeOK
<1> QED BY <1>1, <1>3, <1>4, <1>5, <1>6, <1>7

LEMMA SocketKeepsInv ==
    ASSUME HubInv, NEW c \in Conns, SocketStep(c)
    PROVE  HubInv'
<1> USE DEF Connected, Readable, AfterClose, AfterWrite
<1>0. sock \in [Conns -> Sockets] /\ badFrames \in [Conns -> 0..BadFrameLimit]
      /\ fresh \in SUBSET Conns
  BY DEF HubInv, TypeOK
<1>1. CASE Upgrade(c)
  BY <1>1 DEF HubInv, Upgrade, TypeOK, CallsAccountedFor, TimeoutsAreTrue, ReturnsAreKept,
              DisarmedMeansSeen, RecentMeansAnswered, Sockets
<1>2. CASE Heartbeat(c) \/ OtherFrame(c)
  BY <1>2 DEF HubInv, Heartbeat, OtherFrame, TypeOK, CallsAccountedFor, TimeoutsAreTrue, ReturnsAreKept,
              DisarmedMeansSeen, RecentMeansAnswered, BadFrameLimit
<1>3. CASE GoesStale(c)
  BY <1>3 DEF HubInv, GoesStale, TypeOK, CallsAccountedFor, TimeoutsAreTrue, ReturnsAreKept,
              DisarmedMeansSeen, RecentMeansAnswered
<1>4. CASE Sweep(c)
  BY <1>0, <1>4, RejectKeepsInv DEF Sweep
<1>5. CASE SocketGone(c)
  BY <1>0, <1>5, RejectKeepsInv DEF SocketGone
<1>6. CASE CloseFrame(c)
  BY <1>0, <1>6, RejectKeepsInv DEF CloseFrame
<1>7. CASE OversizedFrame(c)
  BY <1>7 DEF HubInv, OversizedFrame, TypeOK, CallsAccountedFor, TimeoutsAreTrue,
              ReturnsAreKept, DisarmedMeansSeen, RecentMeansAnswered, Sockets
<1>8. CASE PingFrame(c)
  BY <1>8 DEF HubInv, PingFrame, TypeOK, CallsAccountedFor, TimeoutsAreTrue,
              ReturnsAreKept, DisarmedMeansSeen, RecentMeansAnswered, Sockets
<1>9. CASE InvalidFrame(c)
  <2>1. badFrames' \in [Conns -> 0..BadFrameLimit]
    BY <1>0, <1>9 DEF InvalidFrame, BadFrameLimit
  <2>2. CASE RejectPending(c) /\ sock' = [sock EXCEPT ![c] = AfterClose(c)]
    BY <1>0, <1>9, <2>1, <2>2, RejectKeepsInv DEF InvalidFrame
  <2>3. CASE UNCHANGED <<pending, ackTimer, returnTimer, answer, sock>>
    BY <1>9, <2>1, <2>3 DEF HubInv, InvalidFrame, TypeOK, CallsAccountedFor,
       TimeoutsAreTrue, ReturnsAreKept, DisarmedMeansSeen, RecentMeansAnswered
  <2> QED BY <1>9, <2>2, <2>3 DEF InvalidFrame
<1> QED BY <1>1, <1>2, <1>3, <1>4, <1>5, <1>6, <1>7, <1>8, <1>9 DEF SocketStep

LEMMA CallKeepsInv ==
    ASSUME HubInv, NEW m \in Calls, CallStep(m)
    PROVE  HubInv'
<1>0. TypeOK /\ CallsAccountedFor
  BY DEF HubInv
<1>1. CASE Deliver(m) /\ ActiveConnections = {}
  <2>1. /\ UNCHANGED <<sock, pending, ackTimer, returnTimer, sent, fresh, recent,
                       badFrames, saw, returned, late>>
        /\ Answered({m}, "refused")
        /\ answer[m] = "none"
    BY <1>1 DEF Deliver
  <2>2. answer'[m] = "refused" /\ \A k \in Calls \ {m} : answer'[k] = answer[k]
    BY <2>1 DEF Answered
  <2>3. TypeOK'
    BY <1>0, <2>1 DEF TypeOK, Answered, Answers
  <2> QED
    BY <2>1, <2>2, <2>3 DEF HubInv, CallsAccountedFor, TimeoutsAreTrue, ReturnsAreKept,
       DisarmedMeansSeen, RecentMeansAnswered, TypeOK
<1>2. CASE Deliver(m) /\ ActiveConnections # {}
  <2>1. PICK c \in ActiveConnections :
             /\ pending' = [pending EXCEPT ![c] = @ \union {m}]
             /\ ackTimer' = ackTimer \union {m}
             /\ returnTimer' = returnTimer \union {m}
             /\ Answered({m}, "waiting")
             /\ sock' = [sock EXCEPT ![c] = AfterWrite(c)]
             /\ sent' = IF sock[c] = "open" THEN sent \union {m} ELSE sent
    BY <1>2 DEF Deliver
  <2>2. c \in Conns /\ Connected(c)
    BY DEF ActiveConnections
  <2>3. /\ UNCHANGED <<fresh, recent, badFrames, saw, returned, late>>
        /\ answer[m] = "none"
    BY <1>2 DEF Deliver
  <2>4. answer'[m] = "waiting" /\ \A k \in Calls \ {m} : answer'[k] = answer[k]
    BY <2>1 DEF Answered
  <2>5. TypeOK'
    BY <1>0, <2>1, <2>2, <2>3 DEF TypeOK, Answered, Answers, AfterWrite, Sockets
  <2>6. \A d \in Conns : pending'[d] = IF d = c THEN pending[d] \union {m} ELSE pending[d]
    BY <1>0, <2>1, <2>2 DEF TypeOK
  <2>7. \A d \in Conns : m \notin pending[d]
    BY <1>0, <2>3 DEF CallsAccountedFor
  <2>8. CallsAccountedFor'
    <3>1. \A k \in Calls : answer'[k] = "waiting" <=> \E d \in Conns : k \in pending'[d]
      <4>1. answer'[m] = "waiting" /\ m \in pending'[c]
        BY <2>2, <2>4, <2>6
      <4>2. ASSUME NEW k \in Calls \ {m}
            PROVE  answer'[k] = "waiting" <=> \E d \in Conns : k \in pending'[d]
        <5>1. answer'[k] = answer[k]
              /\ \A d \in Conns : k \in pending'[d] <=> k \in pending[d]
          BY <2>4, <2>6
        <5> QED BY <1>0, <5>1 DEF CallsAccountedFor
      <4> QED BY <2>2, <4>1, <4>2
    <3>2. \A k \in Calls : answer'[k] = "waiting" <=> k \in returnTimer'
      BY <1>0, <2>1, <2>4 DEF CallsAccountedFor
    <3>3. \A k \in Calls, d, e \in Conns : k \in pending'[d] /\ k \in pending'[e] => d = e
      <4>1. \A d \in Conns : m \in pending'[d] => d = c
        BY <2>6, <2>7
      <4>2. \A k \in Calls \ {m}, d \in Conns : k \in pending'[d] => k \in pending[d]
        BY <2>6
      <4>3. \A k \in Calls, d, e \in Conns : k \in pending[d] /\ k \in pending[e] => d = e
        BY <1>0 DEF CallsAccountedFor
      <4> QED BY <4>1, <4>2, <4>3
    <3>4. ackTimer' \subseteq returnTimer'
      BY <1>0, <2>1 DEF CallsAccountedFor
    <3>5. \A d \in Conns : sock'[d] \in {"new", "closed"} => pending'[d] = {}
      BY <1>0, <2>1, <2>2, <2>6 DEF CallsAccountedFor, TypeOK, Connected, AfterWrite
    <3> QED BY <3>1, <3>2, <3>3, <3>4, <3>5 DEF CallsAccountedFor
  <2>9. /\ TimeoutsAreTrue' /\ ReturnsAreKept' /\ DisarmedMeansSeen'
        /\ RecentMeansAnswered'
    BY <1>0, <2>1, <2>3, <2>4 DEF HubInv, TimeoutsAreTrue, ReturnsAreKept,
       DisarmedMeansSeen, RecentMeansAnswered, TypeOK
  <2> QED BY <2>5, <2>8, <2>9 DEF HubInv
<1>3. CASE AckTimeout(m)
  <2>1. CASE saw[m] = "nothing"
    <3>1. PICK c \in Conns : m \in pending[c] /\ Settle(c, m, "ack_timeout")
      BY <1>3, <2>1 DEF AckTimeout
    <3>2. UNCHANGED <<sock, fresh, recent, badFrames, saw, sent, returned, late>>
      BY <1>3 DEF AckTimeout
    <3>3. m \in returned => m \in late
      BY <1>0, <3>1 DEF HubInv, ReturnsAreKept, CallsAccountedFor
    <3> QED
      BY <1>0, <2>1, <3>1, <3>2, <3>3, SettleKeepsInv DEF Answers, TypeOK, HubInv,
         RecentMeansAnswered
  <2>2. CASE saw[m] # "nothing"
    BY <1>3, <2>2 DEF AckTimeout, HubInv, TypeOK, CallsAccountedFor, TimeoutsAreTrue,
       ReturnsAreKept, DisarmedMeansSeen, RecentMeansAnswered
  <2> QED BY <2>1, <2>2
<1>4. CASE ReturnTimeout(m)
  <2>1. answer[m] = "waiting" /\ m \notin ackTimer
    BY <1>0, <1>4 DEF ReturnTimeout, CallsAccountedFor
  <2>2. saw[m] # "nothing"
    BY <2>1 DEF HubInv, DisarmedMeansSeen
  <2>3. PICK c \in Conns : m \in pending[c] /\ Settle(c, m, "return_timeout_after_ack")
    BY <1>4, <2>2 DEF ReturnTimeout
  <2>4. UNCHANGED <<sock, fresh, recent, badFrames, saw, sent, returned, late>>
    BY <1>4 DEF ReturnTimeout
  <2>5. m \in returned => m \in late
    BY <2>1 DEF HubInv, ReturnsAreKept
  <2> QED
    BY <1>0, <2>2, <2>3, <2>4, <2>5, SettleKeepsInv DEF Answers, TypeOK
<1> QED BY <1>1, <1>2, <1>3, <1>4 DEF CallStep

LEMMA FrameKeepsInv ==
    ASSUME HubInv, NEW c \in Conns, NEW m \in Calls, FrameStep(c, m)
    PROVE  HubInv'
<1>0. TypeOK /\ CallsAccountedFor
  BY DEF HubInv
<1>1. CASE Reads(c, m)
  <2>1. badFrames' \in [Conns -> 0..BadFrameLimit]
    BY <1>0, <1>1 DEF Reads, TypeOK, BadFrameLimit
  <2>2. CASE Ack(c, m)
    BY <2>1, <2>2 DEF Ack, SawStep, HubInv, TypeOK, CallsAccountedFor, TimeoutsAreTrue,
       ReturnsAreKept, DisarmedMeansSeen, RecentMeansAnswered, Traces
  <2>3. ASSUME NEW step \in {"started", "worker"}, NEW clears \in BOOLEAN,
               Progress(c, m, step, clears)
        PROVE  HubInv'
    <3>1. ackTimer' \subseteq ackTimer /\ ackTimer \ {m} \subseteq ackTimer'
      BY <2>3 DEF Progress
    <3>2. /\ m \in pending[c]
          /\ UNCHANGED <<sock, fresh, pending, recent, returnTimer, answer, sent,
                         returned, late>>
          /\ saw' = [saw EXCEPT ![m] = IF @ = "worker" THEN @ ELSE step]
      BY <2>3 DEF Progress, SawStep
    <3>3. saw' \in [Calls -> Traces] /\ saw'[m] # "nothing"
          /\ \A k \in Calls \ {m} : saw'[k] = saw[k]
      BY <1>0, <3>2 DEF TypeOK, Traces
    <3>4. answer[m] = "waiting"
      BY <1>0, <3>2 DEF CallsAccountedFor
    <3>5. TypeOK' /\ CallsAccountedFor'
      BY <1>0, <2>1, <3>1, <3>2, <3>3 DEF TypeOK, CallsAccountedFor
    <3>6. /\ TimeoutsAreTrue' /\ ReturnsAreKept' /\ DisarmedMeansSeen'
          /\ RecentMeansAnswered'
      BY <3>1, <3>2, <3>3, <3>4 DEF HubInv, TimeoutsAreTrue, ReturnsAreKept,
         DisarmedMeansSeen, RecentMeansAnswered
    <3> QED BY <3>5, <3>6 DEF HubInv
  <2>4. CASE Prepared(c, m)
    <3>1. m \in pending[c] /\ Settle(c, m, "response")
          /\ recent' = [recent EXCEPT ![c] = @ \union {m}]
          /\ UNCHANGED <<sock, fresh, sent, returned, late>>
          /\ saw' = [saw EXCEPT ![m] = "worker"]
      BY <1>0, <2>4 DEF Prepared, SawStep, TypeOK
    <3> QED
      BY <1>0, <2>1, <3>1, SettleKeepsInv DEF Answers, TypeOK, Traces
  <2>5. ASSUME NEW whole \in BOOLEAN, Response(c, m, whole), m \in pending[c]
        PROVE  HubInv'
    <3>1. Settle(c, m, "response")
          /\ recent' = [recent EXCEPT ![c] = @ \union {m}]
          /\ returned' \in {returned, returned \union {m}}
          /\ UNCHANGED <<sock, fresh, sent, saw, late>>
      BY <2>5 DEF Response
    <3> QED
      BY <1>0, <2>1, <2>5, <3>1, SettleKeepsInv DEF Answers, TypeOK
  <2>6. ASSUME NEW whole \in BOOLEAN, Response(c, m, whole), m \notin pending[c]
        PROVE  HubInv'
    <3>1. /\ late' = IF whole /\ m \notin recent[c] THEN late \union {m} ELSE late
          /\ returned' = IF whole THEN returned \union {m} ELSE returned
          /\ UNCHANGED <<pending, recent, ackTimer, returnTimer, answer, sock, fresh,
                         saw, sent>>
      BY <2>6 DEF Response
    <3>2. TypeOK'
      BY <1>0, <2>1, <3>1 DEF TypeOK
    <3>3. ReturnsAreKept'
      BY <3>1 DEF HubInv, ReturnsAreKept, RecentMeansAnswered
    <3> QED
      BY <3>1, <3>2, <3>3 DEF HubInv, CallsAccountedFor, TimeoutsAreTrue,
         DisarmedMeansSeen, RecentMeansAnswered
  <2> QED
    <3>1. CASE Forget(c, m)
      BY <3>1 DEF Forget, HubInv, TypeOK, CallsAccountedFor, TimeoutsAreTrue,
         ReturnsAreKept, DisarmedMeansSeen, RecentMeansAnswered
    <3> QED BY <2>2, <2>3, <2>4, <2>5, <2>6, <3>1 DEF FrameStep
<1>2. CASE Forget(c, m)
  BY <1>2 DEF Forget, HubInv, TypeOK, CallsAccountedFor, TimeoutsAreTrue,
     ReturnsAreKept, DisarmedMeansSeen, RecentMeansAnswered
<1> QED BY <1>1, <1>2 DEF FrameStep, Ack, Progress, Prepared, Response

LEMMA StepKeepsInv == HubInv /\ [Next]_vars => HubInv'
<1> SUFFICES ASSUME HubInv, [Next]_vars PROVE HubInv'
  OBVIOUS
<1>1. CASE UNCHANGED vars
  BY <1>1 DEF vars, HubInv, TypeOK, CallsAccountedFor, TimeoutsAreTrue, ReturnsAreKept,
              DisarmedMeansSeen, RecentMeansAnswered
<1> QED BY <1>1, SocketKeepsInv, FrameKeepsInv, CallKeepsInv DEF Next

LEMMA AlwaysInv == Spec => []HubInv
  BY InitInv, StepKeepsInv, PTL DEF Spec

Kept == \A m \in Calls : answer[m] \notin {"none", "waiting"} => answer'[m] = answer[m]

LEMMA StepKeepsAnswers == HubInv /\ [Next]_vars => Kept
<1> SUFFICES ASSUME HubInv, [Next]_vars PROVE Kept
  OBVIOUS
<1>0. TypeOK /\ CallsAccountedFor
  BY DEF HubInv
<1>1. ASSUME NEW c \in Conns, RejectPending(c) PROVE Kept
  BY <1>0, <1>1 DEF RejectPending, Answered, Kept, CallsAccountedFor
<1>2. ASSUME NEW c \in Conns, NEW m \in pending[c], NEW how, Settle(c, m, how)
      PROVE  Kept
  BY <1>0, <1>2 DEF Settle, Answered, Kept, CallsAccountedFor
<1>3. ASSUME NEW m \in Calls, NEW how, answer[m] = "none", Answered({m}, how)
      PROVE  Kept
  BY <1>3 DEF Answered, Kept
<1>4. CASE UNCHANGED answer
  BY <1>4 DEF Kept
<1>5. ASSUME NEW c \in Conns, SocketStep(c) PROVE Kept
  BY <1>1, <1>4, <1>5 DEF SocketStep, Upgrade, Heartbeat, OtherFrame, GoesStale, Sweep, SocketGone,
     CloseFrame, OversizedFrame, PingFrame, InvalidFrame
<1>6. ASSUME NEW c \in Conns, NEW m \in Calls, FrameStep(c, m) PROVE Kept
  BY <1>2, <1>4, <1>6 DEF FrameStep, Ack, Progress, Prepared, Response, Forget
<1>7. ASSUME NEW m \in Calls, CallStep(m) PROVE Kept
  <2>1. CASE Deliver(m)
    BY <1>3, <2>1 DEF Deliver
  <2>2. CASE AckTimeout(m)
    BY <1>2, <1>4, <2>2 DEF AckTimeout
  <2>3. CASE ReturnTimeout(m)
    BY <1>2, <2>3 DEF ReturnTimeout
  <2> QED BY <1>7, <2>1, <2>2, <2>3 DEF CallStep
<1> QED BY <1>4, <1>5, <1>6, <1>7 DEF Next, vars

\* The relay's variables keep their types, for any connections and calls.
THEOREM RelayTypeCorrect == Spec => []TypeOK
  BY AlwaysInv, PTL DEF HubInv

\* No call is left behind by a timer, a frame or a lost socket.
THEOREM NoCallIsLost == Spec => []CallsAccountedFor
  BY AlwaysInv, PTL DEF HubInv

\* An acknowledgement timeout means that no sign of the worker was seen, a
\* response timeout that one was.
THEOREM TimeoutsTellTheTruth == Spec => []TimeoutsAreTrue
  BY AlwaysInv, PTL DEF HubInv

\* A return the hub has read is never lost, if it names its request and has a text.
THEOREM NoReturnIsLost == Spec => []ReturnsAreKept
  BY AlwaysInv, PTL DEF HubInv

\* A settled call keeps its answer.
THEOREM AnswersStay == Spec => AnswersAreFinal
<1>1. HubInv /\ [Next]_vars => [Kept]_vars
  BY StepKeepsAnswers
<1> QED BY <1>1, AlwaysInv, PTL DEF Spec, AnswersAreFinal, Kept

-----------------------------------------------------------------------------
(* The payment rail, under its own specification.  A requirement is a       *)
(* function of the terms it was built from, so a buyer who holds one is     *)
(* refused only under other terms; and what a request has verified it keeps *)
(* until it settles.                                                       *)

\* The type invariant, with what it leaves to the shape of the functions.
Typed ==
    /\ RailTypeOK
    /\ netFee \in [value : Nat, age : {"none", "fresh", "retained"}]
    /\ DOMAIN limit = Payments /\ DOMAIN planPrice = Payments /\ DOMAIN offer = Payments
    /\ DOMAIN asked = Payments /\ DOMAIN held = Payments /\ DOMAIN charged = Payments

\* The terms of a payment: the profile, and the fee where one is estimated.
Fees == {fee \in Nat : fee >= Floor}

AnyTerms(p) ==
    IF p \in Fixed THEN {<<prof>> : prof \in SellerProfiles} ELSE SellerProfiles \X Fees

\* The runtime a route builds under given terms.
RuntimeUnder(p, terms) ==
    IF p \in Fixed
    THEN IF terms[1].mode = "fixed" THEN RuntimeOf(terms[1], terms[1].price, Floor) ELSE NoRuntime
    ELSE RuntimeOf(terms[1], IF p \in Quoted THEN QuotedAmount ELSE ProbeAmount, terms[2])

Holding == {"challenged", "signed", "verified", "delivered", "waiting", "late", "unsettled",
            "settled"}

\* A requirement was built from the terms asked; every later stage has one; and a
\* verified payload is accepted by the runtime its request keeps.
RequirementOf(p) ==
    /\ offer[p] # NoRuntime =>
          asked[p] \in AnyTerms(p) /\ offer[p] = RuntimeUnder(p, asked[p])
    /\ stage[p] \in Holding => offer[p] # NoRuntime
    /\ stage[p] \in {"verified", "delivered"} => Accepts(held[p], offer[p])

RailInv == Typed /\ \A p \in Payments : RequirementOf(p)

-----------------------------------------------------------------------------
(* Fees and requirements.                                                 *)

\* The fee is at least the network fee and the protocol's share, rounded down.
LEMMA FeeBounds ==
    ASSUME NEW gross \in Nat, NEW fee \in Fees
    PROVE  /\ FeeOf(gross, fee) \in Nat
           /\ FeeOf(gross, fee) >= Floor
           /\ FeeOf(gross, fee) > 0
           /\ (FeeOf(gross, fee) + 1) * 10000 > gross * FeeBps
<1> DEFINE due == gross * FeeBps
           share == due \div 10000
<1>1. due \in Nat /\ Floor \in Nat \ {0} /\ fee \in Nat /\ fee >= Floor
  <2>1. FeeBps \in Nat
    BY RailAssumption DEF RailAssumption
  <2> QED BY <2>1, RailAssumption DEF RailAssumption, Fees
<1> HIDE DEF due
<1>2. share \in Nat /\ (share + 1) * 10000 > due
  BY <1>1
<1>3. FeeOf(gross, fee) = IF share > fee THEN share ELSE fee
  BY DEF FeeOf, AtLeast, due
<1> HIDE DEF share
<1>4. /\ FeeOf(gross, fee) \in Nat /\ FeeOf(gross, fee) >= Floor /\ FeeOf(gross, fee) > 0
      /\ (FeeOf(gross, fee) + 1) * 10000 > due
  BY <1>1, <1>2, <1>3
<1> QED BY <1>4 DEF due

\* What a buyer needs of a requirement: a share for the seller, the fee, and the price.
Payable(runtime) ==
    /\ runtime.split # NoSplit
    /\ runtime.split.seller > 0 /\ runtime.split.seller + runtime.split.fee = runtime.gross
    /\ runtime.split.fee >= Floor
    /\ (runtime.split.fee + 1) * 10000 > runtime.gross * FeeBps

\* The floor check and the split agree.
LEMMA RuntimeIsPayable ==
    ASSUME NEW prof \in SellerProfiles, NEW gross \in Nat, NEW fee \in Fees,
           RuntimeOf(prof, gross, fee) # NoRuntime,
           RuntimeOf(prof, gross, fee).facilitator = "hosted"
    PROVE  Payable(RuntimeOf(prof, gross, fee))
<1> DEFINE r == RuntimeOf(prof, gross, fee)
           taken == FeeOf(gross, fee)
<1>1. RailReady(prof, gross, fee)
  BY DEF RuntimeOf
<1>2. /\ r.facilitator = prof.facilitator /\ r.gross = gross /\ r.split = SplitOf(gross, fee)
  BY <1>1 DEF RuntimeOf
<1>3. /\ taken \in Nat /\ taken >= Floor /\ taken > 0
      /\ (taken + 1) * 10000 > gross * FeeBps
  BY FeeBounds
<1>4. gross > taken
  BY <1>1, <1>2 DEF RailReady, FloorMet
<1>5. SplitOf(gross, fee) = [seller |-> gross - taken, fee |-> taken]
  BY <1>3, <1>4 DEF SplitOf
<1> HIDE DEF r, taken
<1>6. [seller |-> gross - taken, fee |-> taken] \in [seller : Nat, fee : Nat]
  BY <1>3, <1>4
<1>7. r.split # NoSplit
  BY <1>2, <1>5, <1>6, RailAssumption DEF RailAssumption
<1>8. /\ r.split.seller = gross - taken /\ r.split.fee = taken
      /\ gross - taken > 0 /\ (gross - taken) + taken = gross
  BY <1>2, <1>3, <1>4, <1>5
<1>9. Payable(r)
  BY <1>2, <1>3, <1>7, <1>8 DEF Payable
<1> QED BY <1>9 DEF r

\* The terms of the moment are terms, and the route builds its runtime from them.
LEMMA TermsOfTheMoment ==
    ASSUME Typed, NEW p \in Payments
    PROVE  /\ Terms(p) \in AnyTerms(p)
           /\ RouteRuntime(p) = RuntimeUnder(p, Terms(p))
<1>1. EstimatedFee \in Fees
  BY RailAssumption DEF RailAssumption, Typed, RailTypeOK, EstimatedFee, AtLeast, Fees
<1>2. profile \in SellerProfiles
  BY DEF Typed, RailTypeOK
<1>3. CASE p \in Fixed
  BY <1>2, <1>3 DEF Terms, AnyTerms, RouteRuntime, RuntimeUnder, FixedRuntime
<1>4. CASE p \notin Fixed
  BY <1>1, <1>2, <1>4 DEF Terms, AnyTerms, RouteRuntime, RuntimeUnder, SampledRuntime
<1> QED BY <1>3, <1>4

\* A requirement passes the checks of the runtime it was built from.
LEMMA AcceptsItself ==
    ASSUME NEW runtime, runtime # NoRuntime
    PROVE  Accepts(runtime, runtime)
BY DEF Accepts

LEMMA TermsArePayable ==
    ASSUME NEW p \in Payments, NEW terms \in AnyTerms(p),
           RuntimeUnder(p, terms) # NoRuntime, RuntimeUnder(p, terms).facilitator = "hosted"
    PROVE  Payable(RuntimeUnder(p, terms))
<1>1. /\ Floor \in Fees /\ QuotedAmount \in Nat /\ ProbeAmount \in Nat
      /\ \A prof \in SellerProfiles : prof.price \in Nat
  BY RailAssumption DEF RailAssumption, Fees
<1>2. CASE p \in Fixed
  <2>1. terms[1] \in SellerProfiles
    BY <1>2 DEF AnyTerms
  <2>2. RuntimeUnder(p, terms) = RuntimeOf(terms[1], terms[1].price, Floor)
    BY <1>2 DEF RuntimeUnder
  <2> QED BY <1>1, <2>1, <2>2, RuntimeIsPayable
<1>3. CASE p \notin Fixed
  <2> DEFINE gross == IF p \in Quoted THEN QuotedAmount ELSE ProbeAmount
  <2>1. terms[1] \in SellerProfiles /\ terms[2] \in Fees
    BY <1>3 DEF AnyTerms
  <2>2. RuntimeUnder(p, terms) = RuntimeOf(terms[1], gross, terms[2])
    BY <1>3 DEF RuntimeUnder
  <2>3. gross \in Nat
    BY <1>1
  <2> HIDE DEF gross
  <2> QED BY <2>1, <2>2, <2>3, RuntimeIsPayable
<1> QED BY <1>2, <1>3

-----------------------------------------------------------------------------
(* The steps.                                                             *)

\* A payment that a step leaves alone keeps its requirement.
Untouched(p) ==
    /\ stage'[p] = stage[p] /\ offer'[p] = offer[p] /\ asked'[p] = asked[p]
    /\ held'[p] = held[p]

LEMMA UntouchedKeeps ==
    ASSUME NEW p \in Payments, RequirementOf(p), Untouched(p)
    PROVE  RequirementOf(p)'
BY DEF RequirementOf, Untouched

\* The network fee and the profile change under the buyers.
LEMMA SurroundingsKeep ==
    ASSUME RailInv,
           \/ MonitorTick \/ RefreshEnds \/ EstimateAges
           \/ \E prof \in SellerProfiles : EditProfile(prof)
    PROVE  RailInv'
<1>1. UNCHANGED <<stage, limit, planPrice, offer, asked, held, charged>>
  BY DEF MonitorTick, RefreshEnds, EstimateAges, EditProfile
<1>2. Typed'
  <2>1. CASE MonitorTick
    BY <2>1, RailAssumption DEF RailAssumption, MonitorTick, RailInv, Typed, RailTypeOK
  <2>2. CASE RefreshEnds
    <3>1. PICK value \in {AtLeast(s, Floor) : s \in Samples} \union {Floor} :
             netFee' = [value |-> value, age |-> "fresh"]
      BY <2>2 DEF RefreshEnds
    <3>2. value \in Nat /\ value >= Floor
      BY RailAssumption DEF RailAssumption, AtLeast
    <3>3. /\ netFee'.value \in Nat /\ netFee'.value >= Floor /\ netFee'.age = "fresh"
          /\ refreshing' = FALSE
      BY <2>2, <3>1, <3>2 DEF RefreshEnds
    <3> QED BY <2>2, <3>3 DEF RefreshEnds, RailInv, Typed, RailTypeOK
  <2>3. CASE EstimateAges
    BY <2>3 DEF EstimateAges, RailInv, Typed, RailTypeOK
  <2>4. ASSUME NEW prof \in SellerProfiles, EditProfile(prof) PROVE Typed'
    BY <2>4, RailAssumption DEF RailAssumption, EditProfile, RailInv, Typed, RailTypeOK
  <2> QED BY <2>1, <2>2, <2>3, <2>4
<1>3. \A p \in Payments : RequirementOf(p)'
  BY <1>1, UntouchedKeeps DEF RailInv, Untouched
<1> QED BY <1>2, <1>3 DEF RailInv

LEMMA ReadPlanKeeps ==
    ASSUME RailInv, NEW p \in Payments, NEW max \in Limits, ReadPlan(p, max)
    PROVE  RailInv'
<1>1. Typed'
  BY DEF ReadPlan, RailInv, Typed, RailTypeOK, Stages
<1>2. ASSUME NEW q \in Payments \ {p} PROVE RequirementOf(q)'
  BY <1>2, UntouchedKeeps DEF ReadPlan, RailInv, Typed, RailTypeOK, Untouched
<1>3. RequirementOf(p)'
  BY DEF ReadPlan, RailInv, Typed, RailTypeOK, RequirementOf, Holding
<1> QED BY <1>1, <1>2, <1>3 DEF RailInv

\* An estimate begins at most one refresh, within the bound.
LEMMA EstimateKeeps ==
    ASSUME RailTypeOK,
           (MayEstimate /\ EstimateBegins) \/ UNCHANGED <<refreshing, refreshes>>
    PROVE  refreshing' \in BOOLEAN /\ refreshes' \in 0..MaxRefreshes
<1>1. CASE UNCHANGED <<refreshing, refreshes>>
  BY <1>1 DEF RailTypeOK
<1>2. CASE refreshing' = TRUE /\ refreshes' = refreshes + 1 /\ refreshes < MaxRefreshes
  BY <1>2, RailAssumption DEF RailAssumption, RailTypeOK
<1> QED BY <1>1, <1>2, Zenon DEF MayEstimate, EstimateBegins

LEMMA ChallengeKeeps ==
    ASSUME RailInv, NEW p \in Payments, Challenge(p)
    PROVE  RailInv'
<1>1. /\ offer' = [offer EXCEPT ![p] = RouteRuntime(p)]
      /\ asked' = [asked EXCEPT ![p] = Terms(p)]
      /\ stage' = [stage EXCEPT
             ![p] = IF RouteRuntime(p) = NoRuntime THEN "over" ELSE "challenged"]
      /\ stage[p] \in {"planned", "idle"}
      /\ UNCHANGED <<profile, netFee, limit, planPrice, held, charged, edits>>
  BY DEF Challenge
<1>2. refreshing' \in BOOLEAN /\ refreshes' \in 0..MaxRefreshes
  BY EstimateKeeps, Zenon DEF Challenge, RailInv, Typed
<1>3. Typed'
  BY <1>1, <1>2 DEF RailInv, Typed, RailTypeOK, Stages
<1>4. ASSUME NEW q \in Payments \ {p} PROVE RequirementOf(q)'
  BY <1>1, <1>4, UntouchedKeeps DEF RailInv, Typed, RailTypeOK, Untouched
<1>5. RequirementOf(p)'
  <2>1. Terms(p) \in AnyTerms(p) /\ RouteRuntime(p) = RuntimeUnder(p, Terms(p))
    BY TermsOfTheMoment DEF RailInv
  <2>2. /\ offer'[p] = RouteRuntime(p) /\ asked'[p] = Terms(p)
        /\ stage'[p] = IF RouteRuntime(p) = NoRuntime THEN "over" ELSE "challenged"
    BY <1>1 DEF RailInv, Typed, RailTypeOK
  <2> QED BY <2>1, <2>2 DEF RequirementOf, Holding
<1> QED BY <1>3, <1>4, <1>5 DEF RailInv

\* The steps of a payment after its requirement: which stage comes after which, and what
\* becomes of the runtime.
Advances(p) ==
    /\ UNCHANGED <<profile, netFee, limit, planPrice, offer, asked, edits>>
    /\ refreshing' \in BOOLEAN /\ refreshes' \in 0..MaxRefreshes
    /\ \E st \in Stages :
          /\ stage' = [stage EXCEPT ![p] = st]
          /\ st \in Holding => stage[p] \in Holding
          /\ st # "idle"
          /\ \/ st = "settled" /\ charged' = [charged EXCEPT ![p] = offer[p]]
             \/ st # "settled" /\ stage[p] # "settled" /\ charged' = charged
          /\ \/ /\ st \in {"verified", "delivered"}
                /\ \/ held' = held /\ stage[p] \in {"verified", "delivered"}
                   \/ \E r : held' = [held EXCEPT ![p] = r] /\ Accepts(r, offer[p])
             \/ /\ st \notin {"verified", "delivered"}
                /\ \/ held' = held /\ stage[p] \notin {"verified", "delivered"}
                   \/ held' = [held EXCEPT ![p] = NoRuntime]

LEMMA AdvancesKeeps ==
    ASSUME RailInv, NEW p \in Payments, Advances(p)
    PROVE  RailInv'
<1>1. PICK st \in Stages :
        /\ stage' = [stage EXCEPT ![p] = st]
        /\ st \in Holding => stage[p] \in Holding
        /\ \/ st = "settled" /\ charged' = [charged EXCEPT ![p] = offer[p]]
           \/ st # "settled" /\ stage[p] # "settled" /\ charged' = charged
        /\ \/ /\ st \in {"verified", "delivered"}
              /\ \/ held' = held /\ stage[p] \in {"verified", "delivered"}
                 \/ \E r : held' = [held EXCEPT ![p] = r] /\ Accepts(r, offer[p])
           \/ /\ st \notin {"verified", "delivered"}
              /\ \/ held' = held /\ stage[p] \notin {"verified", "delivered"}
                 \/ held' = [held EXCEPT ![p] = NoRuntime]
  BY DEF Advances
<1>2. stage'[p] = st /\ \A q \in Payments \ {p} : stage'[q] = stage[q]
  BY <1>1 DEF RailInv, Typed, RailTypeOK
<1>3. /\ \A q \in Payments \ {p} : held'[q] = held[q] /\ charged'[q] = charged[q]
      /\ DOMAIN held' = Payments /\ DOMAIN charged' = Payments
  BY <1>1 DEF RailInv, Typed
<1>4. /\ st \in {"verified", "delivered"} => Accepts(held'[p], offer[p])
      /\ st \notin {"verified", "delivered"} => held'[p] = NoRuntime
  BY <1>1 DEF RailInv, Typed, RailTypeOK, RequirementOf
<1>5. st \in Holding => offer[p] # NoRuntime
  BY <1>1 DEF RailInv, RequirementOf
<1>6. charged'[p] # NoRuntime <=> st = "settled"
  BY <1>1, <1>5 DEF RailInv, Typed, RailTypeOK, Holding
<1>7. Typed'
  BY <1>1, <1>2, <1>3, <1>4, <1>6 DEF Advances, RailInv, Typed, RailTypeOK
<1>8. ASSUME NEW q \in Payments \ {p} PROVE RequirementOf(q)'
  BY <1>2, <1>3, <1>8, UntouchedKeeps DEF Advances, RailInv, Untouched
<1>9. RequirementOf(p)'
  BY <1>2, <1>4, <1>5 DEF Advances, RailInv, RequirementOf
<1> QED BY <1>7, <1>8, <1>9 DEF RailInv

LEMMA SignAdvances ==
    ASSUME RailInv, NEW p \in Payments, Sign(p)
    PROVE  Advances(p)
BY DEF Sign, Advances, RailInv, Typed, RailTypeOK, Stages, Holding

LEMMA SubmitAdvances ==
    ASSUME RailInv, NEW p \in Payments, Submit(p)
    PROVE  Advances(p)
<1>1. refreshing' \in BOOLEAN /\ refreshes' \in 0..MaxRefreshes
  BY EstimateKeeps, Zenon DEF Submit, RailInv, Typed
<1> QED BY <1>1 DEF Submit, Advances, Stages, Holding

LEMMA ForwardedAdvances ==
    ASSUME RailInv, NEW p \in Payments, Forwarded(p) \/ LateReturn(p)
    PROVE  Advances(p)
BY DEF Forwarded, LateReturn, Advances, RailInv, Typed, RailTypeOK, Stages, Holding

LEMMA SettlementAdvances ==
    ASSUME RailInv, NEW p \in Payments, Finalize(p) \/ RetrySettlement(p)
    PROVE  Advances(p)
BY DEF Finalize, RetrySettlement, SettleWith, Advances, RailInv, Typed, RailTypeOK, Stages,
       Holding

LEMMA RestartKeeps ==
    ASSUME RailInv, Restart
    PROVE  RailInv'
<1>1. ASSUME NEW p \in Payments
      PROVE  /\ stage'[p] = IF stage[p] = "verified" THEN "waiting"
                            ELSE IF stage[p] = "delivered" THEN "unsettled" ELSE stage[p]
             /\ held'[p] = NoRuntime
  BY DEF Restart
<1>2. Typed'
  <2>1. stage' \in [Payments -> Stages]
    BY DEF Restart, RailInv, Typed, RailTypeOK, Stages
  <2>2. \A p \in Payments : charged'[p] # NoRuntime <=> stage'[p] = "settled"
    BY <1>1 DEF Restart, RailInv, Typed, RailTypeOK
  <2> QED BY <1>1, <2>1, <2>2 DEF Restart, RailInv, Typed, RailTypeOK
<1>3. ASSUME NEW p \in Payments PROVE RequirementOf(p)'
  BY <1>1, <1>3 DEF Restart, RailInv, RequirementOf, Holding
<1> QED BY <1>2, <1>3 DEF RailInv

LEMMA RailInitially == RailInit => RailInv
<1> SUFFICES ASSUME RailInit PROVE RailInv
  OBVIOUS
<1>1. Typed
  <2>1. /\ Floor \in Nat /\ MaxEdits \in Nat /\ MaxRefreshes \in Nat
    BY RailAssumption DEF RailAssumption
  <2>2. netFee \in [value : Nat, age : {"none", "fresh", "retained"}] /\ netFee.value >= Floor
    BY <2>1 DEF RailInit
  <2>3. /\ edits \in 0..MaxEdits /\ refreshes \in 0..MaxRefreshes
        /\ refreshing \in BOOLEAN
    <3>1. edits = 0 /\ refreshes = 0
      BY DEF RailInit
    <3>2. edits \in 0..MaxEdits /\ refreshes \in 0..MaxRefreshes
      BY <2>1, <3>1
    <3> QED BY <3>2 DEF RailInit
  <2>4. stage \in [Payments -> Stages]
    BY DEF RailInit, Stages
  <2>5. \A p \in Payments :
           /\ limit[p] \in Limits \union {0}
           /\ held[p] # NoRuntime => stage[p] \in {"verified", "delivered"}
           /\ charged[p] # NoRuntime <=> stage[p] = "settled"
    BY DEF RailInit
  <2> QED BY <2>2, <2>3, <2>4, <2>5 DEF RailInit, Typed, RailTypeOK
<1>2. \A p \in Payments : RequirementOf(p)
  BY DEF RailInit, RequirementOf, Holding
<1> QED BY <1>1, <1>2 DEF RailInv

LEMMA RailNextKeeps ==
    ASSUME RailInv, [RailNext]_railVars
    PROVE  RailInv'
<1>1. ASSUME NEW p \in Payments,
             \/ Challenge(p) \/ Sign(p) \/ Submit(p) \/ Forwarded(p) \/ LateReturn(p)
             \/ Finalize(p) \/ RetrySettlement(p)
      PROVE  RailInv'
  BY <1>1, ChallengeKeeps, SignAdvances, SubmitAdvances, ForwardedAdvances,
     SettlementAdvances, AdvancesKeeps
<1>2. CASE UNCHANGED railVars
  <2>1. Typed'
    BY <1>2 DEF railVars, RailInv, Typed, RailTypeOK
  <2>2. \A p \in Payments : RequirementOf(p)'
    BY <1>2, UntouchedKeeps DEF railVars, RailInv, Untouched
  <2> QED BY <2>1, <2>2 DEF RailInv
<1> QED BY <1>1, <1>2, SurroundingsKeep, ReadPlanKeeps, RestartKeeps DEF RailNext

-----------------------------------------------------------------------------
\* Requirements come from their terms, and verified payloads keep what accepted them: the
\* inductive invariant.
THEOREM RequirementsAreKept == RailSpec => []RailInv
<1> QED BY RailInitially, RailNextKeeps, PTL DEF RailSpec

\* A requirement of a hosted rail can be paid, and it is accepted as long as the terms it
\* was built from hold; a verified payload passes the checks of its settlement, for any
\* profiles, prices, fees and edits (pushHostedFacilitatorFloor, exactFeeSplitForRail,
\* verifyAgentX402PaymentLocally).
THEOREM OffersAlwaysHold == RailSpec => []OffersHold
<1>1. RailInv => OffersArePayable
  <2> SUFFICES ASSUME RailInv, NEW p \in Payments,
                      offer[p] # NoRuntime, offer[p].facilitator = "hosted"
               PROVE  Payable(offer[p])
    BY DEF OffersArePayable, Payable
  <2>1. asked[p] \in AnyTerms(p) /\ offer[p] = RuntimeUnder(p, asked[p])
    BY DEF RailInv, RequirementOf
  <2> QED BY <2>1, TermsArePayable
<1>2. RailInv => OffersAreHonoured
  <2> SUFFICES ASSUME RailInv, NEW p \in Payments
               PROVE  /\ stage[p] = "signed" /\ ~Accepts(RouteRuntime(p), offer[p]) =>
                            asked[p] # Terms(p)
                      /\ stage[p] = "delivered" => Accepts(FinalizerRuntime(p), offer[p])
    BY DEF OffersAreHonoured
  <2>1. RequirementOf(p) /\ Typed
    BY DEF RailInv
  <2>2. ASSUME stage[p] = "signed", asked[p] = Terms(p)
        PROVE  Accepts(RouteRuntime(p), offer[p])
    <3>1. offer[p] # NoRuntime /\ offer[p] = RuntimeUnder(p, asked[p])
      BY <2>1, <2>2 DEF RequirementOf, Holding
    <3>2. RouteRuntime(p) = offer[p]
      BY <2>1, <2>2, <3>1, TermsOfTheMoment
    <3> QED BY <3>1, <3>2, AcceptsItself
  <2>3. ASSUME stage[p] = "delivered" PROVE Accepts(FinalizerRuntime(p), offer[p])
    BY <2>1, <2>3 DEF RequirementOf, FinalizerRuntime, Accepts
  <2> QED BY <2>2, <2>3
<1>3. RailInv => RailTypeOK
  BY DEF RailInv, Typed
<1> QED BY <1>1, <1>2, <1>3, RequirementsAreKept, PTL DEF OffersHold
=============================================================================
