------------------------------- MODULE Procurement -------------------------------
(***************************************************************************)
(* Procurement intents: a buyer publishes an intent, agents bid on it or   *)
(* decline it, the buyer accepts one bid (apps/indexer/src/                *)
(* control-plane.ts).                                                      *)
(*                                                                         *)
(* Each call loads the whole file, decides on that copy, and saves a copy  *)
(* with one intent changed; bids and declines wait for the console state   *)
(* in between.  A caller that got no answer sends its call again, with or  *)
(* without an idempotency key.                                             *)
(***************************************************************************)
EXTENDS Naturals, FiniteSets

CONSTANTS
    Tasks,      \* calls under way; one that has ended is used again
    Intents,
    Agents,     \* bidders; an agent has one bid at most, and the bid has its name
    Keys,       \* idempotency keys
    NoKey,      \* a call without one
    NoAgent,
    NoWrite,
    MaxCalls

IntentStatuses == {"absent", "open", "awarded"}
BidStatuses    == {"none", "submitted", "accepted", "rejected"}

BidRecords == [status : BidStatuses, key : Keys \union {NoKey}]

IntentRecords ==
    [status    : IntentStatuses,
     createKey : Keys \union {NoKey},
     bid       : [Agents -> BidRecords],
     decline   : [Agents -> Keys \union {NoKey, "none"}],
     selected  : Agents \union {NoAgent}]

Files == [Intents -> IntentRecords]

\* What a call tells its caller that the caller acts on: the intent created for a key,
\* and the bid to hire.
Answers ==
    [op : {"create"}, key : Keys, intent : Intents]
        \union [op : {"accept"}, intent : Intents, agent : Agents]

VARIABLES
    file,           \* data/procurement-intents.json
    write,          \* what each call is about to save, and to answer then
    used,           \* history: the intents whose random id has been drawn
    answers,        \* history: what callers have been told
    overlapped,     \* history: a call began while another was under way
    calls           \* the calls made so far

vars == <<file, write, used, answers, overlapped, calls>>

NoBid == [status |-> "none", key |-> NoKey]

AbsentIntent ==
    [status |-> "absent", createKey |-> NoKey, bid |-> [a \in Agents |-> NoBid],
     decline |-> [a \in Agents |-> "none"], selected |-> NoAgent]

Quiet(k) == write[k] = NoWrite

Starts(k) ==
    /\ Quiet(k)
    /\ calls < MaxCalls
    /\ calls' = calls + 1
    /\ overlapped' = (overlapped \/ \E j \in Tasks : ~Quiet(j))

\* A call that saves f and then gives the answers of ans.
Saves(k, f, ans) ==
    /\ Starts(k)
    /\ write' = [write EXCEPT ![k] = [file |-> f, answers |-> ans]]
    /\ UNCHANGED <<file, answers>>

\* A call that answers from the copy it loaded.
AnswersOnly(k, ans) ==
    /\ Starts(k)
    /\ answers' = answers \union ans
    /\ UNCHANGED <<file, write, used>>

Created(key, i) == IF key = NoKey THEN {} ELSE {[op |-> "create", key |-> key, intent |-> i]}
Awarded(i, a)   == {[op |-> "accept", intent |-> i, agent |-> a]}

-----------------------------------------------------------------------------
Create(k, i, key) ==
    /\ i \notin used
    /\ key = NoKey \/ \A o \in Intents : file[o].createKey # key
    /\ used' = used \union {i}
    /\ Saves(k, [file EXCEPT ![i] = [AbsentIntent EXCEPT !.status = "open", !.createKey = key]],
             Created(key, i))

CreateAgain(k, i, key) ==
    /\ key # NoKey
    /\ file[i].createKey = key
    /\ AnswersOnly(k, Created(key, i))

\* A revision of the agent's bid keeps the key on file when it has none of its own.
Bid(k, i, a, key) ==
    LET r   == file[i]
        old == r.bid[a]
    IN  /\ r.status = "open"
        /\ key = NoKey \/ old.key # key
        /\ Saves(k, [file EXCEPT
                       ![i].bid[a] = [status |-> "submitted",
                                      key    |-> IF key = NoKey THEN old.key ELSE key],
                       ![i].decline[a] = "none"], {})
        /\ UNCHANGED used

\* An intent may be declined whatever its status.
Decline(k, i, a, key) ==
    /\ file[i].status # "absent"
    /\ key = NoKey \/ file[i].decline[a] # key
    /\ Saves(k, [file EXCEPT ![i].decline[a] = key], {})
    /\ UNCHANGED used

\* Mutant: only the chosen bid changes.
AcceptLeavesOthers(k, i, a) ==
    /\ file[i].status = "open"
    /\ file[i].bid[a].status = "submitted"
    /\ Saves(k, [file EXCEPT ![i].status = "awarded", ![i].selected = a,
                             ![i].bid[a].status = "accepted"], Awarded(i, a))
    /\ UNCHANGED used

Accept(k, i, a) ==
    /\ file[i].status = "open"
    /\ file[i].bid[a].status = "submitted"
    /\ Saves(k, [file EXCEPT ![i].status = "awarded", ![i].selected = a,
                             ![i].bid = [o \in Agents |-> [file[i].bid[o] EXCEPT !.status =
                                           IF o = a THEN "accepted"
                                           ELSE IF @ = "none" THEN "none" ELSE "rejected"]]],
             Awarded(i, a))
    /\ UNCHANGED used

AcceptAgain(k, i, a) ==
    /\ file[i].status = "awarded"
    /\ file[i].selected = a
    /\ AnswersOnly(k, Awarded(i, a))

Save(k) ==
    /\ ~Quiet(k)
    /\ file' = write[k].file
    /\ answers' = answers \union write[k].answers
    /\ write' = [write EXCEPT ![k] = NoWrite]
    /\ UNCHANGED <<used, overlapped, calls>>

\* The process restarts, before or after its last save.
Crash ==
    /\ \E k \in Tasks : ~Quiet(k)
    /\ write' = [k \in Tasks |-> NoWrite]
    /\ file' \in {file} \union {write[k].file : k \in {j \in Tasks : ~Quiet(j)}}
    /\ UNCHANGED <<used, answers, overlapped, calls>>

Init ==
    /\ file = [i \in Intents |-> AbsentIntent]
    /\ write = [k \in Tasks |-> NoWrite]
    /\ used = {}
    /\ answers = {}
    /\ overlapped = FALSE
    /\ calls = 0

Call(k, i) ==
    \/ \E key \in Keys \union {NoKey} :
          \/ Create(k, i, key) \/ CreateAgain(k, i, key)
          \/ \E a \in Agents : Bid(k, i, a, key) \/ Decline(k, i, a, key)
    \/ \E a \in Agents : Accept(k, i, a) \/ AcceptAgain(k, i, a)

Next ==
    \/ \E k \in Tasks : Save(k) \/ \E i \in Intents : Call(k, i)
    \/ Crash

Spec == Init /\ [][Next]_vars

-----------------------------------------------------------------------------
\* The file, the staged saves and the answers have their types.
TypeOK ==
    /\ file \in Files
    /\ \A k \in Tasks : ~Quiet(k) => /\ write[k].file \in Files
                                     /\ write[k].answers \subseteq Answers
    /\ used \subseteq Intents
    /\ answers \subseteq Answers
    /\ overlapped \in BOOLEAN
    /\ calls \in 0..MaxCalls

\* An awarded intent has one accepted bid, that of the agent it names, and no bid still
\* open; an open intent has no decided bid: also when a bid, a decline or an award made
\* from an old copy is saved over the award (acceptProcurementBid).
AwardMatchesBids ==
    \A i \in Intents :
       LET r == file[i] IN
       /\ r.status = "awarded" =>
             \A a \in Agents : r.bid[a].status \in (IF a = r.selected THEN {"accepted"}
                                                    ELSE {"none", "rejected"})
       /\ r.status # "awarded" =>
             /\ r.selected = NoAgent
             /\ \A a \in Agents : r.bid[a].status \in {"none", "submitted"}

\* As long as calls do not overlap, a key is answered with one intent and an intent with
\* one bid to hire, however often calls are sent again and the process restarts
\* (createProcurementIntent, acceptProcurementBid).
AnswersAgree ==
    overlapped \/
    \A x, y \in answers :
       /\ x.op = "create" /\ y.op = "create" /\ x.key = y.key => x.intent = y.intent
       /\ x.op = "accept" /\ y.op = "accept" /\ x.intent = y.intent => x.agent = y.agent
=============================================================================
