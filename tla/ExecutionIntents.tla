---------------------------- MODULE ExecutionIntents ----------------------------
(***************************************************************************)
(* Execution intents: the route that accepts a quote, the route that pays  *)
(* an accepted quote, the operator's routes, and the file the intents are  *)
(* kept in (apps/indexer/src/control-plane.ts and server.ts).              *)
(*                                                                         *)
(* A change of an intent loads the file, saves the changed file, queues an *)
(* anchor candidate, and saves the same copy of the file a second time     *)
(* with the candidate's id in it.  Other calls run at every await between. *)
(* The facilitator and the seller are the environment.                     *)
(***************************************************************************)
EXTENDS Naturals, FiniteSets

CONSTANTS
    Intents,        \* intent ids
    Quotes,         \* quotes of sellers
    Accepts,        \* calls that accept a quote
    Operators,      \* calls of the operator's routes
    Payers,         \* calls that pay an accepted quote
    Exclusive,      \* TRUE: no other change starts while one is under way
    MaxFailures,    \* anchor candidates that cannot be queued
    NoQuote, NoIntent, NoCall, NoFile

Calls == Accepts \union Operators \union Payers

Types    == {"created", "approved", "executed", "settled", "refunded"}
Statuses == {"absent", "pending", "approved", "executed", "settled", "refunded"}

Records ==
    [status   : Statuses,
     quote    : Quotes \union {NoQuote},
     by       : [Types -> Calls \union {NoCall}],
     anchored : SUBSET Types]

Files == [Intents -> Records]

ASSUME ConstantsAssumption ==
    /\ Exclusive \in BOOLEAN
    /\ MaxFailures \in Nat
    /\ NoQuote \notin Quotes
    /\ NoIntent \notin Intents
    /\ NoCall \notin Calls
    /\ NoFile \notin Files

ASSUME CallsAssumption ==
    /\ Accepts \intersect Operators = {}
    /\ Accepts \intersect Payers = {}
    /\ Operators \intersect Payers = {}

VARIABLES
    file,           \* data/execution-intents.json
    write,          \* the file each call is about to save
    copy,           \* the file as each call saved it, until its anchor is attached
    call,           \* the calls
    queue,          \* external: queued anchor candidates, <<intent, type, call>>
    used,           \* external: intent ids that have been drawn
    charged,        \* external: payers whose payload has been settled on chain
    returned,       \* history: payers whose hire came back completed
    failures

vars == <<file, write, copy, call, queue, used, charged, returned, failures>>

Absent == [status |-> "absent", quote |-> NoQuote,
           by |-> [k \in Types |-> NoCall], anchored |-> {}]

Idle == [pc |-> "idle", intent |-> NoIntent, quote |-> NoQuote, type |-> "created",
         out |-> "none"]

Quiet(t) == write[t] = NoFile
At(t, pc) == call[t].pc = pc /\ Quiet(t)
Goto(t, pc) == call' = [call EXCEPT ![t].pc = pc]
Turn(t, type) == call' = [call EXCEPT ![t].pc = "change", ![t].type = type]

Changing(t) == call[t].pc \in {"anchor", "attach"} \/ ~Quiet(t)
Free == Exclusive => \A t \in Calls : ~Changing(t)

-----------------------------------------------------------------------------
(* A change of one intent.                                                *)

\* Mutant: what is settled may still be refunded.
AllowedAfterSettlement(s, type) ==
    \/ type = "approved" /\ s = "pending"
    \/ type = "executed" /\ s = "approved"
    \/ type = "settled" /\ s = "executed"
    \/ type = "refunded" /\ s \in {"pending", "approved", "executed", "settled"}

Allowed(s, type) ==
    \/ type = "approved" /\ s = "pending"
    \/ type = "executed" /\ s = "approved"
    \/ type = "settled" /\ s = "executed"
    \/ type = "refunded" /\ s \in {"pending", "approved", "executed"}

\* Stage the next file, and keep it: the anchor will be attached to this copy.
Stage(t, i, r) ==
    /\ Free
    /\ write' = [write EXCEPT ![t] = [file EXCEPT ![i] = r]]
    /\ copy' = [copy EXCEPT ![t] = [file EXCEPT ![i] = r]]

Create(t, i) ==
    /\ At(t, "create")
    /\ i \notin used
    /\ used' = used \union {i}
    /\ Stage(t, i, [status |-> "pending", quote |-> call[t].quote,
                    by |-> [Absent.by EXCEPT !["created"] = t], anchored |-> {}])
    /\ call' = [call EXCEPT ![t].pc = "anchor", ![t].intent = i, ![t].type = "created"]
    /\ UNCHANGED <<file, queue, charged, returned, failures>>

\* An intent that is unknown, or not in a status for this transition, ends the call.
Change(t) ==
    LET i == call[t].intent
        k == call[t].type
        r == file[i]
    IN  /\ At(t, "change")
        /\ IF Allowed(r.status, k)
           THEN /\ Stage(t, i, [r EXCEPT !.status = k, !.by[k] = t])
                /\ Goto(t, "anchor")
           ELSE Goto(t, "end") /\ UNCHANGED <<write, copy>>
        /\ UNCHANGED <<file, queue, used, charged, returned, failures>>

Save(t) ==
    /\ ~Quiet(t)
    /\ file' = write[t]
    /\ write' = [write EXCEPT ![t] = NoFile]
    /\ UNCHANGED <<copy, call, queue, used, charged, returned, failures>>

Anchor(t) ==
    /\ At(t, "anchor")
    /\ queue' = queue \union {<<call[t].intent, call[t].type, t>>}
    /\ Goto(t, "attach")
    /\ UNCHANGED <<file, write, copy, used, charged, returned, failures>>

\* Mutant: the failure is swallowed, and the id is attached all the same.
AnchorFailsIgnored(t) ==
    /\ At(t, "anchor")
    /\ failures < MaxFailures
    /\ failures' = failures + 1
    /\ Goto(t, "attach")
    /\ UNCHANGED <<file, write, copy, queue, used, charged, returned>>

\* The anchor queue cannot be read or saved: the call fails, the change stays.
AnchorFails(t) ==
    /\ At(t, "anchor")
    /\ failures < MaxFailures
    /\ failures' = failures + 1
    /\ Goto(t, "end")
    /\ copy' = [copy EXCEPT ![t] = NoFile]
    /\ UNCHANGED <<file, write, queue, used, charged, returned>>

\* Mutant: the new id replaces those of the earlier transitions.
AttachForgets(t) ==
    LET i == call[t].intent IN
    /\ At(t, "attach")
    /\ write' = [write EXCEPT ![t] =
                   [copy[t] EXCEPT ![i].anchored = {call[t].type}]]
    /\ copy' = [copy EXCEPT ![t] = NoFile]
    /\ Goto(t, "changed")
    /\ UNCHANGED <<file, queue, used, charged, returned, failures>>

\* The copy saved before is saved again, with the candidate's id: it is not reloaded.
Attach(t) ==
    LET i == call[t].intent IN
    /\ At(t, "attach")
    /\ write' = [write EXCEPT ![t] =
                   [copy[t] EXCEPT ![i].anchored = @ \union {call[t].type}]]
    /\ copy' = [copy EXCEPT ![t] = NoFile]
    /\ Goto(t, "changed")
    /\ UNCHANGED <<file, queue, used, charged, returned, failures>>

\* A seller's completion and its settlement take two changes, one after the other.
Changed(t) ==
    LET k == call[t].type IN
    /\ At(t, "changed")
    /\ \/ k = "created" /\ t \in Accepts /\ Goto(t, "runtime")
       \/ k = "approved" /\ t \in Payers /\ Goto(t, "submit")
       \/ k = "executed" /\ call[t].out = "completed" /\ Turn(t, "settled")
       \/ /\ ~(k = "created" /\ t \in Accepts)
          /\ ~(k = "approved" /\ t \in Payers)
          /\ ~(k = "executed" /\ call[t].out = "completed")
          /\ Goto(t, "end")
    /\ UNCHANGED <<file, write, copy, queue, used, charged, returned, failures>>

-----------------------------------------------------------------------------
(* The routes.                                                             *)

Active(q) == {i \in Intents : file[i].quote = q /\ file[i].status \notin {"absent", "refunded"}}

\* Accepting a quote: the intents are read before the buyer's wallet proof is
\* verified and the seller probed, and are not read again before the creation.
StartAccept(t, q) ==
    /\ At(t, "idle")
    /\ call' = [call EXCEPT ![t].quote = q,
                            ![t].pc = IF Active(q) = {} THEN "create" ELSE "end"]
    /\ UNCHANGED <<file, write, copy, queue, used, charged, returned, failures>>

\* An accepted quote whose rail can emit no challenge is refunded.
Runtime(t) ==
    /\ At(t, "runtime")
    /\ Goto(t, "end") \/ Turn(t, "refunded")
    /\ UNCHANGED <<file, write, copy, queue, used, charged, returned, failures>>

StartCreate(t, q) ==
    /\ At(t, "idle")
    /\ call' = [call EXCEPT ![t].quote = q, ![t].pc = "create"]
    /\ UNCHANGED <<file, write, copy, queue, used, charged, returned, failures>>

StartChange(t, i, type) ==
    /\ At(t, "idle")
    /\ call' = [call EXCEPT ![t].intent = i, ![t].type = type, ![t].pc = "change"]
    /\ UNCHANGED <<file, write, copy, queue, used, charged, returned, failures>>

\* Paying an accepted quote goes by the intent's status as it was first looked up.
Lookup(t, i) ==
    /\ At(t, "idle")
    /\ file[i].quote # NoQuote
    /\ call' = [call EXCEPT ![t].intent = i,
                            ![t].type = "approved",
                            ![t].pc = IF file[i].status = "pending" THEN "change"
                                      ELSE IF file[i].status = "approved" THEN "submit"
                                      ELSE "end"]
    /\ UNCHANGED <<file, write, copy, queue, used, charged, returned, failures>>

\* The seller's answer. A submission that throws, or comes back with neither a
\* completion nor a failure, changes no intent.
Submit(t, out) ==
    /\ At(t, "submit")
    /\ call' = [call EXCEPT ![t].out = out,
                            ![t].type = "executed",
                            ![t].pc = IF out = "completed" THEN "charge"
                                      ELSE IF out = "failed" THEN "change"
                                      ELSE "end"]
    /\ returned' = IF out = "completed" THEN returned \union {t} ELSE returned
    /\ UNCHANGED <<file, write, copy, queue, used, charged, failures>>

Charge(t) ==
    /\ At(t, "charge")
    /\ charged' = charged \union {t}
    /\ Turn(t, "executed")
    /\ UNCHANGED <<file, write, copy, queue, used, returned, failures>>

\* Mutant: the failure is recorded and the completed hire goes on.
ChargeFailsGoesOn(t) ==
    /\ At(t, "charge")
    /\ charged' \in {charged, charged \union {t}}
    /\ Turn(t, "executed")
    /\ UNCHANGED <<file, write, copy, queue, used, returned, failures>>

\* The facilitator, or one of the records kept of its answer, fails: the call ends
\* and leaves the intent as it is.
ChargeFails(t) ==
    /\ At(t, "charge")
    /\ charged' \in {charged, charged \union {t}}
    /\ Goto(t, "end")
    /\ UNCHANGED <<file, write, copy, queue, used, returned, failures>>

-----------------------------------------------------------------------------
Init ==
    /\ file = [i \in Intents |-> Absent]
    /\ write = [t \in Calls |-> NoFile]
    /\ copy = [t \in Calls |-> NoFile]
    /\ call = [t \in Calls |-> Idle]
    /\ queue = {}
    /\ used = {}
    /\ charged = {}
    /\ returned = {}
    /\ failures = 0

Start(t) ==
    \/ t \in Accepts /\ \E q \in Quotes : StartAccept(t, q)
    \/ t \in Operators /\ \E q \in Quotes \union {NoQuote} : StartCreate(t, q)
    \/ t \in Operators /\ \E i \in Intents, k \in Types \ {"created"} : StartChange(t, i, k)
    \/ t \in Payers /\ \E i \in Intents : Lookup(t, i)

Proceed(t) ==
    \/ \E i \in Intents : Create(t, i)
    \/ Change(t)
    \/ Save(t)
    \/ Anchor(t)
    \/ AnchorFails(t)
    \/ Attach(t)
    \/ Changed(t)
    \/ Runtime(t)
    \/ \E out \in {"completed", "failed", "noReturn", "throws"} : Submit(t, out)
    \/ Charge(t)
    \/ ChargeFails(t)

Next == \E t \in Calls : Start(t) \/ Proceed(t)

Spec == Init /\ [][Next]_vars

\* A call that has begun goes on.
FairSpec == Spec /\ \A t \in Calls : WF_vars(Proceed(t))

-----------------------------------------------------------------------------
(* Properties.                                                             *)

PCs == {"idle", "create", "change", "anchor", "attach", "changed", "runtime",
        "submit", "charge", "end"}

CallStates ==
    [pc     : PCs,
     intent : Intents \union {NoIntent},
     quote  : Quotes \union {NoQuote},
     type   : Types,
     out    : {"none", "completed", "failed", "noReturn", "throws"}]

\* Every variable has its type; nothing but the intent file is kept between calls.
TypeOK ==
    /\ file \in Files
    /\ write \in [Calls -> Files \union {NoFile}]
    /\ copy \in [Calls -> Files \union {NoFile}]
    /\ call \in [Calls -> CallStates]
    /\ queue \subseteq Intents \X Types \X Calls
    /\ used \subseteq Intents
    /\ charged \subseteq Calls
    /\ returned \subseteq Calls
    /\ failures \in 0..MaxFailures

Taken(r) == {k \in Types : r.by[k] # NoCall}

\* The transitions that lead to each status.
Paths ==
    {<<"absent", {}>>,
     <<"pending", {"created"}>>,
     <<"approved", {"created", "approved"}>>,
     <<"executed", {"created", "approved", "executed"}>>,
     <<"settled", {"created", "approved", "executed", "settled"}>>,
     <<"refunded", {"created", "refunded"}>>,
     <<"refunded", {"created", "approved", "refunded"}>>,
     <<"refunded", {"created", "approved", "executed", "refunded"}>>}

Real(i, r) ==
    /\ <<r.status, Taken(r)>> \in Paths
    /\ \A k \in r.anchored : <<i, k, r.by[k]>> \in queue

\* The history of an intent is a path of the lifecycle that ends in its status, and
\* each of its entries that names an anchor names one queued by the very call that
\* made the transition: in the file and in every copy that a call may still save,
\* however calls overlap and anchors fail (attachExecutionTransitionAnchor).
HistoryIsReal ==
    \A i \in Intents :
       /\ Real(i, file[i])
       /\ \A t \in Calls : /\ write[t] # NoFile => Real(i, write[t][i])
                           /\ copy[t] # NoFile => Real(i, copy[t][i])

Paid(i, r) ==
    r.by["settled"] \in Payers =>
       /\ r.by["settled"] \in charged \intersect returned
       /\ call[r.by["settled"]].intent = i

\* An intent that the paying route marked settled was settled on chain by that call,
\* for a completed hire of that intent, whatever failed or overlapped before and
\* whichever call saved the file last (POST /api/x402/quote-intent).
SettledIsPaid ==
    \A i \in Intents :
       /\ Paid(i, file[i])
       /\ \A t \in Calls : /\ write[t] # NoFile => Paid(i, write[t][i])
                           /\ copy[t] # NoFile => Paid(i, copy[t][i])

\* When changes do not overlap and no anchor failed to be queued, every transition of
\* every intent has its anchor once the calls are done (enqueueExecutionIntent-
\* TransitionAnchor): the log that proves an intent's history to others is complete.
EveryStepIsAnchored ==
    Exclusive /\ failures = 0 /\ (\A t \in Calls : ~Changing(t)) =>
       \A i \in Intents : file[i].anchored = Taken(file[i])

Lifecycle == INSTANCE IntentLifecycle WITH status <- [i \in Intents |-> file[i].status]

\* The file implements the lifecycle: every save moves one intent along one legal
\* transition, or none (assertExecutionIntentTransitionAllowed). It does when
\* changes do not overlap.
StatusesMoveForward == Lifecycle!Spec
=============================================================================
