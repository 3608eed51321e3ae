---------------------------- MODULE PrivacyExceptions ----------------------------
(* Privacy exceptions of the console state: asked for by an event, approved by        *)
(* guardians until there are as many as the governance policy requires, and over      *)
(* after a time. (control-plane.ts)                                                  *)
(*                                                                                   *)
(* Every handler loads the whole state, and saves its own copy of it. So does a mere  *)
(* read of the console: finding an exception whose time is over it saves its copy,    *)
(* without waiting for the save, and what was saved meanwhile is undone.              *)
EXTENDS Naturals, Sequences, FiniteSets, SequencesExt

CONSTANTS
    Calls,
    Exceptions,     \* exceptions; one is in the state from the start
    Guardians,      \* who approves
    Required,       \* approvals the governance policy requires
    Life,           \* how long an exception may be used
    MaxTime,
    Nothing

VARIABLES
    now,
    queue,      \* the exceptions of the saved state
    call,       \* per call: what it does, and the copy it holds
    asked,      \* history: who has called to approve what
    granted     \* the events PrivacyExceptionGranted: the exception and its approvals

exceptionVars == <<now, queue, call, asked, granted>>

Absent == [status |-> "none", approvals |-> <<>>, until |-> 0]
Asked == [status |-> "pending", approvals |-> <<>>, until |-> now + Life]

Queues ==
    [Exceptions -> [status : {"none", "pending", "approved", "expired"},
                    approvals : BoundedSeq(Guardians, Cardinality(Guardians)),
                    until : 0..(MaxTime + Life)]]

Fresh == [does |-> Nothing, item |-> Nothing, guardian |-> Nothing, copy |-> Nothing, pc |-> "idle"]

\* The seeded exception has the approval of one guardian.
ExceptionsInit ==
    /\ now = 0
    /\ \E x \in Exceptions, g \in Guardians :
        /\ queue = [[y \in Exceptions |-> Absent] EXCEPT
                        ![x] = [status |-> "pending", approvals |-> <<g>>, until |-> Life]]
        /\ asked = {<<x, g>>}
    /\ call = [c \in Calls |-> Fresh]
    /\ granted = {}

-----------------------------------------------------------------------------
\* One guardian counts once; the clock is not looked at, only the status.
Approved(item, g) ==
    IF item.status \in {"none", "expired"} THEN item
    ELSE LET approvals == IF Contains(item.approvals, g) THEN item.approvals
                          ELSE Append(item.approvals, g)
         IN  [item EXCEPT !.approvals = approvals,
                          !.status = IF Len(approvals) >= Required THEN "approved" ELSE @]

\* normalizePrivacyExceptions: what is over expires.
Normalized(items) ==
    [x \in Exceptions |->
        IF items[x].status \in {"pending", "approved"} /\ items[x].until <= now
        THEN [items[x] EXCEPT !.status = "expired"] ELSE items[x]]

Changes(c, record) == call' = [call EXCEPT ![c] = record]

\* The state is loaded; an unknown exception is an error, one that exists is not added.
Load(c, does, x, g) ==
    /\ call[c].pc = "idle"
    /\ Changes(c, [does |-> does, item |-> x, guardian |-> g, copy |-> queue, pc |-> "loaded"])
    /\ UNCHANGED <<now, queue, granted>>

BeginApproval(c, x, g) ==
    /\ queue[x].status # "none"
    /\ Load(c, "approve", x, g) /\ asked' = asked \cup {<<x, g>>}

BeginRead(c) == Load(c, "read", Nothing, Nothing) /\ UNCHANGED asked

BeginRequest(c, x) == Load(c, "request", x, Nothing) /\ UNCHANGED asked

Writes(items) == queue' = items

SaveApproval(c) ==
    LET k == call[c]
        items == [k.copy EXCEPT ![k.item] = Approved(@, k.guardian)]
    IN  /\ k.pc = "loaded" /\ k.does = "approve"
        /\ Writes(items)
        /\ Changes(c, [k EXCEPT !.copy = items, !.pc = "saved"])
        /\ UNCHANGED <<now, asked, granted>>

\* The events are appended after the save, by what the saved copy says.
AppendGrant(c) ==
    LET item == call[c].copy[call[c].item]
    IN  /\ call[c].pc = "saved"
        /\ granted' = IF item.status = "approved"
                      THEN granted \cup {<<call[c].item, Len(item.approvals)>>} ELSE granted
        /\ Changes(c, [call[c] EXCEPT !.copy = Nothing, !.pc = "done"])
        /\ UNCHANGED <<now, queue, asked>>

\* A read ends here, but the save it starts does not.
Normalize(c) ==
    LET k == call[c]
        items == Normalized(k.copy)
    IN  /\ k.pc = "loaded" /\ k.does = "read"
        /\ Changes(c, IF items # k.copy THEN [k EXCEPT !.copy = items, !.pc = "saving"]
                      ELSE [k EXCEPT !.copy = Nothing, !.pc = "done"])
        /\ UNCHANGED <<now, queue, asked, granted>>

SaveInBackground(c) ==
    /\ call[c].pc = "saving" /\ Writes(call[c].copy)
    /\ Changes(c, [call[c] EXCEPT !.copy = Nothing, !.pc = "done"])
    /\ UNCHANGED <<now, asked, granted>>

SaveRequest(c) ==
    LET k == call[c]
    IN  /\ k.pc = "loaded" /\ k.does = "request"
        /\ Writes(IF k.copy[k.item].status = "none"
                  THEN [k.copy EXCEPT ![k.item] = Asked] ELSE k.copy)
        /\ Changes(c, [k EXCEPT !.copy = Nothing, !.pc = "done"])
        /\ UNCHANGED <<now, asked, granted>>

TimePasses == now < MaxTime /\ now' = now + 1 /\ UNCHANGED <<queue, call, asked, granted>>

ExceptionsNext ==
    \/ \E c \in Calls :
        \/ \E x \in Exceptions, g \in Guardians : BeginApproval(c, x, g)
        \/ BeginRead(c) \/ SaveApproval(c) \/ AppendGrant(c)
        \/ Normalize(c) \/ SaveInBackground(c) \/ SaveRequest(c)
        \/ \E x \in Exceptions : BeginRequest(c, x)
    \/ TimePasses

ExceptionsSpec == ExceptionsInit /\ [][ExceptionsNext]_exceptionVars

-----------------------------------------------------------------------------
ExceptionsTypeOK ==
    /\ now \in 0..MaxTime
    /\ queue \in Queues
    /\ \A c \in Calls : call[c].copy \in Queues \cup {Nothing}
    /\ asked \subseteq Exceptions \X Guardians
    /\ granted \subseteq Exceptions \X (0..Cardinality(Guardians))

\* An exception is announced as granted only when as many different guardians as the
\* policy requires, and as the announcement counts, have approved it, in whatever order
\* their calls, and the reads that expire exceptions, save their copies of the state.
\* (approvePrivacyException)
GrantsAreEarned ==
    \A g \in granted :
        LET approvers == {p \in asked : p[1] = g[1]}
        IN  g[2] >= Required /\ g[2] <= Cardinality(approvers)
=============================================================================
