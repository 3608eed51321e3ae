------------------------------- MODULE RelayHub -------------------------------
(***************************************************************************)
(* The agent relay (AgentRelayHub and AgentRelayConnection in              *)
(* apps/indexer/src/server.ts), for one agent: the websocket connections   *)
(* the agent's relay worker opens, the hire requests delivered over them,  *)
(* and how each of these calls is answered: by the worker's return, by one *)
(* of two timers, or because its connection is lost.                       *)
(*                                                                         *)
(* Every event handler runs to its end; the interleaving is that of        *)
(* frames, timers, the stale sweep and socket events.  The worker, the     *)
(* network and the clock are the environment: a frame may be late, lost    *)
(* with its connection, repeated, or come over a newer connection.         *)
(***************************************************************************)
EXTENDS Naturals, FiniteSets

CONSTANTS
    Conns,          \* connections the worker may open
    Calls           \* hire requests (their relay message ids), finitely many

VARIABLES
    sock,           \* the socket of each connection
    fresh,          \* connections whose last heartbeat is within the grace period
    pending,        \* connection -> calls it waits for
    recent,         \* connection -> calls it has answered and still remembers
    badFrames,      \* connection -> invalid JSON frames in a row
    ackTimer,       \* calls whose worker-acknowledgement timer is armed
    returnTimer,    \* calls whose response timer is armed
    saw,            \* call -> what its trace has seen of the worker
    answer,         \* call -> how its promise was settled
    sent,           \* external: calls the worker may have received
    returned,       \* history: calls of which the hub has read a hire_response that
                    \* names its request and has a text
    late            \* history: calls handed to recordLateHireCompletion

vars == <<sock, fresh, pending, recent, badFrames, ackTimer, returnTimer, saw,
          answer, sent, returned, late>>

\* "ending": the hub has written a close frame and ended its side; "clogged": so,
\* and an oversized frame it never takes from the buffer hides what follows.
\* "destroyed": destroyed, its close or error event has not been handled yet.
Sockets == {"new", "open", "ending", "clogged", "destroyed", "closed"}
Answers == {"none", "waiting", "refused", "response", "ack_timeout",
            "return_timeout", "return_timeout_after_ack", "dropped"}

\* "started": only steps that the test for repeated invalid JSON does not count.
Traces == {"nothing", "started", "worker"}

BadFrameLimit == 3

Connected(c) == sock[c] \in {"open", "ending", "clogged"}
Readable(c)  == sock[c] \in {"open", "ending"}

\* Fresh connections with the fewest pending calls; which of two equals is
\* newer is left open.
ActiveConnections ==
    LET able == {c \in Conns : Connected(c) /\ c \in fresh}
    IN  {c \in able : \A d \in able :
            Cardinality(pending[c]) <= Cardinality(pending[d])}

-----------------------------------------------------------------------------
(* What the handlers share.                                               *)

Disarm(ms) ==
    /\ ackTimer' = ackTimer \ ms
    /\ returnTimer' = returnTimer \ ms

Answered(ms, how) ==
    answer' = [m \in Calls |-> IF m \in ms THEN how ELSE answer[m]]

\* Settle call m of connection c.
Settle(c, m, how) ==
    /\ pending' = [pending EXCEPT ![c] = @ \ {m}]
    /\ Disarm({m})
    /\ Answered({m}, how)

\* Mutant: the calls of the connection are forgotten, not rejected.
RejectPendingForgets(c) ==
    /\ pending' = [pending EXCEPT ![c] = {}]
    /\ Disarm(pending[c])
    /\ UNCHANGED answer

\* Every call of the connection rejects, with an error that carries no trace.
RejectPending(c) ==
    /\ pending' = [pending EXCEPT ![c] = {}]
    /\ Disarm(pending[c])
    /\ Answered(pending[c], "dropped")

\* Writing after end() destroys the socket.
AfterWrite(c) == IF sock[c] \in {"ending", "clogged"} THEN "destroyed" ELSE sock[c]
AfterClose(c) == IF sock[c] = "open" THEN "ending" ELSE "destroyed"

-----------------------------------------------------------------------------
(* Connections.                                                           *)

\* An authenticated upgrade; older connections of the agent stay.
Upgrade(c) ==
    /\ sock[c] = "new"
    /\ sock' = [sock EXCEPT ![c] = "open"]
    /\ fresh' = fresh \union {c}
    /\ UNCHANGED <<pending, recent, badFrames, ackTimer, returnTimer, saw, answer,
                   sent, returned, late>>

\* Like any valid frame, a heartbeat ends a run of invalid ones.
Heartbeat(c) ==
    /\ Readable(c)
    /\ fresh' = fresh \union {c}
    /\ badFrames' = [badFrames EXCEPT ![c] = 0]
    /\ UNCHANGED <<sock, pending, recent, ackTimer, returnTimer, saw, answer, sent,
                   returned, late>>

\* A valid frame that the hub has no use for: an unknown type or step, or an
\* acknowledgement or progress of a call that is no longer pending.
OtherFrame(c) ==
    /\ Readable(c)
    /\ badFrames' = [badFrames EXCEPT ![c] = 0]
    /\ UNCHANGED <<sock, fresh, pending, recent, ackTimer, returnTimer, saw, answer,
                   sent, returned, late>>

\* The grace period passes without a heartbeat.
GoesStale(c) ==
    /\ c \in fresh
    /\ fresh' = fresh \ {c}
    /\ UNCHANGED <<sock, pending, recent, badFrames, ackTimer, returnTimer, saw,
                   answer, sent, returned, late>>

Sweep(c) ==
    /\ Connected(c) /\ c \notin fresh
    /\ RejectPending(c)
    /\ sock' = [sock EXCEPT ![c] = "destroyed"]
    /\ UNCHANGED <<fresh, recent, badFrames, saw, sent, returned, late>>

\* The socket's close or error event.
SocketGone(c) ==
    /\ Connected(c) \/ sock[c] = "destroyed"
    /\ RejectPending(c)
    /\ sock' = [sock EXCEPT ![c] = "closed"]
    /\ UNCHANGED <<fresh, recent, badFrames, saw, sent, returned, late>>

CloseFrame(c) ==
    /\ Readable(c)
    /\ RejectPending(c)
    /\ sock' = [sock EXCEPT ![c] = AfterClose(c)]
    /\ UNCHANGED <<fresh, recent, badFrames, saw, sent, returned, late>>

\* A frame over the size limit closes the connection, leaves its calls pending and
\* stays at the head of the buffer: whatever comes next is taken for it again.
OversizedFrame(c) ==
    /\ Connected(c)
    /\ sock' = [sock EXCEPT ![c] = IF @ = "open" THEN "clogged" ELSE "destroyed"]
    /\ UNCHANGED <<fresh, pending, recent, badFrames, ackTimer, returnTimer, saw,
                   answer, sent, returned, late>>

PingFrame(c) ==
    /\ sock[c] = "ending"
    /\ sock' = [sock EXCEPT ![c] = AfterWrite(c)]
    /\ UNCHANGED <<fresh, pending, recent, badFrames, ackTimer, returnTimer, saw,
                   answer, sent, returned, late>>

\* The third invalid frame in a row ends the connection, unless the worker is
\* known to be at work on one of its calls.  The count stays at the limit here;
\* in the code it grows.
InvalidFrame(c) ==
    LET count == IF badFrames[c] < BadFrameLimit THEN badFrames[c] + 1
                 ELSE BadFrameLimit
        ends  == count = BadFrameLimit /\ \A m \in pending[c] : saw[m] # "worker"
    IN  /\ Readable(c)
        /\ badFrames' = [badFrames EXCEPT ![c] = count]
        /\ IF ends
           THEN RejectPending(c) /\ sock' = [sock EXCEPT ![c] = AfterClose(c)]
           ELSE UNCHANGED <<pending, ackTimer, returnTimer, answer, sock>>
        /\ UNCHANGED <<fresh, recent, saw, sent, returned, late>>

-----------------------------------------------------------------------------
(* Calls.                                                                 *)

\* deliverHire: no fresh connection, or the request is written to one of them.
Deliver(m) ==
    /\ answer[m] = "none"
    /\ \/ /\ ActiveConnections = {}
          /\ Answered({m}, "refused")
          /\ UNCHANGED <<sock, pending, ackTimer, returnTimer, sent>>
       \/ \E c \in ActiveConnections :
             /\ pending' = [pending EXCEPT ![c] = @ \union {m}]
             /\ ackTimer' = ackTimer \union {m}
             /\ returnTimer' = returnTimer \union {m}
             /\ Answered({m}, "waiting")
             /\ sock' = [sock EXCEPT ![c] = AfterWrite(c)]
             /\ sent' = IF sock[c] = "open" THEN sent \union {m} ELSE sent
    /\ UNCHANGED <<fresh, recent, badFrames, saw, returned, late>>

AckTimeout(m) ==
    /\ m \in ackTimer
    /\ IF saw[m] = "nothing"
       THEN \E c \in Conns : m \in pending[c] /\ Settle(c, m, "ack_timeout")
       ELSE ackTimer' = ackTimer \ {m} /\ UNCHANGED <<pending, returnTimer, answer>>
    /\ UNCHANGED <<sock, fresh, recent, badFrames, saw, sent, returned, late>>

\* Mutant: a call that timed out is remembered as if it had been answered.
ReturnTimeoutRemembers(m) ==
    /\ m \in returnTimer \ ackTimer
    /\ \E c \in Conns :
          /\ m \in pending[c]
          /\ Settle(c, m, "return_timeout_after_ack")
          /\ recent' = [recent EXCEPT ![c] = @ \union {m}]
    /\ UNCHANGED <<sock, fresh, badFrames, saw, sent, returned, late>>

\* The response timer is longer than the acknowledgement timer armed with it.
ReturnTimeout(m) ==
    /\ m \in returnTimer \ ackTimer
    /\ \E c \in Conns :
          m \in pending[c] /\ Settle(c, m, IF saw[m] = "nothing" THEN "return_timeout"
                                           ELSE "return_timeout_after_ack")
    /\ UNCHANGED <<sock, fresh, recent, badFrames, saw, sent, returned, late>>

-----------------------------------------------------------------------------
(* Frames of the worker about call m, read on connection c.  A valid frame  *)
(* ends a run of invalid ones.                                             *)

Reads(c, m) ==
    /\ Readable(c)
    /\ m \in sent
    /\ badFrames' = [badFrames EXCEPT ![c] = 0]

SawStep(m, step) == saw' = [saw EXCEPT ![m] = IF @ = "worker" THEN @ ELSE step]

Ack(c, m) ==
    /\ Reads(c, m) /\ m \in pending[c]
    /\ ackTimer' = ackTimer \ {m}
    /\ SawStep(m, "worker")
    /\ UNCHANGED <<sock, fresh, pending, recent, returnTimer, answer, sent, returned,
                   late>>

\* received_by_worker and worker_http_request_started clear the acknowledgement
\* timer; the later steps do not.
Progress(c, m, step, clears) ==
    /\ Reads(c, m) /\ m \in pending[c]
    /\ ackTimer' = IF clears THEN ackTimer \ {m} ELSE ackTimer
    /\ SawStep(m, step)
    /\ UNCHANGED <<sock, fresh, pending, recent, returnTimer, answer, sent, returned,
                   late>>

\* A progress frame that carries the prepared return, with matching digests,
\* answers the call; with no call pending it is dropped.
Prepared(c, m) ==
    /\ Reads(c, m) /\ m \in pending[c]
    /\ SawStep(m, "worker")
    /\ Settle(c, m, "response")
    /\ recent' = [recent EXCEPT ![c] = @ \union {m}]
    /\ UNCHANGED <<sock, fresh, sent, returned, late>>

\* The worker's return: whatever is in it, it answers the pending call.  With no call
\* pending it is a repetition of an answer the connection remembers, is recorded as
\* a late completion, or is dropped: without a request id or with a blank text
\* (~whole) there is nothing to record.
Response(c, m, whole) ==
    /\ Reads(c, m)
    /\ returned' = IF whole THEN returned \union {m} ELSE returned
    /\ \/ /\ m \in pending[c]
          /\ Settle(c, m, "response")
          /\ recent' = [recent EXCEPT ![c] = @ \union {m}]
          /\ UNCHANGED late
       \/ /\ m \notin pending[c]
          /\ late' = IF whole /\ m \notin recent[c] THEN late \union {m} ELSE late
          /\ UNCHANGED <<pending, recent, ackTimer, returnTimer, answer>>
    /\ UNCHANGED <<sock, fresh, saw, sent>>

\* The memory of an answered call lasts at least one response timeout.
Forget(c, m) ==
    /\ m \in recent[c]
    /\ recent' = [recent EXCEPT ![c] = @ \ {m}]
    /\ UNCHANGED <<sock, fresh, pending, badFrames, ackTimer, returnTimer, saw,
                   answer, sent, returned, late>>

-----------------------------------------------------------------------------
Init ==
    /\ sock = [c \in Conns |-> "new"]
    /\ fresh = {}
    /\ pending = [c \in Conns |-> {}]
    /\ recent = [c \in Conns |-> {}]
    /\ badFrames = [c \in Conns |-> 0]
    /\ ackTimer = {} /\ returnTimer = {}
    /\ saw = [m \in Calls |-> "nothing"]
    /\ answer = [m \in Calls |-> "none"]
    /\ sent = {} /\ returned = {} /\ late = {}

SocketStep(c) ==
    \/ Upgrade(c) \/ Heartbeat(c) \/ OtherFrame(c) \/ GoesStale(c) \/ Sweep(c)
    \/ SocketGone(c) \/ CloseFrame(c) \/ OversizedFrame(c) \/ PingFrame(c) \/ InvalidFrame(c)

FrameStep(c, m) ==
    \/ Ack(c, m) \/ Prepared(c, m) \/ Forget(c, m)
    \/ \E whole \in BOOLEAN : Response(c, m, whole)
    \/ \E step \in {"started", "worker"}, clears \in BOOLEAN :
          Progress(c, m, step, clears)

CallStep(m) == Deliver(m) \/ AckTimeout(m) \/ ReturnTimeout(m)

Next ==
    \/ \E c \in Conns : SocketStep(c)
    \/ \E c \in Conns, m \in Calls : FrameStep(c, m)
    \/ \E m \in Calls : CallStep(m)

Spec == Init /\ [][Next]_vars

-----------------------------------------------------------------------------
\* Every variable has its type: sockets, the maps of each connection, the armed
\* timers, the traces and the answers.
TypeOK ==
    /\ sock \in [Conns -> Sockets]
    /\ fresh \in SUBSET Conns
    /\ pending \in [Conns -> SUBSET Calls]
    /\ recent \in [Conns -> SUBSET Calls]
    /\ badFrames \in [Conns -> 0..BadFrameLimit]
    /\ ackTimer \in SUBSET Calls
    /\ returnTimer \in SUBSET Calls
    /\ saw \in [Calls -> Traces]
    /\ answer \in [Calls -> Answers]
    /\ sent \in SUBSET Calls
    /\ returned \in SUBSET Calls
    /\ late \in SUBSET Calls

\* A call is waiting exactly as long as one connection has it pending with its
\* response timer armed, and no connection that is gone keeps a call: whatever
\* the order of frames, timers and socket events, none is left behind unanswered
\* and none keeps a timer that would answer it again.
CallsAccountedFor ==
    /\ \A m \in Calls : answer[m] = "waiting" <=> \E c \in Conns : m \in pending[c]
    /\ \A m \in Calls, c, d \in Conns : m \in pending[c] /\ m \in pending[d] => c = d
    /\ \A m \in Calls : answer[m] = "waiting" <=> m \in returnTimer
    /\ ackTimer \subseteq returnTimer
    /\ \A c \in Conns : sock[c] \in {"new", "closed"} => pending[c] = {}

\* A timeout says the truth about the worker: only a call of which no sign of the
\* worker was seen ends in an acknowledgement timeout, and the response timer only
\* ever ends a call whose worker was seen.
TimeoutsAreTrue ==
    \A m \in Calls :
       /\ answer[m] = "ack_timeout" => saw[m] = "nothing"
       /\ answer[m] = "return_timeout_after_ack" => saw[m] # "nothing"
       /\ answer[m] # "return_timeout"

\* Every return the hub reads that names its request and has a text, in time or not,
\* repeated or not, has answered its call or is recorded as a late completion; and
\* nothing else is recorded as one.
ReturnsAreKept ==
    /\ \A m \in returned : answer[m] = "response" \/ m \in late
    /\ late \subseteq returned

\* A call that has been settled keeps its answer.
AnswersAreFinal ==
    [][\A m \in Calls : answer[m] \notin {"none", "waiting"} => answer'[m] = answer[m]]_vars
=============================================================================
