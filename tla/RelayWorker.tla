------------------------------ MODULE RelayWorker ------------------------------
(***************************************************************************)
(* The seller's side of the relay (scripts/relay-agent.mjs): one process   *)
(* that keeps a socket open to the hub, hands each hire to the local       *)
(* worker, and reports the return three ways: in a progress frame that     *)
(* carries it, in the response frame, and, because the socket may be gone  *)
(* by then, in six attempts at the late-completion route.                  *)
(*                                                                         *)
(* External: the network, the hub, the local worker and the route.         *)
(* Frames are what the hub gets of a hire; their contents, acknowledgement *)
(* and heartbeats included, decide nothing on this side.                   *)
(***************************************************************************)
EXTENDS Naturals, FiniteSets

CONSTANTS
    Jobs,           \* hires the hub may send
    FastJobs,       \* those that the job pack answers without a worker
    Attempts,       \* backups of one return
    MaxLinks,       \* bound: connections that are opened
    MaxRefusals     \* bound: backups of one return that the route refuses

VARIABLES
    link,       \* the main loop: its step, and how many sockets were opened
    stopping,   \* a signal or the end of the ingress asked it to stop
    job,        \* what the handler of each hire has come to
    wire,       \* frames of each hire written to its socket, not yet arrived
    arrived     \* external: frames of each hire the hub has read

workerVars == <<link, stopping, job, wire, arrived>>

NewJob == [pc |-> "new", socket |-> 0, answered |-> FALSE, watchdog |-> FALSE,
           left |-> 0, flying |-> 0, refused |-> 0, recorded |-> FALSE]

Frames  == {"prepared", "return", "timeout", "error"}
Answers == {"return", "timeout", "error"}

\* The process ends when the loop is over and no worker keeps it waiting.
Alive == link.pc # "exited"

-----------------------------------------------------------------------------
(* The main loop: connect, handshake, wait for the end of the socket, and   *)
(* again, after a pause if the connection failed.                          *)

LinkFrame == UNCHANGED <<stopping, job>>

Goto(pc) == link' = [link EXCEPT !.pc = pc]

Connect ==
    /\ link.pc = "idle" /\ link.opened < MaxLinks
    /\ Goto(IF stopping THEN "over" ELSE "connecting")
    /\ UNCHANGED <<wire, arrived>> /\ LinkFrame

\* The socket connects and the upgrade request is written.
Handshake ==
    /\ link.pc = "connecting"
    /\ Goto("handshake")
    /\ UNCHANGED <<wire, arrived>> /\ LinkFrame

\* An error, or an answer other than 101: pause, unless it is time to stop.
ConnectFails ==
    /\ link.pc \in {"connecting", "handshake"}
    /\ Goto(IF stopping THEN "over" ELSE "pause")
    /\ UNCHANGED <<wire, arrived>> /\ LinkFrame

\* The peer closes without an error before it answers: nothing settles the promise.
HandshakeEnds ==
    /\ link.pc = "handshake"
    /\ Goto("hung")
    /\ UNCHANGED <<wire, arrived>> /\ LinkFrame

PauseEnds ==
    /\ link.pc = "pause"
    /\ Goto(IF stopping THEN "over" ELSE "idle")
    /\ UNCHANGED <<wire, arrived>> /\ LinkFrame

Open ==
    /\ link.pc = "handshake"
    /\ link' = [pc |-> IF stopping THEN "over" ELSE "open", opened |-> link.opened + 1]
    /\ UNCHANGED <<wire, arrived>> /\ LinkFrame

\* The socket closes; what was still on its way is lost.
Drop ==
    /\ link.pc = "open"
    /\ Goto("idle")
    /\ wire' = [j \in Jobs |-> {}]
    /\ UNCHANGED arrived /\ LinkFrame

\* The signal ends the wait for the socket or the pause; the socket is ended, with
\* what was written to it before.
Stop ==
    /\ Alive /\ ~stopping
    /\ stopping' = TRUE
    /\ Goto(IF link.pc \in {"open", "pause"} THEN "over" ELSE link.pc)
    /\ UNCHANGED <<job, wire, arrived>>

\* Backup timers do not keep the process alive.
Exit ==
    /\ link.pc = "over"
    /\ \A j \in Jobs : job[j].pc # "working"
    /\ Goto("exited")
    /\ UNCHANGED <<wire, arrived>> /\ LinkFrame

Loop == Connect \/ Handshake \/ ConnectFails \/ PauseEnds \/ Open

-----------------------------------------------------------------------------
(* The handler of a hire.                                                  *)

JobFrame == UNCHANGED <<link, stopping>>

\* Frames are written to the socket the hire came on, if it is still open.
Send(j, frames) ==
    wire' = [wire EXCEPT ![j] = IF link.pc = "open" /\ link.opened = job[j].socket
                                THEN @ \union frames ELSE @]

\* One answer only: a later one is dropped.
Once(j, answer) == IF job[j].answered THEN {} ELSE {answer}

\* The hire is acknowledged, the watchdog armed and the worker called.
Receive(j) ==
    /\ j \notin FastJobs
    /\ link.pc = "open" /\ job[j].pc = "new"
    /\ job' = [job EXCEPT ![j].pc = "working", ![j].socket = link.opened,
                          ![j].watchdog = TRUE]
    /\ UNCHANGED <<wire, arrived>> /\ JobFrame

\* The starter's job pack is answered at once.
ReceiveFast(j) ==
    /\ j \in FastJobs
    /\ link.pc = "open" /\ job[j].pc = "new"
    /\ job' = [job EXCEPT ![j].pc = "returned", ![j].socket = link.opened,
                          ![j].answered = TRUE, ![j].left = Attempts]
    /\ wire' = [wire EXCEPT ![j] = {"prepared", "return"}]
    /\ UNCHANGED arrived /\ JobFrame

\* The worker takes too long: the hub is told so, and the worker is waited for.
Watchdog(j) ==
    /\ Alive /\ job[j].pc = "working" /\ job[j].watchdog
    /\ Send(j, Once(j, "timeout"))
    /\ job' = [job EXCEPT ![j].watchdog = FALSE, ![j].answered = TRUE]
    /\ UNCHANGED arrived /\ JobFrame

\* Mutant: the backup is only scheduled for a response that was written.
WorkerReturnsTrusting(j) ==
    /\ Alive /\ job[j].pc = "working"
    /\ Send(j, {"prepared"} \union Once(j, "return"))
    /\ job' = [job EXCEPT ![j].pc = "returned", ![j].watchdog = FALSE,
                          ![j].answered = TRUE,
                          ![j].left = IF job[j].answered THEN 0 ELSE Attempts]
    /\ UNCHANGED arrived /\ JobFrame

\* The return is checked, carried by a progress frame if it is small enough, sent
\* as the answer unless there was one, and always backed up.
WorkerReturns(j) ==
    /\ Alive /\ job[j].pc = "working"
    /\ \E inline \in SUBSET {"prepared"} : Send(j, inline \union Once(j, "return"))
    /\ job' = [job EXCEPT ![j].pc = "returned", ![j].watchdog = FALSE,
                          ![j].answered = TRUE, ![j].left = Attempts]
    /\ UNCHANGED arrived /\ JobFrame

\* The worker cannot be reached, fails, or is silent for too long.
WorkerFails(j) ==
    /\ Alive /\ job[j].pc = "working"
    /\ Send(j, Once(j, "error"))
    /\ job' = [job EXCEPT ![j].pc = "failed", ![j].watchdog = FALSE,
                          ![j].answered = TRUE]
    /\ UNCHANGED arrived /\ JobFrame

\* The hub reads what is on the wire, after the sockets' end as well.
Arrive(j) ==
    /\ wire[j] # {}
    /\ arrived' = [arrived EXCEPT ![j] = @ \union wire[j]]
    /\ wire' = [wire EXCEPT ![j] = {}]
    /\ UNCHANGED job /\ JobFrame

-----------------------------------------------------------------------------
(* The backups: timers at growing intervals, each of which does nothing     *)
(* once an earlier attempt was recorded.  An attempt takes up to ten        *)
(* seconds, so that only the first two may overlap.                        *)

BackupStarts(j) ==
    /\ Alive /\ job[j].left > 0
    /\ job[j].flying = 0 \/ job[j].left = Attempts - 1
    /\ job' = [job EXCEPT ![j].left = @ - 1,
                          ![j].flying = IF job[j].recorded THEN @ ELSE @ + 1]
    /\ UNCHANGED <<wire, arrived>> /\ JobFrame

BackupRecorded(j) ==
    /\ Alive /\ job[j].flying > 0
    /\ job' = [job EXCEPT ![j].flying = @ - 1, ![j].recorded = TRUE]
    /\ UNCHANGED <<wire, arrived>> /\ JobFrame

\* A refusal, an error of the network or ten seconds without an answer.
BackupRefused(j) ==
    /\ Alive /\ job[j].flying > 0
    /\ job[j].refused < MaxRefusals
    /\ job' = [job EXCEPT ![j].flying = @ - 1, ![j].refused = @ + 1]
    /\ UNCHANGED <<wire, arrived>> /\ JobFrame

Handler(j) == Watchdog(j) \/ WorkerReturns(j) \/ WorkerFails(j)
Backup(j)  == BackupStarts(j) \/ BackupRecorded(j)

-----------------------------------------------------------------------------
WorkerInit ==
    /\ link = [pc |-> "idle", opened |-> 0]
    /\ stopping = FALSE
    /\ job = [j \in Jobs |-> NewJob]
    /\ wire = [j \in Jobs |-> {}]
    /\ arrived = [j \in Jobs |-> {}]

WorkerNext ==
    \/ Loop \/ HandshakeEnds \/ Drop \/ Stop \/ Exit
    \/ \E j \in Jobs : \/ Receive(j) \/ ReceiveFast(j) \/ Arrive(j)
                       \/ Handler(j) \/ Backup(j) \/ BackupRefused(j)

\* Timers fire, and the route answers in the end.  The local worker owes nothing.
WorkerFairness ==
    \A j \in Jobs : WF_workerVars(Watchdog(j)) /\ WF_workerVars(Backup(j))

-----------------------------------------------------------------------------
WorkerTypeOK ==
    /\ link.pc \in {"idle", "connecting", "handshake", "open", "pause", "hung", "over",
                    "exited"}
    /\ link.opened \in 0..MaxLinks
    /\ stopping \in BOOLEAN
    /\ job \in [Jobs -> [pc : {"new", "working", "returned", "failed"},
                         socket : 0..MaxLinks, answered : BOOLEAN, watchdog : BOOLEAN,
                         left : 0..Attempts, flying : 0..Attempts,
                         refused : 0..MaxRefusals, recorded : BOOLEAN]]
    /\ wire \in [Jobs -> SUBSET Frames]
    /\ arrived \in [Jobs -> SUBSET Frames]

Reported(j) ==
    {"prepared", "return"} \intersect arrived[j] # {} \/ job[j].recorded

\* Whatever a local worker returned reaches the platform, on the socket or by the
\* route, although the socket may have dropped, the hub been told of a timeout, or
\* attempts been refused; unless the process is asked to stop.
WorkIsReported ==
    \A j \in Jobs : job[j].pc = "returned" ~> (Reported(j) \/ stopping)
=============================================================================
