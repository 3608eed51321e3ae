------------------------------- MODULE MCResolved -------------------------------
(* Two instances with a promise each: a paid hire, and the worker's side of the  *)
(* relay.  They share no state; Init chooses the one that moves.                 *)
EXTENDS MCPaidHire

CONSTANTS j1, j2, Jobs, FastJobs, Attempts, MaxLinks, MaxRefusals
VARIABLES link, stopping, job, wire, arrived

Relay == INSTANCE RelayWorker

wVars == <<link, stopping, job, wire, arrived>>

VARIABLE part
allVars == <<vars, wVars, part>>

ResolvedInit ==
    /\ Init
    /\ Relay!WorkerInit
    /\ part \in {"hire", "worker"}

ResolvedNext ==
    /\ UNCHANGED part
    /\ \/ part = "hire" /\ Next /\ UNCHANGED wVars
       \/ part = "worker" /\ Relay!WorkerNext /\ UNCHANGED vars

\* The part that moves is scheduled fairly, as its module says.
ResolvedSpec ==
    /\ ResolvedInit
    /\ [][ResolvedNext]_allVars
    /\ part = "hire" => Fairness
    /\ part = "worker" => Relay!WorkerFairness

\* As in RelayWorker: whatever a local worker returned reaches the platform, on the
\* socket or by the route (scheduleLateCompletionBackup).
WorkIsReported == Relay!WorkIsReported
=============================================================================
