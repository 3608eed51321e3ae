-------------------------------- MODULE Heartbeats --------------------------------
(***************************************************************************)
(* The heartbeats of agents and what is read from them: whether an agent   *)
(* is live, hireable, and safe to pay (apps/indexer/src/control-plane.ts,  *)
(* server.ts).                                                             *)
(*                                                                         *)
(* A heartbeat is stamped with the time it is received, and only then the  *)
(* heartbeat file is loaded, one record of it replaced, and the file       *)
(* saved.  A live heartbeat like the one on file is not saved when that is *)
(* recent.  An agent behind the hosted relay is live while it is           *)
(* connected; connecting and disconnecting also record heartbeats, which   *)
(* nobody waits for.                                                       *)
(***************************************************************************)
EXTENDS Integers, FiniteSets

CONSTANTS
    Tasks,          \* heartbeats under way; one that has ended is used again
    Agents,
    RelayAgents,    \* the agents delivered to over the hosted relay
    Posts,          \* the heartbeats that agents may send
    DefaultTtl, MinTtl, MaxTtl,
    WriteInterval,  \* a live heartbeat this soon after the saved one is not saved
    MinFresh,       \* what is left of a lease that is safe to pay on
    MaxTime, MaxBeats,
    NoWrite, NoRecord, NoAgent

Statuses == {"live", "waiting", "offline"}
Probes   == {"none", "proven", "failed"}    \* the paid-execution probe it reports
Times    == 0..MaxTime

Heartbeat == [agent : Agents \union {NoAgent}, status : Statuses, ttl : Nat, probe : Probes]
Records   == [status : Statuses, at : Times, ttl : MinTtl..MaxTtl, probe : Probes]
Files     == [Agents -> Records \union {NoRecord}]

TaskRecords == [pc : {"idle", "arrived", "stamped"}, hb : Heartbeat, at : Times]

VARIABLES
    file,           \* data/agent-runtime-heartbeats.json
    write,          \* the file each task is about to save
    task,
    connected,      \* external: agents with a relay connection
    now,
    last,           \* history: the heartbeat of each agent that was stamped last
    lease,          \* history: when the longest lease that an agent asked for ends
    overlapped,     \* history: two heartbeats were under way at a time
    beats           \* heartbeats so far

vars == <<file, write, task, connected, now, last, lease, overlapped, beats>>

ClampTtl(ttl) ==
    IF ttl < MinTtl THEN MinTtl ELSE IF ttl > MaxTtl THEN MaxTtl ELSE ttl

NoHeartbeat == [agent |-> NoAgent, status |-> "live", ttl |-> 0, probe |-> "none"]
Idle == [pc |-> "idle", hb |-> NoHeartbeat, at |-> 0]

Busy(k) == task[k].pc # "idle" \/ write[k] # NoWrite

-----------------------------------------------------------------------------
(* Recording a heartbeat.                                                 *)

Arrives(k, hb) ==
    /\ ~Busy(k)
    /\ beats < MaxBeats
    /\ beats' = beats + 1
    /\ task' = [task EXCEPT ![k] = [Idle EXCEPT !.pc = "arrived", !.hb = hb]]
    /\ overlapped' = (overlapped \/ \E j \in Tasks : Busy(j))
    /\ UNCHANGED <<file, write, now, last, lease>>

\* POST /api/agents/:agentId/heartbeat, or a heartbeat message of a relay connection.
Post(k, hb) ==
    /\ Arrives(k, hb)
    /\ UNCHANGED connected

RelayConnected(k, a) ==
    /\ a \in RelayAgents \ connected
    /\ connected' = connected \union {a}
    /\ Arrives(k, [agent |-> a, status |-> "live", ttl |-> DefaultTtl, probe |-> "none"])

RelayDisconnected(k, a) ==
    /\ a \in connected
    /\ connected' = connected \ {a}
    /\ Arrives(k, [agent |-> a, status |-> "waiting", ttl |-> DefaultTtl, probe |-> "none"])

\* The console state and the events have been loaded, and the key checked.
Stamp(k) ==
    LET hb  == task[k].hb
        end == now + ClampTtl(hb.ttl)
    IN  /\ task[k].pc = "arrived"
        /\ task' = [task EXCEPT ![k].pc = "stamped", ![k].at = now]
        /\ last' = [last EXCEPT ![hb.agent] =
                      [status |-> hb.status, at |-> now,
                       probe  |-> IF hb.probe = "none" THEN @.probe ELSE hb.probe]]
        /\ lease' = [lease EXCEPT ![hb.agent] = IF hb.status = "live" /\ end > @ THEN end ELSE @]
        /\ UNCHANGED <<file, write, connected, now, overlapped, beats>>

NextRecord(old, hb, at) ==
    [status |-> hb.status, at |-> at, ttl |-> ClampTtl(hb.ttl),
     probe  |-> IF hb.probe = "none" /\ old # NoRecord THEN old.probe ELSE hb.probe]

\* heartbeatCanCoalesce: only the time has changed, and not by much.
CanCoalesce(old, new) ==
    /\ old # NoRecord
    /\ new.status = "live"
    /\ old.status = "live"
    /\ old.ttl = new.ttl
    /\ old.probe = new.probe
    /\ new.at - old.at < WriteInterval

Record(k) ==
    LET hb  == task[k].hb
        old == file[hb.agent]
        new == NextRecord(old, hb, task[k].at)
    IN  /\ task[k].pc = "stamped"
        /\ task' = [task EXCEPT ![k] = Idle]
        /\ write' = [write EXCEPT ![k] =
                       IF CanCoalesce(old, new) THEN NoWrite
                       ELSE [file EXCEPT ![hb.agent] = new]]
        /\ UNCHANGED <<file, connected, now, last, lease, overlapped, beats>>

Save(k) ==
    /\ write[k] # NoWrite
    /\ file' = write[k]
    /\ write' = [write EXCEPT ![k] = NoWrite]
    /\ UNCHANGED <<task, connected, now, last, lease, overlapped, beats>>

Tick ==
    /\ now < MaxTime
    /\ now' = now + 1
    /\ UNCHANGED <<file, write, task, connected, last, lease, overlapped, beats>>

-----------------------------------------------------------------------------
(* What is read from the file.                                            *)

\* Mutant: a lease is counted from the time of the check.
StaleAtNow(r) == now + ClampTtl(r.ttl)

StaleAt(r) == r.at + ClampTtl(r.ttl)

\* buildAgentRuntimeHeartbeatState
Status(a) ==
    IF file[a] = NoRecord THEN "waiting"
    ELSE IF file[a].status = "live" /\ StaleAt(file[a]) <= now THEN "waiting"
    ELSE file[a].status

RelayBacked(a) == a \in RelayAgents /\ a \in connected

\* buildRelayBackedHeartbeatState: a connection is a lease from now on.
EffectiveStatus(a) == IF RelayBacked(a) THEN "live" ELSE Status(a)
EffectiveStaleAt(a) == IF RelayBacked(a) THEN now + DefaultTtl ELSE StaleAt(file[a])

\* getAgentRuntimeAvailability without a fetch
Reachable(a) == IF a \in RelayAgents THEN a \in connected ELSE Status(a) = "live"

\* heartbeatPaymentSafety, which every paying route asks for.
SafeToPay(a) ==
    /\ Reachable(a)
    /\ EffectiveStatus(a) = "live"
    /\ EffectiveStaleAt(a) - now >= MinFresh

\* A probe that an agent has reported stands until it reports another.
ProvenByProbe(a) == file[a] # NoRecord /\ file[a].probe = "proven"

-----------------------------------------------------------------------------
Init ==
    /\ file = [a \in Agents |-> NoRecord]
    /\ write = [k \in Tasks |-> NoWrite]
    /\ task = [k \in Tasks |-> Idle]
    /\ connected = {}
    /\ now = 0
    /\ last = [a \in Agents |-> [status |-> "waiting", at |-> 0, probe |-> "none"]]
    /\ lease = [a \in Agents |-> 0]
    /\ overlapped = FALSE
    /\ beats = 0

Next ==
    \/ \E k \in Tasks :
          \/ \E hb \in Posts : Post(k, hb)
          \/ \E a \in Agents : RelayConnected(k, a) \/ RelayDisconnected(k, a)
          \/ Stamp(k) \/ Record(k) \/ Save(k)
    \/ Tick

Spec == Init /\ [][Next]_vars

-----------------------------------------------------------------------------
\* The file, the tasks and the clock have their types.
TypeOK ==
    /\ file \in Files
    /\ \A k \in Tasks : write[k] \in Files \union {NoWrite}
    /\ task \in [Tasks -> TaskRecords]
    /\ connected \subseteq RelayAgents
    /\ now \in Times
    /\ overlapped \in BOOLEAN
    /\ beats \in 0..MaxBeats

\* A self-hosted agent is safe to pay only on a lease that it asked for by a live
\* heartbeat and that lasts long enough from now, in whatever order heartbeats are
\* saved (heartbeatPaymentSafety).
PaidOnALease ==
    \A a \in Agents \ RelayAgents : SafeToPay(a) => now + MinFresh <= lease[a]

\* As long as heartbeats do not overlap, the file says of an agent what it said last: its
\* status, its last probe, and a time at most WriteInterval old (recordAgentRuntimeHeartbeat).
FileFollowsHeartbeats ==
    overlapped \/
    \A a \in Agents :
       (file[a] # NoRecord /\ \A k \in Tasks : ~Busy(k)) =>
          /\ file[a].status = last[a].status
          /\ file[a].probe = last[a].probe
          /\ last[a].at - file[a].at < WriteInterval
=============================================================================
