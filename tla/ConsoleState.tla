------------------------------ MODULE ConsoleState ------------------------------
(***************************************************************************)
(* The console-state file of the indexer: registered agents with their     *)
(* keys, ownership and availability, enrolment tickets, and setup tickets  *)
(* of workshops (apps/indexer/src/control-plane.ts).                       *)
(*                                                                         *)
(* Every route loads the whole file, awaits something - often a fetch of   *)
(* several seconds - and saves its own copy of the whole file with one     *)
(* part changed.  What was saved meanwhile is undone.  Redeeming a ticket  *)
(* is a chain of up to four such changes.                                  *)
(*                                                                         *)
(* Each call is a task; an action loads the file, checks it and stages the *)
(* copy to save, and Save puts it in place.  The fetch in between decides  *)
(* only whether the call goes on.                                          *)
(***************************************************************************)
EXTENDS Naturals, FiniteSets

CONSTANTS
    Tasks,          \* calls; a task also names the admin key, challenge or token it mints
    Sessions,       \* sessions of agents; a session also names its hosted URL
    Tickets,        \* enrolment tickets
    SessionOf,      \* the session a ticket reserves
    SelfServe,      \* sessions of agents that register without a ticket
    Setups,         \* workshop setup tickets, whose participants are Sessions
    Urls,           \* URLs of self-hosted agents
    MaxCrashes,
    NoTask, NoUrl, NoWrite

Availabilities == {"active", "archived", "suspended", "blocked"}

AgentRecords ==
    [registered : BOOLEAN,                              \* id, profile and ingress secrets
     key        : Tasks \union {NoTask},                \* the admin key on file
     url        : Urls \union Sessions \union {NoUrl},
     relay      : BOOLEAN,                              \* delivery over the hosted relay
     own        : {"legacy", "unverified", "issued", "verified"},
     chal       : Tasks \union {NoTask},                \* the open challenge
     chalUrl    : Urls \union Sessions \union {NoUrl},  \* and the URL that must serve it
     proved     : Urls \union Sessions \union {NoUrl},  \* the URL of the verification on file
     avail      : Availabilities,
     deleted    : BOOLEAN]

TicketRecords ==
    [status : {"none", "pending", "redeemed"}, url : Urls \union Sessions \union {NoUrl}]

SetupRecords == [open : BOOLEAN, token : [Sessions -> Tasks \union {NoTask}]]

Files ==
    [agent  : [Sessions -> AgentRecords],
     ticket : [Tickets -> TicketRecords],
     setup  : [Setups -> SetupRecords]]

Steps == {"idle", "register", "challenge", "finish", "prove", "owner", "done", "failed"}

TaskRecords ==
    [pc : Steps, ticket : Tickets \union {NoTask}, session : Sessions \union {NoTask},
     url : Urls \union Sessions \union {NoUrl}, relay : BOOLEAN]

ASSUME ConstantsAssumption ==
    /\ SessionOf \in [Tickets -> Sessions]
    /\ SelfServe \subseteq Sessions
    /\ NoTask \notin Tasks
    /\ NoUrl \notin Urls \union Sessions
    /\ Urls \intersect Sessions = {}
    /\ NoWrite \notin Files
    /\ MaxCrashes \in Nat

VARIABLES
    file,           \* data/console-state.json
    write,          \* the file each task is about to save
    task,
    shown,          \* external: <<session, url>> for which control has been shown
    overlapped,     \* history: a task began while another was under way
    crashes

consoleVars == <<file, write, task, shown, overlapped, crashes>>

Unregistered ==
    [registered |-> FALSE, key |-> NoTask, url |-> NoUrl, relay |-> TRUE, own |-> "legacy",
     chal |-> NoTask, chalUrl |-> NoUrl, proved |-> NoUrl, avail |-> "active",
     deleted |-> FALSE]

NoSetup == [open |-> FALSE, token |-> [s \in Sessions |-> NoTask]]

Quiet(k) == write[k] = NoWrite
At(k, pc) == task[k].pc = pc /\ Quiet(k)
Active(k) == ~Quiet(k) \/ task[k].pc \notin {"idle", "owner", "done", "failed"}

Starts(k) ==
    /\ At(k, "idle")
    /\ overlapped' = (overlapped \/ \E j \in Tasks : Active(j))

Goto(k, pc) == task' = [task EXCEPT ![k].pc = pc]
Stage(k, f) == write' = [write EXCEPT ![k] = f]

\* The whole of a call that changes one part of the file.
Edit(k, f) ==
    /\ Starts(k)
    /\ Stage(k, f)
    /\ Goto(k, "done")
    /\ UNCHANGED <<file, crashes>>

\* Mutant: the copy of the agents is not saved whole.
SaveMerged(k) ==
    /\ ~Quiet(k)
    /\ file' = [write[k] EXCEPT !.agent =
                  [s \in Sessions |-> IF file.agent[s].registered /\ ~write[k].agent[s].registered
                                      THEN file.agent[s] ELSE write[k].agent[s]]]
    /\ write' = [write EXCEPT ![k] = NoWrite]
    /\ UNCHANGED <<task, shown, overlapped, crashes>>

Save(k) ==
    /\ ~Quiet(k)
    /\ file' = write[k]
    /\ write' = [write EXCEPT ![k] = NoWrite]
    /\ UNCHANGED <<task, shown, overlapped, crashes>>

-----------------------------------------------------------------------------
(* Registration and enrolment tickets.                                    *)

\* assertAgentProfileIsValid: no other session of this copy has the URL.
UrlFree(f, u, own) == u = NoUrl \/ \A s \in Sessions \ own : f.agent[s].url # u

IssueEnrollmentTicket(k, t, u) ==
    LET s == SessionOf[t] IN
    /\ file.ticket[t].status = "none"
    /\ ~file.agent[s].registered
    /\ \A o \in Tickets : SessionOf[o] = s => file.ticket[o].status # "pending"
    /\ u \in Urls \union {s}
    /\ UrlFree(file, u, {})
    /\ Edit(k, [file EXCEPT !.ticket[t] = [status |-> "pending", url |-> u]])
    /\ UNCHANGED shown

\* The ticket is checked here, on the first load, and never again.
\* A self-hosted agent has served the ticket's challenge; a relay agent has the ticket.
RedeemEnrollmentTicket(k, t, u) ==
    LET s     == SessionOf[t]
        relay == u = NoUrl
    IN  /\ Starts(k)
        /\ file.ticket[t].status = "pending"
        /\ u \in Urls \union {NoUrl}
        /\ shown' = shown \union {<<s, IF relay THEN s ELSE u>>}
        /\ task' = [task EXCEPT ![k] =
                      [pc |-> "register", ticket |-> t, session |-> s, relay |-> relay,
                       url |-> IF relay THEN file.ticket[t].url ELSE u]]
        /\ UNCHANGED <<file, write, crashes>>

\* What registration writes over whatever the session had.
Registered(f, k, s, u, relay) ==
    [f EXCEPT !.agent[s] =
       [Unregistered EXCEPT !.registered = TRUE, !.key = k, !.url = u, !.relay = relay,
                            !.own = "unverified", !.deleted = f.agent[s].deleted]]

RegisterTicket(k) ==
    LET c == task[k] IN
    /\ At(k, "register")
    /\ IF UrlFree(file, c.url, {})
       THEN /\ Stage(k, Registered(file, k, c.session, c.url, c.relay))
            /\ Goto(k, IF c.relay THEN "finish" ELSE "challenge")
       ELSE Goto(k, "failed") /\ UNCHANGED write
    /\ UNCHANGED <<file, shown, overlapped, crashes>>

RegisterAgent(k, s, u, relay) ==
    /\ s \in SelfServe
    /\ ~file.agent[s].registered
    /\ u \in Urls
    /\ UrlFree(file, u, {})
    /\ Edit(k, Registered(file, k, s, u, relay))
    /\ UNCHANGED shown

WithChallenge(f, k, s) ==
    [f EXCEPT !.agent[s].own = "issued", !.agent[s].chal = k,
              !.agent[s].chalUrl = f.agent[s].url]

MayBeChallenged(f, s) == ~f.agent[s].relay /\ f.agent[s].url # NoUrl

ChallengeTicket(k) ==
    LET s == task[k].session IN
    /\ At(k, "challenge")
    /\ IF file.agent[s].registered /\ ~file.agent[s].deleted /\ MayBeChallenged(file, s)
       THEN Stage(k, WithChallenge(file, k, s)) /\ Goto(k, "finish")
       ELSE Goto(k, "failed") /\ UNCHANGED write
    /\ UNCHANGED <<file, shown, overlapped, crashes>>

\* Mutant: the ticket is left as it was.
FinishTicketForgets(k) ==
    /\ At(k, "finish")
    /\ Stage(k, file)
    /\ Goto(k, IF task[k].relay THEN "prove" ELSE "owner")
    /\ UNCHANGED <<file, shown, overlapped, crashes>>

FinishTicket(k) ==
    /\ At(k, "finish")
    /\ Stage(k, [file EXCEPT !.ticket[task[k].ticket] =
                   [status |-> "redeemed", url |-> task[k].url]])
    /\ Goto(k, IF task[k].relay THEN "prove" ELSE "owner")
    /\ UNCHANGED <<file, shown, overlapped, crashes>>

Verified(f, s, u) ==
    [f EXCEPT !.agent[s].own = "verified", !.agent[s].chal = NoTask,
              !.agent[s].chalUrl = NoUrl, !.agent[s].proved = u]

\* Mutant: the verification is recorded for the URL of the profile.
ProveRelayByProfile(k) ==
    LET s == task[k].session IN
    /\ At(k, "prove")
    /\ Stage(k, Verified(file, s, file.agent[s].url))
    /\ Goto(k, "owner")
    /\ UNCHANGED <<file, shown, overlapped, crashes>>

\* verifyRelayEnrollmentOwnership records the hosted URL, whatever the profile says by now.
ProveRelay(k) ==
    LET s == task[k].session IN
    /\ At(k, "prove")
    /\ Stage(k, Verified(file, s, s))
    /\ Goto(k, "owner")
    /\ UNCHANGED <<file, shown, overlapped, crashes>>

-----------------------------------------------------------------------------
(* Ownership.                                                             *)

IssueOwnershipChallenge(k, s) ==
    /\ MayBeChallenged(file, s)
    /\ Edit(k, WithChallenge(file, k, s))
    /\ UNCHANGED shown

\* The challenge's URL has served the challenge's token.  A caller without the admin
\* key gets a new one: the owner reclaims the agent.
VerifyOwnershipChallenge(k, s, admin) ==
    LET a == file.agent[s] IN
    /\ MayBeChallenged(file, s)
    /\ a.chal # NoTask
    /\ shown' = shown \union {<<s, a.chalUrl>>}
    /\ LET f == Verified(file, s, a.url)
       IN  Edit(k, IF admin THEN f ELSE [f EXCEPT !.agent[s].key = k])

-----------------------------------------------------------------------------
(* Profiles.                                                              *)

\* A new URL starts ownership over.
UpdateAgentProfile(k, s, u, relay) ==
    LET a == file.agent[s]
        b == [a EXCEPT !.url = u, !.relay = relay]
    IN  /\ a.registered
        /\ u \in Urls \union {NoUrl, a.url}
        /\ UrlFree(file, u, {s})
        /\ Edit(k, [file EXCEPT !.agent[s] =
                      IF u = a.url THEN b
                      ELSE [b EXCEPT !.own = "unverified", !.chal = NoTask,
                                     !.chalUrl = NoUrl, !.proved = NoUrl]])
        /\ UNCHANGED shown

SetAgentArchiveStatus(k, s, archived) ==
    /\ file.agent[s].registered
    /\ Edit(k, [file EXCEPT !.agent[s].avail = IF archived THEN "archived" ELSE "active"])
    /\ UNCHANGED shown

SetAgentModerationStatus(k, s, avail) ==
    /\ file.agent[s].registered
    /\ Edit(k, [file EXCEPT !.agent[s].avail = avail])
    /\ UNCHANGED shown

DeleteAgentRegistration(k, s) ==
    /\ file.agent[s].registered
    /\ Edit(k, [file EXCEPT !.agent[s] = [Unregistered EXCEPT !.deleted = TRUE]])
    /\ UNCHANGED shown

\* Trust mode, mission authorization, recovery kit, privacy exceptions, publication,
\* envelopes: the modelled parts are saved as they were loaded.
OtherSave(k) == Edit(k, file) /\ UNCHANGED shown

-----------------------------------------------------------------------------
(* Workshop setup tickets.                                                *)

\* Tickets that have expired are dropped; any open one may have.
IssueSetupTicket(k, e, expired) ==
    /\ ~file.setup[e].open
    /\ expired \subseteq {o \in Setups : file.setup[o].open}
    /\ Edit(k, [file EXCEPT !.setup =
                  [o \in Setups |-> IF o = e THEN [NoSetup EXCEPT !.open = TRUE]
                                    ELSE IF o \in expired THEN NoSetup
                                    ELSE file.setup[o]]])
    /\ UNCHANGED shown

ClaimSetupTicket(k, e, s) ==
    /\ file.setup[e].open
    /\ Edit(k, [file EXCEPT !.setup[e].token[s] = k])
    /\ UNCHANGED shown

ClaimExpiredSetupTicket(k, e) ==
    /\ file.setup[e].open
    /\ Edit(k, [file EXCEPT !.setup[e] = NoSetup])
    /\ UNCHANGED shown

-----------------------------------------------------------------------------
Crash ==
    /\ crashes < MaxCrashes
    /\ \E k \in Tasks : Active(k)
    /\ write' = [k \in Tasks |-> NoWrite]
    /\ task' = [k \in Tasks |-> IF Active(k) THEN [task[k] EXCEPT !.pc = "failed"] ELSE task[k]]
    /\ crashes' = crashes + 1
    /\ UNCHANGED <<file, shown, overlapped>>

NewTask == [pc |-> "idle", ticket |-> NoTask, session |-> NoTask, url |-> NoUrl, relay |-> FALSE]

ConsoleInit ==
    /\ file = [agent  |-> [s \in Sessions |-> Unregistered],
               ticket |-> [t \in Tickets |-> [status |-> "none", url |-> NoUrl]],
               setup  |-> [e \in Setups |-> NoSetup]]
    /\ write = [k \in Tasks |-> NoWrite]
    /\ task = [k \in Tasks |-> NewTask]
    /\ shown = {}
    /\ overlapped = FALSE
    /\ crashes = 0

Enrolment(k) ==
    \/ \E t \in Tickets, u \in Urls \union Sessions \union {NoUrl} :
          IssueEnrollmentTicket(k, t, u) \/ RedeemEnrollmentTicket(k, t, u)
    \/ RegisterTicket(k) \/ ChallengeTicket(k) \/ FinishTicket(k) \/ ProveRelay(k)

Ownership(k) ==
    \E s \in Sessions :
        \/ IssueOwnershipChallenge(k, s)
        \/ \E admin \in BOOLEAN : VerifyOwnershipChallenge(k, s, admin)

Profiles(k) ==
    \/ \E s \in Sessions :
          \/ \E u \in Urls \union Sessions \union {NoUrl}, relay \in BOOLEAN :
                RegisterAgent(k, s, u, relay) \/ UpdateAgentProfile(k, s, u, relay)
          \/ \E archived \in BOOLEAN : SetAgentArchiveStatus(k, s, archived)
          \/ \E avail \in {"active", "suspended", "blocked"} : SetAgentModerationStatus(k, s, avail)
          \/ DeleteAgentRegistration(k, s)
    \/ OtherSave(k)

Workshops(k) ==
    \E e \in Setups :
        \/ \E expired \in SUBSET Setups : IssueSetupTicket(k, e, expired)
        \/ \E s \in Sessions : ClaimSetupTicket(k, e, s)
        \/ ClaimExpiredSetupTicket(k, e)

ConsoleNext ==
    \/ \E k \in Tasks : Save(k) \/ Enrolment(k) \/ Ownership(k) \/ Profiles(k) \/ Workshops(k)
    \/ Crash

ConsoleSpec == ConsoleInit /\ [][ConsoleNext]_consoleVars

-----------------------------------------------------------------------------
\* The file, the tasks and what they are about to save have their types.
ConsoleTypeOK ==
    /\ file \in Files
    /\ \A k \in Tasks : write[k] \in Files \union {NoWrite}
    /\ task \in [Tasks -> TaskRecords]
    /\ shown \subseteq Sessions \X (Urls \union Sessions \union {NoUrl})
    /\ overlapped \in BOOLEAN
    /\ crashes \in 0..MaxCrashes

\* A verified owner has shown control of the URL on record, however old the copy was
\* that recorded it (verifyOwnershipChallenge, verifyRelayEnrollmentOwnership).
OwnershipIsBacked ==
    \A s \in Sessions :
        file.agent[s].own = "verified" => <<s, file.agent[s].proved>> \in shown

\* No two agents are registered with one URL, although the URL is checked before a
\* wait and saved after it (registerAgent, updateAgentProfile).
UrlsAreUnique ==
    \A s, o \in Sessions :
        file.agent[s].url = file.agent[o].url => s = o \/ file.agent[s].url = NoUrl

Owners(t) == {k \in Tasks : At(k, "owner") /\ task[k].ticket = t}

\* A ticket makes one owner, also when a restart interrupts its redemption, as long as
\* calls do not overlap (redeemEnrollmentTicket).
TicketMakesOneOwner == overlapped \/ \A t \in Tickets : Cardinality(Owners(t)) <= 1

\* Violated: "Enrollment tickets are one-time use."
\* (docs/agents/santaclawz-self-enrollment.md:58)
TicketIsOneTime == \A t \in Tickets : Cardinality(Owners(t)) <= 1
=============================================================================
