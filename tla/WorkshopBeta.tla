------------------------------- MODULE WorkshopBeta -------------------------------
(***************************************************************************)
(* The control plane of the workshop beta                                  *)
(* (apps/indexer/src/workshop-beta-control-plane.ts): sign-in sessions,    *)
(* challenges that bind an agent to a session as its administrator,        *)
(* missions and the agents that claim them.                                *)
(*                                                                         *)
(* Every method loads the whole store, computes the next one and saves it, *)
(* and nothing keeps two of them apart.  What a call creates is named by   *)
(* the call.  The limits of 200 to 1000 records are not reached, and a     *)
(* restart loses only what has not been saved, as a call that never saves. *)
(***************************************************************************)
EXTENDS Naturals

CONSTANTS
    Calls, Agents,
    SessionLife, ChallengeLife,     \* 20 and 30 minutes
    MaxTime,
    Nothing

VARIABLES
    now,
    store,      \* file
    call,       \* call -> [pc, store]: the store it is about to save
    proved,     \* history: sessions whose token was shown before they expired
    claimed     \* history: <<challenge, agent>> claimed before the challenge expired

workshopVars == <<now, store, call, proved, claimed>>

\* WORKSHOP_BETA_ALLOWED_TRANSITIONS
Allowed(status) ==
    CASE status = "draft_mission"     -> {"admin_bound", "mission_issued", "expired", "revoked"}
      [] status = "admin_bound"       -> {"mission_issued", "expired", "revoked"}
      [] status = "mission_issued"    -> {"agents_invited", "agents_claimed", "expired", "revoked"}
      [] status = "agents_invited"    -> {"agents_claimed", "agent_rejected", "expired", "revoked"}
      [] status = "agents_claimed"    -> {"work_started", "agent_rejected", "expired", "revoked"}
      [] status = "work_started"      -> {"receipt_pending", "receipt_failed",
                                          "verification_failed", "expired", "revoked"}
      [] status = "receipt_pending"   -> {"receipt_confirmed", "receipt_failed", "expired",
                                          "revoked"}
      [] status = "receipt_confirmed" -> {"verified", "verification_failed", "expired", "revoked"}
      [] status = "verified"          -> {"completed", "verification_failed", "expired", "revoked"}
      [] OTHER -> {}

MissionStatuses ==
    {"draft_mission", "admin_bound", "mission_issued", "agents_invited", "agents_claimed",
     "work_started", "receipt_pending", "receipt_confirmed", "verified", "completed", "expired",
     "revoked", "agent_rejected", "receipt_failed", "verification_failed"}

SessionRecords == [status : {"pending", "verified", "expired"}, expires : Nat]
ChallengeRecords ==
    [session : Calls, status : {"issued", "claimed", "expired"}, expires : Nat,
     agent : Agents \union {Nothing}]
BindingRecords == [session : Calls, agent : Agents, challenge : Calls]

Stores ==
    [sessions   : [Calls -> SessionRecords \union {Nothing}],
     challenges : [Calls -> ChallengeRecords \union {Nothing}],
     bindings   : SUBSET BindingRecords,
     missions   : [Calls -> MissionStatuses \union {Nothing}],
     claims     : SUBSET [mission : Calls, agent : Agents]]

DefaultStore ==
    [sessions |-> [c \in Calls |-> Nothing], challenges |-> [c \in Calls |-> Nothing],
     bindings |-> {}, missions |-> [c \in Calls |-> Nothing], claims |-> {}]

\* A call has loaded the store and computed the one it will save.
Stage(c, next) ==
    /\ call[c].pc = "idle"
    /\ call' = [call EXCEPT ![c] = [pc |-> "save", store |-> next]]
    /\ UNCHANGED <<now, store>>

-----------------------------------------------------------------------------
(* Sign-in and the binding of an agent.                                    *)

CreateAuthSession(c) ==
    /\ Stage(c, [store EXCEPT !.sessions[c] =
                    [status |-> "pending", expires |-> now + SessionLife]])
    /\ UNCHANGED <<proved, claimed>>

\* A session that is not pending is answered as it is; a wrong token changes nothing.
VerifyAuthSession(c, s) ==
    /\ store.sessions[s] # Nothing /\ store.sessions[s].status = "pending"
    /\ IF store.sessions[s].expires <= now
       THEN /\ Stage(c, [store EXCEPT !.sessions[s].status = "expired"])
            /\ UNCHANGED proved
       ELSE /\ Stage(c, [store EXCEPT !.sessions[s].status = "verified"])
            /\ proved' = proved \union {s}
    /\ UNCHANGED claimed

\* Mutant: the session need not be verified.
MayIssueToAnyone(st, s) == st.sessions[s] # Nothing

MayIssue(st, s) == st.sessions[s] # Nothing /\ st.sessions[s].status = "verified"

IssueAdminChallenge(c, s) ==
    /\ MayIssue(store, s)
    /\ Stage(c, [store EXCEPT !.challenges[c] =
                    [session |-> s, status |-> "issued", expires |-> now + ChallengeLife,
                     agent |-> Nothing]])
    /\ UNCHANGED <<proved, claimed>>

\* The agent's earlier binding to the session is replaced; another agent's stays.
ClaimAdminChallenge(c, x, agent) ==
    /\ store.challenges[x] # Nothing
    /\ LET challenge == store.challenges[x]
       IN  IF challenge.expires <= now
           THEN /\ Stage(c, [store EXCEPT !.challenges[x].status = "expired"])
                /\ UNCHANGED claimed
           ELSE /\ challenge.status \in {"issued", "claimed"}
                /\ Stage(c, [store EXCEPT
                       !.challenges[x] = [challenge EXCEPT !.status = "claimed", !.agent = agent],
                       !.bindings = {b \in @ : ~(b.session = challenge.session /\ b.agent = agent)}
                                    \union {[session |-> challenge.session, agent |-> agent,
                                             challenge |-> x]}])
                /\ claimed' = claimed \union {<<x, agent>>}
    /\ UNCHANGED proved

-----------------------------------------------------------------------------
(* Missions: nothing of a session or a binding is asked of them.           *)

CreateMission(c) ==
    /\ Stage(c, [store EXCEPT !.missions[c] = "draft_mission"])
    /\ UNCHANGED <<proved, claimed>>

TransitionMission(c, m, status) ==
    /\ store.missions[m] # Nothing /\ status \in Allowed(store.missions[m])
    /\ Stage(c, [store EXCEPT !.missions[m] = status])
    /\ UNCHANGED <<proved, claimed>>

\* The claim of an issued mission advances it; a claim of any other is kept as well.
ClaimMission(c, m, agent) ==
    /\ store.missions[m] # Nothing
    /\ Stage(c, [store EXCEPT
           !.missions[m] = IF @ \in {"mission_issued", "agents_invited"} THEN "agents_claimed"
                           ELSE @,
           !.claims = @ \union {[mission |-> m, agent |-> agent]}])
    /\ UNCHANGED <<proved, claimed>>

\* dashboard: what it counts of the store.
Dashboard ==
    [sessions   |-> {s \in Calls : store.sessions[s] # Nothing
                                   /\ store.sessions[s].status = "verified"},
     challenges |-> {x \in Calls : /\ store.challenges[x] # Nothing
                                   /\ store.challenges[x].status = "issued"
                                   /\ store.challenges[x].expires > now},
     active     |-> {m \in Calls : store.missions[m] # Nothing
                                   /\ Allowed(store.missions[m]) # {}}]

SaveStore(c) ==
    /\ call[c].pc = "save"
    /\ store' = call[c].store
    /\ call' = [call EXCEPT ![c] = [pc |-> "done", store |-> Nothing]]
    /\ UNCHANGED <<now, proved, claimed>>

Tick ==
    /\ now < MaxTime
    /\ now' = now + 1
    /\ UNCHANGED <<store, call, proved, claimed>>

-----------------------------------------------------------------------------
WorkshopInit ==
    /\ now = 0 /\ store = DefaultStore
    /\ call = [c \in Calls |-> [pc |-> "idle", store |-> Nothing]]
    /\ proved = {} /\ claimed = {}

WorkshopNext ==
    \/ \E c \in Calls :
          \/ CreateAuthSession(c) \/ CreateMission(c) \/ SaveStore(c)
          \/ \E s \in Calls : VerifyAuthSession(c, s) \/ IssueAdminChallenge(c, s)
          \/ \E x \in Calls, agent \in Agents : ClaimAdminChallenge(c, x, agent)
          \/ \E m \in Calls, status \in MissionStatuses : TransitionMission(c, m, status)
          \/ \E m \in Calls, agent \in Agents : ClaimMission(c, m, agent)
    \/ Tick

WorkshopSpec == WorkshopInit /\ [][WorkshopNext]_workshopVars

-----------------------------------------------------------------------------
\* Every variable has its type.
WorkshopTypeOK ==
    /\ now \in 0..MaxTime /\ store \in Stores
    /\ \A c \in Calls : /\ call[c].pc \in {"idle", "save", "done"}
                        /\ call[c].store \in Stores \union {Nothing}
    /\ proved \subseteq Calls /\ claimed \subseteq Calls \X Agents

\* The file and what calls are about to save.
Copies == {store} \union {call[c].store : c \in {d \in Calls : call[d].pc = "save"}}

\* An agent is bound to a session as its administrator only by a claim, made before the
\* challenge expired, of a challenge issued to a session whose token had been shown before
\* it expired - in the file and in every copy about to be saved, however calls overlap and
\* undo each other (issueAdminChallenge, claimAdminChallenge).
BindingsAreEarned ==
    \A copy \in Copies : \A b \in copy.bindings :
        /\ <<b.challenge, b.agent>> \in claimed
        /\ copy.challenges[b.challenge] # Nothing
        /\ copy.challenges[b.challenge].session = b.session
        /\ b.session \in proved
        /\ copy.sessions[b.session].status = "verified"
=============================================================================
