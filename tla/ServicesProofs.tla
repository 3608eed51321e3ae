------------------------------ MODULE ServicesProofs ------------------------------
(***************************************************************************)
(* Proofs about the parts that MCServices instantiates, for any constants. *)
(* Each part has an inductive invariant, and a step of the services is, in *)
(* the part that moves, a step of that part.                               *)
(***************************************************************************)
EXTENDS MCServices, FiniteSetTheorems, SequenceTheorems, TLAPS

-----------------------------------------------------------------------------
(* The workshop.  What a binding rests on - its challenge, the session the *)
(* challenge was issued to, and that the session's token was shown - is in *)
(* every copy that holds the binding, and no later change takes it away:   *)
(* a verified session stays as it is, and a call names what it creates.    *)

EarnedIn(version, shownTokens, claims) ==
    /\ \A b \in version.bindings :
          /\ <<b.challenge, b.agent>> \in claims
          /\ version.challenges[b.challenge] # Nothing
          /\ version.challenges[b.challenge].session = b.session
    /\ \A s \in Four : version.sessions[s] # Nothing /\ version.sessions[s].status = "verified"
                         => s \in shownTokens
    /\ \A x \in Four : version.challenges[x] # Nothing =>
          /\ version.sessions[version.challenges[x].session] # Nothing
          /\ version.sessions[version.challenges[x].session].status = "verified"

\* A call that has not begun has created nothing.
NothingOf(c, version) == version.sessions[c] = Nothing /\ version.challenges[c] = Nothing

WorkshopInv ==
    /\ Workshop!WorkshopTypeOK
    /\ workshopCall = [c \in Four |-> workshopCall[c]]
    /\ EarnedIn(store, proved, claimed)
    /\ \A d \in Four : workshopCall[d].pc = "idle" => NothingOf(d, store)
    /\ \A c \in Four : workshopCall[c].pc = "save" =>
          /\ workshopCall[c].store \in Workshop!Stores
          /\ EarnedIn(workshopCall[c].store, proved, claimed)
          /\ \A d \in Four : workshopCall[d].pc = "idle" => NothingOf(d, workshopCall[c].store)

LEMMA WorkshopInit == Workshop!WorkshopInit => WorkshopInv
<1> SUFFICES ASSUME Workshop!WorkshopInit PROVE WorkshopInv
  OBVIOUS
<1> USE DEF Workshop!WorkshopInit, Workshop!DefaultStore
<1>1. store \in Workshop!Stores
  BY DEF Workshop!Stores
<1>2. EarnedIn(store, proved, claimed)
  BY DEF EarnedIn
<1>3. \A c \in Four : workshopCall[c].pc = "idle" /\ workshopCall[c].store = Nothing
  OBVIOUS
<1>4. \A d \in Four : NothingOf(d, store)
  BY DEF NothingOf
<1>5. workshopCall = [c \in Four |-> workshopCall[c]]
  OBVIOUS
<1>6. now \in 0..LastTime /\ proved = {} /\ claimed = {}
  BY ServicesAssumption
<1> HIDE DEF Workshop!WorkshopInit
<1> QED BY <1>1, <1>2, <1>3, <1>4, <1>5, <1>6 DEF WorkshopInv, Workshop!WorkshopTypeOK

\* Copies that were earned stay so when more is shown and claimed.
LEMMA EarnedGrows ==
    ASSUME NEW version, NEW p1, NEW p2, NEW q1, NEW q2, p1 \subseteq p2, q1 \subseteq q2,
           EarnedIn(version, p1, q1)
    PROVE  EarnedIn(version, p2, q2)
  BY DEF EarnedIn

\* Call c stages next, a store that it has computed from the one on file.
LEMMA WorkshopStage ==
    ASSUME WorkshopInv, NEW c \in Four, NEW next \in Workshop!Stores, Workshop!Stage(c, next),
           proved \subseteq proved', proved' \subseteq Four,
           claimed \subseteq claimed', claimed' \subseteq Four \X WorkshopAgents,
           EarnedIn(next, proved', claimed'),
           \A d \in Four \ {c} : NothingOf(d, store) => NothingOf(d, next)
    PROVE  WorkshopInv'
<1>1. /\ store' = store /\ now' = now
      /\ workshopCall' = [workshopCall EXCEPT ![c] = [pc |-> "save", store |-> next]]
  BY DEF Workshop!Stage
<1>2. /\ workshopCall' = [d \in Four |-> workshopCall'[d]]
      /\ \A d \in Four : workshopCall'[d] = IF d = c THEN [pc |-> "save", store |-> next]
                                            ELSE workshopCall[d]
  BY <1>1 DEF WorkshopInv
<1>3. Workshop!WorkshopTypeOK'
  BY <1>1, <1>2 DEF WorkshopInv, Workshop!WorkshopTypeOK
<1>4. EarnedIn(store', proved', claimed')
  BY <1>1, EarnedGrows DEF WorkshopInv
<1>5. ASSUME NEW d \in Four, workshopCall'[d].pc = "idle"
      PROVE  d # c /\ NothingOf(d, store) /\ workshopCall[d].pc = "idle"
  BY <1>2, <1>5 DEF WorkshopInv
<1>6. ASSUME NEW e \in Four, workshopCall'[e].pc = "save"
      PROVE  /\ workshopCall'[e].store \in Workshop!Stores
             /\ EarnedIn(workshopCall'[e].store, proved', claimed')
             /\ \A d \in Four : workshopCall'[d].pc = "idle" => NothingOf(d, workshopCall'[e].store)
  <2>1. CASE e = c
    BY <1>2, <1>5, <2>1
  <2>2. CASE e # c
    <3>1. workshopCall'[e] = workshopCall[e] /\ workshopCall[e].pc = "save"
      BY <1>2, <1>6, <2>2
    <3>2. EarnedIn(workshopCall[e].store, proved', claimed')
      BY <3>1, EarnedGrows DEF WorkshopInv
    <3> QED BY <1>5, <3>1, <3>2 DEF WorkshopInv
  <2> QED BY <2>1, <2>2
<1> QED BY <1>1, <1>2, <1>3, <1>4, <1>5, <1>6 DEF WorkshopInv

LEMMA WorkshopSignIn ==
    ASSUME WorkshopInv, NEW c \in Four, NEW s \in Four,
           Workshop!CreateAuthSession(c) \/ Workshop!VerifyAuthSession(c, s)
    PROVE  WorkshopInv'
<1>1. /\ store \in Workshop!Stores /\ now \in Nat /\ EarnedIn(store, proved, claimed)
      /\ proved \subseteq Four /\ claimed \subseteq Four \X WorkshopAgents
      /\ workshopCall[c].pc = "idle" => NothingOf(c, store)
  BY ServicesAssumption DEF WorkshopInv, Workshop!WorkshopTypeOK
<1>2. ASSUME NEW t \in Four, NEW r \in Workshop!SessionRecords,
             Workshop!Stage(c, [store EXCEPT !.sessions[t] = r]),
             t = c \/ (store.sessions[t] # Nothing /\ store.sessions[t].status = "pending"),
             proved' \in {proved, proved \union {t}}, claimed' = claimed,
             r.status = "verified" => t \in proved'
      PROVE  WorkshopInv'
  <2> DEFINE next == [store EXCEPT !.sessions[t] = r]
  <2>1. /\ next \in Workshop!Stores
        /\ next.challenges = store.challenges /\ next.bindings = store.bindings
        /\ \A u \in Four : next.sessions[u] = IF u = t THEN r ELSE store.sessions[u]
    BY <1>1 DEF Workshop!Stores
  <2>2. \A x \in Four : store.challenges[x] # Nothing => store.challenges[x].session \in Four \ {t}
    <3>1. SUFFICES ASSUME NEW x \in Four, store.challenges[x] # Nothing
                   PROVE  store.challenges[x].session \in Four /\ store.challenges[x].session # t
      OBVIOUS
    <3>2. store.challenges[x].session \in Four
      BY <1>1, <3>1 DEF Workshop!Stores, Workshop!ChallengeRecords
    <3>3. workshopCall[c].pc = "idle"
      BY <1>2 DEF Workshop!Stage
    <3> QED BY <1>1, <1>2, <3>1, <3>2, <3>3 DEF EarnedIn, NothingOf
  <2> HIDE DEF next
  <2>3. EarnedIn(store, proved', claimed')
    BY <1>1, <1>2, EarnedGrows
  <2>4. EarnedIn(next, proved', claimed')
    BY <1>2, <2>1, <2>2, <2>3 DEF EarnedIn
  <2>5. \A d \in Four \ {c} : NothingOf(d, store) => NothingOf(d, next)
    BY <1>2, <2>1 DEF NothingOf
  <2>6. /\ proved \subseteq proved' /\ proved' \subseteq Four
        /\ claimed \subseteq claimed' /\ claimed' \subseteq Four \X WorkshopAgents
    BY <1>1, <1>2
  <2>7. Workshop!Stage(c, next)
    BY <1>2 DEF next
  <2> QED BY <2>1, <2>4, <2>5, <2>6, <2>7, WorkshopStage
<1>3. CASE Workshop!CreateAuthSession(c)
  <2>1. [status |-> "pending", expires |-> now + SignInLife] \in Workshop!SessionRecords
    BY <1>1, ServicesAssumption DEF Workshop!SessionRecords
  <2> QED BY <1>2, <1>3, <2>1 DEF Workshop!CreateAuthSession
<1>4. CASE Workshop!VerifyAuthSession(c, s)
  <2>1. /\ store.sessions[s] \in Workshop!SessionRecords /\ store.sessions[s] # Nothing
        /\ store.sessions[s].status = "pending"
    BY <1>1, <1>4 DEF Workshop!VerifyAuthSession, Workshop!Stores
  <2>2. PICK to \in {"expired", "verified"} :
           /\ to = "verified" => s \in proved'
           /\ Workshop!Stage(c, [store EXCEPT !.sessions[s].status = to])
           /\ proved' \in {proved, proved \union {s}} /\ claimed' = claimed
    BY <1>4 DEF Workshop!VerifyAuthSession
  <2> DEFINE r == [store.sessions[s] EXCEPT !.status = to]
  <2>3. r \in Workshop!SessionRecords /\ r.status = to
    BY <2>1 DEF Workshop!SessionRecords
  <2>4. [store EXCEPT !.sessions[s].status = to] = [store EXCEPT !.sessions[s] = r]
    BY <1>1 DEF Workshop!Stores
  <2> HIDE DEF r
  <2> QED BY <1>2, <2>1, <2>2, <2>3, <2>4
<1> QED BY <1>3, <1>4

\* Challenge x becomes r, and one binding to it may be added.
LEMMA WorkshopChallenge ==
    ASSUME WorkshopInv, NEW c \in Four, NEW x \in Four, NEW r \in Workshop!ChallengeRecords,
           NEW next \in Workshop!Stores, Workshop!Stage(c, next),
           next.sessions = store.sessions,
           \A y \in Four : next.challenges[y] = IF y = x THEN r ELSE store.challenges[y],
           proved' = proved,
           claimed \subseteq claimed', claimed' \subseteq Four \X WorkshopAgents,
           store.sessions[r.session] # Nothing,
           store.sessions[r.session].status = "verified",
           x = c \/ (store.challenges[x] # Nothing /\ store.challenges[x].session = r.session),
           \A b \in next.bindings :
              \/ b \in store.bindings
              \/ b.challenge = x /\ b.session = r.session /\ <<x, b.agent>> \in claimed'
    PROVE  WorkshopInv'
<1>1. /\ store \in Workshop!Stores /\ EarnedIn(store, proved, claimed)
      /\ proved \subseteq Four
      /\ workshopCall[c].pc = "idle" => NothingOf(c, store)
  BY DEF WorkshopInv, Workshop!WorkshopTypeOK
<1>2. next.bindings \subseteq Workshop!BindingRecords
  BY DEF Workshop!Stores
<1>3. workshopCall[c].pc = "idle"
  BY DEF Workshop!Stage
<1>4. NothingOf(c, store)
  BY <1>1, <1>3
<1>5. r # Nothing
  BY ServicesAssumption
<1>6. ASSUME NEW b \in next.bindings
      PROVE  /\ <<b.challenge, b.agent>> \in claimed'
             /\ next.challenges[b.challenge] # Nothing
             /\ next.challenges[b.challenge].session = b.session
  <2>1. b.challenge \in Four
    BY <1>2 DEF Workshop!BindingRecords
  <2>2. CASE b \in store.bindings
    <3>1. /\ <<b.challenge, b.agent>> \in claimed /\ store.challenges[b.challenge] # Nothing
          /\ store.challenges[b.challenge].session = b.session
      BY <1>1, <2>2 DEF EarnedIn
    <3>2. b.challenge = x => store.challenges[x].session = r.session
      BY <1>4, <3>1 DEF NothingOf
    <3> QED BY <1>5, <2>1, <3>1, <3>2
  <2>3. CASE b.challenge = x /\ b.session = r.session /\ <<x, b.agent>> \in claimed'
    BY <1>5, <2>1, <2>3
  <2> QED BY <2>2, <2>3
<1>7. EarnedIn(next, proved', claimed')
  BY <1>1, <1>6 DEF EarnedIn
<1>8. \A d \in Four \ {c} : NothingOf(d, store) => NothingOf(d, next)
  BY <1>4 DEF NothingOf
<1> QED BY <1>1, <1>7, <1>8, WorkshopStage

LEMMA WorkshopIssue ==
    ASSUME WorkshopInv, NEW c \in Four, NEW s \in Four, Workshop!IssueAdminChallenge(c, s)
    PROVE  WorkshopInv'
<1>a. /\ store \in Workshop!Stores /\ now \in Nat /\ EarnedIn(store, proved, claimed)
      /\ proved \subseteq Four /\ claimed \subseteq Four \X WorkshopAgents
  BY ServicesAssumption DEF WorkshopInv, Workshop!WorkshopTypeOK
<1> DEFINE r == [session |-> s, status |-> "issued", expires |-> now + ChallengeLife,
                 agent |-> Nothing]
           next == [store EXCEPT !.challenges[c] = r]
<1>1. r \in Workshop!ChallengeRecords /\ r.session = s
  BY <1>a, ServicesAssumption DEF Workshop!ChallengeRecords
<1>2. /\ Workshop!Stage(c, next)
      /\ proved' = proved /\ claimed' = claimed
      /\ store.sessions[s] # Nothing /\ store.sessions[s].status = "verified"
  BY DEF Workshop!IssueAdminChallenge, Workshop!MayIssue
<1> HIDE DEF r
<1>3. /\ next \in Workshop!Stores
      /\ next.sessions = store.sessions /\ next.bindings = store.bindings
      /\ \A y \in Four : next.challenges[y] = IF y = c THEN r ELSE store.challenges[y]
  BY <1>a, <1>1 DEF Workshop!Stores
<1> HIDE DEF next
<1> QED BY <1>a, <1>1, <1>2, <1>3, WorkshopChallenge

LEMMA WorkshopClaim ==
    ASSUME WorkshopInv, NEW c \in Four, NEW x \in Four, NEW agent \in WorkshopAgents,
           Workshop!ClaimAdminChallenge(c, x, agent)
    PROVE  WorkshopInv'
<1>a. /\ store \in Workshop!Stores /\ now \in Nat /\ EarnedIn(store, proved, claimed)
      /\ proved \subseteq Four /\ claimed \subseteq Four \X WorkshopAgents
  BY ServicesAssumption DEF WorkshopInv, Workshop!WorkshopTypeOK
<1> DEFINE old == store.challenges[x]
           new == [session |-> old.session, agent |-> agent, challenge |-> x]
           kept == {b \in store.bindings : ~(b.session = old.session /\ b.agent = agent)}
<1>1. /\ old # Nothing /\ old \in Workshop!ChallengeRecords /\ old.session \in Four
      /\ store.sessions[old.session] # Nothing
      /\ store.sessions[old.session].status = "verified"
  BY <1>a DEF Workshop!ClaimAdminChallenge, Workshop!Stores, Workshop!ChallengeRecords,
                    EarnedIn
<1>2. new \in Workshop!BindingRecords /\ new.challenge = x /\ new.session = old.session
      /\ new.agent = agent
  BY <1>1 DEF Workshop!BindingRecords
<1>3. proved' = proved
  BY DEF Workshop!ClaimAdminChallenge
<1>4. CASE old.expires <= now
  <2> DEFINE r == [old EXCEPT !.status = "expired"]
             next == [store EXCEPT !.challenges[x].status = "expired"]
  <2>1. Workshop!Stage(c, next) /\ claimed' = claimed
    BY <1>4 DEF Workshop!ClaimAdminChallenge
  <2>2. r \in Workshop!ChallengeRecords /\ r.session = old.session
    BY <1>1 DEF Workshop!ChallengeRecords
  <2>3. /\ next \in Workshop!Stores
        /\ next.sessions = store.sessions /\ next.bindings = store.bindings
        /\ \A y \in Four : next.challenges[y] = IF y = x THEN r ELSE store.challenges[y]
    BY <1>a, <2>2 DEF Workshop!Stores
  <2> HIDE DEF r, next, new, kept
  <2> QED BY <1>a, <1>1, <1>3, <2>1, <2>2, <2>3, WorkshopChallenge
<1>5. CASE ~(old.expires <= now)
  <2> DEFINE r == [old EXCEPT !.status = "claimed", !.agent = agent]
             next == [store EXCEPT !.challenges[x] = r, !.bindings = kept \union {new}]
  <2>1. Workshop!Stage(c, next) /\ claimed' = claimed \union {<<x, agent>>}
    BY <1>5 DEF Workshop!ClaimAdminChallenge
  <2>2. r \in Workshop!ChallengeRecords /\ r.session = old.session
    BY <1>1 DEF Workshop!ChallengeRecords
  <2>3. /\ next \in Workshop!Stores
        /\ next.sessions = store.sessions /\ next.bindings = kept \union {new}
        /\ \A y \in Four : next.challenges[y] = IF y = x THEN r ELSE store.challenges[y]
    <3> HIDE DEF r, new
    <3>1. kept \union {new} \subseteq Workshop!BindingRecords
      BY <1>a, <1>2 DEF Workshop!Stores
    <3> HIDE DEF kept
    <3> QED BY <1>a, <2>2, <3>1 DEF Workshop!Stores
  <2>4. kept \subseteq store.bindings
    OBVIOUS
  <2>5. claimed \subseteq claimed' /\ claimed' \subseteq Four \X WorkshopAgents
        /\ <<x, agent>> \in claimed'
    BY <1>a, <2>1
  <2> HIDE DEF r, next, new, kept
  <2>6. \A b \in next.bindings :
           \/ b \in store.bindings
           \/ b.challenge = x /\ b.session = r.session /\ <<x, b.agent>> \in claimed'
    BY <1>2, <2>2, <2>3, <2>4, <2>5
  <2> QED BY <1>1, <1>3, <2>1, <2>2, <2>3, <2>5, <2>6, WorkshopChallenge
<1> QED BY <1>4, <1>5

LEMMA WorkshopMission ==
    ASSUME WorkshopInv, NEW c \in Four, NEW next \in Workshop!Stores, Workshop!Stage(c, next),
           next.sessions = store.sessions, next.challenges = store.challenges,
           next.bindings = store.bindings, proved' = proved, claimed' = claimed
    PROVE  WorkshopInv'
<1>1. /\ EarnedIn(store, proved, claimed)
      /\ proved \subseteq Four /\ claimed \subseteq Four \X WorkshopAgents
  BY DEF WorkshopInv, Workshop!WorkshopTypeOK
<1>2. EarnedIn(next, proved', claimed')
  BY <1>1 DEF EarnedIn
<1>3. \A d \in Four \ {c} : NothingOf(d, store) => NothingOf(d, next)
  BY DEF NothingOf
<1> QED BY <1>1, <1>2, <1>3, WorkshopStage

LEMMA WorkshopSave ==
    ASSUME WorkshopInv, NEW c \in Four, Workshop!SaveStore(c)
    PROVE  WorkshopInv'
<1>1. /\ workshopCall[c].pc = "save" /\ store' = workshopCall[c].store
      /\ workshopCall' = [workshopCall EXCEPT ![c] = [pc |-> "done", store |-> Nothing]]
      /\ UNCHANGED <<now, proved, claimed>>
  BY DEF Workshop!SaveStore
<1>2. /\ workshopCall' = [d \in Four |-> workshopCall'[d]]
      /\ \A d \in Four : workshopCall'[d] = IF d = c THEN [pc |-> "done", store |-> Nothing]
                                            ELSE workshopCall[d]
  BY <1>1 DEF WorkshopInv
<1>3. Workshop!WorkshopTypeOK'
  BY <1>1, <1>2 DEF WorkshopInv, Workshop!WorkshopTypeOK
<1>4. \A d \in Four : workshopCall'[d].pc \in {"idle", "save"} => workshopCall'[d] = workshopCall[d]
  BY <1>2
<1> QED BY <1>1, <1>2, <1>3, <1>4 DEF WorkshopInv

LEMMA WorkshopNext ==
    ASSUME WorkshopInv, [Workshop!WorkshopNext]_<<now, store, workshopCall, proved, claimed>>
    PROVE  WorkshopInv'
<1>1. CASE UNCHANGED <<now, store, workshopCall, proved, claimed>>
  BY <1>1 DEF WorkshopInv, Workshop!WorkshopTypeOK, EarnedIn, NothingOf
<1>2. CASE Workshop!Tick
  <2>1. now' \in 0..LastTime
    BY <1>2, ServicesAssumption DEF WorkshopInv, Workshop!WorkshopTypeOK, Workshop!Tick
  <2>2. UNCHANGED <<store, workshopCall, proved, claimed>>
    BY <1>2 DEF Workshop!Tick
  <2> QED BY <2>1, <2>2 DEF WorkshopInv, Workshop!WorkshopTypeOK, EarnedIn, NothingOf
<1>3. ASSUME NEW c \in Four, NEW s \in Four,
             Workshop!CreateAuthSession(c) \/ Workshop!VerifyAuthSession(c, s)
      PROVE  WorkshopInv'
  BY <1>3, WorkshopSignIn
<1>4. ASSUME NEW c \in Four, NEW s \in Four, Workshop!IssueAdminChallenge(c, s)
      PROVE  WorkshopInv'
  BY <1>4, WorkshopIssue
<1>5. ASSUME NEW c \in Four, NEW x \in Four, NEW agent \in WorkshopAgents,
             Workshop!ClaimAdminChallenge(c, x, agent)
      PROVE  WorkshopInv'
  BY <1>5, WorkshopClaim
<1>0. store \in Workshop!Stores
  BY DEF WorkshopInv, Workshop!WorkshopTypeOK
<1>6. ASSUME NEW c \in Four, Workshop!CreateMission(c)
      PROVE  WorkshopInv'
  <2> DEFINE next == [store EXCEPT !.missions[c] = "draft_mission"]
  <2>1. Workshop!Stage(c, next) /\ proved' = proved /\ claimed' = claimed
    BY <1>6 DEF Workshop!CreateMission
  <2>2. /\ next \in Workshop!Stores
        /\ next.sessions = store.sessions /\ next.challenges = store.challenges
        /\ next.bindings = store.bindings
    BY <1>0 DEF Workshop!Stores, Workshop!MissionStatuses
  <2> HIDE DEF next
  <2> QED BY <2>1, <2>2, WorkshopMission
<1>7. ASSUME NEW c \in Four, NEW m \in Four, NEW to \in Workshop!MissionStatuses,
             Workshop!TransitionMission(c, m, to)
      PROVE  WorkshopInv'
  <2> DEFINE next == [store EXCEPT !.missions[m] = to]
  <2>1. Workshop!Stage(c, next) /\ proved' = proved /\ claimed' = claimed
    BY <1>7 DEF Workshop!TransitionMission
  <2>2. /\ next \in Workshop!Stores
        /\ next.sessions = store.sessions /\ next.challenges = store.challenges
        /\ next.bindings = store.bindings
    BY <1>0 DEF Workshop!Stores, Workshop!MissionStatuses
  <2> HIDE DEF next
  <2> QED BY <2>1, <2>2, WorkshopMission
<1>8. ASSUME NEW c \in Four, NEW m \in Four, NEW agent \in WorkshopAgents,
             Workshop!ClaimMission(c, m, agent)
      PROVE  WorkshopInv'
  <2> DEFINE to == IF store.missions[m] \in {"mission_issued", "agents_invited"}
                   THEN "agents_claimed" ELSE store.missions[m]
             claims == store.claims \union {[mission |-> m, agent |-> agent]}
             next == [store EXCEPT !.missions[m] = to, !.claims = claims]
  <2>1. Workshop!Stage(c, next) /\ proved' = proved /\ claimed' = claimed
    BY <1>8 DEF Workshop!ClaimMission
  <2>2. /\ store.missions[m] \in Workshop!MissionStatuses
        /\ store.claims \subseteq [mission : Four, agent : WorkshopAgents]
    BY <1>0, <1>8 DEF Workshop!ClaimMission, Workshop!Stores
  <2>3. to \in Workshop!MissionStatuses
    BY <2>2 DEF Workshop!MissionStatuses
  <2>4. claims \subseteq [mission : Four, agent : WorkshopAgents]
    BY <2>2
  <2> HIDE DEF to, claims
  <2>5. /\ next \in Workshop!Stores
        /\ next.sessions = store.sessions /\ next.challenges = store.challenges
        /\ next.bindings = store.bindings
    BY <1>0, <2>3, <2>4 DEF Workshop!Stores
  <2> HIDE DEF next
  <2> QED BY <2>1, <2>5, WorkshopMission
<1> QED BY <1>1, <1>2, <1>3, <1>4, <1>5, <1>6, <1>7, <1>8, WorkshopSave DEF Workshop!WorkshopNext

\* What the property states follows from the invariant.
LEMMA WorkshopEarned == WorkshopInv => Workshop!WorkshopTypeOK /\ Workshop!BindingsAreEarned
<1> SUFFICES ASSUME WorkshopInv PROVE Workshop!BindingsAreEarned
  BY DEF WorkshopInv
<1> SUFFICES ASSUME NEW version \in Workshop!Copies, NEW b \in version.bindings
             PROVE  /\ <<b.challenge, b.agent>> \in claimed
                    /\ version.challenges[b.challenge] # Nothing
                    /\ version.challenges[b.challenge].session = b.session
                    /\ b.session \in proved
                    /\ version.sessions[b.session].status = "verified"
  BY Zenon DEF Workshop!BindingsAreEarned
<1>1. version \in Workshop!Stores /\ EarnedIn(version, proved, claimed)
  BY DEF WorkshopInv, Workshop!WorkshopTypeOK, Workshop!Copies
<1>2. b.challenge \in Four /\ b.session \in Four
  BY <1>1 DEF Workshop!Stores, Workshop!BindingRecords
<1> QED BY <1>1, <1>2 DEF EarnedIn

-----------------------------------------------------------------------------
(* A hosted workspace.  A code in a copy was issued as it stands; who may  *)
(* open a session with it shows it before it expires; a call that was      *)
(* admitted keeps the session it entered with.  What was issued, shown and *)
(* entered only grows, so a version of an older file stays proven.            *)

ProvenIn(version, codes, proofs, entries) ==
    /\ \A x \in Four : version.codes[x] # Nothing =>
          /\ version.codes[x].workspace \in version.workspaces
          /\ \E code \in codes :
                /\ code.code = x /\ code.workspace = version.codes[x].workspace
                /\ code.email = version.codes[x].email /\ code.expires = version.codes[x].expires
    /\ \A s \in Four : version.sessions[s] # Nothing =>
          /\ version.sessions[s].workspace \in version.workspaces
          /\ \E proof \in proofs, code \in codes :
                /\ proof.session = s /\ proof.code = code.code
                /\ proof.email = code.email /\ code.email = version.sessions[s].email
                /\ code.workspace = version.sessions[s].workspace /\ proof.at < code.expires
    /\ \A r \in version.runs :
          /\ \E s \in Four : <<r.workspace, s>> \in entries
          /\ r.workspace \in version.workspaces

\* What a call carries from one step to the next, in each place it may be.
CarriedBy(c, moving, codes, proofs, entries) ==
    /\ moving.pc = "sent" =>
          /\ moving.of.workspace \in Workspaces /\ moving.of.email \in Emails
          /\ moving.expires \in Nat
          /\ [code |-> c, workspace |-> moving.of.workspace, email |-> moving.of.email,
              expires |-> moving.expires] \in codes
    /\ moving.pc = "admitted" =>
          /\ moving.of.workspace \in Workspaces /\ moving.of.thread \in Threads
          /\ moving.of.kinds \subseteq ConnectorKinds
          /\ \E s \in Four : <<moving.of.workspace, s>> \in entries
    /\ moving.pc = "save" =>
          moving.file \in Hosted!Files /\ ProvenIn(moving.file, codes, proofs, entries)

CallRecord(moving) ==
    moving = [pc |-> moving.pc, of |-> moving.of, expires |-> moving.expires,
              file |-> moving.file]

HostedInv ==
    /\ Hosted!HostedTypeOK
    /\ hostedCall = [c \in Four |-> hostedCall[c]]
    /\ ProvenIn(hosted, issued, shown, entered)
    /\ \A c \in Four : /\ CallRecord(hostedCall[c])
                       /\ CarriedBy(c, hostedCall[c], issued, shown, entered)

LEMMA HostedBegins == Hosted!HostedInit => HostedInv
<1> SUFFICES ASSUME Hosted!HostedInit PROVE HostedInv
  OBVIOUS
<1>1. /\ now = 0 /\ hosted = Hosted!EmptyFile
      /\ hostedCall = [c \in Four |-> [pc |-> "idle", of |-> Nothing, expires |-> 0,
                                       file |-> Nothing]]
  BY DEF Hosted!HostedInit, Hosted!NoCall
<1>2. /\ hosted \in Hosted!Files
      /\ \A c \in Four : hosted.codes[c] = Nothing /\ hosted.sessions[c] = Nothing
      /\ hosted.runs = {}
  BY <1>1 DEF Hosted!EmptyFile, Hosted!Files
<1>3. ProvenIn(hosted, issued, shown, entered)
  BY <1>2 DEF ProvenIn
<1>4. \A c \in Four : /\ hostedCall[c].pc = "idle" /\ hostedCall[c].file = Nothing
                      /\ CallRecord(hostedCall[c])
  BY <1>1 DEF CallRecord
<1>5. now \in 0..LastTime /\ hostedCall = [c \in Four |-> hostedCall[c]]
  BY <1>1, ServicesAssumption
<1> QED BY <1>2, <1>3, <1>4, <1>5 DEF HostedInv, Hosted!HostedTypeOK, CarriedBy

\* Copies stay proven when more is issued, shown and entered.
LEMMA ProvenGrows ==
    ASSUME NEW version, NEW i1, NEW i2, NEW s1, NEW s2, NEW n1, NEW n2,
           i1 \subseteq i2, s1 \subseteq s2, n1 \subseteq n2, ProvenIn(version, i1, s1, n1)
    PROVE  ProvenIn(version, i2, s2, n2)
<1>1. ASSUME NEW s \in Four, version.sessions[s] # Nothing
      PROVE  /\ version.sessions[s].workspace \in version.workspaces
             /\ \E proof \in s2, code \in i2 :
                   /\ proof.session = s /\ proof.code = code.code
                   /\ proof.email = code.email /\ code.email = version.sessions[s].email
                   /\ code.workspace = version.sessions[s].workspace /\ proof.at < code.expires
  BY <1>1 DEF ProvenIn
<1>2. ASSUME NEW x \in Four, version.codes[x] # Nothing
      PROVE  /\ version.codes[x].workspace \in version.workspaces
             /\ \E code \in i2 :
                   /\ code.code = x /\ code.workspace = version.codes[x].workspace
                   /\ code.email = version.codes[x].email /\ code.expires = version.codes[x].expires
  BY <1>2 DEF ProvenIn
<1>3. ASSUME NEW r \in version.runs
      PROVE  /\ \E s \in Four : <<r.workspace, s>> \in n2
             /\ r.workspace \in version.workspaces
  BY DEF ProvenIn
<1> QED BY <1>1, <1>2, <1>3 DEF ProvenIn

\* One call moves to next, and the file may be replaced by another proven one.
LEMMA HostedStep ==
    ASSUME HostedInv, NEW c \in Four, NEW next,
           hostedCall' = [hostedCall EXCEPT ![c] = next], CallRecord(next),
           next.pc \in {"sent", "admitted", "save", "done"},
           next.file \in Hosted!Files \union {Nothing},
           CarriedBy(c, next, issued', shown', entered'),
           now' = now, hosted' \in Hosted!Files,
           ProvenIn(hosted', issued', shown', entered'),
           issued \subseteq issued', shown \subseteq shown', entered \subseteq entered'
    PROVE  HostedInv'
<1>1. /\ hostedCall' = [d \in Four |-> hostedCall'[d]]
      /\ \A d \in Four : hostedCall'[d] = IF d = c THEN next ELSE hostedCall[d]
  BY DEF HostedInv
<1>2. Hosted!HostedTypeOK'
  BY <1>1 DEF HostedInv, Hosted!HostedTypeOK
<1>3. ASSUME NEW d \in Four
      PROVE  CallRecord(hostedCall'[d]) /\ CarriedBy(d, hostedCall'[d], issued', shown', entered')
  <2>1. CASE d = c
    BY <1>1, <2>1
  <2>2. CASE d # c
    <3>1. hostedCall'[d] = hostedCall[d] /\ CallRecord(hostedCall[d])
      BY <1>1, <2>2 DEF HostedInv
    <3> DEFINE r == hostedCall[d]
    <3>2. CarriedBy(d, r, issued, shown, entered)
      BY DEF HostedInv
    <3>3. r.pc = "save" => ProvenIn(r.file, issued', shown', entered')
      <4> SUFFICES ASSUME r.pc = "save" PROVE ProvenIn(r.file, issued', shown', entered')
        OBVIOUS
      <4>1. ProvenIn(r.file, issued, shown, entered)
        BY <3>2 DEF CarriedBy
      <4> HIDE DEF r
      <4> QED BY <4>1, ProvenGrows
    <3> HIDE DEF r
    <3>4. CarriedBy(d, r, issued', shown', entered')
      BY <3>2, <3>3 DEF CarriedBy
    <3> QED BY <3>1, <3>4 DEF r
  <2> QED BY <2>1, <2>2
<1> QED BY <1>1, <1>2, <1>3 DEF HostedInv

\* A call that stages a proven version.
LEMMA HostedStage ==
    ASSUME HostedInv, NEW c \in Four, NEW version \in Hosted!Files, Hosted!Stage(c, version),
           UNCHANGED <<now, hosted>>, ProvenIn(version, issued', shown', entered'),
           issued \subseteq issued', shown \subseteq shown', entered \subseteq entered'
    PROVE  HostedInv'
<1> DEFINE next == [hostedCall[c] EXCEPT !.pc = "save", !.file = version]
<1>1. hostedCall' = [hostedCall EXCEPT ![c] = next]
  BY DEF Hosted!Stage, HostedInv
<1>2. CallRecord(next) /\ next.pc = "save" /\ next.file = version
  <2> DEFINE old == hostedCall[c]
             of == old.of
             expires == old.expires
             middle == [pc |-> "save", of |-> of, expires |-> expires, file |-> old.file]
  <2>1. old = [pc |-> old.pc, of |-> of, expires |-> expires, file |-> old.file]
    BY DEF HostedInv, CallRecord
  <2> HIDE DEF old, of, expires
  <2>2. [old EXCEPT !.pc = "save"] = middle
    BY <2>1
  <2>3. [middle EXCEPT !.file = version]
          = [pc |-> "save", of |-> of, expires |-> expires, file |-> version]
    OBVIOUS
  <2> HIDE DEF middle
  <2>4. next = [pc |-> "save", of |-> of, expires |-> expires, file |-> version]
    BY <2>2, <2>3 DEF old
  <2> HIDE DEF next
  <2> QED BY <2>4 DEF CallRecord
<1> HIDE DEF next
<1>3. CarriedBy(c, next, issued', shown', entered')
  BY <1>2 DEF CarriedBy
<1>4. ProvenIn(hosted, issued, shown, entered) /\ hosted \in Hosted!Files
  BY DEF HostedInv, Hosted!HostedTypeOK
<1>5. ProvenIn(hosted, issued', shown', entered')
  BY <1>4, ProvenGrows
<1> QED BY <1>1, <1>2, <1>3, <1>4, <1>5, HostedStep

LEMMA HostedRequest ==
    ASSUME HostedInv, NEW c \in Four, NEW w \in Workspaces, NEW email \in Emails,
           Hosted!RequestEmailCode(c, w, email)
    PROVE  HostedInv'
<1> DEFINE next == [pc |-> "sent", of |-> [workspace |-> w, email |-> email],
                    expires |-> now + CodeLife, file |-> Nothing]
<1>1. /\ hostedCall' = [hostedCall EXCEPT ![c] = next]
      /\ issued' = issued \union {[code |-> c, workspace |-> w, email |-> email,
                                   expires |-> now + CodeLife]}
      /\ now' = now /\ hosted' = hosted /\ shown' = shown /\ entered' = entered
  BY DEF Hosted!RequestEmailCode
<1>2. now + CodeLife \in Nat
  BY ServicesAssumption DEF HostedInv, Hosted!HostedTypeOK
<1>3. /\ CallRecord(next) /\ next.pc = "sent" /\ next.file = Nothing
      /\ next.of.workspace = w /\ next.of.email = email /\ next.expires = now + CodeLife
  BY DEF CallRecord
<1> HIDE DEF next
<1>4. CarriedBy(c, next, issued', shown', entered')
  BY <1>1, <1>2, <1>3 DEF CarriedBy
<1>5. ProvenIn(hosted, issued, shown, entered) /\ hosted \in Hosted!Files
  BY DEF HostedInv, Hosted!HostedTypeOK
<1>6. ProvenIn(hosted, issued', shown', entered')
  BY <1>1, <1>5, ProvenGrows
<1> QED BY <1>1, <1>3, <1>4, <1>5, <1>6, HostedStep

LEMMA HostedKeep ==
    ASSUME HostedInv, NEW c \in Four, Hosted!KeepEmailCode(c)
    PROVE  HostedInv'
<1> DEFINE w == hostedCall[c].of.workspace
           kept == [workspace |-> w, email |-> hostedCall[c].of.email,
                    expires |-> hostedCall[c].expires, consumed |-> FALSE]
           codes == [x \in Four |-> IF x = c THEN kept
                        ELSE IF hosted.codes[x] # Nothing /\ hosted.codes[x].consumed
                             THEN Nothing ELSE hosted.codes[x]]
           spaces == hosted.workspaces \union {w}
           version == [hosted EXCEPT !.workspaces = spaces, !.codes = codes]
<1>1. hosted \in Hosted!Files /\ ProvenIn(hosted, issued, shown, entered)
  BY DEF HostedInv, Hosted!HostedTypeOK
<1>2. /\ w \in Workspaces /\ hostedCall[c].of.email \in Emails /\ hostedCall[c].expires \in Nat
      /\ [code |-> c, workspace |-> w, email |-> hostedCall[c].of.email,
          expires |-> hostedCall[c].expires] \in issued
  BY DEF HostedInv, CarriedBy, Hosted!KeepEmailCode
<1>3. Hosted!Stage(c, version) /\ UNCHANGED <<now, hosted, issued, shown, entered>>
  BY <1>1 DEF Hosted!KeepEmailCode, Hosted!Files
<1>4. kept \in Hosted!CodeRecords /\ kept.workspace = w
      /\ \E code \in issued : /\ code.code = c /\ code.workspace = kept.workspace
                              /\ code.email = kept.email /\ code.expires = kept.expires
  BY <1>2 DEF Hosted!CodeRecords
<1> HIDE DEF kept
<1>5. /\ codes \in [Four -> Hosted!CodeRecords \union {Nothing}]
      /\ codes[c] = kept
      /\ \A x \in Four \ {c} : codes[x] # Nothing => codes[x] = hosted.codes[x]
  BY <1>1, <1>4 DEF Hosted!Files
<1>6. spaces \subseteq Workspaces /\ w \in spaces /\ hosted.workspaces \subseteq spaces
  BY <1>1, <1>2 DEF Hosted!Files
<1> HIDE DEF w, codes, spaces
<1>7. /\ version \in Hosted!Files /\ version.workspaces = spaces /\ version.codes = codes
      /\ version.sessions = hosted.sessions /\ version.runs = hosted.runs
  BY <1>1, <1>5, <1>6 DEF Hosted!Files
<1> HIDE DEF version
<1>8. ASSUME NEW x \in Four, version.codes[x] # Nothing
      PROVE  /\ version.codes[x].workspace \in version.workspaces
             /\ \E code \in issued :
                   /\ code.code = x /\ code.workspace = version.codes[x].workspace
                   /\ code.email = version.codes[x].email /\ code.expires = version.codes[x].expires
  <2>1. CASE x = c
    BY <1>4, <1>5, <1>6, <1>7, <2>1
  <2>2. CASE x # c
    <3>1. version.codes[x] = hosted.codes[x] /\ hosted.codes[x] # Nothing
      BY <1>5, <1>7, <1>8, <2>2
    <3> QED BY <1>1, <1>6, <1>7, <3>1 DEF ProvenIn
  <2> QED BY <2>1, <2>2
<1>9. ProvenIn(version, issued, shown, entered)
  BY <1>1, <1>6, <1>7, <1>8 DEF ProvenIn
<1>10. ProvenIn(version, issued', shown', entered')
  BY <1>3, <1>9
<1> QED BY <1>3, <1>7, <1>10, HostedStage

LEMMA HostedVerify ==
    ASSUME HostedInv, NEW c \in Four, NEW x \in Four, NEW email \in Emails,
           Hosted!VerifyEmailCode(c, x, email)
    PROVE  HostedInv'
<1> DEFINE old == hosted.codes[x]
           used == [old EXCEPT !.consumed = TRUE]
           session == [workspace |-> old.workspace, email |-> old.email,
                       expires |-> now + SessionLife]
           proof == [session |-> c, code |-> x, email |-> email, at |-> now]
           version == [hosted EXCEPT !.codes[x] = used, !.sessions[c] = session]
<1>1. hosted \in Hosted!Files /\ ProvenIn(hosted, issued, shown, entered) /\ now \in Nat
  BY ServicesAssumption DEF HostedInv, Hosted!HostedTypeOK
<1>2. /\ old # Nothing /\ old \in Hosted!CodeRecords /\ now < old.expires /\ old.email = email
  BY <1>1 DEF Hosted!VerifyEmailCode, Hosted!MayOpen, Hosted!Files
<1>3. PICK code \in issued : /\ code.code = x /\ code.workspace = old.workspace
                             /\ code.email = old.email /\ code.expires = old.expires
  BY <1>1, <1>2 DEF ProvenIn
<1>4. old.workspace \in hosted.workspaces
  BY <1>1, <1>2 DEF ProvenIn
<1>5. Hosted!Stage(c, version)
  <2>1. [hosted EXCEPT !.codes[x].consumed = TRUE,
                       !.sessions[c] = [workspace |-> hosted.codes[x].workspace,
                                        email |-> hosted.codes[x].email,
                                        expires |-> now + SessionLife]] = version
    BY <1>1 DEF Hosted!Files
  <2> HIDE DEF version
  <2> QED BY <2>1 DEF Hosted!VerifyEmailCode
<1>6. /\ shown' = shown \union {proof}
      /\ now' = now /\ hosted' = hosted /\ issued' = issued /\ entered' = entered
  BY DEF Hosted!VerifyEmailCode
<1>7. /\ used \in Hosted!CodeRecords /\ used.workspace = old.workspace /\ used.email = old.email
      /\ used.expires = old.expires
  BY <1>2 DEF Hosted!CodeRecords
<1>8. /\ session \in Hosted!SessionRecords /\ session.workspace = old.workspace
      /\ session.email = old.email
  BY <1>1, <1>2, ServicesAssumption DEF Hosted!SessionRecords, Hosted!CodeRecords
<1>9. proof \in shown' /\ proof.session = c /\ proof.code = x /\ proof.email = email /\ proof.at = now
  BY <1>6
<1> HIDE DEF used, session, proof
<1>10. /\ version \in Hosted!Files /\ version.workspaces = hosted.workspaces /\ version.runs = hosted.runs
       /\ \A y \in Four : version.codes[y] = IF y = x THEN used ELSE hosted.codes[y]
       /\ \A s \in Four : version.sessions[s] = IF s = c THEN session ELSE hosted.sessions[s]
  BY <1>1, <1>7, <1>8 DEF Hosted!Files
<1> HIDE DEF old, version
<1>11. ProvenIn(hosted, issued, shown', entered)
  BY <1>1, <1>6, ProvenGrows
<1>12. ASSUME NEW y \in Four, version.codes[y] # Nothing
       PROVE  /\ version.codes[y].workspace \in version.workspaces
              /\ \E some \in issued :
                    /\ some.code = y /\ some.workspace = version.codes[y].workspace
                    /\ some.email = version.codes[y].email /\ some.expires = version.codes[y].expires
  BY <1>3, <1>4, <1>7, <1>10, <1>11, <1>12 DEF ProvenIn
<1>13. ASSUME NEW s \in Four, version.sessions[s] # Nothing
       PROVE  /\ version.sessions[s].workspace \in version.workspaces
              /\ \E some \in shown', other \in issued :
                    /\ some.session = s /\ some.code = other.code
                    /\ some.email = other.email /\ other.email = version.sessions[s].email
                    /\ other.workspace = version.sessions[s].workspace /\ some.at < other.expires
  <2>1. CASE s = c
    BY <1>2, <1>3, <1>4, <1>8, <1>9, <1>10, <2>1
  <2>2. CASE s # c
    BY <1>10, <1>11, <1>13, <2>2 DEF ProvenIn
  <2> QED BY <2>1, <2>2
<1>14. ProvenIn(version, issued, shown', entered)
  BY <1>10, <1>11, <1>12, <1>13 DEF ProvenIn
<1>15. ProvenIn(version, issued', shown', entered')
  BY <1>6, <1>14
<1> QED BY <1>5, <1>6, <1>10, <1>15, HostedStage

LEMMA HostedBegin ==
    ASSUME HostedInv, NEW c \in Four, NEW s \in Four, NEW w \in Workspaces,
           NEW thread \in Threads, NEW kinds \in SUBSET ConnectorKinds,
           Hosted!BeginRun(c, s, w, thread, kinds)
    PROVE  HostedInv'
<1> DEFINE next == [pc |-> "admitted", of |-> [workspace |-> w, thread |-> thread, kinds |-> kinds],
                    expires |-> 0, file |-> Nothing]
<1>1. /\ hostedCall' = [hostedCall EXCEPT ![c] = next]
      /\ entered' = entered \union {<<w, s>>}
      /\ now' = now /\ hosted' = hosted /\ issued' = issued /\ shown' = shown
  <2> DEFINE of == [workspace |-> w, thread |-> thread, kinds |-> kinds]
             middle == [Hosted!NoCall EXCEPT !.pc = "admitted"]
  <2>1. middle = [pc |-> "admitted", of |-> Nothing, expires |-> 0, file |-> Nothing]
    BY DEF Hosted!NoCall
  <2> HIDE DEF middle, of
  <2>2. [middle EXCEPT !.of = of] = [pc |-> "admitted", of |-> of, expires |-> 0,
                                     file |-> Nothing]
    BY <2>1
  <2>3. [middle EXCEPT !.of = of] = next
    BY <2>2 DEF of
  <2> QED BY <2>3, Zenon DEF Hosted!BeginRun, middle, of
<1>2. /\ CallRecord(next) /\ next.pc = "admitted" /\ next.file = Nothing
      /\ next.of.workspace = w /\ next.of.thread = thread /\ next.of.kinds = kinds
  BY DEF CallRecord
<1> HIDE DEF next
<1>3. CarriedBy(c, next, issued', shown', entered')
  BY <1>1, <1>2 DEF CarriedBy
<1>4. ProvenIn(hosted, issued, shown, entered) /\ hosted \in Hosted!Files
  BY DEF HostedInv, Hosted!HostedTypeOK
<1>5. ProvenIn(hosted, issued', shown', entered')
  BY <1>1, <1>4, ProvenGrows
<1> QED BY <1>1, <1>2, <1>3, <1>4, <1>5, HostedStep

LEMMA HostedUpsert ==
    ASSUME HostedInv, NEW c \in Four, Hosted!UpsertRun(c)
    PROVE  HostedInv'
<1> DEFINE of == hostedCall[c].of
           new == [workspace |-> of.workspace, thread |-> of.thread]
           spaces == hosted.workspaces \union {of.workspace}
           runsAfter == hosted.runs \union {new}
           links == hosted.connectors
                      \union {[workspace |-> of.workspace, kind |-> k] : k \in of.kinds}
           version == [hosted EXCEPT !.workspaces = spaces, !.runs = runsAfter, !.connectors = links]
<1>1. hosted \in Hosted!Files /\ ProvenIn(hosted, issued, shown, entered)
  BY DEF HostedInv, Hosted!HostedTypeOK
<1>2. /\ of.workspace \in Workspaces /\ of.thread \in Threads /\ of.kinds \subseteq ConnectorKinds
      /\ \E s \in Four : <<of.workspace, s>> \in entered
  BY DEF HostedInv, CarriedBy, Hosted!UpsertRun
<1>3. Hosted!Stage(c, version) /\ UNCHANGED <<now, hosted, issued, shown, entered>>
  BY <1>1 DEF Hosted!UpsertRun, Hosted!Files
<1> HIDE DEF of
<1>4. /\ spaces \subseteq Workspaces /\ of.workspace \in spaces /\ hosted.workspaces \subseteq spaces
      /\ runsAfter \subseteq [workspace : Workspaces, thread : Threads]
      /\ \A r \in runsAfter : r \in hosted.runs \/ r.workspace = of.workspace
  BY <1>1, <1>2 DEF Hosted!Files
<1>5. links \subseteq [workspace : Workspaces, kind : ConnectorKinds]
  BY <1>1, <1>2 DEF Hosted!Files
<1> HIDE DEF new, spaces, runsAfter, links
<1>6. /\ version \in Hosted!Files /\ version.workspaces = spaces /\ version.codes = hosted.codes
      /\ version.sessions = hosted.sessions /\ version.runs = runsAfter
  BY <1>1, <1>4, <1>5 DEF Hosted!Files
<1> HIDE DEF version
<1>7. ASSUME NEW r \in version.runs
      PROVE  (\E s \in Four : <<r.workspace, s>> \in entered) /\ r.workspace \in version.workspaces
  <2>1. CASE r \in hosted.runs
    BY <1>1, <1>4, <1>6, <2>1 DEF ProvenIn
  <2>2. CASE r.workspace = of.workspace
    BY <1>2, <1>4, <1>6, <2>2
  <2> QED BY <1>4, <1>6, <2>1, <2>2
<1>8. ProvenIn(version, issued, shown, entered)
  BY <1>1, <1>4, <1>6, <1>7 DEF ProvenIn
<1>9. ProvenIn(version, issued', shown', entered')
  BY <1>3, <1>8
<1> QED BY <1>3, <1>6, <1>9, HostedStage

LEMMA HostedSave ==
    ASSUME HostedInv, NEW c \in Four, Hosted!SaveFile(c)
    PROVE  HostedInv'
<1> DEFINE next == [pc |-> "done", of |-> Nothing, expires |-> 0, file |-> Nothing]
<1>1. /\ hostedCall' = [hostedCall EXCEPT ![c] = next]
      /\ hosted' = hostedCall[c].file /\ hostedCall[c].pc = "save"
      /\ now' = now /\ issued' = issued /\ shown' = shown /\ entered' = entered
  <2>1. [Hosted!NoCall EXCEPT !.pc = "done"] = next
    BY DEF Hosted!NoCall
  <2> QED BY <2>1, Zenon DEF Hosted!SaveFile
<1>2. CallRecord(next) /\ next.pc = "done" /\ next.file = Nothing
  BY DEF CallRecord
<1> HIDE DEF next
<1>3. hosted' \in Hosted!Files /\ ProvenIn(hosted', issued', shown', entered')
  BY <1>1 DEF HostedInv, CarriedBy
<1>4. CarriedBy(c, next, issued', shown', entered')
  BY <1>2 DEF CarriedBy
<1> QED BY <1>1, <1>2, <1>3, <1>4, HostedStep

LEMMA HostedNext ==
    ASSUME HostedInv, [Hosted!HostedNext]_<<now, hosted, hostedCall, issued, shown, entered>>
    PROVE  HostedInv'
<1>1. CASE UNCHANGED <<now, hosted, hostedCall, issued, shown, entered>>
  BY <1>1 DEF HostedInv, Hosted!HostedTypeOK
<1>2. CASE Hosted!Tick
  <2>1. now' \in 0..LastTime
    BY <1>2, ServicesAssumption DEF HostedInv, Hosted!HostedTypeOK, Hosted!Tick
  <2>2. UNCHANGED <<hosted, hostedCall, issued, shown, entered>>
    BY <1>2 DEF Hosted!Tick
  <2> QED BY <2>1, <2>2 DEF HostedInv, Hosted!HostedTypeOK
<1> QED BY <1>1, <1>2, HostedRequest, HostedKeep, HostedVerify, HostedBegin, HostedUpsert,
           HostedSave DEF Hosted!HostedNext

\* What the property states follows from the invariant.
LEMMA HostedProven == HostedInv => Hosted!HostedTypeOK /\ Hosted!SessionsAreProven
<1> SUFFICES ASSUME HostedInv PROVE Hosted!SessionsAreProven
  BY DEF HostedInv
<1>1. ASSUME NEW version \in Hosted!Copies
      PROVE  ProvenIn(version, issued, shown, entered)
  BY DEF HostedInv, Hosted!HostedTypeOK, Hosted!Copies, CarriedBy
<1> QED BY <1>1 DEF Hosted!SessionsAreProven, ProvenIn

-----------------------------------------------------------------------------
(* Access: each step of the services that moves the part is one of its own. *)

AccessInv ==
    /\ part = "workshop" => WorkshopInv
    /\ part = "hosted" => HostedInv

LEMMA AccessMoves ==
    ASSUME [ServicesNext]_allVars
    PROVE  /\ part' = part
           /\ part = "workshop" =>
                 [Workshop!WorkshopNext]_<<now, store, workshopCall, proved, claimed>>
           /\ part = "hosted" =>
                 [Hosted!HostedNext]_<<now, hosted, hostedCall, issued, shown, entered>>
<1>1. CASE UNCHANGED allVars
  BY <1>1 DEF allVars, accessVars
<1>2. CASE AccessParts
  BY <1>2 DEF AccessParts, Only
<1>3. CASE ServicesNext /\ ~AccessParts
  <2>1. part \notin {"workshop", "hosted"} /\ part' = part
    BY <1>3 DEF ServicesNext, LiveParts, BooksPart, StoreParts, BoardPart, BlobsPart, LanePart,
                IngressPart, ToolsPart, GasPart, ProofPart, PrivacyPart, Only
  <2> QED BY <2>1
<1> QED BY <1>1, <1>2, <1>3

\* In a behaviour of the services in which the workshop or a hosted workspace moves, no
\* agent is bound and no session opened that was not earned, in the file and in every version
\* about to be saved, for any number of calls (workshop-beta-control-plane.ts,
\* verifyHostedWorkspaceEmailCode, upsertHostedWorkspaceRun).
THEOREM AccessIsEarnedAlways == ServicesSpec => []AccessIsEarned
<1>1. ServicesInit => AccessInv
  BY WorkshopInit, HostedBegins DEF ServicesInit, AccessInv
<1>2. AccessInv /\ [ServicesNext]_allVars => AccessInv'
  <2> SUFFICES ASSUME AccessInv, [ServicesNext]_allVars PROVE AccessInv'
    OBVIOUS
  <2> QED BY AccessMoves, WorkshopNext, HostedNext DEF AccessInv
<1>3. AccessInv => AccessIsEarned
  BY WorkshopEarned, HostedProven DEF AccessInv, AccessIsEarned
<1> QED BY <1>1, <1>2, <1>3, PTL DEF ServicesSpec

-----------------------------------------------------------------------------
(* The gas.  A run that buys read too little gas, so that its quote is for *)
(* what was missing; its quote was compared with the limit; and it has a   *)
(* swap only after both.  Whatever the market does to the swap later, the  *)
(* venue takes no more than the quote's most and gives no less than its    *)
(* least.                                                                  *)

\* What a run keeps.
TopUpHolds(moving) ==
    /\ moving = [route |-> moving.route, at |-> moving.at, native |-> moving.native,
                 usdc |-> moving.usdc, quote |-> moving.quote, swap |-> moving.swap,
                 spent |-> moving.spent, got |-> moving.got]
    /\ moving.at \in {"started", "read", "quoting", "approving", "swapping", "waiting",
                      "noop", "stopped", "executed", "unheard"}
    /\ moving.swap \in {"none", "pending", "landed", "reverted"}
    /\ moving.native \in Nat /\ moving.spent \in 0..MaxUsdc /\ moving.got \in Int
    /\ moving.at \in {"quoting", "approving", "swapping", "waiting", "executed", "unheard"} =>
          moving.native < MinNative
    /\ moving.at \in {"approving", "swapping", "waiting", "executed", "unheard"} =>
          /\ moving.quote.in \in Nat /\ moving.quote.max \in 0..MaxUsdc
          /\ moving.quote.least = TargetNative - moving.native
    /\ moving.swap # "none" => moving.at \in {"waiting", "executed", "unheard"}
    /\ moving.swap = "landed" => moving.got >= TargetNative - moving.native

TopUpsInv ==
    /\ native \in Nat /\ usdc \in 0..Treasury
    /\ allowance \in [Gas!Venues -> Nat]
    /\ market \in Markets
    /\ moves \in 0..MaxMoves /\ gasUsed \in 0..MaxGas
    /\ topUp = [r \in Two |-> topUp[r]]
    /\ \A r \in Two : topUp[r] # Nothing => TopUpHolds(topUp[r])

\* The arithmetic of quotes stays in the natural numbers.
LEMMA Products == \A a, b \in Nat : a * b \in Nat
  OBVIOUS

LEMMA Quotients == \A a \in Nat, b \in Nat \ {0} : a \div b \in Nat
  BY Z3

LEMMA CeilDivNat == ASSUME NEW n \in Nat, NEW d \in Nat \ {0} PROVE Gas!CeilDiv(n, d) \in Nat
<1>1. n + d - 1 \in Nat
  OBVIOUS
<1> QED BY <1>1, Quotients DEF Gas!CeilDiv

LEMMA BpsNat ==
    ASSUME NEW amount \in Nat, NEW bps \in Nat
    PROVE  Gas!ApplyBpsUp(amount, bps) \in Nat
<1>1. amount * (10000 + bps) \in Nat
  BY Products
<1> QED BY <1>1, CeilDivNat DEF Gas!ApplyBpsUp

LEMMA AerodromeNat ==
    ASSUME market \in Markets, NEW in \in Nat
    PROVE  Gas!AerodromeOut(market, in) \in Nat
<1>1. market.reserveOut \in Nat /\ market.reserveIn \in Nat \ {0}
  BY ServicesAssumption
<1>2. market.reserveOut * in \in Nat /\ market.reserveIn + in \in Nat \ {0}
  BY <1>1, Products
<1> QED BY <1>2, Quotients DEF Gas!AerodromeOut

LEMMA UniswapNat ==
    ASSUME market \in Markets, NEW out \in Nat
    PROVE  Gas!UniswapCost(market, out) \in Nat
<1>1. market.price * out \in Nat
  BY ServicesAssumption, Products
<1> QED BY <1>1, CeilDivNat DEF Gas!UniswapCost

LEMMA CappedNat == \A amount \in Nat : Gas!Capped(amount) \in Nat
  BY ServicesAssumption DEF Gas!Capped

LEMMA RaisedNat ==
    ASSUME NEW wanted, NEW amount \in Nat
    PROVE  Gas!Raised(wanted, amount) \in Nat
<1>1. \A n \in Nat : Gas!Raise(wanted, n) \in Nat
  BY BpsNat, CappedNat DEF Gas!Raise
<1> QED BY <1>1 DEF Gas!Raised

\* An input that the second venue is asked for.
LEMMA InputNat ==
    ASSUME market \in Markets, NEW out \in Nat, NEW seed \in Nat,
           Gas!AerodromeInput(out, seed) # Nothing
    PROVE  Gas!AerodromeInput(out, seed).amount \in Nat
<1> DEFINE wanted == Gas!CeilDiv(out * 10000, 10000 - SlippageBps)
           half   == IF MaxUsdc \div 2 > 0 THEN MaxUsdc \div 2 ELSE 1
           probe  == IF 0 < seed /\ seed <= MaxUsdc THEN seed ELSE half
           probed == Gas!AerodromeOut(market, probe)
           first  == Gas!Capped(Gas!ApplyBpsUp(Gas!CeilDiv(wanted * probe, probed), 25))
           amount == Gas!Raised(wanted, first)
<1>1. wanted \in Nat
  <2>1. out * 10000 \in Nat /\ 10000 - SlippageBps \in Nat \ {0}
    BY ServicesAssumption
  <2> QED BY <2>1, CeilDivNat
<1>2. probe \in Nat
  <2>1. half \in Nat
    BY ServicesAssumption, Quotients
  <2> QED BY <2>1
<1>3. probed \in Nat
  BY <1>2, AerodromeNat
<1>4. ~(probed <= 0)
  BY DEF Gas!AerodromeInput
<1>5. first \in Nat
  <2> HIDE DEF wanted, probe, probed
  <2>1. wanted * probe \in Nat /\ probed \in Nat \ {0}
    BY <1>1, <1>2, <1>3, <1>4, Products
  <2> QED BY <2>1, CeilDivNat, BpsNat, CappedNat
<1>6. amount \in Nat
  <2> HIDE DEF wanted, first
  <2> QED BY <1>5, RaisedNat
<1>7. Gas!AerodromeInput(out, seed) \in {Nothing, [amount |-> amount]}
  <2>1. Gas!AerodromeInput(out, seed) =
           IF probed <= 0 THEN Nothing
           ELSE IF Gas!AerodromeOut(market, amount) >= wanted THEN [amount |-> amount] ELSE Nothing
    BY DEF Gas!AerodromeInput
  <2> HIDE DEF amount, probed, wanted
  <2> QED BY <2>1
<1> HIDE DEF amount
<1> QED BY <1>6, <1>7

\* Every candidate is a quote for what is missing.
LEMMA QuotesAreForMissing ==
    ASSUME market \in Markets, NEW route, NEW out \in Nat, NEW answers \in BOOLEAN,
           NEW q \in Gas!Candidates(route, out, answers)
    PROVE  q.in \in Nat /\ q.max \in Nat /\ q.least = out
<1> DEFINE cost == Gas!UniswapCost(market, out)
           most == Gas!ApplyBpsUp(cost, SlippageBps)
<1>1. cost \in Nat /\ most \in Nat
  <2>1. cost \in Nat
    BY UniswapNat
  <2> HIDE DEF cost
  <2>2. SlippageBps \in Nat
    BY ServicesAssumption
  <2> QED BY <2>1, <2>2, BpsNat
<1>2. Gas!UniswapQuote(out) = [venue |-> "uniswap-v3", in |-> cost, max |-> most, least |-> out]
  BY DEF Gas!UniswapQuote
<1> HIDE DEF cost, most
<1>3. CASE q = Gas!UniswapQuote(out)
  BY <1>1, <1>2, <1>3
<1>4. ASSUME NEW seed \in Nat, q \in Gas!AerodromeQuote(out, seed)
      PROVE  q.in \in Nat /\ q.max \in Nat /\ q.least = out
  <2> DEFINE input == Gas!AerodromeInput(out, seed)
  <2>1. /\ input # Nothing
        /\ q = [venue |-> "aerodrome", in |-> input.amount, max |-> input.amount, least |-> out]
    BY <1>4 DEF Gas!AerodromeQuote
  <2>2. input.amount \in Nat
    BY <2>1, InputNat
  <2> HIDE DEF input
  <2> QED BY <2>1, <2>2
<1>5. Gas!UniswapQuote(out).max \in Nat
  BY <1>1, <1>2
<1>6. \/ q = Gas!UniswapQuote(out)
      \/ \E seed \in {0, Gas!UniswapQuote(out).max} : q \in Gas!AerodromeQuote(out, seed)
  BY DEF Gas!Candidates
<1> QED BY <1>3, <1>4, <1>5, <1>6

LEMMA TopUpsBegin == Gas!GasInit => TopUpsInv
  BY ServicesAssumption DEF Gas!GasInit, Gas!Venues, TopUpsInv

\* One run moves to next, the balances and the allowances stay typed.
LEMMA TopUpStep ==
    ASSUME TopUpsInv, NEW r \in Two, NEW next, Gas!Step(r, next), TopUpHolds(next),
           native' \in Nat, usdc' \in 0..Treasury, allowance' \in [Gas!Venues -> Nat],
           UNCHANGED <<market, moves, gasUsed>>
    PROVE  TopUpsInv'
<1>1. \A s \in Two : topUp'[s] = IF s = r THEN next ELSE topUp[s]
  BY DEF TopUpsInv, Gas!Step
<1>2. topUp' = [s \in Two |-> topUp'[s]]
  BY DEF TopUpsInv, Gas!Step
<1>3. \A s \in Two : topUp'[s] # Nothing => TopUpHolds(topUp'[s])
  BY <1>1 DEF TopUpsInv
<1> QED BY <1>2, <1>3 DEF TopUpsInv

LEMMA TopUpNext ==
    ASSUME TopUpsInv, [Gas!GasNext]_<<native, usdc, allowance, market, topUp, moves, gasUsed>>
    PROVE  TopUpsInv'
<1>a. /\ native \in Nat /\ usdc \in 0..Treasury /\ allowance \in [Gas!Venues -> Nat]
      /\ market \in Markets
  BY DEF TopUpsInv
<1>1. CASE UNCHANGED <<native, usdc, allowance, market, topUp, moves, gasUsed>>
  BY <1>1 DEF TopUpsInv
<1>2. CASE Gas!UseGas
  BY <1>2, ServicesAssumption DEF TopUpsInv, Gas!UseGas
<1>3. ASSUME NEW m \in Markets, Gas!MarketMoves(m) PROVE TopUpsInv'
  BY <1>3, ServicesAssumption DEF TopUpsInv, Gas!MarketMoves
<1>4. ASSUME NEW r \in Two, Gas!Start(r) PROVE TopUpsInv'
  <2>1. PICK route \in GasRoutes : Gas!Step(r, Gas!Begun(route))
    BY <1>4 DEF Gas!Start
  <2>2. TopUpHolds(Gas!Begun(route))
    BY ServicesAssumption DEF Gas!Begun, TopUpHolds
  <2> QED BY <1>4, <1>a, <2>1, <2>2, TopUpStep DEF Gas!Start
<1>5. ASSUME NEW r \in Two, Gas!ReadBalance(r) PROVE TopUpsInv'
  <2> DEFINE old == topUp[r]
             next == [old EXCEPT !.at = "read", !.native = native]
  <2>1. old.at = "started" /\ TopUpHolds(old)
    BY <1>5 DEF TopUpsInv, Gas!ReadBalance
  <2>2. Gas!Step(r, next)
    BY <1>5, Zenon DEF Gas!ReadBalance
  <2> DEFINE middle == [old EXCEPT !.at = "read"]
  <2> HIDE DEF old
  <2>3. TopUpHolds(middle) /\ middle.at = "read"
    BY <2>1 DEF TopUpHolds
  <2>4. next = [middle EXCEPT !.native = native]
    OBVIOUS
  <2> HIDE DEF middle, next
  <2>5. TopUpHolds(next)
    BY <1>a, <2>3, <2>4 DEF TopUpHolds
  <2> HIDE DEF next
  <2> QED BY <1>5, <1>a, <2>2, <2>5, TopUpStep DEF Gas!ReadBalance
<1>6. ASSUME NEW r \in Two, Gas!ReadTreasury(r) PROVE TopUpsInv'
  <2> DEFINE old == topUp[r]
             to == IF old.native >= MinNative THEN "noop" ELSE "quoting"
             next == [old EXCEPT !.at = to, !.usdc = usdc]
  <2>1. old.at = "read" /\ TopUpHolds(old)
    BY <1>6 DEF TopUpsInv, Gas!ReadTreasury
  <2>2. Gas!Step(r, next)
    BY <1>6, Zenon DEF Gas!ReadTreasury
  <2> HIDE DEF old
  <2>3. to \in {"noop", "quoting"} /\ (to = "quoting" => old.native < MinNative)
    BY <2>1, ServicesAssumption DEF TopUpHolds
  <2> DEFINE middle == [old EXCEPT !.at = to]
  <2> HIDE DEF to
  <2>4. TopUpHolds(middle)
    BY <2>1, <2>3 DEF TopUpHolds
  <2>5. next = [middle EXCEPT !.usdc = usdc]
    OBVIOUS
  <2> HIDE DEF middle, next
  <2>6. TopUpHolds(next)
    BY <2>4, <2>5 DEF TopUpHolds
  <2> QED BY <1>6, <1>a, <2>2, <2>6, TopUpStep DEF Gas!ReadTreasury
<1>7. ASSUME NEW r \in Two, Gas!Quote(r) PROVE TopUpsInv'
  <2> DEFINE old == topUp[r]
             out == TargetNative - old.native
  <2>1. /\ old # Nothing /\ old.at = "quoting"
        /\ UNCHANGED <<native, usdc, allowance, market, moves, gasUsed>>
    BY <1>7, Zenon DEF Gas!Quote
  <2>2. TopUpHolds(old)
    BY <2>1 DEF TopUpsInv
  <2>3. out \in Nat /\ Gas!Desired(r) = out
    BY <2>1, <2>2, ServicesAssumption DEF TopUpHolds, Gas!Desired
  <2>4. PICK answers \in BOOLEAN :
           LET quotes == Gas!Candidates(topUp[r].route, Gas!Desired(r), answers)
           IN  \/ quotes = {} /\ Gas!Step(r, [topUp[r] EXCEPT !.at = "stopped"])
               \/ \E q \in Gas!Cheapest(quotes) :
                     Gas!Step(r, [topUp[r] EXCEPT !.quote = q,
                                     !.at = IF Gas!MayBuy(r, q) THEN "approving" ELSE "stopped"])
    BY <1>7, Zenon DEF Gas!Quote
  <2>5. CASE Gas!Step(r, [topUp[r] EXCEPT !.at = "stopped"])
    <3> DEFINE next == [old EXCEPT !.at = "stopped"]
    <3>1. Gas!Step(r, next)
      BY <2>5
    <3> HIDE DEF old
    <3>2. TopUpHolds(next)
      BY <2>1, <2>2 DEF TopUpHolds
    <3> HIDE DEF next
    <3> QED BY <1>a, <2>1, <3>1, <3>2, TopUpStep
  <2>6. CASE \E q \in Gas!Cheapest(Gas!Candidates(topUp[r].route, Gas!Desired(r), answers)) :
                Gas!Step(r, [topUp[r] EXCEPT !.quote = q,
                                !.at = IF Gas!MayBuy(r, q) THEN "approving" ELSE "stopped"])
    <3>1. PICK q \in Gas!Cheapest(Gas!Candidates(topUp[r].route, Gas!Desired(r), answers)) :
             Gas!Step(r, [topUp[r] EXCEPT !.quote = q,
                             !.at = IF Gas!MayBuy(r, q) THEN "approving" ELSE "stopped"])
      BY <2>6, Zenon
    <3> DEFINE to == IF Gas!MayBuy(r, q) THEN "approving" ELSE "stopped"
               next == [old EXCEPT !.quote = q, !.at = to]
               middle == [old EXCEPT !.quote = q]
    <3>2. Gas!Step(r, next)
      BY <3>1, Zenon
    <3>3. q \in Gas!Candidates(topUp[r].route, Gas!Desired(r), answers)
      BY DEF Gas!Cheapest
    <3>4. q.in \in Nat /\ q.max \in Nat /\ q.least = out
      <4> HIDE DEF out
      <4> QED BY <1>a, <2>3, <3>3, QuotesAreForMissing
    <3>5. to \in {"approving", "stopped"} /\ (to = "approving" => q.max \in 0..MaxUsdc)
      BY <3>4, ServicesAssumption DEF Gas!MayBuy
    <3> HIDE DEF old, to
    <3>6. /\ TopUpHolds(middle) /\ middle.at = "quoting" /\ middle.quote = q
          /\ middle.native = old.native
      BY <2>1, <2>2 DEF TopUpHolds
    <3>7. next = [middle EXCEPT !.at = to]
      OBVIOUS
    <3> HIDE DEF middle, next
    <3>8. TopUpHolds(next)
      BY <3>4, <3>5, <3>6, <3>7 DEF TopUpHolds
    <3> QED BY <1>a, <2>1, <3>2, <3>8, TopUpStep
  <2> QED BY <2>4, <2>5, <2>6, Zenon
<1>8. ASSUME NEW r \in Two, Gas!Approve(r) PROVE TopUpsInv'
  <2> DEFINE old == topUp[r]
             next == [old EXCEPT !.at = "swapping"]
  <2>1. old.at = "approving" /\ TopUpHolds(old)
    BY <1>8 DEF TopUpsInv, Gas!Approve
  <2>2. Gas!Step(r, next)
    BY <1>8, Zenon DEF Gas!Approve
  <2>3. old.quote.max \in Nat
    BY <2>1 DEF TopUpHolds
  <2>4. allowance' \in [Gas!Venues -> Nat]
    BY <1>8, <1>a, <2>3 DEF Gas!Approve
  <2> HIDE DEF old
  <2>5. TopUpHolds(next)
    BY <2>1 DEF TopUpHolds
  <2> HIDE DEF next
  <2> QED BY <1>8, <1>a, <2>2, <2>4, <2>5, TopUpStep DEF Gas!Approve
<1>9. ASSUME NEW r \in Two, Gas!SendSwap(r) PROVE TopUpsInv'
  <2> DEFINE old == topUp[r]
             next == [old EXCEPT !.at = "waiting", !.swap = "pending"]
  <2>1. old.at = "swapping" /\ TopUpHolds(old)
    BY <1>9 DEF TopUpsInv, Gas!SendSwap
  <2>2. Gas!Step(r, next)
    BY <1>9, Zenon DEF Gas!SendSwap
  <2> HIDE DEF old
  <2> DEFINE middle == [old EXCEPT !.at = "waiting"]
  <2>3. TopUpHolds(middle) /\ middle.at = "waiting"
    BY <2>1 DEF TopUpHolds
  <2>4. next = [middle EXCEPT !.swap = "pending"]
    OBVIOUS
  <2> HIDE DEF middle, next
  <2>5. TopUpHolds(next)
    BY <2>3, <2>4 DEF TopUpHolds
  <2> QED BY <1>9, <1>a, <2>2, <2>5, TopUpStep DEF Gas!SendSwap
<1>10. ASSUME NEW r \in Two, Gas!SwapLands(r) PROVE TopUpsInv'
  <2> DEFINE old == topUp[r]
             q == old.quote
             cost == IF q.venue = "uniswap-v3" THEN Gas!UniswapCost(market, Gas!Desired(r))
                     ELSE q.in
             out == IF q.venue = "uniswap-v3" THEN Gas!Desired(r)
                    ELSE Gas!AerodromeOut(market, q.in)
             next == [old EXCEPT !.swap = "landed", !.spent = cost, !.got = out]
  <2>1. old.swap = "pending" /\ TopUpHolds(old) /\ Gas!Desired(r) = TargetNative - old.native
    BY <1>10 DEF TopUpsInv, Gas!SwapLands, Gas!Desired
  <2>2. Gas!Lands(r, cost, out) /\ UNCHANGED <<market, moves, gasUsed>>
    BY <1>10 DEF Gas!SwapLands
  <2>3. /\ old.at \in {"waiting", "executed", "unheard"}
        /\ q.in \in Nat /\ q.max \in 0..MaxUsdc /\ q.least = TargetNative - old.native
        /\ old.native < MinNative /\ old.native \in Nat
    BY <2>1 DEF TopUpHolds
  <2>4. Gas!Desired(r) \in Nat
    BY <2>1, <2>3, ServicesAssumption
  <2>5. cost \in Nat /\ out \in Nat
    BY <1>a, <2>3, <2>4, UniswapNat, AerodromeNat
  <2>6. /\ cost <= q.max /\ out >= q.least /\ cost <= allowance[q.venue] /\ cost <= usdc
        /\ usdc' = usdc - cost /\ native' = native + out
        /\ allowance' = [allowance EXCEPT ![q.venue] = @ - cost]
        /\ Gas!Step(r, next)
    BY <2>2 DEF Gas!Lands
  <2> HIDE DEF old, q, cost, out
  <2>7. native' \in Nat /\ usdc' \in 0..Treasury
    BY <1>a, <2>5, <2>6, ServicesAssumption
  <2>8. allowance' \in [Gas!Venues -> Nat]
    <3>1. ASSUME NEW v \in Gas!Venues
          PROVE  (IF v = q.venue THEN allowance[q.venue] - cost ELSE allowance[v]) \in Nat
      BY <1>a, <2>5, <2>6
    <3> QED BY <1>a, <2>6, <3>1
  <2>9. cost \in 0..MaxUsdc /\ out >= TargetNative - old.native
    BY <2>3, <2>5, <2>6, ServicesAssumption
  <2> DEFINE landed == [route |-> old.route, at |-> old.at, native |-> old.native,
                        usdc |-> old.usdc, quote |-> old.quote, swap |-> "landed",
                        spent |-> old.spent, got |-> old.got]
             paid == [route |-> old.route, at |-> old.at, native |-> old.native,
                      usdc |-> old.usdc, quote |-> old.quote, swap |-> "landed",
                      spent |-> cost, got |-> old.got]
             end == [route |-> old.route, at |-> old.at, native |-> old.native,
                     usdc |-> old.usdc, quote |-> old.quote, swap |-> "landed",
                     spent |-> cost, got |-> out]
  <2>a. [old EXCEPT !.swap = "landed"] = landed
    BY <2>1 DEF TopUpHolds
  <2>b. [landed EXCEPT !.spent = cost] = paid
    OBVIOUS
  <2>c. [paid EXCEPT !.got = out] = end
    OBVIOUS
  <2>d. TopUpHolds(end)
    BY <2>1, <2>3, <2>5, <2>9 DEF TopUpHolds, q
  <2> HIDE DEF landed, paid, end
  <2>10. TopUpHolds(next)
    BY <2>a, <2>b, <2>c, <2>d
  <2> HIDE DEF next
  <2> QED BY <1>a, <2>2, <2>6, <2>7, <2>8, <2>10, TopUpStep
<1>11. ASSUME NEW r \in Two, Gas!SwapReverts(r) PROVE TopUpsInv'
  <2> DEFINE old == topUp[r]
             next == [old EXCEPT !.swap = "reverted"]
  <2>1. old.swap = "pending" /\ TopUpHolds(old)
    BY <1>11 DEF TopUpsInv, Gas!SwapReverts
  <2>2. Gas!Step(r, next)
    BY <1>11, Zenon DEF Gas!SwapReverts
  <2> HIDE DEF old
  <2>3. TopUpHolds(next)
    BY <2>1 DEF TopUpHolds
  <2> HIDE DEF next
  <2> QED BY <1>11, <1>a, <2>2, <2>3, TopUpStep DEF Gas!SwapReverts
<1>12. ASSUME NEW r \in Two, Gas!Finish(r) PROVE TopUpsInv'
  <2> DEFINE old == topUp[r]
             to == IF old.swap = "pending" THEN "unheard" ELSE "executed"
             next == [old EXCEPT !.at = to]
  <2>1. old.at = "waiting" /\ TopUpHolds(old)
    BY <1>12 DEF TopUpsInv, Gas!Finish
  <2>2. Gas!Step(r, next)
    BY <1>12, Zenon DEF Gas!Finish
  <2>3. to \in {"unheard", "executed"}
    OBVIOUS
  <2> HIDE DEF old, to
  <2>4. TopUpHolds(next)
    BY <2>1, <2>3 DEF TopUpHolds
  <2> HIDE DEF next
  <2> QED BY <1>12, <1>a, <2>2, <2>4, TopUpStep DEF Gas!Finish
<1> QED BY <1>1, <1>2, <1>3, <1>4, <1>5, <1>6, <1>7, <1>8, <1>9, <1>10, <1>11, <1>12
        DEF Gas!GasNext

GasInv == part = "gas" => TopUpsInv

\* In a behaviour of the services in which gas is bought, no run spends more than its limit
\* and a swap that lands gives all that was missing, for any market, route and number of
\* overlapping runs (top-up-facilitator-gas.mjs).
THEOREM TopUpsAreBoundedAlways == ServicesSpec => []TopUpsAreBounded
<1>1. ServicesInit => GasInv
  BY TopUpsBegin DEF ServicesInit, GasInv
<1>2. GasInv /\ [ServicesNext]_allVars => GasInv'
  <2> SUFFICES ASSUME GasInv, [ServicesNext]_allVars PROVE GasInv'
    OBVIOUS
  <2>1. /\ part' = part
        /\ part = "gas" =>
              [Gas!GasNext]_<<native, usdc, allowance, market, topUp, moves, gasUsed>>
    <3>1. CASE UNCHANGED allVars
      BY <3>1 DEF allVars, gasVars
    <3>2. CASE GasPart
      BY <3>2 DEF GasPart, Only
    <3>3. CASE ServicesNext /\ ~GasPart
      <4>1. part # "gas" /\ part' = part
        BY <3>3 DEF ServicesNext, LiveParts, BooksPart, StoreParts, BoardPart, AccessParts,
                    BlobsPart, LanePart, IngressPart, ToolsPart, ProofPart, PrivacyPart, Only
      <4> QED BY <4>1
    <3> QED BY <3>1, <3>2, <3>3
  <2> QED BY <2>1, TopUpNext DEF GasInv
<1>3. GasInv => TopUpsAreBounded
  <2> SUFFICES ASSUME TopUpsInv PROVE Gas!GasTypeOK /\ Gas!TopUpsAreBounded
    BY DEF GasInv, TopUpsAreBounded
  <2>1. Gas!GasTypeOK
    BY DEF TopUpsInv, TopUpHolds, Gas!GasTypeOK
  <2>2. Gas!TopUpsAreBounded
    BY ServicesAssumption DEF TopUpsInv, TopUpHolds, Gas!TopUpsAreBounded, Gas!Desired
  <2> QED BY <2>1, <2>2
<1> QED BY <1>1, <1>2, <1>3, PTL DEF ServicesSpec

-----------------------------------------------------------------------------
(* The ingress.  A request whose run the cache still remembers is refused; *)
(* when the cache forgets it, its timestamp is older than a request may    *)
(* be, and stays so.  A run of the process therefore gives the runtime a   *)
(* request once, which the count of restarts bounds.                       *)

TooOld(r) == sent[r] # Nothing /\ now + skew - sent[r].at > MaxAge

SentHolds(envelope) ==
    envelope # Nothing =>
        envelope \in Envelopes /\ Ingress!HirePolicy(envelope)

\* What the indexer holds of a request is an answer that fits its package.
AnswerIs == Ingress!Completions \cup {"awaited", "error", "quoted", "failed", "accepted",
                                      "return_rejected"}
AnswerHolds(a) ==
    a # Nothing =>
        /\ a = [is |-> a.is, package |-> a.package]
        /\ a.is \in AnswerIs
        /\ a.is = "awaited" => a.package = Nothing
        /\ a.package # Nothing /\ Ingress!SellerAccepts(a.package)
              /\ a.package.visible # "misdigested" =>
                 (a.is \in Ingress!Completions <=> ~a.package.large)

IngressTyped ==
    /\ now \in 0..IngressTime /\ skew \in Skews
    /\ sent = [r \in HireIds |-> sent[r]] /\ seen = [r \in HireIds |-> seen[r]]
    /\ given \in [HireIds -> Nat] /\ answer = [r \in HireIds |-> answer[r]]
    /\ copy \in [HireIds \X Two -> {"none", "network", "read", "runtime", "done"}]
    /\ ingress \in [up : BOOLEAN, active : BOOLEAN, demo : BOOLEAN]
    /\ ingressCrashes \in Nat

CopyHolds(r, n) ==
    /\ copy[<<r, n>>] # "none" => sent[r] # Nothing
    /\ copy[<<r, n>>] = "runtime" => sent[r].type # "quote_intake"

CopiesHold == \A r \in HireIds : \A n \in Two : CopyHolds(r, n)

SeenHolds ==
    \A r \in HireIds : seen[r] # Nothing =>
        seen[r] \in Int /\ sent[r] # Nothing /\ seen[r] >= sent[r].at - MaxAge

RunsHold ==
    \A r \in HireIds : /\ given[r] <= 1 + ingressCrashes
                       /\ seen[r] = Nothing /\ ~TooOld(r) => given[r] <= ingressCrashes

IngressInv ==
    /\ IngressTyped /\ CopiesHold /\ SeenHolds /\ RunsHold
    /\ \A r \in HireIds : SentHolds(sent[r]) /\ AnswerHolds(answer[r])

LEMMA IngressBegins == Ingress!IngressInit => IngressInv
<1> SUFFICES ASSUME Ingress!IngressInit PROVE IngressInv
  OBVIOUS
<1> USE DEF Ingress!IngressInit
<1>1. IngressTyped
  BY ServicesAssumption DEF IngressTyped
<1>2. CopiesHold
  BY DEF CopiesHold, CopyHolds
<1>3. SeenHolds
  BY DEF SeenHolds
<1>4. RunsHold
  BY DEF RunsHold
<1> QED BY <1>1, <1>2, <1>3, <1>4 DEF IngressInv, SentHolds, AnswerHolds

\* The envelope that is sent fits the policy that the ingress has of its own.
LEMMA EnvelopeTyped ==
    ASSUME NEW o \in HireOrders, now \in Nat
    PROVE  /\ Ingress!Envelope(o) \in Envelopes /\ Ingress!Envelope(o).pricing = o.pricing
           /\ Ingress!Envelope(o).type = Ingress!RequestType(o)
           /\ Ingress!RequestType(o) \in {"free_test", "quote_intake", "paid_execution"}
<1> DEFINE type == Ingress!RequestType(o)
           given1 == CASE type = "quote_intake" -> "quote_requested"
                       [] type = "free_test"    -> "free_test"
                       [] OTHER                 -> o.status
           paid1 == type = "paid_execution" /\ o.status # "not-required"
           amount1 == type = "paid_execution" /\ o.amount
           rail1 == type = "paid_execution" /\ o.rail
           quote1 == type = "paid_execution" /\ o.quote
           lane1 == type = "paid_execution" /\ o.lane
<1>1. /\ o.pricing \in STRING /\ o.status \in STRING
  BY ServicesAssumption DEF Orders
<1>2. type \in {"free_test", "quote_intake", "paid_execution"}
  BY DEF Ingress!RequestType
<1>3. Ingress!Envelope(o) = [type |-> type, pricing |-> o.pricing, status |-> given1,
                             paid |-> paid1, amount |-> amount1, rail |-> rail1,
                             quote |-> quote1, lane |-> lane1, at |-> now]
  BY Zenon DEF Ingress!Envelope
<1> HIDE DEF type
<1>4. given1 \in STRING \cup {"quote_requested", "free_test"}
  BY <1>1, <1>2
<1>5. paid1 \in BOOLEAN /\ amount1 \in BOOLEAN /\ rail1 \in BOOLEAN /\ quote1 \in BOOLEAN
      /\ lane1 \in BOOLEAN
  OBVIOUS
<1> HIDE DEF given1, paid1, amount1, rail1, quote1, lane1
<1>7. Ingress!Envelope(o) \in Envelopes
  BY <1>1, <1>2, <1>3, <1>4, <1>5 DEF Envelopes
<1>8. Ingress!Envelope(o).pricing = o.pricing /\ Ingress!Envelope(o).type = type
  BY <1>3
<1> QED BY <1>2, <1>7, <1>8 DEF type

LEMMA EnvelopeFits ==
    ASSUME NEW o \in HireOrders, Ingress!ValidPolicy(Ingress!Envelope(o)), now \in Nat
    PROVE  SentHolds(Ingress!Envelope(o))
<1> DEFINE e == Ingress!Envelope(o)
           type == Ingress!RequestType(o)
<1>1. o.pricing = "quote-required" /\ o.status # "not-required" => o.quote \/ o.lane
  BY ServicesAssumption DEF Orders
<1>2. /\ e \in Envelopes /\ e.type = type /\ e.pricing = o.pricing
      /\ type \in {"free_test", "quote_intake", "paid_execution"}
  BY EnvelopeTyped
<1>3. /\ type = "quote_intake" => e.status = "quote_requested"
      /\ type = "free_test" => e.status = "free_test"
      /\ type = "paid_execution" =>
            e.status = o.status /\ (e.quote <=> o.quote) /\ (e.lane <=> o.lane)
  BY DEF Ingress!Envelope
<1>4. Ingress!ValidPolicy(e)
  OBVIOUS
<1> HIDE DEF e, type
<1>5. Ingress!HirePolicy(e)
  <2>1. CASE type = "quote_intake"
    <3>1. e.pricing = "quote-required" /\ ~e.paid /\ ~e.amount
      BY <1>2, <1>4, <2>1 DEF Ingress!ValidPolicy
    <3> QED BY <1>2, <1>3, <2>1, <3>1 DEF Ingress!HirePolicy
  <2>2. CASE type = "free_test"
    <3>1. e.pricing = "free-test" /\ ~e.paid /\ ~e.amount /\ ~e.rail
      BY <1>2, <1>4, <2>2 DEF Ingress!ValidPolicy
    <3> QED BY <1>2, <1>3, <2>2, <3>1 DEF Ingress!HirePolicy
  <2>3. CASE type = "paid_execution"
    <3>1. /\ e.pricing \in {"fixed-exact", "quote-required"} /\ e.status \in Ingress!PaidStatuses
          /\ e.paid /\ e.amount /\ e.rail
      BY <1>2, <1>4, <2>3 DEF Ingress!ValidPolicy
    <3>2. o.status # "not-required"
      BY <1>3, <2>3, <3>1 DEF Ingress!PaidStatuses
    <3>3. e.pricing = "quote-required" /\ ~e.lane => e.quote
      BY <1>1, <1>2, <1>3, <2>3, <3>2
    <3> QED BY <1>2, <2>3, <3>1, <3>3 DEF Ingress!HirePolicy
  <2> QED BY <1>2, <2>1, <2>2, <2>3
<1> QED BY <1>2, <1>5 DEF SentHolds, e

\* What the ingress makes of a package that is complete.
LEMMA NormalizeKeeps ==
    ASSUME NEW p \in Ingress!Package, p.status = "completed"
    PROVE  /\ Ingress!Normalize(p) \in Ingress!Package
           /\ Ingress!Normalize(p).status = "completed"
           /\ Ingress!Normalize(p).output = p.output
           /\ Ingress!Normalize(p).visible = p.visible
           /\ Ingress!Normalize(p).large = p.large
<1> DEFINE id == IF p.id = "none" THEN "own" ELSE p.id
           private == IF p.private = "none" THEN "true" ELSE p.private
           n1 == [p EXCEPT !.id = id]
           n2 == [n1 EXCEPT !.private = private]
           n3 == [n2 EXCEPT !.checks = TRUE]
           n4 == [n3 EXCEPT !.files = p.files \/ p.deliverables]
<1>1. id \in {"own", "none", "wrong"} /\ private \in {"true", "none", "false"}
      /\ (p.files \/ p.deliverables) \in BOOLEAN
  BY DEF Ingress!Package
<1> HIDE DEF id, private
<1>2. n1 \in Ingress!Package /\ n1.status = "completed" /\ n1.output = p.output
      /\ n1.visible = p.visible /\ n1.large = p.large /\ n1.private = p.private
  BY <1>1 DEF Ingress!Package
<1> HIDE DEF n1
<1>3. n2 \in Ingress!Package /\ n2.status = "completed" /\ n2.output = p.output
      /\ n2.visible = p.visible /\ n2.large = p.large
  BY <1>1, <1>2 DEF Ingress!Package
<1> HIDE DEF n2
<1>4. n3 \in Ingress!Package /\ n3.status = "completed" /\ n3.output = p.output
      /\ n3.visible = p.visible /\ n3.large = p.large
  BY <1>3 DEF Ingress!Package
<1> HIDE DEF n3
<1>5. n4 \in Ingress!Package /\ n4.status = "completed" /\ n4.output = p.output
      /\ n4.visible = p.visible /\ n4.large = p.large
  BY <1>1, <1>4 DEF Ingress!Package
<1>6. Ingress!Normalize(p) = n4
  <2>1. [n1 EXCEPT !.private = IF n1.private = "none" THEN "true" ELSE n1.private] = n2
    BY <1>2 DEF n2, private
  <2>2. Ingress!Normalize(p) =
           [[[[p EXCEPT !.id = IF p.id = "none" THEN "own" ELSE p.id]
               EXCEPT !.private = IF p.private = "none" THEN "true" ELSE p.private]
               EXCEPT !.checks = TRUE] EXCEPT !.files = p.files \/ p.deliverables]
    BY Zenon DEF Ingress!Normalize
  <2> QED BY <2>2, Zenon DEF n4, n3, n2, n1, id, private
<1> HIDE DEF n4
<1> QED BY <1>5, <1>6

LEMMA ParseAgrees ==
    ASSUME NEW p \in Ingress!Package, NEW type
    PROVE  /\ Ingress!Parse(Ingress!Normalize(p), type) \in AnswerIs \ {"awaited"}
           /\ type # "quote_intake" /\ Ingress!SellerAccepts(p) /\ p.visible # "misdigested" =>
                 (Ingress!Parse(Ingress!Normalize(p), type) \in Ingress!Completions <=> ~p.large)
<1>1. CASE p.status # "completed"
  <2>1. Ingress!Normalize(p) = p /\ ~Ingress!SellerAccepts(p)
    BY <1>1 DEF Ingress!Normalize, Ingress!SellerAccepts
  <2>2. p.status = "other" => Ingress!Parse(p, type) = "return_rejected"
    BY DEF Ingress!Parse
  <2>3. Ingress!Parse(p, type) \in {"return_rejected", p.status}
    BY <1>1 DEF Ingress!Parse
  <2>4. p.status \in {"quoted", "completed", "failed", "other"}
    BY DEF Ingress!Package, Ingress!Statuses
  <2> QED BY <1>1, <2>1, <2>2, <2>3, <2>4 DEF AnswerIs
<1>2. CASE p.status = "completed"
  <2> DEFINE q == Ingress!Normalize(p)
  <2>1. q \in Ingress!Package /\ q.status = "completed" /\ q.output = p.output
        /\ q.visible = p.visible /\ q.large = p.large
    BY <1>2, NormalizeKeeps
  <2>2. Ingress!SellerAccepts(p) => q.id = "own" /\ q.private = "true" /\ p.output
    BY DEF Ingress!SellerAccepts
  <2> HIDE DEF q
  <2>3. Ingress!Classified(q) \in Ingress!Completions
    BY DEF Ingress!Classified, Ingress!Completions
  <2>4. Ingress!Parse(q, type) \in {"return_rejected", Ingress!Classified(q)}
    BY <2>1 DEF Ingress!Parse
  <2>5. ASSUME type # "quote_intake", Ingress!SellerAccepts(p), p.visible # "misdigested",
               ~p.large
        PROVE  Ingress!Parse(q, type) = Ingress!Classified(q)
    BY <2>1, <2>2, <2>5 DEF Ingress!Parse
  <2>6. Ingress!Parse(q, type) \in AnswerIs \ {"awaited"}
    BY <2>3, <2>4 DEF AnswerIs, Ingress!Completions
  <2>7. p.large => Ingress!Parse(q, type) \notin Ingress!Completions
    BY <2>1 DEF Ingress!Parse, Ingress!Completions
  <2> QED BY <2>3, <2>5, <2>6, <2>7 DEF q
<1> QED BY <1>1, <1>2

\* An answer that fits what came with it is taken, or the one there is stays.
LEMMA HearHolds ==
    ASSUME IngressInv, NEW r \in HireIds, NEW is \in AnswerIs \ {"awaited"}, NEW p,
           Ingress!Hear(r, is, p),
           p # Nothing /\ Ingress!SellerAccepts(p) /\ p.visible # "misdigested" =>
               (is \in Ingress!Completions <=> ~p.large)
    PROVE  /\ answer' = [s \in HireIds |-> answer'[s]]
           /\ \A s \in HireIds : AnswerHolds(answer'[s])
<1>1. answer = [s \in HireIds |-> answer[s]] /\ \A s \in HireIds : AnswerHolds(answer[s])
  BY DEF IngressInv, IngressTyped
<1> DEFINE a == [is |-> is, package |-> p]
<1>2. AnswerHolds(a)
  BY DEF AnswerHolds
<1> HIDE DEF a
<1>3. answer' \in {answer, [answer EXCEPT ![r] = a]}
  BY DEF Ingress!Hear, a
<1> QED BY <1>1, <1>2, <1>3

\* A copy of a request moves on, not to the runtime, and what is held of answers is good.
LEMMA CopyMoves ==
    ASSUME IngressInv, NEW r \in HireIds, NEW n \in Two, NEW at \in {"network", "read", "done"},
           sent[r] # Nothing, copy' = [copy EXCEPT ![<<r, n>>] = at],
           UNCHANGED <<now, skew, sent, seen, ingress, given, ingressCrashes>>,
           answer' = [s \in HireIds |-> answer'[s]],
           \A s \in HireIds : AnswerHolds(answer'[s])
    PROVE  IngressInv'
<1>1. copy \in [HireIds \X Two -> {"none", "network", "read", "runtime", "done"}]
  BY DEF IngressInv, IngressTyped
<1>2. \A s \in HireIds, m \in Two :
         copy'[<<s, m>>] = IF <<s, m>> = <<r, n>> THEN at ELSE copy[<<s, m>>]
  BY <1>1
<1>3. CopiesHold'
  <2> SUFFICES ASSUME NEW s \in HireIds, NEW m \in Two PROVE CopyHolds(s, m)'
    BY Zenon DEF CopiesHold
  <2>1. CopyHolds(s, m)
    BY Zenon DEF IngressInv, CopiesHold
  <2> QED BY <1>2, <2>1 DEF CopyHolds
<1>4. IngressTyped'
  BY <1>1 DEF IngressInv, IngressTyped
<1> QED BY <1>3, <1>4 DEF IngressInv, SeenHolds, RunsHold, TooOld, SentHolds

LEMMA IngressSends ==
    ASSUME IngressInv, NEW r \in HireIds, NEW o \in HireOrders, Ingress!Send(r, o)
    PROVE  IngressInv'
<1> DEFINE e == Ingress!Envelope(o)
           a == [is |-> "awaited", package |-> Nothing]
<1>1. /\ sent[r] = Nothing /\ Ingress!ValidPolicy(e)
      /\ sent' = [sent EXCEPT ![r] = e]
      /\ answer' = [answer EXCEPT ![r] = a]
      /\ UNCHANGED <<now, skew, seen, ingress, given, ingressCrashes>>
  BY DEF Ingress!Send
<1>2. PICK n \in Two : copy' = [copy EXCEPT ![<<r, n>>] = "network"]
  BY DEF Ingress!Send
<1>3. now \in Nat
  BY ServicesAssumption DEF IngressInv, IngressTyped
<1>4. SentHolds(e) /\ e # Nothing
  <2>1. SentHolds(e)
    BY <1>1, <1>3, EnvelopeFits
  <2>2. e \in Envelopes
    BY <1>3, EnvelopeTyped
  <2> HIDE DEF e
  <2> QED BY <2>1, <2>2, ServicesAssumption
<1>5. AnswerHolds(a)
  BY DEF AnswerHolds, AnswerIs
<1> HIDE DEF e, a
<1>6. /\ \A s \in HireIds : sent'[s] = IF s = r THEN e ELSE sent[s]
      /\ \A s \in HireIds : answer'[s] = IF s = r THEN a ELSE answer[s]
      /\ \A s \in HireIds, m \in Two :
            copy'[<<s, m>>] = IF <<s, m>> = <<r, n>> THEN "network" ELSE copy[<<s, m>>]
  BY <1>1, <1>2 DEF IngressInv, IngressTyped
<1>7. IngressTyped'
  BY <1>1, <1>2 DEF IngressInv, IngressTyped
<1>8. CopiesHold'
  <2> SUFFICES ASSUME NEW s \in HireIds, NEW m \in Two PROVE CopyHolds(s, m)'
    BY Zenon DEF CopiesHold
  <2>1. CopyHolds(s, m) /\ CopyHolds(r, m)
    BY Zenon DEF IngressInv, CopiesHold
  <2> QED BY <1>1, <1>4, <1>6, <2>1 DEF CopyHolds
<1>9. SeenHolds'
  BY <1>1, <1>6 DEF IngressInv, SeenHolds
<1>10. RunsHold'
  BY <1>1, <1>6 DEF IngressInv, RunsHold, TooOld
<1> QED BY <1>1, <1>4, <1>5, <1>6, <1>7, <1>8, <1>9, <1>10 DEF IngressInv

LEMMA IngressArrives ==
    ASSUME IngressInv, NEW r \in HireIds, NEW n \in Two, Ingress!Arrive(r, n)
    PROVE  IngressInv'
<1>1. /\ copy[<<r, n>>] = "network"
      /\ UNCHANGED <<now, skew, sent, seen, ingress, given, ingressCrashes>>
      /\ \E at \in {"read", "done"} : copy' = [copy EXCEPT ![<<r, n>>] = at]
      /\ UNCHANGED answer \/ Ingress!Hear(r, "error", Nothing)
  BY DEF Ingress!Arrive
<1>2. sent[r] # Nothing
  BY <1>1 DEF IngressInv, CopiesHold, CopyHolds
<1>3. "error" \in AnswerIs \ {"awaited"}
  BY DEF AnswerIs
<1>4. /\ answer' = [s \in HireIds |-> answer'[s]]
      /\ \A s \in HireIds : AnswerHolds(answer'[s])
  <2>1. CASE UNCHANGED answer
    BY <2>1 DEF IngressInv, IngressTyped
  <2>2. CASE Ingress!Hear(r, "error", Nothing)
    BY <1>3, <2>2, HearHolds
  <2> QED BY <1>1, <2>1, <2>2
<1> QED BY <1>1, <1>2, <1>4, CopyMoves

LEMMA IngressAdmits ==
    ASSUME IngressInv, NEW r \in HireIds, NEW n \in Two, Ingress!Admit(r, n)
    PROVE  IngressInv'
<1> DEFINE e == sent[r]
           Fits == Ingress!Fresh(e) /\ ingress.active /\ Ingress!HirePolicy(e)
           first == IF Ingress!Remembered[r] = Nothing THEN Ingress!Clock
                    ELSE Ingress!Remembered[r]
           Runs == /\ Fits /\ Ingress!Remembered[r] = Nothing /\ e.type # "quote_intake"
                   /\ copy' = [copy EXCEPT ![<<r, n>>] = "runtime"]
                   /\ given' = [given EXCEPT ![r] = @ + 1]
                   /\ UNCHANGED answer
           Ends == /\ copy' = [copy EXCEPT ![<<r, n>>] = "done"] /\ UNCHANGED given
                   /\ \/ Ingress!Hear(r, "error", Nothing) \/ Ingress!Hear(r, "quoted", Nothing)
                      \/ Ingress!Hear(r, "demo_completion", Ingress!DemoPackage)
<1>1. /\ copy[<<r, n>>] = "read"
      /\ seen' = IF ~Fits THEN seen ELSE [Ingress!Remembered EXCEPT ![r] = first]
      /\ UNCHANGED <<now, skew, sent, ingress, ingressCrashes>>
  BY DEF Ingress!Admit, Ingress!Remembered
<1>2. Runs \/ Ends
  BY DEF Ingress!Admit
<1>a. /\ now \in Nat /\ skew \in Int /\ MaxAge \in Nat /\ ReplayTtl \in Nat
      /\ ReplayTtl >= 2 * MaxAge /\ Ingress!Clock \in Int /\ Ingress!Clock = now + skew
      /\ given \in [HireIds -> Nat] /\ ingressCrashes \in Nat /\ Nothing \notin Int
  BY ServicesAssumption DEF IngressInv, IngressTyped, Ingress!Clock
<1>b. sent[r] # Nothing /\ sent[r].at \in Nat
  BY <1>1 DEF IngressInv, CopiesHold, CopyHolds, SentHolds, Envelopes
<1>c. \A s \in HireIds : sent[s] # Nothing => sent[s].at \in Nat
  BY DEF IngressInv, SentHolds, Envelopes
\* What the cache forgets is too old from then on.
<1>3. /\ Ingress!Remembered = [s \in HireIds |-> Ingress!Remembered[s]]
      /\ \A s \in HireIds :
            \/ Ingress!Remembered[s] = seen[s]
            \/ seen[s] # Nothing /\ Ingress!Remembered[s] = Nothing /\ TooOld(s)
  <2>1. ASSUME NEW s \in HireIds, seen[s] # Nothing, Ingress!Clock - seen[s] > ReplayTtl
        PROVE  TooOld(s)
    <3>1. seen[s] \in Int /\ sent[s] # Nothing /\ seen[s] >= sent[s].at - MaxAge
      BY <2>1 DEF IngressInv, SeenHolds
    <3> QED BY <1>a, <1>c, <2>1, <3>1 DEF TooOld
  <2> QED BY <2>1 DEF Ingress!Remembered
<1>4. /\ seen' = [s \in HireIds |-> seen'[s]]
      /\ \A s \in HireIds \ {r} : seen'[s] \in {seen[s], Ingress!Remembered[s]}
      /\ Fits => seen'[r] = first
      /\ ~Fits => seen'[r] = seen[r]
  BY <1>1, <1>3 DEF IngressInv, IngressTyped
<1>5. first # Nothing
  BY <1>a
<1>6. Fits => Ingress!Clock >= sent[r].at - MaxAge
  BY <1>a, <1>b DEF Ingress!Fresh
<1>7. SeenHolds'
  <2> SUFFICES ASSUME NEW s \in HireIds, seen'[s] # Nothing
               PROVE  seen'[s] \in Int /\ sent[s] # Nothing /\ seen'[s] >= sent[s].at - MaxAge
    BY <1>1 DEF SeenHolds
  <2>1. CASE seen'[s] = seen[s]
    BY <2>1 DEF IngressInv, SeenHolds
  <2>2. CASE seen'[s] # seen[s]
    <3>1. s = r /\ Fits
      BY <1>3, <1>4, <2>2
    <3>2. seen'[r] = Ingress!Clock
      BY <1>3, <1>4, <2>2, <3>1
    <3> QED BY <1>a, <1>b, <1>6, <3>1, <3>2
  <2> QED BY <2>1, <2>2
<1>8. \A s \in HireIds \ {r} :
         seen'[s] = Nothing /\ ~TooOld(s) => seen[s] = Nothing
  BY <1>3, <1>4
<1>9. \A s \in HireIds : TooOld(s)' = TooOld(s)
  BY <1>1 DEF TooOld
<1>10. CASE Runs
  <2>1. /\ \A s \in HireIds : given'[s] = IF s = r THEN given[r] + 1 ELSE given[s]
        /\ given' \in [HireIds -> Nat]
    BY <1>a, <1>10
  <2>2. ~TooOld(r)
    BY <1>a, <1>b, <1>10 DEF TooOld, Ingress!Fresh
  <2>3. seen[r] = Nothing
    BY <1>3, <1>10, <2>2
  <2>4. given[r] <= ingressCrashes
    BY <2>2, <2>3 DEF IngressInv, RunsHold
  <2>5. RunsHold'
    <3> SUFFICES ASSUME NEW s \in HireIds
                 PROVE  /\ given'[s] <= 1 + ingressCrashes
                        /\ seen'[s] = Nothing /\ ~TooOld(s) => given'[s] <= ingressCrashes
      BY <1>1, <1>9 DEF RunsHold
    <3>1. CASE s = r
      BY <1>4, <1>5, <1>10, <1>a, <2>1, <2>4, <3>1
    <3>2. CASE s # r
      BY <1>8, <2>1, <3>2 DEF IngressInv, RunsHold
    <3> QED BY <3>1, <3>2
  <2>6. \A s \in HireIds, m \in Two :
           copy'[<<s, m>>] = IF <<s, m>> = <<r, n>> THEN "runtime" ELSE copy[<<s, m>>]
    BY <1>10 DEF IngressInv, IngressTyped
  <2>7. CopiesHold'
    <3> SUFFICES ASSUME NEW s \in HireIds, NEW m \in Two PROVE CopyHolds(s, m)'
      BY Zenon DEF CopiesHold
    <3>1. CopyHolds(s, m)
      BY Zenon DEF IngressInv, CopiesHold
    <3> QED BY <1>1, <1>b, <1>10, <2>6, <3>1 DEF CopyHolds
  <2>8. IngressTyped'
    BY <1>1, <1>4, <1>10, <2>1 DEF IngressInv, IngressTyped
  <2> QED BY <1>1, <1>7, <1>10, <2>5, <2>7, <2>8 DEF IngressInv
<1>11. CASE Ends
  <2>1. /\ {"error", "quoted", "demo_completion"} \subseteq AnswerIs \ {"awaited"}
        /\ "demo_completion" \in Ingress!Completions
    BY DEF AnswerIs, Ingress!Completions
  <2>a. ~Ingress!DemoPackage.large
    BY DEF Ingress!DemoPackage
  <2>2. /\ answer' = [s \in HireIds |-> answer'[s]]
        /\ \A s \in HireIds : AnswerHolds(answer'[s])
    <3>1. CASE Ingress!Hear(r, "error", Nothing)
      BY <2>1, <3>1, HearHolds
    <3>2. CASE Ingress!Hear(r, "quoted", Nothing)
      BY <2>1, <3>2, HearHolds
    <3>3. CASE Ingress!Hear(r, "demo_completion", Ingress!DemoPackage)
      BY <2>1, <2>a, <3>3, HearHolds
    <3> QED BY <1>11, <3>1, <3>2, <3>3
  <2>3. RunsHold'
    <3> SUFFICES ASSUME NEW s \in HireIds, seen'[s] = Nothing, ~TooOld(s)
                 PROVE  given[s] <= ingressCrashes
      BY <1>1, <1>9, <1>11 DEF IngressInv, RunsHold
    <3>1. seen[s] = Nothing
      BY <1>4, <1>5, <1>8
    <3> QED BY <3>1 DEF IngressInv, RunsHold
  <2>4. \A s \in HireIds, m \in Two :
           copy'[<<s, m>>] = IF <<s, m>> = <<r, n>> THEN "done" ELSE copy[<<s, m>>]
    BY <1>11 DEF IngressInv, IngressTyped
  <2>5. CopiesHold'
    <3> SUFFICES ASSUME NEW s \in HireIds, NEW m \in Two PROVE CopyHolds(s, m)'
      BY Zenon DEF CopiesHold
    <3>1. CopyHolds(s, m)
      BY Zenon DEF IngressInv, CopiesHold
    <3> QED BY <1>1, <1>b, <2>4, <3>1 DEF CopyHolds
  <2>6. IngressTyped'
    BY <1>1, <1>4, <1>11, <2>2 DEF IngressInv, IngressTyped
  <2> QED BY <1>1, <1>7, <2>2, <2>3, <2>5, <2>6 DEF IngressInv
<1> QED BY <1>2, <1>10, <1>11

LEMMA IngressReturns ==
    ASSUME IngressInv, NEW r \in HireIds, NEW n \in Two,
           \/ \E p \in HirePackages : Ingress!RuntimeReturns(r, n, p)
           \/ \E is \in {"accepted", "return_rejected", "error"} :
                 Ingress!RuntimeAnswers(r, n, is)
    PROVE  IngressInv'
<1>1. /\ copy[<<r, n>>] = "runtime" /\ copy' = [copy EXCEPT ![<<r, n>>] = "done"]
      /\ UNCHANGED <<now, skew, sent, seen, ingress, given, ingressCrashes>>
  BY DEF Ingress!RuntimeReturns, Ingress!RuntimeAnswers
<1>2. sent[r] # Nothing /\ sent[r].type # "quote_intake"
  BY <1>1 DEF IngressInv, CopiesHold, CopyHolds
<1>3. PICK is, p :
         /\ is \in AnswerIs \ {"awaited"}
         /\ Ingress!Hear(r, is, p)
         /\ p # Nothing /\ Ingress!SellerAccepts(p) /\ p.visible # "misdigested" =>
               (is \in Ingress!Completions <=> ~p.large)
  <2>1. ASSUME NEW p \in HirePackages, Ingress!RuntimeReturns(r, n, p)
        PROVE  \E is \in AnswerIs \ {"awaited"} :
                  /\ Ingress!Hear(r, is, p)
                  /\ Ingress!SellerAccepts(p) /\ p.visible # "misdigested" =>
                        (is \in Ingress!Completions <=> ~p.large)
    <3> DEFINE parsed == Ingress!Parse(Ingress!Normalize(p), sent[r].type)
               is == IF p.status = "completed" /\ ~p.output THEN "error"
                     ELSE IF parsed = "return_rejected" /\ sent[r].type # "paid_execution"
                          THEN "error" ELSE parsed
    <3>1. Ingress!Hear(r, is, p)
      BY <2>1, Zenon DEF Ingress!RuntimeReturns
    <3>2. p \in Ingress!Package
      BY ServicesAssumption
    <3>3. /\ parsed \in AnswerIs \ {"awaited"}
          /\ Ingress!SellerAccepts(p) /\ p.visible # "misdigested" =>
                (parsed \in Ingress!Completions <=> ~p.large)
      BY <1>2, <3>2, ParseAgrees
    <3>4. Ingress!SellerAccepts(p) => p.output
      BY DEF Ingress!SellerAccepts
    <3>5. /\ {"return_rejected", "error"} \cap Ingress!Completions = {}
          /\ "error" \in AnswerIs \ {"awaited"}
      BY DEF Ingress!Completions, AnswerIs
    <3> HIDE DEF parsed
    <3>6. /\ is \in AnswerIs \ {"awaited"}
          /\ Ingress!SellerAccepts(p) /\ p.visible # "misdigested" =>
                (is \in Ingress!Completions <=> ~p.large)
      BY <3>3, <3>4, <3>5
    <3> QED BY <3>1, <3>6
  <2>2. ASSUME NEW is \in {"accepted", "return_rejected", "error"},
               Ingress!RuntimeAnswers(r, n, is)
        PROVE  is \in AnswerIs \ {"awaited"} /\ Ingress!Hear(r, is, Nothing)
    BY <2>2 DEF Ingress!RuntimeAnswers, AnswerIs
  <2> QED BY <2>1, <2>2
<1>4. /\ answer' = [s \in HireIds |-> answer'[s]]
      /\ \A s \in HireIds : AnswerHolds(answer'[s])
  BY <1>3, HearHolds
<1> QED BY <1>1, <1>2, <1>4, CopyMoves

LEMMA IngressNext ==
    ASSUME IngressInv,
           [Ingress!IngressNext]_<<now, skew, sent, copy, seen, bucket, ingress, given, answer,
                                   ingressCrashes>>
    PROVE  IngressInv'
<1> DEFINE rest == <<copy, seen, bucket, ingress, given, answer, ingressCrashes>>
<1>1. CASE UNCHANGED <<now, skew, sent, copy, seen, bucket, ingress, given, answer,
                       ingressCrashes>>
  BY <1>1 DEF IngressInv, IngressTyped, CopiesHold, CopyHolds, SeenHolds, RunsHold, TooOld, SentHolds,
              AnswerHolds
<1>2. ASSUME NEW r \in HireIds, Ingress!GiveUp(r) PROVE IngressInv'
  <2> DEFINE a == [answer[r] EXCEPT !.is = "error"]
  <2>1. /\ answer[r] # Nothing /\ answer[r].is = "awaited"
        /\ answer' = [answer EXCEPT ![r] = a]
        /\ UNCHANGED <<now, skew, sent, copy, seen, ingress, given, ingressCrashes>>
    BY <1>2 DEF Ingress!GiveUp, IngressInv, IngressTyped
  <2>2. /\ answer[r] = [is |-> answer[r].is, package |-> answer[r].package]
        /\ answer[r].package = Nothing
    BY <2>1 DEF IngressInv, AnswerHolds
  <2>3. a = [is |-> "error", package |-> Nothing]
    BY <2>2
  <2> HIDE DEF a
  <2>4. AnswerHolds(a)
    BY <2>3 DEF AnswerHolds, AnswerIs
  <2>5. /\ answer' = [s \in HireIds |-> answer'[s]]
        /\ \A s \in HireIds : AnswerHolds(answer'[s])
    BY <2>1, <2>4 DEF IngressInv, IngressTyped
  <2> QED BY <2>1, <2>5 DEF IngressInv, IngressTyped, CopiesHold, CopyHolds, SeenHolds, RunsHold, TooOld,
                            SentHolds
<1>3. ASSUME NEW r \in HireIds, NEW n \in Two, Ingress!Duplicate(r, n) PROVE IngressInv'
  <2>1. /\ sent[r] # Nothing /\ copy' = [copy EXCEPT ![<<r, n>>] = "network"]
        /\ UNCHANGED <<now, skew, sent, seen, bucket, ingress, given, answer, ingressCrashes>>
    BY <1>3 DEF Ingress!Duplicate
  <2>2. /\ answer' = [s \in HireIds |-> answer'[s]]
        /\ \A s \in HireIds : AnswerHolds(answer'[s])
    BY <2>1 DEF IngressInv, IngressTyped
  <2> QED BY <2>1, <2>2, CopyMoves
<1>4. CASE (\E active, demo \in BOOLEAN : Ingress!Configure(active, demo)) \/ Ingress!BeginShutdown
  <2>1. /\ ingress' \in [up : BOOLEAN, active : BOOLEAN, demo : BOOLEAN]
        /\ UNCHANGED <<now, skew, sent, copy, seen, given, answer, ingressCrashes>>
    <3>1. ASSUME NEW active \in BOOLEAN, NEW demo \in BOOLEAN, Ingress!Configure(active, demo)
          PROVE  /\ ingress' \in [up : BOOLEAN, active : BOOLEAN, demo : BOOLEAN]
                 /\ UNCHANGED <<now, skew, sent, copy, seen, given, answer, ingressCrashes>>
      BY <3>1 DEF Ingress!Configure, IngressInv, IngressTyped
    <3>2. CASE Ingress!BeginShutdown
      BY <3>2 DEF Ingress!BeginShutdown, IngressInv, IngressTyped
    <3> QED BY <1>4, <3>1, <3>2
  <2> QED BY <2>1 DEF IngressInv, IngressTyped, CopiesHold, CopyHolds, SeenHolds, RunsHold, TooOld,
                      SentHolds, AnswerHolds
<1>5. CASE Ingress!RestartIngress
  <2>1. /\ ingressCrashes' = ingressCrashes + 1 /\ ingressCrashes \in Nat
        /\ seen' = [r \in HireIds |-> Nothing]
        /\ copy' = [c \in HireIds \X Two |-> IF copy[c] \in {"read", "runtime"} THEN "done"
                                             ELSE copy[c]]
        /\ UNCHANGED <<now, skew, sent, given, answer>>
    BY <1>5 DEF Ingress!RestartIngress, IngressInv, IngressTyped
  <2>2. ingress' \in [up : BOOLEAN, active : BOOLEAN, demo : BOOLEAN]
    BY <1>5 DEF Ingress!RestartIngress, IngressInv, IngressTyped
  <2>3. RunsHold'
    BY <2>1 DEF IngressInv, IngressTyped, RunsHold
  <2>4. CopiesHold'
    <3> SUFFICES ASSUME NEW s \in HireIds, NEW m \in Two PROVE CopyHolds(s, m)'
      BY Zenon DEF CopiesHold
    <3>1. CopyHolds(s, m)
      BY Zenon DEF IngressInv, CopiesHold
    <3>2. \/ copy'[<<s, m>>] = copy[<<s, m>>]
          \/ copy'[<<s, m>>] = "done" /\ copy[<<s, m>>] # "none"
      BY <2>1
    <3> QED BY <2>1, <3>1, <3>2 DEF CopyHolds
  <2>5. SeenHolds'
    BY <2>1 DEF SeenHolds
  <2>6. IngressTyped'
    BY <2>1, <2>2 DEF IngressInv, IngressTyped
  <2> QED BY <2>1, <2>3, <2>4, <2>5, <2>6 DEF IngressInv, SentHolds, AnswerHolds
<1>6. CASE Ingress!Minute
  <2>1. /\ now' \in 0..IngressTime /\ now' = now + 1 /\ now \in Nat /\ skew \in Int
        /\ MaxAge \in Nat
        /\ UNCHANGED <<skew, sent, copy, seen, ingress, given, answer, ingressCrashes>>
    BY <1>6, ServicesAssumption DEF Ingress!Minute, IngressInv, IngressTyped
  <2>2. \A r \in HireIds : sent[r] # Nothing => sent[r].at \in Nat
    BY DEF IngressInv, SentHolds, Envelopes
  <2>3. \A r \in HireIds : TooOld(r) => TooOld(r)'
    BY <2>1, <2>2 DEF TooOld
  <2>4. RunsHold'
    BY <2>1, <2>3 DEF IngressInv, RunsHold
  <2> QED BY <2>1, <2>4 DEF IngressInv, IngressTyped, CopiesHold, CopyHolds, SeenHolds, SentHolds,
                            AnswerHolds
<1> HIDE DEF rest
<1> QED BY <1>1, <1>2, <1>3, <1>4, <1>5, <1>6, IngressSends, IngressArrives, IngressAdmits,
           IngressReturns DEF Ingress!IngressNext

IngressHeld == part = "ingress" => IngressInv

\* In a behaviour of the services in which the ingress moves, the runtime is given a
\* request once for each run of the ingress's process and the two sides agree on what they
\* send, for any number of requests, copies and restarts and any difference of the clocks
\* (assertSignedSantaClawzRequest, assertNotReplayed, parseHireIngressProtocolReturn).
THEOREM IngressHoldsAlways == ServicesSpec => []IngressHolds
<1>1. ServicesInit => IngressHeld
  BY IngressBegins DEF ServicesInit, IngressHeld
<1>2. IngressHeld /\ [ServicesNext]_allVars => IngressHeld'
  <2> SUFFICES ASSUME IngressHeld, [ServicesNext]_allVars PROVE IngressHeld'
    OBVIOUS
  <2>1. /\ part' = part
        /\ part = "ingress" =>
              [Ingress!IngressNext]_<<now, skew, sent, copy, seen, bucket, ingress, given, answer,
                                      ingressCrashes>>
    <3>1. CASE UNCHANGED allVars
      BY <3>1 DEF allVars, ingressVars
    <3>2. CASE IngressPart
      BY <3>2 DEF IngressPart, Only
    <3>3. CASE ServicesNext /\ ~IngressPart
      <4>1. part # "ingress" /\ part' = part
        BY <3>3 DEF ServicesNext, LiveParts, BooksPart, StoreParts, BoardPart, AccessParts,
                    BlobsPart, LanePart, ToolsPart, GasPart, ProofPart, PrivacyPart, Only
      <4> QED BY <4>1
    <3> QED BY <3>1, <3>2, <3>3
  <2> QED BY <2>1, IngressNext DEF IngressHeld
<1>3. IngressHeld => IngressHolds
  <2> SUFFICES ASSUME IngressInv
               PROVE  Ingress!IngressTypeOK /\ Ingress!RunsOnce /\ Ingress!BothSidesAgree
    BY DEF IngressHeld, IngressHolds
  <2>1. Ingress!IngressTypeOK
    BY DEF IngressInv, IngressTyped, SeenHolds, AnswerHolds, AnswerIs, Ingress!IngressTypeOK
  <2>2. Ingress!RunsOnce
    BY DEF IngressInv, RunsHold, Ingress!RunsOnce
  <2>3. Ingress!BothSidesAgree
    BY DEF IngressInv, SentHolds, AnswerHolds, Ingress!BothSidesAgree
  <2> QED BY <2>1, <2>2, <2>3
<1> QED BY <1>1, <1>2, <1>3, PTL DEF ServicesSpec

-----------------------------------------------------------------------------
(* Sealed payloads.  A key of a workspace never changes once it is made,   *)
(* and only the call that found no file makes it: so what a call wraps     *)
(* with is what a reader gets later.  The rest follows each payload from   *)
(* its seal to its expiry.                                                 *)

\* The key is the one a reader gets, and the KMS that derived it has written so.
Keyed(w, key) ==
    /\ w \in Workspaces /\ key \in Seals \cup Workspaces
    /\ key = Blobs!CurrentKey(w)
    /\ config.kms = "file" => key \in Seals
    /\ Blobs!External => key \in audit

BlobTyped ==
    /\ config \in Blobs!Configs
    /\ keyFile \in [Workspaces -> {Nothing, Empty} \cup Seals]
    /\ audit \subseteq Workspaces
    /\ record = [s \in Seals |-> record[s]] /\ seal = [s \in Seals |-> seal[s]]
    /\ cipher \in [Seals -> Blobs!Parts] /\ manifest \in [Seals -> Blobs!Parts]
    /\ deletion \in [Seals -> Blobs!Parts]
    /\ expiry \in [Seals -> [pc : {"idle", "revoke", "cipher", "manifest", "deletion", "done"},
                             revoke : BOOLEAN]]
    /\ open = [o \in Opens |-> open[o]]

SealPcs == {"idle", "key", "create", "fill", "audit", "wrap", "cipher", "manifest", "done", "failed"}

SealFits(x) ==
    /\ x = [pc |-> x.pc, workspace |-> x.workspace, visibility |-> x.visibility, under |-> x.under]
    /\ x.pc \in SealPcs
    /\ x.pc # "idle" => x.workspace \in Workspaces /\ x.visibility \in Visibilities
    /\ x.pc = "wrap" => Keyed(x.workspace, x.under)
    /\ x.pc = "fill" => config.kms = "file" /\ keyFile[x.workspace] = Empty

RecordFits(r) == r # Nothing => r \in Blobs!Records /\ Keyed(r.workspace, r.under)

OneFiller ==
    \A s \in Seals : \A t \in Seals :
        seal[s].pc = "fill" /\ seal[t].pc = "fill" /\ seal[s].workspace = seal[t].workspace => s = t

\* A payload of the given state of its seal, its expiry and its files.
LifeFits(pc, e, r, c, m, d) ==
    /\ pc \in {"cipher", "manifest", "done"} => r # Nothing
    /\ pc = "manifest" => c = "there"
    /\ pc # "done" => m # "there" /\ e.pc = "idle"
    /\ pc = "done" /\ e.pc = "idle" => c = "there" /\ m = "there"
    /\ e.pc = "idle" => d = "none" /\ (r # Nothing => ~r.revoked)
    /\ e.pc \in {"cipher", "manifest", "deletion"} /\ e.revoke => r.revoked
    /\ e.pc \in {"manifest", "deletion"} => c = "none"
    /\ e.pc = "deletion" => m = "none"
    /\ d # "none" => /\ e.pc \in {"deletion", "done"} /\ c = "none" /\ m = "none"
                     /\ e.revoke => r.revoked

LifeHolds(s) == LifeFits(seal[s].pc, expiry[s], record[s], cipher[s], manifest[s], deletion[s])

OpenFits(x) ==
    /\ x = [pc |-> x.pc, of |-> x.of, role |-> x.role, exception |-> x.exception,
            under |-> x.under]
    /\ x.pc \in {"idle", "cipher", "unwrap", "decrypt", "opened", "failed"}

BlobInv ==
    /\ BlobTyped /\ OneFiller
    /\ \A s \in Seals : SealFits(seal[s]) /\ RecordFits(record[s]) /\ LifeHolds(s)
    /\ \A o \in Opens : OpenFits(open[o])

LEMMA BlobsBegin == Blobs!BlobInit => BlobInv
<1> SUFFICES ASSUME Blobs!BlobInit PROVE BlobInv
  OBVIOUS
<1> USE DEF Blobs!BlobInit
<1>1. BlobTyped
  BY DEF BlobTyped, Blobs!Parts
<1>2. OneFiller
  BY DEF OneFiller
<1>3. ASSUME NEW s \in Seals PROVE SealFits(seal[s]) /\ RecordFits(record[s]) /\ LifeHolds(s)
  BY DEF SealFits, SealPcs, RecordFits, LifeHolds, LifeFits
<1>4. ASSUME NEW o \in Opens PROVE OpenFits(open[o])
  BY DEF OpenFits
<1> QED BY <1>1, <1>2, <1>3, <1>4 DEF BlobInv

\* A key that is made stays, and a line in the audit file too.
LEMMA KeyedStays ==
    ASSUME NEW w, NEW key, Keyed(w, key), config' = config, audit \subseteq audit',
           keyFile'[w] = keyFile[w]
    PROVE  Keyed(w, key)'
BY DEF Keyed, Blobs!CurrentKey, Blobs!External

\* The steps of a seal before its files: the seal moves, and the keys may.
LEMMA KeysMove ==
    ASSUME BlobInv, NEW s \in Seals, NEW x, seal' = [seal EXCEPT ![s] = x],
           seal[s].pc \in SealPcs \ {"cipher", "manifest", "done"},
           x.pc \in SealPcs \ {"cipher", "manifest", "done"},
           UNCHANGED <<config, record, cipher, manifest, deletion, open, expiry>>,
           keyFile' \in [Workspaces -> {Nothing, Empty} \cup Seals],
           audit \subseteq audit', audit' \subseteq Workspaces,
           \A w \in Workspaces :
               \/ keyFile'[w] = keyFile[w]
               \/ keyFile[w] = Nothing
               \/ keyFile[w] = Empty /\ seal[s].pc = "fill" /\ seal[s].workspace = w,
           SealFits(x)',
           x.pc = "fill" => x.workspace \in Workspaces /\ keyFile[x.workspace] = Nothing
    PROVE  BlobInv'
<1>1. seal' = [t \in Seals |-> IF t = s THEN x ELSE seal[t]]
  BY DEF BlobInv, BlobTyped
<1>2. BlobTyped'
  BY <1>1 DEF BlobInv, BlobTyped
<1>3. ASSUME NEW w, NEW key, Keyed(w, key) PROVE Keyed(w, key)'
  <2>1. CASE config.kms = "file"
    <3>1. w \in Workspaces /\ keyFile[w] \in Seals
      BY <1>3, <2>1 DEF Keyed, Blobs!CurrentKey
    <3>2. keyFile'[w] = keyFile[w]
      BY <3>1, ServicesAssumption
    <3> QED BY <1>3, <3>2, KeyedStays
  <2>2. CASE config.kms # "file"
    BY <1>3, <2>2 DEF Keyed, Blobs!CurrentKey, Blobs!External
  <2> QED BY <2>1, <2>2
<1>4. OneFiller'
  <2> SUFFICES ASSUME NEW t \in Seals, NEW u \in Seals, seal'[t].pc = "fill",
                      seal'[u].pc = "fill", seal'[t].workspace = seal'[u].workspace
               PROVE  t = u
    BY Zenon DEF OneFiller
  <2>1. ASSUME NEW v \in Seals, v # s, seal[v].pc = "fill", x.pc = "fill"
        PROVE  seal[v].workspace # x.workspace
    <3>1. keyFile[seal[v].workspace] = Empty
      BY <2>1 DEF BlobInv, SealFits
    <3> QED BY <2>1, <3>1, ServicesAssumption
  <2> QED BY <1>1, <2>1 DEF BlobInv, OneFiller
<1>5. ASSUME NEW t \in Seals PROVE SealFits(seal[t])'
  <2>1. CASE t = s
    BY <1>1, <2>1
  <2>2. CASE t # s
    <3>1. seal'[t] = seal[t] /\ SealFits(seal[t])
      BY <1>1, <2>2 DEF BlobInv
    <3>2. ASSUME seal[t].pc = "fill" PROVE keyFile'[seal[t].workspace] = Empty
      <4>1. seal[t].workspace \in Workspaces /\ keyFile[seal[t].workspace] = Empty
        BY <3>1, <3>2 DEF SealFits
      <4>2. ~(seal[s].pc = "fill" /\ seal[s].workspace = seal[t].workspace)
        BY <2>2, <3>2 DEF BlobInv, OneFiller
      <4> QED BY <4>1, <4>2, ServicesAssumption
    <3>3. seal[t].pc = "wrap" => Keyed(seal[t].workspace, seal[t].under)'
      BY <1>3, <3>1 DEF SealFits
    <3> QED BY <3>1, <3>2, <3>3 DEF SealFits
  <2> QED BY <2>1, <2>2
<1>6. ASSUME NEW t \in Seals PROVE RecordFits(record[t])'
  BY <1>3 DEF BlobInv, RecordFits
<1>7. ASSUME NEW t \in Seals PROVE LifeHolds(t)'
  <2>1. LifeHolds(t)
    BY DEF BlobInv
  <2>2. CASE t = s
    BY <1>1, <2>1, <2>2 DEF LifeHolds, LifeFits, SealPcs
  <2>3. CASE t # s
    BY <1>1, <2>1, <2>3 DEF LifeHolds
  <2> QED BY <2>2, <2>3
<1> QED BY <1>2, <1>4, <1>5, <1>6, <1>7 DEF BlobInv

\* The later steps: the files of one payload, its seal and its expiry.
LEMMA PayloadMoves ==
    ASSUME BlobInv, NEW s \in Seals, UNCHANGED <<config, keyFile, audit>>,
           BlobTyped',
           \A t \in Seals \ {s} :
              /\ seal'[t] = seal[t] /\ record'[t] = record[t] /\ expiry'[t] = expiry[t]
              /\ cipher'[t] = cipher[t] /\ manifest'[t] = manifest[t]
              /\ deletion'[t] = deletion[t],
           SealFits(seal'[s]), seal'[s].pc # "fill", RecordFits(record'[s]), LifeHolds(s)',
           \A o \in Opens : OpenFits(open'[o])
    PROVE  BlobInv'
<1>1. ASSUME NEW w, NEW key, Keyed(w, key) PROVE Keyed(w, key)'
  BY <1>1, KeyedStays
<1>2. ASSUME NEW x, SealFits(x) PROVE SealFits(x)'
  BY <1>1, <1>2 DEF SealFits
<1>3. ASSUME NEW x, RecordFits(x) PROVE RecordFits(x)'
  BY <1>1, <1>3 DEF RecordFits
<1>4. OneFiller'
  <2> SUFFICES ASSUME NEW t \in Seals, NEW u \in Seals, seal'[t].pc = "fill",
                      seal'[u].pc = "fill", seal'[t].workspace = seal'[u].workspace
               PROVE  t = u
    BY Zenon DEF OneFiller
  <2> QED BY DEF BlobInv, OneFiller
<1>5. ASSUME NEW t \in Seals
      PROVE  SealFits(seal[t])' /\ RecordFits(record[t])' /\ LifeHolds(t)'
  <2>1. CASE t = s
    BY <1>2, <1>3, <2>1
  <2>2. CASE t # s
    <3>1. SealFits(seal[t]) /\ RecordFits(record[t]) /\ LifeHolds(t)
      BY DEF BlobInv
    <3> QED BY <1>2, <1>3, <2>2, <3>1 DEF LifeHolds
  <2> QED BY <2>1, <2>2
<1> QED BY <1>4, <1>5 DEF BlobInv, OpenFits

LEMMA HasGives ==
    ASSUME NEW s \in Seals, SealFits(seal[s]), NEW key
    PROVE  Blobs!Has(s, key) =
             [seal EXCEPT ![s] = [pc |-> "wrap", workspace |-> seal[s].workspace,
                                  visibility |-> seal[s].visibility, under |-> key]]
<1> DEFINE y == [seal[s] EXCEPT !.pc = "wrap"]
           z == [y EXCEPT !.under = key]
<1>1. seal[s] = [pc |-> seal[s].pc, workspace |-> seal[s].workspace,
                 visibility |-> seal[s].visibility, under |-> seal[s].under]
  BY DEF SealFits
<1>2. y = [pc |-> "wrap", workspace |-> seal[s].workspace,
           visibility |-> seal[s].visibility, under |-> seal[s].under]
  BY <1>1
<1> HIDE DEF y
<1>3. z = [pc |-> "wrap", workspace |-> seal[s].workspace,
           visibility |-> seal[s].visibility, under |-> key]
  BY <1>2
<1>4. Blobs!Has(s, key) = [seal EXCEPT ![s] = z]
  BY Zenon DEF Blobs!Has, y
<1> QED BY <1>3, <1>4

\* A call that has found a key wraps with it.
LEMMA HasMoves ==
    ASSUME BlobInv, NEW s \in Seals, NEW key, seal' = Blobs!Has(s, key),
           seal[s].pc \in {"key", "create", "fill", "audit"},
           UNCHANGED <<config, record, cipher, manifest, deletion, open, expiry>>,
           keyFile' \in [Workspaces -> {Nothing, Empty} \cup Seals],
           audit \subseteq audit', audit' \subseteq Workspaces,
           \A w \in Workspaces :
               \/ keyFile'[w] = keyFile[w]
               \/ keyFile[w] = Empty /\ seal[s].pc = "fill" /\ seal[s].workspace = w,
           NEW w, w = seal[s].workspace, Keyed(w, key)'
    PROVE  BlobInv'
<1>1. SealFits(seal[s])
  BY DEF BlobInv
<1>2. PICK x : x = [pc |-> "wrap", workspace |-> seal[s].workspace,
                    visibility |-> seal[s].visibility, under |-> key]
  OBVIOUS
<1>3. seal' = [seal EXCEPT ![s] = x]
  BY <1>1, <1>2, HasGives
<1>4. /\ x.pc = "wrap" /\ x.workspace = seal[s].workspace /\ x.visibility = seal[s].visibility
      /\ x.under = key
      /\ x = [pc |-> x.pc, workspace |-> x.workspace, visibility |-> x.visibility,
              under |-> x.under]
  BY <1>2
<1>5. seal[s].workspace \in Workspaces /\ seal[s].visibility \in Visibilities
  BY <1>1 DEF SealFits
<1>6. Keyed(x.workspace, x.under)'
  <2>1. x.workspace = w /\ x.under = key
    BY <1>4
  <2> QED BY <2>1
<1>7. SealFits(x)'
  BY <1>4, <1>5, <1>6 DEF SealFits, SealPcs
<1>8. x.pc \in SealPcs \ {"cipher", "manifest", "done"}
      /\ seal[s].pc \in SealPcs \ {"cipher", "manifest", "done"}
  BY <1>4 DEF SealPcs
<1> QED BY <1>3, <1>4, <1>7, <1>8, KeysMove

\* A call that has no key yet goes on or fails.
LEMMA SealGoes ==
    ASSUME BlobInv, NEW s \in Seals, NEW pc \in {"create", "audit", "failed"},
           seal' = [seal EXCEPT ![s].pc = pc],
           seal[s].pc \in {"key", "create", "audit"},
           UNCHANGED <<config, keyFile, audit, record, cipher, manifest, deletion, open, expiry>>
    PROVE  BlobInv'
<1>1. SealFits(seal[s])
  BY DEF BlobInv
<1>x. PICK x : x = [seal[s] EXCEPT !.pc = pc]
  OBVIOUS
<1>2. seal' = [seal EXCEPT ![s] = x]
  BY <1>x DEF BlobInv, BlobTyped
<1>3. x = [pc |-> pc, workspace |-> seal[s].workspace, visibility |-> seal[s].visibility,
           under |-> seal[s].under]
  BY <1>1, <1>x DEF SealFits
<1>4. SealFits(x)'
  BY <1>1, <1>3 DEF SealFits, SealPcs
<1>5. x.pc = pc /\ x.pc \in SealPcs \ {"cipher", "manifest", "done"}
      /\ seal[s].pc \in SealPcs \ {"cipher", "manifest", "done"}
  BY <1>3 DEF SealPcs
<1>6. keyFile \in [Workspaces -> {Nothing, Empty} \cup Seals] /\ audit \subseteq Workspaces
  BY DEF BlobInv, BlobTyped
<1> QED BY <1>2, <1>4, <1>5, <1>6, KeysMove

LEMMA SealBegins ==
    ASSUME BlobInv, NEW s \in Seals, NEW w \in Workspaces, NEW v \in Visibilities,
           Blobs!BeginSeal(s, w, v)
    PROVE  BlobInv'
<1> DEFINE x == [pc |-> "key", workspace |-> w, visibility |-> v, under |-> Nothing]
<1>1. /\ seal[s].pc = "idle" /\ seal' = [seal EXCEPT ![s] = x]
      /\ UNCHANGED <<config, keyFile, audit, record, cipher, manifest, deletion, open, expiry>>
  BY DEF Blobs!BeginSeal
<1>2. SealFits(x)' /\ x.pc = "key"
  BY DEF SealFits, SealPcs
<1>3. keyFile \in [Workspaces -> {Nothing, Empty} \cup Seals] /\ audit \subseteq Workspaces
  BY DEF BlobInv, BlobTyped
<1>4. {"idle", "key"} \subseteq SealPcs \ {"cipher", "manifest", "done"}
  BY DEF SealPcs
<1> HIDE DEF x
<1> QED BY <1>1, <1>2, <1>3, <1>4, KeysMove

LEMMA FileKeyHolds ==
    ASSUME BlobInv, NEW s \in Seals, Blobs!FileKey(s)
    PROVE  BlobInv'
<1>w. PICK w : w = seal[s].workspace
  OBVIOUS
<1>1. /\ config.kms = "file"
      /\ UNCHANGED <<config, audit, record, cipher, manifest, deletion, open, expiry>>
      /\ keyFile \in [Workspaces -> {Nothing, Empty} \cup Seals] /\ audit \subseteq Workspaces
      /\ SealFits(seal[s])
  BY DEF Blobs!FileKey, BlobInv, BlobTyped
<1>2. seal[s].pc # "idle" => w \in Workspaces /\ seal[s].visibility \in Visibilities
  BY <1>1, <1>w DEF SealFits
<1>3. ~Blobs!External
  BY <1>1 DEF Blobs!External
<1>4. ASSUME seal[s].pc \in {"key", "create"}, keyFile[w] # Nothing, Blobs!ReadKeyFile(s),
             UNCHANGED keyFile
      PROVE  BlobInv'
  <2>1. CASE keyFile[w] = Empty
    <3>1. seal' = [seal EXCEPT ![s].pc = "failed"]
      BY <1>w, <1>4, <2>1 DEF Blobs!ReadKeyFile
    <3> QED BY <1>1, <1>4, <3>1, SealGoes
  <2>2. CASE keyFile[w] # Empty
    <3>k. PICK k : k = keyFile[w]
      OBVIOUS
    <3>1. seal' = Blobs!Has(s, k)
      BY <1>w, <1>4, <2>2, <3>k DEF Blobs!ReadKeyFile
    <3>2. w \in Workspaces /\ k \in Seals
      BY <1>1, <1>2, <1>4, <2>2, <3>k
    <3>3. Keyed(w, k)'
      BY <1>1, <1>3, <1>4, <3>2, <3>k DEF Keyed, Blobs!CurrentKey, Blobs!External
    <3> QED BY <1>w, <1>1, <1>4, <3>1, <3>3, HasMoves
  <2> QED BY <2>1, <2>2
<1>5. CASE seal[s].pc = "key"
  <2>1. CASE keyFile[w] = Nothing
    <3>1. seal' = [seal EXCEPT ![s].pc = "create"] /\ UNCHANGED keyFile
      BY <1>w, <1>5, <2>1 DEF Blobs!FileKey, Blobs!CreateKey
    <3> QED BY <1>1, <1>5, <3>1, SealGoes
  <2>2. CASE keyFile[w] # Nothing
    BY <1>w, <1>4, <1>5, <2>2 DEF Blobs!FileKey, Blobs!CreateKey
  <2> QED BY <2>1, <2>2
<1>6. CASE seal[s].pc = "create"
  <2>1. CASE keyFile[w] = Nothing
    <3>x. PICK x : x = [pc |-> "fill", workspace |-> w, visibility |-> seal[s].visibility,
                        under |-> seal[s].under]
      OBVIOUS
    <3>1. /\ keyFile' = [keyFile EXCEPT ![w] = Empty]
          /\ seal' = [seal EXCEPT ![s].pc = "fill"]
      BY <1>w, <1>6, <2>1 DEF Blobs!FileKey, Blobs!CreateKey
    <3>2. [seal[s] EXCEPT !.pc = "fill"] = x
      BY <1>w, <1>1, <3>x DEF SealFits
    <3>3. seal' = [seal EXCEPT ![s] = x]
      BY <3>1, <3>2 DEF BlobInv, BlobTyped
    <3>4. w \in Workspaces /\ keyFile'[w] = Empty
      BY <1>1, <1>2, <1>6, <3>1
    <3>5. SealFits(x)'
      BY <1>1, <1>2, <1>6, <3>x, <3>4 DEF SealFits, SealPcs
    <3>6. /\ keyFile' \in [Workspaces -> {Nothing, Empty} \cup Seals]
          /\ \A v \in Workspaces : keyFile'[v] = keyFile[v] \/ keyFile[v] = Nothing
      BY <1>1, <2>1, <3>1
    <3>7. /\ seal[s].pc \in SealPcs \ {"cipher", "manifest", "done"}
          /\ x.pc \in SealPcs \ {"cipher", "manifest", "done"}
          /\ x.workspace = w
      BY <1>6, <3>x DEF SealPcs
    <3> QED BY <1>1, <2>1, <3>3, <3>4, <3>5, <3>6, <3>7, KeysMove
  <2>2. CASE keyFile[w] # Nothing
    BY <1>w, <1>4, <1>6, <2>2 DEF Blobs!FileKey, Blobs!CreateKey
  <2> QED BY <2>1, <2>2
<1>7. CASE seal[s].pc = "fill"
  <2>1. keyFile' = [keyFile EXCEPT ![w] = s] /\ seal' = Blobs!Has(s, s)
    BY <1>w, <1>7 DEF Blobs!FileKey, Blobs!CreateKey
  <2>2. w \in Workspaces /\ keyFile[w] = Empty
    BY <1>w, <1>1, <1>2, <1>7 DEF SealFits
  <2>3. /\ keyFile' \in [Workspaces -> {Nothing, Empty} \cup Seals]
        /\ \A v \in Workspaces : keyFile'[v] = keyFile[v] \/ v = w
        /\ keyFile'[w] = s
    BY <1>1, <2>1, <2>2
  <2>4. Keyed(w, s)'
    BY <1>1, <1>3, <2>2, <2>3 DEF Keyed, Blobs!CurrentKey, Blobs!External
  <2> QED BY <1>w, <1>1, <1>7, <2>1, <2>2, <2>3, <2>4, HasMoves
<1> QED BY <1>5, <1>6, <1>7 DEF Blobs!FileKey, Blobs!CreateKey

LEMMA DerivedKeyHolds ==
    ASSUME BlobInv, NEW s \in Seals, Blobs!DerivedKey(s)
    PROVE  BlobInv'
<1>w. PICK w : w = seal[s].workspace
  OBVIOUS
<1>1. /\ config.kms = "gateway" /\ Blobs!Derive(s)
      /\ UNCHANGED <<config, keyFile, record, cipher, manifest, deletion, open, expiry>>
      /\ keyFile \in [Workspaces -> {Nothing, Empty} \cup Seals] /\ audit \subseteq Workspaces
      /\ SealFits(seal[s])
  BY DEF Blobs!DerivedKey, BlobInv, BlobTyped
<1>2. seal[s].pc # "idle" => w \in Workspaces
  BY <1>w, <1>1 DEF SealFits
<1>3. ASSUME seal[s].pc \in {"key", "audit"}, seal' = Blobs!Has(s, w),
             audit' \in {audit, audit \cup {w}}, Blobs!External => w \in audit'
      PROVE  BlobInv'
  <2>1. w \in Workspaces /\ audit \subseteq audit' /\ audit' \subseteq Workspaces
    BY <1>1, <1>2, <1>3
  <2>2. Keyed(w, w)'
    BY <1>1, <1>3, <2>1 DEF Keyed, Blobs!CurrentKey, Blobs!External
  <2> QED BY <1>w, <1>1, <1>3, <2>1, <2>2, HasMoves
<1>4. CASE Blobs!GatewayDerives(s)
  <2>1. seal[s].pc = "key" /\ UNCHANGED audit
    BY <1>4 DEF Blobs!GatewayDerives
  <2>2. CASE Blobs!External
    <3>1. seal' = [seal EXCEPT ![s].pc = "audit"]
      BY <1>4, <2>2 DEF Blobs!GatewayDerives
    <3> QED BY <1>1, <2>1, <3>1, SealGoes
  <2>3. CASE ~Blobs!External
    BY <1>w, <1>3, <1>4, <2>1, <2>3 DEF Blobs!GatewayDerives
  <2> QED BY <2>2, <2>3
<1>5. CASE Blobs!EnterpriseKmsDerives(s)
  BY <1>w, <1>3, <1>5 DEF Blobs!EnterpriseKmsDerives
<1>6. CASE Blobs!DeriveFails(s)
  BY <1>1, <1>6, SealGoes DEF Blobs!DeriveFails
<1> QED BY <1>1, <1>4, <1>5, <1>6 DEF Blobs!Derive

\* A seal that has its key changes its place and nothing else of itself.
LEMMA PcGives ==
    ASSUME BlobInv, NEW s \in Seals, NEW pc, seal' = [seal EXCEPT ![s].pc = pc]
    PROVE  /\ seal' = [t \in Seals |-> seal'[t]]
           /\ \A t \in Seals \ {s} : seal'[t] = seal[t]
           /\ seal'[s] = [pc |-> pc, workspace |-> seal[s].workspace,
                          visibility |-> seal[s].visibility, under |-> seal[s].under]
<1>1. SealFits(seal[s]) /\ seal = [t \in Seals |-> seal[t]]
  BY DEF BlobInv, BlobTyped
<1>2. [seal[s] EXCEPT !.pc = pc] =
        [pc |-> pc, workspace |-> seal[s].workspace, visibility |-> seal[s].visibility,
         under |-> seal[s].under]
  BY <1>1 DEF SealFits
<1>3. seal' = [seal EXCEPT ![s] = [seal[s] EXCEPT !.pc = pc]]
  BY <1>1
<1> QED BY <1>1, <1>2, <1>3

LEMMA WrapHolds ==
    ASSUME BlobInv, NEW s \in Seals, Blobs!Wrap(s)
    PROVE  BlobInv'
<1> DEFINE r == [workspace |-> seal[s].workspace, visibility |-> seal[s].visibility,
                 under |-> seal[s].under, revoked |-> FALSE]
<1>1. /\ seal[s].pc = "wrap" /\ record' = [record EXCEPT ![s] = r]
      /\ seal' = [seal EXCEPT ![s].pc = "cipher"]
      /\ UNCHANGED <<config, keyFile, audit, cipher, manifest, deletion, open, expiry>>
  BY DEF Blobs!Wrap
<1>2. /\ SealFits(seal[s]) /\ LifeHolds(s) /\ record = [t \in Seals |-> record[t]]
      /\ \A o \in Opens : OpenFits(open[o])
  BY DEF BlobInv, BlobTyped
<1>3. Keyed(seal[s].workspace, seal[s].under)
  BY <1>1, <1>2 DEF SealFits
<1>4. RecordFits(r) /\ r # Nothing /\ ~r.revoked
  <2>1. r \in Blobs!Records
    BY <1>1, <1>2, <1>3 DEF SealFits, Keyed, Blobs!Records
  <2>2. r.workspace = seal[s].workspace /\ r.under = seal[s].under /\ ~r.revoked
    OBVIOUS
  <2> HIDE DEF r
  <2> QED BY <1>3, <2>1, <2>2, ServicesAssumption DEF RecordFits
<1> HIDE DEF r
<1>5. /\ seal' = [t \in Seals |-> seal'[t]]
      /\ \A t \in Seals \ {s} : seal'[t] = seal[t]
      /\ seal'[s] = [pc |-> "cipher", workspace |-> seal[s].workspace,
                     visibility |-> seal[s].visibility, under |-> seal[s].under]
  BY <1>1, PcGives
<1>6. /\ record' = [t \in Seals |-> record'[t]] /\ record'[s] = r
      /\ \A t \in Seals \ {s} : record'[t] = record[t]
  BY <1>1, <1>2
<1>7. BlobTyped'
  BY <1>1, <1>5, <1>6 DEF BlobInv, BlobTyped
<1>8. SealFits(seal'[s]) /\ seal'[s].pc = "cipher"
  BY <1>1, <1>2, <1>5 DEF SealFits, SealPcs
<1>9. LifeHolds(s)'
  BY <1>1, <1>2, <1>4, <1>6, <1>8 DEF LifeHolds, LifeFits
<1> QED BY <1>1, <1>2, <1>4, <1>5, <1>6, <1>7, <1>8, <1>9, PayloadMoves

\* A put ends with its object there, or is asked again, or fails; a manifest is put when
\* the cipher is there.
LEMMA PutHolds ==
    ASSUME BlobInv, NEW s \in Seals, Blobs!PutCipher(s) \/ Blobs!PutManifest(s)
    PROVE  BlobInv'
<1>1. PICK pc \in {"cipher", "manifest", "done", "failed"} :
        /\ seal' = [seal EXCEPT ![s].pc = pc]
        /\ seal[s].pc \in {"cipher", "manifest"}
        /\ UNCHANGED <<config, keyFile, audit, record, deletion, open, expiry>>
        /\ seal[s].pc = "cipher" => /\ UNCHANGED manifest
                                    /\ pc \in {"cipher", "manifest", "failed"}
                                    /\ pc = "manifest" => cipher'[s] = "there"
        /\ seal[s].pc = "manifest" => /\ UNCHANGED cipher
                                      /\ pc \in {"manifest", "done", "failed"}
                                      /\ pc = "done" <=> manifest'[s] = "there"
        /\ cipher' \in [Seals -> Blobs!Parts] /\ manifest' \in [Seals -> Blobs!Parts]
        /\ \A t \in Seals \ {s} : cipher'[t] = cipher[t] /\ manifest'[t] = manifest[t]
  <2>0. cipher \in [Seals -> Blobs!Parts] /\ manifest \in [Seals -> Blobs!Parts]
    BY DEF BlobInv, BlobTyped
  <2>1. CASE Blobs!PutCipher(s)
    <3>1. /\ seal[s].pc = "cipher"
          /\ UNCHANGED <<config, keyFile, audit, record, manifest, deletion, open, expiry>>
      BY <2>1 DEF Blobs!PutCipher
    <3>2. PICK after \in {"torn", "there"} :
            /\ cipher' = [cipher EXCEPT ![s] = after]
            /\ \E pc \in IF after = "there" THEN {"manifest"} ELSE {"cipher", "failed"} :
                  seal' = [seal EXCEPT ![s].pc = pc]
      BY <2>1 DEF Blobs!PutCipher
    <3>3. PICK pc \in IF after = "there" THEN {"manifest"} ELSE {"cipher", "failed"} :
            seal' = [seal EXCEPT ![s].pc = pc]
      BY <3>2
    <3>4. cipher' \in [Seals -> Blobs!Parts] /\ cipher'[s] = after
          /\ \A t \in Seals \ {s} : cipher'[t] = cipher[t]
      BY <2>0, <3>2 DEF Blobs!Parts
    <3> QED BY <2>0, <3>1, <3>3, <3>4
  <2>2. CASE Blobs!PutManifest(s)
    <3>1. /\ seal[s].pc = "manifest"
          /\ UNCHANGED <<config, keyFile, audit, record, cipher, deletion, open, expiry>>
      BY <2>2 DEF Blobs!PutManifest
    <3>2. PICK after \in {"torn", "there"} :
            /\ manifest' = [manifest EXCEPT ![s] = after]
            /\ \E pc \in IF after = "there" THEN {"done"} ELSE {"manifest", "failed"} :
                  seal' = [seal EXCEPT ![s].pc = pc]
      BY <2>2 DEF Blobs!PutManifest
    <3>3. PICK pc \in IF after = "there" THEN {"done"} ELSE {"manifest", "failed"} :
            seal' = [seal EXCEPT ![s].pc = pc]
      BY <3>2
    <3>4. manifest' \in [Seals -> Blobs!Parts] /\ manifest'[s] = after
          /\ \A t \in Seals \ {s} : manifest'[t] = manifest[t]
      BY <2>0, <3>2 DEF Blobs!Parts
    <3> QED BY <2>0, <3>1, <3>3, <3>4
  <2> QED BY <2>1, <2>2
<1>2. /\ SealFits(seal[s]) /\ LifeHolds(s) /\ RecordFits(record[s])
      /\ \A o \in Opens : OpenFits(open[o])
  BY DEF BlobInv
<1>3. /\ seal' = [t \in Seals |-> seal'[t]]
      /\ \A t \in Seals \ {s} : seal'[t] = seal[t]
      /\ seal'[s] = [pc |-> pc, workspace |-> seal[s].workspace,
                     visibility |-> seal[s].visibility, under |-> seal[s].under]
  BY <1>1, PcGives
<1>4. BlobTyped'
  BY <1>1, <1>3 DEF BlobInv, BlobTyped
<1>5. SealFits(seal'[s]) /\ seal'[s].pc = pc /\ pc # "fill"
  BY <1>1, <1>2, <1>3 DEF SealFits, SealPcs
<1>6. LifeHolds(s)'
  BY <1>1, <1>2, <1>5 DEF LifeHolds, LifeFits
<1> QED BY <1>1, <1>2, <1>3, <1>4, <1>5, <1>6, PayloadMoves

LEMMA ExpiryBegins ==
    ASSUME BlobInv, NEW s \in Seals, NEW revoke \in BOOLEAN, Blobs!BeginExpiry(s, revoke)
    PROVE  BlobInv'
<1> DEFINE e == [pc |-> IF revoke THEN "revoke" ELSE "cipher", revoke |-> revoke]
<1>1. /\ manifest[s] = "there" /\ expiry' = [expiry EXCEPT ![s] = e]
      /\ UNCHANGED <<config, keyFile, audit, record, cipher, manifest, deletion, seal, open>>
  BY DEF Blobs!BeginExpiry
<1>2. /\ SealFits(seal[s]) /\ LifeHolds(s) /\ RecordFits(record[s])
      /\ \A o \in Opens : OpenFits(open[o])
  BY DEF BlobInv
<1>3. /\ \A t \in Seals \ {s} : expiry'[t] = expiry[t]
      /\ expiry'[s] = e
  BY <1>1 DEF BlobInv, BlobTyped
<1>4. BlobTyped'
  BY <1>1 DEF BlobInv, BlobTyped
<1>5. LifeHolds(s)' /\ seal'[s].pc # "fill"
  BY <1>1, <1>2, <1>3 DEF LifeHolds, LifeFits
<1> QED BY <1>1, <1>2, <1>3, <1>4, <1>5, PayloadMoves

LEMMA ExpiryMoves ==
    ASSUME BlobInv, NEW s \in Seals, Blobs!Expire(s)
    PROVE  BlobInv'
<1>1. Blobs!ExpireStep(s) /\ UNCHANGED <<config, keyFile, audit, seal, open>>
  BY DEF Blobs!Expire
<1>2. /\ SealFits(seal[s]) /\ LifeHolds(s) /\ RecordFits(record[s])
      /\ \A o \in Opens : OpenFits(open[o])
      /\ expiry[s] \in [pc : {"idle", "revoke", "cipher", "manifest", "deletion", "done"},
                        revoke : BOOLEAN]
  BY DEF BlobInv, BlobTyped
<1>3. ASSUME expiry[s].pc # "idle", UNCHANGED <<cipher, manifest, deletion>> \/ UNCHANGED record,
             BlobTyped', seal[s].pc = "done" => RecordFits(record'[s]) /\ LifeHolds(s)',
             \A t \in Seals \ {s} :
                /\ record'[t] = record[t] /\ expiry'[t] = expiry[t]
                /\ cipher'[t] = cipher[t] /\ manifest'[t] = manifest[t]
                /\ deletion'[t] = deletion[t]
      PROVE  BlobInv'
  <2>1. seal[s].pc = "done"
    BY <1>2, <1>3 DEF LifeHolds, LifeFits
  <2> QED BY <1>1, <1>2, <1>3, <2>1, PayloadMoves
<1>4. ASSUME NEW pc \in {"cipher", "manifest", "deletion", "done"},
             expiry' = [expiry EXCEPT ![s].pc = pc]
      PROVE  /\ expiry' \in [Seals -> [pc : {"idle", "revoke", "cipher", "manifest", "deletion",
                                            "done"}, revoke : BOOLEAN]]
             /\ expiry'[s] = [pc |-> pc, revoke |-> expiry[s].revoke]
             /\ \A t \in Seals \ {s} : expiry'[t] = expiry[t]
  BY <1>4 DEF BlobInv, BlobTyped
<1>5. CASE expiry[s].pc = "revoke"
  <2> DEFINE r == [record[s] EXCEPT !.revoked = TRUE]
  <2>1. /\ record' = [record EXCEPT ![s] = r]
        /\ expiry' = [expiry EXCEPT ![s].pc = "cipher"]
        /\ UNCHANGED <<cipher, manifest, deletion>>
    BY <1>1, <1>5 DEF Blobs!ExpireStep, BlobInv, BlobTyped
  <2>2. /\ record' = [t \in Seals |-> record'[t]] /\ record'[s] = r
        /\ \A t \in Seals \ {s} : record'[t] = record[t]
    BY <2>1 DEF BlobInv, BlobTyped
  <2>3. BlobTyped'
    BY <1>1, <1>4, <2>1, <2>2 DEF BlobInv, BlobTyped
  <2>4. ASSUME seal[s].pc = "done" PROVE RecordFits(r) /\ r # Nothing /\ r.revoked
    <3>1. record[s] \in Blobs!Records /\ Keyed(record[s].workspace, record[s].under)
      BY <1>2, <2>4 DEF LifeHolds, LifeFits, RecordFits
    <3>2. PICK x : x = record[s]
      OBVIOUS
    <3>3. x \in [workspace : Workspaces, visibility : Visibilities,
                 under : Seals \cup Workspaces, revoked : BOOLEAN]
      BY <3>1, <3>2 DEF Blobs!Records
    <3>4. /\ r = [x EXCEPT !.revoked = TRUE]
          /\ r \in [workspace : Workspaces, visibility : Visibilities,
                    under : Seals \cup Workspaces, revoked : BOOLEAN]
          /\ r.workspace = x.workspace /\ r.under = x.under /\ r.revoked
      BY <3>2, <3>3
    <3>5. r \in Blobs!Records
      BY <3>4 DEF Blobs!Records
    <3> HIDE DEF r
    <3>6. r.workspace = record[s].workspace /\ r.under = record[s].under
      BY <3>2, <3>4
    <3>7. Keyed(r.workspace, r.under)
      BY <3>1, <3>6
    <3>8. r # Nothing
      BY <3>5, ServicesAssumption
    <3> QED BY <3>4, <3>5, <3>7, <3>8 DEF RecordFits
  <2> HIDE DEF r
  <2>5. seal[s].pc = "done" => RecordFits(record'[s]) /\ LifeHolds(s)'
    BY <1>1, <1>2, <1>4, <1>5, <2>1, <2>2, <2>4 DEF LifeHolds, LifeFits
  <2> QED BY <1>3, <1>4, <1>5, <2>1, <2>2, <2>3, <2>5
<1>6. CASE expiry[s].pc = "cipher"
  <2>1. /\ cipher' = [cipher EXCEPT ![s] = "none"]
        /\ expiry' = [expiry EXCEPT ![s].pc = "manifest"]
        /\ UNCHANGED <<record, manifest, deletion>>
    BY <1>1, <1>6 DEF Blobs!ExpireStep
  <2>2. cipher' \in [Seals -> Blobs!Parts] /\ cipher'[s] = "none"
        /\ \A t \in Seals \ {s} : cipher'[t] = cipher[t]
    BY <2>1 DEF BlobInv, BlobTyped, Blobs!Parts
  <2>3. BlobTyped'
    BY <1>1, <1>4, <2>1, <2>2 DEF BlobInv, BlobTyped
  <2>4. LifeHolds(s)'
    BY <1>1, <1>2, <1>4, <1>6, <2>1, <2>2 DEF LifeHolds, LifeFits
  <2> QED BY <1>2, <1>3, <1>4, <1>6, <2>1, <2>2, <2>3, <2>4
<1>7. CASE expiry[s].pc = "manifest"
  <2>1. /\ manifest' = [manifest EXCEPT ![s] = "none"]
        /\ expiry' = [expiry EXCEPT ![s].pc = "deletion"]
        /\ UNCHANGED <<record, cipher, deletion>>
    BY <1>1, <1>7 DEF Blobs!ExpireStep
  <2>2. manifest' \in [Seals -> Blobs!Parts] /\ manifest'[s] = "none"
        /\ \A t \in Seals \ {s} : manifest'[t] = manifest[t]
    BY <2>1 DEF BlobInv, BlobTyped, Blobs!Parts
  <2>3. BlobTyped'
    BY <1>1, <1>4, <2>1, <2>2 DEF BlobInv, BlobTyped
  <2>4. LifeHolds(s)'
    BY <1>1, <1>2, <1>4, <1>7, <2>1, <2>2 DEF LifeHolds, LifeFits
  <2> QED BY <1>2, <1>3, <1>4, <1>7, <2>1, <2>2, <2>3, <2>4
<1>8. CASE expiry[s].pc = "deletion"
  <2>1. PICK after \in {"torn", "there"} :
          /\ deletion' = [deletion EXCEPT ![s] = after]
          /\ expiry' = [expiry EXCEPT ![s].pc = IF after = "there" THEN "done" ELSE @]
          /\ UNCHANGED <<record, cipher, manifest>>
    BY <1>1, <1>8 DEF Blobs!ExpireStep
  <2>2. deletion' \in [Seals -> Blobs!Parts] /\ deletion'[s] = after
        /\ \A t \in Seals \ {s} : deletion'[t] = deletion[t]
    BY <2>1 DEF BlobInv, BlobTyped, Blobs!Parts
  <2>3. PICK pc \in {"deletion", "done"} : expiry' = [expiry EXCEPT ![s].pc = pc]
    <3>1. CASE after = "there"
      BY <2>1, <3>1
    <3>2. CASE after # "there"
      BY <1>8, <2>1, <3>2 DEF BlobInv, BlobTyped
    <3> QED BY <3>1, <3>2
  <2>4. BlobTyped'
    BY <1>1, <1>4, <2>1, <2>2, <2>3 DEF BlobInv, BlobTyped
  <2>5. LifeHolds(s)'
    BY <1>1, <1>2, <1>4, <1>8, <2>1, <2>2, <2>3 DEF LifeHolds, LifeFits
  <2> QED BY <1>2, <1>3, <1>4, <1>8, <2>1, <2>2, <2>3, <2>4, <2>5
<1> QED BY <1>1, <1>5, <1>6, <1>7, <1>8 DEF Blobs!ExpireStep

\* A step of a reader.
LEMMA OpenMoves ==
    ASSUME BlobInv,
           UNCHANGED <<config, keyFile, audit, record, cipher, manifest, deletion, seal, expiry>>,
           open' = [o \in Opens |-> open'[o]], \A o \in Opens : OpenFits(open'[o])
    PROVE  BlobInv'
<1>1. BlobTyped'
  BY DEF BlobInv, BlobTyped
<1>2. OneFiller'
  BY DEF BlobInv, OneFiller
<1>3. ASSUME NEW w, NEW key, Keyed(w, key) PROVE Keyed(w, key)'
  BY <1>3, KeyedStays
<1>4. ASSUME NEW s \in Seals PROVE SealFits(seal[s])' /\ RecordFits(record[s])' /\ LifeHolds(s)'
  BY <1>3 DEF BlobInv, SealFits, RecordFits, LifeHolds
<1> QED BY <1>1, <1>2, <1>4 DEF BlobInv, OpenFits

LEMMA OpensHold ==
    ASSUME BlobInv, NEW o \in Opens,
           \/ \E s \in Seals, role \in Roles, exception \in BOOLEAN :
                 Blobs!BeginOpen(o, s, role, exception)
           \/ Blobs!ReadCipher(o) \/ Blobs!AskAccess(o) \/ Blobs!Decrypt(o)
    PROVE  BlobInv'
<1>1. open = [p \in Opens |-> open[p]] /\ \A p \in Opens : OpenFits(open[p])
  BY DEF BlobInv, BlobTyped
<1>2. ASSUME NEW x, OpenFits(x), open' = [open EXCEPT ![o] = x],
             UNCHANGED <<config, keyFile, audit, record, cipher, manifest, deletion, seal, expiry>>
      PROVE  BlobInv'
  <2>1. open' = [p \in Opens |-> open'[p]] /\ \A p \in Opens : OpenFits(open'[p])
    BY <1>1, <1>2
  <2> QED BY <1>2, <2>1, OpenMoves
<1>3. ASSUME NEW s \in Seals, NEW role \in Roles, NEW exception \in BOOLEAN,
             Blobs!BeginOpen(o, s, role, exception)
      PROVE  BlobInv'
  <2> DEFINE x == [pc |-> "cipher", of |-> s, role |-> role, exception |-> exception,
                   under |-> Nothing]
  <2>1. OpenFits(x)
    BY DEF OpenFits
  <2> QED BY <1>2, <1>3, <2>1 DEF Blobs!BeginOpen
<1>4. ASSUME NEW from, NEW next \in {"unwrap", "decrypt", "opened"}, NEW ok \in BOOLEAN,
             Blobs!OpenStep(o, from, ok, next)
      PROVE  BlobInv'
  <2>1. PICK pc \in {"unwrap", "decrypt", "opened", "failed"} : open' = [open EXCEPT ![o].pc = pc]
    BY <1>4 DEF Blobs!OpenStep
  <2>2. PICK x : x = [open[o] EXCEPT !.pc = pc]
    OBVIOUS
  <2>3. open' = [open EXCEPT ![o] = x]
    BY <1>1, <2>1, <2>2
  <2>4. OpenFits(open[o])
    BY <1>1
  <2>5. OpenFits(x)
    BY <2>2, <2>4 DEF OpenFits
  <2> QED BY <1>2, <1>4, <2>3, <2>5 DEF Blobs!OpenStep
<1>5. CASE Blobs!ReadCipher(o)
  <2>1. PICK ok \in BOOLEAN : ok = (cipher[open[o].of] = "there")
    OBVIOUS
  <2>2. Blobs!OpenStep(o, "cipher", ok, "unwrap")
    BY <1>5, <2>1 DEF Blobs!ReadCipher
  <2> QED BY <1>4, <2>2
<1>6. CASE Blobs!AskAccess(o)
  <2>1. PICK ok \in BOOLEAN :
          ok = (/\ record[open[o].of] # Nothing
                /\ Blobs!Allowed(record[open[o].of], open[o].role, open[o].exception))
    OBVIOUS
  <2>2. Blobs!OpenStep(o, "unwrap", ok, "decrypt")
    BY <1>6, <2>1, Zenon DEF Blobs!AskAccess
  <2> QED BY <1>4, <2>2
<1>7. CASE Blobs!Decrypt(o)
  <2>1. PICK ok \in BOOLEAN :
          ok = (record[open[o].of].under = Blobs!CurrentKey(record[open[o].of].workspace))
    OBVIOUS
  <2>2. Blobs!OpenStep(o, "decrypt", ok, "opened")
    BY <1>7, <2>1 DEF Blobs!Decrypt
  <2> QED BY <1>4, <2>2
<1> QED BY <1>3, <1>5, <1>6, <1>7

\* A restart fails the calls under way, and an expiry is done or begins anew.
LEMMA BlobsRestart ==
    ASSUME BlobInv, Blobs!Crash
    PROVE  BlobInv'
<1>1. /\ seal' = [s \in Seals |-> IF seal[s].pc \in {"idle", "done"} THEN seal[s]
                                  ELSE [seal[s] EXCEPT !.pc = "failed"]]
      /\ open' = [o \in Opens |-> IF open[o].pc \in {"idle", "opened"} THEN open[o]
                                  ELSE [open[o] EXCEPT !.pc = "failed"]]
      /\ expiry' = [s \in Seals |->
                      [expiry[s] EXCEPT !.pc = IF expiry[s].pc = "idle" THEN expiry[s].pc
                                               ELSE "done"]]
      /\ UNCHANGED <<config, keyFile, audit, record, cipher, manifest, deletion>>
  BY Zenon DEF Blobs!Crash
<1>2. ASSUME NEW w, NEW key, Keyed(w, key) PROVE Keyed(w, key)'
  BY <1>1, <1>2, KeyedStays
<1>3. ASSUME NEW s \in Seals
      PROVE  /\ expiry'[s] \in [pc : {"idle", "revoke", "cipher", "manifest", "deletion", "done"},
                                revoke : BOOLEAN]
             /\ expiry'[s].pc \in {"idle", "done"}
             /\ expiry[s].pc = "idle" <=> expiry'[s].pc = "idle"
             /\ expiry'[s].revoke = expiry[s].revoke
  <2>1. expiry[s] \in [pc : {"idle", "revoke", "cipher", "manifest", "deletion", "done"},
                       revoke : BOOLEAN]
    BY DEF BlobInv, BlobTyped
  <2>2. CASE expiry[s].pc = "idle"
    <3>1. expiry'[s] = [expiry[s] EXCEPT !.pc = "idle"]
      BY <1>1, <2>2
    <3> QED BY <2>1, <2>2, <3>1
  <2>3. CASE expiry[s].pc # "idle"
    <3>1. expiry'[s] = [expiry[s] EXCEPT !.pc = "done"]
      BY <1>1, <2>3
    <3> QED BY <2>1, <2>3, <3>1
  <2> QED BY <2>2, <2>3
<1>4. ASSUME NEW s \in Seals
      PROVE  /\ SealFits(seal'[s]) /\ seal'[s].pc \in {"idle", "done", "failed"}
             /\ seal[s].pc = "done" <=> seal'[s].pc = "done"
  <2>1. SealFits(seal[s])
    BY DEF BlobInv
  <2>2. CASE seal[s].pc \in {"idle", "done"}
    <3>1. seal'[s] = seal[s]
      BY <1>1, <2>2
    <3> QED BY <2>1, <2>2, <3>1
  <2>3. CASE seal[s].pc \notin {"idle", "done"}
    <3>1. seal'[s] = [pc |-> "failed", workspace |-> seal[s].workspace,
                      visibility |-> seal[s].visibility, under |-> seal[s].under]
      BY <1>1, <2>1, <2>3 DEF SealFits
    <3>2. seal'[s].pc = "failed" /\ SealFits(seal'[s])
      BY <2>1, <2>3, <3>1 DEF SealFits, SealPcs
    <3> QED BY <2>3, <3>2
  <2> QED BY <2>2, <2>3
<1>5. BlobTyped'
  <2>1. expiry' \in [Seals -> [pc : {"idle", "revoke", "cipher", "manifest", "deletion", "done"},
                               revoke : BOOLEAN]]
    <3>1. expiry' = [s \in Seals |-> expiry'[s]]
      BY <1>1
    <3> QED BY <1>3, <3>1
  <2> QED BY <1>1, <2>1 DEF BlobInv, BlobTyped
<1>6. OneFiller'
  <2> SUFFICES ASSUME NEW t \in Seals, NEW u \in Seals, seal'[t].pc = "fill"
               PROVE  FALSE
    BY Zenon DEF OneFiller
  <2>1. seal'[t].pc \in {"idle", "done", "failed"}
    BY <1>4
  <2> QED BY <2>1
<1>7. ASSUME NEW s \in Seals PROVE SealFits(seal[s])'
  <2>1. SealFits(seal'[s]) /\ seal'[s].pc \in {"idle", "done", "failed"}
    BY <1>4
  <2> QED BY <2>1 DEF SealFits
<1>8. ASSUME NEW s \in Seals PROVE RecordFits(record[s])'
  BY <1>1, <1>2 DEF BlobInv, RecordFits
<1>9. ASSUME NEW s \in Seals PROVE LifeHolds(s)'
  <2>1. LifeHolds(s)
    BY DEF BlobInv
  <2>2. /\ seal[s].pc = "done" <=> seal'[s].pc = "done"
        /\ seal'[s].pc \in {"idle", "done", "failed"}
    BY <1>4
  <2>3. /\ expiry'[s].pc \in {"idle", "done"} /\ (expiry[s].pc = "idle" <=> expiry'[s].pc = "idle")
        /\ expiry'[s].revoke = expiry[s].revoke
    BY <1>3
  <2> QED BY <1>1, <2>1, <2>2, <2>3 DEF LifeHolds, LifeFits
<1>10. ASSUME NEW o \in Opens PROVE OpenFits(open[o])'
  <2>1. OpenFits(open[o])
    BY DEF BlobInv
  <2> QED BY <1>1, <2>1 DEF OpenFits
<1> QED BY <1>5, <1>6, <1>7, <1>8, <1>9, <1>10 DEF BlobInv

LEMMA BlobNext ==
    ASSUME BlobInv, [Blobs!BlobNext]_<<blobVars, crashes>>
    PROVE  BlobInv'
<1>1. CASE UNCHANGED <<blobVars, crashes>>
  BY <1>1, OpenMoves DEF blobVars, BlobInv, BlobTyped
<1>2. CASE Blobs!BlobNext
  BY <1>2, SealBegins, FileKeyHolds, DerivedKeyHolds, WrapHolds, PutHolds, ExpiryBegins,
     ExpiryMoves, OpensHold, BlobsRestart DEF Blobs!BlobNext
<1> QED BY <1>1, <1>2

BlobsHeld == part = "blobs" => BlobInv

\* A payload that is sealed and not expired can be opened, however calls interleave to make
\* the first key of a workspace and wherever restarts fall; a deletion on record has taken
\* the payload; a key of the enterprise KMS that wraps one has its line in the audit file.
\* For any numbers of seals, workspaces, readers and restarts (sealJson, wrapDataKey,
\* readOrCreateKey, expireManifest, POST /derive-key).
THEOREM BlobsHoldAlways == ServicesSpec => []BlobsHold
<1>1. ServicesInit => BlobsHeld
  BY BlobsBegin DEF ServicesInit, BlobsHeld
<1>2. BlobsHeld /\ [ServicesNext]_allVars => BlobsHeld'
  <2> SUFFICES ASSUME BlobsHeld, [ServicesNext]_allVars PROVE BlobsHeld'
    OBVIOUS
  <2>1. part' = part /\ (part = "blobs" => [Blobs!BlobNext]_<<blobVars, crashes>>)
    <3>1. CASE UNCHANGED allVars
      BY <3>1 DEF allVars, blobVars
    <3>2. CASE BlobsPart
      BY <3>2 DEF BlobsPart, Only
    <3>3. CASE ServicesNext /\ ~BlobsPart
      <4>1. part # "blobs" /\ part' = part
        BY <3>3 DEF ServicesNext, LiveParts, BooksPart, StoreParts, BoardPart, AccessParts,
                    LanePart, IngressPart, ToolsPart, GasPart, ProofPart, PrivacyPart, Only
      <4> QED BY <4>1
    <3> QED BY <3>1, <3>2, <3>3
  <2> QED BY <2>1, BlobNext DEF BlobsHeld
<1>3. BlobsHeld => BlobsHold
  <2> SUFFICES ASSUME BlobInv
               PROVE  /\ Blobs!BlobTypeOK /\ Blobs!SealedIsReadable
                      /\ Blobs!KeysAreAudited /\ Blobs!DeletionsAreTrue
    BY DEF BlobsHeld, BlobsHold
  <2>1. Blobs!BlobTypeOK
    <3>1. ASSUME NEW s \in Seals
          PROVE  /\ record[s] \in Blobs!Records \cup {Nothing}
                 /\ seal[s].pc \in SealPcs
      BY DEF BlobInv, RecordFits, SealFits
    <3> QED BY <3>1 DEF BlobInv, BlobTyped, OpenFits, SealPcs, Blobs!BlobTypeOK
  <2>2. Blobs!SealedIsReadable
    <3> SUFFICES ASSUME NEW s \in Seals, manifest[s] = "there", expiry[s].pc = "idle"
                 PROVE  /\ cipher[s] = "there" /\ record[s] # Nothing /\ ~record[s].revoked
                        /\ record[s].under = Blobs!CurrentKey(record[s].workspace)
      BY Zenon DEF Blobs!SealedIsReadable
    <3>1. LifeHolds(s) /\ RecordFits(record[s])
      BY DEF BlobInv
    <3> QED BY <3>1 DEF LifeHolds, LifeFits, RecordFits, Keyed
  <2>3. Blobs!KeysAreAudited
    BY DEF BlobInv, RecordFits, Keyed, Blobs!KeysAreAudited
  <2>4. Blobs!DeletionsAreTrue
    BY DEF BlobInv, LifeHolds, LifeFits, Blobs!DeletionsAreTrue
  <2> QED BY <2>1, <2>2, <2>3, <2>4
<1> QED BY <1>1, <1>2, <1>3, PTL DEF ServicesSpec
=============================================================================
