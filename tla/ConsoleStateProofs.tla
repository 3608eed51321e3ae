--------------------------- MODULE ConsoleStateProofs ---------------------------
(***************************************************************************)
(* Proofs about ConsoleState.  Calls overlap and save whole copies of the  *)
(* file, so the invariant says of every copy, in the file or staged, what  *)
(* it says of the file; and of an enrolment under way what it still has to *)
(* rely on when it resumes.                                                *)
(***************************************************************************)
EXTENDS ConsoleState, FiniteSetTheorems, TLAPS

AnyUrl == Urls \union Sessions \union {NoUrl}

\* The types, with those that ConsoleTypeOK leaves to the shape of the functions.
Typed ==
    /\ file \in Files
    /\ write \in [Tasks -> Files \union {NoWrite}]
    /\ task \in [Tasks -> TaskRecords]
    /\ shown \subseteq Sessions \X AnyUrl
    /\ overlapped \in BOOLEAN
    /\ crashes \in 0..MaxCrashes

\* One copy of the file: URLs are taken once, an open challenge is for the URL on record,
\* and what is verified has been shown.
UrlsTakenOnce(f) ==
    \A s, o \in Sessions : f.agent[s].url = f.agent[o].url => s = o \/ f.agent[s].url = NoUrl

ChallengeIsCurrent(f) ==
    \A s \in Sessions : f.agent[s].chal # NoTask => f.agent[s].chalUrl = f.agent[s].url

VerifiedIsShown(f, pairs) ==
    \A s \in Sessions : f.agent[s].own = "verified" => <<s, f.agent[s].proved>> \in pairs

Sound(f, pairs) == UrlsTakenOnce(f) /\ ChallengeIsCurrent(f) /\ VerifiedIsShown(f, pairs)

\* An enrolment under way has its ticket and its session, and over the relay control of
\* the hosted URL has been shown.
Enrolling(k) == task[k].pc \in {"register", "challenge", "finish", "prove"}

EnrolmentIsNamed ==
    \A k \in Tasks :
       /\ Enrolling(k) \/ task[k].pc = "owner" => task[k].ticket \in Tickets /\ task[k].session \in Sessions
       /\ Enrolling(k) /\ task[k].relay => <<task[k].session, task[k].session>> \in shown
       /\ task[k].pc = "prove" => task[k].relay

CopiesAreSound ==
    /\ Sound(file, shown)
    /\ \A k \in Tasks : ~Quiet(k) => Sound(write[k], shown)

ConsoleInv == Typed /\ EnrolmentIsNamed /\ CopiesAreSound

\* Where calls do not overlap: one is under way, its copy keeps what is redeemed, and a
\* ticket that has been finished is redeemed and is nobody else's.
Finished(k, t) == task[k].pc \in {"prove", "owner"} /\ task[k].ticket = t

OneAtATime == \A j, k \in Tasks : Active(j) /\ Active(k) => j = k

RedeemedStays ==
    \A k \in Tasks, t \in Tickets :
        ~Quiet(k) /\ file.ticket[t].status = "redeemed" => write[k].ticket[t].status = "redeemed"

FinishedIsRedeemed ==
    \A k \in Tasks, t \in Tickets :
        Finished(k, t) =>
            IF Quiet(k) THEN file.ticket[t].status = "redeemed"
            ELSE write[k].ticket[t].status = "redeemed"

OwnerIsAlone ==
    \A j, k \in Tasks :
        /\ j # k /\ task[j].pc = "owner"
        /\ Enrolling(k) \/ task[k].pc = "owner"
        => task[j].ticket # task[k].ticket

TurnsInv == ~overlapped => OneAtATime /\ RedeemedStays /\ FinishedIsRedeemed /\ OwnerIsAlone

-----------------------------------------------------------------------------
(* Copies of the file.                                                    *)

LEMMA UnregisteredType ==
    /\ Unregistered \in AgentRecords
    /\ Unregistered.url = NoUrl /\ Unregistered.chal = NoTask /\ Unregistered.own = "legacy"
BY DEF Unregistered, AgentRecords, Availabilities

\* A copy in which one agent has changed: its URL is the one it had or free, its challenge
\* is for that URL, and its verification has been shown.
AgentEdited(f, g, s, pairs) ==
    /\ \A o \in Sessions \ {s} : g.agent[o] = f.agent[o]
    /\ \/ g.agent[s].url = f.agent[s].url
       \/ UrlFree(f, g.agent[s].url, {s}) \/ UrlFree(f, g.agent[s].url, {})
    /\ g.agent[s].chal # NoTask => g.agent[s].chalUrl = g.agent[s].url
    /\ g.agent[s].own = "verified" => <<s, g.agent[s].proved>> \in pairs

LEMMA EditedIsSound ==
    ASSUME NEW f, NEW g, NEW pairs, NEW more, NEW s \in Sessions,
           Sound(f, pairs), pairs \subseteq more, AgentEdited(f, g, s, more)
    PROVE  Sound(g, more)
<1>1. UrlsTakenOnce(g)
  BY DEF Sound, UrlsTakenOnce, UrlFree, AgentEdited
<1>2. ChallengeIsCurrent(g)
  BY DEF Sound, ChallengeIsCurrent, AgentEdited
<1>3. VerifiedIsShown(g, more)
  BY DEF Sound, VerifiedIsShown, AgentEdited
<1> QED BY <1>1, <1>2, <1>3 DEF Sound

\* A copy whose agents have not changed.
LEMMA SameAgentsSound ==
    ASSUME NEW f, NEW g, NEW pairs, NEW more, Sound(f, pairs), pairs \subseteq more,
           g.agent = f.agent
    PROVE  Sound(g, more)
BY DEF Sound, UrlsTakenOnce, ChallengeIsCurrent, VerifiedIsShown

LEMMA RegisteredCopy ==
    ASSUME NEW f \in Files, NEW k \in Tasks, NEW s \in Sessions, NEW u \in AnyUrl,
           NEW relay \in BOOLEAN, NEW pairs, Sound(f, pairs), UrlFree(f, u, {})
    PROVE  /\ Registered(f, k, s, u, relay) \in Files
           /\ Registered(f, k, s, u, relay).ticket = f.ticket
           /\ Sound(Registered(f, k, s, u, relay), pairs)
<1> DEFINE a == [Unregistered EXCEPT !.registered = TRUE, !.key = k, !.url = u, !.relay = relay,
                                     !.own = "unverified", !.deleted = f.agent[s].deleted]
           g == Registered(f, k, s, u, relay)
<1>1. /\ a \in AgentRecords /\ a.url = u /\ a.chal = NoTask /\ a.own = "unverified"
  BY DEF Unregistered, AgentRecords, Availabilities, Files, AnyUrl
<1>2. g = [f EXCEPT !.agent[s] = a]
  BY DEF Registered
<1> HIDE DEF a, g
<1>3. g \in Files /\ g.ticket = f.ticket
  BY <1>1, <1>2 DEF Files
<1>4. g.agent[s] = a /\ \A o \in Sessions \ {s} : g.agent[o] = f.agent[o]
  BY <1>1, <1>2 DEF Files
<1>5. AgentEdited(f, g, s, pairs)
  BY <1>1, <1>4 DEF AgentEdited
<1>6. Sound(g, pairs)
  BY <1>5, EditedIsSound
<1> QED BY <1>3, <1>6 DEF g

LEMMA ChallengedCopy ==
    ASSUME NEW f \in Files, NEW k \in Tasks, NEW s \in Sessions, NEW pairs, Sound(f, pairs)
    PROVE  /\ WithChallenge(f, k, s) \in Files
           /\ WithChallenge(f, k, s).ticket = f.ticket
           /\ Sound(WithChallenge(f, k, s), pairs)
<1> DEFINE a == [f.agent[s] EXCEPT !.own = "issued", !.chal = k, !.chalUrl = f.agent[s].url]
           g == WithChallenge(f, k, s)
<1>0. f.agent[s] \in AgentRecords
  BY DEF Files
<1>1. /\ a \in AgentRecords /\ a.url = f.agent[s].url /\ a.chalUrl = a.url /\ a.own = "issued"
  BY <1>0 DEF AgentRecords
<1>2. g = [f EXCEPT !.agent[s] = a]
  BY DEF WithChallenge, Files, AgentRecords
<1> HIDE DEF a, g
<1>3. g \in Files /\ g.ticket = f.ticket
  BY <1>1, <1>2 DEF Files
<1>4. g.agent[s] = a /\ \A o \in Sessions \ {s} : g.agent[o] = f.agent[o]
  BY <1>1, <1>2 DEF Files
<1>5. AgentEdited(f, g, s, pairs)
  BY <1>1, <1>4 DEF AgentEdited
<1>6. Sound(g, pairs)
  BY <1>5, EditedIsSound
<1> QED BY <1>3, <1>6 DEF g

LEMMA VerifiedCopy ==
    ASSUME NEW f \in Files, NEW s \in Sessions, NEW u \in AnyUrl, NEW pairs, NEW more,
           Sound(f, pairs), pairs \subseteq more, <<s, u>> \in more
    PROVE  /\ Verified(f, s, u) \in Files
           /\ Verified(f, s, u).ticket = f.ticket
           /\ Sound(Verified(f, s, u), more)
<1> DEFINE a == [f.agent[s] EXCEPT !.own = "verified", !.chal = NoTask, !.chalUrl = NoUrl,
                                   !.proved = u]
           g == Verified(f, s, u)
<1>0. f.agent[s] \in AgentRecords
  BY DEF Files
<1>1. /\ a \in AgentRecords /\ a.url = f.agent[s].url /\ a.chal = NoTask /\ a.proved = u
  BY <1>0 DEF AgentRecords, AnyUrl
<1>2. g = [f EXCEPT !.agent[s] = a]
  BY DEF Verified, Files, AgentRecords
<1> HIDE DEF a, g
<1>3. g \in Files /\ g.ticket = f.ticket
  BY <1>1, <1>2 DEF Files
<1>4. g.agent[s] = a /\ \A o \in Sessions \ {s} : g.agent[o] = f.agent[o]
  BY <1>1, <1>2 DEF Files
<1>5. AgentEdited(f, g, s, more)
  BY <1>1, <1>4 DEF AgentEdited
<1>6. Sound(g, more)
  BY <1>5, EditedIsSound
<1> QED BY <1>3, <1>6 DEF g

LEMMA KeyedCopy ==
    ASSUME NEW f \in Files, NEW k \in Tasks, NEW s \in Sessions, NEW pairs, Sound(f, pairs)
    PROVE  /\ [f EXCEPT !.agent[s].key = k] \in Files
           /\ [f EXCEPT !.agent[s].key = k].ticket = f.ticket
           /\ Sound([f EXCEPT !.agent[s].key = k], pairs)
<1> DEFINE a == [f.agent[s] EXCEPT !.key = k]
           g == [f EXCEPT !.agent[s].key = k]
<1>0. f.agent[s] \in AgentRecords
  BY DEF Files
<1>1. /\ a \in AgentRecords /\ a.url = f.agent[s].url /\ a.chal = f.agent[s].chal
      /\ a.chalUrl = f.agent[s].chalUrl /\ a.own = f.agent[s].own /\ a.proved = f.agent[s].proved
  BY <1>0 DEF AgentRecords
<1>2. g = [f EXCEPT !.agent[s] = a]
  BY DEF Files, AgentRecords
<1> HIDE DEF a, g
<1>3. g \in Files /\ g.ticket = f.ticket
  BY <1>1, <1>2 DEF Files
<1>4. g.agent[s] = a /\ \A o \in Sessions \ {s} : g.agent[o] = f.agent[o]
  BY <1>1, <1>2 DEF Files
<1>5. AgentEdited(f, g, s, pairs)
  BY <1>1, <1>4 DEF AgentEdited, Sound, ChallengeIsCurrent, VerifiedIsShown
<1>6. Sound(g, pairs)
  BY <1>5, EditedIsSound
<1> QED BY <1>3, <1>6 DEF g

LEMMA AvailableCopy ==
    ASSUME NEW f \in Files, NEW avail \in Availabilities, NEW s \in Sessions, NEW pairs,
           Sound(f, pairs)
    PROVE  /\ [f EXCEPT !.agent[s].avail = avail] \in Files
           /\ [f EXCEPT !.agent[s].avail = avail].ticket = f.ticket
           /\ Sound([f EXCEPT !.agent[s].avail = avail], pairs)
<1> DEFINE a == [f.agent[s] EXCEPT !.avail = avail]
           g == [f EXCEPT !.agent[s].avail = avail]
<1>0. f.agent[s] \in AgentRecords
  BY DEF Files
<1>1. /\ a \in AgentRecords /\ a.url = f.agent[s].url /\ a.chal = f.agent[s].chal
      /\ a.chalUrl = f.agent[s].chalUrl /\ a.own = f.agent[s].own /\ a.proved = f.agent[s].proved
  BY <1>0 DEF AgentRecords
<1>2. g = [f EXCEPT !.agent[s] = a]
  BY DEF Files, AgentRecords
<1> HIDE DEF a, g
<1>3. g \in Files /\ g.ticket = f.ticket
  BY <1>1, <1>2 DEF Files
<1>4. g.agent[s] = a /\ \A o \in Sessions \ {s} : g.agent[o] = f.agent[o]
  BY <1>1, <1>2 DEF Files
<1>5. AgentEdited(f, g, s, pairs)
  BY <1>1, <1>4 DEF AgentEdited, Sound, ChallengeIsCurrent, VerifiedIsShown
<1>6. Sound(g, pairs)
  BY <1>5, EditedIsSound
<1> QED BY <1>3, <1>6 DEF g

-----------------------------------------------------------------------------
(* The steps of one call.                                                 *)

\* What a call stages in one step is a sound copy in which redeemed tickets stay so.
SoundEdit(k) ==
    \E f \in Files :
       /\ Edit(k, f)
       /\ shown \subseteq shown' /\ shown' \subseteq Sessions \X AnyUrl
       /\ Sound(f, shown')
       /\ \A t \in Tickets : file.ticket[t].status = "redeemed" => f.ticket[t].status = "redeemed"

LEMMA IssuedTicketIsSound ==
    ASSUME ConsoleInv, NEW k \in Tasks, NEW t \in Tickets, NEW u \in AnyUrl,
           IssueEnrollmentTicket(k, t, u)
    PROVE  SoundEdit(k)
<1> DEFINE f == [file EXCEPT !.ticket[t] = [status |-> "pending", url |-> u]]
<1>1. f \in Files /\ f.agent = file.agent
  BY DEF ConsoleInv, Typed, Files, TicketRecords, AnyUrl
<1>2. \A o \in Tickets : file.ticket[o].status = "redeemed" => f.ticket[o].status = "redeemed"
  BY DEF IssueEnrollmentTicket, ConsoleInv, Typed, Files
<1>3. Edit(k, f) /\ shown' = shown
  BY DEF IssueEnrollmentTicket
<1>4. Sound(f, shown)
  BY <1>1, SameAgentsSound DEF ConsoleInv, CopiesAreSound
<1> HIDE DEF f
<1> QED BY <1>1, <1>2, <1>3, <1>4 DEF SoundEdit, ConsoleInv, Typed

LEMMA OwnershipIsSound ==
    ASSUME ConsoleInv, NEW k \in Tasks, Ownership(k)
    PROVE  SoundEdit(k)
<1>1. PICK s \in Sessions :
         \/ IssueOwnershipChallenge(k, s)
         \/ \E admin \in BOOLEAN : VerifyOwnershipChallenge(k, s, admin)
  BY DEF Ownership
<1>2. file \in Files /\ Sound(file, shown) /\ shown \subseteq Sessions \X AnyUrl
  BY DEF ConsoleInv, Typed, CopiesAreSound
<1>3. CASE IssueOwnershipChallenge(k, s)
  <2>1. Edit(k, WithChallenge(file, k, s)) /\ shown' = shown
    BY <1>3 DEF IssueOwnershipChallenge
  <2>2. /\ WithChallenge(file, k, s) \in Files
        /\ WithChallenge(file, k, s).ticket = file.ticket
        /\ Sound(WithChallenge(file, k, s), shown)
    BY <1>2, ChallengedCopy
  <2> QED BY <1>2, <2>1, <2>2 DEF SoundEdit
<1>4. ASSUME NEW admin \in BOOLEAN, VerifyOwnershipChallenge(k, s, admin)
      PROVE  SoundEdit(k)
  <2> DEFINE a == file.agent[s]
             f == Verified(file, s, a.url)
             g == [f EXCEPT !.agent[s].key = k]
  <2>1. /\ a.chal # NoTask /\ shown' = shown \union {<<s, a.chalUrl>>}
        /\ Edit(k, IF admin THEN f ELSE g)
    BY <1>4 DEF VerifyOwnershipChallenge
  <2>2. a \in AgentRecords /\ a.chalUrl = a.url
    BY <1>2, <2>1 DEF Files, Sound, ChallengeIsCurrent
  <2>3. a.url \in AnyUrl /\ <<s, a.url>> \in shown'
    BY <2>1, <2>2 DEF AgentRecords, AnyUrl
  <2>4. shown \subseteq shown' /\ shown' \subseteq Sessions \X AnyUrl
    BY <1>2, <2>1, <2>2, <2>3
  <2>5. f \in Files /\ f.ticket = file.ticket /\ Sound(f, shown')
    BY <1>2, <2>3, <2>4, VerifiedCopy
  <2> HIDE DEF f
  <2>6. g \in Files /\ g.ticket = f.ticket /\ Sound(g, shown')
    BY <2>5, KeyedCopy
  <2> HIDE DEF g
  <2> QED BY <2>1, <2>4, <2>5, <2>6 DEF SoundEdit
<1> QED BY <1>1, <1>3, <1>4

LEMMA ProfilesAreSound ==
    ASSUME ConsoleInv, NEW k \in Tasks, Profiles(k)
    PROVE  SoundEdit(k)
<1>1. file \in Files /\ Sound(file, shown) /\ shown \subseteq Sessions \X AnyUrl
  BY DEF ConsoleInv, Typed, CopiesAreSound
<1>2. ASSUME NEW s \in Sessions, NEW u \in AnyUrl, NEW relay \in BOOLEAN,
             RegisterAgent(k, s, u, relay)
      PROVE  SoundEdit(k)
  <2> DEFINE f == Registered(file, k, s, u, relay)
  <2>1. Edit(k, f) /\ shown' = shown /\ UrlFree(file, u, {})
    BY <1>2 DEF RegisterAgent
  <2>2. f \in Files /\ f.ticket = file.ticket /\ Sound(f, shown)
    BY <1>1, <2>1, RegisteredCopy
  <2> HIDE DEF f
  <2> QED BY <1>1, <2>1, <2>2 DEF SoundEdit
<1>3. ASSUME NEW s \in Sessions, NEW u \in AnyUrl, NEW relay \in BOOLEAN,
             UpdateAgentProfile(k, s, u, relay)
      PROVE  SoundEdit(k)
  <2> DEFINE a == file.agent[s]
             b == [a EXCEPT !.url = u, !.relay = relay]
             c == IF u = a.url THEN b
                  ELSE [b EXCEPT !.own = "unverified", !.chal = NoTask,
                                 !.chalUrl = NoUrl, !.proved = NoUrl]
             f == [file EXCEPT !.agent[s] = c]
  <2>1. Edit(k, f) /\ shown' = shown /\ UrlFree(file, u, {s})
    BY <1>3 DEF UpdateAgentProfile
  <2>2. a \in AgentRecords
    BY <1>1 DEF Files
  <2>3. b \in AgentRecords /\ b.url = u /\ b.own = a.own /\ b.chal = a.chal
        /\ b.chalUrl = a.chalUrl /\ b.proved = a.proved
    BY <2>2 DEF AgentRecords, AnyUrl
  <2> HIDE DEF b
  <2>4. /\ c \in AgentRecords /\ c.url = u
        /\ c.chal # NoTask => c.chalUrl = u
        /\ c.own = "verified" => <<s, c.proved>> \in shown
    <3>1. CASE u = a.url
      BY <1>1, <2>3, <3>1 DEF Sound, ChallengeIsCurrent, VerifiedIsShown
    <3>2. CASE u # a.url
      BY <2>3, <3>2 DEF AgentRecords
    <3> QED BY <3>1, <3>2
  <2> HIDE DEF c
  <2>5. f \in Files /\ f.ticket = file.ticket
    BY <1>1, <2>4 DEF Files
  <2>6. f.agent[s] = c /\ \A o \in Sessions \ {s} : f.agent[o] = file.agent[o]
    BY <1>1, <2>4 DEF Files
  <2> HIDE DEF f
  <2>7. AgentEdited(file, f, s, shown)
    BY <2>1, <2>4, <2>6 DEF AgentEdited
  <2>8. Sound(f, shown)
    BY <1>1, <2>7, EditedIsSound
  <2> QED BY <1>1, <2>1, <2>5, <2>8 DEF SoundEdit
<1>4. ASSUME NEW s \in Sessions, NEW avail \in Availabilities,
             Edit(k, [file EXCEPT !.agent[s].avail = avail]), UNCHANGED shown
      PROVE  SoundEdit(k)
  <2> DEFINE f == [file EXCEPT !.agent[s].avail = avail]
  <2>1. f \in Files /\ f.ticket = file.ticket /\ Sound(f, shown)
    BY <1>1, AvailableCopy
  <2>2. Edit(k, f) /\ shown' = shown
    BY <1>4
  <2> HIDE DEF f
  <2> QED BY <1>1, <2>1, <2>2 DEF SoundEdit
<1>5. ASSUME NEW s \in Sessions, NEW archived \in BOOLEAN, SetAgentArchiveStatus(k, s, archived)
      PROVE  SoundEdit(k)
  <2>1. (IF archived THEN "archived" ELSE "active") \in Availabilities
    BY DEF Availabilities
  <2> QED BY <1>4, <1>5, <2>1 DEF SetAgentArchiveStatus
<1>6. ASSUME NEW s \in Sessions, NEW avail \in {"active", "suspended", "blocked"},
             SetAgentModerationStatus(k, s, avail)
      PROVE  SoundEdit(k)
  <2>1. avail \in Availabilities
    BY DEF Availabilities
  <2> QED BY <1>4, <1>6, <2>1 DEF SetAgentModerationStatus
<1>7. ASSUME NEW s \in Sessions, DeleteAgentRegistration(k, s)
      PROVE  SoundEdit(k)
  <2> DEFINE a == [Unregistered EXCEPT !.deleted = TRUE]
             f == [file EXCEPT !.agent[s] = a]
  <2>1. Edit(k, f) /\ shown' = shown
    BY <1>7 DEF DeleteAgentRegistration
  <2>2. a \in AgentRecords /\ a.url = NoUrl /\ a.chal = NoTask /\ a.own = "legacy"
    BY DEF Unregistered, AgentRecords, Availabilities
  <2> HIDE DEF a
  <2>3. f \in Files /\ f.ticket = file.ticket
    BY <1>1, <2>2 DEF Files
  <2>4. f.agent[s] = a /\ \A o \in Sessions \ {s} : f.agent[o] = file.agent[o]
    BY <1>1, <2>2 DEF Files
  <2> HIDE DEF f
  <2>5. AgentEdited(file, f, s, shown)
    BY <2>2, <2>4 DEF AgentEdited, UrlFree
  <2>6. Sound(f, shown)
    BY <1>1, <2>5, EditedIsSound
  <2> QED BY <1>1, <2>1, <2>3, <2>6 DEF SoundEdit
<1>8. CASE OtherSave(k)
  BY <1>1, <1>8 DEF OtherSave, SoundEdit
<1> QED BY <1>2, <1>3, <1>5, <1>6, <1>7, <1>8 DEF Profiles, AnyUrl

LEMMA WorkshopsAreSound ==
    ASSUME ConsoleInv, NEW k \in Tasks, Workshops(k)
    PROVE  SoundEdit(k)
<1>1. file \in Files /\ Sound(file, shown) /\ shown \subseteq Sessions \X AnyUrl
  BY DEF ConsoleInv, Typed, CopiesAreSound
<1>2. ASSUME NEW f \in Files, Edit(k, f), UNCHANGED shown,
             f.agent = file.agent, f.ticket = file.ticket
      PROVE  SoundEdit(k)
  <2>1. Sound(f, shown)
    BY <1>1, <1>2, SameAgentsSound
  <2> QED BY <1>1, <1>2, <2>1 DEF SoundEdit
<1>3. NoSetup \in SetupRecords /\ [NoSetup EXCEPT !.open = TRUE] \in SetupRecords
  BY DEF NoSetup, SetupRecords
<1>4. ASSUME NEW e \in Setups, NEW expired \in SUBSET Setups, IssueSetupTicket(k, e, expired)
      PROVE  SoundEdit(k)
  <2> DEFINE setup == [o \in Setups |-> IF o = e THEN [NoSetup EXCEPT !.open = TRUE]
                                        ELSE IF o \in expired THEN NoSetup ELSE file.setup[o]]
             f == [file EXCEPT !.setup = setup]
  <2>1. setup \in [Setups -> SetupRecords]
    BY <1>1, <1>3 DEF Files
  <2> HIDE DEF setup
  <2>2. f \in Files /\ f.agent = file.agent /\ f.ticket = file.ticket
    BY <1>1, <2>1 DEF Files
  <2>3. Edit(k, f) /\ UNCHANGED shown
    BY <1>4 DEF IssueSetupTicket, setup
  <2> HIDE DEF f
  <2> QED BY <1>2, <2>2, <2>3
<1>5. ASSUME NEW e \in Setups, NEW s \in Sessions, ClaimSetupTicket(k, e, s)
      PROVE  SoundEdit(k)
  <2> DEFINE f == [file EXCEPT !.setup[e].token[s] = k]
  <2>1. file.setup[e] \in SetupRecords
    BY <1>1 DEF Files
  <2>2. [file.setup[e] EXCEPT !.token[s] = k] \in SetupRecords
    BY <2>1 DEF SetupRecords
  <2>3. f \in Files /\ f.agent = file.agent /\ f.ticket = file.ticket
    BY <1>1, <2>2 DEF Files
  <2>4. Edit(k, f) /\ UNCHANGED shown
    BY <1>5 DEF ClaimSetupTicket
  <2> HIDE DEF f
  <2> QED BY <1>2, <2>3, <2>4
<1>6. ASSUME NEW e \in Setups, ClaimExpiredSetupTicket(k, e)
      PROVE  SoundEdit(k)
  <2> DEFINE f == [file EXCEPT !.setup[e] = NoSetup]
  <2>1. f \in Files /\ f.agent = file.agent /\ f.ticket = file.ticket
    BY <1>1, <1>3 DEF Files
  <2>2. Edit(k, f) /\ UNCHANGED shown
    BY <1>6 DEF ClaimExpiredSetupTicket
  <2> HIDE DEF f
  <2> QED BY <1>2, <2>1, <2>2
<1> QED BY <1>4, <1>5, <1>6 DEF Workshops

-----------------------------------------------------------------------------
(* Types, and the soundness of every copy.                                *)

LEMMA InitSound == ConsoleInit => ConsoleInv
<1> SUFFICES ASSUME ConsoleInit PROVE ConsoleInv
  OBVIOUS
<1>1. file.agent = [s \in Sessions |-> Unregistered]
  BY DEF ConsoleInit
<1>2. [t \in Tickets |-> [status |-> "none", url |-> NoUrl]] \in [Tickets -> TicketRecords]
  BY DEF TicketRecords
<1>3. [e \in Setups |-> NoSetup] \in [Setups -> SetupRecords]
  BY DEF NoSetup, SetupRecords
<1>4. file \in Files
  BY <1>2, <1>3, UnregisteredType DEF ConsoleInit, Files
<1>5. task \in [Tasks -> TaskRecords]
  BY DEF ConsoleInit, NewTask, TaskRecords, Steps
<1>6. Typed
  <2>1. MaxCrashes \in Nat
    BY ConstantsAssumption DEF ConstantsAssumption
  <2>2. write \in [Tasks -> Files \union {NoWrite}]
    BY DEF ConsoleInit
  <2>3. shown = {} /\ overlapped = FALSE /\ crashes = 0
    BY DEF ConsoleInit
  <2>4. crashes \in 0..MaxCrashes
    BY <2>1, <2>3
  <2>5. shown \subseteq Sessions \X AnyUrl /\ overlapped \in BOOLEAN
    BY <2>3, Zenon
  <2> QED BY <1>4, <1>5, <2>2, <2>4, <2>5, Zenon DEF Typed
<1>7. EnrolmentIsNamed
  BY DEF ConsoleInit, NewTask, EnrolmentIsNamed, Enrolling
<1>8. Sound(file, shown)
  BY <1>1, UnregisteredType DEF Sound, UrlsTakenOnce, ChallengeIsCurrent, VerifiedIsShown
<1>9. CopiesAreSound
  BY <1>8 DEF ConsoleInit, CopiesAreSound, Quiet
<1> QED BY <1>6, <1>7, <1>9 DEF ConsoleInv

\* A larger set of what has been shown disturbs no copy.
LEMMA ShownGrows ==
    ASSUME NEW f, NEW pairs, NEW more, Sound(f, pairs), pairs \subseteq more
    PROVE  Sound(f, more)
BY DEF Sound, VerifiedIsShown

\* A step that stages a sound copy, or none, and moves its own task on.
LEMMA StagedKeeps ==
    ASSUME ConsoleInv, NEW k \in Tasks, NEW f \in Files, NEW c \in TaskRecords,
           write' = [write EXCEPT ![k] = f] \/ write' = write,
           write' = [write EXCEPT ![k] = f] => Sound(f, shown'),
           task' = [task EXCEPT ![k] = c],
           c.pc \in {"register", "challenge", "finish", "prove", "owner"} =>
               c.ticket \in Tickets /\ c.session \in Sessions,
           c.pc \in {"register", "challenge", "finish", "prove"} /\ c.relay =>
               <<c.session, c.session>> \in shown',
           c.pc = "prove" => c.relay,
           shown \subseteq shown', shown' \subseteq Sessions \X AnyUrl,
           overlapped' \in BOOLEAN, UNCHANGED <<file, crashes>>
    PROVE  ConsoleInv'
<1>1. Typed'
  BY DEF ConsoleInv, Typed
<1>2. EnrolmentIsNamed'
  <2>1. task'[k] = c /\ \A j \in Tasks \ {k} : task'[j] = task[j]
    BY DEF ConsoleInv, Typed
  <2>2. ASSUME NEW j \in Tasks
        PROVE  /\ (Enrolling(j) \/ task[j].pc = "owner")' =>
                      task'[j].ticket \in Tickets /\ task'[j].session \in Sessions
               /\ (Enrolling(j) /\ task[j].relay)' =>
                      <<task'[j].session, task'[j].session>> \in shown'
               /\ task'[j].pc = "prove" => task'[j].relay
    <3>1. CASE j = k
      BY <2>1, <3>1 DEF Enrolling
    <3>2. CASE j # k
      BY <2>1, <3>2 DEF ConsoleInv, EnrolmentIsNamed, Enrolling
    <3> QED BY <3>1, <3>2
  <2> QED BY <2>2 DEF EnrolmentIsNamed
<1>3. Sound(file, shown')
  BY ShownGrows DEF ConsoleInv, CopiesAreSound
<1>4. ASSUME NEW j \in Tasks, ~Quiet(j)' PROVE Sound(write'[j], shown')
  <2>1. CASE write'[j] = write[j]
    BY <1>4, <2>1, ShownGrows DEF ConsoleInv, CopiesAreSound, Quiet
  <2>2. CASE write'[j] # write[j]
    BY <2>2 DEF ConsoleInv, Typed
  <2> QED BY <2>1, <2>2
<1>5. CopiesAreSound'
  BY <1>3, <1>4 DEF CopiesAreSound
<1> QED BY <1>1, <1>2, <1>5 DEF ConsoleInv

LEMMA EditKeeps ==
    ASSUME ConsoleInv, NEW k \in Tasks, SoundEdit(k)
    PROVE  ConsoleInv'
<1>1. PICK f \in Files :
         Edit(k, f) /\ shown \subseteq shown' /\ shown' \subseteq Sessions \X AnyUrl
         /\ Sound(f, shown')
  BY DEF SoundEdit
<1>2. task[k] \in TaskRecords
  BY DEF ConsoleInv, Typed
<1>3. [task[k] EXCEPT !.pc = "done"] \in TaskRecords /\ [task[k] EXCEPT !.pc = "done"].pc = "done"
  BY <1>2 DEF TaskRecords, Steps
<1>4. /\ write' = [write EXCEPT ![k] = f]
      /\ task' = [task EXCEPT ![k] = [task[k] EXCEPT !.pc = "done"]]
      /\ overlapped' \in BOOLEAN /\ UNCHANGED <<file, crashes>>
  BY <1>1 DEF Edit, Stage, Goto, Starts, ConsoleInv, Typed
<1> QED BY <1>1, <1>3, <1>4, StagedKeeps

LEMMA SaveKeeps ==
    ASSUME ConsoleInv, NEW k \in Tasks, Save(k)
    PROVE  ConsoleInv'
<1>1. /\ write[k] # NoWrite /\ file' = write[k] /\ write' = [write EXCEPT ![k] = NoWrite]
      /\ UNCHANGED <<task, shown, overlapped, crashes>>
  BY DEF Save, Quiet
<1>2. write[k] \in Files
  BY <1>1 DEF ConsoleInv, Typed
<1>3. Typed'
  BY <1>1, <1>2 DEF ConsoleInv, Typed
<1>4. EnrolmentIsNamed'
  BY <1>1 DEF ConsoleInv, EnrolmentIsNamed, Enrolling
<1>5. CopiesAreSound'
  BY <1>1 DEF ConsoleInv, Typed, CopiesAreSound, Quiet
<1> QED BY <1>3, <1>4, <1>5 DEF ConsoleInv

\* What the task record becomes in each step of an enrolment.
LEMMA TaskMoves ==
    ASSUME Typed, NEW k \in Tasks, NEW pc \in Steps
    PROVE  LET c == [task[k] EXCEPT !.pc = pc]
           IN  /\ c \in TaskRecords /\ c.pc = pc /\ c.ticket = task[k].ticket
               /\ c.session = task[k].session /\ c.url = task[k].url /\ c.relay = task[k].relay
<1>1. task[k] \in TaskRecords
  BY DEF Typed
<1> QED BY <1>1 DEF TaskRecords

LEMMA CrashKeeps ==
    ASSUME ConsoleInv, Crash
    PROVE  ConsoleInv'
<1>1. /\ write' = [k \in Tasks |-> NoWrite]
      /\ task' = [k \in Tasks |-> IF Active(k) THEN [task[k] EXCEPT !.pc = "failed"] ELSE task[k]]
      /\ crashes < MaxCrashes /\ crashes' = crashes + 1
      /\ UNCHANGED <<file, shown, overlapped>>
  BY DEF Crash
<1>2. MaxCrashes \in Nat
  BY ConstantsAssumption DEF ConstantsAssumption
<1>3. ASSUME NEW k \in Tasks
      PROVE  /\ task'[k] \in TaskRecords
             /\ task'[k].pc = "failed" \/ (task'[k] = task[k] /\ ~Active(k))
  <2>1. "failed" \in Steps
    BY DEF Steps
  <2>2. CASE Active(k)
    <3>1. Typed /\ task'[k] = [task[k] EXCEPT !.pc = "failed"]
      BY <1>1, <2>2 DEF ConsoleInv
    <3> QED BY <2>1, <3>1, TaskMoves
  <2>3. CASE ~Active(k)
    BY <1>1, <2>3 DEF ConsoleInv, Typed
  <2> QED BY <2>2, <2>3
<1>4. Typed'
  <2>1. crashes' \in 0..MaxCrashes
    BY <1>1, <1>2 DEF ConsoleInv, Typed
  <2>2. write' \in [Tasks -> Files \union {NoWrite}] /\ task' \in [Tasks -> TaskRecords]
    BY <1>1, <1>3
  <2> QED BY <1>1, <2>1, <2>2 DEF ConsoleInv, Typed
<1>5. EnrolmentIsNamed'
  BY <1>1, <1>3 DEF ConsoleInv, EnrolmentIsNamed, Enrolling, Active
<1>6. CopiesAreSound'
  BY <1>1 DEF ConsoleInv, CopiesAreSound, Quiet
<1> QED BY <1>4, <1>5, <1>6 DEF ConsoleInv

LEMMA RedeemKeeps ==
    ASSUME ConsoleInv, NEW k \in Tasks, NEW t \in Tickets, NEW u \in AnyUrl,
           RedeemEnrollmentTicket(k, t, u)
    PROVE  ConsoleInv'
<1> DEFINE s == SessionOf[t]
           relay == u = NoUrl
           c == [pc |-> "register", ticket |-> t, session |-> s, relay |-> relay,
                 url |-> IF relay THEN file.ticket[t].url ELSE u]
<1>1. /\ task' = [task EXCEPT ![k] = c] /\ UNCHANGED <<file, write, crashes>>
      /\ shown' = shown \union {<<s, IF relay THEN s ELSE u>>}
      /\ overlapped' \in BOOLEAN
  BY DEF RedeemEnrollmentTicket, Starts, ConsoleInv, Typed
<1>2. s \in Sessions
  BY ConstantsAssumption DEF ConstantsAssumption
<1>3. file.ticket[t] \in TicketRecords
  BY DEF ConsoleInv, Typed, Files
<1>4. c \in TaskRecords /\ c.pc = "register" /\ c.ticket = t /\ c.session = s
      /\ c.relay = relay
  BY <1>2, <1>3 DEF TaskRecords, TicketRecords, Steps, AnyUrl
<1>5. shown \subseteq shown' /\ shown' \subseteq Sessions \X AnyUrl
      /\ (relay => <<s, s>> \in shown')
  BY <1>1, <1>2 DEF ConsoleInv, Typed, AnyUrl
<1>6. file \in Files /\ (write' = [write EXCEPT ![k] = file] => Sound(file, shown'))
  BY <1>5, ShownGrows DEF ConsoleInv, Typed, CopiesAreSound
<1> HIDE DEF c, s, relay
<1> QED BY <1>1, <1>2, <1>4, <1>5, <1>6, StagedKeeps

LEMMA RegisterTicketKeeps ==
    ASSUME ConsoleInv, NEW k \in Tasks, RegisterTicket(k)
    PROVE  ConsoleInv'
<1> DEFINE c == task[k]
           pc == IF c.relay THEN "finish" ELSE "challenge"
           f == Registered(file, k, c.session, c.url, c.relay)
<1>1. /\ c.pc = "register" /\ UNCHANGED <<file, shown, overlapped, crashes>>
      /\ IF UrlFree(file, c.url, {})
         THEN write' = [write EXCEPT ![k] = f] /\ task' = [task EXCEPT ![k].pc = pc]
         ELSE task' = [task EXCEPT ![k].pc = "failed"] /\ UNCHANGED write
  BY DEF RegisterTicket, At, Stage, Goto
<1>2. /\ c \in TaskRecords /\ c.ticket \in Tickets /\ c.session \in Sessions
      /\ c.relay => <<c.session, c.session>> \in shown
  BY <1>1 DEF ConsoleInv, Typed, EnrolmentIsNamed, Enrolling
<1>3. c.url \in AnyUrl /\ c.relay \in BOOLEAN
  BY <1>2 DEF TaskRecords, AnyUrl
<1>4. file \in Files /\ Sound(file, shown) /\ shown \subseteq Sessions \X AnyUrl
      /\ overlapped \in BOOLEAN
  BY DEF ConsoleInv, Typed, CopiesAreSound
<1>5. CASE UrlFree(file, c.url, {})
  <2>1. f \in Files /\ Sound(f, shown)
    BY <1>2, <1>3, <1>4, <1>5, RegisteredCopy
  <2>2. pc \in Steps /\ pc # "prove"
    BY DEF Steps
  <2> DEFINE d == [task[k] EXCEPT !.pc = pc]
  <2> HIDE DEF pc
  <2>3. /\ d \in TaskRecords /\ d.pc = pc /\ d.ticket = c.ticket /\ d.session = c.session
        /\ d.relay = c.relay
    BY <2>2, TaskMoves DEF ConsoleInv
  <2>4. task' = [task EXCEPT ![k] = d] /\ write' = [write EXCEPT ![k] = f]
    BY <1>1, <1>5
  <2> HIDE DEF d, f
  <2> QED BY <1>1, <1>2, <1>4, <2>1, <2>2, <2>3, <2>4, StagedKeeps
<1>6. CASE ~UrlFree(file, c.url, {})
  <2> DEFINE d == [task[k] EXCEPT !.pc = "failed"]
  <2>1. d \in TaskRecords /\ d.pc = "failed"
    BY TaskMoves DEF ConsoleInv, Steps
  <2>2. task' = [task EXCEPT ![k] = d] /\ write' = write
    BY <1>1, <1>6
  <2>3. write' = [write EXCEPT ![k] = file] => Sound(file, shown')
    BY <1>1, <1>4
  <2> HIDE DEF d
  <2> QED BY <1>1, <1>4, <2>1, <2>2, <2>3, StagedKeeps
<1> QED BY <1>5, <1>6

LEMMA ChallengeTicketKeeps ==
    ASSUME ConsoleInv, NEW k \in Tasks, ChallengeTicket(k)
    PROVE  ConsoleInv'
<1> DEFINE c == task[k]
           f == WithChallenge(file, k, c.session)
<1>1. /\ c.pc = "challenge" /\ UNCHANGED <<file, shown, overlapped, crashes>>
      /\ \/ write' = [write EXCEPT ![k] = f] /\ task' = [task EXCEPT ![k].pc = "finish"]
         \/ task' = [task EXCEPT ![k].pc = "failed"] /\ UNCHANGED write
  BY DEF ChallengeTicket, At, Stage, Goto
<1>2. /\ c \in TaskRecords /\ c.ticket \in Tickets /\ c.session \in Sessions
      /\ c.relay => <<c.session, c.session>> \in shown
  BY <1>1 DEF ConsoleInv, Typed, EnrolmentIsNamed, Enrolling
<1>3. file \in Files /\ Sound(file, shown) /\ shown \subseteq Sessions \X AnyUrl
      /\ overlapped \in BOOLEAN
  BY DEF ConsoleInv, Typed, CopiesAreSound
<1>4. f \in Files /\ Sound(f, shown)
  BY <1>2, <1>3, ChallengedCopy
<1>5. ASSUME NEW pc \in {"finish", "failed"}, task' = [task EXCEPT ![k].pc = pc],
             write' = [write EXCEPT ![k] = f] \/ write' = write
      PROVE  ConsoleInv'
  <2> DEFINE d == [task[k] EXCEPT !.pc = pc]
  <2>1. pc \in Steps
    BY DEF Steps
  <2>2. /\ d \in TaskRecords /\ d.pc = pc /\ d.ticket = c.ticket /\ d.session = c.session
        /\ d.relay = c.relay
    BY <2>1, TaskMoves DEF ConsoleInv
  <2>3. task' = [task EXCEPT ![k] = d]
    BY <1>5
  <2> HIDE DEF d, f
  <2> QED BY <1>1, <1>2, <1>3, <1>4, <1>5, <2>2, <2>3, StagedKeeps
<1> QED BY <1>1, <1>5

LEMMA FinishTicketKeeps ==
    ASSUME ConsoleInv, NEW k \in Tasks, FinishTicket(k)
    PROVE  ConsoleInv'
<1> DEFINE c == task[k]
           pc == IF c.relay THEN "prove" ELSE "owner"
           f == [file EXCEPT !.ticket[c.ticket] = [status |-> "redeemed", url |-> c.url]]
<1>1. /\ c.pc = "finish" /\ UNCHANGED <<file, shown, overlapped, crashes>>
      /\ write' = [write EXCEPT ![k] = f] /\ task' = [task EXCEPT ![k].pc = pc]
  BY DEF FinishTicket, At, Stage, Goto
<1>2. /\ c \in TaskRecords /\ c.ticket \in Tickets /\ c.session \in Sessions
      /\ c.relay => <<c.session, c.session>> \in shown
  BY <1>1 DEF ConsoleInv, Typed, EnrolmentIsNamed, Enrolling
<1>3. file \in Files /\ Sound(file, shown) /\ shown \subseteq Sessions \X AnyUrl
      /\ overlapped \in BOOLEAN
  BY DEF ConsoleInv, Typed, CopiesAreSound
<1>4. f \in Files /\ f.agent = file.agent
  BY <1>2, <1>3 DEF Files, TicketRecords, TaskRecords
<1>5. Sound(f, shown)
  BY <1>3, <1>4, SameAgentsSound
<1>6. pc \in Steps /\ (pc = "prove" => c.relay)
  BY DEF Steps
<1> DEFINE d == [task[k] EXCEPT !.pc = pc]
<1> HIDE DEF pc, f
<1>7. /\ d \in TaskRecords /\ d.pc = pc /\ d.ticket = c.ticket /\ d.session = c.session
      /\ d.relay = c.relay
  BY <1>6, TaskMoves DEF ConsoleInv
<1>8. task' = [task EXCEPT ![k] = d]
  BY <1>1
<1> HIDE DEF d
<1> QED BY <1>1, <1>2, <1>3, <1>4, <1>5, <1>6, <1>7, <1>8, StagedKeeps

LEMMA ProveRelayKeeps ==
    ASSUME ConsoleInv, NEW k \in Tasks, ProveRelay(k)
    PROVE  ConsoleInv'
<1> DEFINE c == task[k]
           f == Verified(file, c.session, c.session)
<1>1. /\ c.pc = "prove" /\ UNCHANGED <<file, shown, overlapped, crashes>>
      /\ write' = [write EXCEPT ![k] = f] /\ task' = [task EXCEPT ![k].pc = "owner"]
  BY DEF ProveRelay, At, Stage, Goto
<1>2. /\ c \in TaskRecords /\ c.ticket \in Tickets /\ c.session \in Sessions
      /\ <<c.session, c.session>> \in shown
  BY <1>1 DEF ConsoleInv, Typed, EnrolmentIsNamed, Enrolling
<1>3. file \in Files /\ Sound(file, shown) /\ shown \subseteq Sessions \X AnyUrl
      /\ overlapped \in BOOLEAN
  BY DEF ConsoleInv, Typed, CopiesAreSound
<1>4. f \in Files /\ Sound(f, shown)
  BY <1>2, <1>3, VerifiedCopy DEF AnyUrl
<1> DEFINE d == [task[k] EXCEPT !.pc = "owner"]
<1>5. /\ d \in TaskRecords /\ d.pc = "owner" /\ d.ticket = c.ticket /\ d.session = c.session
  BY TaskMoves DEF ConsoleInv, Steps
<1>6. task' = [task EXCEPT ![k] = d]
  BY <1>1
<1> HIDE DEF d, f
<1> QED BY <1>1, <1>2, <1>3, <1>4, <1>5, <1>6, StagedKeeps

LEMMA NextKeeps ==
    ASSUME ConsoleInv, [ConsoleNext]_consoleVars
    PROVE  ConsoleInv'
<1>1. ASSUME NEW k \in Tasks, Enrolment(k) PROVE ConsoleInv'
  <2>1. ASSUME NEW t \in Tickets, NEW u \in AnyUrl, IssueEnrollmentTicket(k, t, u)
        PROVE  ConsoleInv'
    BY <2>1, IssuedTicketIsSound, EditKeeps
  <2>2. ASSUME NEW t \in Tickets, NEW u \in AnyUrl, RedeemEnrollmentTicket(k, t, u)
        PROVE  ConsoleInv'
    BY <2>2, RedeemKeeps
  <2> QED BY <1>1, <2>1, <2>2, RegisterTicketKeeps, ChallengeTicketKeeps, FinishTicketKeeps,
             ProveRelayKeeps DEF Enrolment, AnyUrl
<1>2. ASSUME NEW k \in Tasks, Ownership(k) \/ Profiles(k) \/ Workshops(k) PROVE ConsoleInv'
  BY <1>2, OwnershipIsSound, ProfilesAreSound, WorkshopsAreSound, EditKeeps
<1>3. CASE UNCHANGED consoleVars
  BY <1>3 DEF consoleVars, ConsoleInv, Typed, EnrolmentIsNamed, Enrolling, CopiesAreSound, Quiet
<1> QED BY <1>1, <1>2, <1>3, SaveKeeps, CrashKeeps DEF ConsoleNext

\* Whichever calls overlap, every copy of the file stays sound.
THEOREM ConsoleIsSound == ConsoleSpec => []ConsoleInv
<1>1. ConsoleInv /\ [ConsoleNext]_consoleVars => ConsoleInv'
  BY NextKeeps
<1> QED BY InitSound, <1>1, PTL DEF ConsoleSpec

\* The file, the copies and the calls keep their types (console-state.json).
THEOREM ConsoleTyped == ConsoleSpec => []ConsoleTypeOK
<1>1. ConsoleInv => ConsoleTypeOK
  BY DEF ConsoleInv, Typed, ConsoleTypeOK, AnyUrl
<1> QED BY <1>1, ConsoleIsSound, PTL

\* Whoever is on record as owner has shown control of the URL on record, whatever was saved
\* over it meanwhile (verifyOwnershipChallenge, verifyRelayEnrollmentOwnership).
THEOREM OwnersAreBacked == ConsoleSpec => []OwnershipIsBacked
<1>1. ConsoleInv => OwnershipIsBacked
  BY DEF ConsoleInv, CopiesAreSound, Sound, VerifiedIsShown, OwnershipIsBacked
<1> QED BY <1>1, ConsoleIsSound, PTL

\* No two agents have one URL, although each call checks the copy it loaded
\* (assertAgentProfileIsValid).
THEOREM UrlsStayUnique == ConsoleSpec => []UrlsAreUnique
<1>1. ConsoleInv => UrlsAreUnique
  BY DEF ConsoleInv, CopiesAreSound, Sound, UrlsTakenOnce, UrlsAreUnique
<1> QED BY <1>1, ConsoleIsSound, PTL

-----------------------------------------------------------------------------
(* Tickets, while calls do not overlap.                                    *)

\* A step of one call, begun or resumed while no other is under way.
StagedTurn(k, f, c) ==
    /\ Quiet(k)
    /\ write' = [write EXCEPT ![k] = f] \/ write' = write
    /\ task' = [task EXCEPT ![k] = c]
    /\ file' = file
    /\ ~overlapped' => ~overlapped /\ \A j \in Tasks : Active(j) => j = k
    /\ \A t \in Tickets :
           file.ticket[t].status = "redeemed" => f.ticket[t].status = "redeemed"
    /\ c.pc \in {"prove", "owner"} => /\ write' = [write EXCEPT ![k] = f]
                                     /\ f.ticket[c.ticket].status = "redeemed"
    /\ ~overlapped' /\ c.pc \in {"register", "challenge", "finish", "prove", "owner"} =>
           \A j \in Tasks \ {k} : task[j].pc = "owner" => task[j].ticket # c.ticket

LEMMA StagedTurns ==
    ASSUME Typed, TurnsInv, NEW k \in Tasks, NEW f \in Files, NEW c \in TaskRecords,
           StagedTurn(k, f, c)
    PROVE  TurnsInv'
<1> USE DEF StagedTurn
<1> SUFFICES ASSUME ~overlapped'
             PROVE  (OneAtATime /\ RedeemedStays /\ FinishedIsRedeemed /\ OwnerIsAlone)'
  BY DEF TurnsInv
<1>1. /\ ~overlapped /\ OneAtATime /\ RedeemedStays /\ FinishedIsRedeemed /\ OwnerIsAlone
      /\ \A j \in Tasks \ {k} : Quiet(j) /\ task[j].pc \in {"idle", "owner", "done", "failed"}
  BY DEF TurnsInv, Active
<1>2. /\ task'[k] = c
      /\ \A j \in Tasks \ {k} : task'[j] = task[j] /\ write'[j] = write[j]
  BY DEF Typed
<1>3. write'[k] = f \/ write'[k] = NoWrite
  BY DEF Typed, Quiet
<1>4. write' = [write EXCEPT ![k] = f] => write'[k] = f
  BY DEF Typed
<1>5. f # NoWrite
  BY ConstantsAssumption DEF ConstantsAssumption
<1>6. OneAtATime'
  BY <1>1, <1>2 DEF OneAtATime, Active, Quiet
<1>7. RedeemedStays'
  BY <1>1, <1>2, <1>3 DEF RedeemedStays, Quiet
<1>8. FinishedIsRedeemed'
  BY <1>1, <1>2, <1>4, <1>5 DEF FinishedIsRedeemed, Finished, Quiet
<1>9. OwnerIsAlone'
  BY <1>1, <1>2 DEF OwnerIsAlone, Enrolling
<1> QED BY <1>6, <1>7, <1>8, <1>9

\* A step of an enrolment that was under way.
LEMMA ResumedTurns ==
    ASSUME Typed, TurnsInv, NEW k \in Tasks, Quiet(k), Enrolling(k), NEW f \in Files,
           NEW pc \in Steps,
           write' = [write EXCEPT ![k] = f] \/ write' = write,
           task' = [task EXCEPT ![k].pc = pc], UNCHANGED <<file, overlapped>>,
           \A t \in Tickets :
               file.ticket[t].status = "redeemed" => f.ticket[t].status = "redeemed",
           pc \in {"prove", "owner"} => write' = [write EXCEPT ![k] = f]
                                      /\ f.ticket[task[k].ticket].status = "redeemed"
    PROVE  TurnsInv'
<1> DEFINE c == [task[k] EXCEPT !.pc = pc]
<1>1. c \in TaskRecords /\ c.pc = pc /\ c.ticket = task[k].ticket
  BY TaskMoves
<1>2. Active(k)
  BY DEF Active, Enrolling
<1>3. ~overlapped' => ~overlapped /\ \A j \in Tasks : Active(j) => j = k
  BY <1>2 DEF TurnsInv, OneAtATime
<1>4. ~overlapped' => \A j \in Tasks \ {k} : task[j].pc = "owner" => task[j].ticket # c.ticket
  BY <1>1 DEF TurnsInv, OwnerIsAlone
<1>5. task' = [task EXCEPT ![k] = c] /\ file' = file
  OBVIOUS
<1>6. c.pc \in {"prove", "owner"} => write' = [write EXCEPT ![k] = f]
                                    /\ f.ticket[c.ticket].status = "redeemed"
  BY <1>1
<1>7. ~overlapped' /\ c.pc \in {"register", "challenge", "finish", "prove", "owner"} =>
          \A j \in Tasks \ {k} : task[j].pc = "owner" => task[j].ticket # c.ticket
  BY <1>4
<1> HIDE DEF c
<1>8. StagedTurn(k, f, c)
  BY <1>3, <1>5, <1>6, <1>7 DEF StagedTurn
<1> QED BY <1>1, <1>8, StagedTurns

LEMMA EditTurns ==
    ASSUME ConsoleInv, TurnsInv, NEW k \in Tasks, SoundEdit(k)
    PROVE  TurnsInv'
<1>1. PICK f \in Files :
         /\ Edit(k, f)
         /\ \A t \in Tickets :
               file.ticket[t].status = "redeemed" => f.ticket[t].status = "redeemed"
  BY DEF SoundEdit
<1> DEFINE c == [task[k] EXCEPT !.pc = "done"]
<1>2. c \in TaskRecords /\ c.pc = "done"
  BY TaskMoves DEF ConsoleInv, Steps
<1>3. /\ write' = [write EXCEPT ![k] = f] /\ task' = [task EXCEPT ![k] = c]
      /\ file' = file /\ Quiet(k)
  BY <1>1 DEF Edit, Stage, Goto, Starts, At
<1>4. ~overlapped' => ~overlapped /\ \A j \in Tasks : Active(j) => j = k
  BY <1>1, Zenon DEF Edit, Starts
<1> HIDE DEF c
<1>5. StagedTurn(k, f, c)
  BY <1>1, <1>2, <1>3, <1>4 DEF StagedTurn
<1> QED BY <1>2, <1>5, StagedTurns DEF ConsoleInv

LEMMA RedeemTurns ==
    ASSUME ConsoleInv, TurnsInv, NEW k \in Tasks, NEW t \in Tickets, NEW u \in AnyUrl,
           RedeemEnrollmentTicket(k, t, u), ConsoleInv'
    PROVE  TurnsInv'
<1> DEFINE c == task'[k]
<1>1. /\ Quiet(k) /\ UNCHANGED <<file, write>> /\ file.ticket[t].status = "pending"
  BY DEF RedeemEnrollmentTicket, Starts, At
<1>2. task' = [task EXCEPT ![k] = c] /\ c.pc = "register" /\ c.ticket = t
  BY DEF RedeemEnrollmentTicket, ConsoleInv, Typed
<1>3. c \in TaskRecords /\ file \in Files
  BY DEF ConsoleInv, Typed
<1>4. ~overlapped' => ~overlapped /\ \A j \in Tasks : ~Active(j)
  BY Zenon DEF RedeemEnrollmentTicket, Starts
<1>5. ASSUME ~overlapped', NEW j \in Tasks \ {k}, task[j].pc = "owner"
      PROVE  task[j].ticket # t
  <2>1. Quiet(j) /\ ~overlapped
    BY <1>4, <1>5 DEF Active
  <2> QED BY <1>1, <1>5, <2>1 DEF TurnsInv, FinishedIsRedeemed, Finished
<1> HIDE DEF c
<1>6. StagedTurn(k, file, c)
  BY <1>1, <1>2, <1>4, <1>5 DEF StagedTurn
<1> QED BY <1>3, <1>6, StagedTurns DEF ConsoleInv

LEMMA EnrolmentTurns ==
    ASSUME ConsoleInv, TurnsInv, NEW k \in Tasks,
           RegisterTicket(k) \/ ChallengeTicket(k) \/ FinishTicket(k) \/ ProveRelay(k)
    PROVE  TurnsInv'
<1> DEFINE c == task[k]
<1>1. file \in Files /\ Sound(file, shown) /\ Typed
  BY DEF ConsoleInv, Typed, CopiesAreSound
<1>2. /\ Quiet(k) /\ Enrolling(k) /\ UNCHANGED <<file, shown, overlapped>>
  BY DEF RegisterTicket, ChallengeTicket, FinishTicket, ProveRelay, At, Enrolling
<1>3. /\ c \in TaskRecords /\ c.ticket \in Tickets /\ c.session \in Sessions
  BY <1>2 DEF ConsoleInv, Typed, EnrolmentIsNamed
<1>4. c.url \in AnyUrl /\ c.relay \in BOOLEAN
  BY <1>3 DEF TaskRecords, AnyUrl
<1>5. ASSUME NEW f \in Files, f.ticket = file.ticket, NEW pc \in {"challenge", "finish"},
             Stage(k, f), Goto(k, pc)
      PROVE  TurnsInv'
  <2>1. pc \in Steps /\ pc \notin {"prove", "owner"}
    BY DEF Steps
  <2>2. write' = [write EXCEPT ![k] = f] /\ task' = [task EXCEPT ![k].pc = pc]
    BY <1>5 DEF Stage, Goto
  <2> QED BY <1>1, <1>2, <1>5, <2>1, <2>2, ResumedTurns
<1>6. CASE Goto(k, "failed") /\ UNCHANGED write
  <2>1. "failed" \in Steps /\ write' = write /\ task' = [task EXCEPT ![k].pc = "failed"]
    BY <1>6 DEF Steps, Goto
  <2> QED BY <1>1, <1>2, <2>1, ResumedTurns
<1>7. CASE RegisterTicket(k)
  <2> DEFINE f == Registered(file, k, c.session, c.url, c.relay)
             pc == IF c.relay THEN "finish" ELSE "challenge"
  <2>1. CASE UrlFree(file, c.url, {})
    <3>1. f \in Files /\ f.ticket = file.ticket
      BY <1>1, <1>3, <1>4, <2>1, RegisteredCopy
    <3>2. Stage(k, f) /\ Goto(k, pc)
      BY <1>7, <2>1 DEF RegisterTicket
    <3>3. pc \in {"challenge", "finish"}
      OBVIOUS
    <3> HIDE DEF f, pc
    <3> QED BY <1>5, <3>1, <3>2, <3>3
  <2>2. CASE ~UrlFree(file, c.url, {})
    BY <1>6, <1>7, <2>2 DEF RegisterTicket
  <2> QED BY <2>1, <2>2
<1>8. CASE ChallengeTicket(k)
  <2> DEFINE f == WithChallenge(file, k, c.session)
  <2>1. f \in Files /\ f.ticket = file.ticket
    BY <1>1, <1>3, ChallengedCopy
  <2>2. \/ Stage(k, f) /\ Goto(k, "finish")
        \/ Goto(k, "failed") /\ UNCHANGED write
    BY <1>8, Zenon DEF ChallengeTicket
  <2> HIDE DEF f
  <2> QED BY <1>5, <1>6, <2>1, <2>2
<1>9. CASE FinishTicket(k)
  <2> DEFINE f == [file EXCEPT !.ticket[c.ticket] = [status |-> "redeemed", url |-> c.url]]
             pc == IF c.relay THEN "prove" ELSE "owner"
  <2>1. f \in Files
    BY <1>1, <1>3 DEF Files, TicketRecords, TaskRecords
  <2>2. /\ f.ticket[c.ticket].status = "redeemed"
        /\ \A t \in Tickets :
              file.ticket[t].status = "redeemed" => f.ticket[t].status = "redeemed"
    BY <1>1, <1>3 DEF Files
  <2>3. write' = [write EXCEPT ![k] = f] /\ task' = [task EXCEPT ![k].pc = pc]
    BY <1>9 DEF FinishTicket, Stage, Goto
  <2>4. pc \in Steps
    BY DEF Steps
  <2> HIDE DEF f, pc
  <2> QED BY <1>1, <1>2, <2>1, <2>2, <2>3, <2>4, ResumedTurns
<1>10. CASE ProveRelay(k)
  <2> DEFINE f == Verified(file, c.session, c.session)
  <2>1. /\ c.pc = "prove" /\ write' = [write EXCEPT ![k] = f]
        /\ task' = [task EXCEPT ![k].pc = "owner"]
    BY <1>10 DEF ProveRelay, At, Stage, Goto
  <2>2. <<c.session, c.session>> \in shown
    BY <2>1 DEF ConsoleInv, EnrolmentIsNamed, Enrolling
  <2>3. f \in Files /\ f.ticket = file.ticket
    BY <1>1, <1>3, <2>2, VerifiedCopy DEF AnyUrl
  <2>4. CASE overlapped'
    BY <2>4 DEF TurnsInv
  <2>5. CASE ~overlapped'
    <3>1. file.ticket[c.ticket].status = "redeemed"
      BY <1>2, <1>3, <2>1, <2>5 DEF TurnsInv, FinishedIsRedeemed, Finished
    <3>2. "owner" \in Steps
      BY DEF Steps
    <3> HIDE DEF f
    <3> QED BY <1>1, <1>2, <2>1, <2>3, <3>1, <3>2, ResumedTurns
  <2> QED BY <2>4, <2>5
<1> QED BY <1>7, <1>8, <1>9, <1>10

LEMMA SaveTurns ==
    ASSUME Typed, TurnsInv, NEW k \in Tasks, Save(k)
    PROVE  TurnsInv'
<1> SUFFICES ASSUME ~overlapped'
             PROVE  (OneAtATime /\ RedeemedStays /\ FinishedIsRedeemed /\ OwnerIsAlone)'
  BY DEF TurnsInv
<1>1. /\ ~Quiet(k) /\ file' = write[k] /\ write' = [write EXCEPT ![k] = NoWrite]
      /\ UNCHANGED <<task, overlapped>>
  BY DEF Save
<1>2. OneAtATime /\ RedeemedStays /\ FinishedIsRedeemed /\ OwnerIsAlone
  BY <1>1 DEF TurnsInv
<1>3. Active(k) /\ \A j \in Tasks \ {k} : ~Active(j) /\ Quiet(j)
  BY <1>1, <1>2 DEF OneAtATime, Active
<1>4. write'[k] = NoWrite /\ \A j \in Tasks \ {k} : write'[j] = write[j]
  BY <1>1 DEF Typed
<1>5. OneAtATime'
  BY <1>1, <1>3, <1>4 DEF OneAtATime, Active, Quiet
<1>6. RedeemedStays'
  BY <1>3, <1>4 DEF RedeemedStays, Quiet
<1>7. FinishedIsRedeemed'
  BY <1>1, <1>2, <1>3, <1>4 DEF FinishedIsRedeemed, Finished, RedeemedStays, Quiet
<1>8. OwnerIsAlone'
  BY <1>1, <1>2 DEF OwnerIsAlone, Enrolling
<1> QED BY <1>5, <1>6, <1>7, <1>8

LEMMA CrashTurns ==
    ASSUME Typed, TurnsInv, Crash
    PROVE  TurnsInv'
<1> SUFFICES ASSUME ~overlapped'
             PROVE  (OneAtATime /\ RedeemedStays /\ FinishedIsRedeemed /\ OwnerIsAlone)'
  BY DEF TurnsInv
<1>1. /\ \A k \in Tasks : write'[k] = NoWrite
      /\ UNCHANGED <<file, overlapped>>
      /\ \A k \in Tasks :
            IF Active(k) THEN task'[k] = [task[k] EXCEPT !.pc = "failed"] ELSE task'[k] = task[k]
  BY DEF Crash
<1>2. OneAtATime /\ RedeemedStays /\ FinishedIsRedeemed /\ OwnerIsAlone
  BY <1>1 DEF TurnsInv
<1>3. "failed" \in Steps
  BY DEF Steps
<1>4. ASSUME NEW k \in Tasks
      PROVE  task'[k].pc = "failed" \/ (task'[k] = task[k] /\ ~Active(k))
  <2>1. CASE Active(k)
    <3>1. task'[k] = [task[k] EXCEPT !.pc = "failed"]
      BY <1>1, <2>1
    <3> QED BY <1>3, <3>1, TaskMoves
  <2>2. CASE ~Active(k)
    BY <1>1, <2>2
  <2> QED BY <2>1, <2>2
<1>5. OneAtATime'
  BY <1>1, <1>4 DEF OneAtATime, Active, Quiet
<1>6. RedeemedStays'
  BY <1>1 DEF RedeemedStays, Quiet
<1>7. FinishedIsRedeemed'
  BY <1>1, <1>2, <1>4 DEF FinishedIsRedeemed, Finished, Active, Quiet
<1>8. OwnerIsAlone'
  BY <1>2, <1>4 DEF OwnerIsAlone, Enrolling
<1> QED BY <1>5, <1>6, <1>7, <1>8

LEMMA NextTurns ==
    ASSUME ConsoleInv, TurnsInv, [ConsoleNext]_consoleVars
    PROVE  TurnsInv'
<1>1. ASSUME NEW k \in Tasks, Enrolment(k) PROVE TurnsInv'
  <2>1. ASSUME NEW t \in Tickets, NEW u \in AnyUrl, IssueEnrollmentTicket(k, t, u)
        PROVE  TurnsInv'
    BY <2>1, IssuedTicketIsSound, EditTurns
  <2>2. ASSUME NEW t \in Tickets, NEW u \in AnyUrl, RedeemEnrollmentTicket(k, t, u)
        PROVE  TurnsInv'
    BY <2>2, RedeemKeeps, RedeemTurns
  <2> QED BY <1>1, <2>1, <2>2, EnrolmentTurns DEF Enrolment, AnyUrl
<1>2. ASSUME NEW k \in Tasks, Ownership(k) \/ Profiles(k) \/ Workshops(k) PROVE TurnsInv'
  BY <1>2, OwnershipIsSound, ProfilesAreSound, WorkshopsAreSound, EditTurns
<1>3. CASE UNCHANGED consoleVars
  BY <1>3 DEF consoleVars, TurnsInv, OneAtATime, RedeemedStays, FinishedIsRedeemed, OwnerIsAlone,
              Finished, Enrolling, Active, Quiet
<1> QED BY <1>1, <1>2, <1>3, SaveTurns, CrashTurns DEF ConsoleNext, ConsoleInv

\* As long as calls do not overlap, a ticket makes one owner, also when a restart cuts its
\* redemption off (redeemEnrollmentTicket).
THEOREM TicketsMakeOneOwner == ConsoleSpec => []TicketMakesOneOwner
<1>1. ConsoleInit => TurnsInv
  BY DEF ConsoleInit, NewTask, TurnsInv, OneAtATime, RedeemedStays, FinishedIsRedeemed,
         OwnerIsAlone, Finished, Enrolling, Active, Quiet
<1>2. ConsoleInv /\ TurnsInv /\ [ConsoleNext]_consoleVars => TurnsInv'
  BY NextTurns
<1>3. ConsoleInv /\ TurnsInv => TicketMakesOneOwner
  <2> SUFFICES ASSUME ConsoleInv, TurnsInv, ~overlapped, NEW t \in Tickets
               PROVE  Cardinality(Owners(t)) <= 1
    BY DEF TicketMakesOneOwner
  <2>1. \A j, k \in Owners(t) : j = k
    BY DEF TurnsInv, OwnerIsAlone, Owners, At
  <2>2. CASE Owners(t) = {}
    BY <2>2, FS_EmptySet
  <2>3. ASSUME NEW k \in Owners(t) PROVE Cardinality(Owners(t)) <= 1
    <3>1. Owners(t) = {k}
      BY <2>1, <2>3
    <3> QED BY <3>1, FS_Singleton
  <2> QED BY <2>2, <2>3
<1> QED BY <1>1, <1>2, <1>3, ConsoleIsSound, PTL DEF ConsoleSpec
=============================================================================
