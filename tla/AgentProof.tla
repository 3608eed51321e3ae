------------------------------- MODULE AgentProof -------------------------------
(* The proof surface: the service builds a discovery document and a bundle of        *)
(* claims about one of its agents, and somebody verifies the two: the service         *)
(* itself, a client that fetches both from the service while its files change, or     *)
(* whoever kept a bundle. (interop.ts, verify-agent-proof.ts, server.ts)              *)
(*                                                                                   *)
(* A digest is the value it is taken of, so two digests are equal exactly when their  *)
(* values are. Times are positions in the list of events. How the files come to       *)
(* change is modelled elsewhere (ConsoleState, LiveFlow, AnchorQueue): here they do.  *)
EXTENDS Naturals, Sequences, FiniteSets, FiniteSetsExt

CONSTANTS
    Calls,          \* verifications, and fetches of a bundle to keep
    Asks,           \* what a call asks: [kind, session, turn, plan]
    Sessions,       \* sessions of agents of the service
    Turns,          \* turns of sessions
    Modes,          \* trust modes somebody sets
    ServerProver,   \* CLAWZ_SERVER_PROVER_URL is set
    RollupProver,   \* CLAWZ_SOVEREIGN_ROLLUP_ENABLED is set
    MaxEdits,       \* changes of the service's files
    Nothing, Altered

VARIABLES
    file,       \* the console state: focused session, mode, ownership, preferences, exceptions
    events,     \* the event list
    place,      \* the deployment, and whether a batch of facts is anchored on it
    setting,    \* a trust mode that is saved and whose event is not appended yet
    call,       \* per call: what it asks, whether no file changed since, the report it got
    snap,       \* per call and document: what the service has loaded for it
    held,       \* per call: what has been true of the files since it began
    saved,      \* per call: the bundle it kept, and what happened to it
    edits

proofVars == <<file, events, place, setting, call, snap, held, saved, edits>>

Documents == {"discovery", "proof"}
Locations == {"client", "server", "sovereign-rollup"}
Kernels == {"registerAgent", "createSession", "requestApproval", "grantDisclosure",
            "reserveBudget", "settleTurn", "finalizeTurn"}

Presets ==
    [fast |-> [level |-> "signed", preset |-> "convenient", visibility |-> "user-visible"],
     private |-> [level |-> "rooted", preset |-> "private", visibility |-> "operator-blind"],
     verified |-> [level |-> "proof-backed", preset |-> "verifiable-minimal",
                   visibility |-> "operator-blind"],
     team |-> [level |-> "proof-backed", preset |-> "workspace-private",
               visibility |-> "team-sealed"]]

Digest(value) == <<"digest", value>>
Claim(body) == [body |-> body, digest |-> Digest(body)]

Latest(list, Test(_)) ==
    LET found == {i \in DOMAIN list : Test(list[i])}
    IN  IF found = {} THEN Nothing ELSE list[Max(found)]

-----------------------------------------------------------------------------
(* What the service knows of an agent.                                              *)

\* The session's last checkpoint names its mode; without one the focused mode is its own.
ModeOf(f, list, s) ==
    LET checkpoint == Latest(list, LAMBDA e : e.session = s /\ e.mode # Nothing)
    IN  IF checkpoint = Nothing THEN f.mode ELSE checkpoint.mode

\* The session a request is about: the one it names, or that of the latest turn, or
\* the one that was last heard of.
Focus(f, list, asked) ==
    LET turn == Latest(list, LAMBDA e : e.turn # Nothing)
    IN  IF asked # Nothing THEN asked
        ELSE IF turn # Nothing THEN turn.session
        ELSE IF list # <<>> THEN list[Len(list)].session
        ELSE f.session

Console(f, list, p, asked) ==
    LET s == Focus(f, list, asked)
    IN  [session |-> s, mode |-> ModeOf(f, list, s), owned |-> f.owned[s],
         prefers |-> f.prefers[s], exceptions |-> {x \in f.exceptions : x.session = s},
         network |-> p.network, anchored |-> p.anchored]

Available(mode, location) ==
    CASE location = "client" -> TRUE
      [] location = "server" -> ServerProver
      [] location = "sovereign-rollup" -> RollupProver \/ mode = "team"

\* Where the agent proves: where its owner prefers to, if that can be had.
Selected(con) ==
    LET wanted == IF con.prefers # Nothing THEN con.prefers ELSE "client"
    IN  IF Available(con.mode, wanted) THEN wanted ELSE "client"

PrivacyPolicy(con) ==
    [selected |-> Selected(con),
     options |-> [l \in Locations |-> [default |-> l = Selected(con),
                                       available |-> Available(con.mode, l)]]]

Manifest(con) ==
    [capability |-> "agent-proof", spendModel |-> "per-artifact",
     providerClass |-> "sealed-local", disclosure |-> "self-only",
     level |-> Presets[con.mode].level]

Discovery(con) ==
    [session |-> con.session, network |-> con.network, policy |-> PrivacyPolicy(con),
     capability |-> Manifest(con).capability, manifest |-> Digest(Manifest(con))]

-----------------------------------------------------------------------------
(* The bundle.                                                                      *)

TurnFor(list, asked) ==
    LET latest == Latest(list, LAMBDA e : e.turn # Nothing)
    IN  IF asked # Nothing THEN asked
        ELSE IF latest # Nothing THEN latest.turn ELSE Nothing

ActiveExceptions(con, turn) ==
    {x \in con.exceptions : (turn # Nothing => x.turn = turn) /\ x.status # "expired"}

\* The one step of every plan that leaves the machine is attested.
Hosts(con) == {"docs"}

OriginProof(con, list, turn, host) ==
    [id |-> <<con.session, turn, host, Len(list)>>, host |-> host, verifier |-> "tlsn",
     key |-> <<"key", host>>, mode |-> con.mode]

OriginProofs(con, list, turn) == {OriginProof(con, list, turn, h) : h \in Hosts(con)}

\* The origin cited as it was before the turn was known.
ReceiptUnbound(con, turn, origin) ==
    [turn |-> turn, manifest |-> Digest(Manifest(con)), mode |-> con.mode,
     selected |-> Selected(con), origin |-> [origin.id EXCEPT ![2] = Nothing],
     originDigest |-> Digest(origin), originKey |-> origin.key]

Receipt(con, turn, origin) ==
    [turn |-> turn, manifest |-> Digest(Manifest(con)), mode |-> con.mode,
     selected |-> Selected(con), origin |-> origin.id, originDigest |-> Digest(origin),
     originKey |-> origin.key]

Representation(con) == [session |-> con.session, manifest |-> Claim(Manifest(con))]

Ownership(con) == [status |-> IF con.owned THEN "verified" ELSE "unverified"]

Authority(con, turn) ==
    [session |-> con.session, turn |-> turn, mode |-> con.mode,
     level |-> Presets[con.mode].level, hosts |-> Hosts(con),
     preset |-> Presets[con.mode].preset, visibility |-> Presets[con.mode].visibility,
     exceptions |-> ActiveExceptions(con, turn)]

Payment(con, list, turn) ==
    [spendModel |-> Manifest(con).spendModel,
     credit |-> Latest(list, LAMBDA e : e.type = "credit"),
     settled |-> Latest(list, LAMBDA e : e.type = "settled" /\ (turn # Nothing => e.turn = turn))]

Privacy(con) ==
    [preset |-> Presets[con.mode].preset, level |-> Presets[con.mode].level,
     visibility |-> Presets[con.mode].visibility, providerClass |-> Manifest(con).providerClass,
     disclosure |-> Manifest(con).disclosure, policy |-> PrivacyPolicy(con)]

Social(con) == [batches |-> IF con.anchored THEN {[contract |-> "contract", tx |-> "tx"]} ELSE {}]

Evidence(kind, id, object) == [kind |-> kind, id |-> id, object |-> object, digest |-> Digest(object)]

EvidenceOf(con, list, turn, receipt, origins) ==
    {Evidence("manifest", "manifest", Manifest(con)), Evidence("console-state", con.session, con),
     Evidence("deployment", "network", con.network), Evidence("receipt", "receipt", receipt)}
    \cup {Evidence("origin-proof", o.id, o) : o \in origins}
    \cup {Evidence("privacy-exception", x.id, x) : x \in ActiveExceptions(con, turn)}
    \cup {Evidence("event", i, list[i]) : i \in DOMAIN list}

\* The kernels' paths, the latest batch anchored on the chain, and who attests origins.
TrustAnchors(social, origins) ==
    {[type |-> "zeko-kernel-path", material |-> Kernels]}
    \cup {[type |-> "zeko-kernel-path", material |-> {b.contract, b.tx}] : b \in social.batches}
    \cup {[type |-> "zktls-verifier", material |-> {o.verifier, o.key}] : o \in origins}

Contents(con, list, asked) ==
    LET turn == TurnFor(list, asked)
        origins == OriginProofs(con, list, turn)
        receipt == Receipt(con, turn, CHOOSE o \in origins : TRUE)
    IN  [network |-> con.network, discovery |-> con.session,
         representation |-> Claim(Representation(con)), ownership |-> Claim(Ownership(con)),
         authority |-> Claim(Authority(con, turn)), payment |-> Claim(Payment(con, list, turn)),
         privacy |-> Claim(Privacy(con)), social |-> Claim(Social(con)), origins |-> origins,
         receipt |-> receipt, evidence |-> EvidenceOf(con, list, turn, receipt, origins),
         anchors |-> TrustAnchors(Social(con), origins)]

Bundle(con, list, asked) ==
    [contents |-> Contents(con, list, asked), digest |-> Digest(Contents(con, list, asked))]

-----------------------------------------------------------------------------
(* The verifier.                                                                    *)

DigestsHold(claims) == \A c \in claims : c.digest = Digest(c.body)

\* The social claim is not among the claims whose digest is taken again.
ClaimsHold(b) ==
    DigestsHold({b.representation, b.representation.body.manifest, b.ownership, b.authority,
                 b.payment, b.privacy})

EvidenceHolds(b) == \A e \in b.evidence : e.digest = Digest(e.object)

OriginsHold(b) ==
    LET shown == {e \in b.evidence : e.kind = "origin-proof"}
        cited == {o \in b.origins : o.id = b.receipt.origin}
    IN  /\ Cardinality(shown) = Cardinality(b.origins)
        /\ \A o \in b.origins :
            /\ \E e \in shown : e.id = o.id /\ e.object = o
            /\ o.host \in b.authority.body.hosts
            /\ \E a \in b.anchors : a.type = "zktls-verifier" /\ {o.verifier, o.key} \subseteq a.material
        /\ \E o \in cited : b.receipt.originDigest = Digest(o) /\ b.receipt.originKey = o.key

ClaimsAgree(b) ==
    LET manifest == b.representation.body.manifest.body
        privacy == b.privacy.body
        authority == b.authority.body
    IN  /\ manifest.spendModel = b.payment.body.spendModel
        /\ manifest.providerClass = privacy.providerClass /\ manifest.disclosure = privacy.disclosure
        /\ authority.preset = privacy.preset /\ authority.level = privacy.level
        /\ authority.visibility = privacy.visibility
        /\ {l \in DOMAIN privacy.policy.options : privacy.policy.options[l].default}
              = {privacy.policy.selected}

AgreesWithDiscovery(b, d) ==
    d # Nothing =>
        /\ d.session = b.discovery /\ d.session = b.authority.body.session
        /\ d.network = b.network /\ d.policy = b.privacy.body.policy
        /\ d.capability = b.representation.body.manifest.body.capability

\* Every path of the anchors is expected in the plan, the batch's contract too.
PlanCovers(b, plan) ==
    plan # Nothing =>
        UNION {a.material : a \in {x \in b.anchors : x.type = "zeko-kernel-path"}} \subseteq plan

Failed(bundle, d, plan) ==
    LET b == bundle.contents
        checks == [bundle |-> bundle.digest = Digest(b), claims |-> ClaimsHold(b),
                   origins |-> OriginsHold(b), evidence |-> EvidenceHolds(b),
                   claimsAgree |-> ClaimsAgree(b), discovery |-> AgreesWithDiscovery(b, d),
                   plan |-> PlanCovers(b, plan)]
    IN  {n \in DOMAIN checks : ~checks[n]}

\* What the answer says of the agent.
Summary(b) ==
    [session |-> b.authority.body.session, turn |-> b.authority.body.turn,
     status |-> b.ownership.body.status, mode |-> b.authority.body.mode,
     exceptions |-> b.authority.body.exceptions, network |-> b.network,
     selected |-> b.privacy.body.policy.selected]

-----------------------------------------------------------------------------
Blank == [file |-> Nothing, seen |-> Nothing, place |-> Nothing, later |-> Nothing, view |-> Nothing]
Idle == [asks |-> Nothing, calm |-> TRUE, report |-> Nothing]

\* The modes a session may be said to have: its last one, or the focused one.
ModesOf(s) ==
    LET own == {i \in DOMAIN events : events[i].session = s /\ events[i].mode # Nothing}
    IN  {m \in Modes : IF own = {} THEN m = file.mode ELSE m = events[Max(own)].mode}

\* What is true of the files now.
Facts ==
    {<<"status", s, IF file.owned[s] THEN "verified" ELSE "unverified">> : s \in Sessions}
    \cup UNION {{<<"mode", s, m>> : m \in ModesOf(s)} : s \in Sessions}
    \cup {<<"exceptions", s, {x \in file.exceptions : x.session = s}>> : s \in Sessions}
    \cup {<<"network", place.network>>}

Running == {c \in Calls : call[c].asks # Nothing /\ call[c].report = Nothing}

ProofInit ==
    /\ \E s \in Sessions, m \in Modes :
        file = [session |-> s, mode |-> m, owned |-> [t \in Sessions |-> FALSE],
                prefers |-> [t \in Sessions |-> Nothing], exceptions |-> {}]
    /\ events = <<>> /\ place = [network |-> "planned", anchored |-> FALSE]
    /\ setting = Nothing
    /\ call = [c \in Calls |-> Idle]
    /\ snap = [c \in Calls |-> [d \in Documents |-> Blank]]
    /\ held = [c \in Calls |-> {}]
    /\ saved = [c \in Calls |-> Nothing] /\ edits = 0

-----------------------------------------------------------------------------
(* The service's files change.                                                      *)

Remember ==
    /\ held' = [c \in Calls |-> IF c \in Running THEN held[c] \cup Facts' ELSE held[c]]
    /\ call' = [c \in Calls |-> IF c \in Running THEN [call[c] EXCEPT !.calm = FALSE] ELSE call[c]]

Edited(changed) ==
    /\ edits < MaxEdits /\ edits' = edits + 1 /\ changed
    /\ Remember /\ UNCHANGED <<snap, saved>>

\* setTrustMode saves the state, with the session focused, before it appends the event.
SaveMode(s, m) ==
    /\ setting = Nothing
    /\ Edited(/\ file' = [file EXCEPT !.session = s, !.mode = m]
              /\ setting' = [session |-> s, mode |-> m] /\ UNCHANGED <<events, place>>)

AppendMode ==
    /\ setting # Nothing /\ setting' = Nothing
    /\ events' = Append(events, [type |-> "mode", session |-> setting.session, turn |-> Nothing,
                                 mode |-> setting.mode])
    /\ UNCHANGED <<file, place, snap, saved, edits>> /\ Remember

ChangeAgent(s) ==
    \E f \in {[file EXCEPT !.owned[s] = ~@], [file EXCEPT !.prefers[s] = "sovereign-rollup"]} :
        Edited(f # file /\ file' = f /\ UNCHANGED <<events, place, setting>>)

\* An exception is asked for a turn, or its time is over.
ChangeExceptions(s, t) ==
    LET asked == [id |-> <<s, t>>, session |-> s, turn |-> t, status |-> "pending"]
        over == [asked EXCEPT !.status = "expired"]
        next == IF asked \in file.exceptions THEN over ELSE asked
    IN  Edited(/\ over \notin file.exceptions
               /\ file' = [file EXCEPT !.exceptions = {x \in @ : x.id # next.id} \cup {next}]
               /\ UNCHANGED <<events, place, setting>>)

AppendEvent(s, t) ==
    \E type \in {"turn", "settled", "credit"} :
        Edited(/\ events' = Append(events, [type |-> type, session |-> s, turn |-> t, mode |-> Nothing])
               /\ UNCHANGED <<file, place, setting>>)

ChangePlace ==
    \E p \in {[place EXCEPT !.network = "live"], [place EXCEPT !.anchored = TRUE]} :
        Edited(p # place /\ place' = p /\ UNCHANGED <<file, events, setting>>)

-----------------------------------------------------------------------------
(* A request.                                                                       *)

Needs(kind) ==
    CASE kind \in {"live", "sdk", "cli"} -> Documents
      [] kind \in {"self", "kept"} -> {"proof"}

\* The command line fetches the discovery document of whatever is focused.
SessionAsked(c, d) ==
    IF call[c].asks.kind = "cli" /\ d = "discovery" THEN Nothing ELSE call[c].asks.session

Loaded(c, d) ==
    /\ snap[c][d].place # Nothing
    /\ d = "proof" => snap[c][d].later # Nothing /\ snap[c][d].view # Nothing

MayLoad(c, d) ==
    /\ c \in Running /\ d \in Needs(call[c].asks.kind)
    /\ call[c].asks.kind \in {"live", "cli"} /\ d = "proof" => Loaded(c, "discovery")

ConsoleOf(c, d) == Console(snap[c][d].file, snap[c][d].seen, snap[c][d].place, SessionAsked(c, d))

Ask(c) ==
    \E a \in Asks :
        /\ call[c] = Idle
        /\ call' = [call EXCEPT ![c].asks = a]
        /\ held' = [held EXCEPT ![c] = Facts]
        /\ UNCHANGED <<file, events, place, setting, snap, saved, edits>>

\* getConsoleState: the state, then the events, then the deployment and the anchors.
Load(c, d, field, value) ==
    /\ MayLoad(c, d) /\ snap[c][d][field] = Nothing
    /\ snap' = [snap EXCEPT ![c][d][field] = value]
    /\ UNCHANGED <<file, events, place, setting, call, held, saved, edits>>

LoadState(c, d) == Load(c, d, "file", file)
LoadEvents(c, d) == snap[c][d].file # Nothing /\ Load(c, d, "seen", events)
LoadPlace(c, d) == snap[c][d].seen # Nothing /\ Load(c, d, "place", place)

\* The events again, and the session's turns.
LoadLater(c) ==
    snap[c]["proof"].place # Nothing
    /\ Load(c, "proof", "later",
            SelectSeq(events, LAMBDA e : e.session = ConsoleOf(c, "proof").session))

LoadView(c) ==
    snap[c]["proof"].place # Nothing
    /\ Load(c, "proof", "view",
            {e.turn : e \in {events[i] : i \in {j \in DOMAIN events :
                                events[j].session = ConsoleOf(c, "proof").session}}})

PlanOf(c) == IF call[c].asks.plan THEN Kernels ELSE Nothing

Report(c, bundle, d, altered) ==
    call' = [call EXCEPT ![c].report =
        [failed |-> Failed(bundle, d, PlanOf(c)), discovery |-> d,
         question |-> Summary(bundle.contents), altered |-> altered]]

\* The snapshots are not needed any more.
Forget(c) == snap' = [snap EXCEPT ![c] = [d \in Documents |-> Blank]] /\ held' = held

\* A turn the session does not have is refused.
Refuse(c) ==
    /\ c \in Running /\ Loaded(c, "proof")
    /\ call[c].asks.turn \notin snap[c]["proof"].view \cup {Nothing}
    /\ call' = [call EXCEPT ![c].report = [failed |-> {"turn"}, discovery |-> Nothing,
                                            question |-> Nothing, altered |-> Nothing]]
    /\ Forget(c)
    /\ UNCHANGED <<file, events, place, setting, saved, edits>>

\* Verification by the service of itself: both documents from one snapshot.
Answer(c) ==
    LET kind == call[c].asks.kind
        con == ConsoleOf(c, "proof")
        bundle == Bundle(con, snap[c]["proof"].later, call[c].asks.turn)
        discovery == IF kind = "self" THEN Discovery(con) ELSE Discovery(ConsoleOf(c, "discovery"))
    IN  /\ c \in Running
        /\ \A d \in Needs(kind) : Loaded(c, d)
        /\ call[c].asks.turn \in snap[c]["proof"].view \cup {Nothing}
        /\ IF kind = "kept"
           THEN saved' = [saved EXCEPT ![c] = [bundle |-> bundle, altered |-> Nothing]] /\ UNCHANGED call
           ELSE Report(c, bundle, discovery, Nothing) /\ UNCHANGED saved
        /\ Forget(c) /\ UNCHANGED <<file, events, place, setting, edits>>

\* A kept bundle is verified later, without a discovery document.
AnswerKept(c) ==
    /\ c \in Running /\ saved[c] # Nothing
    /\ Report(c, saved[c].bundle, Nothing, saved[c].altered)
    /\ saved' = [saved EXCEPT ![c] = Nothing]
    /\ UNCHANGED <<file, events, place, setting, snap, held, edits>>

Flip(status) == IF status = "verified" THEN "unverified" ELSE "verified"

\* Ways one part of a kept bundle may no longer be what the service answered.
Alterations(b) ==
    [ownership |-> [b EXCEPT !.ownership.body.status = Flip(@)],
     authority |-> [b EXCEPT !.authority.body.exceptions = {}, !.authority.body.turn = Altered],
     privacy |-> [b EXCEPT !.privacy.body.policy.selected = "server"],
     social |-> [b EXCEPT !.social.body.batches = {Altered}],
     receipt |-> [b EXCEPT !.receipt.mode = Altered],
     evidence |-> [b EXCEPT !.evidence = {[e EXCEPT !.object = Altered] : e \in @}]]

\* The part changes, and the digest of the whole is taken again or not.
Alter(c) ==
    \E part \in {"ownership", "authority", "privacy", "social", "receipt", "evidence"},
       again \in BOOLEAN :
        LET b == Alterations(saved[c].bundle.contents)[part]
        IN  /\ saved[c] # Nothing /\ saved[c].altered = Nothing
            /\ saved' = [saved EXCEPT ![c] =
                   [bundle |-> [contents |-> b, digest |-> IF again THEN Digest(b) ELSE @.bundle.digest],
                    altered |-> [part |-> part, again |-> again]]]
            /\ UNCHANGED <<file, events, place, setting, call, snap, held, edits>>

-----------------------------------------------------------------------------
Service(c) ==
    \/ \E d \in Documents : LoadState(c, d) \/ LoadEvents(c, d) \/ LoadPlace(c, d)
    \/ LoadLater(c) \/ LoadView(c) \/ Refuse(c) \/ Answer(c) \/ AnswerKept(c)

Change ==
    \/ \E s \in Sessions, m \in Modes : SaveMode(s, m)
    \/ AppendMode
    \/ \E s \in Sessions : ChangeAgent(s)
    \/ \E s \in Sessions, t \in Turns : ChangeExceptions(s, t) \/ AppendEvent(s, t)
    \/ ChangePlace

ProofNext == Change \/ \E c \in Calls : Ask(c) \/ Service(c) \/ Alter(c)

ProofSpec == ProofInit /\ [][ProofNext]_proofVars

-----------------------------------------------------------------------------
ProofTypeOK ==
    /\ file.session \in Sessions /\ file.mode \in Modes
    /\ file.owned \in [Sessions -> BOOLEAN]
    /\ place \in [network : {"planned", "live"}, anchored : BOOLEAN]
    /\ \A c \in Calls : call[c].asks \in Asks \cup {Nothing}
    /\ edits \in 0..MaxEdits

\* The service accepts what it serves: with no plan to cover, its own verification finds
\* no fault, whatever changes while it loads its files, and a client's finds one only in
\* the discovery document, and only if a file changed since it asked.
\* (buildAgentProofBundle, verifyAgentProofBundle)
HonestIsAccepted ==
    \A c \in Calls :
        LET asks == call[c].asks
            r == call[c].report
        IN  r # Nothing /\ asks.kind \in {"self", "live", "sdk"} /\ ~asks.plan /\ "turn" \notin r.failed =>
                /\ r.failed \subseteq {"discovery"}
                /\ asks.kind = "self" \/ call[c].calm => r.failed = {}

\* What a passing verification answers was so: the document and the bundle speak of one
\* session, network and policy, and the owner's status, the mode, the exceptions and the
\* network were each true of the files at some moment since the call began, though the
\* files changed meanwhile. (buildInteropSnapshotFromQuery, summarizeAgentProofBundle)
VerifiedIsTrue ==
    \A c \in Calls :
        LET r == call[c].report
            q == r.question
        IN  r # Nothing /\ r.failed = {} /\ r.discovery # Nothing =>
                /\ r.discovery.session = q.session /\ r.discovery.network = q.network
                /\ r.discovery.policy.selected = q.selected
                /\ {<<"status", q.session, q.status>>, <<"mode", q.session, q.mode>>,
                    <<"network", q.network>>} \subseteq held[c]
                /\ \E f \in held[c] :
                    /\ f[1] = "exceptions" /\ f[2] = q.session
                    /\ q.exceptions = {x \in f[3] : (q.turn # Nothing => x.turn = q.turn)
                                                     /\ x.status # "expired"}

\* A bundle one part of which is no longer what the service answered does not pass, even
\* when the digest of the whole was taken again; the social claim, and what carries no
\* digest of its own, are then accepted. (verifyAgentProofBundle)
AlteredIsRefused ==
    \A c \in Calls :
        LET r == call[c].report
        IN  r # Nothing /\ r.altered # Nothing
                /\ (r.altered.again => r.altered.part \notin {"social", "receipt"}) => r.failed # {}
=============================================================================
