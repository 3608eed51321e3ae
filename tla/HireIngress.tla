------------------------------ MODULE HireIngress ------------------------------
(***************************************************************************)
(* A self-hosted agent: the request that the indexer signs and posts to    *)
(* it (buildSignedHireIngressRequest), the public ingress that the agent's *)
(* owner runs (starters/openclaw-public-hire-ingress), which checks it and *)
(* hands it to the private runtime, and what the indexer makes of the      *)
(* answer (parseHireIngressProtocolReturn).                                *)
(*                                                                         *)
(* The clocks of the two machines differ by a constant.  The network may   *)
(* deliver a request more than once and late.  Signatures and digests of   *)
(* the bodies match, as the code makes them; the service key is the        *)
(* enrolled one.                                                           *)
(***************************************************************************)
EXTENDS Integers, FiniteSets

CONSTANTS
    Requests,       \* hires of the agent
    Copies,         \* of a request, on the network
    Orders,         \* [pricing, status, amount, rail, quote, lane]: what a hire is built from
    Packages,       \* what the runtime may answer, see Package
    Skews,          \* of the ingress's clock
    MaxAge,         \* maxTimestampAgeMs
    ReplayTtl,      \* replayTtlMs
    PerMinute,      \* rateLimitPerMinute
    MaxTime, MaxIngressCrashes,
    Nothing

Statuses == {"quoted", "completed", "failed", "other"}

\* A santaclawz-return package; a runtime may also answer something else, or nothing.
Package ==
    [status : Statuses, id : {"own", "none", "wrong"}, private : {"true", "none", "false"},
     output : BOOLEAN,          \* a verified output whose digests are well formed
     checks : BOOLEAN, files : BOOLEAN, deliverables : BOOLEAN,
     visible : {"none", "text", "link", "misdigested"},
     demo : BOOLEAN,
     large : BOOLEAN]           \* over HIRE_INGRESS_RETURN_MAX_BYTES, as the ingress passes it on

VARIABLES
    now,        \* on the indexer's clock
    skew,
    sent,       \* request -> its envelope, with its timestamp
    copy,       \* <<request, copy>> -> where that copy is
    seen,       \* replayCache
    bucket,     \* rateLimitBuckets, of the indexer's address
    ingress,    \* [up, active, demo]
    runs,       \* how often the runtime was given the request
    answer,     \* what the indexer holds of it
    ingressCrashes

ingressVars == <<now, skew, sent, copy, seen, bucket, ingress, runs, answer, ingressCrashes>>

-----------------------------------------------------------------------------
(* The request.                                                           *)

\* buildSignedHireIngressRequest
RequestType(o) ==
    CASE o.pricing = "free-test" -> "free_test"
      [] o.pricing = "quote-required" /\ o.status = "not-required" -> "quote_intake"
      [] OTHER -> "paid_execution"

Envelope(o) ==
    LET type == RequestType(o)
        paid == type = "paid_execution"
    IN  [type    |-> type,
         pricing |-> o.pricing,
         status  |-> CASE type = "quote_intake" -> "quote_requested"
                       [] type = "free_test"    -> "free_test"
                       [] OTHER                 -> o.status,
         paid    |-> paid /\ o.status # "not-required",
         amount  |-> paid /\ o.amount,
         rail    |-> paid /\ o.rail,
         quote   |-> paid /\ o.quote,
         lane    |-> paid /\ o.lane,
         at      |-> now]

PaidStatuses == {"authorized", "settled", "paid", "escrowed"}

\* assertValidSantaClawzHirePolicy: nothing else is sent.
ValidPolicy(e) ==
    CASE e.type = "quote_intake" -> e.pricing = "quote-required" /\ ~e.paid /\ ~e.amount
      [] e.type = "free_test"    -> e.pricing = "free-test" /\ ~e.paid /\ ~e.amount /\ ~e.rail
      [] OTHER -> /\ e.pricing \in {"fixed-exact", "quote-required"} /\ e.status \in PaidStatuses
                  /\ e.paid /\ e.amount /\ e.rail

\* assertHirePolicy of the ingress.
HirePolicy(e) ==
    CASE e.type = "quote_intake" ->
             e.pricing = "quote-required" /\ e.status = "quote_requested" /\ ~e.paid /\ ~e.amount
      [] e.type = "free_test" ->
             e.pricing = "free-test" /\ e.status = "free_test" /\ ~e.paid /\ ~e.amount /\ ~e.rail
      [] OTHER ->
             /\ e.pricing \in {"fixed-exact", "quote-required"} /\ e.status \in PaidStatuses
             /\ e.paid /\ e.amount /\ e.rail
             /\ (e.pricing = "quote-required" /\ ~e.lane => e.quote)

\* forwardHireRequestToIngress
Send(r, o) ==
    /\ sent[r] = Nothing /\ ValidPolicy(Envelope(o))
    /\ sent' = [sent EXCEPT ![r] = Envelope(o)]
    /\ answer' = [answer EXCEPT ![r] = [is |-> "awaited", package |-> Nothing]]
    /\ \E n \in Copies : copy' = [copy EXCEPT ![<<r, n>>] = "network"]
    /\ UNCHANGED <<now, skew, seen, bucket, ingress, runs, ingressCrashes>>

Duplicate(r, n) ==
    /\ sent[r] # Nothing /\ copy[<<r, n>>] = "none"
    /\ copy' = [copy EXCEPT ![<<r, n>>] = "network"]
    /\ UNCHANGED <<now, skew, sent, seen, bucket, ingress, runs, answer, ingressCrashes>>

-----------------------------------------------------------------------------
(* The answer.                                                            *)

\* normalizeCompletedReturnPackage and normalizeVerificationManifest
Normalize(p) ==
    IF p.status # "completed" THEN p
    ELSE [p EXCEPT !.id = IF @ = "none" THEN "own" ELSE @,
                   !.private = IF @ = "none" THEN "true" ELSE @,
                   !.checks = TRUE,
                   !.files = p.files \/ p.deliverables]

\* validateCompletedReturnPackage, the check that a seller runs on a file beforehand.
SellerAccepts(p) ==
    p.status = "completed" /\ p.output /\ Normalize(p).id = "own" /\ Normalize(p).private = "true"

\* parseHireIngressProtocolReturn
Classified(p) ==
    IF p.demo THEN "demo_completion"
    ELSE IF ~p.deliverables THEN "agent_completed_empty"
    ELSE IF ~p.checks \/ ~p.files THEN "agent_completed_unverified"
    ELSE IF p.visible = "none" THEN "agent_completed_delivery_missing"
    ELSE "agent_completed_verified"

Parse(p, type) ==
    IF \/ p.large
       \/ p.id # "own" \/ p.private # "true" \/ p.status = "other"
       \/ type = "quote_intake" /\ p.status = "completed"
       \/ type # "quote_intake" /\ p.status = "quoted"
       \/ p.status = "completed" /\ (~p.output \/ p.visible = "misdigested")
    THEN "return_rejected"
    ELSE IF p.status = "completed" THEN Classified(p) ELSE p.status

\* The first answer is taken, if it is still awaited; a rejection of another return than
\* that of a paid execution is an error, and a runtime's own format is only an acceptance.
Hear(r, is, p) ==
    answer' = IF answer[r].is = "awaited"
              THEN [answer EXCEPT ![r] = [is |-> is, package |-> p]] ELSE answer

DemoPackage ==
    [status |-> "completed", id |-> "own", private |-> "true", output |-> TRUE, checks |-> TRUE,
     files |-> FALSE, deliverables |-> FALSE, visible |-> "none", demo |-> TRUE,
     large |-> FALSE]

-----------------------------------------------------------------------------
(* The ingress.                                                           *)

Clock == now + skew

\* createServer, assertRateLimit: all requests come from one address.
Arrive(r, n) ==
    /\ copy[<<r, n>>] = "network"
    /\ LET fresh == bucket = Nothing \/ Clock - bucket.at >= 1
           count == IF fresh THEN 1 ELSE bucket.count + 1
           fits  == fresh \/ count <= PerMinute
       IN  IF ingress.up
           THEN /\ bucket' = [at |-> IF fresh THEN Clock ELSE bucket.at, count |-> count]
                /\ copy' = [copy EXCEPT ![<<r, n>>] = IF fits THEN "read" ELSE "done"]
                /\ IF fits THEN UNCHANGED answer ELSE Hear(r, "error", Nothing)
           ELSE /\ copy' = [copy EXCEPT ![<<r, n>>] = "done"]
                /\ Hear(r, "error", Nothing)
                /\ UNCHANGED bucket
    /\ UNCHANGED <<now, skew, sent, seen, ingress, runs, ingressCrashes>>

\* assertSignedSantaClawzRequest: not too old, nor too far in the future.
Fresh(e) == Clock - e.at <= MaxAge /\ e.at - Clock <= MaxAge

\* Mutant: a request is remembered no longer than its timestamp may differ.
RememberedBriefly == [r \in Requests |->
    IF seen[r] # Nothing /\ Clock - seen[r] > MaxAge THEN Nothing ELSE seen[r]]

\* evictReplayEntries
Remembered == [r \in Requests |->
    IF seen[r] # Nothing /\ Clock - seen[r] > ReplayTtl THEN Nothing ELSE seen[r]]

\* handleHire, when the body has been read: refused, answered, or given to the runtime.
Admit(r, n) ==
    /\ copy[<<r, n>>] = "read"
    /\ LET e == sent[r]
           Fits == Fresh(e) /\ ingress.active /\ HirePolicy(e)
           Refuse == /\ copy' = [copy EXCEPT ![<<r, n>>] = "done"] /\ Hear(r, "error", Nothing)
                     /\ UNCHANGED runs
           Return(is, p) == /\ copy' = [copy EXCEPT ![<<r, n>>] = "done"] /\ Hear(r, is, p)
                            /\ UNCHANGED runs
       IN  /\ seen' = IF ~Fits THEN seen
                      ELSE [Remembered EXCEPT ![r] = IF @ = Nothing THEN Clock ELSE @]
           /\ CASE ~Fits                       -> Refuse
                [] Fits /\ Remembered[r] # Nothing -> Refuse
                [] OTHER ->
                   CASE e.type = "quote_intake" -> Return("quoted", Nothing)
                     [] e.type # "quote_intake" /\ ingress.demo ->
                            Return("demo_completion", DemoPackage)
                     [] OTHER -> /\ copy' = [copy EXCEPT ![<<r, n>>] = "runtime"]
                                 /\ runs' = [runs EXCEPT ![r] = @ + 1]
                                 /\ UNCHANGED answer
    /\ UNCHANGED <<now, skew, sent, bucket, ingress, ingressCrashes>>

\* forwardToInternalRuntime: a package, another answer, an error, or none in time.
RuntimeReturns(r, n, p) ==
    /\ copy[<<r, n>>] = "runtime"
    /\ copy' = [copy EXCEPT ![<<r, n>>] = "done"]
    /\ LET q  == Normalize(p)
           is == IF p.status = "completed" /\ ~p.output THEN "error"
                 ELSE LET parsed == Parse(q, sent[r].type)
                      IN  IF parsed = "return_rejected" /\ sent[r].type # "paid_execution"
                          THEN "error" ELSE parsed
       IN  Hear(r, is, p)
    /\ UNCHANGED <<now, skew, sent, seen, bucket, ingress, runs, ingressCrashes>>

\* An answer of another format is taken as an acceptance; one that is too large, is not JSON
\* though it begins so, or has another schema version is rejected like a package.
RuntimeAnswers(r, n, is) ==
    /\ copy[<<r, n>>] = "runtime"
    /\ is = "return_rejected" => sent[r].type = "paid_execution"
    /\ copy' = [copy EXCEPT ![<<r, n>>] = "done"]
    /\ Hear(r, is, Nothing)
    /\ UNCHANGED <<now, skew, sent, seen, bucket, ingress, runs, ingressCrashes>>

\* The indexer waits ten seconds, the ingress thirty.
GiveUp(r) ==
    /\ answer[r] # Nothing /\ answer[r].is = "awaited"
    /\ answer' = [answer EXCEPT ![r].is = "error"]
    /\ UNCHANGED <<now, skew, sent, copy, seen, bucket, ingress, runs, ingressCrashes>>

-----------------------------------------------------------------------------
\* The owner pauses the service or changes its settings: loadConfig reads them each time.
Configure(active, demo) ==
    /\ ingress' = [ingress EXCEPT !.active = active, !.demo = demo]
    /\ ingress' # ingress
    /\ UNCHANGED <<now, skew, sent, copy, seen, bucket, runs, answer, ingressCrashes>>

\* beginShutdown: those under way may still end, until the process does.
BeginShutdown ==
    /\ ingress.up /\ ingressCrashes < MaxIngressCrashes
    /\ ingress' = [ingress EXCEPT !.up = FALSE]
    /\ UNCHANGED <<now, skew, sent, copy, seen, bucket, runs, answer, ingressCrashes>>

\* The end of the process, with or without a shutdown, and its next start.
RestartIngress ==
    /\ ingressCrashes < MaxIngressCrashes
    /\ ingressCrashes' = ingressCrashes + 1
    /\ ingress' = [ingress EXCEPT !.up = TRUE]
    /\ seen' = [r \in Requests |-> Nothing] /\ bucket' = Nothing
    /\ copy' = [c \in DOMAIN copy |-> IF copy[c] \in {"read", "runtime"} THEN "done" ELSE copy[c]]
    /\ UNCHANGED <<now, skew, sent, runs, answer>>

Minute ==
    /\ now < MaxTime /\ now' = now + 1
    /\ UNCHANGED <<skew, sent, copy, seen, bucket, ingress, runs, answer, ingressCrashes>>

-----------------------------------------------------------------------------
IngressInit ==
    /\ now = 0 /\ skew \in Skews
    /\ sent = [r \in Requests |-> Nothing]
    /\ copy = [c \in Requests \X Copies |-> "none"]
    /\ seen = [r \in Requests |-> Nothing] /\ bucket = Nothing
    /\ ingress = [up |-> TRUE, active |-> TRUE, demo |-> FALSE]
    /\ runs = [r \in Requests |-> 0]
    /\ answer = [r \in Requests |-> Nothing]
    /\ ingressCrashes = 0

IngressNext ==
    \/ \E r \in Requests :
          \/ \E o \in Orders : Send(r, o)
          \/ GiveUp(r)
          \/ \E n \in Copies :
                \/ Duplicate(r, n) \/ Arrive(r, n) \/ Admit(r, n)
                \/ \E p \in Packages : RuntimeReturns(r, n, p)
                \/ \E is \in {"accepted", "return_rejected", "error"} : RuntimeAnswers(r, n, is)
    \/ \E active, demo \in BOOLEAN : Configure(active, demo)
    \/ BeginShutdown \/ RestartIngress \/ Minute

IngressSpec == IngressInit /\ [][IngressNext]_ingressVars

-----------------------------------------------------------------------------
Completions == {"demo_completion", "agent_completed_empty", "agent_completed_unverified",
                "agent_completed_delivery_missing", "agent_completed_verified"}

\* Every variable has its type.
IngressTypeOK ==
    /\ now \in 0..MaxTime /\ skew \in Skews
    /\ \A c \in DOMAIN copy : copy[c] \in {"none", "network", "read", "runtime", "done"}
    /\ \A r \in Requests :
          /\ seen[r] # Nothing => seen[r] \in Int
          /\ answer[r] # Nothing => answer[r].is \in
                Completions \cup {"awaited", "error", "quoted", "failed", "accepted",
                                  "return_rejected"}
    /\ ingress \in [up : BOOLEAN, active : BOOLEAN, demo : BOOLEAN]

\* The runtime is given a signed request once for each run of the ingress's process,
\* however often and however late the network delivers it and whatever the difference of
\* the clocks: the replay cache outlives the freshness of the timestamp
\* (assertSignedSantaClawzRequest, assertNotReplayed).
RunsOnce == \A r \in Requests : runs[r] <= 1 + ingressCrashes

\* The two sides agree on their formats, which each checks with code of its own: the
\* ingress never refuses for its policy what the indexer builds, and a return that the
\* seller's own check accepts is a completion for the indexer when the ingress passes it on,
\* unless a text has the wrong digest or the whole is over the indexer's limit of size,
\* neither of which that check looks at; over the limit it never is one (assertHirePolicy;
\* validateCompletedReturnPackage, parseHireIngressProtocolReturn).
BothSidesAgree ==
    \A r \in Requests :
        /\ sent[r] # Nothing => HirePolicy(sent[r])
        /\ answer[r] # Nothing /\ answer[r].package # Nothing
              /\ SellerAccepts(answer[r].package) /\ answer[r].package.visible # "misdigested"
           => (answer[r].is \in Completions <=> ~answer[r].package.large)
=============================================================================
