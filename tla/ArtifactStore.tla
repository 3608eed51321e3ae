------------------------------- MODULE ArtifactStore -------------------------------
(***************************************************************************)
(* The artifacts that workers hand to buyers                               *)
(* (apps/indexer/src/artifact-store.ts and its routes in server.ts): a     *)
(* file of sealed bytes and a file of metadata for each artifact, the      *)
(* checks before an upload is kept, downloads, the sweep of expired        *)
(* artifacts, and the receipts of artifacts delivered elsewhere.           *)
(*                                                                         *)
(* A JSON file is written in place: while it is written, and after a crash *)
(* in between, what is read of it does not parse (Torn).                   *)
(***************************************************************************)
EXTENDS Naturals, FiniteSets, FiniteSetsExt

CONSTANTS
    Uploads, Downloads, Receipts,   \* calls; an artifact and a receipt are named by theirs
    Files,          \* what is uploaded: [kind, facts, size, mode]
    Policies,       \* [scanner : BOOLEAN, required : BOOLEAN]
    Retention, MaxPerRequest, MaxBytesPerRequest,
    MaxTime, MaxCrashes,
    NoFile, Torn

\* What is looked for in a file of each kind that may be delivered.
Blocking ==
    [text    |-> {"null_bytes"},
     json    |-> {"null_bytes", "invalid_json"},
     pdf     |-> {"magic_mismatch", "active_content"},
     image   |-> {"magic_mismatch"},
     archive |-> {"magic_mismatch", "empty", "executable_entry", "nested_archive",
                  "suspicious_entry"}]

Statuses == {"clean", "buyer_scan_required"}

VARIABLES
    policy,     \* how the scanner is configured
    now,
    data,       \* the artifacts whose sealed bytes are on disk
    meta,       \* artifact -> its metadata file
    upload, download,   \* calls
    sweep,      \* the cleanup in progress: the names it has left, and the one it removes
    served,     \* history: <<artifact, whether the buyer accepted the risk>>
    receipt,    \* receipt -> its file
    index,      \* file: the receipts of the request
    post,       \* receipt -> the call that creates or acknowledges it
    crashes

artifactVars == <<policy, data, meta, upload, download, sweep, served>>
receiptVars == <<receipt, index, post>>
storeVars == <<artifactVars, now, receiptVars, crashes>>

Metadata == [expires : Nat, claimed : BOOLEAN, status : Statuses, size : Nat]

Readable(u) == meta[u] \notin {NoFile, Torn}
Expired(u) == meta[u].expires <= now

-----------------------------------------------------------------------------
(* Uploads.                                                               *)

\* assertRequestQuota, over the metadata that can be read.
WithinQuota(file) ==
    LET kept == {u \in Uploads : Readable(u) /\ ~Expired(u)}
    IN  /\ Cardinality(kept) < MaxPerRequest
        /\ MapThenSumSet(LAMBDA u : meta[u].size, kept) + file.size <= MaxBytesPerRequest

BeginUpload(u, file) ==
    /\ upload[u].pc = "idle"
    /\ upload' = [upload EXCEPT ![u] =
           [pc |-> IF WithinQuota(file) THEN "check" ELSE "refused", file |-> file,
            at |-> now, status |-> "clean", verdict |-> "not_scanned"]]
    /\ UNCHANGED <<policy, now, data, meta, download, sweep, served, receiptVars, crashes>>

\* buildSafetyReport and inspectZip: the entries of an archive are read if it is one.
StaticallyClean(file) ==
    /\ file.kind \in DOMAIN Blocking
    /\ file.facts \intersect Blocking[file.kind] = {}

Scans(file) ==
    /\ file.mode = "platform_scanned" /\ StaticallyClean(file) /\ policy.scanner

\* buildPrivateCiphertextSafetyReport, or buildPlatformSafetyReport with the scanner's
\* verdict.
StatusOf(file, verdict) ==
    IF file.mode = "buyer_encrypted"
    THEN IF file.kind = "encrypted" THEN "buyer_scan_required" ELSE "blocked"
    ELSE IF ~StaticallyClean(file) \/ verdict = "infected" THEN "blocked"
    ELSE IF verdict # "clean" /\ policy.required THEN "scan_unavailable"
    ELSE "clean"

\* Only what is clean, or sealed for the buyer, is kept.
Check(u, verdict) ==
    /\ upload[u].pc = "check"
    /\ LET file == upload[u].file
           status == StatusOf(file, verdict)
       IN  /\ verdict # "not_scanned" <=> Scans(file)
           /\ upload' = [upload EXCEPT ![u] = [@ EXCEPT
                  !.pc = IF status \in Statuses THEN "store" ELSE "refused",
                  !.status = status, !.verdict = verdict]]
    /\ UNCHANGED <<policy, now, data, meta, download, sweep, served, receiptVars, crashes>>

\* Mutant: the metadata is written first.
StoreMetaFirst(u) ==
    \/ /\ upload[u].pc = "store"
       /\ meta' = [meta EXCEPT ![u] =
              [expires |-> upload[u].at + Retention, claimed |-> FALSE,
               status |-> upload[u].status, size |-> upload[u].file.size]]
       /\ upload' = [upload EXCEPT ![u].pc = "name"]
       /\ UNCHANGED data
    \/ /\ upload[u].pc = "name"
       /\ data' = data \union {u}
       /\ upload' = [upload EXCEPT ![u].pc = "done"]
       /\ UNCHANGED meta

\* The sealed bytes are written, and then the metadata.
StoreFiles(u) ==
    \/ /\ upload[u].pc = "store"
       /\ data' = data \union {u}
       /\ upload' = [upload EXCEPT ![u].pc = "name"]
       /\ UNCHANGED meta
    \/ /\ upload[u].pc = "name"
       /\ meta' = [meta EXCEPT ![u] = Torn]
       /\ upload' = [upload EXCEPT ![u].pc = "named"]
       /\ UNCHANGED data
    \/ /\ upload[u].pc = "named"
       /\ meta' = [meta EXCEPT ![u] =
              [expires |-> upload[u].at + Retention, claimed |-> FALSE,
               status |-> upload[u].status, size |-> upload[u].file.size]]
       /\ upload' = [upload EXCEPT ![u].pc = "done"]
       /\ UNCHANGED data

Store(u) ==
    /\ StoreFiles(u)
    /\ UNCHANGED <<policy, now, download, sweep, served, receiptVars, crashes>>

-----------------------------------------------------------------------------
(* Downloads.                                                             *)

\* The manifest: what cannot be read or is expired has none, and a private artifact is
\* held back until the buyer accepts the risk.
BeginDownload(d, u, acceptRisk) ==
    /\ download[d].pc = "idle"
    /\ upload[u].pc = "done"        \* its URL is known
    /\ Readable(u) /\ ~Expired(u)
    /\ meta[u].status = "buyer_scan_required" => acceptRisk
    /\ download' = [download EXCEPT ![d] =
           [pc |-> "authorize", of |-> u, risk |-> acceptRisk, meta |-> NoFile]]
    /\ UNCHANGED <<policy, now, data, meta, upload, sweep, served, receiptVars, crashes>>

\* The read asks for the metadata again; what has changed since answers 503.
Authorize(d) ==
    /\ download[d].pc = "authorize"
    /\ LET u == download[d].of
       IN  download' = [download EXCEPT ![d] =
               IF Readable(u) /\ ~Expired(u) THEN [@ EXCEPT !.pc = "read", !.meta = meta[u]]
               ELSE [@ EXCEPT !.pc = "unavailable"]]
    /\ UNCHANGED <<policy, now, data, meta, upload, sweep, served, receiptVars, crashes>>

\* The bytes are read and answered, by the first download once the claim is written.  The
\* copy of the metadata is the one read before; a file removed while it is written stays
\* removed.
Read(d) ==
    /\ download[d].pc = "read"
    /\ LET u == download[d].of
           whole == u \in data
       IN  /\ download' = [download EXCEPT ![d].pc =
                  IF ~whole THEN "unavailable"
                  ELSE IF download[d].meta.claimed THEN "answered" ELSE "claim"]
           /\ served' = IF whole THEN served \union {<<u, download[d].risk>>} ELSE served
    /\ UNCHANGED <<policy, now, data, meta, upload, sweep, receiptVars, crashes>>

Claim(d) ==
    /\ \/ /\ download[d].pc = "claim"
          /\ meta' = [meta EXCEPT ![download[d].of] = Torn]
          /\ download' = [download EXCEPT ![d].pc = "claimed"]
       \/ /\ download[d].pc = "claimed"
          /\ meta' = [meta EXCEPT ![download[d].of] =
                 IF @ = NoFile THEN NoFile ELSE [download[d].meta EXCEPT !.claimed = TRUE]]
          /\ download' = [download EXCEPT ![d].pc = "answered"]
    /\ UNCHANGED <<policy, now, data, upload, sweep, served, receiptVars, crashes>>

-----------------------------------------------------------------------------
(* The sweep, at the start and then every so often; it is not guarded      *)
(* against itself, and one at a time is taken here.                        *)

NoSweep == [pc |-> "idle", left |-> {}, at |-> 0, of |-> {}]

BeginSweep ==
    /\ sweep.pc = "idle" /\ \E u \in Uploads : meta[u] # NoFile
    /\ sweep' = [pc |-> "next", at |-> now, of |-> {},
                 left |-> {u \in Uploads : meta[u] # NoFile}]
    /\ UNCHANGED <<policy, now, data, meta, upload, download, served, receiptVars, crashes>>

Swept(u) == Readable(u) /\ meta[u].expires <= sweep.at

\* One name: its metadata is read and, if it has expired, removed before the bytes.
SweepNext(u) ==
    /\ sweep.pc = "next" /\ u \in sweep.left
    /\ sweep' = [sweep EXCEPT !.left = @ \ {u}, !.of = IF Swept(u) THEN {u} ELSE {},
                              !.pc = IF Swept(u) THEN "metadata" ELSE "next"]
    /\ UNCHANGED <<policy, now, data, meta, upload, download, served, receiptVars, crashes>>

SweepRemoves ==
    /\ \/ /\ sweep.pc = "metadata"
          /\ meta' = [u \in Uploads |-> IF u \in sweep.of THEN NoFile ELSE meta[u]]
          /\ sweep' = [sweep EXCEPT !.pc = "data"]
          /\ UNCHANGED data
       \/ /\ sweep.pc = "data"
          /\ data' = data \ sweep.of
          /\ sweep' = [sweep EXCEPT !.pc = "next"]
          /\ UNCHANGED meta
    /\ UNCHANGED <<policy, now, upload, download, served, receiptVars, crashes>>

EndSweep ==
    /\ sweep.pc = "next" /\ sweep.left = {}
    /\ sweep' = NoSweep
    /\ UNCHANGED <<policy, now, data, meta, upload, download, served, receiptVars, crashes>>

Tick ==
    /\ now < MaxTime
    /\ now' = now + 1
    /\ UNCHANGED <<artifactVars, receiptVars, crashes>>

-----------------------------------------------------------------------------
(* Receipts of one request.                                               *)

ReceiptRecords ==
    [needs : BOOLEAN, accepted : {"pending", "not_required", "accepted", "rejected"},
     bytes : BOOLEAN, verified : BOOLEAN, scan : {"not_scanned", "passed", "failed"}]

Known(x) == receipt[x] \notin {NoFile, Torn}

\* readReceiptRequestIndex: an index that does not parse has no receipts.
Indexed(copy) == IF copy = Torn THEN {} ELSE copy

CreateReceipt(x, needs) ==
    /\ receipt[x] = NoFile /\ post[x].pc = "idle"
    /\ receipt' = [receipt EXCEPT ![x] =
           [needs |-> needs, accepted |-> IF needs THEN "pending" ELSE "not_required",
            bytes |-> FALSE, verified |-> FALSE, scan |-> "not_scanned"]]
    /\ post' = [post EXCEPT ![x] = [@ EXCEPT !.pc = "index"]]
    /\ UNCHANGED <<artifactVars, now, index, crashes>>

\* addReceiptToRequestIndex: read, then written whole.
AddToIndex(x) ==
    /\ \/ /\ post[x].pc = "index"
          /\ post' = [post EXCEPT ![x] = [pc |-> "write", index |-> Indexed(index), copy |-> NoFile]]
          /\ UNCHANGED index
       \/ /\ post[x].pc = "write"
          /\ index' = Torn
          /\ post' = [post EXCEPT ![x].pc = "writing"]
       \/ /\ post[x].pc = "writing"
          /\ index' = {x} \union post[x].index
          /\ post' = [post EXCEPT ![x].pc = "idle"]
    /\ UNCHANGED <<artifactVars, now, receipt, crashes>>

\* acknowledgeReceipt, on a copy read before; an answer may be given again.
BeginAcknowledge(x) ==
    /\ Known(x) /\ receipt[x].needs /\ post[x].pc = "idle"
    /\ post' = [post EXCEPT ![x] = [pc |-> "answer", index |-> {}, copy |-> receipt[x]]]
    /\ UNCHANGED <<artifactVars, now, receipt, index, crashes>>

Acknowledge(x, accepted, bytes, verified, scan) ==
    /\ post[x].pc = "answer"
    /\ receipt' = [receipt EXCEPT ![x] = [post[x].copy EXCEPT
           !.accepted = accepted, !.bytes = bytes, !.verified = verified, !.scan = scan]]
    /\ post' = [post EXCEPT ![x] = [pc |-> "idle", index |-> {}, copy |-> NoFile]]
    /\ UNCHANGED <<artifactVars, now, index, crashes>>

\* receiptDeliveryState
DeliveryState(r) ==
    IF r.accepted = "rejected" THEN "buyer_rejected"
    ELSE IF r.accepted = "accepted" THEN "buyer_accepted"
    ELSE IF r.scan = "failed" THEN "buyer_scan_failed"
    ELSE IF r.scan = "passed" THEN "buyer_scan_passed"
    ELSE IF r.verified THEN "digest_verified"
    ELSE IF r.bytes THEN "bytes_received_by_buyer"
    ELSE "receipt_recorded"

\* receiptsForRequest: the files of the index that parse.
ReceiptsForRequest == {x \in Indexed(index) : Known(x)}

Idle == [pc |-> "idle", index |-> {}, copy |-> NoFile]

\* A restart: calls are gone, and what was being written stays torn.
Crash ==
    /\ crashes < MaxCrashes
    /\ crashes' = crashes + 1
    /\ upload' = [u \in Uploads |-> IF upload[u].pc \in {"idle", "done", "refused"}
                                    THEN upload[u] ELSE [upload[u] EXCEPT !.pc = "refused"]]
    /\ download' = [d \in Downloads |-> IF download[d].pc = "idle" THEN download[d]
                                        ELSE [download[d] EXCEPT !.pc = "unavailable"]]
    /\ sweep' = NoSweep
    /\ post' = [x \in Receipts |-> Idle]
    /\ UNCHANGED <<policy, now, data, meta, served, receipt, index>>

-----------------------------------------------------------------------------
ArtInit ==
    /\ policy \in Policies
    /\ now = 0 /\ data = {} /\ meta = [u \in Uploads |-> NoFile]
    /\ upload = [u \in Uploads |->
           [pc |-> "idle", file |-> NoFile, at |-> 0, status |-> "clean",
            verdict |-> "not_scanned"]]
    /\ download = [d \in Downloads |->
           [pc |-> "idle", of |-> NoFile, risk |-> FALSE, meta |-> NoFile]]
    /\ sweep = NoSweep /\ served = {}
    /\ receipt = [x \in Receipts |-> NoFile] /\ index = {}
    /\ post = [x \in Receipts |-> Idle]
    /\ crashes = 0

ArtifactNext ==
    \/ \E u \in Uploads :
          \/ \E file \in Files : BeginUpload(u, file)
          \/ \E v \in {"not_scanned", "clean", "infected", "unavailable"} : Check(u, v)
          \/ Store(u)
          \/ SweepNext(u)
    \/ \E d \in Downloads :
          \/ \E u \in Uploads, risk \in BOOLEAN : BeginDownload(d, u, risk)
          \/ Authorize(d) \/ Read(d) \/ Claim(d)
    \/ BeginSweep \/ SweepRemoves \/ EndSweep \/ Tick

ReceiptNext ==
    \E x \in Receipts :
        \/ \E needs \in BOOLEAN : CreateReceipt(x, needs)
        \/ AddToIndex(x) \/ BeginAcknowledge(x)
        \/ \E accepted \in {"accepted", "rejected"}, bytes, verified \in BOOLEAN,
              scan \in {"not_scanned", "passed", "failed"} :
              Acknowledge(x, accepted, bytes, verified, scan)

ArtNext == ArtifactNext \/ ReceiptNext \/ Crash

ArtSpec == ArtInit /\ [][ArtNext]_storeVars

-----------------------------------------------------------------------------
\* Every variable has its type.
ArtTypeOK ==
    /\ policy \in Policies /\ now \in 0..MaxTime
    /\ data \subseteq Uploads
    /\ \A u \in Uploads : Readable(u) => meta[u] \in Metadata
    /\ \A u \in Uploads : upload[u].pc \in {"idle", "check", "refused", "store", "name", "named",
                                            "done"}
    /\ \A d \in Downloads : download[d].pc \in {"idle", "authorize", "read", "claim", "claimed",
                                                "answered", "unavailable"}
    /\ sweep.pc \in {"idle", "next", "metadata", "data"}
    /\ \A x \in Receipts : Known(x) => receipt[x] \in ReceiptRecords
    /\ index = Torn \/ index \subseteq Receipts

\* An artifact that has not expired and can be authorized has its bytes, whatever the
\* sweep, a claim written from an old copy or a restart do (create, read, cleanupExpired).
ArtifactsAreWhole == \A u \in Uploads : Readable(u) /\ ~Expired(u) => u \in data

\* What buyers were given was found clean, by the scanner where one is required, or is
\* sealed for the buyer who accepted the risk (buildPlatformSafetyReport, the download
\* route).
ServedIsScanned ==
    \A s \in served :
        LET file == upload[s[1]].file
        IN  IF file.mode = "buyer_encrypted" THEN s[2] /\ file.kind = "encrypted"
            ELSE /\ StaticallyClean(file)
                 /\ upload[s[1]].verdict # "infected"
                 /\ policy.required => upload[s[1]].verdict = "clean"
=============================================================================
