------------------------------ MODULE DeliveryProofs ------------------------------
(***************************************************************************)
(* Proofs about two more parts of MCServices, the artifacts that buyers    *)
(* are given and the tools they pay with, laid out as in ServicesProofs.   *)
(***************************************************************************)
EXTENDS MCServices, FiniteSetTheorems, TLAPS

-----------------------------------------------------------------------------
(* The artifacts.  Metadata can be read only of an upload that is done,    *)
(* and says of it what the upload found, also when a claim writes a copy   *)
(* that was read earlier.  The sweep takes the bytes of what has expired,  *)
(* and what is done has its bytes until it expires: so metadata that a     *)
(* late claim brings back can be without bytes only when it is over.       *)

Ends(u) == upload[u].at + Retention

UploadRecords ==
    [pc : {"idle", "check", "refused", "store", "name", "named", "done"},
     file : ArtFiles \cup {NoFile}, at : Nat,
     status : {"clean", "buyer_scan_required", "blocked", "scan_unavailable"},
     verdict : {"not_scanned", "clean", "infected", "unavailable"}]
DownloadRecords ==
    [pc : {"idle", "authorize", "read", "claim", "claimed", "answered", "unavailable"},
     of : Two \cup {NoFile}, risk : BOOLEAN, meta : Store!Metadata \cup {NoFile}]

ArtTyped ==
    /\ policy \in ArtPolicies /\ now \in 0..LastTime
    /\ data \subseteq Two /\ meta \in [Two -> Store!Metadata \cup {NoFile, Torn}]
    /\ upload \in [Two -> UploadRecords] /\ download \in [Downloads -> DownloadRecords]
    /\ sweep \in [pc : {"idle", "next", "metadata", "data"}, left : SUBSET Two, at : Nat,
                  of : SUBSET Two]
    /\ served \subseteq Two \X BOOLEAN

\* The file m of metadata says what the upload of u found.
Describes(m, u) ==
    /\ m \in Store!Metadata
    /\ m.expires = Ends(u) /\ m.status = upload[u].status /\ upload[u].pc = "done"

UploadHolds(u) ==
    /\ upload[u].pc \in {"check", "store", "name", "named", "done"} => upload[u].file \in ArtFiles
    /\ upload[u].pc \in {"store", "name", "named", "done"} =>
          /\ upload[u].status \in Store!Statuses
          /\ upload[u].status = Store!StatusOf(upload[u].file, upload[u].verdict)
    /\ upload[u].pc \in {"name", "named"} => u \in data
    /\ upload[u].pc = "done" => u \in data \/ Ends(u) <= now
    /\ Store!Readable(u) => Describes(meta[u], u)

\* A buyer who is given what is sealed for him has accepted the risk.
AtHisRisk(u, risk) ==
    /\ u \in Two /\ upload[u].pc = "done"
    /\ upload[u].status = "buyer_scan_required" => risk

DownloadHolds(d) ==
    /\ download[d].pc \in {"authorize", "read", "claim", "claimed"} =>
          AtHisRisk(download[d].of, download[d].risk)
    /\ download[d].pc \in {"read", "claim", "claimed"} =>
          Describes(download[d].meta, download[d].of)

SweepHolds ==
    /\ sweep.at <= now
    /\ sweep.pc \in {"metadata", "data"} =>
          \A u \in sweep.of : upload[u].pc = "done" /\ Ends(u) <= sweep.at

ServedHolds == \A s \in served : AtHisRisk(s[1], s[2])

ReceiptsTyped ==
    /\ receipt \in [Receipts -> Store!ReceiptRecords \cup {NoFile, Torn}]
    /\ index = Torn \/ index \subseteq Receipts
    /\ post \in [Receipts -> [pc : {"idle", "index", "write", "writing", "answer"},
                              index : SUBSET Receipts, copy : Store!ReceiptRecords \cup {NoFile}]]
    /\ \A x \in Receipts : post[x].pc = "answer" => post[x].copy \in Store!ReceiptRecords

ArtInv ==
    /\ ArtTyped /\ ReceiptsTyped /\ SweepHolds /\ ServedHolds
    /\ \A u \in Two : UploadHolds(u)
    /\ \A d \in Downloads : DownloadHolds(d)

LEMMA ArtifactsBegin == Store!ArtInit => ArtInv
<1> SUFFICES ASSUME Store!ArtInit PROVE ArtInv
  OBVIOUS
<1> USE DEF Store!ArtInit
<1>1. ArtTyped
  BY ServicesAssumption DEF ArtTyped, UploadRecords, DownloadRecords, Store!NoSweep
<1>2. ReceiptsTyped
  BY DEF ReceiptsTyped, Store!Idle
<1>3. SweepHolds /\ ServedHolds
  BY DEF SweepHolds, ServedHolds, Store!NoSweep
<1>4. \A u \in Two : UploadHolds(u)
  BY DEF UploadHolds, Store!Readable
<1>5. \A d \in Downloads : DownloadHolds(d)
  BY DEF DownloadHolds
<1> QED BY <1>1, <1>2, <1>3, <1>4, <1>5 DEF ArtInv

\* A step keeps what is said of an upload that is done.
LEMMA DoneStays ==
  ASSUME NEW u \in Two, upload[u].pc = "done", upload'[u] = upload[u]
  PROVE  /\ Ends(u)' = Ends(u)
         /\ \A m : Describes(m, u) => Describes(m, u)'
         /\ \A risk : AtHisRisk(u, risk) => AtHisRisk(u, risk)'
BY DEF Ends, Describes, AtHisRisk

\* The parts of the invariant that read only uploads, and the clock, survive a step that
\* leaves alone what is done.
LEMMA DoneKeeps ==
  ASSUME ArtInv, \A u \in Two : upload[u].pc = "done" => upload'[u] = upload[u],
         now' >= now, now' \in Nat
  PROVE  /\ UNCHANGED sweep => SweepHolds'
         /\ UNCHANGED served => ServedHolds'
         /\ \A d \in Downloads : download'[d] = download[d] => DownloadHolds(d)'
<1> USE DEF ArtInv
<1>1. ASSUME UNCHANGED sweep PROVE SweepHolds'
  <2>1. sweep.at \in Nat /\ now \in Nat /\ sweep.of \subseteq Two
    BY ServicesAssumption DEF ArtTyped
  <2>2. sweep.at <= now'
    BY <2>1 DEF SweepHolds
  <2>3. ASSUME NEW u \in sweep.of, sweep.pc \in {"metadata", "data"}
        PROVE  upload'[u].pc = "done" /\ Ends(u)' <= sweep.at
    BY <2>1, <2>3, DoneStays DEF SweepHolds
  <2> QED BY <1>1, <2>2, <2>3 DEF SweepHolds
<1>2. ASSUME UNCHANGED served PROVE ServedHolds'
  BY <1>2, DoneStays DEF ServedHolds, AtHisRisk
<1>3. ASSUME NEW d \in Downloads, download'[d] = download[d] PROVE DownloadHolds(d)'
  <2>1. CASE download[d].pc \in {"authorize", "read", "claim", "claimed"}
    <3>1. download[d].of \in Two /\ upload[download[d].of].pc = "done"
      BY <2>1 DEF DownloadHolds, AtHisRisk
    <3>2. upload'[download[d].of] = upload[download[d].of]
      BY <3>1
    <3> QED BY <1>3, <3>1, <3>2, DoneStays DEF DownloadHolds
  <2>2. CASE download[d].pc \notin {"authorize", "read", "claim", "claimed"}
    BY <1>3, <2>2 DEF DownloadHolds
  <2> QED BY <2>1, <2>2
<1> QED BY <1>1, <1>2, <1>3

\* What is said of an upload survives a step that leaves it and its files alone.
LEMMA UploadStays ==
  ASSUME NEW u \in Two, UploadHolds(u), upload'[u] = upload[u], meta'[u] = meta[u],
         UNCHANGED policy, u \in data => u \in data', now' >= now, now \in Nat, now' \in Nat,
         upload[u] \in UploadRecords
  PROVE  UploadHolds(u)'
<1>1. Ends(u)' = Ends(u) /\ Ends(u) \in Nat
  BY ServicesAssumption DEF Ends, UploadRecords
<1>2. Store!StatusOf(upload[u].file, upload[u].verdict)' = Store!StatusOf(upload[u].file, upload[u].verdict)
  BY DEF Store!StatusOf, Store!StaticallyClean
<1>3. Store!Readable(u)' <=> Store!Readable(u)
  BY DEF Store!Readable
<1>4. Store!Readable(u) => Describes(meta[u], u)'
  BY <1>1 DEF UploadHolds, Describes
<1> QED BY <1>1, <1>2, <1>3, <1>4 DEF UploadHolds

LEMMA StatusKinds ==
  ASSUME NEW handed, NEW verdict
  PROVE  Store!StatusOf(handed, verdict) \in
            {"clean", "buyer_scan_required", "blocked", "scan_unavailable"}
BY DEF Store!StatusOf

-----------------------------------------------------------------------------
(* Uploads: each step changes one that is not done.                        *)

\* A step that changes only the upload u, which was not done, and its files.
UploadMoves(u) ==
    /\ upload[u].pc # "done"
    /\ upload' = [upload EXCEPT ![u] = upload'[u]]
    /\ upload'[u] \in UploadRecords
    /\ meta' = [meta EXCEPT ![u] = meta'[u]] /\ meta'[u] \in Store!Metadata \cup {NoFile, Torn}
    /\ data \subseteq data' /\ data' \subseteq Two
    /\ UNCHANGED <<policy, now, download, sweep, served, receipt, index, post>>

LEMMA UploadMovesKeep ==
  ASSUME ArtInv, NEW u \in Two, UploadMoves(u), UploadHolds(u)'
  PROVE  ArtInv'
<1> USE DEF ArtInv, UploadMoves
<1>1. ArtTyped'
  BY DEF ArtTyped
<1>2. ReceiptsTyped'
  BY DEF ReceiptsTyped
<1>3. \A v \in Two \ {u} : upload'[v] = upload[v] /\ meta'[v] = meta[v]
  BY DEF ArtTyped
<1>4. now \in Nat /\ now' = now
  BY ServicesAssumption DEF ArtTyped
<1>5. \A v \in Two : upload[v].pc = "done" => upload'[v] = upload[v]
  BY <1>3
<1>6. SweepHolds' /\ ServedHolds' /\ \A d \in Downloads : DownloadHolds(d)'
  BY <1>4, <1>5, DoneKeeps
<1>7. ASSUME NEW v \in Two PROVE UploadHolds(v)'
  <2>1. CASE v = u
    BY <2>1
  <2>2. CASE v # u
    <3>1. upload[v] \in UploadRecords /\ UploadHolds(v)
      BY DEF ArtTyped
    <3> QED BY <1>3, <1>4, <2>2, <3>1, UploadStays
  <2> QED BY <2>1, <2>2
<1> QED BY <1>1, <1>2, <1>6, <1>7

LEMMA BeginUploadKeeps ==
  ASSUME ArtInv, NEW u \in Two, NEW handed \in ArtFiles, Store!BeginUpload(u, handed)
  PROVE  ArtInv'
<1> DEFINE new == [pc |-> IF Store!WithinQuota(handed) THEN "check" ELSE "refused", file |-> handed,
                   at |-> now, status |-> "clean", verdict |-> "not_scanned"]
<1>1. upload \in [Two -> UploadRecords] /\ now \in Nat /\ meta[u] \in Store!Metadata \cup {NoFile, Torn}
      /\ meta = [meta EXCEPT ![u] = meta[u]] /\ data \subseteq Two
  BY ServicesAssumption DEF ArtInv, ArtTyped
<1>2. upload[u].pc = "idle" /\ upload' = [upload EXCEPT ![u] = new]
      /\ UNCHANGED <<policy, now, data, meta, download, sweep, served, receipt, index, post>>
  BY DEF Store!BeginUpload, Store!receiptVars
<1>3. new.pc \in {"check", "refused"} /\ new.file = handed /\ new.at = now
      /\ new.status = "clean" /\ new.verdict = "not_scanned" /\ new \in UploadRecords
  BY <1>1 DEF UploadRecords
<1> HIDE DEF new
<1>4. upload'[u] = new
  BY <1>1, <1>2
<1>5. UploadMoves(u)
  BY <1>1, <1>2, <1>3, <1>4 DEF UploadMoves
<1>6. ~Store!Readable(u)'
  BY <1>2 DEF ArtInv, UploadHolds, Describes, Store!Readable
<1>7. UploadHolds(u)'
  BY <1>3, <1>4, <1>6 DEF UploadHolds
<1> QED BY <1>5, <1>7, UploadMovesKeep

LEMMA CheckKeeps ==
  ASSUME ArtInv, NEW u \in Two, NEW v \in {"not_scanned", "clean", "infected", "unavailable"},
         Store!Check(u, v)
  PROVE  ArtInv'
<1> DEFINE found == Store!StatusOf(upload[u].file, v)
           new == [upload[u] EXCEPT
                     !.pc = IF found \in Store!Statuses THEN "store" ELSE "refused",
                     !.status = found, !.verdict = v]
<1>1. upload \in [Two -> UploadRecords] /\ now \in Nat /\ meta[u] \in Store!Metadata \cup {NoFile, Torn}
      /\ meta = [meta EXCEPT ![u] = meta[u]] /\ data \subseteq Two
  BY ServicesAssumption DEF ArtInv, ArtTyped
<1>2. upload[u].pc = "check" /\ upload' = [upload EXCEPT ![u] = new]
      /\ UNCHANGED <<policy, now, data, meta, download, sweep, served, receipt, index, post>>
  BY DEF Store!Check, Store!receiptVars
<1>3. found \in {"clean", "buyer_scan_required", "blocked", "scan_unavailable"}
  BY StatusKinds
<1>4. upload[u].file \in ArtFiles
  BY <1>2 DEF ArtInv, UploadHolds
<1> HIDE DEF found
<1>5. new \in UploadRecords /\ new.file = upload[u].file /\ new.status = found /\ new.verdict = v
      /\ new.pc \in {"store", "refused"} /\ (new.pc = "store" => found \in Store!Statuses)
  BY ZenonT(40), <1>1, <1>3 DEF UploadRecords
<1> HIDE DEF new
<1>6. upload'[u] = new
  BY <1>1, <1>2
<1>7. UploadMoves(u)
  BY <1>1, <1>2, <1>5, <1>6 DEF UploadMoves
<1>8. ~Store!Readable(u)'
  BY <1>2 DEF ArtInv, UploadHolds, Describes, Store!Readable
<1>9. Store!StatusOf(upload[u].file, v)' = found
  BY <1>2, <1>5, <1>6 DEF found, Store!StatusOf, Store!StaticallyClean
<1>10. UploadHolds(u)'
  BY <1>4, <1>5, <1>6, <1>8, <1>9 DEF UploadHolds, Store!Statuses
<1> QED BY <1>7, <1>10, UploadMovesKeep

LEMMA StoreKeeps ==
  ASSUME ArtInv, NEW u \in Two, Store!Store(u)
  PROVE  ArtInv'
<1>1. /\ upload \in [Two -> UploadRecords] /\ now \in Nat
      /\ meta \in [Two -> Store!Metadata \cup {NoFile, Torn}]
      /\ data \subseteq Two /\ UploadHolds(u)
  BY ServicesAssumption DEF ArtInv, ArtTyped
<1>2. UNCHANGED <<policy, now, download, sweep, served, receipt, index, post>>
  BY DEF Store!Store, Store!receiptVars
<1>3. ASSUME upload[u].pc \in {"store", "name"},
             upload' = [upload EXCEPT ![u].pc = IF upload[u].pc = "store" THEN "name" ELSE "named"],
             data' = IF upload[u].pc = "store" THEN data \union {u} ELSE data,
             meta' = IF upload[u].pc = "store" THEN meta ELSE [meta EXCEPT ![u] = Torn]
      PROVE  ArtInv'
  <2>1. /\ upload'[u] = [upload[u] EXCEPT !.pc = IF upload[u].pc = "store" THEN "name" ELSE "named"]
        /\ upload'[u] \in UploadRecords /\ upload'[u].pc \in {"name", "named"}
        /\ upload'[u].file = upload[u].file /\ upload'[u].status = upload[u].status
        /\ upload'[u].verdict = upload[u].verdict
    BY <1>1, <1>3 DEF UploadRecords
  <2>2. UploadMoves(u)
    BY <1>1, <1>2, <1>3, <2>1 DEF UploadMoves
  <2>3. u \in data'
    BY <1>1, <1>3 DEF UploadHolds
  <2>4. ~Store!Readable(u)'
    BY <1>1, <1>3 DEF UploadHolds, Describes, Store!Readable
  <2>5. Store!StatusOf(upload[u].file, upload[u].verdict)'
          = Store!StatusOf(upload[u].file, upload[u].verdict)
    BY <1>2, <2>1 DEF Store!StatusOf, Store!StaticallyClean
  <2>6. UploadHolds(u)'
    BY <1>1, <1>3, <2>1, <2>3, <2>4, <2>5 DEF UploadHolds, Store!Statuses
  <2> QED BY <2>2, <2>6, UploadMovesKeep
<1>4. ASSUME upload[u].pc = "named", upload' = [upload EXCEPT ![u].pc = "done"], UNCHANGED data,
             meta' = [meta EXCEPT ![u] =
                [expires |-> upload[u].at + Retention, claimed |-> FALSE,
                 status |-> upload[u].status, size |-> upload[u].file.size]]
      PROVE  ArtInv'
  <2>1. /\ upload'[u] = [upload[u] EXCEPT !.pc = "done"]
        /\ upload'[u] \in UploadRecords /\ upload'[u].pc = "done"
        /\ upload'[u].file = upload[u].file /\ upload'[u].status = upload[u].status
        /\ upload'[u].verdict = upload[u].verdict /\ upload'[u].at = upload[u].at
    BY <1>1, <1>4 DEF UploadRecords
  <2>2. /\ upload[u].file \in ArtFiles /\ upload[u].at \in Nat
        /\ upload[u].status \in Store!Statuses
    BY <1>1, <1>4 DEF UploadHolds, UploadRecords
  <2>3. upload[u].file.size \in Nat /\ upload[u].at + Retention \in Nat
    BY <2>2, ServicesAssumption
  <2>4. /\ meta'[u] \in Store!Metadata
        /\ meta'[u].expires = upload[u].at + Retention /\ meta'[u].status = upload[u].status
    BY <1>1, <1>4, <2>2, <2>3 DEF Store!Metadata
  <2>5. UploadMoves(u)
    BY <1>1, <1>2, <1>4, <2>1, <2>4 DEF UploadMoves
  <2>6. Describes(meta[u], u)'
    BY <2>1, <2>4 DEF Describes, Ends, Store!Metadata, Store!Statuses
  <2>7. u \in data'
    BY <1>1, <1>4 DEF UploadHolds
  <2>8. Store!StatusOf(upload[u].file, upload[u].verdict)'
          = Store!StatusOf(upload[u].file, upload[u].verdict)
    BY <1>2, <2>1 DEF Store!StatusOf, Store!StaticallyClean
  <2>9. UploadHolds(u)'
    BY <1>1, <1>4, <2>1, <2>6, <2>7, <2>8 DEF UploadHolds, Store!Statuses
  <2> QED BY <2>5, <2>9, UploadMovesKeep
<1> QED BY <1>3, <1>4 DEF Store!Store, Store!StoreFiles

-----------------------------------------------------------------------------
(* Downloads, the sweep and the clock.                                     *)

LEMMA BeginDownloadKeeps ==
  ASSUME ArtInv, NEW d \in Downloads, NEW u \in Two, NEW risk \in BOOLEAN,
         Store!BeginDownload(d, u, risk)
  PROVE  ArtInv'
<1> DEFINE new == [pc |-> "authorize", of |-> u, risk |-> risk, meta |-> NoFile]
<1> USE DEF ArtInv
<1>1. /\ download' = [download EXCEPT ![d] = new] /\ upload[u].pc = "done" /\ Store!Readable(u)
      /\ (meta[u].status = "buyer_scan_required" => risk)
      /\ UNCHANGED <<policy, now, data, meta, upload, sweep, served, receipt, index, post>>
  BY DEF Store!BeginDownload, Store!receiptVars
<1>2. new \in DownloadRecords
  BY DEF DownloadRecords
<1>3. ArtTyped' /\ ReceiptsTyped'
  BY <1>1, <1>2 DEF ArtTyped, ReceiptsTyped
<1>4. now \in Nat /\ now' >= now
  BY <1>1, ServicesAssumption DEF ArtTyped
<1>5. SweepHolds' /\ ServedHolds' /\ \A c \in Downloads \ {d} : DownloadHolds(c)'
  BY <1>1, <1>4, DoneKeeps DEF ArtTyped
<1>6. AtHisRisk(u, risk)
  BY <1>1 DEF AtHisRisk, UploadHolds, Describes
<1>7. DownloadHolds(d)'
  BY <1>1, <1>6 DEF DownloadHolds, AtHisRisk, ArtTyped
<1>8. \A v \in Two : UploadHolds(v)'
  BY <1>1, <1>4, UploadStays DEF ArtTyped
<1> QED BY <1>3, <1>5, <1>7, <1>8

\* A step that changes the download d only, and what may be served.
DownloadMoves(d) ==
    /\ download' = [download EXCEPT ![d] = download'[d]] /\ download'[d] \in DownloadRecords
    /\ served' \subseteq Two \X BOOLEAN
    /\ UNCHANGED <<policy, now, data, upload, sweep, receipt, index, post>>

LEMMA DownloadMovesKeep ==
  ASSUME ArtInv, NEW d \in Downloads, DownloadMoves(d), UNCHANGED meta,
         DownloadHolds(d)', ServedHolds'
  PROVE  ArtInv'
<1> USE DEF ArtInv, DownloadMoves
<1>1. ArtTyped' /\ ReceiptsTyped'
  BY DEF ArtTyped, ReceiptsTyped
<1>2. now \in Nat /\ now' >= now /\ now' \in Nat
  BY ServicesAssumption DEF ArtTyped
<1>3. SweepHolds' /\ \A c \in Downloads \ {d} : DownloadHolds(c)'
  BY <1>2, DoneKeeps DEF ArtTyped
<1>4. \A v \in Two : UploadHolds(v)'
  BY <1>2, UploadStays DEF ArtTyped
<1> QED BY <1>1, <1>3, <1>4

LEMMA AuthorizeKeeps ==
  ASSUME ArtInv, NEW d \in Downloads, Store!Authorize(d)
  PROVE  ArtInv'
<1> DEFINE u == download[d].of
           new == IF Store!Readable(u) /\ ~Store!Expired(u)
                  THEN [download[d] EXCEPT !.pc = "read", !.meta = meta[u]]
                  ELSE [download[d] EXCEPT !.pc = "unavailable"]
<1> USE DEF ArtInv
<1>1. /\ download[d].pc = "authorize" /\ download' = [download EXCEPT ![d] = new]
      /\ UNCHANGED <<policy, now, data, meta, upload, sweep, served, receipt, index, post>>
  BY DEF Store!Authorize, Store!receiptVars
<1>2. /\ download \in [Downloads -> DownloadRecords] /\ AtHisRisk(u, download[d].risk)
      /\ u \in Two /\ UploadHolds(u) /\ served \subseteq Two \X BOOLEAN
      /\ meta[u] \in Store!Metadata \cup {NoFile, Torn}
  BY <1>1 DEF ArtTyped, DownloadHolds, AtHisRisk
<1>3. CASE Store!Readable(u) /\ ~Store!Expired(u)
  <2>1. Describes(meta[u], u) /\ meta[u] \in Store!Metadata
    BY <1>2, <1>3 DEF UploadHolds, Describes
  <2>2. /\ new \in DownloadRecords /\ new.pc = "read" /\ new.of = u /\ new.meta = meta[u]
        /\ new.risk = download[d].risk
    BY <1>2, <1>3, <2>1 DEF DownloadRecords
  <2> HIDE DEF new
  <2>3. download'[d] = new
    BY <1>1, <1>2
  <2>4. DownloadHolds(d)'
    BY <1>1, <1>2, <2>1, <2>2, <2>3 DEF DownloadHolds, Describes, AtHisRisk, Ends, Store!Metadata
  <2>5. ServedHolds'
    BY <1>1 DEF ServedHolds, AtHisRisk
  <2> QED BY <1>1, <1>2, <2>2, <2>3, <2>4, <2>5, DownloadMovesKeep DEF DownloadMoves
<1>4. CASE ~(Store!Readable(u) /\ ~Store!Expired(u))
  <2>1. new \in DownloadRecords /\ new.pc = "unavailable"
    BY <1>2, <1>4 DEF DownloadRecords
  <2> HIDE DEF new
  <2>2. download'[d] = new
    BY <1>1, <1>2
  <2>3. DownloadHolds(d)'
    BY <2>1, <2>2 DEF DownloadHolds
  <2>4. ServedHolds'
    BY <1>1 DEF ServedHolds, AtHisRisk
  <2> QED BY <1>1, <1>2, <2>1, <2>2, <2>3, <2>4, DownloadMovesKeep DEF DownloadMoves
<1> QED BY <1>3, <1>4

LEMMA ReadKeeps ==
  ASSUME ArtInv, NEW d \in Downloads, Store!Read(d)
  PROVE  ArtInv'
<1> DEFINE u == download[d].of
           pc == IF u \notin data THEN "unavailable"
                 ELSE IF download[d].meta.claimed THEN "answered" ELSE "claim"
           new == [download[d] EXCEPT !.pc = pc]
<1> USE DEF ArtInv
<1>1. /\ download[d].pc = "read" /\ download' = [download EXCEPT ![d] = new]
      /\ served' = IF u \in data THEN served \union {<<u, download[d].risk>>} ELSE served
      /\ UNCHANGED <<policy, now, data, meta, upload, sweep, receipt, index, post>>
  BY DEF Store!Read, Store!receiptVars
<1>2. /\ download \in [Downloads -> DownloadRecords] /\ AtHisRisk(u, download[d].risk)
      /\ Describes(download[d].meta, u)
      /\ u \in Two /\ served \subseteq Two \X BOOLEAN /\ download[d].risk \in BOOLEAN
  BY <1>1 DEF ArtTyped, DownloadHolds, AtHisRisk, DownloadRecords
<1>3. pc \in {"unavailable", "answered", "claim"}
  OBVIOUS
<1> HIDE DEF pc
<1>4. /\ new \in DownloadRecords /\ new.pc = pc /\ new.of = u /\ new.meta = download[d].meta
      /\ new.risk = download[d].risk
  BY <1>2, <1>3 DEF DownloadRecords
<1> HIDE DEF new
<1>5. download'[d] = new
  BY <1>1, <1>2
<1>6. upload[u].pc = "done" /\ upload'[u] = upload[u]
  BY <1>1, <1>2 DEF AtHisRisk
<1>7. DownloadHolds(d)'
  BY <1>2, <1>3, <1>4, <1>5, <1>6 DEF DownloadHolds, Describes, AtHisRisk, Ends, Store!Metadata
<1>8. ServedHolds'
  BY <1>1, <1>2 DEF ServedHolds, AtHisRisk
<1>9. served' \subseteq Two \X BOOLEAN
  BY <1>1, <1>2
<1>10. DownloadMoves(d) /\ UNCHANGED meta
  BY <1>1, <1>2, <1>4, <1>5, <1>9 DEF DownloadMoves
<1> QED BY <1>7, <1>8, <1>10, DownloadMovesKeep

\* A claim writes a copy of metadata that was read before, unless the file is gone.
LEMMA ClaimKeeps ==
  ASSUME ArtInv, NEW d \in Downloads, Store!Claim(d)
  PROVE  ArtInv'
<1> USE DEF ArtInv
<1>1. /\ download[d].pc \in {"claim", "claimed"}
      /\ download' = [download EXCEPT ![d].pc = IF download[d].pc = "claim" THEN "claimed"
                                               ELSE "answered"]
      /\ UNCHANGED <<policy, now, data, upload, sweep, served, receipt, index, post>>
  BY DEF Store!Claim, Store!receiptVars
<1>2. PICK u \in Two : u = download[d].of
  BY <1>1 DEF DownloadHolds, AtHisRisk
<1>3. PICK m \in Store!Metadata : m = download[d].meta
  BY <1>1 DEF DownloadHolds, Describes
<1>4. AtHisRisk(u, download[d].risk) /\ Describes(m, u)
  BY <1>1, <1>2, <1>3 DEF DownloadHolds
<1>5. \/ meta' = [meta EXCEPT ![u] = Torn]
      \/ meta' = [meta EXCEPT ![u] = IF @ = NoFile THEN NoFile ELSE [m EXCEPT !.claimed = TRUE]]
  BY <1>2, <1>3 DEF Store!Claim
<1>6. /\ [m EXCEPT !.claimed = TRUE] \in Store!Metadata
      /\ [m EXCEPT !.claimed = TRUE].expires = m.expires
      /\ [m EXCEPT !.claimed = TRUE].status = m.status
  BY <1>3 DEF Store!Metadata
<1>7. meta \in [Two -> Store!Metadata \cup {NoFile, Torn}] /\ now \in Nat
      /\ upload \in [Two -> UploadRecords] /\ download \in [Downloads -> DownloadRecords]
  BY ServicesAssumption DEF ArtTyped
<1>8. /\ meta' \in [Two -> Store!Metadata \cup {NoFile, Torn}]
      /\ \A v \in Two \ {u} : meta'[v] = meta[v]
      /\ Store!Readable(u)' => meta'[u] = [m EXCEPT !.claimed = TRUE]
  BY <1>5, <1>6, <1>7 DEF Store!Readable
<1>9. download' \in [Downloads -> DownloadRecords]
  BY <1>1, <1>7 DEF DownloadRecords
<1>10. ArtTyped' /\ ReceiptsTyped'
  BY <1>1, <1>8, <1>9 DEF ArtTyped, ReceiptsTyped
<1>11. SweepHolds' /\ ServedHolds' /\ \A c \in Downloads \ {d} : DownloadHolds(c)'
  BY <1>1, <1>7, DoneKeeps
<1>12. DownloadHolds(d)'
  <2>1. /\ download'[d].pc \in {"claimed", "answered"} /\ download'[d].of = u
        /\ download'[d].risk = download[d].risk /\ download'[d].meta = m
    BY <1>1, <1>2, <1>3, <1>7 DEF DownloadRecords
  <2> QED BY <1>1, <1>2, <1>4, <2>1 DEF DownloadHolds, AtHisRisk, Describes, Ends, Store!Metadata
<1>13. UploadHolds(u)'
  <2>1. Store!Readable(u)' => Describes(meta[u], u)'
    BY <1>1, <1>4, <1>6, <1>8 DEF Describes, Ends, Store!Metadata
  <2>2. Store!StatusOf(upload[u].file, upload[u].verdict)'
          = Store!StatusOf(upload[u].file, upload[u].verdict)
    BY <1>1 DEF Store!StatusOf, Store!StaticallyClean
  <2>3. UploadHolds(u) /\ Ends(u)' = Ends(u)
    BY <1>1 DEF Ends
  <2> QED BY <1>1, <2>1, <2>2, <2>3 DEF UploadHolds, Store!Statuses
<1>14. \A v \in Two \ {u} : UploadHolds(v)'
  BY <1>1, <1>7, <1>8, UploadStays
<1> QED BY <1>10, <1>11, <1>12, <1>13, <1>14

\* Steps of the sweep that remove nothing.
LEMMA SweepLooks ==
  ASSUME ArtInv, UNCHANGED <<policy, now, data, meta, upload, download, served, receipt, index, post>>,
         sweep' \in [pc : {"idle", "next", "metadata"}, left : SUBSET Two, at : Nat, of : SUBSET Two],
         SweepHolds'
  PROVE  ArtInv'
<1> USE DEF ArtInv
<1>1. ArtTyped' /\ ReceiptsTyped'
  BY DEF ArtTyped, ReceiptsTyped
<1>2. now \in Nat /\ now' >= now
  BY ServicesAssumption DEF ArtTyped
<1>3. ServedHolds' /\ \A d \in Downloads : DownloadHolds(d)'
  BY <1>2, DoneKeeps
<1>4. \A v \in Two : UploadHolds(v)'
  BY <1>2, UploadStays DEF ArtTyped
<1> QED BY <1>1, <1>3, <1>4

LEMMA SweepKeeps ==
  ASSUME ArtInv, Store!BeginSweep \/ Store!EndSweep \/ \E u \in Two : Store!SweepNext(u)
  PROVE  ArtInv'
<1> USE DEF ArtInv
<1>1. sweep \in [pc : {"idle", "next", "metadata", "data"}, left : SUBSET Two, at : Nat, of : SUBSET Two]
      /\ now \in Nat /\ sweep.at <= now
  BY ServicesAssumption DEF ArtTyped, SweepHolds
<1>2. CASE Store!BeginSweep
  <2>1. sweep'.at = now /\ sweep'.pc = "next" /\ now' = now
        /\ sweep' \in [pc : {"idle", "next", "metadata"}, left : SUBSET Two, at : Nat, of : SUBSET Two]
    BY <1>1, <1>2 DEF Store!BeginSweep
  <2> QED BY <1>1, <1>2, <2>1, SweepLooks DEF SweepHolds, Store!BeginSweep, Store!receiptVars
<1>3. CASE Store!EndSweep
  <2>1. sweep'.at = 0 /\ sweep'.pc = "idle" /\ now' = now
        /\ sweep' \in [pc : {"idle", "next", "metadata"}, left : SUBSET Two, at : Nat, of : SUBSET Two]
    BY <1>3 DEF Store!EndSweep, Store!NoSweep
  <2> QED BY <1>1, <1>3, <2>1, SweepLooks DEF SweepHolds, Store!EndSweep, Store!receiptVars
<1>4. ASSUME NEW u \in Two, Store!SweepNext(u) PROVE ArtInv'
  <2>1. /\ sweep'.at = sweep.at /\ sweep'.left \subseteq Two
        /\ sweep' = [pc |-> sweep'.pc, left |-> sweep'.left, at |-> sweep'.at, of |-> sweep'.of]
        /\ \/ sweep'.pc = "metadata" /\ sweep'.of = {u} /\ Store!Swept(u)
           \/ sweep'.pc = "next" /\ sweep'.of = {}
    BY <1>1, <1>4 DEF Store!SweepNext
  <2>2. sweep' \in [pc : {"idle", "next", "metadata"}, left : SUBSET Two, at : Nat, of : SUBSET Two]
    BY <1>1, <2>1
  <2>3. Store!Swept(u) => upload[u].pc = "done" /\ Ends(u) <= sweep.at
    BY DEF Store!Swept, UploadHolds, Describes
  <2>4. UNCHANGED <<policy, now, data, meta, upload, download, served, receipt, index, post>>
    BY <1>4 DEF Store!SweepNext, Store!receiptVars
  <2>5. SweepHolds'
    BY <1>1, <2>1, <2>3, <2>4 DEF SweepHolds, Ends
  <2> QED BY <2>2, <2>4, <2>5, SweepLooks
<1> QED BY <1>2, <1>3, <1>4

LEMMA SweepRemovesKeeps ==
  ASSUME ArtInv, Store!SweepRemoves
  PROVE  ArtInv'
<1> USE DEF ArtInv
<1>1. /\ sweep \in [pc : {"idle", "next", "metadata", "data"}, left : SUBSET Two, at : Nat, of : SUBSET Two]
      /\ now \in Nat /\ sweep.at <= now /\ data \subseteq Two
      /\ meta \in [Two -> Store!Metadata \cup {NoFile, Torn}]
      /\ upload \in [Two -> UploadRecords]
  BY ServicesAssumption DEF ArtTyped, SweepHolds
<1>2. /\ sweep.pc \in {"metadata", "data"}
      /\ \A u \in sweep.of : upload[u].pc = "done" /\ Ends(u) <= sweep.at
      /\ sweep' = [sweep EXCEPT !.pc = IF sweep.pc = "metadata" THEN "data" ELSE "next"]
      /\ meta' = [u \in Two |-> IF u \in sweep.of /\ sweep.pc = "metadata" THEN NoFile ELSE meta[u]]
      /\ data' = data \ (IF sweep.pc = "data" THEN sweep.of ELSE {})
      /\ UNCHANGED <<policy, now, upload, download, served, receipt, index, post>>
  BY <1>1 DEF Store!SweepRemoves, Store!receiptVars, SweepHolds
<1>3. /\ sweep' \in [pc : {"data", "next"}, left : SUBSET Two, at : Nat, of : SUBSET Two]
      /\ sweep'.at = sweep.at /\ sweep'.of = sweep.of
  BY <1>1, <1>2
<1>4. ArtTyped' /\ ReceiptsTyped'
  BY <1>1, <1>2, <1>3 DEF ArtTyped, ReceiptsTyped
<1>5. ServedHolds' /\ \A d \in Downloads : DownloadHolds(d)'
  BY <1>1, <1>2, DoneKeeps
<1>6. SweepHolds'
  BY <1>1, <1>2, <1>3 DEF SweepHolds, Ends
<1>7. ASSUME NEW v \in Two PROVE UploadHolds(v)'
  <2>1. UploadHolds(v) /\ Ends(v)' = Ends(v) /\ upload'[v] = upload[v] /\ Ends(v) \in Nat
    BY <1>1, <1>2, ServicesAssumption DEF Ends, UploadRecords
  <2>2. Store!StatusOf(upload[v].file, upload[v].verdict)'
          = Store!StatusOf(upload[v].file, upload[v].verdict)
    BY <1>2 DEF Store!StatusOf, Store!StaticallyClean
  <2>3. v \in data /\ v \notin data' => upload[v].pc = "done" /\ Ends(v) <= now
    BY <1>1, <1>2, <2>1
  <2>4. Store!Readable(v)' => Describes(meta[v], v)'
    BY <1>2, <2>1 DEF UploadHolds, Store!Readable, Describes, Store!Metadata
  <2> QED BY <1>2, <2>1, <2>2, <2>3, <2>4 DEF UploadHolds, Store!Statuses
<1> QED BY <1>4, <1>5, <1>6, <1>7

LEMMA ClockKeeps ==
  ASSUME ArtInv, Store!Tick
  PROVE  ArtInv'
<1> USE DEF ArtInv
<1>1. /\ now \in 0..LastTime /\ now' \in 0..LastTime /\ now' >= now /\ now' \in Nat /\ now \in Nat
      /\ UNCHANGED <<policy, data, meta, upload, download, sweep, served, receipt, index, post>>
  BY ServicesAssumption DEF ArtTyped, Store!Tick, Store!artifactVars, Store!receiptVars
<1>2. ArtTyped' /\ ReceiptsTyped'
  BY <1>1 DEF ArtTyped, ReceiptsTyped
<1>3. SweepHolds' /\ ServedHolds' /\ \A d \in Downloads : DownloadHolds(d)'
  BY <1>1, DoneKeeps
<1>4. \A v \in Two : UploadHolds(v)'
  BY <1>1, UploadStays DEF ArtTyped
<1> QED BY <1>2, <1>3, <1>4

LEMMA RestartKeeps ==
  ASSUME ArtInv, Store!Crash
  PROVE  ArtInv'
<1> USE DEF ArtInv
<1>1. /\ upload' = [u \in Two |-> IF upload[u].pc \in {"idle", "done", "refused"} THEN upload[u]
                                 ELSE [upload[u] EXCEPT !.pc = "refused"]]
      /\ download' = [d \in Downloads |-> IF download[d].pc = "idle" THEN download[d]
                                         ELSE [download[d] EXCEPT !.pc = "unavailable"]]
      /\ sweep' = [pc |-> "idle", left |-> {}, at |-> 0, of |-> {}]
      /\ post' = [x \in Receipts |-> [pc |-> "idle", index |-> {}, copy |-> NoFile]]
      /\ UNCHANGED <<policy, now, data, meta, served, receipt, index>>
  BY DEF Store!Crash, Store!NoSweep, Store!Idle
<1>2. /\ upload \in [Two -> UploadRecords] /\ download \in [Downloads -> DownloadRecords]
      /\ now \in Nat
  BY ServicesAssumption DEF ArtTyped
<1>3. upload' \in [Two -> UploadRecords]
  BY ZenonT(40), <1>1, <1>2 DEF UploadRecords
<1>4. download' \in [Downloads -> DownloadRecords]
  BY <1>1, <1>2 DEF DownloadRecords
<1>5. ArtTyped' /\ ReceiptsTyped'
  BY <1>1, <1>3, <1>4 DEF ArtTyped, ReceiptsTyped
<1>6. SweepHolds'
  BY <1>1, <1>2 DEF SweepHolds
<1>7. \A u \in Two : upload[u].pc = "done" => upload'[u] = upload[u]
  BY <1>1
<1>8. ServedHolds'
  BY <1>1, <1>2, <1>7, DoneKeeps
<1>9. \A d \in Downloads : download'[d].pc \in {"idle", "unavailable"}
  BY <1>1, <1>2 DEF DownloadRecords
<1>10. \A d \in Downloads : DownloadHolds(d)'
  BY <1>9 DEF DownloadHolds
<1>11. ASSUME NEW v \in Two PROVE UploadHolds(v)'
  <2>1. CASE upload[v].pc \in {"idle", "done", "refused"}
    BY <1>1, <1>2, <2>1, UploadStays
  <2>2. CASE upload[v].pc \notin {"idle", "done", "refused"}
    <3>1. upload'[v].pc = "refused"
      BY <1>1, <1>2, <2>2 DEF UploadRecords
    <3>2. ~Store!Readable(v)'
      BY <1>1, <2>2 DEF UploadHolds, Describes, Store!Readable
    <3> QED BY <3>1, <3>2 DEF UploadHolds
  <2> QED BY <2>1, <2>2
<1> QED BY <1>5, <1>6, <1>8, <1>10, <1>11

\* Receipts have nothing to do with uploads.
LEMMA ReceiptsKeep ==
  ASSUME ArtInv, Store!ReceiptNext
  PROVE  ArtInv'
<1> USE DEF ArtInv
<1> DEFINE Posts1 == [pc : {"idle", "index", "write", "writing", "answer"},
                      index : SUBSET Receipts, copy : Store!ReceiptRecords \cup {NoFile}]
<1>1. UNCHANGED <<policy, now, data, meta, upload, download, sweep, served>>
  BY DEF Store!ReceiptNext, Store!CreateReceipt, Store!AddToIndex, Store!BeginAcknowledge,
         Store!Acknowledge, Store!artifactVars
<1>2. ArtTyped' /\ SweepHolds' /\ ServedHolds' /\ (\A d \in Downloads : DownloadHolds(d)')
      /\ \A u \in Two : UploadHolds(u)'
  <2>1. now \in Nat
    BY ServicesAssumption DEF ArtTyped
  <2>2. ArtTyped'
    BY <1>1 DEF ArtTyped
  <2> QED BY <1>1, <2>1, <2>2, DoneKeeps, UploadStays DEF ArtTyped
<1>3. ReceiptsTyped'
  <2> USE DEF ReceiptsTyped
  <2>1. /\ receipt \in [Receipts -> Store!ReceiptRecords \cup {NoFile, Torn}]
        /\ index = Torn \/ index \subseteq Receipts
        /\ post \in [Receipts -> Posts1]
        /\ \A x \in Receipts : post[x].pc = "answer" => post[x].copy \in Store!ReceiptRecords
    OBVIOUS
  <2>2. ASSUME NEW x \in Receipts, NEW needs \in BOOLEAN, Store!CreateReceipt(x, needs)
        PROVE  ReceiptsTyped'
    <3>1. [needs |-> needs, accepted |-> IF needs THEN "pending" ELSE "not_required",
           bytes |-> FALSE, verified |-> FALSE, scan |-> "not_scanned"] \in Store!ReceiptRecords
      BY DEF Store!ReceiptRecords
    <3>2. post' \in [Receipts -> Posts1] /\ post'[x].pc = "index"
          /\ \A y \in Receipts \ {x} : post'[y] = post[y]
      BY <2>1, <2>2 DEF Store!CreateReceipt
    <3> QED BY <2>1, <2>2, <3>1, <3>2 DEF Store!CreateReceipt
  <2>3. ASSUME NEW x \in Receipts, Store!AddToIndex(x) PROVE ReceiptsTyped'
    <3>1. Store!Indexed(index) \subseteq Receipts
      BY <2>1 DEF Store!Indexed
    <3>2. post'[x].pc \in {"write", "writing", "idle"} /\ post' \in [Receipts -> Posts1]
          /\ \A y \in Receipts \ {x} : post'[y] = post[y]
      BY <2>1, <2>3, <3>1 DEF Store!AddToIndex
    <3>3. index' = Torn \/ index' \subseteq Receipts
      BY <2>1, <2>3 DEF Store!AddToIndex
    <3> QED BY <2>1, <2>3, <3>2, <3>3 DEF Store!AddToIndex
  <2>4. ASSUME NEW x \in Receipts, Store!BeginAcknowledge(x) PROVE ReceiptsTyped'
    <3>1. receipt[x] \in Store!ReceiptRecords
      BY <2>1, <2>4 DEF Store!BeginAcknowledge, Store!Known
    <3>2. post' \in [Receipts -> Posts1] /\ post'[x].copy \in Store!ReceiptRecords
          /\ \A y \in Receipts \ {x} : post'[y] = post[y]
      BY <2>1, <2>4, <3>1 DEF Store!BeginAcknowledge
    <3> QED BY <2>1, <2>4, <3>2 DEF Store!BeginAcknowledge
  <2>5. ASSUME NEW x \in Receipts, NEW accepted \in {"accepted", "rejected"},
               NEW bytes \in BOOLEAN, NEW verified \in BOOLEAN,
               NEW scan \in {"not_scanned", "passed", "failed"},
               Store!Acknowledge(x, accepted, bytes, verified, scan)
        PROVE  ReceiptsTyped'
    <3>1. post[x].copy \in Store!ReceiptRecords
      BY <2>1, <2>5 DEF Store!Acknowledge
    <3>2. [post[x].copy EXCEPT !.accepted = accepted, !.bytes = bytes, !.verified = verified,
                               !.scan = scan] \in Store!ReceiptRecords
      BY <3>1 DEF Store!ReceiptRecords
    <3>3. post' \in [Receipts -> Posts1] /\ post'[x].pc = "idle"
          /\ \A y \in Receipts \ {x} : post'[y] = post[y]
      BY <2>1, <2>5 DEF Store!Acknowledge
    <3> QED BY <2>1, <2>5, <3>2, <3>3 DEF Store!Acknowledge
  <2> QED BY <2>2, <2>3, <2>4, <2>5 DEF Store!ReceiptNext
<1> QED BY <1>2, <1>3

LEMMA ArtifactsNextKeep ==
  ASSUME ArtInv, Store!ArtifactNext \/ Store!ReceiptNext \/ Store!Crash
  PROVE  ArtInv'
BY BeginUploadKeeps, CheckKeeps, StoreKeeps, BeginDownloadKeeps, AuthorizeKeeps, ReadKeeps,
   ClaimKeeps, SweepKeeps, SweepRemovesKeeps, ClockKeeps, RestartKeeps, ReceiptsKeep
   DEF Store!ArtifactNext

\* What passes the checks: sealed for the buyer, or found clean.
LEMMA StatusChecked ==
  ASSUME NEW handed, NEW verdict, NEW found, found = Store!StatusOf(handed, verdict),
         found \in {"clean", "buyer_scan_required"}
  PROVE  /\ handed.mode = "buyer_encrypted" =>
                handed.kind = "encrypted" /\ found = "buyer_scan_required"
         /\ handed.mode # "buyer_encrypted" =>
                /\ Store!StaticallyClean(handed) /\ verdict # "infected"
                /\ policy.required => verdict = "clean"
BY DEF Store!StatusOf

\* What the properties say follows from what is said of each upload.
LEMMA ArtifactsKept ==
  ASSUME ArtInv
  PROVE  Store!ArtTypeOK /\ Store!ArtifactsAreWhole /\ Store!ServedIsScanned
<1> USE DEF ArtInv
<1>1. Store!ArtTypeOK
  BY DEF Store!ArtTypeOK, ArtTyped, ReceiptsTyped, UploadRecords, DownloadRecords, Store!Readable,
         Store!Known
<1>2. Store!ArtifactsAreWhole
  <2> SUFFICES ASSUME NEW u \in Two, Store!Readable(u), ~Store!Expired(u) PROVE u \in data
    BY DEF Store!ArtifactsAreWhole
  <2>1. UploadHolds(u) /\ Describes(meta[u], u) /\ now \in Nat /\ Ends(u) \in Nat
    BY ServicesAssumption DEF UploadHolds, ArtTyped, Ends, UploadRecords
  <2> QED BY <2>1 DEF UploadHolds, Describes, Store!Expired
<1>3. Store!ServedIsScanned
  <2> SUFFICES ASSUME NEW s \in served
               PROVE  LET handed == upload[s[1]].file
                      IN  IF handed.mode = "buyer_encrypted" THEN s[2] /\ handed.kind = "encrypted"
                          ELSE /\ Store!StaticallyClean(handed)
                               /\ upload[s[1]].verdict # "infected"
                               /\ policy.required => upload[s[1]].verdict = "clean"
    BY DEF Store!ServedIsScanned
  <2> DEFINE u == s[1]
             handed == upload[u].file
             verdict == upload[u].verdict
  <2>1. AtHisRisk(u, s[2]) /\ UploadHolds(u) /\ u \in Two
    BY DEF ServedHolds, AtHisRisk
  <2>2. /\ upload[u].status \in {"clean", "buyer_scan_required"}
        /\ upload[u].status = Store!StatusOf(handed, verdict)
        /\ upload[u].status = "buyer_scan_required" => s[2]
    BY <2>1 DEF UploadHolds, AtHisRisk, Store!Statuses
  <2>3. /\ handed.mode = "buyer_encrypted" => handed.kind = "encrypted" /\ s[2]
        /\ handed.mode # "buyer_encrypted" =>
              /\ Store!StaticallyClean(handed) /\ verdict # "infected"
              /\ policy.required => verdict = "clean"
    <3> HIDE DEF u, handed, verdict
    <3> QED BY <2>2, StatusChecked
  <2> QED BY <2>3
<1> QED BY <1>1, <1>2, <1>3

ArtifactsInv == part \in {"artifacts", "receipts"} => ArtInv

\* In a behaviour of the services in which the artifact store moves, an artifact that can
\* be authorized has its bytes and what buyers were given was found clean or taken at
\* their risk, for any numbers of uploads, downloads and restarts, whatever the sweep and
\* claims from old copies write (ArtifactStore.create, read, cleanupExpired).
THEOREM ArtifactsHoldAlways == ServicesSpec => []ArtifactsHold
<1>1. ServicesInit => ArtifactsInv
  BY ArtifactsBegin DEF ServicesInit, ArtifactsInv
<1>2. ArtifactsInv /\ [ServicesNext]_allVars => ArtifactsInv'
  <2> SUFFICES ASSUME ArtifactsInv, [ServicesNext]_allVars, part' \in {"artifacts", "receipts"}
               PROVE  ArtInv'
    BY DEF ArtifactsInv
  <2>1. CASE StoreParts
    <3>1. part = part' /\ ArtInv
      BY <2>1 DEF StoreParts, Only, ArtifactsInv
    <3> QED BY <2>1, <3>1, ArtifactsNextKeep DEF StoreParts
  <2>2. CASE UNCHANGED allVars
    <3>1. part = part' /\ ArtInv
      BY <2>2 DEF allVars, ArtifactsInv
    <3>2. UNCHANGED <<policy, now, data, meta, upload, download, sweep, served, receipt, index, post>>
      BY <2>2 DEF allVars, artVars
    <3>3. now \in Nat
      BY <3>1, ServicesAssumption DEF ArtInv, ArtTyped
    <3>4. ArtTyped' /\ ReceiptsTyped'
      BY <3>1, <3>2 DEF ArtInv, ArtTyped, ReceiptsTyped
    <3> QED BY <3>1, <3>2, <3>3, <3>4, DoneKeeps, UploadStays DEF ArtInv, ArtTyped
  <2>3. CASE ServicesNext /\ ~StoreParts
    <3>1. part' = part /\ part \notin {"artifacts", "receipts"}
      BY SMTT(40), <2>3 DEF ServicesNext, LiveParts, BooksPart, BoardPart, AccessParts, BlobsPart,
                  LanePart, IngressPart, ToolsPart, GasPart, ProofPart, PrivacyPart, Only
    <3> QED BY <3>1
  <2> QED BY <2>1, <2>2, <2>3
<1>3. ArtifactsInv => ArtifactsHold
  BY ArtifactsKept DEF ArtifactsInv, ArtifactsHold
<1> QED BY <1>1, <1>2, <1>3, PTL DEF ServicesSpec

-----------------------------------------------------------------------------
(* The buyer's tools.  What is said of one service does not depend on the   *)
(* others.  Nothing undoes a completed hire or a settled entry, so what a   *)
(* call has found of its quote it may still say when it answers: the answer *)
(* that the script takes for completed is given only of a quote that is     *)
(* done, or when the settlement the call waited for was made.               *)

\* The work of the quote is complete, and its money has moved.
IsDone(i) == i.hire = "completed" /\ i.entry = "settled" /\ i.moved

IntentHolds(i) ==
    /\ i \in IntentRecords
    /\ i.entry = "settled" \/ i.status = "settled" => IsDone(i)

\* The quotes of a service are accepted in order, and each keeps its intent.
QuotesHold(ins) ==
    /\ ins \in [Tools!Quotes -> IntentRecords \cup {Nothing}]
    /\ \A q \in Tools!Quotes : ins[q] # Nothing => IntentHolds(ins[q])
    /\ \E n \in 0..MaxQuotes : \A q \in Tools!Quotes : ins[q] # Nothing <=> q <= n

Known(ins, q) == q \in Tools!Quotes /\ ins[q] # Nothing

ManifestHolds(ins, m, askable) ==
    m # Nothing => Known(ins, m.quote) /\ m.requirement \in askable

CallHolds(ins, c) ==
    c # Nothing =>
       /\ c = [quote |-> c.quote, payload |-> c.payload, at |-> c.at, answer |-> c.answer]
       /\ Known(ins, c.quote)
       /\ c.at \in {"sent", "hiring", "settling", "recording", "answered"}
       /\ c.at = "settling" => ins[c.quote].hire = "completed"
       /\ c.at = "recording" => IsDone(ins[c.quote])
       /\ c.at = "answered" /\ Tools!Summary(c.answer) = "paid_execution_completed"
             => IsDone(ins[c.quote])

ReportHolds(ins, r) ==
    r # Nothing /\ r.code = "paid_execution_completed" =>
       Known(ins, r.quote) /\ IsDone(ins[r.quote])

ServiceHolds(s) ==
    /\ terms[s] \in AskedTerms[s]
    /\ QuotesHold(intents[s])
    /\ ManifestHolds(intents[s], quoteManifest[s], AskedTerms[s])
    /\ CallHolds(intents[s], payCall[s])
    /\ ReportHolds(intents[s], printed[s])

ToolsTyped ==
    /\ stage \in [Bought -> {"idle", "asking", "accepting"}]
    /\ tries \in [Bought -> 0..MaxTries] /\ pays \in [Bought -> 0..MaxPays]
    /\ DOMAIN terms = Bought /\ DOMAIN intents = Bought /\ DOMAIN quoteManifest = Bought
    /\ DOMAIN payCall = Bought /\ DOMAIN printed = Bought

ToolsInv == ToolsTyped /\ \A s \in Bought : ServiceHolds(s)

\* The quotes jns are those of ins, later.
Later(ins, jns) ==
    \A q \in Tools!Quotes : ins[q] # Nothing =>
       /\ jns[q] # Nothing
       /\ ins[q].hire = "completed" => jns[q].hire = "completed"
       /\ IsDone(ins[q]) => IsDone(jns[q])

LEMMA LaterKeeps ==
  ASSUME NEW ins, NEW jns, Later(ins, jns)
  PROVE  /\ \A m, askable : ManifestHolds(ins, m, askable) => ManifestHolds(jns, m, askable)
         /\ \A c : CallHolds(ins, c) => CallHolds(jns, c)
         /\ \A r : ReportHolds(ins, r) => ReportHolds(jns, r)
<1>1. \A m, askable : ManifestHolds(ins, m, askable) => ManifestHolds(jns, m, askable)
  BY DEF ManifestHolds, Known, Later
<1>2. ASSUME NEW c, CallHolds(ins, c) PROVE CallHolds(jns, c)
  BY <1>2 DEF CallHolds, Known, Later
<1>3. \A r : ReportHolds(ins, r) => ReportHolds(jns, r)
  BY DEF ReportHolds, Known, Later
<1> QED BY <1>1, <1>2, <1>3

\* An intent takes the place of its earlier self.
LEMMA IntentMoves ==
  ASSUME NEW ins, NEW q, NEW j, QuotesHold(ins), Known(ins, q), IntentHolds(j),
         ins[q].hire = "completed" => j.hire = "completed",
         IsDone(ins[q]) => IsDone(j)
  PROVE  /\ QuotesHold([ins EXCEPT ![q] = j]) /\ Later(ins, [ins EXCEPT ![q] = j])
         /\ [ins EXCEPT ![q] = j][q] = j
<1> DEFINE jns == [ins EXCEPT ![q] = j]
<1>1. j \in IntentRecords /\ j # Nothing /\ q \in Tools!Quotes
  BY ServicesAssumption DEF IntentHolds, Known
<1>2. /\ jns \in [Tools!Quotes -> IntentRecords \cup {Nothing}] /\ jns[q] = j
      /\ \A o \in Tools!Quotes \ {q} : jns[o] = ins[o]
  BY <1>1 DEF QuotesHold
<1> HIDE DEF jns
<1>3. \A o \in Tools!Quotes : jns[o] # Nothing <=> ins[o] # Nothing
  BY <1>1, <1>2 DEF Known
<1>4. QuotesHold(jns)
  BY <1>2, <1>3 DEF QuotesHold
<1>5. Later(ins, jns)
  BY <1>2, <1>3 DEF Later
<1> QED BY <1>2, <1>4, <1>5 DEF jns

LEMMA MovedIsKnown ==
  ASSUME NEW ins, NEW q, NEW j, QuotesHold(ins), Known(ins, q), IntentHolds(j)
  PROVE  Known([ins EXCEPT ![q] = j], q) /\ [ins EXCEPT ![q] = j][q] = j
<1>1. j # Nothing
  BY ServicesAssumption DEF IntentHolds
<1>2. [ins EXCEPT ![q] = j][q] = j
  BY DEF QuotesHold, Known
<1> QED BY <1>1, <1>2 DEF Known

\* The next quote is accepted.
LEMMA QuoteAccepted ==
  ASSUME NEW ins, NEW t \in TermsRecords, NEW n, QuotesHold(ins),
         n = Cardinality({q \in Tools!Quotes : ins[q] # Nothing}), n < MaxQuotes
  PROVE  LET jns == [ins EXCEPT ![n + 1] = Tools!NewIntent(t)]
         IN  QuotesHold(jns) /\ Later(ins, jns) /\ Known(jns, n + 1)
<1> DEFINE jns == [ins EXCEPT ![n + 1] = Tools!NewIntent(t)]
<1>1. PICK last \in 0..MaxQuotes : \A q \in Tools!Quotes : ins[q] # Nothing <=> q <= last
  BY DEF QuotesHold
<1>2. MaxQuotes \in Nat
  BY ServicesAssumption
<1>3. {q \in Tools!Quotes : ins[q] # Nothing} = 1..last
  BY <1>1, <1>2 DEF Tools!Quotes
<1>4. n = last
  <2>1. Cardinality(1..last) = IF 1 > last THEN 0 ELSE last - 1 + 1
    BY <1>1, <1>2, FS_Interval
  <2>2. Cardinality(1..last) = last
    BY <1>1, <1>2, <2>1
  <2>3. n = Cardinality(1..last)
    BY <1>3
  <2> QED BY <2>2, <2>3
<1>5. n + 1 \in Tools!Quotes /\ ins[n + 1] = Nothing
  BY <1>1, <1>2, <1>4 DEF Tools!Quotes
<1>6. /\ IntentHolds(Tools!NewIntent(t)) /\ Tools!NewIntent(t) # Nothing
  <2>1. Tools!NewIntent(t) \in IntentRecords
    BY DEF Tools!NewIntent, IntentRecords, TermsRecords
  <2>2. Tools!NewIntent(t).entry = "none" /\ Tools!NewIntent(t).status = "pending"
    BY DEF Tools!NewIntent
  <2> QED BY <2>1, <2>2, ServicesAssumption DEF IntentHolds
<1>7. /\ jns \in [Tools!Quotes -> IntentRecords \cup {Nothing}]
      /\ jns[n + 1] = Tools!NewIntent(t)
      /\ \A o \in Tools!Quotes \ {n + 1} : jns[o] = ins[o]
  BY <1>5, <1>6 DEF QuotesHold, IntentHolds
<1> HIDE DEF jns
<1>8. \A q \in Tools!Quotes : jns[q] # Nothing <=> q <= n + 1
  <2>1. ASSUME NEW q \in Tools!Quotes, q # n + 1 PROVE jns[q] # Nothing <=> q <= n + 1
    <3>1. q \in Nat /\ last \in Nat /\ (jns[q] # Nothing <=> q <= last)
      BY <1>1, <1>2, <1>7, <2>1 DEF Tools!Quotes
    <3> QED BY <1>4, <2>1, <3>1
  <2>2. jns[n + 1] # Nothing /\ n + 1 <= n + 1
    BY <1>1, <1>4, <1>6, <1>7
  <2> QED BY <2>1, <2>2
<1>9. n + 1 \in 0..MaxQuotes
  BY <1>1, <1>2, <1>4
<1>10. QuotesHold(jns)
  <2>1. \A q \in Tools!Quotes : jns[q] # Nothing => IntentHolds(jns[q])
    BY <1>6, <1>7 DEF QuotesHold
  <2> QED BY <1>7, <1>8, <1>9, <2>1 DEF QuotesHold
<1>11. Later(ins, jns) /\ Known(jns, n + 1)
  BY <1>5, <1>6, <1>7 DEF Later, Known
<1> QED BY <1>10, <1>11 DEF jns

\* What a step of one service must show: the others keep what is said of them.
LEMMA OneServiceMoves ==
  ASSUME ToolsInv, ToolsTyped', NEW s \in Bought, ServiceHolds(s)',
         \A o \in Bought \ {s} : /\ terms'[o] = terms[o] /\ intents'[o] = intents[o]
                                 /\ quoteManifest'[o] = quoteManifest[o]
                                 /\ payCall'[o] = payCall[o] /\ printed'[o] = printed[o]
  PROVE  ToolsInv'
<1>1. ASSUME NEW o \in Bought \ {s} PROVE ServiceHolds(o)'
  BY <1>1 DEF ToolsInv, ServiceHolds
<1> QED BY <1>1 DEF ToolsInv

LEMMA ToolsBegin ==
  ASSUME Tools!ToolsInit
  PROVE  ToolsInv
<1>1. 0 \in 0..MaxTries /\ 0 \in 0..MaxPays /\ 0 \in 0..MaxQuotes
  BY ServicesAssumption
<1>2. ToolsTyped
  BY <1>1 DEF Tools!ToolsInit, ToolsTyped
<1>3. ASSUME NEW s \in Bought PROVE ServiceHolds(s)
  <2>1. terms[s] \in AskedTerms[s]
    BY DEF Tools!ToolsInit, TermsOf
  <2>2. intents[s] = [q \in Tools!Quotes |-> Nothing]
    BY DEF Tools!ToolsInit
  <2>3. \A q \in Tools!Quotes : ~(q <= 0)
    BY ServicesAssumption DEF Tools!Quotes
  <2>4. QuotesHold(intents[s])
    BY <1>1, <2>2, <2>3 DEF QuotesHold
  <2>5. quoteManifest[s] = Nothing /\ payCall[s] = Nothing /\ printed[s] = Nothing
    BY DEF Tools!ToolsInit
  <2> QED BY <2>1, <2>4, <2>5 DEF ServiceHolds, ManifestHolds, CallHolds, ReportHolds
<1> QED BY <1>2, <1>3 DEF ToolsInv

\* The SDK's steps, but for an acceptance.
LEMMA PrepareKeeps ==
  ASSUME ToolsInv, NEW s \in Bought,
         Tools!Prepare(s) \/ Tools!AskQuote(s) \/ Tools!AcceptFails(s)
  PROVE  ToolsInv'
<1> USE DEF ToolsInv
<1>1. 0 \in 0..MaxTries /\ 1 \in 0..MaxTries /\ tries[s] \in 0..MaxTries
      /\ (tries[s] < MaxTries => tries[s] + 1 \in 0..MaxTries)
  BY ServicesAssumption DEF ToolsTyped
<1>2. UNCHANGED <<terms, intents, quoteManifest, payCall, printed, pays>>
  BY DEF Tools!Prepare, Tools!AskQuote, Tools!AcceptFails
<1>3. /\ stage' \in [Bought -> {"idle", "asking", "accepting"}]
      /\ tries' \in [Bought -> 0..MaxTries]
  BY <1>1 DEF Tools!Prepare, Tools!AskQuote, Tools!AcceptFails, Tools!Retried, ToolsTyped
<1>4. ToolsTyped'
  BY <1>2, <1>3 DEF ToolsTyped
<1> QED BY <1>2, <1>4, OneServiceMoves DEF ServiceHolds

LEMMA AcceptKeeps ==
  ASSUME ToolsInv, NEW s \in Bought, Tools!AcceptQuote(s)
  PROVE  ToolsInv'
<1> USE DEF ToolsInv
<1> DEFINE n == Tools!Accepted(s)
           jns == [intents[s] EXCEPT ![n + 1] = Tools!NewIntent(terms[s])]
<1>1. 0 \in 0..MaxTries /\ tries[s] \in 0..MaxTries
      /\ (tries[s] < MaxTries => tries[s] + 1 \in 0..MaxTries)
  BY ServicesAssumption DEF ToolsTyped
<1>2. ServiceHolds(s) /\ terms[s] \in AskedTerms[s] /\ terms[s] \in TermsRecords
  BY ServicesAssumption DEF ServiceHolds
<1>3. QuotesHold(jns) /\ Later(intents[s], jns) /\ Known(jns, n + 1)
  <2>1. n < MaxQuotes
    BY DEF Tools!AcceptQuote
  <2>2. n = Cardinality({q \in Tools!Quotes : intents[s][q] # Nothing})
    BY DEF Tools!Accepted, Tools!Cardinality, Cardinality
  <2> HIDE DEF n
  <2> QED BY <1>2, <2>1, <2>2, QuoteAccepted DEF ServiceHolds
<1>4. intents' = [intents EXCEPT ![s] = jns]
      /\ UNCHANGED <<terms, payCall, printed, pays>>
  BY DEF Tools!AcceptQuote
<1>5. quoteManifest' = [quoteManifest EXCEPT ![s] = [quote |-> n + 1, requirement |-> terms[s]]]
      \/ UNCHANGED quoteManifest
  BY DEF Tools!AcceptQuote
<1>6. /\ stage' \in [Bought -> {"idle", "asking", "accepting"}]
      /\ tries' \in [Bought -> 0..MaxTries]
  BY <1>1 DEF Tools!AcceptQuote, Tools!Retried, ToolsTyped
<1> HIDE DEF n, jns
<1>7. ToolsTyped'
  BY <1>4, <1>5, <1>6 DEF ToolsTyped
<1>8. intents'[s] = jns /\ terms'[s] = terms[s] /\ payCall'[s] = payCall[s]
      /\ printed'[s] = printed[s]
  BY <1>4 DEF ToolsTyped
<1>9. ManifestHolds(jns, quoteManifest'[s], AskedTerms[s])
  <2>1. CASE UNCHANGED quoteManifest
    BY <1>2, <1>3, <2>1, LaterKeeps DEF ServiceHolds
  <2>2. CASE quoteManifest' = [quoteManifest EXCEPT
                                 ![s] = [quote |-> n + 1, requirement |-> terms[s]]]
    <3>1. quoteManifest'[s] = [quote |-> n + 1, requirement |-> terms[s]]
      BY <2>2 DEF ToolsTyped
    <3> QED BY <1>2, <1>3, <3>1 DEF ManifestHolds
  <2> QED BY <1>5, <2>1, <2>2
<1>10. ServiceHolds(s)'
  <2>1. CallHolds(jns, payCall[s]) /\ ReportHolds(jns, printed[s])
    BY <1>2, <1>3, LaterKeeps DEF ServiceHolds
  <2> QED BY <1>2, <1>3, <1>8, <1>9, <2>1 DEF ServiceHolds
<1>11. \A o \in Bought \ {s} : /\ terms'[o] = terms[o] /\ intents'[o] = intents[o]
                               /\ quoteManifest'[o] = quoteManifest[o]
                               /\ payCall'[o] = payCall[o] /\ printed'[o] = printed[o]
  BY <1>4, <1>5 DEF ToolsTyped
<1> QED BY <1>7, <1>10, <1>11, OneServiceMoves

\* New terms, and what is written to the payload file.
LEMMA TermsKeep ==
  ASSUME ToolsInv, NEW s \in Bought,
         \/ \E asked1 \in TermsOf(s) : Tools!ChangeTerms(s, asked1)
         \/ Tools!WritePayload(s) \/ Tools!PayloadExpires(s)
  PROVE  ToolsInv'
<1> USE DEF ToolsInv
<1>1. UNCHANGED <<stage, tries, intents, quoteManifest, payCall, printed, pays>>
  BY DEF Tools!ChangeTerms, Tools!WritePayload, Tools!PayloadExpires
<1>2. DOMAIN terms' = Bought /\ terms'[s] \in AskedTerms[s]
      /\ \A o \in Bought \ {s} : terms'[o] = terms[o]
  BY DEF Tools!ChangeTerms, Tools!WritePayload, Tools!PayloadExpires, TermsOf, ToolsTyped,
         ServiceHolds
<1>3. ToolsTyped'
  BY <1>1, <1>2 DEF ToolsTyped
<1>4. ServiceHolds(s)'
  BY <1>1, <1>2 DEF ServiceHolds
<1> QED BY <1>1, <1>2, <1>3, <1>4, OneServiceMoves

LEMMA PayKeeps ==
  ASSUME ToolsInv, NEW s \in Bought, NEW named \in BOOLEAN, Tools!Pay(s, named)
  PROVE  ToolsInv'
<1> USE DEF ToolsInv
<1> DEFINE c == [quote |-> quoteManifest[s].quote, payload |-> Tools!Selected(s, named),
                 at |-> "sent", answer |-> Nothing]
<1>1. UNCHANGED <<terms, stage, tries, intents, quoteManifest, printed>>
      /\ payCall' = [payCall EXCEPT ![s] = c] /\ quoteManifest[s] # Nothing
  BY DEF Tools!Pay
<1>2. pays' \in [Bought -> 0..MaxPays]
  <2>1. pays[s] \in 0..MaxPays /\ pays[s] < MaxPays /\ MaxPays \in Nat
    BY ServicesAssumption DEF Tools!Pay, ToolsTyped
  <2>2. pays[s] + 1 \in 0..MaxPays
    BY <2>1
  <2> QED BY <2>2 DEF Tools!Pay, ToolsTyped
<1>3. CallHolds(intents[s], c)
  BY <1>1 DEF ServiceHolds, ManifestHolds, CallHolds
<1> HIDE DEF c
<1>4. ToolsTyped'
  BY <1>1, <1>2 DEF ToolsTyped
<1>5. payCall'[s] = c /\ \A o \in Bought \ {s} : payCall'[o] = payCall[o]
  BY <1>1 DEF ToolsTyped
<1>6. ServiceHolds(s)'
  BY <1>1, <1>3, <1>5 DEF ServiceHolds
<1> QED BY <1>1, <1>4, <1>5, <1>6, OneServiceMoves

LEMMA ReportKeeps ==
  ASSUME ToolsInv, NEW s \in Bought, Tools!Report(s) \/ Tools!AnswerLost(s)
  PROVE  ToolsInv'
<1> USE DEF ToolsInv
<1>1. UNCHANGED <<terms, stage, tries, intents, quoteManifest, pays>>
      /\ payCall' = [payCall EXCEPT ![s] = Nothing] /\ payCall[s] # Nothing
  BY DEF Tools!Report, Tools!AnswerLost
<1>2. PICK r : printed' = [printed EXCEPT ![s] = r] /\ ReportHolds(intents[s], r)
  <2>1. CASE Tools!Report(s)
    <3> DEFINE r == [quote |-> payCall[s].quote, code |-> Tools!Summary(payCall[s].answer)]
    <3>1. printed' = [printed EXCEPT ![s] = r] /\ payCall[s].at = "answered"
      BY <2>1 DEF Tools!Report
    <3>2. ReportHolds(intents[s], r)
      BY <1>1, <3>1 DEF ServiceHolds, CallHolds, ReportHolds
    <3> QED BY <3>1, <3>2
  <2>2. CASE Tools!AnswerLost(s)
    <3> DEFINE r == [quote |-> payCall[s].quote, code |-> "post_payment_state_unavailable_retryable"]
    <3>1. printed' = [printed EXCEPT ![s] = r]
      BY <2>2 DEF Tools!AnswerLost
    <3>2. ReportHolds(intents[s], r)
      BY DEF ReportHolds
    <3> QED BY <3>1, <3>2
  <2> QED BY <2>1, <2>2
<1>3. ToolsTyped'
  BY <1>1, <1>2 DEF ToolsTyped
<1>4. payCall'[s] = Nothing /\ printed'[s] = r
      /\ \A o \in Bought \ {s} : payCall'[o] = payCall[o] /\ printed'[o] = printed[o]
  BY <1>1, <1>2 DEF ToolsTyped
<1>5. ServiceHolds(s)'
  BY <1>1, <1>2, <1>4 DEF ServiceHolds, CallHolds
<1> QED BY <1>1, <1>3, <1>4, <1>5, OneServiceMoves

\* What a step of the platform does: an intent moves, and the call of its service.
LEMMA PlatformMoves ==
  ASSUME ToolsInv, NEW s \in Bought, NEW q, NEW j, NEW c, Known(intents[s], q), IntentHolds(j),
         intents[s][q].hire = "completed" => j.hire = "completed",
         IsDone(intents[s][q]) => IsDone(j),
         intents' = [intents EXCEPT ![s] = [@ EXCEPT ![q] = j]],
         payCall' = [payCall EXCEPT ![s] = c],
         CallHolds([intents[s] EXCEPT ![q] = j], c),
         UNCHANGED <<terms, stage, tries, quoteManifest, printed, pays>>
  PROVE  ToolsInv'
<1> USE DEF ToolsInv
<1> DEFINE jns == [intents[s] EXCEPT ![q] = j]
<1>1. ServiceHolds(s) /\ QuotesHold(jns) /\ Later(intents[s], jns)
  BY IntentMoves DEF ServiceHolds
<1>2. intents' = [intents EXCEPT ![s] = jns] /\ CallHolds(jns, c)
  OBVIOUS
<1> HIDE DEF jns
<1>3. ToolsTyped'
  BY <1>2 DEF ToolsTyped
<1>4. intents'[s] = jns /\ payCall'[s] = c
      /\ \A o \in Bought \ {s} : intents'[o] = intents[o] /\ payCall'[o] = payCall[o]
  BY <1>2 DEF ToolsTyped
<1>5. ManifestHolds(jns, quoteManifest[s], AskedTerms[s]) /\ ReportHolds(jns, printed[s])
  BY <1>1, LaterKeeps DEF ServiceHolds
<1>6. ServiceHolds(s)'
  BY <1>1, <1>2, <1>4, <1>5 DEF ServiceHolds
<1> QED BY <1>3, <1>4, <1>6, OneServiceMoves

\* A step about an intent alone.
LEMMA LaterMoves ==
  ASSUME ToolsInv, NEW s \in Bought, NEW q, NEW j, Known(intents[s], q), IntentHolds(j),
         intents[s][q].hire = "completed" => j.hire = "completed",
         IsDone(intents[s][q]) => IsDone(j),
         intents' = [intents EXCEPT ![s] = [@ EXCEPT ![q] = j]],
         UNCHANGED <<terms, stage, tries, quoteManifest, payCall, printed, pays>>
  PROVE  ToolsInv'
<1> USE DEF ToolsInv
<1> DEFINE jns == [intents[s] EXCEPT ![q] = j]
<1>1. QuotesHold(jns) /\ Later(intents[s], jns)
  BY IntentMoves DEF ServiceHolds
<1>2. intents' = [intents EXCEPT ![s] = jns]
  OBVIOUS
<1> HIDE DEF jns
<1>3. intents'[s] = jns /\ \A o \in Bought \ {s} : intents'[o] = intents[o]
  BY <1>2 DEF ToolsTyped
<1>4. ToolsTyped'
  BY <1>2 DEF ToolsTyped
<1>5. /\ ManifestHolds(jns, quoteManifest[s], AskedTerms[s]) /\ CallHolds(jns, payCall[s])
      /\ ReportHolds(jns, printed[s])
  BY <1>1, LaterKeeps DEF ServiceHolds
<1>6. ServiceHolds(s)'
  BY <1>1, <1>3, <1>5 DEF ServiceHolds
<1> QED BY <1>3, <1>4, <1>6, OneServiceMoves

LEMMA CallMoves ==
  ASSUME ToolsInv, NEW s \in Bought, NEW c, CallHolds(intents[s], c),
         payCall' = [payCall EXCEPT ![s] = c],
         UNCHANGED <<terms, stage, tries, intents, quoteManifest, printed, pays>>
  PROVE  ToolsInv'
<1> USE DEF ToolsInv
<1>1. ToolsTyped'
  BY DEF ToolsTyped
<1>2. payCall'[s] = c /\ \A o \in Bought \ {s} : payCall'[o] = payCall[o]
  BY DEF ToolsTyped
<1>3. ServiceHolds(s)'
  BY <1>2 DEF ServiceHolds
<1> QED BY <1>1, <1>2, <1>3, OneServiceMoves

\* The answers that the script takes for completed.
LEMMA SummaryOfAnswers ==
  /\ Tools!Summary(Tools!Refusal) # "paid_execution_completed"
  /\ Tools!Summary(Tools!StateUnknown) # "paid_execution_completed"
  /\ \A outcome : Tools!Summary(Tools!HireAnswer(outcome, "authorized")) # "paid_execution_completed"
  /\ \A outcome : Tools!Summary(Tools!HireAnswer(outcome, "settled")) = "paid_execution_completed"
                 => outcome = "completed"
<1>1. Tools!Summary(Tools!Refusal) # "paid_execution_completed"
  BY DEF Tools!Summary, Tools!Refusal, Tools!Answer
<1>2. Tools!Summary(Tools!StateUnknown) # "paid_execution_completed"
  BY DEF Tools!Summary, Tools!StateUnknown, Tools!Answer
<1>3. ASSUME NEW outcome PROVE Tools!Summary(Tools!HireAnswer(outcome, "authorized")) # "paid_execution_completed"
  BY DEF Tools!Summary, Tools!HireAnswer, Tools!Answer
<1>4. ASSUME NEW outcome, Tools!Summary(Tools!HireAnswer(outcome, "settled")) = "paid_execution_completed"
      PROVE  outcome = "completed"
  <2>1. Tools!HireStatus(outcome)[2] = "completed"
    BY <1>4 DEF Tools!Summary, Tools!HireAnswer, Tools!Answer
  <2> QED BY <2>1 DEF Tools!HireStatus
<1> QED BY <1>1, <1>2, <1>3, <1>4

At(c, at) == [quote |-> c.quote, payload |-> c.payload, at |-> at, answer |-> c.answer]
Answered(c, reply) ==
    [quote |-> c.quote, payload |-> c.payload, at |-> "answered", answer |-> reply]

\* A call that goes on, or ends with an answer, is the same call.
LEMMA SameCall ==
  ASSUME ToolsInv, NEW s \in Bought, payCall[s] # Nothing
  PROVE  /\ \A at : [payCall EXCEPT ![s].at = at] = [payCall EXCEPT ![s] = At(payCall[s], at)]
         /\ \A reply : Tools!Ends(s, reply) =>
               payCall' = [payCall EXCEPT ![s] = Answered(payCall[s], reply)]
<1> DEFINE c == payCall[s]
<1>1. c = [quote |-> c.quote, payload |-> c.payload, at |-> c.at, answer |-> c.answer]
  BY DEF ToolsInv, ServiceHolds, CallHolds
<1>2. \A at : [c EXCEPT !.at = at] = At(c, at)
  BY <1>1 DEF At
<1>3. ASSUME NEW reply PROVE [c EXCEPT !.at = "answered", !.answer = reply] = Answered(c, reply)
  <2>1. [c EXCEPT !.at = "answered", !.answer = reply]
          = [At(c, "answered") EXCEPT !.answer = reply]
    BY <1>2
  <2>2. [At(c, "answered") EXCEPT !.answer = reply] = Answered(c, reply)
    BY DEF At, Answered
  <2> QED BY <2>1, <2>2
<1>4. \A at : [payCall EXCEPT ![s].at = at] = [payCall EXCEPT ![s] = At(c, at)]
  BY <1>2 DEF ToolsInv, ToolsTyped
<1>5. ASSUME NEW reply, Tools!Ends(s, reply)
      PROVE  payCall' = [payCall EXCEPT ![s] = Answered(c, reply)]
  <2>1. payCall' = [payCall EXCEPT ![s] = [c EXCEPT !.at = "answered", !.answer = reply]]
    BY <1>5 DEF Tools!Ends, ToolsInv, ToolsTyped
  <2> QED BY <1>3, <2>1
<1> QED BY <1>4, <1>5

\* What a call must show of the quote it is about.
LEMMA CallGoesOn ==
  ASSUME NEW ins, NEW c, Known(ins, c.quote)
  PROVE  /\ CallHolds(ins, At(c, "hiring"))
         /\ ins[c.quote].hire = "completed" => CallHolds(ins, At(c, "settling"))
         /\ IsDone(ins[c.quote]) => CallHolds(ins, At(c, "recording"))
         /\ \A reply : (Tools!Summary(reply) = "paid_execution_completed" => IsDone(ins[c.quote]))
                           => CallHolds(ins, Answered(c, reply))
BY DEF CallHolds, At, Answered

LEMMA VerifyKeeps ==
  ASSUME ToolsInv, NEW s \in Bought, Tools!Verify(s)
  PROVE  ToolsInv'
<1> USE DEF ToolsInv
<1> DEFINE c == payCall[s]
           q == c.quote
           i == intents[s][q]
<1>1. c # Nothing /\ Known(intents[s], q) /\ IntentHolds(i) /\ QuotesHold(intents[s])
  BY DEF Tools!Verify, ServiceHolds, CallHolds, Known, QuotesHold
<1>2. UNCHANGED <<terms, stage, tries, quoteManifest, printed, pays>>
  BY DEF Tools!Verify
<1>3. CASE Tools!Ends(s, Tools!Refusal) /\ UNCHANGED intents
  <2>1. payCall' = [payCall EXCEPT ![s] = Answered(c, Tools!Refusal)]
    BY <1>1, <1>3, SameCall
  <2>2. CallHolds(intents[s], Answered(c, Tools!Refusal))
    BY <1>1, CallGoesOn, SummaryOfAnswers
  <2> QED BY <1>2, <1>3, <2>1, <2>2, CallMoves
<1>4. CASE /\ i.status \in {"pending", "approved"}
           /\ intents' = [intents EXCEPT
                 ![s][q].status = "approved",
                 ![s][q].entry = IF @ = "none" THEN "authorized" ELSE @]
           /\ payCall' = [payCall EXCEPT ![s].at = "hiring"]
  <2> DEFINE kept == IF i.entry = "none" THEN "authorized" ELSE i.entry
             j == [i EXCEPT !.status = "approved", !.entry = kept]
  <2>1. IntentHolds(j) /\ j.hire = i.hire /\ (IsDone(i) => IsDone(j))
    BY <1>1 DEF IntentHolds, IntentRecords, IsDone
  <2>2. intents' = [intents EXCEPT ![s] = [@ EXCEPT ![q] = j]]
    BY ZenonT(60), <1>1, <1>4 DEF ToolsTyped, QuotesHold, Known, IntentHolds, IntentRecords
  <2>3. payCall' = [payCall EXCEPT ![s] = At(c, "hiring")]
    BY <1>1, <1>4, SameCall
  <2> HIDE DEF j
  <2>4. Known([intents[s] EXCEPT ![q] = j], q)
    BY <1>1, <2>1, MovedIsKnown
  <2>5. CallHolds([intents[s] EXCEPT ![q] = j], At(c, "hiring"))
    BY <2>4, CallGoesOn
  <2> QED BY <1>1, <1>2, <2>1, <2>2, <2>3, <2>5, PlatformMoves
<1>5. CASE /\ i.status \notin {"pending", "approved"}
           /\ Tools!Ends(s, Tools!LifecycleAnswer(i)) /\ UNCHANGED intents
  <2>1. payCall' = [payCall EXCEPT ![s] = Answered(c, Tools!LifecycleAnswer(i))]
    BY <1>1, <1>5, SameCall
  <2>2. Tools!Summary(Tools!LifecycleAnswer(i)) = "paid_execution_completed" => IsDone(i)
    BY <1>1, SummaryOfAnswers DEF Tools!LifecycleAnswer, IntentHolds
  <2>3. CallHolds(intents[s], Answered(c, Tools!LifecycleAnswer(i)))
    BY <1>1, <2>2, CallGoesOn
  <2> QED BY <1>2, <1>5, <2>1, <2>3, CallMoves
<1> QED BY SMTT(40), <1>3, <1>4, <1>5 DEF Tools!Verify

LEMMA HireKeeps ==
  ASSUME ToolsInv, NEW s \in Bought, Tools!Hire(s)
  PROVE  ToolsInv'
<1> USE DEF ToolsInv
<1> DEFINE c == payCall[s]
           q == c.quote
           i == intents[s][q]
<1>1. c # Nothing /\ Known(intents[s], q) /\ IntentHolds(i) /\ QuotesHold(intents[s])
  BY DEF Tools!Hire, ServiceHolds, CallHolds, Known, QuotesHold
<1>2. UNCHANGED <<terms, stage, tries, quoteManifest, printed, pays>>
  BY DEF Tools!Hire
<1>3. PICK outcome \in IF i.hire \in {"none", "undelivered"}
                    THEN {"completed", "failed", "rejected", "pending", "undelivered"}
                    ELSE {i.hire} :
         /\ intents' = [intents EXCEPT
               ![s][q].hire = outcome,
               ![s][q].status = IF outcome = "failed" THEN "executed" ELSE @]
         /\ \/ outcome = "completed" /\ payCall' = [payCall EXCEPT ![s].at = "settling"]
            \/ outcome # "completed" /\ Tools!Ends(s, Tools!HireAnswer(outcome, "authorized"))
            \/ Tools!Ends(s, Tools!StateUnknown)
  BY ZenonT(60) DEF Tools!Hire
<1> DEFINE j == [i EXCEPT !.hire = outcome, !.status = IF outcome = "failed" THEN "executed" ELSE @]
           jns == [intents[s] EXCEPT ![q] = j]
<1>4. IntentHolds(j) /\ (i.hire = "completed" => j.hire = "completed") /\ j.hire = outcome
      /\ (IsDone(i) => IsDone(j))
  BY <1>1, <1>3 DEF IntentHolds, IntentRecords, IsDone
<1>5. intents' = [intents EXCEPT ![s] = [@ EXCEPT ![q] = j]]
  BY <1>1, <1>3 DEF ToolsTyped, QuotesHold, Known, IntentHolds, IntentRecords
<1>6. Known(jns, q) /\ jns[q] = j
  <2> HIDE DEF j
  <2> QED BY <1>1, <1>4, MovedIsKnown
<1>7. PICK d : payCall' = [payCall EXCEPT ![s] = d] /\ CallHolds(jns, d)
  <2> HIDE DEF j, jns
  <2>1. CASE outcome = "completed" /\ payCall' = [payCall EXCEPT ![s].at = "settling"]
    <3>1. payCall' = [payCall EXCEPT ![s] = At(c, "settling")]
      BY <1>1, <2>1, SameCall
    <3>2. CallHolds(jns, At(c, "settling"))
      BY <1>4, <1>6, <2>1, CallGoesOn
    <3> QED BY <3>1, <3>2
  <2>2. ASSUME NEW reply, Tools!Ends(s, reply), Tools!Summary(reply) # "paid_execution_completed"
        PROVE  \E d : payCall' = [payCall EXCEPT ![s] = d] /\ CallHolds(jns, d)
    <3>1. payCall' = [payCall EXCEPT ![s] = Answered(c, reply)]
      BY <1>1, <2>2, SameCall
    <3>2. CallHolds(jns, Answered(c, reply))
      BY SMTT(40), <1>6, <2>2, CallGoesOn
    <3> QED BY <3>1, <3>2
  <2> QED BY <1>3, <2>1, <2>2, SummaryOfAnswers
<1> HIDE DEF j
<1> QED BY <1>1, <1>2, <1>4, <1>5, <1>7, PlatformMoves

LEMMA SettleKeeps ==
  ASSUME ToolsInv, NEW s \in Bought, Tools!Settle(s)
  PROVE  ToolsInv'
<1> USE DEF ToolsInv
<1> DEFINE c == payCall[s]
           q == c.quote
           i == intents[s][q]
<1>1. c # Nothing /\ Known(intents[s], q) /\ IntentHolds(i) /\ QuotesHold(intents[s])
      /\ i.hire = "completed"
  BY ZenonT(60) DEF Tools!Settle, ServiceHolds, CallHolds, Known, QuotesHold
<1>2. UNCHANGED <<terms, stage, tries, quoteManifest, printed, pays>>
  BY ZenonT(60) DEF Tools!Settle
<1>3. CASE /\ intents' = [intents EXCEPT ![s][q].entry = "settled", ![s][q].moved = TRUE]
           /\ payCall' = [payCall EXCEPT ![s].at = "recording"]
  <2> DEFINE j == [i EXCEPT !.entry = "settled", !.moved = TRUE]
  <2>1. IntentHolds(j) /\ j.hire = "completed" /\ IsDone(j)
    BY <1>1 DEF IntentHolds, IntentRecords, IsDone
  <2>2. intents' = [intents EXCEPT ![s] = [@ EXCEPT ![q] = j]]
    BY ZenonT(60), <1>1, <1>3 DEF ToolsTyped, QuotesHold, Known, IntentHolds, IntentRecords
  <2>3. payCall' = [payCall EXCEPT ![s] = At(c, "recording")]
    BY <1>1, <1>3, SameCall
  <2> HIDE DEF j
  <2>4. Known([intents[s] EXCEPT ![q] = j], q) /\ [intents[s] EXCEPT ![q] = j][q] = j
    BY <1>1, <2>1, MovedIsKnown
  <2>5. CallHolds([intents[s] EXCEPT ![q] = j], At(c, "recording"))
    BY <2>1, <2>4, CallGoesOn
  <2> QED BY <1>1, <1>2, <2>1, <2>2, <2>3, <2>5, PlatformMoves
<1>4. ASSUME NEW moved \in {i.moved, TRUE},
             intents' = [intents EXCEPT
                 ![s][q].moved = moved,
                 ![s][q].entry = IF @ = "settled" THEN @ ELSE "failed"],
             Tools!Ends(s, Tools!HireAnswer("completed", "authorized"))
      PROVE  ToolsInv'
  <2> DEFINE j == [i EXCEPT !.moved = moved, !.entry = IF @ = "settled" THEN @ ELSE "failed"]
             reply == Tools!HireAnswer("completed", "authorized")
  <2>1. IntentHolds(j) /\ j.hire = "completed" /\ (IsDone(i) => IsDone(j))
    BY <1>1, <1>4 DEF IntentHolds, IntentRecords, IsDone
  <2>2. intents' = [intents EXCEPT ![s] = [@ EXCEPT ![q] = j]]
    BY ZenonT(60), <1>1, <1>4 DEF ToolsTyped, QuotesHold, Known, IntentHolds, IntentRecords
  <2>3. payCall' = [payCall EXCEPT ![s] = Answered(c, reply)]
    BY <1>1, <1>4, SameCall
  <2> HIDE DEF j
  <2>4. Known([intents[s] EXCEPT ![q] = j], q)
    BY <1>1, <2>1, MovedIsKnown
  <2>5. CallHolds([intents[s] EXCEPT ![q] = j], Answered(c, reply))
    BY <2>4, CallGoesOn, SummaryOfAnswers
  <2> QED BY <1>1, <1>2, <2>1, <2>2, <2>3, <2>5, PlatformMoves
<1> QED BY ZenonT(60), <1>3, <1>4 DEF Tools!Settle

LEMMA RecordKeeps ==
  ASSUME ToolsInv, NEW s \in Bought, Tools!Record(s)
  PROVE  ToolsInv'
<1> USE DEF ToolsInv
<1> DEFINE c == payCall[s]
           q == c.quote
           i == intents[s][q]
<1>1. c # Nothing /\ Known(intents[s], q) /\ IntentHolds(i) /\ QuotesHold(intents[s])
      /\ IsDone(i) /\ CallHolds(intents[s], c) /\ c.at = "recording"
  BY DEF Tools!Record, ServiceHolds, CallHolds, Known, QuotesHold
<1>2. UNCHANGED <<terms, stage, tries, quoteManifest, printed, pays>>
  BY DEF Tools!Record
<1>3. ASSUME NEW st \in {"executed", "settled"}, intents' = [intents EXCEPT ![s][q].status = st]
      PROVE  LET j == [i EXCEPT !.status = st]
             IN  /\ IntentHolds(j) /\ j.hire = "completed" /\ IsDone(j)
                 /\ intents' = [intents EXCEPT ![s] = [@ EXCEPT ![q] = j]]
                 /\ Known([intents[s] EXCEPT ![q] = j], q) /\ [intents[s] EXCEPT ![q] = j][q] = j
  <2> DEFINE j == [i EXCEPT !.status = st]
  <2>1. IntentHolds(j) /\ j.hire = "completed" /\ IsDone(j)
    BY <1>1, <1>3 DEF IntentHolds, IntentRecords, IsDone
  <2>2. intents' = [intents EXCEPT ![s] = [@ EXCEPT ![q] = j]]
    BY <1>1, <1>3 DEF ToolsTyped, QuotesHold, Known, IntentHolds, IntentRecords
  <2> HIDE DEF j
  <2>3. Known([intents[s] EXCEPT ![q] = j], q) /\ [intents[s] EXCEPT ![q] = j][q] = j
    <3>1. Later(intents[s], [intents[s] EXCEPT ![q] = j]) /\ [intents[s] EXCEPT ![q] = j][q] = j
      BY <1>1, <2>1, IntentMoves
    <3> QED BY <1>1, <3>1 DEF Known, Later
  <2> QED BY <2>1, <2>2, <2>3 DEF j
<1>4. CASE intents' = [intents EXCEPT ![s][q].status = "executed"] /\ UNCHANGED payCall
  <2> DEFINE j == [i EXCEPT !.status = "executed"]
  <2>1. /\ IntentHolds(j) /\ j.hire = "completed" /\ IsDone(j)
        /\ intents' = [intents EXCEPT ![s] = [@ EXCEPT ![q] = j]]
    BY <1>3, <1>4
  <2> HIDE DEF j
  <2> QED BY <1>1, <1>2, <1>4, <2>1, LaterMoves
<1>5. CASE /\ intents' = [intents EXCEPT ![s][q].status = "settled"]
           /\ Tools!Ends(s, Tools!HireAnswer("completed", "settled"))
  <2> DEFINE j == [i EXCEPT !.status = "settled"]
             d == Answered(c, Tools!HireAnswer("completed", "settled"))
  <2>1. /\ IntentHolds(j) /\ j.hire = "completed" /\ IsDone(j)
        /\ intents' = [intents EXCEPT ![s] = [@ EXCEPT ![q] = j]]
        /\ Known([intents[s] EXCEPT ![q] = j], q) /\ [intents[s] EXCEPT ![q] = j][q] = j
    BY <1>3, <1>5
  <2>2. payCall' = [payCall EXCEPT ![s] = d]
    BY <1>1, <1>5, SameCall
  <2> HIDE DEF j
  <2>3. CallHolds([intents[s] EXCEPT ![q] = j], d)
    BY <2>1, CallGoesOn
  <2> HIDE DEF d
  <2> QED BY <1>1, <1>2, <2>1, <2>2, <2>3, PlatformMoves
<1> QED BY <1>4, <1>5 DEF Tools!Record

LEMMA LateReturnKeeps ==
  ASSUME ToolsInv, NEW s \in Bought, NEW q \in Tools!Quotes, Tools!LateReturn(s, q)
  PROVE  ToolsInv'
<1> USE DEF ToolsInv
<1> DEFINE i == intents[s][q]
<1>1. Known(intents[s], q) /\ IntentHolds(i) /\ QuotesHold(intents[s]) /\ i.hire = "pending"
  BY DEF Tools!LateReturn, ServiceHolds, Known, QuotesHold
<1>2. UNCHANGED <<terms, stage, tries, quoteManifest, payCall, printed, pays>>
  BY DEF Tools!LateReturn
<1>3. PICK j : /\ IntentHolds(j) /\ j.hire = "completed" /\ (IsDone(i) => IsDone(j))
               /\ intents' = [intents EXCEPT ![s] = [@ EXCEPT ![q] = j]]
  <2>1. CASE intents' = [intents EXCEPT ![s][q].hire = "completed", ![s][q].entry = "settled",
                                        ![s][q].moved = TRUE]
    <3> DEFINE j == [i EXCEPT !.hire = "completed", !.entry = "settled", !.moved = TRUE]
    <3>1. IntentHolds(j) /\ j.hire = "completed" /\ IsDone(j)
      BY <1>1 DEF IntentHolds, IntentRecords, IsDone
    <3>2. intents' = [intents EXCEPT ![s] = [@ EXCEPT ![q] = j]]
      BY <1>1, <2>1 DEF ToolsTyped, QuotesHold, Known, IntentHolds, IntentRecords
    <3> QED BY <3>1, <3>2
  <2>2. CASE intents' = [intents EXCEPT ![s][q].hire = "completed"]
    <3> DEFINE j == [i EXCEPT !.hire = "completed"]
    <3>1. IntentHolds(j) /\ j.hire = "completed" /\ ~IsDone(i)
      BY <1>1 DEF IntentHolds, IntentRecords, IsDone
    <3>2. intents' = [intents EXCEPT ![s] = [@ EXCEPT ![q] = j]]
      BY <1>1, <2>2 DEF ToolsTyped, QuotesHold, Known, IntentHolds, IntentRecords
    <3> QED BY <3>1, <3>2
  <2> QED BY <2>1, <2>2 DEF Tools!LateReturn
<1> QED BY <1>1, <1>2, <1>3, LaterMoves

LEMMA ToolsNextKeeps ==
  ASSUME ToolsInv, Tools!ToolsNext
  PROVE  ToolsInv'
BY PrepareKeeps, AcceptKeeps, TermsKeep, PayKeeps, ReportKeeps, VerifyKeeps, HireKeeps,
   SettleKeeps, RecordKeeps, LateReturnKeeps DEF Tools!ToolsNext

\* What the properties say follows from what is said of each service.
LEMMA ToolsKept ==
  ASSUME ToolsInv
  PROVE  Tools!ToolsTypeOK /\ Tools!CheckAndPlatformAgree /\ Tools!CompletedIsPaid
<1> USE DEF ToolsInv
<1>1. Tools!ToolsTypeOK
  BY DEF Tools!ToolsTypeOK, ToolsTyped, ServiceHolds, ManifestHolds, CallHolds, Known, TermsOf
<1>2. Tools!CheckAndPlatformAgree
  <2> SUFFICES ASSUME NEW s \in Bought, quoteManifest[s] # Nothing
               PROVE  LET req == quoteManifest[s].requirement
                      IN  /\ Tools!CheckPasses(req, Tools!BuildPayload(req))
                          /\ Tools!IndexerAccepts(req, Tools!BuildPayload(req))
                          /\ payloadFile[s] # Nothing /\ Tools!CheckPasses(req, payloadFile[s])
                                /\ terms[s] = req =>
                                (Tools!IndexerAccepts(terms[s], payloadFile[s]) <=>
                                    payloadFile[s].id /\ payloadFile[s].exact)
    BY DEF Tools!CheckAndPlatformAgree
  <2> DEFINE req == quoteManifest[s].requirement
  <2>1. req \in TermsRecords
    BY ServicesAssumption DEF ServiceHolds, ManifestHolds
  <2> HIDE DEF req
  <2>2. /\ Tools!CheckPasses(req, Tools!BuildPayload(req))
        /\ Tools!BuildPayload(req).id /\ Tools!BuildPayload(req).exact
    BY DEF Tools!CheckPasses, Tools!BuildPayload
  <2>3. Tools!Hosted(req) # Nothing
    <3>1. Tools!Hosted(req) \in HostedRecords
      BY <2>1 DEF Tools!Hosted, HostedRecords, TermsRecords
    <3> QED BY <3>1, ServicesAssumption
  <2>4. ASSUME NEW pay, Tools!CheckPasses(req, pay)
        PROVE  Tools!IndexerAccepts(req, pay) <=> pay.id /\ pay.exact
    BY <2>3, <2>4 DEF Tools!CheckPasses, Tools!IndexerAccepts, Tools!OnRail, Tools!Hosted
  <2> QED BY <2>2, <2>4 DEF req
<1>3. Tools!CompletedIsPaid
  BY DEF Tools!CompletedIsPaid, ServiceHolds, ReportHolds, IsDone
<1> QED BY <1>1, <1>2, <1>3

ToolsMoveInv == part = "tools" => ToolsInv

\* In a behaviour of the services in which a buyer uses the tools, a payload that passes
\* buyer-payment-check.mjs is one the indexer accepts while the terms stand, if and only if it
\* has an identifier and spells the wallet as advertised, as the SDK's has; and what the
\* pay script reports as completed is done and paid, for any numbers of services, quotes,
\* tries and payments (paidExecutionSummary and the quote-payment route).
THEOREM ToolsHoldAlways == ServicesSpec => []ToolsHold
<1>1. ServicesInit => ToolsMoveInv
  BY ToolsBegin DEF ServicesInit, ToolsMoveInv
<1>2. ToolsMoveInv /\ [ServicesNext]_allVars => ToolsMoveInv'
  <2> SUFFICES ASSUME ToolsMoveInv, [ServicesNext]_allVars, part' = "tools" PROVE ToolsInv'
    BY DEF ToolsMoveInv
  <2>1. CASE ToolsPart
    <3>1. part = "tools" /\ ToolsInv
      BY <2>1 DEF ToolsPart, ToolsMoveInv
    <3> QED BY <2>1, <3>1, ToolsNextKeeps DEF ToolsPart
  <2>2. CASE UNCHANGED allVars
    <3>1. part = "tools" /\ ToolsInv
      BY <2>2 DEF allVars, ToolsMoveInv
    <3>2. UNCHANGED toolVars
      BY <2>2 DEF allVars
    <3> QED BY <3>1, <3>2 DEF toolVars, ToolsInv, ToolsTyped, ServiceHolds
  <2>3. CASE ServicesNext /\ ~ToolsPart
    <3>1. part' = part /\ part # "tools"
      BY SMTT(40), <2>3 DEF ServicesNext, LiveParts, BooksPart, StoreParts, BoardPart, AccessParts, BlobsPart,
                  LanePart, IngressPart, GasPart, ProofPart, PrivacyPart, Only
    <3> QED BY <3>1
  <2> QED BY <2>1, <2>2, <2>3
<1>3. ToolsMoveInv => ToolsHold
  BY ToolsKept DEF ToolsMoveInv, ToolsHold
<1> QED BY <1>1, <1>2, <1>3, PTL DEF ServicesSpec
=============================================================================
