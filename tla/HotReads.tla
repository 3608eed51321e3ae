------------------------------- MODULE HotReads -------------------------------
(***************************************************************************)
(* The read caches of apps/indexer/src/server.ts, for one key of one of    *)
(* them: reads that are answered from an entry, join a refresh in flight   *)
(* or begin one; the queue that bounds the refreshes running at once; and  *)
(* the invalidation that follows a write when its response has finished.   *)
(*                                                                         *)
(* The data behind the key is the number of the last write that was saved. *)
(* A refresh reads it once, at some moment of its run.  Everything else is *)
(* a step of the event loop.                                               *)
(***************************************************************************)
EXTENDS Naturals, Sequences, FiniteSets

CONSTANTS
    Readers,        \* requests that read the key
    Writers,        \* requests and background jobs that change the data
    Refreshes,      \* refreshes that may be under way at once
    Concurrency,    \* refreshes of the lane that may run at once
    MaxQueued,      \* refreshes of the lane that may wait
    NoEntry, NoRefresh

Routes == {"plan", "state", "public"}

\* "clearing": a write whose path clears the cache of the route; "retry": the
\* settlement-retry route, which puts the state it answers into the cache;
\* "other": a write that only begins a new epoch; "background": a finalizer or a
\* relayed return, which no response follows.
Kinds == {"clearing", "retry", "other", "background"}

VARIABLES
    route,          \* the cache this is about
    data,           \* the last write saved
    epoch,          \* the cache's epoch
    entry,          \* the cached value and its age
    inflight,       \* the refresh the key's in-flight entry names
    refresh,        \* refresh -> its state, its epoch and what it has read
    queue,          \* refreshes that wait for a slot
    write,          \* write -> its state, its kind, its number and what it answers
    read,           \* read -> its state and its answer
    followed        \* history: the last write answered, of the two kinds that count

vars == <<route, data, epoch, entry, inflight, refresh, queue, write, read, followed>>

Unused == [pc |-> "unused", epoch |-> 0, value |-> 0]
Running == {f \in Refreshes : refresh[f].pc \in {"running", "has_read"}}

-----------------------------------------------------------------------------
(* Refreshes and the queue of their lane.                                 *)

Saturated == Cardinality(Running) >= Concurrency /\ Len(queue) >= MaxQueued

\* runBoundedHotReadProducer under launchHotReadRefresh: a slot, a place in the queue.
Launch(f) ==
    LET runs == Cardinality(Running) < Concurrency
    IN  /\ ~Saturated
        /\ refresh[f] = Unused
        /\ refresh' = [refresh EXCEPT ![f] =
               [pc |-> IF runs THEN "running" ELSE "queued", epoch |-> epoch, value |-> 0]]
        /\ queue' = IF runs THEN queue ELSE Append(queue, f)
        /\ inflight' = f

\* The refresh gives up its slot to the one that waits longest.
GiveUpSlot(f) ==
    /\ refresh' = [g \in Refreshes |->
           IF g = f THEN Unused
           ELSE IF queue # <<>> /\ g = Head(queue) THEN [refresh[g] EXCEPT !.pc = "running"]
           ELSE refresh[g]]
    /\ queue' = IF queue = <<>> THEN queue ELSE Tail(queue)

Answer(r, value, fresh) == [r EXCEPT !.pc = "answered", !.value = value, !.fresh = fresh]

\* Every read that waits for f is answered, or fails, with it.
Wake(f, value) ==
    read' = [r \in Readers |-> IF read[r].pc = "waiting" /\ read[r].on = f
                             THEN Answer(read[r], value, TRUE) ELSE read[r]]
WakeFailing(f) ==
    read' = [r \in Readers |-> IF read[r].pc = "waiting" /\ read[r].on = f
                             THEN [read[r] EXCEPT !.pc = "failed"] ELSE read[r]]

Landed(f) == inflight' = IF inflight = f THEN NoRefresh ELSE inflight

\* The producer loads the data.
Produce(f) ==
    /\ refresh[f].pc = "running"
    /\ refresh' = [refresh EXCEPT ![f].pc = "has_read", ![f].value = data]
    /\ UNCHANGED <<route, data, epoch, entry, inflight, queue, write, read, followed>>

\* Mutant: the epoch is not compared.
EntryAfterAnyway(f) == [value |-> refresh[f].value, age |-> "fresh"]

\* What a refresh has read becomes the entry only in the epoch it was launched in.
EntryAfter(f) ==
    IF refresh[f].epoch = epoch THEN [value |-> refresh[f].value, age |-> "fresh"] ELSE entry

RefreshEnds(f) ==
    /\ refresh[f].pc = "has_read"
    /\ entry' = EntryAfter(f)
    /\ Wake(f, refresh[f].value)
    /\ GiveUpSlot(f) /\ Landed(f)
    /\ UNCHANGED <<route, data, epoch, write, followed>>

RefreshFails(f) ==
    /\ refresh[f].pc = "running"
    /\ WakeFailing(f)
    /\ GiveUpSlot(f) /\ Landed(f)
    /\ UNCHANGED <<route, data, epoch, entry, write, followed>>

\* An entry stays fresh for its time to live and is kept for a while after it.
EntryAges ==
    /\ entry # NoEntry
    /\ entry' = IF entry.age = "fresh" THEN [entry EXCEPT !.age = "retained"] ELSE NoEntry
    /\ UNCHANGED <<route, data, epoch, inflight, refresh, queue, write, read, followed>>

-----------------------------------------------------------------------------
(* Reads.                                                                 *)

Begins(r) == [read[r] EXCEPT !.since = followed]

ReadHit(r) ==
    /\ read[r].pc = "idle"
    /\ entry # NoEntry /\ entry.age = "fresh"
    /\ read' = [read EXCEPT ![r] = Answer(Begins(r), entry.value, TRUE)]
    /\ UNCHANGED <<route, data, epoch, entry, inflight, refresh, queue, write, followed>>

OfThisEpoch == inflight # NoRefresh /\ refresh[inflight].epoch = epoch

\* An entry past its time is answered as it is, and refreshed unless that is under way.
ReadRetained(r) ==
    /\ read[r].pc = "idle"
    /\ entry # NoEntry /\ entry.age = "retained"
    /\ read' = [read EXCEPT ![r] = Answer(Begins(r), entry.value, FALSE)]
    /\ \/ (OfThisEpoch \/ Saturated) /\ UNCHANGED <<inflight, refresh, queue>>
       \/ ~OfThisEpoch /\ \E f \in Refreshes : Launch(f)
    /\ UNCHANGED <<route, data, epoch, entry, write, followed>>

\* With no entry, a plan or payment-state read joins a refresh of its own epoch, and
\* any other read (cachedHotRead) whatever refresh there is.
Joins == IF route = "public" THEN inflight # NoRefresh ELSE OfThisEpoch

Waits(r, f) == read' = [read EXCEPT ![r] = [Begins(r) EXCEPT !.pc = "waiting", !.on = f]]

ReadCold(r) ==
    /\ read[r].pc = "idle"
    /\ entry = NoEntry
    /\ \/ Joins /\ Waits(r, inflight) /\ UNCHANGED <<inflight, refresh, queue>>
       \/ ~Joins /\ \E f \in Refreshes : Launch(f) /\ Waits(r, f)
       \/ /\ ~Joins /\ Saturated
          /\ read' = [read EXCEPT ![r].pc = "failed"]
          /\ UNCHANGED <<inflight, refresh, queue>>
    /\ UNCHANGED <<route, data, epoch, entry, write, followed>>

\* withColdReadBudget: the read is told to come again, the refresh goes on.
BudgetExpires(r) ==
    /\ route # "public"
    /\ read[r].pc = "waiting"
    /\ read' = [read EXCEPT ![r].pc = "failed"]
    /\ UNCHANGED <<route, data, epoch, entry, inflight, refresh, queue, write, followed>>

-----------------------------------------------------------------------------
(* Writes.                                                                *)

Save(w, kind) ==
    /\ write[w].pc = "idle"
    /\ kind = "retry" => route = "state"
    /\ data' = data + 1
    /\ write' = [write EXCEPT ![w] =
           [pc |-> IF kind = "background" THEN "done" ELSE "saved",
            kind |-> kind, number |-> data + 1, answer |-> 0]]
    /\ UNCHANGED <<route, epoch, entry, inflight, refresh, queue, read, followed>>

\* The settlement-retry route loads the state it will answer with.
BuildAnswer(w) ==
    /\ write[w].pc = "saved" /\ write[w].kind = "retry"
    /\ write' = [write EXCEPT ![w].pc = "built", ![w].answer = data]
    /\ UNCHANGED <<route, data, epoch, entry, inflight, refresh, queue, read, followed>>

\* cacheCanonicalX402PaymentState: the answer becomes the entry, in whatever epoch;
\* the in-flight entry is dropped, the refresh it named is not.
CacheAnswer(w) ==
    /\ write[w].pc = "built"
    /\ write' = [write EXCEPT ![w].pc = "cached"]
    /\ entry' = [value |-> write[w].answer, age |-> "fresh"]
    /\ inflight' = NoRefresh
    /\ UNCHANGED <<route, data, epoch, refresh, queue, read, followed>>

ClearsCache(kind) == route = "public" \/ kind = "clearing"

\* invalidateCachesAfterWrite, once a response of success has finished.  The in-flight
\* entries of the public reads stay.
WriteAnswered(w) ==
    /\ write[w].pc = IF write[w].kind = "retry" THEN "cached" ELSE "saved"
    /\ write' = [write EXCEPT ![w].pc = "done"]
    /\ epoch' = epoch + 1
    /\ entry' = IF ClearsCache(write[w].kind) THEN NoEntry ELSE entry
    /\ inflight' = IF ClearsCache(write[w].kind) /\ route # "public" THEN NoRefresh ELSE inflight
    /\ followed' = IF write[w].kind \in DOMAIN followed /\ write[w].number > followed[write[w].kind]
                   THEN [followed EXCEPT ![write[w].kind] = write[w].number] ELSE followed
    /\ UNCHANGED <<route, data, refresh, queue, read>>

\* A response of failure invalidates nothing, whatever was saved before it.
WriteFails(w) ==
    /\ write[w].pc = "saved"
    /\ write' = [write EXCEPT ![w].pc = "done"]
    /\ UNCHANGED <<route, data, epoch, entry, inflight, refresh, queue, read, followed>>

-----------------------------------------------------------------------------
None == [clearing |-> 0, retry |-> 0]

Init ==
    /\ route \in Routes
    /\ data = 0 /\ epoch = 0
    /\ entry = NoEntry /\ inflight = NoRefresh
    /\ refresh = [f \in Refreshes |-> Unused]
    /\ queue = <<>>
    /\ write = [w \in Writers |-> [pc |-> "idle", kind |-> "other", number |-> 0, answer |-> 0]]
    /\ read = [r \in Readers |->
           [pc |-> "idle", on |-> NoRefresh, value |-> 0, fresh |-> FALSE, since |-> None]]
    /\ followed = None

Next ==
    \/ EntryAges
    \/ \E f \in Refreshes : Produce(f) \/ RefreshEnds(f) \/ RefreshFails(f)
    \/ \E r \in Readers : ReadHit(r) \/ ReadRetained(r) \/ ReadCold(r) \/ BudgetExpires(r)
    \/ \E w \in Writers :
          \/ \E kind \in Kinds : Save(w, kind)
          \/ BuildAnswer(w) \/ CacheAnswer(w) \/ WriteAnswered(w) \/ WriteFails(w)

Spec == Init /\ [][Next]_vars

-----------------------------------------------------------------------------
\* Every variable has its type.
TypeOK ==
    /\ route \in Routes
    /\ data \in Nat /\ epoch \in 0..data
    /\ entry = NoEntry \/ (entry.value \in 0..data /\ entry.age \in {"fresh", "retained"})
    /\ inflight \in Refreshes \union {NoRefresh}
    /\ \A f \in Refreshes :
          /\ refresh[f].pc \in {"unused", "queued", "running", "has_read"}
          /\ refresh[f].epoch <= epoch /\ refresh[f].value <= data
    /\ queue \in Seq(Refreshes)
    /\ \A w \in Writers :
          /\ write[w].pc \in {"idle", "saved", "built", "cached", "done"}
          /\ write[w].kind \in Kinds
    /\ \A r \in Readers :
          /\ read[r].pc \in {"idle", "waiting", "answered", "failed"}
          /\ read[r].on \in Refreshes \union {NoRefresh}

\* No slot of a lane is lost and none is taken twice, however its refreshes end:
\* one waits only while all slots are taken, no in-flight entry names a refresh that
\* is over, and no read waits for one (runBoundedHotReadProducer, launchHotReadRefresh).
SlotsAreAccountedFor ==
    /\ Cardinality(Running) <= Concurrency
    /\ queue # <<>> => Cardinality(Running) = Concurrency
    /\ \A f \in Refreshes : refresh[f].pc = "queued" <=> \E i \in 1..Len(queue) : queue[i] = f
    /\ inflight # NoRefresh => refresh[inflight].pc # "unused"
    /\ \A r \in Readers : read[r].pc = "waiting" => refresh[read[r].on].pc # "unused"

\* A plan read that begins after the answer to a profile write, labelled fresh or stale,
\* reflects that write, although refreshes launched before it end after it; and so
\* does a payment-state read after a hire or a late completion, as long as no
\* settlement retry has put its own answer into the cache (cachedX402Plan,
\* cachedX402PaymentState, invalidateCachesAfterWrite).
AnswersFollowWrites ==
    \A r \in Readers :
       /\ read[r].pc = "answered"
       /\ route \in {"plan", "state"}
       /\ \A w \in Writers : write[w].pc \in {"cached", "done"} => write[w].kind # "retry"
       => read[r].value >= read[r].since.clearing

\* A payment-state read that begins after the answer to a settlement retry reports the
\* settlement, unless it calls itself stale (apps/indexer/test/server-api.test.mjs).
RetryIsVisible ==
    \A r \in Readers :
       route = "state" /\ read[r].pc = "answered" /\ read[r].fresh
       => read[r].value >= read[r].since.retry
=============================================================================
