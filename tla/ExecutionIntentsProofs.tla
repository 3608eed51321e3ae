------------------------- MODULE ExecutionIntentsProofs -------------------------
(***************************************************************************)
(* Proofs about ExecutionIntents for any intents, quotes and calls.        *)
(*                                                                         *)
(* A record is sound where it satisfies the two properties and what makes  *)
(* them inductive: a call named as a settler has an intent it will not     *)
(* change, and an intent that exists has an id that was drawn.  Soundness  *)
(* survives every step (Grows), so an action has to show it only of the    *)
(* record it writes.                                                       *)
(*                                                                         *)
(* What holds in turns is proved of steps that stage a change only where   *)
(* none is under way (InTurn): those of Spec where Exclusive, and those of *)
(* BothSpec where its variable says so.                                    *)
(***************************************************************************)
EXTENDS MCExecutionIntents, TLAPS

Sound(i, r, q, cl, ch, re, us) ==
    /\ <<r.status, Taken(r)>> \in Paths
    /\ \A k \in r.anchored : <<i, k, r.by[k]>> \in q
    /\ r.by["settled"] \in Payers =>
          /\ r.by["settled"] \in ch
          /\ r.by["settled"] \in re
          /\ cl[r.by["settled"]].intent = i
          /\ cl[r.by["settled"]].pc \notin {"idle", "create"}
    /\ r.status # "absent" => i \in us

SoundIn(f, q, cl, ch, re, us) == \A i \in Intents : Sound(i, f[i], q, cl, ch, re, us)

SoundFile(f) == SoundIn(f, queue, call, charged, returned, used)

AllSound ==
    /\ SoundFile(file)
    /\ \A t \in Calls : write[t] # NoFile => SoundFile(write[t])
    /\ \A t \in Calls : copy[t] # NoFile => SoundFile(copy[t])

\* Where call t is in state c, and what it has in hand there: its copy and the queue.
FlowOf(t, c, cp, q) ==
    /\ c.pc \in {"change", "anchor", "attach", "changed", "runtime", "submit", "charge"}
          => c.intent \in Intents
    /\ c.pc = "change" => c.type # "created"
    /\ cp # NoFile <=> c.pc \in {"anchor", "attach"}
    /\ c.pc \in {"anchor", "attach"} => cp[c.intent].by[c.type] = t
    /\ c.pc = "attach" => <<c.intent, c.type, t>> \in q

Flow == \A t \in Calls : FlowOf(t, call[t], copy[t], queue)

\* A paying call that goes on after a completion has charged for it.
Earned ==
    \A t \in Calls :
       /\ call[t].out = "completed" =>
             /\ t \in returned
             /\ call[t].type \in {"executed", "settled"}
             /\ call[t].pc \in {"charge", "change", "anchor", "attach", "changed", "end"}
             /\ call[t].pc \in {"change", "anchor", "attach", "changed"} => t \in charged
       /\ t \in Payers /\ call[t].pc = "change" /\ call[t].type = "settled"
             => call[t].out = "completed"

OneStep(f, g) ==
    \E i \in Intents :
       /\ \A j \in Intents \ {i} : g[j].status = f[j].status
       /\ \/ g[i].status = f[i].status
          \/ <<f[i].status, g[i].status>> \in Lifecycle!Legal

\* Without overlap, the one call under way holds the file as it is, or one step on.
OneAtATime ==
    \A t \in Calls :
       Changing(t) =>
          /\ \A u \in Calls : Changing(u) => u = t
          /\ write[t] # NoFile => OneStep(file, write[t])
          /\ copy[t] # NoFile => copy[t] = IF write[t] = NoFile THEN file ELSE write[t]

Inv == TypeOK /\ AllSound /\ Flow /\ Earned

Complete(f) == \A i \in Intents : f[i].anchored = Taken(f[i])

\* The change under way has its anchor yet to attach, and lacks no other.
LacksOne(f, i, k) ==
    /\ \A j \in Intents \ {i} : f[j].anchored = Taken(f[j])
    /\ Taken(f[i]) = f[i].anchored \union {k}

\* As long as every anchor was queued, only the change under way lacks its own.
Anchoring ==
    failures = 0 =>
       /\ (\A t \in Calls : ~Changing(t)) => Complete(file)
       /\ \A t \in Calls :
             /\ call[t].pc \in {"anchor", "attach"} =>
                   LacksOne(copy[t], call[t].intent, call[t].type)
             /\ call[t].pc \notin {"anchor", "attach"} /\ write[t] # NoFile =>
                   Complete(write[t])

TurnsInv == OneAtATime /\ Anchoring

\* A call that stages a change finds no other under way.
Stages(t) ==
    \/ \E i \in Intents : Create(t, i)
    \/ Change(t) /\ Allowed(file[call[t].intent].status, call[t].type)

InTurn(t) ==
    /\ Start(t) \/ Proceed(t)
    /\ Stages(t) => \A u \in Calls : ~Changing(u)

-----------------------------------------------------------------------------
(* Soundness of files.                                                     *)

Grows ==
    /\ queue \subseteq queue'
    /\ charged \subseteq charged'
    /\ returned \subseteq returned'
    /\ used \subseteq used'
    /\ \A t \in Payers :
          call[t].pc \notin {"idle", "create"} =>
             call'[t].intent = call[t].intent /\ call'[t].pc \notin {"idle", "create"}

SoundNext(f) == SoundIn(f, queue', call', charged', returned', used')

\* A sound file stays sound when calls go on.
LEMMA SoundStays ==
    ASSUME NEW f, SoundFile(f), Grows
    PROVE  SoundNext(f)
<1> SUFFICES ASSUME NEW i \in Intents
             PROVE  Sound(i, f[i], queue', call', charged', returned', used')
  BY DEF SoundNext, SoundIn
<1>1. Sound(i, f[i], queue, call, charged, returned, used)
  BY DEF SoundFile, SoundIn
<1> QED BY <1>1 DEF Sound, Grows

\* What a step must show: the files it writes are sound.
LEMMA KeepsAllSound ==
    ASSUME AllSound, Grows,
           \/ file' = file
           \/ \E t \in Calls : write[t] # NoFile /\ file' = write[t],
           \A t \in Calls : \/ write'[t] = NoFile
                            \/ write'[t] = write[t]
                            \/ SoundNext(write'[t]),
           \A t \in Calls : \/ copy'[t] = NoFile
                            \/ copy'[t] = copy[t]
                            \/ SoundNext(copy'[t])
    PROVE  AllSound'
<1>1. \A f : SoundFile(f) => SoundNext(f)
  BY SoundStays
<1>2. SoundNext(file')
  BY <1>1 DEF AllSound
<1>3. \A t \in Calls : write'[t] # NoFile => SoundNext(write'[t])
  BY <1>1 DEF AllSound
<1>4. \A t \in Calls : copy'[t] # NoFile => SoundNext(copy'[t])
  BY <1>1 DEF AllSound
<1> QED BY <1>2, <1>3, <1>4 DEF AllSound, SoundFile, SoundNext

\* A change of one sound record keeps a file sound.
LEMMA SoundChange ==
    ASSUME NEW f \in Files, SoundFile(f), Grows, NEW i \in Intents, NEW r,
           Sound(i, r, queue', call', charged', returned', used')
    PROVE  SoundNext([f EXCEPT ![i] = r])
<1>1. SoundNext(f)
  BY SoundStays
<1>2. \A j \in Intents : [f EXCEPT ![i] = r][j] = IF j = i THEN r ELSE f[j]
  BY DEF Files
<1> QED BY <1>1, <1>2 DEF SoundNext, SoundIn

\* An allowed transition goes one step along a path of the lifecycle.
LEMMA PathGoesOn ==
    ASSUME NEW s, NEW ks, <<s, ks>> \in Paths, NEW k, Allowed(s, k)
    PROVE  <<k, ks \union {k}>> \in Paths
<1>1. CASE s = "pending"
  <2>1. ks = {"created"}
    BY <1>1 DEF Paths
  <2>2. k \in {"approved", "refunded"}
    BY <1>1 DEF Allowed
  <2> QED BY <2>1, <2>2 DEF Paths
<1>2. CASE s = "approved"
  <2>1. ks = {"created", "approved"}
    BY <1>2 DEF Paths
  <2>2. k \in {"executed", "refunded"}
    BY <1>2 DEF Allowed
  <2> QED BY <2>1, <2>2 DEF Paths
<1>3. CASE s = "executed"
  <2>1. ks = {"created", "approved", "executed"}
    BY <1>3 DEF Paths
  <2>2. k \in {"settled", "refunded"}
    BY <1>3 DEF Allowed
  <2> QED BY <2>1, <2>2 DEF Paths
<1> QED BY <1>1, <1>2, <1>3 DEF Allowed

-----------------------------------------------------------------------------
(* The steps of a call.                                                    *)

LEMMA TurnTo ==
    ASSUME TypeOK, NEW t \in Calls, NEW k \in Types, Turn(t, k)
    PROVE  /\ call' \in [Calls -> CallStates]
           /\ \A u \in Calls \ {t} : call'[u] = call[u]
           /\ call'[t].pc = "change" /\ call'[t].type = k
           /\ call'[t].intent = call[t].intent /\ call'[t].out = call[t].out
<1>1. call[t] \in CallStates
  BY DEF TypeOK
<1>2. PICK c : c = [[call[t] EXCEPT !.pc = "change"] EXCEPT !.type = k]
  OBVIOUS
<1>3. /\ c \in CallStates
      /\ c.pc = "change" /\ c.type = k
      /\ c.intent = call[t].intent /\ c.out = call[t].out
  BY <1>1, <1>2 DEF CallStates, PCs
<1>4. call' = [call EXCEPT ![t] = c]
  BY <1>2 DEF Turn, TypeOK
<1> QED BY <1>3, <1>4 DEF TypeOK

LEMMA InitInv == Init => Inv
<1> SUFFICES ASSUME Init PROVE Inv
  OBVIOUS
<1>1. Absent \in Records
  BY DEF Absent, Records, Types, Statuses
<1>2. TypeOK
  BY <1>1, ConstantsAssumption DEF Init, TypeOK, Files, Idle, PCs, CallStates, Types
<1>3. Taken(Absent) = {}
  BY DEF Taken, Absent
<1>4. \A i \in Intents : Sound(i, Absent, queue, call, charged, returned, used)
  <2>1. <<Absent.status, Taken(Absent)>> \in Paths
    BY <1>3 DEF Absent, Paths
  <2>2. Absent.by["settled"] = NoCall
    BY DEF Absent, Types
  <2>3. NoCall \notin Payers
    BY ConstantsAssumption DEF Calls
  <2> QED BY <2>1, <2>2, <2>3 DEF Sound, Absent
<1>5. AllSound
  BY <1>4 DEF AllSound, SoundFile, SoundIn, Init
<1>6. Flow /\ Earned
  BY ConstantsAssumption DEF Init, Flow, FlowOf, Earned, Idle
<1> QED BY <1>2, <1>5, <1>6 DEF Inv

\* The steps that touch neither the file nor a copy of it.
LEMMA QuietStep ==
    ASSUME Inv, TypeOK', Flow', Earned', Grows,
           UNCHANGED <<file, write>>,
           \A t \in Calls : copy'[t] \in {copy[t], NoFile}
    PROVE  Inv'
  BY KeepsAllSound DEF Inv

LEMMA StartKeepsInv ==
    ASSUME Inv, NEW t \in Calls, Start(t)
    PROVE  Inv'
<1> USE DEF Inv, At
<1>1. ASSUME NEW q \in Quotes, StartAccept(t, q) PROVE Inv'
  <2>1. TypeOK'
    BY <1>1 DEF StartAccept, TypeOK, PCs, CallStates
  <2>2. Flow' /\ Earned'
    BY <1>1 DEF StartAccept, TypeOK, CallStates, Flow, FlowOf, Earned
  <2>3. Grows
    BY <1>1 DEF StartAccept, TypeOK, CallStates, Grows, Calls
  <2> QED BY <1>1, <2>1, <2>2, <2>3, QuietStep DEF StartAccept
<1>2. ASSUME NEW q \in Quotes \union {NoQuote}, StartCreate(t, q) PROVE Inv'
  <2>1. TypeOK'
    BY <1>2 DEF StartCreate, TypeOK, PCs, CallStates
  <2>2. Flow' /\ Earned'
    BY <1>2 DEF StartCreate, TypeOK, CallStates, Flow, FlowOf, Earned
  <2>3. Grows
    BY <1>2 DEF StartCreate, TypeOK, CallStates, Grows, Calls
  <2> QED BY <1>2, <2>1, <2>2, <2>3, QuietStep DEF StartCreate
<1>3. ASSUME t \in Operators, NEW i \in Intents, NEW k \in Types \ {"created"},
             StartChange(t, i, k)
      PROVE  Inv'
  <2>1. TypeOK'
    BY <1>3 DEF StartChange, TypeOK, PCs, CallStates
  <2>2. Flow' /\ Earned'
    BY SMTT(60), <1>3, CallsAssumption DEF StartChange, TypeOK, CallStates, Flow, FlowOf, Earned
  <2>3. Grows
    BY <1>3 DEF StartChange, TypeOK, CallStates, Grows, Calls
  <2> QED BY <1>3, <2>1, <2>2, <2>3, QuietStep DEF StartChange
<1>4. ASSUME NEW i \in Intents, Lookup(t, i) PROVE Inv'
  <2>1. TypeOK'
    BY <1>4 DEF Lookup, TypeOK, PCs, CallStates, Types
  <2>2. Flow' /\ Earned'
    BY SMTT(60), <1>4 DEF Lookup, TypeOK, CallStates, Flow, FlowOf, Earned
  <2>3. Grows
    BY <1>4 DEF Lookup, TypeOK, CallStates, Grows, Calls
  <2> QED BY <1>4, <2>1, <2>2, <2>3, QuietStep DEF Lookup
<1> QED BY <1>1, <1>2, <1>3, <1>4 DEF Start

\* A change that is staged: what is written is the file with one record changed.
LEMMA StageKeepsInv ==
    ASSUME Inv, NEW t \in Calls, NEW i \in Intents, NEW r \in Records, Stage(t, i, r),
           TypeOK', Earned', Grows, UNCHANGED <<file, queue>>,
           \A u \in Calls \ {t} : call'[u] = call[u],
           call'[t].pc = "anchor", call'[t].intent = i, r.by[call'[t].type] = t,
           Sound(i, r, queue', call', charged', returned', used')
    PROVE  Inv'
<1> USE DEF Inv
<1>1. SoundNext([file EXCEPT ![i] = r])
  BY SoundChange DEF AllSound, TypeOK
<1>2. [file EXCEPT ![i] = r] # NoFile
  BY ConstantsAssumption DEF TypeOK, Files
<1>3. \A u \in Calls : /\ write'[u] = IF u = t THEN [file EXCEPT ![i] = r] ELSE write[u]
                       /\ copy'[u] = IF u = t THEN [file EXCEPT ![i] = r] ELSE copy[u]
  BY DEF Stage, TypeOK
<1>4. AllSound'
  BY <1>1, <1>3, KeepsAllSound
<1>5. Flow'
  <2>1. copy'[t][i] = r
    BY <1>3 DEF TypeOK, Files
  <2> QED BY <1>2, <1>3, <2>1 DEF Flow, FlowOf, TypeOK
<1> QED BY <1>4, <1>5

LEMMA CreateKeepsInv ==
    ASSUME Inv, NEW t \in Calls, NEW i \in Intents, Create(t, i)
    PROVE  Inv'
<1> USE DEF Inv, At
<1> DEFINE r == [status |-> "pending", quote |-> call[t].quote,
                 by |-> [Absent.by EXCEPT !["created"] = t], anchored |-> {}]
<1>1. Absent.by = [k \in Types |-> NoCall]
  BY DEF Absent
<1>2. /\ r \in Records
      /\ r.by["created"] = t
      /\ \A k \in Types \ {"created"} : r.by[k] = NoCall
  BY <1>1 DEF Records, Types, Statuses, TypeOK, CallStates
<1>3. Taken(r) = {"created"}
  BY <1>2, ConstantsAssumption DEF Taken, Types
<1>4. Sound(i, r, queue', call', charged', returned', used')
  <2>1. <<r.status, Taken(r)>> \in Paths
    BY <1>3 DEF Paths
  <2>2. r.by["settled"] \notin Payers
    BY <1>2, ConstantsAssumption DEF Types, Calls
  <2> QED BY <2>1, <2>2 DEF Sound, Create
<1>5. Stage(t, i, r)
  BY DEF Create
<1>6. TypeOK'
  <2>1. [file EXCEPT ![i] = r] \in Files
    BY <1>2 DEF TypeOK, Files
  <2> HIDE DEF r
  <2>2. write' \in [Calls -> Files \union {NoFile}] /\ copy' \in [Calls -> Files \union {NoFile}]
    BY <1>5, <2>1 DEF Stage, TypeOK
  <2>3. PICK c : c = [[[call[t] EXCEPT !.pc = "anchor"] EXCEPT !.intent = i]
                        EXCEPT !.type = "created"]
    OBVIOUS
  <2>4. c \in CallStates
    BY ZenonT(60), <2>3 DEF TypeOK, CallStates, PCs, Types
  <2>5. call' = [call EXCEPT ![t] = c]
    BY <2>3 DEF Create, TypeOK
  <2>6. call' \in [Calls -> CallStates]
    BY <2>4, <2>5 DEF TypeOK
  <2> QED BY <2>2, <2>6 DEF Create, TypeOK
<1>7. Grows
  BY DEF Create, TypeOK, CallStates, Grows, Calls
<1>8. Earned'
  BY DEF Create, TypeOK, Earned
<1>9. /\ \A u \in Calls \ {t} : call'[u] = call[u]
      /\ call'[t].pc = "anchor" /\ call'[t].intent = i /\ call'[t].type = "created"
      /\ UNCHANGED <<file, queue>>
  BY DEF Create, TypeOK
<1> HIDE DEF r
<1> QED BY <1>2, <1>4, <1>5, <1>6, <1>7, <1>8, <1>9, StageKeepsInv

LEMMA ChangeKeepsInv ==
    ASSUME Inv, NEW t \in Calls, Change(t)
    PROVE  Inv'
<1> USE DEF Inv, At
<1> DEFINE i == call[t].intent
           k == call[t].type
           r == [file[i] EXCEPT !.status = k, !.by[k] = t]
<1>1. i \in Intents /\ k \in Types \ {"created"}
  BY DEF Change, Flow, FlowOf, TypeOK, CallStates
<1>2. CASE Allowed(file[i].status, k)
  <2>1. Stage(t, i, r) /\ Goto(t, "anchor")
    BY <1>2 DEF Change
  <2>2. file[i] \in Records
    BY <1>1 DEF TypeOK, Files
  <2>3. /\ r \in Records
        /\ r.status = k
        /\ r.by[k] = t
        /\ \A l \in Types \ {k} : r.by[l] = file[i].by[l]
        /\ r.anchored = file[i].anchored
    BY <1>1, <2>2 DEF Records, Types, Statuses
  <2>4. Taken(r) = Taken(file[i]) \union {k}
    BY <1>1, <2>3, ConstantsAssumption DEF Taken
  <2>5. Sound(i, file[i], queue, call, charged, returned, used)
    BY <1>1 DEF AllSound, SoundFile, SoundIn
  <2>6. Grows
    BY <2>1 DEF Change, Goto, TypeOK, CallStates, Grows, Calls
  <2>7. Sound(i, file[i], queue', call', charged', returned', used')
    BY <1>1, <2>6, SoundStays DEF AllSound, SoundNext, SoundIn
  <2>8. k \notin Taken(file[i])
    BY SMTT(60), <1>2, <2>5 DEF Sound, Paths, Allowed
  <2>9. k \notin file[i].anchored \/ r.by[k] = file[i].by[k]
    <3>1. file[i].by[k] = NoCall
      BY <1>1, <2>8 DEF Taken
    <3>2. <<i, k, NoCall>> \notin queue
      BY ConstantsAssumption DEF TypeOK
    <3> QED BY <2>5, <3>1, <3>2 DEF Sound
  <2>10. Sound(i, r, queue', call', charged', returned', used')
    <3>1. <<r.status, Taken(r)>> \in Paths
      BY SMTT(60), <1>2, <2>3, <2>4, <2>5, PathGoesOn DEF Sound
    <3>2. \A l \in r.anchored : <<i, l, r.by[l]>> \in queue'
      <4>1. \A l \in file[i].anchored : l \in Types
        BY <2>2 DEF Records
      <4> QED BY SMTT(60), <2>3, <2>7, <2>9, <4>1 DEF Sound
    <3>3. ASSUME r.by["settled"] \in Payers
          PROVE  /\ r.by["settled"] \in charged' /\ r.by["settled"] \in returned'
                 /\ call'[r.by["settled"]].intent = i
                 /\ call'[r.by["settled"]].pc \notin {"idle", "create"}
      <4>1. CASE k = "settled"
        <5>1. r.by["settled"] = t
          BY <2>3, <4>1
        <5>2. call[t].pc = "change"
          BY DEF Change
        <5>3. t \in charged /\ t \in returned
          BY <3>3, <4>1, <5>1, <5>2 DEF Earned
        <5>4. call'[t].intent = i /\ call'[t].pc = "anchor"
          BY <2>1 DEF Goto, TypeOK
        <5> QED BY <2>6, <5>1, <5>3, <5>4 DEF Grows
      <4>2. CASE k # "settled"
        <5>1. r.by["settled"] = file[i].by["settled"]
          BY <2>3, <4>2 DEF Types
        <5> QED BY SMTT(60), <2>7, <3>3, <5>1 DEF Sound
      <4> QED BY SMTT(60), <4>1, <4>2
    <3>4. i \in used'
      <4>1. file[i].status # "absent"
        BY <1>2 DEF Allowed
      <4> QED BY <2>7, <4>1 DEF Sound
    <3> QED BY SMTT(60), <3>1, <3>2, <3>3, <3>4 DEF Sound
  <2> HIDE DEF r
  <2>11. TypeOK'
    <3>1. [file EXCEPT ![i] = r] \in Files
      BY <1>1, <2>3 DEF TypeOK, Files
    <3> QED BY SMTT(60), <2>1, <3>1 DEF Change, Goto, Stage, TypeOK, PCs, CallStates
  <2>12. Earned'
    BY <2>1 DEF Change, Goto, TypeOK, Earned
  <2>13. /\ \A u \in Calls \ {t} : call'[u] = call[u]
         /\ call'[t].pc = "anchor" /\ call'[t].intent = i /\ call'[t].type = k
         /\ UNCHANGED <<file, queue>>
    BY <2>1 DEF Change, Goto, TypeOK
  <2> QED BY <1>1, <2>1, <2>3, <2>6, <2>10, <2>11, <2>12, <2>13, StageKeepsInv
<1>3. CASE ~Allowed(file[i].status, k)
  <2>1. /\ Goto(t, "end")
        /\ UNCHANGED <<file, write, copy, queue, used, charged, returned, failures>>
    BY <1>3 DEF Change
  <2>2. TypeOK'
    BY <2>1 DEF Goto, TypeOK, PCs, CallStates
  <2>3. Flow' /\ Earned'
    BY <2>1 DEF Change, Goto, TypeOK, CallStates, Flow, FlowOf, Earned
  <2>4. Grows
    BY <2>1 DEF Goto, TypeOK, CallStates, Grows, Calls
  <2> QED BY <2>1, <2>2, <2>3, <2>4, QuietStep
<1> QED BY <1>2, <1>3

LEMMA SaveKeepsInv ==
    ASSUME Inv, NEW t \in Calls, Save(t)
    PROVE  Inv'
<1> USE DEF Inv, Save, Quiet
<1>1. TypeOK'
  BY DEF TypeOK
<1>2. Flow' /\ Earned'
  BY DEF Flow, FlowOf, Earned
<1>3. Grows
  BY DEF Grows
<1>4. \A u \in Calls : write'[u] = NoFile \/ write'[u] = write[u]
  BY DEF TypeOK
<1> QED BY <1>1, <1>2, <1>3, <1>4, KeepsAllSound

\* A call that turns to its next change: a completion has been charged for by then.
LEMMA TurnKeepsInv ==
    ASSUME Inv, NEW t \in Calls, NEW k \in Types \ {"created"}, Turn(t, k),
           call[t].pc \in {"changed", "runtime", "charge"},
           UNCHANGED <<file, write, copy, queue, used, returned, failures>>,
           charged' = charged \/ charged' = charged \union {t},
           call[t].out = "completed" => t \in charged' /\ k \in {"executed", "settled"},
           k = "settled" => call[t].out = "completed"
    PROVE  Inv'
<1> USE DEF Inv
<1>1. /\ call' \in [Calls -> CallStates]
      /\ \A u \in Calls \ {t} : call'[u] = call[u]
      /\ call'[t].pc = "change" /\ call'[t].type = k
      /\ call'[t].intent = call[t].intent /\ call'[t].out = call[t].out
  BY TurnTo
<1>2. TypeOK'
  BY <1>1 DEF TypeOK
<1>3. Flow'
  <2>1. /\ copy[t] = NoFile
        /\ call[t].intent \in Intents
    BY DEF Flow, FlowOf
  <2>2. \A u \in Calls : FlowOf(u, call'[u], copy[u], queue)
    BY <1>1, <2>1 DEF Flow, FlowOf
  <2> QED BY <2>2 DEF Flow, FlowOf
<1>4. Earned'
  BY <1>1 DEF Earned
<1>5. Grows
  BY <1>1 DEF Grows, Calls
<1> QED BY <1>2, <1>3, <1>4, <1>5, QuietStep

\* The steps of a call between its changes, and the one that queues an anchor.
LEMMA RouteKeepsInv ==
    ASSUME Inv, NEW t \in Calls,
           \/ Anchor(t) \/ AnchorFails(t) \/ Changed(t) \/ Runtime(t)
           \/ \E out \in {"completed", "failed", "noReturn", "throws"} : Submit(t, out)
           \/ Charge(t) \/ ChargeFails(t)
    PROVE  Inv'
<1> USE DEF Inv, At
<1>1. CASE Anchor(t)
  <2>1. TypeOK'
    <3>1. call[t].intent \in Intents /\ call[t].type \in Types
      BY <1>1 DEF Anchor, Flow, FlowOf, TypeOK, CallStates
    <3> QED BY <1>1, <3>1 DEF Anchor, Goto, TypeOK, PCs, CallStates
  <2>2. Flow' /\ Earned'
    BY <1>1 DEF Anchor, Goto, TypeOK, CallStates, Flow, FlowOf, Earned
  <2>3. Grows
    BY <1>1 DEF Anchor, Goto, TypeOK, CallStates, Grows, Calls
  <2> QED BY <1>1, <2>1, <2>2, <2>3, QuietStep DEF Anchor
<1>2. CASE AnchorFails(t)
  <2>1. TypeOK'
    BY SMTT(60), <1>2, ConstantsAssumption DEF AnchorFails, Goto, TypeOK, PCs, CallStates
  <2>2. Flow' /\ Earned'
    BY <1>2 DEF AnchorFails, Goto, TypeOK, CallStates, Flow, FlowOf, Earned
  <2>3. Grows
    BY <1>2 DEF AnchorFails, Goto, TypeOK, CallStates, Grows, Calls
  <2>4. \A u \in Calls : copy'[u] \in {copy[u], NoFile}
    BY <1>2 DEF AnchorFails, TypeOK
  <2> QED BY <1>2, <2>1, <2>2, <2>3, <2>4, QuietStep DEF AnchorFails
<1>3. CASE Changed(t)
  <2>1. CASE Turn(t, "settled")
    <3>1. "settled" \in Types
      BY DEF Types
    <3>2. call'[t].pc = "change"
      BY <2>1, <3>1, TurnTo
    <3>3. ~Goto(t, "runtime") /\ ~Goto(t, "submit") /\ ~Goto(t, "end")
      BY <3>2 DEF Goto, TypeOK, CallStates
    <3>4. /\ call[t].type = "executed" /\ call[t].out = "completed" /\ call[t].pc = "changed"
          /\ UNCHANGED <<file, write, copy, queue, used, charged, returned, failures>>
      BY <1>3, <3>3 DEF Changed
    <3>5. t \in charged
      BY <3>4 DEF Earned
    <3> QED BY <2>1, <3>1, <3>4, <3>5, TurnKeepsInv
  <2>2. CASE ~Turn(t, "settled")
    <3>1. TypeOK'
      BY <1>3, <2>2 DEF Changed, Goto, TypeOK, PCs, CallStates
    <3>2. Flow' /\ Earned'
      BY SMTT(60), <1>3, <2>2 DEF Changed, Goto, TypeOK, CallStates, Flow, FlowOf, Earned
    <3>3. Grows
      BY <1>3, <2>2 DEF Changed, Goto, TypeOK, CallStates, Grows, Calls
    <3> QED BY <1>3, <3>1, <3>2, <3>3, QuietStep DEF Changed
  <2> QED BY <2>1, <2>2
<1>4. CASE Runtime(t)
  <2>1. CASE Turn(t, "refunded")
    <3>1. "refunded" \in Types
      BY DEF Types
    <3>2. call[t].pc = "runtime" /\ call[t].out # "completed"
      BY <1>4 DEF Runtime, Earned
    <3> QED BY <1>4, <2>1, <3>1, <3>2, TurnKeepsInv DEF Runtime
  <2>2. CASE ~Turn(t, "refunded")
    <3>1. TypeOK'
      BY SMTT(60), <1>4, <2>2 DEF Runtime, Goto, TypeOK, PCs, CallStates
    <3>2. Flow' /\ Earned'
      BY <1>4, <2>2 DEF Runtime, Goto, TypeOK, CallStates, Flow, FlowOf, Earned
    <3>3. Grows
      BY <1>4, <2>2 DEF Runtime, Goto, TypeOK, CallStates, Grows, Calls
    <3> QED BY <1>4, <3>1, <3>2, <3>3, QuietStep DEF Runtime
  <2> QED BY <2>1, <2>2
<1>5. ASSUME NEW out \in {"completed", "failed", "noReturn", "throws"}, Submit(t, out)
      PROVE  Inv'
  <2>1. TypeOK'
    BY <1>5 DEF Submit, TypeOK, PCs, CallStates, Types
  <2>2. /\ \A u \in Calls \ {t} : call'[u] = call[u]
        /\ call'[t].pc = (IF out = "completed" THEN "charge"
                         ELSE IF out = "failed" THEN "change" ELSE "end")
        /\ call'[t].intent = call[t].intent
        /\ call'[t].type = "executed"
        /\ call'[t].out = out
    BY <1>5 DEF Submit, TypeOK, CallStates
  <2>3. /\ copy[t] = NoFile
        /\ call[t].intent \in Intents
    BY <1>5 DEF Submit, Flow, FlowOf
  <2>4. \A u \in Calls : FlowOf(u, call'[u], copy[u], queue)
    BY <2>2, <2>3 DEF Flow, FlowOf
  <2>5. Flow'
    <3>1. copy' = copy /\ queue' = queue
      BY <1>5 DEF Submit
    <3> QED BY <2>4, <3>1 DEF Flow, FlowOf
  <2>6. out = "completed" => t \in returned'
    BY <1>5 DEF Submit
  <2>7. returned \subseteq returned' /\ charged' = charged
    BY <1>5 DEF Submit
  <2>8. Earned'
    BY <2>2, <2>6, <2>7 DEF Earned
  <2>9. Grows
    BY <1>5 DEF Submit, TypeOK, CallStates, Grows, Calls
  <2> QED BY <1>5, <2>1, <2>5, <2>8, <2>9, QuietStep DEF Submit
<1>6. CASE Charge(t)
  <2>1. "executed" \in Types
    BY DEF Types
  <2>2. call[t].pc = "charge" /\ Turn(t, "executed") /\ charged' = charged \union {t}
    BY <1>6 DEF Charge
  <2> QED BY <1>6, <2>1, <2>2, TurnKeepsInv DEF Charge
<1>7. CASE ChargeFails(t)
  <2>1. TypeOK'
    BY <1>7 DEF ChargeFails, Goto, TypeOK, PCs, CallStates
  <2>2. Flow' /\ Earned'
    BY <1>7 DEF ChargeFails, Goto, TypeOK, CallStates, Flow, FlowOf, Earned
  <2>3. Grows
    BY <1>7 DEF ChargeFails, Goto, TypeOK, CallStates, Grows, Calls
  <2> QED BY <1>7, <2>1, <2>2, <2>3, QuietStep DEF ChargeFails
<1> QED BY <1>1, <1>2, <1>3, <1>4, <1>5, <1>6, <1>7

LEMMA AttachKeepsInv ==
    ASSUME Inv, NEW t \in Calls, Attach(t)
    PROVE  Inv'
<1> USE DEF Inv, At
<1> DEFINE i == call[t].intent
           k == call[t].type
           r == [copy[t][i] EXCEPT !.anchored = @ \union {k}]
<1>1. /\ i \in Intents /\ k \in Types
      /\ copy[t] # NoFile
      /\ copy[t] \in Files
      /\ copy[t][i].by[k] = t
      /\ <<i, k, t>> \in queue
  BY DEF Attach, Flow, FlowOf, TypeOK
<1>2. copy[t][i] \in Records
  BY <1>1 DEF Files
<1>3. /\ r \in Records
      /\ r.status = copy[t][i].status
      /\ r.by = copy[t][i].by
      /\ r.anchored = copy[t][i].anchored \union {k}
  BY <1>1, <1>2 DEF Records
<1>4. [copy[t] EXCEPT ![i].anchored = @ \union {k}] = [copy[t] EXCEPT ![i] = r]
  OBVIOUS
<1>5. Grows
  BY DEF Attach, Goto, TypeOK, CallStates, Grows, Calls
<1>6. Sound(i, copy[t][i], queue', call', charged', returned', used')
  BY <1>1, <1>5, SoundStays DEF AllSound, SoundNext, SoundIn
<1>7. Taken(r) = Taken(copy[t][i])
  BY <1>3 DEF Taken
<1>8. <<i, k, t>> \in queue'
  BY <1>1, <1>5 DEF Grows
<1> HIDE DEF r
<1>9. Sound(i, r, queue', call', charged', returned', used')
  BY ZenonT(60), <1>1, <1>3, <1>6, <1>7, <1>8 DEF Sound
<1>10. SoundNext([copy[t] EXCEPT ![i] = r])
  BY <1>1, <1>5, <1>9, SoundChange DEF AllSound
<1>11. \A u \in Calls :
          /\ write'[u] = IF u = t THEN [copy[t] EXCEPT ![i] = r] ELSE write[u]
          /\ copy'[u] = IF u = t THEN NoFile ELSE copy[u]
  BY <1>4 DEF Attach, TypeOK
<1>12. AllSound'
  BY <1>5, <1>10, <1>11, KeepsAllSound DEF Attach
<1>13. TypeOK'
  <2>1. [copy[t] EXCEPT ![i] = r] \in Files
    BY <1>1, <1>3 DEF Files
  <2> QED BY SMTT(60), <1>4, <2>1 DEF Attach, Goto, TypeOK, PCs, CallStates
<1>14. Flow' /\ Earned'
  BY <1>11 DEF Attach, Goto, TypeOK, CallStates, Flow, FlowOf, Earned
<1> QED BY <1>12, <1>13, <1>14

LEMMA NextKeepsInv == Inv /\ [Next]_vars => Inv'
<1> SUFFICES ASSUME Inv, [Next]_vars PROVE Inv'
  OBVIOUS
<1>1. CASE UNCHANGED vars
  BY <1>1 DEF vars, Inv, TypeOK, AllSound, SoundFile, Flow, FlowOf, Earned
<1>2. CASE Next
  <2> SUFFICES ASSUME NEW t \in Calls, Start(t) \/ Proceed(t) PROVE Inv'
    BY <1>2 DEF Next
  <2>1. CASE Start(t)
    BY <2>1, StartKeepsInv
  <2>2. CASE Proceed(t)
    BY <2>2, CreateKeepsInv, ChangeKeepsInv, SaveKeepsInv, RouteKeepsInv, AttachKeepsInv
       DEF Proceed
  <2> QED BY <2>1, <2>2
<1> QED BY <1>1, <1>2

LEMMA InvAlways == Spec => []Inv
  BY InitInv, NextKeepsInv, PTL DEF Spec

-----------------------------------------------------------------------------
(* The file implements the lifecycle when changes do not overlap.          *)

\* A change with an allowed transition, and a creation, are one legal step.
LEMMA StagedIsOneStep ==
    ASSUME NEW f \in Files, NEW i \in Intents, NEW r,
           \/ r.status = f[i].status
           \/ <<f[i].status, r.status>> \in Lifecycle!Legal
    PROVE  OneStep(f, [f EXCEPT ![i] = r])
  BY DEF OneStep, Files

\* The calls that neither start a change nor go on with one leave the order alone.
LEMMA OrderStays ==
    ASSUME Inv, OneAtATime, UNCHANGED <<file, write>>,
           \A u \in Calls : Changing(u)' => Changing(u),
           \A u \in Calls : copy'[u] \in {copy[u], NoFile}
    PROVE  OneAtATime'
  BY DEF OneAtATime

LEMMA StageInOrder ==
    ASSUME Inv, \A u \in Calls : ~Changing(u), NEW t \in Calls, NEW i \in Intents,
           NEW r \in Records, Stage(t, i, r), UNCHANGED file,
           \A u \in Calls \ {t} : call'[u] = call[u],
           <<file[i].status, r.status>> \in Lifecycle!Legal
    PROVE  OneAtATime'
<1>1. \A u \in Calls : /\ write'[u] = IF u = t THEN [file EXCEPT ![i] = r] ELSE write[u]
                       /\ copy'[u] = IF u = t THEN [file EXCEPT ![i] = r] ELSE copy[u]
  BY DEF Stage, Inv, TypeOK
<1>2. \A u \in Calls \ {t} : ~Changing(u)'
  BY <1>1 DEF Changing, Quiet
<1>3. OneStep(file, [file EXCEPT ![i] = r])
  <2>1. file \in Files
    BY DEF Inv, TypeOK
  <2> QED BY <2>1, StagedIsOneStep
<1>4. [file EXCEPT ![i] = r] # NoFile
  BY ConstantsAssumption DEF Inv, TypeOK, Files
<1>5. PICK g : g = [file EXCEPT ![i] = r]
  OBVIOUS
<1>6. /\ write'[t] = g /\ copy'[t] = g
      /\ g # NoFile /\ OneStep(file, g)
  BY <1>1, <1>3, <1>4, <1>5
<1>7. \A u \in Calls : Changing(u)' => u = t
  BY <1>2
<1>8. \A u \in Calls : Changing(u)' =>
         /\ write'[u] # NoFile => OneStep(file', write'[u])
         /\ copy'[u] # NoFile => copy'[u] = IF write'[u] = NoFile THEN file' ELSE write'[u]
  BY <1>6, <1>7
<1> QED BY <1>7, <1>8 DEF OneAtATime

LEMMA OrderKept ==
    ASSUME Inv, OneAtATime, NEW t \in Calls, InTurn(t)
    PROVE  OneAtATime'
<1> USE DEF Inv, At
<1>1. ASSUME NEW i \in Intents, Create(t, i) PROVE OneAtATime'
  <2> DEFINE r == [status |-> "pending", quote |-> call[t].quote,
                   by |-> [Absent.by EXCEPT !["created"] = t], anchored |-> {}]
  <2>1. file[i].status = "absent"
    BY ZenonT(60), <1>1 DEF Create, AllSound, SoundFile, SoundIn, Sound
  <2>2. <<file[i].status, r.status>> \in Lifecycle!Legal
    BY <2>1 DEF Lifecycle!Legal
  <2>3. Stage(t, i, r) /\ UNCHANGED file /\ \A u \in Calls \ {t} : call'[u] = call[u]
    BY <1>1 DEF Create, TypeOK
  <2>4. r \in Records
    BY DEF Absent, Records, Types, Statuses, TypeOK, CallStates
  <2> QED BY <1>1, <2>2, <2>3, <2>4, StageInOrder DEF InTurn, Stages
<1>2. ASSUME Change(t), Allowed(file[call[t].intent].status, call[t].type) PROVE OneAtATime'
  <2> DEFINE i == call[t].intent
             r == [file[i] EXCEPT !.status = call[t].type, !.by[call[t].type] = t]
  <2>1. i \in Intents
    BY <1>2 DEF Change, Flow, FlowOf
  <2>2. r.status = call[t].type
    BY <2>1 DEF TypeOK, Files, Records
  <2>3. <<file[i].status, r.status>> \in Lifecycle!Legal
    BY <1>2, <2>2 DEF Allowed, Lifecycle!Legal
  <2>4. Stage(t, i, r) /\ UNCHANGED file /\ \A u \in Calls \ {t} : call'[u] = call[u]
    BY <1>2 DEF Change, Goto, TypeOK
  <2>5. file[i] \in Records /\ call[t].type \in Statuses \intersect Types
    BY <1>2, <2>1 DEF TypeOK, Files, Allowed, Types, Statuses
  <2>6. r \in Records
    BY <2>5 DEF Records
  <2>7. \A u \in Calls : ~Changing(u)
    BY <1>2 DEF InTurn, Stages
  <2> QED BY <2>1, <2>3, <2>4, <2>6, <2>7, StageInOrder
<1>3. CASE Save(t)
  <2>1. Changing(t) /\ \A u \in Calls : Changing(u) => u = t
    BY <1>3 DEF Save, Changing, OneAtATime
  <2>2. \A u \in Calls : /\ write'[u] = IF u = t THEN NoFile ELSE write[u]
                         /\ copy'[u] = copy[u]
    BY <1>3 DEF Save, TypeOK
  <2>3. \A u \in Calls : Changing(u)' => u = t
    BY <1>3, <2>1, <2>2 DEF Save, Changing, Quiet
  <2>4. copy[t] # NoFile => copy[t] = write[t]
    BY <1>3, <2>1 DEF Save, Quiet, OneAtATime
  <2> QED BY <1>3, <2>2, <2>3, <2>4 DEF Save, OneAtATime
<1>4. CASE Attach(t)
  <2> DEFINE i == call[t].intent
             r == [copy[t][i] EXCEPT !.anchored = @ \union {call[t].type}]
  <2>1. Changing(t) /\ \A u \in Calls : Changing(u) => u = t
    BY <1>4 DEF Attach, Changing, OneAtATime
  <2>2. i \in Intents /\ copy[t] = file
    BY <1>4, <2>1 DEF Attach, Quiet, Flow, FlowOf, OneAtATime
  <2>3. r.status = file[i].status
    BY <2>2 DEF TypeOK, Files, Records
  <2>4. OneStep(file, [file EXCEPT ![i] = r])
    BY <2>2, <2>3, StagedIsOneStep DEF TypeOK
  <2>5. [copy[t] EXCEPT ![i].anchored = @ \union {call[t].type}] = [file EXCEPT ![i] = r]
    BY <2>2
  <2>6. \A u \in Calls : /\ write'[u] = IF u = t THEN [file EXCEPT ![i] = r] ELSE write[u]
                         /\ copy'[u] = IF u = t THEN NoFile ELSE copy[u]
    BY <1>4, <2>5 DEF Attach, TypeOK
  <2>7. \A u \in Calls : Changing(u)' => u = t
    BY <1>4, <2>1, <2>6 DEF Attach, Goto, Changing, Quiet, TypeOK
  <2> HIDE DEF r
  <2> QED BY ZenonT(60), <1>4, <2>4, <2>6, <2>7 DEF Attach, OneAtATime
<1>5. CASE Start(t)
  <2>1. UNCHANGED <<file, write, copy>>
    BY ZenonT(60), <1>5 DEF Start, StartAccept, StartCreate, StartChange, Lookup
  <2>2. /\ \A u \in Calls \ {t} : call'[u] = call[u]
        /\ call'[t].pc \notin {"anchor", "attach"}
    <3>1. ASSUME NEW q \in Quotes, StartAccept(t, q) PROVE <2>2!:
      BY <3>1 DEF StartAccept, TypeOK, CallStates
    <3>2. ASSUME NEW q \in Quotes \union {NoQuote}, StartCreate(t, q) PROVE <2>2!:
      BY <3>2 DEF StartCreate, TypeOK, CallStates
    <3>3. ASSUME NEW i \in Intents, NEW k \in Types \ {"created"}, StartChange(t, i, k)
          PROVE  <2>2!:
      BY <3>3 DEF StartChange, TypeOK, CallStates
    <3>4. ASSUME NEW i \in Intents, Lookup(t, i) PROVE <2>2!:
      BY <3>4 DEF Lookup, TypeOK, CallStates
    <3> QED BY <1>5, <3>1, <3>2, <3>3, <3>4 DEF Start
  <2>3. \A u \in Calls : Changing(u)' => Changing(u)
    BY <2>1, <2>2 DEF Changing, Quiet
  <2> QED BY <2>1, <2>3, OrderStays
<1>6. CASE \/ Anchor(t) \/ AnchorFails(t) \/ Changed(t) \/ Runtime(t)
           \/ \E out \in {"completed", "failed", "noReturn", "throws"} : Submit(t, out)
           \/ Charge(t) \/ ChargeFails(t)
           \/ Change(t) /\ ~Allowed(file[call[t].intent].status, call[t].type)
  <2>1. UNCHANGED <<file, write>>
    BY <1>6 DEF Anchor, AnchorFails, Changed, Runtime, Submit, Charge, ChargeFails, Change
  <2>2. \A u \in Calls : copy'[u] \in {copy[u], NoFile}
    BY <1>6 DEF Anchor, AnchorFails, Changed, Runtime, Submit, Charge, ChargeFails, Change,
                TypeOK
  <2>3. \A u \in Calls :
           call'[u].pc \in {"anchor", "attach"} => call[u].pc \in {"anchor", "attach"}
    <3>1. CASE \E k \in Types : Turn(t, k)
      BY <3>1, TurnTo
    <3>2. CASE \E out \in {"completed", "failed", "noReturn", "throws"} : Submit(t, out)
      BY <3>2 DEF Submit, TypeOK, CallStates
    <3>3. CASE Goto(t, "attach") /\ call[t].pc = "anchor"
      BY <3>3 DEF Goto, TypeOK, CallStates
    <3>4. CASE Goto(t, "end") \/ Goto(t, "runtime") \/ Goto(t, "submit")
      BY <3>4 DEF Goto, TypeOK, CallStates
    <3> QED BY <1>6, <3>1, <3>2, <3>3, <3>4
          DEF Anchor, AnchorFails, Changed, Runtime, Charge, ChargeFails, Change, Types
  <2> QED BY <2>1, <2>2, <2>3, OrderStays DEF Changing, Quiet
<1> QED BY <1>1, <1>2, <1>3, <1>4, <1>5, <1>6 DEF InTurn, Proceed

\* Where changes exclude each other, every step is in turn.
LEMMA NextInTurn ==
    ASSUME Exclusive, NEW t \in Calls, Start(t) \/ Proceed(t) PROVE InTurn(t)
<1>1. ASSUME NEW i \in Intents, Create(t, i) PROVE \A u \in Calls : ~Changing(u)
  BY <1>1 DEF Create, Stage, Free
<1>2. ASSUME Change(t), Allowed(file[call[t].intent].status, call[t].type)
      PROVE  \A u \in Calls : ~Changing(u)
  BY <1>2 DEF Change, Stage, Free
<1> QED BY <1>1, <1>2 DEF InTurn, Stages

LEMMA OrderAlways ==
    ASSUME Exclusive PROVE Spec => []OneAtATime
<1>1. Init => OneAtATime
  BY DEF Init, OneAtATime, Changing, Quiet, Idle
<1>2. Inv /\ OneAtATime /\ [Next]_vars => OneAtATime'
  <2>1. CASE UNCHANGED vars
    BY <2>1 DEF vars, OneAtATime, Changing, Quiet, OneStep
  <2>2. CASE Next
    BY <2>2, OrderKept, NextInTurn DEF Next
  <2> QED BY <2>1, <2>2
<1> QED BY <1>1, <1>2, InvAlways, PTL DEF Spec

LEMMA OneStepIsAMove ==
    ASSUME NEW f \in Files, NEW g \in Files, OneStep(f, g)
    PROVE  \/ [i \in Intents |-> g[i].status] = [i \in Intents |-> f[i].status]
           \/ \E i \in Intents, s \in Statuses :
                 /\ <<f[i].status, s>> \in Lifecycle!Legal
                 /\ [j \in Intents |-> g[j].status]
                      = [[j \in Intents |-> f[j].status] EXCEPT ![i] = s]
<1>1. PICK i \in Intents :
         /\ \A j \in Intents \ {i} : g[j].status = f[j].status
         /\ \/ g[i].status = f[i].status
            \/ <<f[i].status, g[i].status>> \in Lifecycle!Legal
  BY DEF OneStep
<1>2. g[i].status \in Statuses
  BY DEF Files, Records
<1>3. CASE g[i].status = f[i].status
  BY <1>1, <1>3
<1>4. CASE <<f[i].status, g[i].status>> \in Lifecycle!Legal
  <2>1. [j \in Intents |-> g[j].status]
          = [[j \in Intents |-> f[j].status] EXCEPT ![i] = g[i].status]
    BY <1>1
  <2> QED BY <1>2, <1>4, <2>1
<1> QED BY <1>1, <1>3, <1>4

LEMMA StepIsAMove ==
    ASSUME Inv, Inv', OneAtATime, [Next]_vars
    PROVE  [Lifecycle!Next]_([i \in Intents |-> file[i].status])
<1>1. CASE file' = file
  BY <1>1
<1>2. CASE file' # file
  <2>1. PICK t \in Calls : Save(t)
    BY ZenonT(60), <1>2 DEF vars, Next, Start, Proceed, StartAccept, StartCreate, StartChange, Lookup,
                Create, Change, Anchor, AnchorFails, Attach, Changed, Runtime, Submit,
                Charge, ChargeFails
  <2>2. OneStep(file, file')
    BY <2>1 DEF Save, Changing, Quiet, OneAtATime
  <2>3. file \in Files /\ file' \in Files
    BY DEF Inv, TypeOK
  <2>4. PICK f, g : f = file /\ g = file'
    OBVIOUS
  <2>5. \/ [i \in Intents |-> g[i].status] = [i \in Intents |-> f[i].status]
        \/ \E i \in Intents, s \in Statuses :
              /\ <<f[i].status, s>> \in Lifecycle!Legal
              /\ [j \in Intents |-> g[j].status]
                   = [[j \in Intents |-> f[j].status] EXCEPT ![i] = s]
    <3>1. f \in Files /\ g \in Files /\ OneStep(f, g)
      BY <2>2, <2>3, <2>4
    <3> QED BY <3>1, OneStepIsAMove
  <2> QED BY <2>4, <2>5 DEF Lifecycle!Next, Lifecycle!Move, Lifecycle!Statuses, Statuses
<1> QED BY <1>1, <1>2

-----------------------------------------------------------------------------
(* Every transition is anchored when changes do not overlap.               *)

LEMMA StageAnchors ==
    ASSUME Inv, Anchoring, \A u \in Calls : ~Changing(u), NEW t \in Calls, NEW i \in Intents,
           NEW r \in Records, Stage(t, i, r), UNCHANGED failures,
           \A u \in Calls \ {t} : call'[u] = call[u],
           call'[t].pc = "anchor", call'[t].intent = i,
           Complete(file) => Taken(r) = r.anchored \union {call'[t].type}
    PROVE  Anchoring'
<1> SUFFICES ASSUME failures = 0 PROVE Anchoring'
  BY DEF Anchoring
<1>1. Complete(file)
  BY DEF Anchoring
<1>2. \A u \in Calls : /\ write'[u] = IF u = t THEN [file EXCEPT ![i] = r] ELSE write[u]
                       /\ copy'[u] = IF u = t THEN [file EXCEPT ![i] = r] ELSE copy[u]
  BY DEF Stage, Inv, TypeOK
<1>3. LacksOne([file EXCEPT ![i] = r], i, call'[t].type)
  <2>1. file \in [Intents -> Records]
    BY DEF Inv, TypeOK, Files
  <2> QED BY <1>1, <2>1 DEF Complete, LacksOne
<1>4. Changing(t)'
  BY DEF Changing
<1>5. \A u \in Calls \ {t} : /\ call[u].pc \notin {"anchor", "attach"}
                            /\ write[u] = NoFile
  BY DEF Changing, Quiet
<1> QED BY <1>2, <1>3, <1>4, <1>5 DEF Anchoring

LEMMA StartKeepsAnchoring ==
    ASSUME Inv, Anchoring, NEW t \in Calls, Start(t)
    PROVE  Anchoring'
<1> USE DEF Inv, At
<1>1. UNCHANGED <<file, write, copy, failures>>
  BY ZenonT(60) DEF Start, StartAccept, StartCreate, StartChange, Lookup
<1>2. /\ \A u \in Calls \ {t} : call'[u] = call[u]
      /\ call[t].pc = "idle" /\ call'[t].pc \notin {"anchor", "attach"}
  <2>1. ASSUME NEW q \in Quotes, StartAccept(t, q) PROVE <1>2!:
    BY <2>1 DEF StartAccept, TypeOK, CallStates
  <2>2. ASSUME NEW q \in Quotes \union {NoQuote}, StartCreate(t, q) PROVE <1>2!:
    BY <2>2 DEF StartCreate, TypeOK, CallStates
  <2>3. ASSUME NEW i \in Intents, NEW k \in Types \ {"created"}, StartChange(t, i, k)
        PROVE  <1>2!:
    BY <2>3 DEF StartChange, TypeOK, CallStates
  <2>4. ASSUME NEW i \in Intents, Lookup(t, i) PROVE <1>2!:
    BY <2>4 DEF Lookup, TypeOK, CallStates
  <2> QED BY <2>1, <2>2, <2>3, <2>4 DEF Start
<1> QED BY <1>1, <1>2 DEF Anchoring, Changing, Quiet, Complete

LEMMA ProceedKeepsAnchoring ==
    ASSUME Inv, OneAtATime, Anchoring, NEW t \in Calls, Proceed(t), InTurn(t)
    PROVE  Anchoring'
<1> USE DEF Inv, At
<1>1. ASSUME NEW i \in Intents, Create(t, i) PROVE Anchoring'
  <2> DEFINE r == [status |-> "pending", quote |-> call[t].quote,
                   by |-> [Absent.by EXCEPT !["created"] = t], anchored |-> {}]
  <2>1. Absent.by = [k \in Types |-> NoCall]
    BY DEF Absent
  <2>2. r \in Records
    BY <2>1 DEF Records, Types, Statuses, TypeOK, CallStates
  <2>3. Taken(r) = {"created"}
    BY <2>1, ConstantsAssumption DEF Taken, Types
  <2>4. /\ \A u \in Calls \ {t} : call'[u] = call[u]
        /\ call'[t].pc = "anchor" /\ call'[t].intent = i /\ call'[t].type = "created"
    BY <1>1 DEF Create, TypeOK
  <2>5. Stage(t, i, r) /\ UNCHANGED failures
    BY <1>1 DEF Create
  <2>6. \A u \in Calls : ~Changing(u)
    BY <1>1 DEF InTurn, Stages
  <2>7. r.anchored = {}
    OBVIOUS
  <2> HIDE DEF r
  <2> QED BY <2>2, <2>3, <2>4, <2>5, <2>6, <2>7, StageAnchors
<1>2. ASSUME Change(t), Allowed(file[call[t].intent].status, call[t].type) PROVE Anchoring'
  <2> DEFINE i == call[t].intent
             k == call[t].type
             r == [file[i] EXCEPT !.status = k, !.by[k] = t]
  <2>1. i \in Intents /\ k \in Types
    BY <1>2 DEF Change, Flow, FlowOf, TypeOK, CallStates
  <2>2. file[i] \in Records /\ k \in Statuses
    BY <1>2, <2>1 DEF TypeOK, Files, Allowed, Statuses
  <2>3. /\ r \in Records
        /\ r.anchored = file[i].anchored
        /\ r.by = [file[i].by EXCEPT ![k] = t]
    BY <2>1, <2>2 DEF Records
  <2>4. Taken(r) = Taken(file[i]) \union {k}
    BY <2>1, <2>2, <2>3, ConstantsAssumption DEF Taken, Records
  <2>5. /\ \A u \in Calls \ {t} : call'[u] = call[u]
        /\ call'[t].pc = "anchor" /\ call'[t].intent = i /\ call'[t].type = k
    BY <1>2 DEF Change, Goto, TypeOK, CallStates
  <2>6. Stage(t, i, r) /\ UNCHANGED failures
    BY <1>2 DEF Change
  <2>7. \A u \in Calls : ~Changing(u)
    BY <1>2 DEF InTurn, Stages
  <2>8. Complete(file) => Taken(r) = r.anchored \union {k}
    BY <2>1, <2>3, <2>4 DEF Complete
  <2> HIDE DEF r
  <2> QED BY <2>1, <2>3, <2>5, <2>6, <2>7, <2>8, StageAnchors
<1>3. CASE Save(t)
  <2>1. \A u \in Calls \ {t} : ~Changing(u)
    BY <1>3 DEF Save, Changing, OneAtATime
  <2>2. \A u \in Calls : write'[u] = IF u = t THEN NoFile ELSE write[u]
    BY <1>3 DEF Save, TypeOK
  <2>3. CASE call[t].pc \in {"anchor", "attach"}
    BY <1>3, <2>2, <2>3 DEF Save, Anchoring, Changing
  <2>4. CASE call[t].pc \notin {"anchor", "attach"}
    <3>1. failures = 0 => Complete(file')
      BY <1>3, <2>4 DEF Save, Anchoring, Quiet
    <3> QED BY <1>3, <2>1, <2>2, <2>4, <3>1 DEF Save, Anchoring, Changing, Quiet, Complete
  <2> QED BY <2>3, <2>4
<1>4. CASE Anchor(t)
  <2>1. /\ \A u \in Calls \ {t} : call'[u] = call[u]
        /\ call'[t].pc = "attach" /\ call[t].pc = "anchor"
        /\ call'[t].intent = call[t].intent /\ call'[t].type = call[t].type
    BY <1>4 DEF Anchor, Goto, TypeOK, CallStates
  <2> QED BY <1>4, <2>1 DEF Anchor, Anchoring, Changing, Quiet, Complete
<1>5. CASE AnchorFails(t)
  BY <1>5 DEF AnchorFails, Anchoring, TypeOK
<1>6. CASE Attach(t)
  <2> DEFINE i == call[t].intent
             k == call[t].type
             r == [copy[t][i] EXCEPT !.anchored = @ \union {k}]
             g == [copy[t] EXCEPT ![i] = r]
  <2>1. i \in Intents /\ k \in Types /\ copy[t] \in Files
    BY <1>6 DEF Attach, Flow, FlowOf, TypeOK
  <2>2. /\ r.by = copy[t][i].by
        /\ r.anchored = copy[t][i].anchored \union {k}
    BY <2>1 DEF Files, Records
  <2>3. Taken(r) = Taken(copy[t][i])
    BY <2>2 DEF Taken
  <2>4. \A u \in Calls : write'[u] = IF u = t THEN g ELSE write[u]
    BY <1>6 DEF Attach, TypeOK
  <2>5. \A u \in Calls \ {t} : ~Changing(u)
    BY <1>6 DEF Attach, Changing, OneAtATime
  <2>6. /\ \A u \in Calls \ {t} : call'[u] = call[u]
        /\ call'[t].pc = "changed"
    BY <1>6 DEF Attach, Goto, TypeOK, CallStates
  <2>7. g # NoFile
    <3>1. r \in Records
      BY <2>1 DEF Files, Records
    <3> HIDE DEF r
    <3> QED BY <2>1, <3>1, ConstantsAssumption DEF Files
  <2>8. failures = 0 => Complete(g)
    <3>1. failures = 0 => LacksOne(copy[t], i, k)
      BY <1>6 DEF Attach, Anchoring
    <3>2. \A j \in Intents : g[j] = IF j = i THEN r ELSE copy[t][j]
      BY <2>1 DEF Files
    <3>3. ASSUME failures = 0, NEW j \in Intents PROVE g[j].anchored = Taken(g[j])
      <4>1. CASE j = i
        <5>1. g[j] = r
          BY <3>2, <4>1
        <5> HIDE DEF r, g
        <5> QED BY <2>2, <2>3, <3>1, <3>3, <5>1 DEF LacksOne
      <4>2. CASE j # i
        BY <3>1, <3>2, <3>3, <4>2 DEF LacksOne
      <4> QED BY <4>1, <4>2
    <3> HIDE DEF g
    <3> QED BY <3>3 DEF Complete
  <2> HIDE DEF g
  <2>9. Changing(t)'
    BY <2>4, <2>7 DEF Changing, Quiet
  <2>10. \A u \in Calls \ {t} : /\ call'[u].pc \notin {"anchor", "attach"}
                               /\ write'[u] = NoFile
    BY <2>4, <2>5, <2>6 DEF Changing, Quiet
  <2>11. failures' = failures /\ write'[t] = g
    BY <1>6, <2>4 DEF Attach
  <2> QED BY <2>6, <2>8, <2>9, <2>10, <2>11 DEF Anchoring, Complete
<1>7. CASE \/ Changed(t) \/ Runtime(t)
           \/ \E out \in {"completed", "failed", "noReturn", "throws"} : Submit(t, out)
           \/ Charge(t) \/ ChargeFails(t)
           \/ Change(t) /\ ~Allowed(file[call[t].intent].status, call[t].type)
  <2>1. UNCHANGED <<file, write, copy, failures>>
    BY <1>7 DEF Changed, Runtime, Submit, Charge, ChargeFails, Change
  <2>2. /\ \A u \in Calls \ {t} : call'[u] = call[u]
        /\ call[t].pc \notin {"anchor", "attach"} /\ call'[t].pc \notin {"anchor", "attach"}
    <3>1. CASE \E k \in Types : Turn(t, k)
      BY <1>7, <3>1, TurnTo DEF Changed, Runtime, Submit, Charge, ChargeFails, Change
    <3>2. CASE \E out \in {"completed", "failed", "noReturn", "throws"} : Submit(t, out)
      BY <3>2 DEF Submit, TypeOK, CallStates
    <3>3. CASE Goto(t, "end") \/ Goto(t, "runtime") \/ Goto(t, "submit")
      BY <1>7, <3>3 DEF Goto, TypeOK, CallStates, Changed, Runtime, Submit, Charge, ChargeFails,
                        Change
    <3> QED BY <1>7, <3>1, <3>2, <3>3
          DEF Changed, Runtime, Charge, ChargeFails, Change, Types
  <2> QED BY <2>1, <2>2 DEF Anchoring, Changing, Quiet, Complete
<1> QED BY <1>1, <1>2, <1>3, <1>4, <1>5, <1>6, <1>7 DEF Proceed

LEMMA TurnsInvKept ==
    ASSUME Inv, TurnsInv, NEW t \in Calls, InTurn(t)
    PROVE  TurnsInv'
<1>1. OneAtATime'
  BY OrderKept DEF TurnsInv
<1>2. Anchoring'
  <2>1. CASE Start(t)
    BY <2>1, StartKeepsAnchoring DEF TurnsInv
  <2>2. CASE Proceed(t)
    BY <2>2, ProceedKeepsAnchoring DEF TurnsInv
  <2> QED BY <2>1, <2>2 DEF InTurn
<1> QED BY <1>1, <1>2 DEF TurnsInv

-----------------------------------------------------------------------------
(* The instance that takes turns, beside the one that does not.            *)

LEMMA TurnsStage ==
    ASSUME NEW t \in Calls, NEW i, NEW r
    PROVE  Turns!Stage(t, i, r) <=> Stage(t, i, r) /\ \A u \in Calls : ~Changing(u)
  BY DEF Turns!Stage, Turns!Free, Turns!Changing, Turns!Quiet, Turns!Calls,
         Stage, Free, Changing, Quiet, Calls

LEMMA StagesFrom ==
    ASSUME NEW t \in Calls, Stages(t)
    PROVE  call[t].pc \in {"create", "change"} /\ Quiet(t)
<1>1. ASSUME NEW i \in Intents, Create(t, i) PROVE call[t].pc = "create" /\ Quiet(t)
  BY <1>1 DEF Create, At
<1>2. ASSUME Change(t) PROVE call[t].pc = "change" /\ Quiet(t)
  BY <1>2 DEF Change, At
<1> QED BY <1>1, <1>2 DEF Stages

LEMMA TurnsStart ==
    ASSUME NEW t \in Calls, Turns!Start(t)
    PROVE  Start(t) /\ InTurn(t)
<1>1. ~Stages(t)
  BY ZenonT(60), StagesFrom DEF Turns!Start, Turns!StartAccept, Turns!StartCreate,
     Turns!StartChange, Turns!Lookup, Turns!At
<1>2. Start(t)
  BY ZenonT(60)
     DEF Turns!Start, Turns!StartAccept, Turns!StartCreate, Turns!StartChange, Turns!Lookup,
         Turns!At, Turns!Quiet, Turns!Active, Turns!Types,
         Start, StartAccept, StartCreate, StartChange, Lookup, At, Quiet, Active, Types
<1> QED BY <1>1, <1>2 DEF InTurn

LEMMA TurnsProceed ==
    ASSUME NEW t \in Calls, Turns!Proceed(t)
    PROVE  Proceed(t) /\ InTurn(t)
<1>1. ASSUME NEW i \in Intents, Turns!Create(t, i)
      PROVE  Create(t, i) /\ \A u \in Calls : ~Changing(u)
  BY <1>1, TurnsStage DEF Turns!Create, Turns!At, Turns!Quiet, Turns!Absent, Turns!Types,
                          Create, At, Quiet, Absent, Types
<1>2. ASSUME Turns!Change(t)
      PROVE  /\ Change(t)
             /\ Allowed(file[call[t].intent].status, call[t].type)
                   => \A u \in Calls : ~Changing(u)
  BY <1>2, TurnsStage DEF Turns!Change, Turns!At, Turns!Quiet, Turns!Goto, Turns!Allowed,
                          Change, At, Quiet, Goto, Allowed
<1>3. CASE \/ Turns!Save(t) \/ Turns!Anchor(t) \/ Turns!AnchorFails(t) \/ Turns!Attach(t)
           \/ Turns!Changed(t) \/ Turns!Runtime(t) \/ Turns!Charge(t) \/ Turns!ChargeFails(t)
           \/ \E out \in {"completed", "failed", "noReturn", "throws"} : Turns!Submit(t, out)
  <2>1. \/ Save(t) \/ Anchor(t) \/ AnchorFails(t) \/ Attach(t) \/ Changed(t)
        \/ Runtime(t) \/ Charge(t) \/ ChargeFails(t)
        \/ \E out \in {"completed", "failed", "noReturn", "throws"} : Submit(t, out)
    BY <1>3 DEF Turns!Save, Turns!Anchor, Turns!AnchorFails, Turns!Attach, Turns!Changed,
                Turns!Runtime, Turns!Charge, Turns!ChargeFails, Turns!Submit,
                Turns!At, Turns!Quiet, Turns!Goto, Turns!Turn,
                Save, Anchor, AnchorFails, Attach, Changed, Runtime, Charge, ChargeFails, Submit,
                At, Quiet, Goto, Turn
  <2>2. ~Stages(t)
    BY <1>3, StagesFrom
       DEF Turns!Save, Turns!Anchor, Turns!AnchorFails, Turns!Attach, Turns!Changed,
           Turns!Runtime, Turns!Charge, Turns!ChargeFails, Turns!Submit,
           Turns!At, Turns!Quiet, Quiet
  <2> QED BY <2>1, <2>2 DEF InTurn, Proceed
<1>4. ASSUME NEW i \in Intents, Turns!Create(t, i) PROVE Proceed(t) /\ InTurn(t)
  BY <1>1, <1>4 DEF Proceed, InTurn
<1>5. ASSUME Turns!Change(t) PROVE Proceed(t) /\ InTurn(t)
  <2>1. Change(t) /\ call[t].pc = "change"
    BY <1>2, <1>5 DEF Change, At
  <2>2. \A i \in Intents : ~Create(t, i)
    BY <2>1 DEF Create, At
  <2>3. Stages(t) => \A u \in Calls : ~Changing(u)
    BY <1>2, <1>5, <2>2 DEF Stages
  <2> QED BY <2>1, <2>3 DEF Proceed, InTurn
<1> QED BY ZenonT(60), <1>3, <1>4, <1>5 DEF Turns!Proceed

LEMMA TurnsStep ==
    ASSUME Turns!Next
    PROVE  \E t \in Calls : InTurn(t)
<1>1. PICK t \in Calls : Turns!Start(t) \/ Turns!Proceed(t)
  BY DEF Turns!Next, Turns!Calls, Calls
<1> QED BY <1>1, TurnsStart, TurnsProceed

\* A step of either instance is a step of ExecutionIntents.
LEMMA BothStep ==
    ASSUME BothNext
    PROVE  Next /\ UNCHANGED serial /\ (serial => \E t \in Calls : InTurn(t))
<1>1. CASE serial /\ Turns!Next
  BY <1>1, TurnsStep DEF BothNext, InTurn, Next
<1>2. CASE ~serial /\ \E t \in Calls \ Held : Start(t) \/ Proceed(t)
  BY <1>2 DEF BothNext, Next
<1> QED BY <1>1, <1>2 DEF BothNext

BothInv == Inv /\ serial \in BOOLEAN /\ (serial => TurnsInv)

LEMMA InitTurns == Init => TurnsInv
<1> SUFFICES ASSUME Init PROVE TurnsInv
  OBVIOUS
<1>1. OneAtATime
  BY DEF Init, OneAtATime, Changing, Quiet, Idle
<1>2. Taken(Absent) = {}
  BY DEF Taken, Absent
<1>3. Complete(file)
  BY <1>2 DEF Init, Complete, Absent
<1>4. Anchoring
  BY <1>3 DEF Init, Anchoring, Idle
<1> QED BY <1>1, <1>4 DEF TurnsInv

LEMMA BothInvAlways == BothSpec => []BothInv
<1>1. BothInit => BothInv
  BY InitInv, InitTurns DEF BothInit, BothInv
<1>2. BothInv /\ [BothNext]_bothVars => BothInv'
  <2> SUFFICES ASSUME BothInv, [BothNext]_bothVars PROVE BothInv'
    OBVIOUS
  <2>1. CASE UNCHANGED bothVars
    <3>1. UNCHANGED vars /\ UNCHANGED serial
      BY <2>1 DEF bothVars
    <3>2. Inv'
      BY <3>1, NextKeepsInv DEF BothInv
    <3>3. TurnsInv => TurnsInv'
      BY <3>1 DEF vars, TurnsInv, OneAtATime, Anchoring, Changing, Quiet, OneStep, Complete
    <3> QED BY <3>1, <3>2, <3>3 DEF BothInv
  <2>2. CASE BothNext
    <3>1. Next /\ UNCHANGED serial /\ (serial => \E t \in Calls : InTurn(t))
      BY <2>2, BothStep
    <3>2. Inv'
      BY <3>1, NextKeepsInv DEF BothInv
    <3>3. serial => TurnsInv'
      BY <3>1, TurnsInvKept DEF BothInv
    <3> QED BY <3>1, <3>2, <3>3 DEF BothInv
  <2> QED BY <2>1, <2>2
<1> QED BY <1>1, <1>2, PTL DEF BothSpec

-----------------------------------------------------------------------------
(* The theorems.                                                           *)

\* Every variable keeps its type.
THEOREM IntentsTypeCorrect == Spec => []TypeOK
  BY InvAlways, PTL DEF Inv

\* An intent's history is a legal path with real anchors in every copy of the file,
\* for any number of overlapping calls.
THEOREM HistoriesAreReal == Spec => []HistoryIsReal
<1>1. Inv => HistoryIsReal
  BY DEF Inv, AllSound, SoundFile, SoundIn, Sound, HistoryIsReal, Real
<1> QED BY <1>1, InvAlways, PTL

\* What the paying route calls settled was charged by that call for a completed hire.
THEOREM SettledIntentsArePaid == Spec => []SettledIsPaid
<1>1. Inv => SettledIsPaid
  <2> SUFFICES ASSUME Inv, NEW i \in Intents
               PROVE  /\ Paid(i, file[i])
                      /\ \A t \in Calls : /\ write[t] # NoFile => Paid(i, write[t][i])
                                          /\ copy[t] # NoFile => Paid(i, copy[t][i])
    BY DEF SettledIsPaid
  <2>1. \A r : Sound(i, r, queue, call, charged, returned, used) => Paid(i, r)
    BY DEF Sound, Paid
  <2> QED BY <2>1 DEF Inv, AllSound, SoundFile, SoundIn
<1> QED BY <1>1, InvAlways, PTL

\* When changes do not overlap, the intent file implements the lifecycle.
THEOREM IntentsImplementLifecycle ==
    ASSUME Exclusive PROVE Spec => StatusesMoveForward
<1>1. Init => Lifecycle!Init
  BY DEF Init, Lifecycle!Init, Absent
<1>2. Inv /\ Inv' /\ OneAtATime /\ [Next]_vars
        => [Lifecycle!Next]_([i \in Intents |-> file[i].status])
  BY StepIsAMove
<1> QED BY <1>1, <1>2, InvAlways, OrderAlways, PTL
        DEF Spec, StatusesMoveForward, Lifecycle!Spec

\* Where changes take turns, every transition ends up with its anchor, unless one could
\* not be queued.
THEOREM TurnsAnchorEveryStep == BothSpec => []TurnsAreAnchored
<1>1. BothInv => TurnsAreAnchored
  BY DEF BothInv, TurnsInv, Anchoring, Complete, TurnsAreAnchored, Turns!EveryStepIsAnchored,
         Turns!Calls, Turns!Changing, Turns!Quiet, Turns!Taken, Turns!Types,
         Calls, Changing, Quiet, Taken, Types
<1> QED BY <1>1, BothInvAlways, PTL

\* Where changes take turns, the file implements the lifecycle.
THEOREM TurnsImplementLifecycle == BothSpec => TurnsMoveForward
<1> DEFINE shown == [i \in Intents |-> IF serial THEN file[i].status ELSE "absent"]
<1>1. BothInit => TurnsLifecycle!Init
  BY DEF BothInit, Init, TurnsLifecycle!Init, Absent
<1>2. BothInv /\ BothInv' /\ [BothNext]_bothVars => [TurnsLifecycle!Next]_shown
  <2> SUFFICES ASSUME BothInv, BothInv', [BothNext]_bothVars
               PROVE  [TurnsLifecycle!Next]_shown
    OBVIOUS
  <2>1. UNCHANGED serial /\ [Next]_vars
    BY BothStep DEF bothVars
  <2>2. CASE ~serial
    BY <2>1, <2>2
  <2>3. CASE serial
    <3>1. [Lifecycle!Next]_([i \in Intents |-> file[i].status])
      BY <2>1, <2>3, StepIsAMove DEF BothInv, TurnsInv
    <3>2. shown = [i \in Intents |-> file[i].status]
      BY <2>3
    <3>3. shown' = [i \in Intents |-> file[i].status]'
      BY <2>1, <2>3
    <3> QED BY <3>1, <3>2, <3>3 DEF Lifecycle!Next, Lifecycle!Move, Lifecycle!Statuses,
                Lifecycle!Legal, TurnsLifecycle!Next, TurnsLifecycle!Move,
                TurnsLifecycle!Statuses, TurnsLifecycle!Legal
  <2> QED BY <2>2, <2>3 DEF BothInv
<1> QED BY <1>1, <1>2, BothInvAlways, PTL DEF BothSpec, TurnsMoveForward, TurnsLifecycle!Spec
=============================================================================
