--------------------------------- MODULE MCStores ---------------------------------
(* The parts of the indexer that share no state, side by side for TLC: a behaviour  *)
(* moves one of them, which Init chooses, and leaves the others as they begin.      *)
EXTENDS RelayHub, ConsoleState, PaymentRail, TLC

CONSTANTS s1, s2, t1, g1, g2, w1, w2

\* ConsoleState: one ticket, for one of two agents; the other enrols itself.
OneTicket == t1 :> s1

CONSTANTS Callers, Intents, Agents, Keys, NoKey, NoAgent, MaxCalls
VARIABLES pFile, pWrite, pUsed, pAnswers, pOverlapped, pCalls

pVars == <<pFile, pWrite, pUsed, pAnswers, pOverlapped, pCalls>>

Bids == INSTANCE Procurement WITH Tasks <- Callers, file <- pFile, write <- pWrite,
            used <- pUsed, answers <- pAnswers, overlapped <- pOverlapped, calls <- pCalls

CONSTANTS RelayAgents, DefaultTtl, MinTtl, MaxTtl, WriteInterval, MinFresh, MaxTime,
          MaxBeats, NoRecord
VARIABLES hFile, hWrite, hTask, connected, now, last, lease, hOverlapped, beats

hVars == <<hFile, hWrite, hTask, connected, now, last, lease, hOverlapped, beats>>

CONSTANT Posts

SomePosts ==
    {[agent |-> g1, status |-> "live", ttl |-> 4, probe |-> "none"],
     [agent |-> g1, status |-> "live", ttl |-> 4, probe |-> "proven"],
     [agent |-> g1, status |-> "offline", ttl |-> 1, probe |-> "none"]}

Beats == INSTANCE Heartbeats WITH Tasks <- Callers, file <- hFile,
            write <- hWrite, task <- hTask, overlapped <- hOverlapped

\* A price below the configured fee, at it, just above it, and one whose share for the
\* protocol is above it; a facilitator that is not asked about the fee; a quote.
SomeProfiles ==
    LET Sells(mode, price, wallet, facilitator) ==
            [mode |-> mode, price |-> price, wallet |-> wallet,
             facilitator |-> facilitator, active |-> TRUE]
    IN  {Sells("fixed", 2000, w1, "hosted"), Sells("fixed", 2001, w1, "hosted"),
         Sells("fixed", 400000, w1, "hosted"), Sells("fixed", 2000, w1, "operator"),
         Sells("quote", 2001, w2, "hosted")}

CONSTANTS Readers, Writers, Refreshes, Concurrency, MaxQueued, NoEntry, NoRefresh
VARIABLES route, data, epoch, entry, inflight, refresh, queue, rWrite, read, followed

cVars == <<route, data, epoch, entry, inflight, refresh, queue, rWrite, read, followed>>

Cache == INSTANCE HotReads WITH write <- rWrite

VARIABLE part
allVars == <<vars, consoleVars, railVars, pVars, hVars, cVars, part>>

ASSUME StoresAssumption ==
    /\ MaxCalls \in Nat
    /\ {DefaultTtl, MinTtl, MaxTtl, MaxTime, MaxBeats} \subseteq Nat
    /\ MinTtl <= MaxTtl
    /\ {WriteInterval, MinFresh} \subseteq Int
    /\ \A hb \in Posts : hb \in Beats!Heartbeat /\ hb.agent \in Agents
    /\ IsFiniteSet(Writers)

StoresInit ==
    /\ Init /\ ConsoleInit /\ RailInit
    /\ Bids!Init /\ Beats!Init /\ Cache!Init
    /\ part \in {"console", "bids", "heartbeats", "hub", "rail", "cache"}
    \* A part that does not move begins in one way.
    /\ part # "rail" => profile = CHOOSE prof \in SomeProfiles : TRUE
    /\ part # "cache" => route = "plan"

\* Calls and intents that have not begun are alike, so they may begin in order.
Ordered(set, Idle(_)) == \A j, k \in set : j < k /\ Idle(j) => Idle(k)

TasksInOrder == LET Idle(k) == task[k].pc = "idle" IN Ordered(Tasks, Idle)
ReadsInOrder == LET Idle(r) == read[r].pc = "idle" IN Ordered(Readers, Idle)
WritesInOrder == LET Idle(w) == rWrite[w].pc = "idle" IN Ordered(Writers, Idle)

IntentsInOrder == LET Unused(i) == i \notin pUsed IN Ordered(Intents, Unused)

StoresNext ==
    /\ UNCHANGED part
    /\ \/ /\ part = "console" /\ ConsoleNext /\ TasksInOrder'
          /\ UNCHANGED <<vars, railVars, pVars, hVars, cVars>>
       \/ part = "hub" /\ Next /\ UNCHANGED <<consoleVars, railVars, pVars, hVars, cVars>>
       \/ part = "rail" /\ RailNext /\ UNCHANGED <<vars, consoleVars, pVars, hVars, cVars>>
       \/ /\ part = "bids" /\ Bids!Next /\ IntentsInOrder'
          /\ UNCHANGED <<vars, consoleVars, railVars, hVars, cVars>>
       \/ /\ part = "heartbeats" /\ Beats!Next
          /\ UNCHANGED <<vars, consoleVars, railVars, pVars, cVars>>
       \/ /\ part = "cache" /\ Cache!Next /\ ReadsInOrder' /\ WritesInOrder'
          /\ UNCHANGED <<vars, consoleVars, railVars, pVars, hVars>>

StoresSpec == StoresInit /\ [][StoresNext]_allVars

\* The properties of RelayHub, ConsoleState and PaymentRail are checked under their own
\* names. Those of the instances follow, each with the type invariant of its part.

\* As in Procurement (acceptProcurementBid): the award, the bids and what the callers were
\* told agree.
AwardsAgree == Bids!TypeOK /\ Bids!AwardMatchesBids /\ Bids!AnswersAgree

\* As in Heartbeats (heartbeatPaymentSafety).
PaidOnALease == Beats!TypeOK /\ Beats!PaidOnALease

\* As in HotReads (the read caches of server.ts).
AnswersFollowWrites == Cache!TypeOK /\ Cache!AnswersFollowWrites
=============================================================================
