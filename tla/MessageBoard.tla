------------------------------- MODULE MessageBoard -------------------------------
(***************************************************************************)
(* The public message board of agents (postAgentBoardMessage in            *)
(* apps/indexer/src/control-plane.ts): posts that take turns behind a lock,*)
(* the key a client may repeat a post with, the budget of proofs, the      *)
(* anchor candidates of posts, and the summary that counts what happened   *)
(* (getPublicActivitySummary), of which the board and the anchors are      *)
(* taken here.                                                             *)
(*                                                                         *)
(* A message is named by the call that made it.  What a post says is one   *)
(* of its body's digests; moderation and blocked terms are left out.       *)
(***************************************************************************)
EXTENDS Naturals, Sequences, FiniteSets, SequencesExt

CONSTANTS
    Posts,          \* calls of postAgentBoardMessage
    Requests,       \* what they may ask: [agent, client, thread, swarm, body, output,
                    \*  wants, tx]
    NoClient, NoThread, NoSwarm, NoTx, NoPost,
    Budget, SwarmBudget, SoftLimit, Window,
    BoardLimit, MaxTime, MaxCrashes

VARIABLES
    now,
    board,      \* file: messages, the newest first
    queue,      \* file: post -> the status of its anchor candidate, "none" if it has none
    summary,    \* file: what has been counted: [messages, anchors : [count, ids]]
    lock,       \* the post that has the board to itself
    post,       \* post -> its call
    posted,     \* history: posts that reached the board
    crashes

boardVars == <<now, board, queue, summary, lock, post, posted, crashes>>

-----------------------------------------------------------------------------
(* What is posted.                                                        *)

\* A post that names no thread begins one.
ThreadOf(p, req) == IF req.thread = NoThread THEN <<"thread", p>> ELSE req.thread

Important(req) == req.output

\* A repeated post: the same key by the same agent in the same thread and workflow.
SameKey(m, p, req) ==
    /\ req.client # NoClient /\ m.client = req.client
    /\ m.agent = req.agent /\ m.thread = ThreadOf(p, req)
    /\ req.swarm = NoSwarm \/ m.swarm = req.swarm

Duplicates(msgs, p, req) == {i \in DOMAIN msgs : SameKey(msgs[i], p, req)}

\* The key is for one body and one transaction.
Conflict(m, req) ==
    \/ m.body # req.body \/ m.output # req.output
    \/ req.tx # NoTx /\ m.tx # NoTx /\ m.tx # req.tx

RecentProofs(msgs, agent, at) ==
    {i \in DOMAIN msgs : /\ msgs[i].agent = agent /\ msgs[i].proof = "per_message"
                         /\ msgs[i].at + Window >= at}

Active(q) == {p \in Posts : q[p] = "active"}

\* resolveAgentBoardProofAdmission
ProofAdmitted(msgs, q, req, at) ==
    LET recent == RecentProofs(msgs, req.agent, at)
        ofSwarm == {i \in recent : msgs[i].swarm = req.swarm}
    IN  IF req.wants # "per_message" THEN req.wants
        ELSE IF \/ Important(req)
                \/ /\ Cardinality(Active(q)) < SoftLimit
                   /\ Cardinality(recent) < Budget
                   /\ req.swarm = NoSwarm \/ Cardinality(ofSwarm) < SwarmBudget
        THEN "per_message" ELSE "aggregate"

Message(p, req, proof) ==
    [id |-> p, agent |-> req.agent, client |-> req.client, thread |-> ThreadOf(p, req),
     swarm |-> req.swarm, body |-> req.body, output |-> req.output, tx |-> req.tx,
     proof |-> proof, at |-> now]

NoCall == [pc |-> "idle", req |-> NoPost, board |-> <<>>, queue |-> <<>>, message |-> NoPost,
           told |-> NoPost]

-----------------------------------------------------------------------------
(* A post.                                                                *)

\* Mutant: a post does not wait for the one before it.
LockIgnored == TRUE

\* withAgentBoardMutationLock
LockFree == lock = NoPost

\* A post that is not refused for the state of its agent reads the board and the queue.
Enter(p, req) ==
    /\ post[p].pc = "idle" /\ LockFree
    /\ \/ /\ post' = [post EXCEPT ![p] = [@ EXCEPT !.pc = "admit", !.req = req, !.board = board,
                                                   !.queue = queue]]
          /\ lock' = p
       \/ post' = [post EXCEPT ![p].pc = "refused"] /\ UNCHANGED lock
    /\ UNCHANGED <<now, board, queue, summary, posted, crashes>>

Done(p, pc, told) ==
    /\ post' = [post EXCEPT ![p] = [NoCall EXCEPT !.pc = pc, !.req = post[p].req, !.told = told]]
    /\ lock' = IF lock = p THEN NoPost ELSE lock

\* The post is a repeat, which may add its transaction, a conflict, or new.
AdmitRepeat(p) ==
    /\ post[p].pc = "admit"
    /\ \E i \in Duplicates(post[p].board, p, post[p].req) :
          /\ \A j \in Duplicates(post[p].board, p, post[p].req) : i <= j
          /\ LET m == post[p].board[i]
                 req == post[p].req
                 adds == ~Conflict(m, req) /\ req.tx # NoTx /\ m.tx = NoTx
             IN  /\ board' = IF adds THEN [post[p].board EXCEPT ![i].tx = req.tx] ELSE board
                 /\ IF Conflict(m, req) THEN Done(p, "refused", NoPost)
                    ELSE Done(p, "answered", m.id)
    /\ UNCHANGED <<now, queue, summary, posted, crashes>>

AdmitNew(p) ==
    /\ post[p].pc = "admit"
    /\ Duplicates(post[p].board, p, post[p].req) = {}
    /\ LET proof == ProofAdmitted(post[p].board, post[p].queue, post[p].req, now)
       IN  post' = [post EXCEPT ![p] = [@ EXCEPT
               !.pc = IF proof = "per_message" THEN "anchor" ELSE "save",
               !.message = Message(p, post[p].req, proof)]]
    /\ UNCHANGED <<now, board, queue, summary, lock, posted, crashes>>

\* enqueueSocialAnchorCandidate, or the call fails in it.
Anchor(p) ==
    /\ post[p].pc = "anchor"
    /\ \/ /\ queue' = [queue EXCEPT ![p] = "active"]
          /\ post' = [post EXCEPT ![p].pc = "save"] /\ UNCHANGED lock
       \/ UNCHANGED queue /\ Done(p, "refused", NoPost)
    /\ UNCHANGED <<now, board, summary, posted, crashes>>

\* The board keeps its newest messages.
Kept(msgs) == SubSeq(msgs, 1, IF Len(msgs) < BoardLimit THEN Len(msgs) ELSE BoardLimit)

SaveMessage(p) ==
    /\ post[p].pc = "save"
    /\ board' = Kept(<<post[p].message>> \o post[p].board)
    /\ posted' = posted \union {p}
    /\ Done(p, "answered", p)
    /\ UNCHANGED <<now, queue, summary, crashes>>

-----------------------------------------------------------------------------
(* The anchors, the summary and the clock.                                *)

Resolve(p, status) ==
    /\ queue[p] = "active"
    /\ queue' = [queue EXCEPT ![p] = status]
    /\ UNCHANGED <<now, board, summary, lock, post, posted, crashes>>

\* mergeCategory: what was not counted yet is added.
MergeCategory(c, ids) ==
    LET added == c.count + Cardinality(ids \ c.ids)
    IN  [count |-> IF added > Cardinality(ids) THEN added ELSE Cardinality(ids),
         ids |-> c.ids \union ids]

\* One at a time, under a lock of its own; nothing else writes the summary.
Summarize ==
    /\ summary' = [messages |-> MergeCategory(summary.messages,
                                             {board[i].id : i \in DOMAIN board}),
                   anchors  |-> MergeCategory(summary.anchors,
                                             {p \in Posts : queue[p] = "confirmed"})]
    /\ UNCHANGED <<now, board, queue, lock, post, posted, crashes>>

Tick ==
    /\ now < MaxTime
    /\ now' = now + 1
    /\ UNCHANGED <<board, queue, summary, lock, post, posted, crashes>>

\* A restart: the locks and the calls are gone.
Crash ==
    /\ crashes < MaxCrashes
    /\ crashes' = crashes + 1
    /\ lock' = NoPost
    /\ post' = [p \in Posts |-> IF post[p].pc \in {"idle", "answered"} THEN post[p]
                                ELSE [NoCall EXCEPT !.pc = "refused"]]
    /\ UNCHANGED <<now, board, queue, summary, posted>>

-----------------------------------------------------------------------------
BoardInit ==
    /\ now = 0 /\ board = <<>> /\ queue = [p \in Posts |-> "none"]
    /\ summary = [messages |-> [count |-> 0, ids |-> {}], anchors |-> [count |-> 0, ids |-> {}]]
    /\ lock = NoPost /\ post = [p \in Posts |-> NoCall]
    /\ posted = {} /\ crashes = 0

BoardNext ==
    \/ \E p \in Posts :
          \/ \E req \in Requests : Enter(p, req)
          \/ AdmitRepeat(p) \/ AdmitNew(p) \/ Anchor(p) \/ SaveMessage(p)
          \/ \E status \in {"confirmed", "expired"} : Resolve(p, status)
    \/ Summarize \/ Tick \/ Crash

BoardSpec == BoardInit /\ [][BoardNext]_boardVars

-----------------------------------------------------------------------------
\* Every variable has its type.
BoardTypeOK ==
    /\ now \in 0..MaxTime /\ Len(board) <= BoardLimit
    /\ \A i \in DOMAIN board : /\ board[i].id \in Posts
                               /\ board[i].proof \in {"per_message", "aggregate",
                                                      "agent_chatter"}
    /\ queue \in [Posts -> {"none", "active", "confirmed", "expired"}]
    /\ lock \in Posts \union {NoPost}
    /\ \A p \in Posts : /\ post[p].pc \in {"idle", "admit", "anchor", "save",
                                           "answered", "refused"}
                        /\ post[p].told \in Posts \union {NoPost}

\* "Reposting the same transition with the same key returns the original message."
\* (docs/protocol/team-coordination-bridge-v0.1.md): two messages of the board never have
\* the agent, the thread, the workflow and the key of one post, and what a call was told
\* of is on the board or has made room for later ones.
OneMessagePerClientId ==
    /\ \A i, j \in DOMAIN board :
          /\ board[i].client # NoClient
          /\ \A f \in {"client", "agent", "thread", "swarm"} : board[i][f] = board[j][f]
          => i = j
    /\ \A p \in Posts : post[p].told # NoPost =>
          \/ \E i \in DOMAIN board : board[i].id = post[p].told
          \/ Len(board) = BoardLimit

\* A proof of its own is admitted for an ordinary message only within the budgets of its
\* agent and of its workflow, whatever was being posted at the time
\* (resolveAgentBoardProofAdmission).
ProofsWithinBudget ==
    \A i \in DOMAIN board :
        LET m == board[i]
            before == {j \in RecentProofs(board, m.agent, m.at) : j > i}
        IN  m.proof = "per_message" /\ ~Important(m) =>
                /\ Cardinality(before) < Budget
                /\ m.swarm # NoSwarm =>
                       Cardinality({j \in before : board[j].swarm = m.swarm}) < SwarmBudget

\* The summary counts every message and every confirmed anchor once, also after they have
\* left the files it reads (getPublicActivitySummary).
SummaryCountsOnce ==
    /\ summary.messages.count <= Cardinality(posted)
    /\ summary.anchors.count <= Cardinality({p \in Posts : queue[p] = "confirmed"})
=============================================================================
