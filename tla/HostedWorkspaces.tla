----------------------------- MODULE HostedWorkspaces -----------------------------
(***************************************************************************)
(* Hosted workspaces (apps/indexer/src/control-plane.ts): codes sent by    *)
(* mail, the sessions they open, and the runs and connectors of a          *)
(* workspace.  The file is loaded and saved whole by each call, and        *)
(* nothing keeps two of them apart.  What a call creates is named by the   *)
(* call; the limit of 500 codes is not reached.                            *)
(***************************************************************************)
EXTENDS Naturals

CONSTANTS
    Calls, Workspaces, Emails, Threads, Kinds,
    CodeLife, SessionLife,          \* ten minutes, seven days
    MaxTime,
    Nothing

VARIABLES
    now,
    hosted,     \* file
    call,       \* call -> [pc, of, expires, file]
    issued,     \* history: what codes were sent for
    shown,      \* history: what opened a session
    entered     \* history: <<workspace, session>> accepted before the session expired

hostedVars == <<now, hosted, call, issued, shown, entered>>

CodeRecords == [workspace : Workspaces, email : Emails, expires : Nat, consumed : BOOLEAN]
SessionRecords == [workspace : Workspaces, email : Emails, expires : Nat]

Files ==
    [workspaces : SUBSET Workspaces,
     codes      : [Calls -> CodeRecords \union {Nothing}],
     sessions   : [Calls -> SessionRecords \union {Nothing}],
     runs       : SUBSET [workspace : Workspaces, thread : Threads],
     connectors : SUBSET [workspace : Workspaces, kind : Kinds]]

EmptyFile ==
    [workspaces |-> {}, codes |-> [c \in Calls |-> Nothing],
     sessions |-> [c \in Calls |-> Nothing], runs |-> {}, connectors |-> {}]

NoCall == [pc |-> "idle", of |-> Nothing, expires |-> 0, file |-> Nothing]

\* The call has loaded the file and computed the one it will save.
Stage(c, next) == call' = [call EXCEPT ![c] = [@ EXCEPT !.pc = "save", !.file = next]]

-----------------------------------------------------------------------------
(* Codes and sessions.                                                     *)

\* The code is made and sent before the file is read; a mail that cannot be sent ends the
\* call.
RequestEmailCode(c, w, email) ==
    /\ call[c].pc = "idle"
    /\ call' = [call EXCEPT ![c] = [pc |-> "sent", of |-> [workspace |-> w, email |-> email],
                                    expires |-> now + CodeLife, file |-> Nothing]]
    /\ issued' = issued \union {[code |-> c, workspace |-> w, email |-> email,
                                 expires |-> now + CodeLife]}
    /\ UNCHANGED <<now, hosted, shown, entered>>

\* Codes that have been used leave the file with the next code.
KeepEmailCode(c) ==
    /\ call[c].pc = "sent"
    /\ Stage(c, [hosted EXCEPT
           !.workspaces = @ \union {call[c].of.workspace},
           !.codes = [x \in Calls |->
               IF x = c THEN [workspace |-> call[c].of.workspace, email |-> call[c].of.email,
                              expires |-> call[c].expires, consumed |-> FALSE]
               ELSE IF @[x] # Nothing /\ @[x].consumed THEN Nothing ELSE @[x]]])
    /\ UNCHANGED <<now, hosted, issued, shown, entered>>

MayOpen(code, email) ==
    /\ code # Nothing /\ ~code.consumed /\ now < code.expires
    /\ code.email = email

\* The one who calls knows the code and gives an address.
VerifyEmailCode(c, x, email) ==
    /\ call[c].pc = "idle"
    /\ MayOpen(hosted.codes[x], email)
    /\ Stage(c, [hosted EXCEPT
           !.codes[x].consumed = TRUE,
           !.sessions[c] = [workspace |-> hosted.codes[x].workspace,
                            email |-> hosted.codes[x].email, expires |-> now + SessionLife]])
    /\ shown' = shown \union {[session |-> c, code |-> x, email |-> email, at |-> now]}
    /\ UNCHANGED <<now, hosted, issued, entered>>

-----------------------------------------------------------------------------
(* Runs.                                                                   *)

\* requireHostedWorkspaceSession
Admits(file, s, w) ==
    /\ file.sessions[s] # Nothing
    /\ now < file.sessions[s].expires /\ file.sessions[s].workspace = w
    /\ w \in file.workspaces

\* The session is checked on one load of the file ...
BeginRun(c, s, w, thread, kinds) ==
    /\ call[c].pc = "idle" /\ Admits(hosted, s, w)
    /\ call' = [call EXCEPT ![c] =
           [NoCall EXCEPT !.pc = "admitted",
                          !.of = [workspace |-> w, thread |-> thread, kinds |-> kinds]]]
    /\ entered' = entered \union {<<w, s>>}
    /\ UNCHANGED <<now, hosted, issued, shown>>

\* ... and the run is put into another.
UpsertRun(c) ==
    /\ call[c].pc = "admitted"
    /\ LET w == call[c].of.workspace
       IN  Stage(c, [hosted EXCEPT
               !.workspaces = @ \union {w},
               !.runs = @ \union {[workspace |-> w, thread |-> call[c].of.thread]},
               !.connectors = @ \union {[workspace |-> w, kind |-> k] : k \in call[c].of.kinds}])
    /\ UNCHANGED <<now, hosted, issued, shown, entered>>

\* getHostedWorkspaceRun, listHostedWorkspaceRuns: what a session may read.
RunsFor(s, w) == IF Admits(hosted, s, w) THEN {r \in hosted.runs : r.workspace = w} ELSE {}

SaveFile(c) ==
    /\ call[c].pc = "save"
    /\ hosted' = call[c].file
    /\ call' = [call EXCEPT ![c] = [NoCall EXCEPT !.pc = "done"]]
    /\ UNCHANGED <<now, issued, shown, entered>>

Tick ==
    /\ now < MaxTime
    /\ now' = now + 1
    /\ UNCHANGED <<hosted, call, issued, shown, entered>>

-----------------------------------------------------------------------------
HostedInit ==
    /\ now = 0 /\ hosted = EmptyFile /\ call = [c \in Calls |-> NoCall]
    /\ issued = {} /\ shown = {} /\ entered = {}

HostedNext ==
    \/ \E c \in Calls :
          \/ \E w \in Workspaces, email \in Emails : RequestEmailCode(c, w, email)
          \/ KeepEmailCode(c)
          \/ \E x \in Calls, email \in Emails : VerifyEmailCode(c, x, email)
          \/ \E s \in Calls, w \in Workspaces, thread \in Threads, kinds \in SUBSET Kinds :
                BeginRun(c, s, w, thread, kinds)
          \/ UpsertRun(c) \/ SaveFile(c)
    \/ Tick

HostedSpec == HostedInit /\ [][HostedNext]_hostedVars

-----------------------------------------------------------------------------
\* Every variable has its type.
HostedTypeOK ==
    /\ now \in 0..MaxTime /\ hosted \in Files
    /\ \A c \in Calls : /\ call[c].pc \in {"idle", "sent", "admitted", "save", "done"}
                        /\ call[c].file \in Files \union {Nothing}

Copies == {hosted} \union {call[c].file : c \in {d \in Calls : call[d].pc = "save"}}

\* In the file and every copy about to be saved, a session was opened with a code sent to
\* its address for its workspace and shown before it expired, a run is in a workspace that
\* such a session entered, and the workspace of each is there, so that no session points
\* to an unknown one (verifyHostedWorkspaceEmailCode, requireHostedWorkspaceSession,
\* upsertHostedWorkspaceRun).
SessionsAreProven ==
    \A copy \in Copies :
        /\ \A s \in Calls : LET session == copy.sessions[s] IN session # Nothing =>
              /\ session.workspace \in copy.workspaces
              /\ \E proof \in shown, code \in issued :
                    /\ proof.session = s /\ proof.code = code.code
                    /\ proof.email = code.email /\ code.email = session.email
                    /\ code.workspace = session.workspace /\ proof.at < code.expires
        /\ \A r \in copy.runs :
              /\ \E s \in Calls : <<r.workspace, s>> \in entered
              /\ r.workspace \in copy.workspaces
=============================================================================
