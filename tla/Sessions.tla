------------------------------- MODULE Sessions -------------------------------
(***************************************************************************)
(* The broker's session registry (broker/sessions.ts) together with the    *)
(* life of the MCP server processes that drive it (server.ts,              *)
(* server/auto-attach.ts).                                                 *)
(*                                                                         *)
(* Every MCP server process owns one row of the sessions table.  A row is  *)
(* bound to a Claude Code session id by /attach-cc-session, and binding    *)
(* reclaims whatever earlier rows of the same Claude Code session owned,   *)
(* so that a restart of the MCP server or of Claude Code loses nothing.    *)
(* A board stands for every owned object that handleAttachCCSession moves  *)
(* with the boards: maps, diagrams, issues.                                *)
(***************************************************************************)
EXTENDS Naturals, FiniteSets

CONSTANTS
  Session,    \* broker row ids; one per MCP server process that ever runs
  CC,         \* Claude Code session ids
  Board,      \* board ids
  Cwd,        \* working directories
  NoSession,  \* "no row": the owner of a board that does not exist yet
  NoCC,       \* the NULL cc_session_id of an unbound row
  Env         \* which of the rarer environments are explored, see EnvKind

(***************************************************************************)
(* "remote":  sessions registered from another machine, judged by their    *)
(*            heartbeats and not by their pid.                             *)
(* "rebind":  an agent calls attach_cc_session on a row that is bound      *)
(*            already, with another Claude Code id.                        *)
(* "late":    a server still in tryAutoAttach finishes its attach after    *)
(*            Claude Code closed its pipe (the pipe is only watched once   *)
(*            main has run to its end).                                    *)
(***************************************************************************)
EnvKind == {"remote", "rebind", "late"}

ASSUME EnvAssumption == Env \subseteq EnvKind
ASSUME NullAssumption == NoSession \notin Session /\ NoCC \notin CC
ASSUME CwdAssumption == Cwd # {}

VARIABLES
  sess,   \* the sessions table
  proc,   \* the MCP server process behind each row
  owner,  \* boards.session_id
  dflt    \* the boards with is_default = 1

svars == <<sess, proc, owner, dflt>>

Row == [reg : BOOLEAN, alive : BOOLEAN, cc : CC \cup {NoCC}, cwd : Cwd,
        remote : BOOLEAN]

(***************************************************************************)
(* starting: registered and inside tryAutoAttach; serving: main has run to *)
(* its end, the timers and the stdin listeners are installed; gone: exited.*)
(* linked: Claude Code still holds the other end of the stdio pipe.        *)
(* client: the Claude Code session that spawned the process.               *)
(***************************************************************************)
Phase == {"absent", "starting", "serving", "gone"}

Process == [phase : Phase, linked : BOOLEAN, client : CC \cup {NoCC}]

TypeOK ==
  /\ sess \in [Session -> Row]
  /\ proc \in [Session -> Process]
  /\ owner \in [Board -> Session \cup {NoSession}]
  /\ dflt \subseteq Board

Init ==
  /\ sess = [s \in Session |->
               [reg |-> FALSE, alive |-> FALSE, cc |-> NoCC,
                cwd |-> CHOOSE d \in Cwd : TRUE, remote |-> FALSE]]
  /\ proc = [s \in Session |->
               [phase |-> "absent", linked |-> FALSE, client |-> NoCC]]
  /\ owner = [b \in Board |-> NoSession]
  /\ dflt = {}

-----------------------------------------------------------------------------
(* Derived notions *)

Running(s) == proc[s].phase \in {"starting", "serving"}

\* Tool calls reach the broker only through a server its client still drives.
Driven(s) == proc[s].phase = "serving" /\ proc[s].linked

\* The gate handleSubmitAnswer and handleNotifySession put before a message.
Reachable(s) == s # NoSession /\ sess[s].alive /\ sess[s].cc # NoCC

-----------------------------------------------------------------------------
(* Handlers of the broker, each one synchronous and therefore atomic *)

\* An MCP server is spawned by Claude Code c and registers.  A client holds
\* one pipe at a time, so it spawns the next server after closing the last.
handleRegister(s, c, d, remote) ==
  /\ proc[s].phase = "absent"
  /\ \A r \in Session : proc[r].linked => proc[r].client # c
  /\ remote => "remote" \in Env
  /\ proc' = [proc EXCEPT ![s] =
                [phase |-> "starting", linked |-> TRUE, client |-> c]]
  /\ sess' = [sess EXCEPT ![s] =
                [reg |-> TRUE, alive |-> TRUE, cc |-> NoCC, cwd |-> d,
                 remote |-> remote]]
  /\ UNCHANGED <<owner, dflt>>

\* (Mutation: a heartbeat leaves a swept row dead.)
HeartbeatWithoutRevival(s) == proc[s].phase = "serving" /\ UNCHANGED svars

\* A heartbeat revives whatever row it names.
handleHeartbeat(s) ==
  /\ proc[s].phase = "serving"
  /\ sess' = [sess EXCEPT ![s].alive = TRUE]
  /\ UNCHANGED <<proc, owner, dflt>>

\* (Mutation: a row that still looks alive is spared.)
DeadPriorSessions(s, c) ==
  {r \in Session \ {s} : sess[r].reg /\ sess[r].cc = c /\ ~sess[r].alive}

\* The rows primary reclaim empties: every other row of the same Claude Code
\* session, whether or not the sweep has marked it dead.
PriorSessions(s, c) == {r \in Session \ {s} : sess[r].reg /\ sess[r].cc = c}

\* (Mutation: every unbound row of the directory counts as an orphan.)
LiveOrphanSessions(s) ==
  {r \in Session \ {s} : /\ sess[r].reg
                         /\ sess[r].cc = NoCC
                         /\ sess[r].cwd = sess[s].cwd}

\* The rows secondary reclaim empties: never bound, marked dead, same cwd.
OrphanSessions(s) ==
  {r \in Session \ {s} : /\ sess[r].reg
                         /\ ~sess[r].alive
                         /\ sess[r].cc = NoCC
                         /\ sess[r].cwd = sess[s].cwd}

Reclaimed(s, c) == PriorSessions(s, c) \cup OrphanSessions(s)

\* ensureDefaultBoard, run on the table as the reclaim left it.
ensureDefaultBoard(s, c) ==
  LET moved == [b \in Board |->
                  IF owner[b] \in Reclaimed(s, c) THEN s ELSE owner[b]]
      Existing == {b \in dflt : moved[b] # NoSession /\ sess'[moved[b]].cc = c}
  IN IF Existing # {}
       THEN owner' = moved /\ dflt' = dflt
       ELSE \E b \in Board : /\ moved[b] = NoSession
                             /\ owner' = [moved EXCEPT ![b] = s]
                             /\ dflt' = dflt \cup {b}

handleAttachCCSession(s, c) ==
  /\ sess' = [r \in Session |->
                IF r = s THEN [sess[s] EXCEPT !.cc = c]
                ELSE IF r \in PriorSessions(s, c)
                       THEN [sess[r] EXCEPT !.alive = FALSE]
                       ELSE sess[r]]
  /\ ensureDefaultBoard(s, c)

handleAttachToBoard(s, b) ==
  /\ Driven(s)
  /\ owner[b] # NoSession
  /\ owner' = [owner EXCEPT ![b] = s]
  /\ UNCHANGED <<sess, proc, dflt>>

\* create_board refuses a row that is not bound yet.
handleCreateBoard(s, b) ==
  /\ Driven(s)
  /\ sess[s].cc # NoCC
  /\ owner[b] = NoSession
  /\ owner' = [owner EXCEPT ![b] = s]
  /\ UNCHANGED <<sess, proc, dflt>>

\* (Mutation: a pid that is gone counts as running.)
StaleRemoteOnly(s) == sess[s].alive /\ sess[s].remote

\* A local row is dead when its pid is gone.  A remote one is judged by the age
\* of its last heartbeat, so a slow network can make a running process look
\* dead and a dead one still looks alive for a while.
Stale(s) == sess[s].alive /\ (sess[s].remote \/ ~Running(s))

cleanStaleSessions(S) ==
  /\ S # {}
  /\ \A s \in S : Stale(s)
  /\ \A s \in Session \ S : Stale(s) => sess[s].remote
  /\ sess' = [s \in Session |->
                IF s \in S THEN [sess[s] EXCEPT !.alive = FALSE] ELSE sess[s]]
  /\ UNCHANGED <<proc, owner, dflt>>

-----------------------------------------------------------------------------
(* The MCP server process *)

\* Start-up attach: the hint was read and /attach-cc-session answered.
tryAutoAttach(s) ==
  /\ proc[s].phase = "starting"
  /\ proc[s].linked \/ "late" \in Env
  /\ handleAttachCCSession(s, proc[s].client)
  /\ proc' = [proc EXCEPT ![s].phase = "serving"]

\* No hint, or every attempt failed: the server goes on unbound.
startUnbound(s) ==
  /\ proc[s].phase = "starting"
  /\ proc' = [proc EXCEPT ![s].phase = "serving"]
  /\ UNCHANGED <<sess, owner, dflt>>

\* A heartbeat that reported a NULL binding re-reads the hint and attaches.
selfHealAttachOnce(s) ==
  /\ Driven(s)
  /\ sess[s].cc = NoCC
  /\ handleAttachCCSession(s, proc[s].client)
  /\ UNCHANGED proc

\* The agent calls the attach_cc_session tool.
attachTool(s, c) ==
  /\ Driven(s)
  /\ c = proc[s].client \/ "rebind" \in Env
  /\ handleAttachCCSession(s, c)
  /\ UNCHANGED proc

\* Claude Code exits, or /mcp reconnects: the pipe closes.
Unlink(s) ==
  /\ Running(s) /\ proc[s].linked
  /\ proc' = [proc EXCEPT ![s].linked = FALSE]
  /\ UNCHANGED <<sess, owner, dflt>>

\* stdin ended, a signal came or the parent is gone: unregister (best effort,
\* the broker may be unreachable) and exit.
cleanup(s) ==
  /\ proc[s].phase = "serving" /\ ~proc[s].linked
  /\ proc' = [proc EXCEPT ![s].phase = "gone"]
  /\ \/ sess' = [sess EXCEPT ![s].alive = FALSE]
     \/ UNCHANGED sess
  /\ UNCHANGED <<owner, dflt>>

\* The process dies without a word (OOM kill, SIGKILL, exit(1)).
Crash(s) ==
  /\ Running(s)
  /\ proc' = [proc EXCEPT ![s] = [@ EXCEPT !.phase = "gone", !.linked = FALSE]]
  /\ UNCHANGED <<sess, owner, dflt>>

-----------------------------------------------------------------------------
Next ==
  \/ \E s \in Session, c \in CC, d \in Cwd, remote \in BOOLEAN :
       handleRegister(s, c, d, remote)
  \/ \E s \in Session : handleHeartbeat(s)
  \/ \E s \in Session : tryAutoAttach(s)
  \/ \E s \in Session : startUnbound(s)
  \/ \E s \in Session : selfHealAttachOnce(s)
  \/ \E s \in Session, c \in CC : attachTool(s, c)
  \/ \E s \in Session, b \in Board : handleAttachToBoard(s, b)
  \/ \E s \in Session, b \in Board : handleCreateBoard(s, b)
  \/ \E S \in SUBSET Session : cleanStaleSessions(S)
  \/ \E s \in Session : Unlink(s)
  \/ \E s \in Session : cleanup(s)
  \/ \E s \in Session : Crash(s)

Spec == Init /\ [][Next]_svars

\* The heartbeat timer of a serving process and the broker's sweep interval
\* both keep firing; nothing else is assumed to happen.
Fairness ==
  \A s \in Session :
    /\ WF_svars(handleHeartbeat(s))
    /\ WF_svars(\E S \in SUBSET Session : s \in S /\ cleanStaleSessions(S))

FairSpec == Spec /\ Fairness

-----------------------------------------------------------------------------
(* Properties *)

\* What a submission is routed by: a server that Claude Code drives and that is
\* bound owns every board of its Claude Code session, so that the user's
\* messages go to the process that is listening and to no predecessor of it
\* (the purpose of the primary reclaim in handleAttachCCSession).
DrivenOwnsBoards ==
  \A s \in Session : (Driven(s) /\ sess[s].cc # NoCC) =>
    \A b \in Board : (/\ owner[b] # NoSession
                      /\ sess[owner[b]].cc = sess[s].cc) => owner[b] = s

\* Binding a row moves only boards of the same Claude Code session, or boards
\* of a row of the same directory that was never bound and that is dead as far
\* as the broker can tell ("any prior dead broker session", sessions.ts): the
\* process of a local one is gone.
ReclaimTakesOnlyMineOrDead ==
  [][sess' # sess =>
       \A b \in Board : (owner[b] # NoSession /\ owner'[b] # owner[b]) =>
         LET old == owner[b]
             new == owner'[b]
         IN \/ sess[old].cc = sess'[new].cc
            \/ /\ sess[old].cc = NoCC
               /\ Running(old) => sess[old].remote
               /\ sess[old].cwd = sess[new].cwd]_svars

\* A process that keeps serving is shown alive again and again, whatever the
\* sweep did to its row after missed heartbeats: the user can reach it.
ServingComesBack ==
  \A s \in Session :
    (proc[s].phase = "serving") ~> (sess[s].alive \/ proc[s].phase # "serving")

\* The row of a process that is gone leaves the sidebar for good.
GoneDropsOff ==
  \A s \in Session : (proc[s].phase = "gone") ~> [](~sess[s].alive)
=============================================================================
