---------------------------- MODULE SessionsProofs ----------------------------
(***************************************************************************)
(* What holds of the session registry for every number of sessions,        *)
(* clients, boards and directories.                                        *)
(***************************************************************************)
EXTENDS Sessions, TLAPS

\* Binding keeps the tables well typed.
LEMMA AttachTypeOK ==
  ASSUME TypeOK, NEW s \in Session, NEW c \in CC \cup {NoCC},
         handleAttachCCSession(s, c)
  PROVE  /\ sess' \in [Session -> Row]
         /\ owner' \in [Board -> Session \cup {NoSession}]
         /\ dflt' \subseteq Board
<1>1. sess' \in [Session -> Row]
  BY DEF TypeOK, handleAttachCCSession, Row
<1>2. [b \in Board |-> IF owner[b] \in Reclaimed(s, c) THEN s ELSE owner[b]]
        \in [Board -> Session \cup {NoSession}]
  BY DEF TypeOK
<1>3. owner' \in [Board -> Session \cup {NoSession}] /\ dflt' \subseteq Board
  BY <1>2 DEF TypeOK, handleAttachCCSession, ensureDefaultBoard
<1> QED  BY <1>1, <1>3

\* The initial tables are well typed.
LEMMA InitTypeOK == Init => TypeOK
  BY CwdAssumption DEF Init, TypeOK, Row, Process, Phase

\* Every step of the registry keeps its tables well typed.
LEMMA NextTypeOK == TypeOK /\ [Next]_svars => TypeOK'
<1> SUFFICES ASSUME TypeOK, [Next]_svars PROVE TypeOK'
  OBVIOUS
<1>1. CASE \E s \in Session, c \in CC, d \in Cwd, remote \in BOOLEAN :
             handleRegister(s, c, d, remote)
  BY <1>1 DEF TypeOK, handleRegister, Row, Process, Phase
<1>2. CASE \E s \in Session : handleHeartbeat(s)
  BY <1>2 DEF TypeOK, handleHeartbeat, Row
<1>3. CASE \E s \in Session : tryAutoAttach(s)
  <2> PICK s \in Session : tryAutoAttach(s)
    BY <1>3
  <2>1. proc[s].client \in CC \cup {NoCC}
    BY DEF TypeOK, Process
  <2>2. proc' \in [Session -> Process]
    BY DEF TypeOK, Process, Phase, tryAutoAttach
  <2> QED  BY <2>1, <2>2, AttachTypeOK DEF tryAutoAttach, TypeOK
<1>4. CASE \E s \in Session : startUnbound(s)
  BY <1>4 DEF TypeOK, startUnbound, Process, Phase
<1>5. CASE \E s \in Session : selfHealAttachOnce(s)
  <2> PICK s \in Session : selfHealAttachOnce(s)
    BY <1>5
  <2>1. proc[s].client \in CC \cup {NoCC}
    BY DEF TypeOK, Process
  <2> QED  BY <2>1, AttachTypeOK DEF selfHealAttachOnce, TypeOK
<1>6. CASE \E s \in Session, c \in CC : attachTool(s, c)
  BY <1>6, AttachTypeOK DEF attachTool, TypeOK
<1>7. CASE \E s \in Session, b \in Board : handleAttachToBoard(s, b)
  BY <1>7 DEF TypeOK, handleAttachToBoard
<1>8. CASE \E s \in Session, b \in Board : handleCreateBoard(s, b)
  BY <1>8 DEF TypeOK, handleCreateBoard
<1>9. CASE \E S \in SUBSET Session : cleanStaleSessions(S)
  <2> PICK S \in SUBSET Session : cleanStaleSessions(S)
    BY <1>9
  <2>1. \A s \in Session : [sess[s] EXCEPT !.alive = FALSE] \in Row
    BY DEF TypeOK, Row
  <2>2. sess' \in [Session -> Row]
    BY <2>1 DEF TypeOK, cleanStaleSessions
  <2> QED  BY <2>2 DEF TypeOK, cleanStaleSessions
<1>10. CASE \E s \in Session : Unlink(s)
  BY <1>10 DEF TypeOK, Unlink, Process
<1>11. CASE \E s \in Session : cleanup(s)
  <2> PICK s \in Session : cleanup(s)
    BY <1>11
  <2>1. proc' \in [Session -> Process]
    BY DEF TypeOK, cleanup, Process, Phase
  <2>2. [sess EXCEPT ![s].alive = FALSE] \in [Session -> Row]
    BY DEF TypeOK, Row
  <2> QED  BY <2>1, <2>2 DEF TypeOK, cleanup
<1>12. CASE \E s \in Session : Crash(s)
  <2> PICK s \in Session : Crash(s)
    BY <1>12
  <2>1. [proc[s] EXCEPT !.phase = "gone", !.linked = FALSE] \in Process
    BY DEF TypeOK, Process, Phase
  <2> QED  BY <2>1 DEF TypeOK, Crash
<1>13. CASE UNCHANGED svars
  BY <1>13 DEF TypeOK, svars
<1> QED
  BY <1>1, <1>2, <1>3, <1>4, <1>5, <1>6, <1>7, <1>8, <1>9, <1>10, <1>11,
     <1>12, <1>13 DEF Next

\* The registry's tables are well typed in every reachable state, whatever
\* the environment does.
THEOREM TypeCorrect == Spec => []TypeOK
  BY InitTypeOK, NextTypeOK, PTL DEF Spec

-----------------------------------------------------------------------------
(***************************************************************************)
(* DrivenOwnsBoards needs two facts about the environment: a server whose  *)
(* pipe has closed attaches no more, and an agent binds its row to no      *)
(* other client; the property fails without either of them.  It is not     *)
(* inductive; what carries it is that a bound row names the client that    *)
(* spawned its process, and that a client holds at most one pipe.          *)
(***************************************************************************)
Timely == Env \cap {"late", "rebind"} = {}

OnePipePerClient ==
  \A r, s \in Session :
    proc[r].linked /\ proc[s].linked /\ proc[r].client = proc[s].client => r = s

BoundToClient ==
  \A s \in Session : sess[s].cc # NoCC =>
    /\ sess[s].cc = proc[s].client
    /\ proc[s].phase \notin {"absent", "starting"}

RegisteredOwners ==
  /\ \A s \in Session : sess[s].reg <=> proc[s].phase # "absent"
  /\ \A s \in Session : proc[s].linked => proc[s].phase # "absent"
  /\ \A b \in Board : owner[b] # NoSession => sess[owner[b]].reg

Bindings ==
  /\ TypeOK
  /\ OnePipePerClient
  /\ BoundToClient
  /\ RegisteredOwners
  /\ DrivenOwnsBoards

\* Where the boards are once a row has been bound: the reclaimed ones and the
\* default board with the new row, every other one where it was.
LEMMA AttachMoves ==
  ASSUME TypeOK, NEW s \in Session, NEW c \in CC \cup {NoCC},
         handleAttachCCSession(s, c), NEW b \in Board
  PROVE  \/ owner'[b] = s
         \/ owner'[b] = owner[b] /\ owner[b] \notin Reclaimed(s, c)
  BY DEF TypeOK, handleAttachCCSession, ensureDefaultBoard

\* Binding a row changes no binding but that row's.
LEMMA AttachBinds ==
  ASSUME TypeOK, NEW s \in Session, NEW c \in CC \cup {NoCC},
         handleAttachCCSession(s, c), NEW r \in Session
  PROVE  /\ sess'[r].cc = IF r = s THEN c ELSE sess[r].cc
         /\ sess'[r].reg = sess[r].reg
  BY DEF TypeOK, handleAttachCCSession, Row

\* A linked, registered server that binds its row to its own client takes over
\* all the client's boards and leaves those of every other driven server alone.
LEMMA AttachBindings ==
  ASSUME Bindings, NEW s \in Session,
         proc[s].linked,
         proc'[s].linked, proc'[s].client = proc[s].client,
         proc'[s].phase = "serving",
         \A r \in Session \ {s} : proc'[r] = proc[r],
         proc' \in [Session -> Process],
         handleAttachCCSession(s, proc[s].client)
  PROVE  Bindings'
<1> DEFINE c == proc[s].client
<1>0. c \in CC \cup {NoCC}
  BY DEF Bindings, TypeOK, Process
<1>1. TypeOK'
  BY <1>0, AttachTypeOK DEF Bindings, TypeOK
<1>2. OnePipePerClient'
  BY DEF Bindings, OnePipePerClient
<1>3. \A r \in Session : /\ sess'[r].cc = IF r = s THEN c ELSE sess[r].cc
                         /\ sess'[r].reg = sess[r].reg
  BY <1>0, AttachBinds DEF Bindings
<1>4. BoundToClient'
  BY <1>3 DEF Bindings, BoundToClient
<1>5. sess[s].reg
  BY DEF Bindings, RegisteredOwners
<1>6. ASSUME NEW b \in Board
      PROVE  \/ owner'[b] = s
             \/ owner'[b] = owner[b] /\ owner[b] \notin Reclaimed(s, c)
  BY <1>0, AttachMoves DEF Bindings
<1>7. RegisteredOwners'
  <2>1. \A r \in Session : sess'[r].reg <=> proc'[r].phase # "absent"
    BY <1>3, <1>5 DEF Bindings, RegisteredOwners
  <2>2. \A r \in Session : proc'[r].linked => proc'[r].phase # "absent"
    BY DEF Bindings, RegisteredOwners
  <2>3. \A b \in Board : owner'[b] # NoSession => sess'[owner'[b]].reg
    BY <1>3, <1>5, <1>6, <1>1 DEF Bindings, RegisteredOwners, TypeOK
  <2> QED  BY <2>1, <2>2, <2>3 DEF RegisteredOwners
<1>8. DrivenOwnsBoards'
  <2> SUFFICES ASSUME NEW t \in Session, Driven(t)', sess'[t].cc # NoCC,
                      NEW b \in Board, owner'[b] # NoSession,
                      sess'[owner'[b]].cc = sess'[t].cc
               PROVE  owner'[b] = t
    BY DEF DrivenOwnsBoards
  <2>1. CASE t = s
    <3> SUFFICES ASSUME owner'[b] # s PROVE FALSE
      BY <2>1
    <3>1. owner'[b] = owner[b] /\ owner[b] \notin Reclaimed(s, c)
      BY <1>6
    <3>2. owner[b] \in Session \ {s}
      BY <3>1 DEF Bindings, TypeOK
    <3>3. sess[owner[b]].cc = c /\ sess[owner[b]].reg
      BY <1>3, <2>1, <3>1, <3>2 DEF Bindings, RegisteredOwners
    <3> QED  BY <3>1, <3>2, <3>3 DEF Reclaimed, PriorSessions
  <2>2. CASE t # s
    <3>1. proc[t] = proc'[t] /\ Driven(t)
      BY <2>2 DEF Driven
    <3>2. sess'[t].cc = sess[t].cc /\ sess[t].cc = proc[t].client
      BY <1>3, <2>2 DEF Bindings, BoundToClient
    <3>3. sess[t].cc # c
      BY <2>2, <3>1, <3>2 DEF Bindings, OnePipePerClient, Driven
    <3>4. owner'[b] # s
      BY <1>3, <3>2, <3>3
    <3>5. owner'[b] = owner[b] /\ owner[b] \in Session
      BY <1>6, <3>4 DEF Bindings, TypeOK
    <3> QED  BY <1>3, <3>1, <3>2, <3>4, <3>5 DEF Bindings, DrivenOwnsBoards
  <2> QED  BY <2>1, <2>2
<1> QED  BY <1>1, <1>2, <1>4, <1>7, <1>8 DEF Bindings

\* A step that moves no board, no binding and no pipe end keeps the bindings:
\* processes may only come to serve unbound, lose their pipe or end.
LEMMA SameBindings ==
  ASSUME Bindings, TypeOK', owner' = owner,
         \A r \in Session :
           /\ sess'[r].cc = sess[r].cc
           /\ sess'[r].reg = sess[r].reg
           /\ proc'[r].client = proc[r].client
           /\ proc'[r].linked => proc[r].linked
           /\ proc'[r].phase = "absent" <=> proc[r].phase = "absent"
           /\ proc'[r].phase = "starting" => proc[r].phase = "starting"
           /\ sess[r].cc # NoCC /\ proc'[r].phase = "serving" =>
                proc[r].phase = "serving"
  PROVE  Bindings'
<1> USE DEF Bindings
<1>1. OnePipePerClient'
  BY DEF OnePipePerClient
<1>2. BoundToClient'
  BY DEF BoundToClient
<1>3. RegisteredOwners'
  <2>1. \A r \in Session : sess'[r].reg <=> proc'[r].phase # "absent"
    BY DEF RegisteredOwners
  <2>2. \A r \in Session : proc'[r].linked => proc'[r].phase # "absent"
    BY DEF RegisteredOwners
  <2>3. \A b \in Board : owner'[b] # NoSession => sess'[owner'[b]].reg
    BY DEF RegisteredOwners, TypeOK
  <2> QED  BY <2>1, <2>2, <2>3 DEF RegisteredOwners
<1>4. DrivenOwnsBoards'
  BY DEF DrivenOwnsBoards, Driven, TypeOK
<1> QED  BY <1>1, <1>2, <1>3, <1>4

\* With no row registered the bindings are in order.
LEMMA InitBindings == Init => Bindings
  BY InitTypeOK DEF Init, Bindings, OnePipePerClient, BoundToClient,
                    RegisteredOwners, DrivenOwnsBoards

\* Every step of the registry keeps the bindings in order, in a timely
\* environment.
LEMMA NextBindings == Timely /\ Bindings /\ [Next]_svars => Bindings'
<1> SUFFICES ASSUME Timely, Bindings, [Next]_svars PROVE Bindings'
  OBVIOUS
<1> USE DEF Bindings
<1>0. TypeOK'
  BY NextTypeOK
<1>1. CASE \E s \in Session, c \in CC, d \in Cwd, remote \in BOOLEAN :
             handleRegister(s, c, d, remote)
  <2> PICK s \in Session, c \in CC, d \in Cwd, remote \in BOOLEAN :
             handleRegister(s, c, d, remote)
    BY <1>1
  <2>1. \A r \in Session : sess'[r].cc = sess[r].cc
    BY DEF handleRegister, TypeOK, Row, BoundToClient
  <2>2. proc' = [proc EXCEPT ![s] =
                   [phase |-> "starting", linked |-> TRUE, client |-> c]]
    BY DEF handleRegister
  <2>3. OnePipePerClient'
    BY <2>2 DEF handleRegister, TypeOK, OnePipePerClient
  <2>4. BoundToClient'
    BY <2>1, <2>2 DEF handleRegister, TypeOK, BoundToClient
  <2>5. RegisteredOwners'
    BY DEF handleRegister, TypeOK, RegisteredOwners
  <2>6. \A r \in Session : Driven(r)' => Driven(r)
    BY <2>2 DEF Driven, TypeOK
  <2>7. owner' = owner
    BY DEF handleRegister
  <2>8. DrivenOwnsBoards'
    BY <2>1, <2>6, <2>7 DEF DrivenOwnsBoards, TypeOK
  <2> QED  BY <1>0, <2>3, <2>4, <2>5, <2>8
<1>2. CASE \E s \in Session : handleHeartbeat(s)
  BY <1>0, <1>2, SameBindings DEF handleHeartbeat, TypeOK, Row
<1>3. CASE \E s \in Session : tryAutoAttach(s)
  <2> PICK s \in Session : tryAutoAttach(s)
    BY <1>3
  <2>1. proc[s].linked
    BY DEF tryAutoAttach, Timely
  <2>2. /\ proc'[s].linked /\ proc'[s].client = proc[s].client
        /\ proc'[s].phase = "serving"
        /\ \A r \in Session \ {s} : proc'[r] = proc[r]
    BY <2>1 DEF tryAutoAttach, TypeOK, Process
  <2> QED  BY <1>0, <2>1, <2>2, AttachBindings DEF tryAutoAttach, TypeOK
<1>4. CASE \E s \in Session : startUnbound(s)
  <2> PICK s \in Session : startUnbound(s)
    BY <1>4
  <2>1. sess[s].cc = NoCC
    BY DEF startUnbound, BoundToClient
  <2> QED  BY <1>0, <2>1, SameBindings DEF startUnbound, TypeOK, Process
<1>5. CASE \E s \in Session : selfHealAttachOnce(s)
  <2> PICK s \in Session : selfHealAttachOnce(s)
    BY <1>5
  <2> QED  BY <1>0, AttachBindings DEF selfHealAttachOnce, Driven, TypeOK
<1>6. CASE \E s \in Session, c \in CC : attachTool(s, c)
  <2> PICK s \in Session, c \in CC : attachTool(s, c)
    BY <1>6
  <2>1. c = proc[s].client
    BY DEF attachTool, Timely
  <2> QED  BY <1>0, <2>1, AttachBindings DEF attachTool, Driven, TypeOK
<1>7. ASSUME NEW s \in Session, NEW b \in Board,
             handleAttachToBoard(s, b) \/ handleCreateBoard(s, b)
      PROVE  Bindings'
  <2>1. Driven(s) /\ owner' = [owner EXCEPT ![b] = s] /\ UNCHANGED <<sess, proc>>
    BY <1>7 DEF handleAttachToBoard, handleCreateBoard
  <2>2. OnePipePerClient' /\ BoundToClient'
    BY <2>1 DEF OnePipePerClient, BoundToClient
  <2>3. RegisteredOwners'
    BY <2>1 DEF RegisteredOwners, Driven, TypeOK
  <2>4. \A t \in Session :
          Driven(t) /\ sess[t].cc # NoCC /\ sess[t].cc = sess[s].cc => t = s
    BY <2>1 DEF OnePipePerClient, BoundToClient, Driven
  <2>5. DrivenOwnsBoards'
    BY <2>1, <2>4 DEF DrivenOwnsBoards, Driven, TypeOK
  <2> QED  BY <1>0, <2>2, <2>3, <2>5
<1>9. CASE \E S \in SUBSET Session : cleanStaleSessions(S)
  <2> PICK S \in SUBSET Session : cleanStaleSessions(S)
    BY <1>9
  <2>1. \A r \in Session : sess'[r].cc = sess[r].cc /\ sess'[r].reg = sess[r].reg
    BY DEF cleanStaleSessions, TypeOK, Row
  <2> QED  BY <1>0, <2>1, SameBindings DEF cleanStaleSessions
<1>10. CASE \E s \in Session : Unlink(s)
  BY <1>0, <1>10, SameBindings DEF Unlink, TypeOK, Process
<1>11. CASE \E s \in Session : cleanup(s)
  <2> PICK s \in Session : cleanup(s)
    BY <1>11
  <2>1. \A r \in Session : sess'[r].cc = sess[r].cc /\ sess'[r].reg = sess[r].reg
    BY DEF cleanup, TypeOK, Row
  <2>2. \A r \in Session : /\ proc'[r].client = proc[r].client
                           /\ proc'[r].linked = proc[r].linked
                           /\ \/ proc'[r].phase = proc[r].phase
                              \/ /\ proc[r].phase # "absent"
                                 /\ proc'[r].phase = "gone"
    BY DEF cleanup, TypeOK, Process
  <2> QED  BY <1>0, <2>1, <2>2, SameBindings DEF cleanup
<1>12. CASE \E s \in Session : Crash(s)
  <2> PICK s \in Session : Crash(s)
    BY <1>12
  <2>1. \A r \in Session : /\ proc'[r].client = proc[r].client
                           /\ proc'[r].linked => proc[r].linked
                           /\ \/ proc'[r].phase = proc[r].phase
                              \/ /\ proc[r].phase # "absent"
                                 /\ proc'[r].phase = "gone"
    BY DEF Crash, Running, TypeOK, Process
  <2> QED  BY <1>0, <2>1, SameBindings DEF Crash
<1>13. CASE UNCHANGED svars
  BY <1>0, <1>13, SameBindings DEF svars
<1> QED
  BY <1>1, <1>2, <1>3, <1>4, <1>5, <1>6, <1>7, <1>9, <1>10, <1>11, <1>12,
     <1>13 DEF Next

\* A server that Claude Code drives and that is bound owns every board of its
\* client, so the user's messages are queued for the process that listens.
THEOREM OwnsBoards == ASSUME Timely PROVE Spec => []DrivenOwnsBoards
<1>1. Bindings => DrivenOwnsBoards
  BY DEF Bindings
<1>2. Bindings /\ [Next]_svars => Bindings'
  BY NextBindings
<1> QED  BY <1>1, <1>2, InitBindings, PTL DEF Spec

-----------------------------------------------------------------------------
(***************************************************************************)
(* What the broker's table says of the processes, in every environment: a  *)
(* process that exists was spawned by a client, and a local row that was   *)
(* never bound is marked dead only once its process has ended, because     *)
(* only the sweep, the exit and the primary reclaim of a bound row mark    *)
(* one.  That is what the secondary reclaim relies on.                     *)
(***************************************************************************)
SpawnedByClient ==
  \A s \in Session : proc[s].phase # "absent" => proc[s].client \in CC

DeadUnboundIsGone ==
  \A s \in Session :
    (~sess[s].alive /\ sess[s].cc = NoCC /\ Running(s)) => sess[s].remote

Liveliness == TypeOK /\ SpawnedByClient /\ DeadUnboundIsGone

\* Binding a row to a real client marks dead only bound rows and binds the row.
LEMMA AttachLiveliness ==
  ASSUME Liveliness, NEW s \in Session, NEW c \in CC,
         handleAttachCCSession(s, c),
         \A r \in Session \ {s} : proc'[r] = proc[r]
  PROVE  DeadUnboundIsGone'
<1> SUFFICES ASSUME NEW r \in Session,
                    ~sess'[r].alive, sess'[r].cc = NoCC, Running(r)'
             PROVE  sess'[r].remote
  BY DEF DeadUnboundIsGone
<1>1. r # s
  BY NullAssumption, AttachBinds DEF Liveliness
<1>2. r \notin PriorSessions(s, c)
  BY <1>1, NullAssumption, AttachBinds DEF Liveliness, PriorSessions
<1>3. sess'[r] = sess[r] /\ Running(r)
  BY <1>1, <1>2 DEF handleAttachCCSession, Running
<1> QED  BY <1>3 DEF Liveliness, DeadUnboundIsGone

LEMMA InitLiveliness == Init => Liveliness
  BY InitTypeOK DEF Init, Liveliness, SpawnedByClient, DeadUnboundIsGone, Running

\* The table keeps telling the truth of unbound local rows in every step.
LEMMA NextLiveliness == Liveliness /\ [Next]_svars => Liveliness'
<1> SUFFICES ASSUME Liveliness, [Next]_svars PROVE Liveliness'
  OBVIOUS
<1> USE DEF Liveliness
<1>0. TypeOK'
  BY NextTypeOK
<1>1. CASE \E s \in Session, c \in CC, d \in Cwd, remote \in BOOLEAN :
             handleRegister(s, c, d, remote)
  <2>1. SpawnedByClient'
    BY <1>1 DEF handleRegister, SpawnedByClient, TypeOK
  <2>2. DeadUnboundIsGone'
    BY <1>1 DEF handleRegister, DeadUnboundIsGone, TypeOK, Running
  <2> QED  BY <1>0, <2>1, <2>2
<1>2. CASE \E s \in Session : handleHeartbeat(s)
  <2>1. SpawnedByClient'
    BY <1>2 DEF handleHeartbeat, SpawnedByClient
  <2>2. DeadUnboundIsGone'
    BY <1>2 DEF handleHeartbeat, DeadUnboundIsGone, TypeOK, Row, Running
  <2> QED  BY <1>0, <2>1, <2>2
<1>3. CASE \E s \in Session : tryAutoAttach(s)
  <2> PICK s \in Session : tryAutoAttach(s)
    BY <1>3
  <2>1. /\ \A r \in Session \ {s} : proc'[r] = proc[r]
        /\ proc[s].client \in CC
        /\ proc'[s].client = proc[s].client
    BY DEF tryAutoAttach, TypeOK, Process, SpawnedByClient
  <2>2. SpawnedByClient'
    BY <2>1 DEF SpawnedByClient
  <2>3. DeadUnboundIsGone'
    BY <2>1, AttachLiveliness DEF tryAutoAttach
  <2> QED  BY <1>0, <2>2, <2>3
<1>4. CASE \E s \in Session : startUnbound(s)
  <2>1. SpawnedByClient'
    BY <1>4 DEF startUnbound, SpawnedByClient, TypeOK, Process
  <2>2. DeadUnboundIsGone'
    BY <1>4 DEF startUnbound, DeadUnboundIsGone, TypeOK, Process, Running
  <2> QED  BY <1>0, <2>1, <2>2
<1>5. ASSUME NEW s \in Session, NEW c \in CC,
             handleAttachCCSession(s, c), UNCHANGED proc
      PROVE  Liveliness'
  BY <1>0, <1>5, AttachLiveliness DEF SpawnedByClient
<1>6. CASE \E s \in Session : selfHealAttachOnce(s)
  <2> PICK s \in Session : selfHealAttachOnce(s)
    BY <1>6
  <2>1. proc[s].client \in CC
    BY DEF selfHealAttachOnce, Driven, SpawnedByClient
  <2> QED  BY <1>5, <2>1 DEF selfHealAttachOnce
<1>7. CASE \E s \in Session, c \in CC : attachTool(s, c)
  BY <1>5, <1>7 DEF attachTool
<1>8. ASSUME UNCHANGED <<sess, proc>> PROVE Liveliness'
  BY <1>0, <1>8 DEF SpawnedByClient, DeadUnboundIsGone, Running
<1>9. CASE \E S \in SUBSET Session : cleanStaleSessions(S)
  <2> PICK S \in SUBSET Session : cleanStaleSessions(S)
    BY <1>9
  <2>1. SpawnedByClient'
    BY DEF cleanStaleSessions, SpawnedByClient
  <2>2. DeadUnboundIsGone'
    BY DEF cleanStaleSessions, DeadUnboundIsGone, TypeOK, Row, Stale, Running
  <2> QED  BY <1>0, <2>1, <2>2
<1>10. ASSUME NEW s \in Session, Unlink(s) \/ cleanup(s) \/ Crash(s)
       PROVE  Liveliness'
  <2>1. \A r \in Session :
          /\ proc'[r].client = proc[r].client
          /\ proc'[r].phase = "absent" <=> proc[r].phase = "absent"
          /\ Running(r)' => Running(r)
    <3>1. CASE Unlink(s)
      BY <3>1 DEF Unlink, Running, TypeOK, Process
    <3>2. CASE cleanup(s)
      BY <3>2 DEF cleanup, Running, TypeOK, Process
    <3>3. CASE Crash(s)
      BY <3>3 DEF Crash, Running, TypeOK, Process
    <3> QED  BY <1>10, <3>1, <3>2, <3>3
  <2>2. \A r \in Session : Running(r)' => sess'[r] = sess[r]
    BY <1>10 DEF Unlink, cleanup, Crash, Running, TypeOK, Process
  <2>3. SpawnedByClient'
    BY <2>1 DEF SpawnedByClient
  <2>4. DeadUnboundIsGone'
    BY <2>1, <2>2 DEF DeadUnboundIsGone
  <2> QED  BY <1>0, <2>3, <2>4
<1> QED
  BY <1>1, <1>2, <1>3, <1>4, <1>6, <1>7, <1>8, <1>9, <1>10
     DEF Next, svars, handleAttachToBoard, handleCreateBoard

\* What one step takes from whom, as ReclaimTakesOnlyMineOrDead states it.
TakesOnlyMineOrDead ==
  sess' # sess =>
    \A b \in Board : (owner[b] # NoSession /\ owner'[b] # owner[b]) =>
      LET old == owner[b]
          new == owner'[b]
      IN \/ sess[old].cc = sess'[new].cc
         \/ /\ sess[old].cc = NoCC
            /\ Running(old) => sess[old].remote
            /\ sess[old].cwd = sess[new].cwd

\* Binding a row takes a board only from a row of the same client or from a
\* dead, unbound row of the directory.
LEMMA AttachTakes ==
  ASSUME Liveliness, NEW s \in Session, NEW c \in CC \cup {NoCC},
         handleAttachCCSession(s, c)
  PROVE  TakesOnlyMineOrDead
<1> SUFFICES ASSUME NEW b \in Board, owner[b] # NoSession, owner'[b] # owner[b]
             PROVE  \/ sess[owner[b]].cc = sess'[owner'[b]].cc
                    \/ /\ sess[owner[b]].cc = NoCC
                       /\ Running(owner[b]) => sess[owner[b]].remote
                       /\ sess[owner[b]].cwd = sess[owner'[b]].cwd
  BY DEF TakesOnlyMineOrDead
<1>1. owner'[b] = s /\ sess'[s].cc = c
  BY AttachMoves, AttachBinds DEF Liveliness
<1>2. owner[b] \in Reclaimed(s, c)
  BY <1>1 DEF handleAttachCCSession, ensureDefaultBoard, Liveliness, TypeOK
<1>3. CASE owner[b] \in PriorSessions(s, c)
  BY <1>1, <1>3 DEF PriorSessions
<1>4. CASE owner[b] \in OrphanSessions(s)
  BY <1>1, <1>4 DEF OrphanSessions, Liveliness, DeadUnboundIsGone
<1> QED  BY <1>2, <1>3, <1>4 DEF Reclaimed

\* Binding a row moves only boards of the same Claude Code session, or boards
\* of a dead, never bound row of the same directory, whatever the environment
\* does: a local process that still runs keeps its boards.
THEOREM ReclaimsOnlyMineOrDead == Spec => ReclaimTakesOnlyMineOrDead
<1>1. Liveliness /\ [Next]_svars => [TakesOnlyMineOrDead]_svars
  <2> SUFFICES ASSUME Liveliness, Next PROVE TakesOnlyMineOrDead
    OBVIOUS
  <2>1. CASE \E s \in Session : tryAutoAttach(s) \/ selfHealAttachOnce(s)
    BY <2>1, AttachTakes
       DEF tryAutoAttach, selfHealAttachOnce, Liveliness, TypeOK, Process
  <2>2. CASE \E s \in Session, c \in CC : attachTool(s, c)
    BY <2>2, AttachTakes DEF attachTool
  <2>3. CASE UNCHANGED owner \/ UNCHANGED sess
    BY <2>3 DEF TakesOnlyMineOrDead
  <2> QED
    BY <2>1, <2>2, <2>3
       DEF Next, handleRegister, handleHeartbeat, startUnbound,
           handleAttachToBoard, handleCreateBoard, cleanStaleSessions, Unlink,
           cleanup, Crash
<1> QED
  BY <1>1, InitLiveliness, NextLiveliness, PTL
     DEF Spec, ReclaimTakesOnlyMineOrDead, TakesOnlyMineOrDead
=============================================================================
