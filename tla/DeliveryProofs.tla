---------------------------- MODULE DeliveryProofs ----------------------------
(***************************************************************************)
(* What holds of the delivery pipeline for every number of sessions,       *)
(* boards and messages, whatever the environment does.                     *)
(***************************************************************************)
EXTENDS Delivery, SessionsProofs

(***************************************************************************)
(* What the queueing handlers have in common: kind k is queued for board b *)
(* and its submitter waits, or nobody does.                                *)
(***************************************************************************)
Enqueue(b, k) ==
  /\ queued < MaxMsg /\ queued' = queued + 1
  /\ rows' = [rows EXCEPT ![queued + 1] = NewRow(owner[b], b, k)]
  /\ wait' = [wait EXCEPT ![queued + 1] =
                IF k \in Submitted THEN "waiting" ELSE "none"]
  /\ items' = [items EXCEPT ![queued + 1] = IF k = "external_notify" THEN 1 ELSE 0]
  /\ UNCHANGED <<svars, batch, calls, pushes>>

\* Every queueing handler queues one row of one kind.
LEMMA EnqueueCases ==
  ASSUME NEW b \in Board, enqueue(b)
  PROVE  \E k \in Kinds : Enqueue(b, k)
<1>1. ASSUME NEW k, NEW w, NEW n, insertPending(b, k, w, n),
             w = IF k \in Submitted THEN "waiting" ELSE "none",
             n = IF k = "external_notify" THEN 1 ELSE 0
      PROVE  \E j \in Kinds : Enqueue(b, j)
  <2>1. k \in Kinds /\ Enqueue(b, k)
    BY <1>1 DEF insertPending, Enqueue
  <2> QED  BY <2>1
<1>2. CASE handleSubmitAnswer(b)
  <2> PICK k \in {"user_input_relay", "board_structure_request"} :
             insertPending(b, k, "waiting", 0)
    BY <1>2 DEF handleSubmitAnswer
  <2> QED  BY <1>1 DEF Submitted, Replies
<1>3. CASE handleMapChat(b) \/ handleDiagramChat(b)
  BY <1>1, <1>3 DEF handleMapChat, handleDiagramChat, Submitted, Replies
<1>4. CASE handleNotifySession(b) \/ remind(b)
  BY <1>1, <1>4 DEF handleNotifySession, remind, Submitted, Replies
<1> QED  BY <1>2, <1>3, <1>4 DEF enqueue

\* What DNext does to the registry, the registry does on its own.
LEMMA RegistryStep == [DNext]_vars => [Next]_svars
<1> SUFFICES ASSUME DNext PROVE [Next]_svars
  BY DEF vars
<1>0. ASSUME NEW b \in Board, enqueue(b) PROVE UNCHANGED svars
  BY <1>0, EnqueueCases DEF Enqueue
<1>1. CASE \/ \E m \in Msg : \/ submitDelivered(m) \/ submitTimeout(m)
                             \/ handleMessageAcked(m) \/ handleDeliveryFailed(m)
                             \/ passGrace(m) \/ passRetention(m)
           \/ \E s \in Session : poll(s) \/ pollLost(s)
           \/ \E s \in Session, m \in Msg : pushResolved(s, m) \/ pushThrew(s, m)
           \/ \E call \in calls : callLost(call)
           \/ resweepUnackedMessages \/ purgeOldDeliveredMessages \/ brokerRestart
  BY <1>1 DEF submitDelivered, submitTimeout, handleMessageAcked,
              handleDeliveryFailed, passGrace, passRetention, poll, pollLost,
              handlePollMessages, pushResolved, pushThrew, callLost,
              resweepUnackedMessages, purgeOldDeliveredMessages, brokerRestart
<1>2. CASE \/ \E s \in Session : attach(s) \/ stop(s) \/ registryOnly(s)
           \/ \E s \in Session, c \in CC : attachByTool(s, c)
           \/ \E s \in Session, b \in Board : attachToBoard(s, b)
           \/ \E S \in SUBSET Session : sweepSessions(S)
  BY <1>2 DEF attach, stop, registryOnly, attachByTool, attachToBoard,
              sweepSessions, Next
<1> QED  BY <1>0, <1>1, <1>2, Zenon DEF DNext

\* A default board stays one.
LEMMA DefaultsStay == [DNext]_vars => dflt \subseteq dflt'
<1> SUFFICES ASSUME [Next]_svars PROVE dflt \subseteq dflt'
  BY RegistryStep
<1>1. ASSUME NEW s \in Session, NEW c, handleAttachCCSession(s, c)
      PROVE  dflt \subseteq dflt'
  BY <1>1 DEF handleAttachCCSession, ensureDefaultBoard
<1>2. CASE \/ \E s \in Session : tryAutoAttach(s) \/ selfHealAttachOnce(s)
           \/ \E s \in Session, c \in CC : attachTool(s, c)
  BY <1>1, <1>2 DEF tryAutoAttach, selfHealAttachOnce, attachTool
<1>3. CASE \/ \E s \in Session, c \in CC, d \in Cwd, remote \in BOOLEAN :
                handleRegister(s, c, d, remote)
           \/ \E s \in Session : \/ handleHeartbeat(s) \/ startUnbound(s)
                                 \/ Unlink(s) \/ cleanup(s) \/ Crash(s)
           \/ \E s \in Session, b \in Board :
                handleAttachToBoard(s, b) \/ handleCreateBoard(s, b)
           \/ \E S \in SUBSET Session : cleanStaleSessions(S)
  BY <1>3 DEF handleRegister, handleHeartbeat, startUnbound, Unlink, cleanup,
              Crash, handleAttachToBoard, handleCreateBoard, cleanStaleSessions
<1>4. CASE UNCHANGED svars
  BY <1>4 DEF svars
<1> QED  BY <1>2, <1>3, <1>4 DEF Next

\* The pipeline runs over the registry of module Sessions as it is.
THEOREM ImplementsSessions == DSpec => Spec
<1>1. DInit => Init
  BY DEF DInit
<1> QED  BY <1>1, RegistryStep, PTL DEF DSpec, Spec

-----------------------------------------------------------------------------
(* Type correctness *)

\* The updates the handlers make to a row leave it a row.
LEMMA RowUpdates ==
  ASSUME NEW r \in PendingRow
  PROVE  /\ [r EXCEPT !.cancelled = TRUE] \in PendingRow
         /\ [r EXCEPT !.pushed = TRUE] \in PendingRow
         /\ \A v \in BOOLEAN :
              [r EXCEPT !.delivered = TRUE, !.item = r.item \/ v] \in PendingRow
         /\ [r EXCEPT !.delivered = FALSE, !.requeued = TRUE] \in PendingRow
         /\ [r EXCEPT !.used = FALSE] \in PendingRow
         /\ [r EXCEPT !.age = 1] \in PendingRow
         /\ [r EXCEPT !.age = 2] \in PendingRow
         /\ \A s \in Session : [r EXCEPT !.sid = s] \in PendingRow
<1>1. ASSUME NEW v \in BOOLEAN
      PROVE  [r EXCEPT !.delivered = TRUE, !.item = r.item \/ v] \in PendingRow
  <2>1. r.item \/ v \in BOOLEAN
    OBVIOUS
  <2> QED  BY <2>1 DEF PendingRow
<1>2. \A s \in Session : [r EXCEPT !.sid = s] \in PendingRow
  BY DEF PendingRow
<1>3. [r EXCEPT !.delivered = FALSE, !.requeued = TRUE] \in PendingRow
  BY DEF PendingRow
<1>4. /\ [r EXCEPT !.age = 1] \in PendingRow
      /\ [r EXCEPT !.age = 2] \in PendingRow
  BY DEF PendingRow
<1>5. /\ [r EXCEPT !.cancelled = TRUE] \in PendingRow
      /\ [r EXCEPT !.pushed = TRUE] \in PendingRow
      /\ [r EXCEPT !.used = FALSE] \in PendingRow
  BY DEF PendingRow
<1> QED  BY <1>1, <1>2, <1>3, <1>4, <1>5

\* The empty table is well typed.
LEMMA InitDTypeOK == DInit => DTypeOK
<1> SUFFICES ASSUME DInit PROVE DTypeOK
  OBVIOUS
<1>1. TypeOK
  BY InitTypeOK DEF DInit
<1>2. (CHOOSE b \in Board : TRUE) \in Board
  BY BoardAssumption
<1>3. NewRow(NoSession, CHOOSE b \in Board : TRUE, "note") \in PendingRow
  BY <1>2 DEF NewRow, PendingRow, Kind
<1>4. rows \in [Msg -> PendingRow]
  BY <1>3, RowUpdates DEF DInit
<1>5. queued \in 0 .. MaxMsg
  BY MaxMsgAssumption DEF DInit
<1>6. wait \in [Msg -> WaitState] /\ pushes \in [Msg -> 0 .. 2]
        /\ items \in [Msg -> 0 .. 2]
  BY DEF DInit, WaitState
<1> QED
  BY <1>1, <1>4, <1>5, <1>6 DEF DInit, DTypeOK

\* Every step of the pipeline keeps its tables well typed.
LEMMA NextDTypeOK == DTypeOK /\ [DNext]_vars => DTypeOK'
<1> SUFFICES ASSUME DTypeOK, [DNext]_vars PROVE DTypeOK'
  OBVIOUS
<1>0. TypeOK'
  BY RegistryStep, NextTypeOK DEF DTypeOK
<1>00. \A m \in Msg : /\ rows[m] \in PendingRow
                     /\ items[m] \in 0 .. 2 /\ pushes[m] \in 0 .. 2
                     /\ Bump(items[m]) \in 0 .. 2 /\ Bump(pushes[m]) \in 0 .. 2
  <2>1. \A n \in 0 .. 2 : Bump(n) \in 0 .. 2
    BY DEF Bump
  <2> QED  BY <2>1 DEF DTypeOK
<1>1. ASSUME NEW b \in Board, NEW k \in Kinds, Enqueue(b, k) PROVE DTypeOK'
  <2>1. queued' \in 1 .. MaxMsg /\ queued' = queued + 1
    BY <1>1, MaxMsgAssumption DEF Enqueue, DTypeOK
  <2>2. NewRow(owner[b], b, k) \in PendingRow
    BY <1>1, KindsAssumption DEF DTypeOK, TypeOK, NewRow, PendingRow
  <2>3. rows' \in [Msg -> PendingRow]
    BY <1>1, <2>1, <2>2 DEF Enqueue, DTypeOK, Msg
  <2>4. wait' \in [Msg -> WaitState] /\ items' \in [Msg -> 0 .. 2]
    BY <1>1, <2>1 DEF Enqueue, DTypeOK, Msg, WaitState
  <2> QED  BY <1>0, <1>1, <2>1, <2>3, <2>4 DEF Enqueue, DTypeOK
<1>2. ASSUME NEW m \in Msg, submitDelivered(m) PROVE DTypeOK'
  <2>1. items' \in [Msg -> 0 .. 2]
    BY <1>00, <1>2 DEF submitDelivered, DTypeOK
  <2>2. wait' \in [Msg -> WaitState]
    BY <1>2 DEF submitDelivered, DTypeOK, WaitState
  <2> QED  BY <1>0, <1>2, <2>1, <2>2 DEF submitDelivered, DTypeOK
<1>3. ASSUME NEW m \in Msg, submitTimeout(m) PROVE DTypeOK'
  BY <1>0, <1>00, <1>3, RowUpdates DEF submitTimeout, DTypeOK, WaitState
<1>4. ASSUME NEW s \in Session, poll(s) \/ pollLost(s) PROVE DTypeOK'
  <2>1. handlePollMessages(s)
    BY <1>4 DEF poll, pollLost
  <2>2. rows' \in [Msg -> PendingRow]
    <3> SUFFICES ASSUME NEW m \in Msg PROVE rows'[m] \in PendingRow
      BY <2>1 DEF handlePollMessages
    <3>1. Posts(m) \in BOOLEAN
      BY DEF Posts
    <3>2. rows'[m] = IF m \in Selected(s)
                       THEN [rows[m] EXCEPT !.delivered = TRUE,
                                            !.item = rows[m].item \/ Posts(m)]
                       ELSE rows[m]
      BY <2>1 DEF handlePollMessages
    <3> QED  BY <1>00, <3>1, <3>2, RowUpdates
  <2>3. items' \in [Msg -> 0 .. 2]
    BY <1>00, <2>1 DEF handlePollMessages
  <2>4. batch' \in [Session -> SUBSET Msg]
    BY <1>4 DEF poll, pollLost, Selected, DTypeOK
  <2> QED  BY <1>0, <2>1, <2>2, <2>3, <2>4 DEF handlePollMessages, DTypeOK
<1>5. ASSUME NEW s \in Session, NEW m \in Msg, pushResolved(s, m) \/ pushThrew(s, m)
      PROVE  DTypeOK'
  <2>1. batch' \in [Session -> SUBSET Msg]
    BY <1>5 DEF pushResolved, pushThrew, DTypeOK
  <2>2. pushes' \in [Msg -> 0 .. 2]
    BY <1>5, <1>00 DEF pushResolved, pushThrew, DTypeOK
  <2> QED  BY <1>0, <1>5, <2>1, <2>2 DEF pushResolved, pushThrew, DTypeOK
<1>6. ASSUME NEW m \in Msg, handleMessageAcked(m) \/ handleDeliveryFailed(m)
      PROVE  DTypeOK'
  <2>0. rows[m] \in PendingRow /\ rows \in [Msg -> PendingRow]
    BY DEF DTypeOK
  <2>1. rows' \in [Msg -> PendingRow]
    <3>1. CASE handleMessageAcked(m)
      BY <2>0, <3>1, RowUpdates DEF handleMessageAcked
    <3>2. CASE handleDeliveryFailed(m)
      BY <2>0, <3>2, RowUpdates DEF handleDeliveryFailed
    <3> QED  BY <1>6, <3>1, <3>2
  <2>2. calls' \subseteq calls
    BY <1>6 DEF handleMessageAcked, handleDeliveryFailed
  <2> QED
    BY <1>0, <1>6, <2>1, <2>2 DEF handleMessageAcked, handleDeliveryFailed, DTypeOK
<1>7. ASSUME NEW call \in calls, callLost(call) PROVE DTypeOK'
  BY <1>0, <1>7 DEF callLost, DTypeOK
<1>8. CASE resweepUnackedMessages
  BY <1>0, <1>00, <1>8, RowUpdates DEF resweepUnackedMessages, DTypeOK
<1>9. CASE purgeOldDeliveredMessages
  BY <1>0, <1>00, <1>9, RowUpdates DEF purgeOldDeliveredMessages, DTypeOK
<1>10. CASE brokerRestart
  BY <1>0, <1>10 DEF brokerRestart, DTypeOK, WaitState
<1>11. ASSUME NEW m \in Msg, passGrace(m) \/ passRetention(m) PROVE DTypeOK'
  <2>1. rows[m] \in PendingRow /\ rows \in [Msg -> PendingRow]
    BY DEF DTypeOK
  <2>2. \/ rows' = [rows EXCEPT ![m] = [rows[m] EXCEPT !.age = 1]]
        \/ rows' = [rows EXCEPT ![m] = [rows[m] EXCEPT !.age = 2]]
    BY <1>11, <2>1 DEF passGrace, passRetention
  <2>3. rows' \in [Msg -> PendingRow]
    BY <2>1, <2>2, RowUpdates
  <2> QED  BY <1>0, <1>11, <2>3 DEF passGrace, passRetention, DTypeOK
<1>12. ASSUME NEW s \in Session, NEW M \in SUBSET Msg, Rehome(s, M),
              UNCHANGED <<queued, wait, batch, calls, pushes, items>>
       PROVE  DTypeOK'
  BY <1>0, <1>00, <1>12, RowUpdates DEF Rehome, DTypeOK
<1>13. ASSUME NEW s \in Session,
              attach(s) \/ (\E c \in CC : attachByTool(s, c))
                \/ (\E b \in Board : attachToBoard(s, b))
       PROVE  DTypeOK'
  BY <1>12, <1>13 DEF attach, attachByTool, attachToBoard, reclaimMessages
<1>14. ASSUME NEW s \in Session, stop(s) PROVE DTypeOK'
  BY <1>0, <1>14 DEF stop, DTypeOK
<1>15. CASE UNCHANGED dvars
  BY <1>0, <1>15 DEF dvars, DTypeOK
<1> QED
  BY <1>1, <1>2, <1>3, <1>4, <1>5, <1>6, <1>7, <1>8, <1>9, <1>10, <1>11,
     <1>13, <1>14, <1>15, EnqueueCases DEF DNext, registryOnly, sweepSessions, vars

\* The tables, the queues and the calls in flight are well typed in every
\* reachable state.
THEOREM DTypeCorrect == DSpec => []DTypeOK
  BY InitDTypeOK, NextDTypeOK, PTL DEF DSpec
-----------------------------------------------------------------------------
(***************************************************************************)
(* The safety of delivery.  None of the properties is inductive: what      *)
(* carries them is said of one message at a time.                          *)
(***************************************************************************)
Taken(m) == rows[m].delivered \/ rows[m].requeued

\* A row that was not inserted yet, and one that no poll drained yet, left no
\* trace; only a submission that nobody drained is withdrawn.
Untaken(m) ==
  /\ m > queued => /\ ~rows[m].used /\ wait[m] = "none"
                   /\ ~Taken(m) /\ rows[m].kind = "note"
  /\ ~Taken(m) => ~InTransit(m) /\ pushes[m] = 0
  /\ rows[m].cancelled => ~Taken(m) /\ rows[m].kind \in Submitted

\* What the answer to a submission says of its row.
Answered(m) ==
  /\ wait[m] # "none" => rows[m].kind \in Submitted
  /\ wait[m] = "waiting" => ~rows[m].cancelled
  /\ wait[m] = "ok" => Taken(m)
  /\ wait[m] = "timeout" => rows[m].cancelled \/ Taken(m)

\* Who has posted the message to its thread: the poll handler a reply, the
\* submission handler a diagram message or a structure request, the
\* notify handler a notice.
Posted(m) ==
  /\ rows[m].kind \in Replies =>
       /\ rows[m].item <=> Taken(m)
       /\ items[m] = IF Taken(m) THEN 1 ELSE 0
  /\ rows[m].kind = "diagram_chat" =>
       /\ ~rows[m].item
       /\ items[m] = IF wait[m] = "ok" THEN 1 ELSE 0
  /\ rows[m].kind = "board_structure_request" =>
       /\ ~rows[m].item
       /\ items[m] \in 0 .. 1
       /\ wait[m] # "ok" => items[m] = 0
       /\ wait[m] = "ok" => items[m] = 1 \/ rows[m].board \in dflt
  /\ rows[m].kind = "external_notify" => rows[m].item /\ items[m] = 1
  /\ rows[m].kind = "note" => ~rows[m].item /\ items[m] = 0

\* Within the grace a message is in one place: in the queue, in one poller's
\* batch, reported failed, or pushed.
InOnePlace(m) ==
  rows[m].age = 0 =>
    /\ ~rows[m].delivered => ~InTransit(m) /\ pushes[m] = 0
    /\ \A s \in Session : m \in batch[s] =>
         /\ pushes[m] = 0
         /\ \A r \in Session : m \in batch[r] => r = s
         /\ <<"acked", m>> \notin calls /\ <<"failed", m>> \notin calls
    /\ <<"failed", m>> \in calls => pushes[m] = 0
    /\ <<"acked", m>> \in calls => pushes[m] = 1
    /\ pushes[m] <= 1

MsgInv(m) == Untaken(m) /\ Answered(m) /\ Posted(m) /\ InOnePlace(m)

DeliveryInv == DTypeOK /\ \A m \in Msg : MsgInv(m)

\* A step that leaves a message's flags, submission, pushes and thread items
\* alone, and its place too or only takes it off its way, keeps its invariant.
LeavesAlone(m) ==
  /\ rows'[m].used => rows[m].used
  /\ rows'[m].delivered = rows[m].delivered
  /\ rows'[m].requeued = rows[m].requeued
  /\ rows'[m].cancelled = rows[m].cancelled
  /\ rows'[m].kind = rows[m].kind
  /\ rows'[m].board = rows[m].board
  /\ rows'[m].item = rows[m].item
  /\ rows'[m].age = 0 => rows[m].age = 0
  /\ queued' \in Nat /\ queued' >= queued
  /\ wait'[m] = wait[m]
  /\ \A s \in Session : m \in batch'[s] => m \in batch[s]
  /\ <<"acked", m>> \in calls' => <<"acked", m>> \in calls
  /\ <<"failed", m>> \in calls' => <<"failed", m>> \in calls
  /\ pushes'[m] = pushes[m]
  /\ items'[m] = items[m]

\* The invariant of a message survives a step that leaves alone what it speaks of.
LEMMA Frame ==
  ASSUME DTypeOK, NEW m \in Msg, MsgInv(m), LeavesAlone(m),
         dflt \subseteq dflt'
  PROVE  MsgInv(m)'
<1> USE DEF MsgInv, LeavesAlone
<1>1. Taken(m)' = Taken(m)
  BY DEF Taken
<1>2. InTransit(m)' => InTransit(m)
  BY DEF InTransit
<1>3. Untaken(m)'
  BY <1>1, <1>2 DEF Untaken, DTypeOK, Msg
<1>4. Answered(m)'
  BY <1>1 DEF Answered
<1>5. Posted(m)'
  BY <1>1 DEF Posted
<1>6. InOnePlace(m)'
  BY <1>2 DEF InOnePlace
<1> QED  BY <1>3, <1>4, <1>5, <1>6

\* The empty table satisfies the invariant of every message.
LEMMA InitDeliveryInv == DInit => DeliveryInv
<1> SUFFICES ASSUME DInit, NEW m \in Msg PROVE MsgInv(m)
  BY InitDTypeOK DEF DeliveryInv
<1>1. rows[m] = [NewRow(NoSession, CHOOSE b \in Board : TRUE, "note")
                   EXCEPT !.used = FALSE]
  BY DEF DInit
<1>2. /\ rows[m].kind = "note" /\ ~rows[m].used
      /\ ~rows[m].item /\ ~rows[m].cancelled
      /\ ~rows[m].delivered /\ ~rows[m].requeued
  BY <1>1 DEF NewRow
<1>3. ~Taken(m) /\ ~InTransit(m) /\ pushes[m] = 0 /\ items[m] = 0 /\ wait[m] = "none"
  BY <1>2 DEF DInit, Taken, InTransit
<1>4. Untaken(m) /\ Answered(m) /\ Posted(m)
  BY <1>2, <1>3 DEF Untaken, Answered, Posted
<1>5. InOnePlace(m)
  BY <1>3 DEF InOnePlace, InTransit
<1> QED  BY <1>4, <1>5 DEF MsgInv

\* What every step but enqueue leaves alone, and the types it may rely on.
LEMMA RowFacts ==
  ASSUME DTypeOK, NEW m \in Msg
  PROVE  /\ rows[m] \in PendingRow
         /\ items[m] \in 0 .. 2 /\ pushes[m] \in 0 .. 2
         /\ queued \in Nat /\ m \in Nat
         /\ DOMAIN rows = Msg
  BY MaxMsgAssumption DEF DTypeOK, Msg

\* Queueing writes a fresh row: nobody holds it, nothing was pushed, and its
\* thread shows it only if it is a notice.
LEMMA EnqueueInv ==
  ASSUME DeliveryInv, dflt \subseteq dflt', NEW b \in Board, NEW k \in Kinds, Enqueue(b, k),
         NEW n \in Msg
  PROVE  MsgInv(n)'
<1> USE DEF DeliveryInv
<1>0. rows \in [Msg -> PendingRow] /\ queued \in Nat /\ n \in Nat
  BY RowFacts DEF DTypeOK
<1>1. MsgInv(n)
  OBVIOUS
<1>2. CASE n # queued + 1
  <2>1. rows'[n] = rows[n] /\ wait'[n] = wait[n] /\ items'[n] = items[n]
    BY <1>0, <1>2 DEF Enqueue, DTypeOK
  <2>2. queued' = queued + 1 /\ UNCHANGED <<batch, calls, pushes>>
    BY DEF Enqueue
  <2>3. LeavesAlone(n)
    BY <1>0, <2>1, <2>2 DEF LeavesAlone
  <2> QED  BY <1>1, <2>3, Frame
<1>3. CASE n = queued + 1
  <2>1. rows'[n] = NewRow(owner[b], b, k)
    BY <1>0, <1>3 DEF Enqueue
  <2>2. /\ rows'[n].kind = k /\ rows'[n].item = (k = "external_notify")
        /\ ~rows'[n].cancelled /\ ~rows'[n].delivered /\ ~rows'[n].requeued
    BY <2>1 DEF NewRow
  <2>3. /\ wait'[n] = IF k \in Submitted THEN "waiting" ELSE "none"
        /\ items'[n] = IF k = "external_notify" THEN 1 ELSE 0
        /\ queued' = n /\ batch' = batch /\ calls' = calls /\ pushes' = pushes
    BY <1>3 DEF Enqueue, DTypeOK
  <2>4. ~InTransit(n) /\ pushes[n] = 0
    BY <1>0, <1>1, <1>3 DEF MsgInv, Untaken
  <2>5. ~InTransit(n)' /\ pushes'[n] = 0 /\ ~Taken(n)'
    BY <2>2, <2>3, <2>4 DEF InTransit, Taken
  <2>7. Untaken(n)'
    BY <1>0, <2>2, <2>3, <2>5 DEF Untaken
  <2>8. Answered(n)'
    BY <2>2, <2>3 DEF Answered
  <2>9. Posted(n)'
    <3>1. CASE k = "external_notify"
      BY <2>2, <2>3, <3>1 DEF Posted, Replies
    <3>2. CASE k # "external_notify"
      <4>1. ~rows'[n].item /\ items'[n] = 0 /\ wait'[n] # "ok"
        BY <2>2, <2>3, <3>2
      <4> QED  BY <2>2, <2>5, <3>2, <4>1 DEF Posted, Replies
    <3> QED  BY <3>1, <3>2
  <2>10. InOnePlace(n)'
    BY <2>5 DEF InOnePlace, InTransit
  <2> QED  BY <2>7, <2>8, <2>9, <2>10 DEF MsgInv
<1> QED  BY <1>2, <1>3

\* The answer of the waiting handler: "ok" posts the message if the poll handler
\* did not, "timeout" withdraws the row if no poller ever had it.
LEMMA SubmitInv ==
  ASSUME DeliveryInv, dflt \subseteq dflt', NEW m \in Msg, submitDelivered(m) \/ submitTimeout(m),
         NEW n \in Msg
  PROVE  MsgInv(n)'
<1> USE DEF DeliveryInv
<1>0. /\ rows \in [Msg -> PendingRow] /\ queued \in Nat /\ n \in Nat /\ m \in Nat
      /\ wait \in [Msg -> WaitState] /\ items \in [Msg -> 0 .. 2]
  BY RowFacts DEF DTypeOK
<1>1. MsgInv(n) /\ MsgInv(m)
  OBVIOUS
<1>2. CASE n # m
  <2>1. rows'[n] = rows[n] /\ wait'[n] = wait[n] /\ items'[n] = items[n]
    BY <1>0, <1>2 DEF submitDelivered, submitTimeout
  <2>2. UNCHANGED <<queued, batch, calls, pushes>>
    BY DEF submitDelivered, submitTimeout
  <2>3. LeavesAlone(n)
    BY <1>0, <2>1, <2>2 DEF LeavesAlone
  <2> QED  BY <1>1, <2>3, Frame
<1>3. CASE n = m /\ submitDelivered(m)
  <2>1. /\ wait[m] = "waiting" /\ wait'[m] = "ok" /\ Taken(m)
        /\ UNCHANGED <<rows, queued, batch, calls, pushes>>
        /\ items'[m] = IF rows[m].item \/ Unshown(m) THEN items[m]
                                                     ELSE Bump(items[m])
    BY <1>0, <1>3 DEF submitDelivered, Taken
  <2>2. Taken(m)' /\ InTransit(m)' = InTransit(m)
    BY <2>1 DEF Taken, InTransit
  <2>3. rows[m].kind \in Submitted /\ ~rows[m].cancelled
    BY <1>1, <2>1 DEF MsgInv, Answered
  <2>4. Untaken(m)'
    BY <1>1, <2>1, <2>2 DEF MsgInv, Untaken
  <2>5. Answered(m)'
    BY <1>1, <2>1, <2>2, <2>3 DEF MsgInv, Answered
  <2>6. Posted(m)'
    <3>1. CASE rows[m].kind \in Replies
      <4>1. rows[m].item /\ items[m] = 1
        BY <1>1, <2>1, <3>1 DEF MsgInv, Posted
      <4> QED  BY <2>1, <2>2, <3>1, <4>1 DEF Posted, Replies
    <3>2. CASE rows[m].kind = "diagram_chat"
      <4>1. ~rows[m].item /\ items[m] = 0 /\ ~Unshown(m)
        BY <1>1, <2>1, <3>2 DEF MsgInv, Posted, Unshown
      <4> QED  BY <2>1, <3>2, <4>1 DEF Posted, Bump, Replies
    <3>3. CASE rows[m].kind = "board_structure_request"
      <4>1. ~rows[m].item /\ items[m] = 0
        BY <1>1, <2>1, <3>3 DEF MsgInv, Posted
      <4>2. items'[m] = IF Unshown(m) THEN 0 ELSE 1
        BY <2>1, <4>1 DEF Bump
      <4>3. Unshown(m) => rows'[m].board \in dflt'
        BY <2>1 DEF Unshown
      <4> QED  BY <2>1, <3>3, <4>1, <4>2, <4>3 DEF Posted, Replies
    <3> QED  BY <2>3, <3>1, <3>2, <3>3 DEF Submitted
  <2>7. InOnePlace(m)'
    BY <1>1, <2>1, <2>2 DEF MsgInv, InOnePlace
  <2> QED  BY <1>3, <2>4, <2>5, <2>6, <2>7 DEF MsgInv
<1>4. CASE n = m /\ submitTimeout(m)
  <2>1. /\ wait[m] = "waiting" /\ wait'[m] = "timeout"
        /\ UNCHANGED <<queued, batch, calls, pushes, items>>
        /\ rows' = IF ~Taken(m) THEN [rows EXCEPT ![m].cancelled = TRUE] ELSE rows
    BY <1>0, <1>4 DEF submitTimeout, Taken
  <2>2. /\ rows'[m].kind = rows[m].kind /\ rows'[m].item = rows[m].item
        /\ rows'[m].board = rows[m].board
        /\ rows'[m].delivered = rows[m].delivered
        /\ rows'[m].requeued = rows[m].requeued
        /\ rows'[m].age = rows[m].age
        /\ rows'[m].used = rows[m].used
        /\ rows'[m].cancelled <=> ~Taken(m)
    BY <1>0, <1>1, <2>1 DEF PendingRow, MsgInv, Answered
  <2>3. Taken(m)' = Taken(m) /\ InTransit(m)' = InTransit(m)
    BY <2>1, <2>2 DEF Taken, InTransit
  <2>4. rows[m].kind \in Submitted
    BY <1>1, <2>1 DEF MsgInv, Answered
  <2>5. Untaken(m)'
    BY <1>1, <2>1, <2>2, <2>3, <2>4 DEF MsgInv, Untaken
  <2>6. Answered(m)'
    BY <2>1, <2>2, <2>3, <2>4 DEF Answered
  <2>7. Posted(m)'
    BY <1>1, <2>1, <2>2, <2>3, <2>4 DEF MsgInv, Posted, Submitted
  <2>8. InOnePlace(m)'
    BY <1>1, <2>1, <2>2, <2>3 DEF MsgInv, InOnePlace
  <2> QED  BY <1>4, <2>5, <2>6, <2>7, <2>8 DEF MsgInv
<1> QED  BY <1>2, <1>3, <1>4

\* A poll hands a row to one poller; within the grace no other one has it.
LEMMA PollInv ==
  ASSUME DeliveryInv, dflt \subseteq dflt', NEW s \in Session, poll(s) \/ pollLost(s), NEW n \in Msg
  PROVE  MsgInv(n)'
<1> USE DEF DeliveryInv
<1>0. /\ rows \in [Msg -> PendingRow] /\ queued \in Nat
      /\ batch \in [Session -> SUBSET Msg] /\ n \in Nat
  BY RowFacts DEF DTypeOK
<1>1. MsgInv(n)
  OBVIOUS
<1>2. /\ handlePollMessages(s)
      /\ batch' = batch \/ batch' = [batch EXCEPT ![s] = Selected(s)]
  BY DEF poll, pollLost
<1>3. UNCHANGED <<queued, wait, calls, pushes>>
  BY <1>2 DEF handlePollMessages
<1>4. \A r \in Session : n \in batch'[r] =>
        n \in batch[r] \/ (r = s /\ n \in Selected(s))
  <2>1. CASE batch' = batch
    BY <2>1
  <2>2. CASE batch' = [batch EXCEPT ![s] = Selected(s)]
    BY <1>0, <2>2
  <2> QED  BY <1>2, <2>1, <2>2
<1>5. CASE n \notin Selected(s)
  <2>1. rows'[n] = rows[n] /\ items'[n] = items[n]
    BY <1>2, <1>5 DEF handlePollMessages
  <2>2. LeavesAlone(n)
    BY <1>0, <1>3, <1>4, <1>5, <2>1 DEF LeavesAlone
  <2> QED  BY <1>1, <2>2, Frame
<1>6. CASE n \in Selected(s)
  <2>1. /\ ~rows[n].delivered /\ ~rows[n].cancelled
        /\ rows'[n] = [rows[n] EXCEPT !.delivered = TRUE, !.item = @ \/ Posts(n)]
        /\ items'[n] = IF Posts(n) THEN Bump(items[n]) ELSE items[n]
    BY <1>2, <1>6 DEF handlePollMessages, Selected
  <2>2. /\ rows'[n].delivered
        /\ rows'[n].requeued = rows[n].requeued
        /\ ~rows'[n].cancelled
        /\ rows'[n].kind = rows[n].kind
        /\ rows'[n].board = rows[n].board
        /\ rows'[n].age = rows[n].age
    BY <1>0, <2>1 DEF PendingRow
  <2>3. rows'[n].item <=> rows[n].item \/ Posts(n)
    <3>1. rows'[n].item = (rows[n].item \/ Posts(n))
      BY <1>0, <2>1 DEF PendingRow
    <3> QED  BY <3>1
  <2>4. Taken(n)'
    BY <2>2 DEF Taken
  <2>5. rows[n].used /\ rows[n].kind \in Kind
    BY <1>0, <1>6 DEF Selected, PendingRow
  <2>6. Answered(n)'
    BY <1>1, <1>3, <2>2, <2>4 DEF MsgInv, Answered
  <2>7. Posted(n)'
    <3>1. CASE rows[n].kind \in Replies
      <4>1. (rows[n].item <=> Taken(n)) /\ items[n] = IF Taken(n) THEN 1 ELSE 0
        BY <1>1, <3>1 DEF MsgInv, Posted
      <4>2. rows'[n].item
        BY <2>3, <3>1 DEF Posts
      <4>3. items'[n] = 1
        BY <2>1, <3>1, <4>1 DEF Bump, Posts
      <4> QED  BY <2>2, <2>4, <3>1, <4>2, <4>3 DEF Posted, Replies
    <3>2. CASE rows[n].kind \notin Replies
      <4>1. rows'[n].item = rows[n].item /\ items'[n] = items[n]
        BY <1>0, <2>1, <3>2 DEF Posts, PendingRow
      <4> QED  BY <1>1, <1>3, <2>2, <3>2, <4>1 DEF MsgInv, Posted
    <3> QED  BY <3>1, <3>2
  <2>8. InOnePlace(n)'
    <3> SUFFICES ASSUME rows[n].age = 0 PROVE InOnePlace(n)'
      BY <2>2 DEF InOnePlace
    <3>1. ~InTransit(n) /\ pushes[n] = 0
      BY <1>1, <2>1 DEF MsgInv, InOnePlace
    <3> QED  BY <1>3, <1>4, <2>2, <3>1 DEF InOnePlace, InTransit
  <2>9. n <= queued
    BY <1>0, <1>1, <2>5 DEF MsgInv, Untaken
  <2>10. Untaken(n)'
    BY <1>0, <1>3, <2>2, <2>4, <2>9 DEF Untaken
  <2> QED  BY <2>6, <2>7, <2>8, <2>10 DEF MsgInv
<1> QED  BY <1>5, <1>6

\* A push takes the message out of the batch and counts it once.
LEMMA PushInv ==
  ASSUME DeliveryInv, dflt \subseteq dflt', NEW s \in Session, NEW m \in Msg,
         pushResolved(s, m) \/ pushThrew(s, m), NEW n \in Msg
  PROVE  MsgInv(n)'
<1> USE DEF DeliveryInv
<1>0. /\ rows \in [Msg -> PendingRow] /\ queued \in Nat
      /\ batch \in [Session -> SUBSET Msg] /\ pushes \in [Msg -> 0 .. 2]
  BY RowFacts DEF DTypeOK
<1>1. MsgInv(n) /\ MsgInv(m)
  OBVIOUS
<1>2. /\ m \in batch[s] /\ UNCHANGED <<rows, queued, wait, items>>
      /\ batch' = [batch EXCEPT ![s] = @ \ {m}]
      /\ \/ /\ calls' = calls \cup {<<"acked", m>>}
            /\ pushes' = [pushes EXCEPT ![m] = Bump(@)]
         \/ /\ calls' = calls \cup {<<"failed", m>>}
            /\ pushes' = pushes
  BY DEF pushResolved, pushThrew, NextOf
<1>3. \A r \in Session : n \in batch'[r] => n \in batch[r] /\ ~(r = s /\ n = m)
  BY <1>0, <1>2
<1>4. CASE n # m
  <2>1. LeavesAlone(n)
    BY <1>0, <1>2, <1>3, <1>4 DEF LeavesAlone
  <2> QED  BY <1>1, <2>1, Frame
<1>5. CASE n = m
  <2>1. Taken(m) /\ Taken(m)'
    BY <1>1, <1>2 DEF MsgInv, Untaken, InTransit, Taken
  <2>2. Untaken(m)'
    BY <1>1, <1>2, <2>1 DEF MsgInv, Untaken
  <2>3. Answered(m)'
    BY <1>1, <1>2, <2>1 DEF MsgInv, Answered
  <2>4. Posted(m)'
    BY <1>1, <1>2, <2>1 DEF MsgInv, Posted
  <2>5. InOnePlace(m)'
    <3> SUFFICES ASSUME rows[m].age = 0 PROVE InOnePlace(m)'
      BY <1>2 DEF InOnePlace
    <3>1. /\ rows[m].delivered /\ pushes[m] = 0
          /\ \A r \in Session : m \in batch[r] => r = s
          /\ <<"acked", m>> \notin calls /\ <<"failed", m>> \notin calls
      BY <1>1, <1>2 DEF MsgInv, InOnePlace, InTransit
    <3>2. \A r \in Session : m \notin batch'[r]
      BY <1>3, <1>5, <3>1
    <3> QED  BY <1>0, <1>2, <3>1, <3>2 DEF InOnePlace, Bump
  <2> QED  BY <1>5, <2>2, <2>3, <2>4, <2>5 DEF MsgInv
<1> QED  BY <1>4, <1>5

\* A report of a failed push puts the row back in the queue: within the grace
\* no copy of it is anywhere else.
LEMMA ReportInv ==
  ASSUME DeliveryInv, dflt \subseteq dflt', NEW m \in Msg,
         handleMessageAcked(m) \/ handleDeliveryFailed(m), NEW n \in Msg
  PROVE  MsgInv(n)'
<1> USE DEF DeliveryInv
<1>0. /\ rows \in [Msg -> PendingRow] /\ queued \in Nat
      /\ rows[m] \in PendingRow /\ rows[n] \in PendingRow
  BY RowFacts DEF DTypeOK
<1>1. MsgInv(n) /\ MsgInv(m)
  OBVIOUS
<1>2. UNCHANGED <<queued, wait, batch, pushes, items>> /\ calls' \subseteq calls
  BY DEF handleMessageAcked, handleDeliveryFailed
<1>3. CASE n # m \/ rows' = rows
  <2>1. rows'[n] = rows[n]
    BY <1>0, <1>3 DEF handleMessageAcked, handleDeliveryFailed
  <2>2. LeavesAlone(n)
    BY <1>0, <1>2, <2>1 DEF LeavesAlone
  <2> QED  BY <1>1, <2>2, Frame
<1>4. CASE n = m /\ rows' # rows /\ handleMessageAcked(m)
  <2>1. rows'[m] = [rows[m] EXCEPT !.pushed = TRUE]
    BY <1>0, <1>4 DEF handleMessageAcked
  <2>2. LeavesAlone(m)
    BY <1>0, <1>2, <2>1 DEF LeavesAlone, PendingRow
  <2> QED  BY <1>1, <1>4, <2>2, Frame
<1>5. CASE n = m /\ rows' # rows /\ handleDeliveryFailed(m)
  <2>1. /\ rows[m].used /\ ~rows[m].cancelled
        /\ rows'[m] = [rows[m] EXCEPT !.delivered = FALSE, !.requeued = TRUE]
        /\ <<"failed", m>> \in calls /\ calls' = calls \ {<<"failed", m>>}
    BY <1>0, <1>5 DEF handleDeliveryFailed
  <2>2. /\ rows'[m].used /\ ~rows'[m].cancelled
        /\ ~rows'[m].delivered /\ rows'[m].requeued
        /\ rows'[m].kind = rows[m].kind /\ rows'[m].item = rows[m].item
        /\ rows'[m].board = rows[m].board /\ rows'[m].age = rows[m].age
    BY <1>0, <2>1 DEF PendingRow
  <2>3. Taken(m) /\ Taken(m)'
    BY <1>1, <2>1, <2>2 DEF MsgInv, Untaken, InTransit, Taken
  <2>4. Untaken(m)'
    BY <1>1, <1>2, <2>2, <2>3 DEF MsgInv, Untaken
  <2>5. Answered(m)'
    BY <1>1, <1>2, <2>2, <2>3 DEF MsgInv, Answered
  <2>6. Posted(m)'
    BY <1>1, <1>2, <2>2, <2>3 DEF MsgInv, Posted
  <2>7. InOnePlace(m)'
    <3> SUFFICES ASSUME rows[m].age = 0 PROVE InOnePlace(m)'
      BY <2>2 DEF InOnePlace
    <3>1. /\ pushes[m] = 0 /\ <<"acked", m>> \notin calls
          /\ \A r \in Session : m \notin batch[r]
      BY <1>1, <2>1 DEF MsgInv, InOnePlace
    <3> QED  BY <1>2, <2>1, <3>1 DEF InOnePlace, InTransit
  <2> QED  BY <1>5, <2>4, <2>5, <2>6, <2>7 DEF MsgInv
<1> QED  BY <1>3, <1>4, <1>5

\* The resweep puts rows back in the queue, but only past the grace.
LEMMA ResweepInv ==
  ASSUME DeliveryInv, dflt \subseteq dflt', resweepUnackedMessages, NEW n \in Msg
  PROVE  MsgInv(n)'
<1> USE DEF DeliveryInv
<1>0. rows \in [Msg -> PendingRow] /\ queued \in Nat /\ rows[n] \in PendingRow
  BY RowFacts DEF DTypeOK
<1>1. MsgInv(n)
  OBVIOUS
<1>2. UNCHANGED <<queued, wait, batch, calls, pushes, items>>
  BY DEF resweepUnackedMessages
<1>3. CASE ~ResweepDue(n)
  <2>1. rows'[n] = rows[n]
    BY <1>3 DEF resweepUnackedMessages
  <2>2. LeavesAlone(n)
    BY <1>0, <1>2, <2>1 DEF LeavesAlone
  <2> QED  BY <1>1, <2>2, Frame
<1>4. CASE ResweepDue(n)
  <2>0. rows'[n] = [rows[n] EXCEPT !.delivered = FALSE, !.requeued = TRUE]
    BY <1>4 DEF resweepUnackedMessages
  <2>00. /\ rows[n].used /\ rows[n].delivered /\ ~rows[n].cancelled
        /\ rows[n].age # 0
    BY <1>4 DEF ResweepDue
  <2>1. /\ rows'[n] = [rows[n] EXCEPT !.delivered = FALSE, !.requeued = TRUE]
        /\ rows[n].used /\ rows[n].delivered /\ ~rows[n].cancelled
        /\ rows[n].age # 0
    BY <2>0, <2>00
  <2>2. /\ rows'[n].used /\ ~rows'[n].cancelled /\ rows'[n].requeued
        /\ rows'[n].kind = rows[n].kind /\ rows'[n].item = rows[n].item
        /\ rows'[n].board = rows[n].board /\ rows'[n].age # 0
    BY <1>0, <2>1 DEF PendingRow
  <2>3. Taken(n) /\ Taken(n)'
    BY <2>1, <2>2 DEF Taken
  <2>4. Untaken(n)'
    BY <1>1, <1>2, <2>2, <2>3 DEF MsgInv, Untaken
  <2>5. Answered(n)'
    BY <1>1, <1>2, <2>2, <2>3 DEF MsgInv, Answered
  <2>6. Posted(n)'
    BY <1>1, <1>2, <2>2, <2>3 DEF MsgInv, Posted
  <2>7. InOnePlace(n)'
    BY <2>2 DEF InOnePlace
  <2> QED  BY <2>4, <2>5, <2>6, <2>7 DEF MsgInv
<1> QED  BY <1>3, <1>4

\* A broker restart answers no submission.
LEMMA RestartInv ==
  ASSUME DeliveryInv, dflt \subseteq dflt', brokerRestart, NEW n \in Msg
  PROVE  MsgInv(n)'
<1> USE DEF DeliveryInv
<1>0. queued \in Nat
  BY RowFacts
<1>1. MsgInv(n)
  OBVIOUS
<1>2. /\ UNCHANGED <<rows, queued, batch, pushes, items>> /\ calls' = {}
      /\ wait'[n] = IF wait[n] = "waiting" THEN "broken" ELSE wait[n]
  BY DEF brokerRestart
<1>3. CASE wait[n] # "waiting"
  <2>1. LeavesAlone(n)
    BY <1>0, <1>2, <1>3 DEF LeavesAlone
  <2> QED  BY <1>1, <2>1, Frame
<1>4. CASE wait[n] = "waiting"
  <2>1. wait'[n] = "broken" /\ Taken(n)' = Taken(n) /\ (InTransit(n)' => InTransit(n))
    BY <1>2, <1>4 DEF Taken, InTransit
  <2>2. Untaken(n)'
    BY <1>1, <1>2, <1>4, <2>1 DEF MsgInv, Untaken
  <2>3. Answered(n)'
    BY <1>1, <1>2, <1>4, <2>1 DEF MsgInv, Answered
  <2>4. Posted(n)'
    BY <1>1, <1>2, <1>4, <2>1 DEF MsgInv, Posted
  <2>5. InOnePlace(n)'
    BY <1>1, <1>2, <2>1 DEF MsgInv, InOnePlace
  <2> QED  BY <2>2, <2>3, <2>4, <2>5 DEF MsgInv
<1> QED  BY <1>3, <1>4

\* The remaining steps change where a message is kept, how old it is or whether
\* its row is still there, and nothing its invariant speaks of.
LEMMA QuietInv ==
  ASSUME DeliveryInv, dflt \subseteq dflt', NEW n \in Msg,
         UNCHANGED <<queued, wait, pushes, items>>, calls' \subseteq calls,
         \A s \in Session : batch'[s] \subseteq batch[s],
         \/ rows'[n] = rows[n]
         \/ \E s \in Session : rows'[n] = [rows[n] EXCEPT !.sid = s]
         \/ rows'[n] = [rows[n] EXCEPT !.used = FALSE]
         \/ rows'[n] = [rows[n] EXCEPT !.age = 1]
         \/ rows'[n] = [rows[n] EXCEPT !.age = 2]
  PROVE  MsgInv(n)'
<1> USE DEF DeliveryInv
<1>0. rows[n] \in PendingRow /\ queued \in Nat
  BY RowFacts
<1>1. MsgInv(n)
  OBVIOUS
<1> DEFINE Same == /\ rows'[n].delivered = rows[n].delivered
                   /\ rows'[n].requeued = rows[n].requeued
                   /\ rows'[n].cancelled = rows[n].cancelled
                   /\ rows'[n].kind = rows[n].kind
                   /\ rows'[n].board = rows[n].board
                   /\ rows'[n].item = rows[n].item
                   /\ rows'[n].used => rows[n].used
                   /\ rows'[n].age = 0 => rows[n].age = 0
<1>2. Same
  <2>1. CASE rows'[n] = rows[n]
    BY <2>1
  <2>2. CASE \E s \in Session : rows'[n] = [rows[n] EXCEPT !.sid = s]
    BY <1>0, <2>2 DEF PendingRow
  <2>3. CASE rows'[n] = [rows[n] EXCEPT !.used = FALSE]
    BY <1>0, <2>3 DEF PendingRow
  <2>4. CASE rows'[n] = [rows[n] EXCEPT !.age = 1]
    BY <1>0, <2>4 DEF PendingRow
  <2>5. CASE rows'[n] = [rows[n] EXCEPT !.age = 2]
    BY <1>0, <2>5 DEF PendingRow
  <2> QED  BY <2>1, <2>2, <2>3, <2>4, <2>5
<1>3. LeavesAlone(n)
  BY <1>0, <1>2 DEF LeavesAlone
<1> QED  BY <1>1, <1>3, Frame

\* Every step of the pipeline keeps the invariant of every message.
LEMMA NextDeliveryInv == DeliveryInv /\ [DNext]_vars => DeliveryInv'
<1> SUFFICES ASSUME DeliveryInv, [DNext]_vars, NEW n \in Msg PROVE MsgInv(n)'
  BY NextDTypeOK DEF DeliveryInv
<1>0. rows \in [Msg -> PendingRow] /\ batch \in [Session -> SUBSET Msg]
  BY DEF DeliveryInv, DTypeOK
<1>00. dflt \subseteq dflt'
  BY DefaultsStay
<1>1. CASE \E b \in Board : enqueue(b)
  BY <1>00, <1>1, EnqueueCases, EnqueueInv
<1>2. CASE \E m \in Msg : submitDelivered(m) \/ submitTimeout(m)
  BY <1>00, <1>2, SubmitInv
<1>3. CASE \E s \in Session : poll(s) \/ pollLost(s)
  BY <1>00, <1>3, PollInv
<1>4. CASE \E s \in Session, m \in Msg : pushResolved(s, m) \/ pushThrew(s, m)
  BY <1>00, <1>4, PushInv
<1>5. CASE \E m \in Msg : handleMessageAcked(m) \/ handleDeliveryFailed(m)
  BY <1>00, <1>5, ReportInv
<1>6. CASE \E call \in calls : callLost(call)
  BY <1>00, <1>6, QuietInv DEF callLost
<1>7. CASE resweepUnackedMessages
  BY <1>00, <1>7, ResweepInv
<1>8. CASE purgeOldDeliveredMessages
  <2>1. rows'[n] = rows[n] \/ rows'[n] = [rows[n] EXCEPT !.used = FALSE]
    BY <1>8 DEF purgeOldDeliveredMessages
  <2> QED  BY <1>00, <1>8, <2>1, QuietInv DEF purgeOldDeliveredMessages
<1>9. CASE brokerRestart
  BY <1>00, <1>9, RestartInv
<1>10. CASE \E m \in Msg : passGrace(m) \/ passRetention(m)
  <2>1. \/ rows'[n] = rows[n]
        \/ rows'[n] = [rows[n] EXCEPT !.age = 1]
        \/ rows'[n] = [rows[n] EXCEPT !.age = 2]
    BY <1>0, <1>10 DEF passGrace, passRetention
  <2>2. UNCHANGED <<queued, wait, batch, calls, pushes, items>>
    BY <1>10 DEF passGrace, passRetention
  <2> QED  BY <1>00, <2>1, <2>2, QuietInv
<1>11. ASSUME NEW s \in Session, NEW M \in SUBSET Msg, Rehome(s, M),
              UNCHANGED <<queued, wait, batch, calls, pushes, items>>
       PROVE  MsgInv(n)'
  <2>1. rows'[n] = rows[n] \/ rows'[n] = [rows[n] EXCEPT !.sid = s]
    BY <1>11 DEF Rehome
  <2> QED  BY <1>00, <1>11, <2>1, QuietInv
<1>12. CASE \E s \in Session : \/ attach(s) \/ \E c \in CC : attachByTool(s, c)
                               \/ \E b \in Board : attachToBoard(s, b)
  BY <1>11, <1>12 DEF attach, attachByTool, attachToBoard, reclaimMessages
<1>13. CASE \E s \in Session : stop(s)
  BY <1>0, <1>00, <1>13, QuietInv DEF stop
<1>14. CASE UNCHANGED dvars
  BY <1>00, <1>14, QuietInv DEF dvars
<1> QED
  BY <1>1, <1>2, <1>3, <1>4, <1>5, <1>6, <1>7, <1>8, <1>9, <1>10, <1>12,
     <1>13, <1>14 DEF DNext, registryOnly, sweepSessions, vars

\* The invariant holds in every reachable state.
LEMMA DeliveryInvHolds == DSpec => []DeliveryInv
  BY InitDeliveryInv, NextDeliveryInv, PTL DEF DSpec

\* A submission withdrawn at its deadline never reaches Claude Code and never
\* shows in a thread: the user can safely send the message again.
THEOREM WithdrawnStaysWithdrawn == DSpec => []WithdrawnNeverDelivered
<1>1. DeliveryInv => WithdrawnNeverDelivered
  <2> SUFFICES ASSUME DeliveryInv, NEW m \in Msg, rows[m].cancelled
               PROVE  /\ ~rows[m].delivered /\ ~rows[m].requeued
                      /\ \A s \in Session : m \notin batch[s]
                      /\ pushes[m] = 0 /\ items[m] = 0
    BY DEF WithdrawnNeverDelivered
  <2>1. ~Taken(m) /\ rows[m].kind \in Submitted /\ wait[m] # "ok"
    BY DEF DeliveryInv, MsgInv, Untaken, Answered
  <2>2. ~InTransit(m) /\ pushes[m] = 0
    BY <2>1 DEF DeliveryInv, MsgInv, Untaken
  <2>3. items[m] = 0
    BY <2>1 DEF DeliveryInv, MsgInv, Posted, Submitted
  <2> QED  BY <2>1, <2>2, <2>3 DEF Taken, InTransit
<1> QED  BY <1>1, DeliveryInvHolds, PTL

\* A submission that was answered with a timeout was withdrawn or had been
\* drained: no later poll drains it for the first time.
THEOREM TimeoutsAreFinal == DSpec => []TimeoutIsFinal
<1>1. DeliveryInv => TimeoutIsFinal
  BY DEF DeliveryInv, MsgInv, Answered, Taken, TimeoutIsFinal
<1> QED  BY <1>1, DeliveryInvHolds, PTL

\* A message shows in its thread at most once, and a reply or a notice shows
\* there before it can be pushed.
THEOREM PostsOnce == DSpec => []PostedOnce
<1>1. DeliveryInv => PostedOnce
  <2> SUFFICES ASSUME DeliveryInv, NEW m \in Msg
               PROVE  /\ items[m] <= 1
                      /\ (/\ rows[m].kind \in Replies \cup {"external_notify"}
                          /\ rows[m].delivered \/ rows[m].requeued) => items[m] = 1
    BY DEF PostedOnce
  <2>1. Posted(m) /\ rows[m].kind \in Kind
    BY DEF DeliveryInv, MsgInv, DTypeOK, PendingRow
  <2>2. items[m] <= 1
    <3>1. CASE rows[m].kind \in Replies
      BY <2>1, <3>1 DEF Posted
    <3>2. CASE rows[m].kind = "diagram_chat"
      BY <2>1, <3>2 DEF Posted
    <3>3. CASE rows[m].kind = "board_structure_request"
      BY <2>1, <3>3 DEF Posted
    <3>4. CASE rows[m].kind \in {"external_notify", "note"}
      BY <2>1, <3>4 DEF Posted
    <3> QED  BY <2>1, <3>1, <3>2, <3>3, <3>4 DEF Kind, Submitted
  <2>3. Taken(m) /\ rows[m].kind \in Replies \cup {"external_notify"} =>
          items[m] = 1
    BY <2>1 DEF Posted
  <2> QED  BY <2>2, <2>3 DEF Taken
<1> QED  BY <1>1, DeliveryInvHolds, PTL

\* The answer "ok" is only given for a message that was drained, and the
\* message then shows in its thread, if there is one.
THEOREM OkMeansDrained == DSpec => []OkWasDrained
<1>1. DeliveryInv => OkWasDrained
  <2> SUFFICES ASSUME DeliveryInv, NEW m \in Msg, wait[m] = "ok"
               PROVE  /\ rows[m].delivered \/ rows[m].requeued
                      /\ items[m] = 1 \/ Unshown(m)
    BY DEF OkWasDrained
  <2>1. Taken(m) /\ rows[m].kind \in Submitted
    BY DEF DeliveryInv, MsgInv, Answered
  <2> QED  BY <2>1 DEF DeliveryInv, MsgInv, Posted, Taken, Submitted, Unshown
<1> QED  BY <1>1, DeliveryInvHolds, PTL

\* Until the grace of the resweep is over no two pollers hold the same message
\* and it is pushed at most once.
THEOREM PushesFreshOnce == DSpec => []FreshPushedOnce
<1>1. DeliveryInv => FreshPushedOnce
  BY DEF DeliveryInv, MsgInv, InOnePlace, FreshPushedOnce
<1> QED  BY <1>1, DeliveryInvHolds, PTL

\* While the environment is timely, the session a message is queued for is the
\* driven server of the client, if the client has one (module Sessions).
THEOREM OwnersListen == ASSUME Timely PROVE DSpec => []DrivenOwnsBoards
  BY ImplementsSessions, OwnsBoards, PTL

-----------------------------------------------------------------------------
(***************************************************************************)
(* The delivery pipeline implements the mailbox: every behaviour of module *)
(* Delivery, seen through the mapping Mail, is one of module Mailbox.      *)
(***************************************************************************)

\* The mapping, given names a proof can cite.
state == [m \in Msg |-> IF m > queued THEN "new"
                        ELSE IF rows[m].cancelled THEN "withdrawn" ELSE "open"]
taken == [m \in Msg |-> rows[m].delivered \/ rows[m].requeued]
got == [m \in Msg |-> pushes[m] > 0]

\* The empty table is an empty mailbox.
LEMMA InitMailbox == DInit => Mail!MInit
<1> SUFFICES ASSUME DInit PROVE Mail!MInit
  OBVIOUS
<1>1. \A m \in Msg : m > queued /\ pushes[m] = 0
  BY MaxMsgAssumption DEF DInit, Msg
<1>2. \A m \in Msg : ~rows[m].delivered /\ ~rows[m].requeued
  BY DEF DInit, NewRow
<1>3. wait = [m \in Msg |-> "none"]
  BY DEF DInit
<1>4. state = [m \in Msg |-> "new"]
  BY <1>1 DEF state
<1>6. got = [m \in Msg |-> FALSE]
  <2>1. \A m \in Msg : (pushes[m] > 0) = FALSE
    BY <1>1
  <2> QED  BY <2>1, Zenon DEF got
<1>5. taken = [m \in Msg |-> FALSE]
  BY <1>2 DEF taken
<1> QED  BY <1>3, <1>4, <1>5, <1>6 DEF Mail!MInit, state, taken, got

\* A step that inserts no row, takes none and withdraws none is no step of
\* the mailbox.
LEMMA MailboxStutter ==
  ASSUME DTypeOK, UNCHANGED <<queued, wait, pushes>>,
         \A m \in Msg : /\ rows'[m].cancelled = rows[m].cancelled
                        /\ Taken(m)' = Taken(m)
  PROVE  UNCHANGED Mail!mvars
<1>1. state' = state /\ got' = got
  BY DEF state, got
<1>2. taken' = taken
  BY DEF taken, Taken
<1> QED  BY <1>1, <1>2 DEF Mail!mvars, state, taken, got

\* Queueing a message posts it, with a poster who waits or who does not.
LEMMA EnqueuePosts ==
  ASSUME DeliveryInv, NEW b \in Board, NEW k \in Kinds, Enqueue(b, k)
  PROVE  Mail!MNext
<1>9. queued + 1 \in Msg /\ queued \in Nat
  BY MaxMsgAssumption DEF DeliveryInv, DTypeOK, Enqueue, Msg
<1> PICK m \in Msg : m = queued + 1
  BY <1>9
<1> DEFINE v == IF k \in Submitted THEN "waiting" ELSE "none"
<1>0. /\ rows \in [Msg -> PendingRow] /\ wait \in [Msg -> WaitState]
      /\ queued \in Nat
  BY <1>9 DEF DeliveryInv, DTypeOK
<1>1. /\ rows' = [rows EXCEPT ![m] = NewRow(owner[b], b, k)]
      /\ queued' = m /\ pushes' = pushes /\ wait' = [wait EXCEPT ![m] = v]
  BY DEF Enqueue
<1>2. ~Taken(m)
  BY <1>0 DEF DeliveryInv, MsgInv, Untaken
<1>3. \A n \in Msg : Taken(n)' = Taken(n)
  BY <1>0, <1>1, <1>2 DEF Taken, NewRow
<1>4. taken' = taken /\ got' = got
  BY <1>1, <1>3 DEF taken, Taken, got
<1>5. \A n \in Msg : n > queued' <=> n > queued /\ n # m
  BY <1>0, <1>1 DEF Msg
<1>6. state[m] = "new"
  BY <1>0 DEF state
<1>7. state' = [state EXCEPT ![m] = "open"]
  <2>1. \A n \in Msg : state'[n] = IF n = m THEN "open" ELSE state[n]
    BY <1>0, <1>1, <1>5 DEF state, NewRow
  <2> QED  BY <1>0, <2>1 DEF state
<1>8. Mail!Post(m)
  BY <1>1, <1>4, <1>6, <1>7 DEF Mail!Post, state, taken, got
<1> QED  BY <1>0, <1>8 DEF Mail!MNext

\* A poll takes the rows it drains, whether or not its answer arrives.
LEMMA PollTakes ==
  ASSUME DeliveryInv, NEW s \in Session, handlePollMessages(s)
  PROVE  Mail!MNext
<1>0. rows \in [Msg -> PendingRow] /\ queued \in Nat
  BY RowFacts DEF DeliveryInv, DTypeOK
<1>1. UNCHANGED <<queued, wait, pushes>>
  BY DEF handlePollMessages
<1>2. \A m \in Selected(s) : m \in Msg /\ m <= queued /\ ~rows[m].cancelled
  BY <1>0 DEF Selected, DeliveryInv, MsgInv, Untaken, Msg
<1>3. \A m \in Msg : /\ rows'[m].cancelled = rows[m].cancelled
                     /\ rows'[m].requeued = rows[m].requeued
                     /\ rows'[m].delivered = (rows[m].delivered \/ m \in Selected(s))
  <2> SUFFICES ASSUME NEW m \in Msg
               PROVE  /\ rows'[m].cancelled = rows[m].cancelled
                      /\ rows'[m].requeued = rows[m].requeued
                      /\ rows'[m].delivered = (rows[m].delivered \/ m \in Selected(s))
    OBVIOUS
  <2>1. CASE m \in Selected(s)
    BY <1>0, <2>1 DEF handlePollMessages, PendingRow
  <2>2. CASE m \notin Selected(s)
    BY <1>0, <2>2 DEF handlePollMessages, PendingRow
  <2> QED  BY <2>1, <2>2
<1>4. state' = state /\ got' = got
  BY <1>1, <1>3 DEF state, got
<1>5. \A m \in Msg : taken'[m] = (taken[m] \/ m \in Selected(s))
  BY <1>0, <1>3 DEF taken, PendingRow
<1>6. taken' = [m \in Msg |-> taken[m] \/ m \in Selected(s)]
  BY <1>5 DEF taken
<1>7. \A m \in Selected(s) : state[m] = "open"
  BY <1>0, <1>2 DEF state, Msg
<1>8. PICK S \in SUBSET Msg : S = Selected(s)
  BY DEF Selected
<1>9. Mail!Take(S)
  BY <1>1, <1>4, <1>6, <1>7, <1>8 DEF Mail!Take, state, taken, got
<1> QED  BY <1>9 DEF Mail!MNext

\* A push that resolves is a receipt of a message that was taken.
LEMMA PushReceives ==
  ASSUME DeliveryInv, NEW s \in Session, NEW m \in Msg, pushResolved(s, m)
  PROVE  Mail!MNext
<1>1. /\ UNCHANGED <<rows, queued, wait>> /\ m \in batch[s]
      /\ pushes' = [pushes EXCEPT ![m] = Bump(@)]
  BY DEF pushResolved, NextOf
<1>2. Taken(m)
  BY <1>1 DEF DeliveryInv, MsgInv, Untaken, InTransit
<1>3. taken[m] /\ taken' = taken /\ state' = state
  BY <1>1, <1>2 DEF taken, Taken, state
<1>4. \A n \in Msg : (pushes'[n] > 0) = IF n = m THEN TRUE ELSE (pushes[n] > 0)
  <2>1. pushes \in [Msg -> 0 .. 2]
    BY DEF DeliveryInv, DTypeOK
  <2>2. Bump(pushes[m]) > 0
    BY <2>1 DEF Bump
  <2> QED  BY <1>1, <2>1, <2>2
<1>5. got' = [got EXCEPT ![m] = TRUE]
  BY <1>4, Zenon DEF got
<1>6. Mail!Receive(m)
  BY <1>1, <1>3, <1>5 DEF Mail!Receive, state, taken, got
<1> QED  BY <1>6 DEF Mail!MNext

\* The submission handler's answer: ok, timeout after a withdrawal, or timeout
\* after a poller had the message.
LEMMA SubmitAnswers ==
  ASSUME DeliveryInv, NEW m \in Msg, submitDelivered(m) \/ submitTimeout(m)
  PROVE  Mail!MNext
<1>0. rows \in [Msg -> PendingRow] /\ queued \in Nat /\ m \in Nat
  BY RowFacts DEF DeliveryInv, DTypeOK
<1>1. wait[m] = "waiting" /\ UNCHANGED <<queued, pushes>>
  BY DEF submitDelivered, submitTimeout
<1>2. ~rows[m].cancelled /\ m <= queued
  BY <1>0, <1>1 DEF DeliveryInv, MsgInv, Untaken, Answered
<1>3. CASE submitDelivered(m) \/ (submitTimeout(m) /\ Taken(m))
  <2>1. /\ rows' = rows /\ taken[m]
        /\ \/ wait' = [wait EXCEPT ![m] = "ok"]
           \/ wait' = [wait EXCEPT ![m] = "timeout"]
    BY <1>3 DEF submitDelivered, submitTimeout, Taken, taken
  <2>2. state' = state /\ taken' = taken /\ got' = got
    BY <1>1, <2>1 DEF state, taken, got
  <2>3. Mail!Confirm(m) \/ Mail!GiveUp(m)
    BY <1>1, <2>1, <2>2 DEF Mail!Confirm, Mail!GiveUp, state, taken, got
  <2> QED  BY <2>3 DEF Mail!MNext
<1>4. CASE submitTimeout(m) /\ ~Taken(m)
  <2>1. /\ rows' = [rows EXCEPT ![m].cancelled = TRUE]
        /\ wait' = [wait EXCEPT ![m] = "timeout"]
    BY <1>4 DEF submitTimeout, Taken
  <2>2. \A n \in Msg : /\ rows'[n].delivered = rows[n].delivered
                       /\ rows'[n].requeued = rows[n].requeued
                       /\ rows'[n].cancelled <=> n = m \/ rows[n].cancelled
    BY <1>0, <2>1 DEF PendingRow
  <2>3. taken' = taken /\ got' = got /\ ~taken[m]
    BY <1>1, <1>4, <2>2 DEF taken, got, Taken
  <2>4. \A n \in Msg : state'[n] = IF n = m THEN "withdrawn" ELSE state[n]
    <3> SUFFICES ASSUME NEW n \in Msg
                 PROVE  state'[n] = IF n = m THEN "withdrawn" ELSE state[n]
      OBVIOUS
    <3>1. CASE n = m
      BY <1>0, <1>1, <1>2, <2>2, <3>1 DEF state
    <3>2. CASE n # m
      BY <1>1, <2>2, <3>2 DEF state
    <3> QED  BY <3>1, <3>2
  <2>5. state' = [state EXCEPT ![m] = "withdrawn"]
    BY <2>4 DEF state
  <2>6. Mail!Withdraw(m)
    BY <1>1, <2>1, <2>3, <2>5 DEF Mail!Withdraw, state, taken, got
  <2> QED  BY <2>6 DEF Mail!MNext
<1> QED  BY <1>3, <1>4

\* Every step of the pipeline is a step of the mailbox or none at all.
LEMMA NextMailbox ==
  DeliveryInv /\ [DNext]_vars => [Mail!MNext]_Mail!mvars
<1> SUFFICES ASSUME DeliveryInv, [DNext]_vars
             PROVE  Mail!MNext \/ UNCHANGED Mail!mvars
  OBVIOUS
<1>0. DTypeOK /\ rows \in [Msg -> PendingRow]
  BY DEF DeliveryInv, DTypeOK
<1>1. CASE \E b \in Board : enqueue(b)
  BY <1>1, EnqueueCases, EnqueuePosts
<1>2. CASE \E m \in Msg : submitDelivered(m) \/ submitTimeout(m)
  BY <1>2, SubmitAnswers
<1>3. CASE \E s \in Session : poll(s) \/ pollLost(s)
  BY <1>3, PollTakes DEF poll, pollLost
<1>4. CASE \E s \in Session, m \in Msg : pushResolved(s, m)
  BY <1>4, PushReceives
<1>5. CASE brokerRestart
  <2>1. state' = state /\ taken' = taken /\ got' = got
    BY <1>5 DEF brokerRestart, state, taken, got
  <2> QED  BY <1>5, <2>1 DEF brokerRestart, Mail!MNext, Mail!CutOff, state, taken, got
<1>6. CASE \E m \in Msg : handleDeliveryFailed(m)
  <2> PICK m \in Msg : handleDeliveryFailed(m)
    BY <1>6
  <2>1. Taken(m)
    BY DEF handleDeliveryFailed, DeliveryInv, MsgInv, Untaken, InTransit
  <2>2. \A n \in Msg : /\ rows'[n].cancelled = rows[n].cancelled
                       /\ Taken(n)' = Taken(n)
    BY <1>0, <2>1 DEF handleDeliveryFailed, Taken, PendingRow
  <2> QED  BY <1>0, <2>2, MailboxStutter DEF handleDeliveryFailed
<1>7. CASE resweepUnackedMessages
  <2>1. \A n \in Msg : /\ rows'[n].cancelled = rows[n].cancelled
                       /\ Taken(n)' = Taken(n)
    <3> SUFFICES ASSUME NEW n \in Msg
                 PROVE  /\ rows'[n].cancelled = rows[n].cancelled
                        /\ Taken(n)' = Taken(n)
      OBVIOUS
    <3>1. CASE ResweepDue(n)
      BY <1>0, <1>7, <3>1 DEF resweepUnackedMessages, ResweepDue, Taken, PendingRow
    <3>2. CASE ~ResweepDue(n)
      BY <1>7, <3>2 DEF resweepUnackedMessages, Taken
    <3> QED  BY <3>1, <3>2
  <2> QED  BY <1>0, <1>7, <2>1, MailboxStutter DEF resweepUnackedMessages
<1>8. ASSUME UNCHANGED <<queued, wait, pushes>>,
             \A n \in Msg : /\ rows'[n].cancelled = rows[n].cancelled
                            /\ rows'[n].delivered = rows[n].delivered
                            /\ rows'[n].requeued = rows[n].requeued
      PROVE  UNCHANGED Mail!mvars
  BY <1>0, <1>8, MailboxStutter DEF Taken
<1>9. CASE \E s \in Session, m \in Msg : pushThrew(s, m)
  BY <1>8, <1>9 DEF pushThrew
<1>10. CASE \E m \in Msg : handleMessageAcked(m)
  BY <1>0, <1>8, <1>10 DEF handleMessageAcked, PendingRow
<1>11. CASE \E call \in calls : callLost(call)
  BY <1>8, <1>11 DEF callLost
<1>12. CASE purgeOldDeliveredMessages
  BY <1>0, <1>8, <1>12 DEF purgeOldDeliveredMessages, PendingRow
<1>13. CASE \E m \in Msg : passGrace(m) \/ passRetention(m)
  BY <1>0, <1>8, <1>13 DEF passGrace, passRetention, PendingRow
<1>14. ASSUME NEW s \in Session, NEW M \in SUBSET Msg, Rehome(s, M),
              UNCHANGED <<queued, wait, batch, calls, pushes, items>>
       PROVE  UNCHANGED Mail!mvars
  BY <1>0, <1>8, <1>14 DEF Rehome, PendingRow
<1>15. CASE \E s \in Session : \/ attach(s) \/ \E c \in CC : attachByTool(s, c)
                               \/ \E b \in Board : attachToBoard(s, b)
  BY <1>14, <1>15 DEF attach, attachByTool, attachToBoard, reclaimMessages
<1>16. CASE \E s \in Session : stop(s)
  BY <1>8, <1>16 DEF stop
<1>17. CASE UNCHANGED dvars
  BY <1>8, <1>17 DEF dvars
<1> QED
  BY <1>1, <1>2, <1>3, <1>4, <1>5, <1>6, <1>7, <1>9, <1>10, <1>11, <1>12,
     <1>13, <1>15, <1>16, <1>17 DEF DNext, registryOnly, sweepSessions, vars

\* Every behaviour of the pipeline is one of the mailbox: a message is received
\* only if it was taken, a withdrawn one is never taken, and the answer to its
\* poster agrees with what became of it.
THEOREM PipelineIsMailbox == DSpec => ImplementsMailbox
<1> QED  BY InitMailbox, NextMailbox, DeliveryInvHolds, PTL
         DEF DSpec, ImplementsMailbox, Mail!MSpec
=============================================================================
