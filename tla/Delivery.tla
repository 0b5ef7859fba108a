------------------------------- MODULE Delivery -------------------------------
(***************************************************************************)
(* The delivery of messages to Claude Code: the pending_messages table and *)
(* its handlers (broker/threads.ts, broker/external-notify.ts, statements  *)
(* in broker/db.ts), the blocking submission handler, the poller of every  *)
(* MCP server process (server/poll.ts) and the background sweeps, over the *)
(* session registry of module Sessions, whose actions it composes.         *)
(*                                                                         *)
(* Broker handlers are synchronous, hence atomic, except                   *)
(* handleSubmitAnswer, which awaits between looks at its row.  The poller  *)
(* is asynchronous throughout, and the calls it makes without waiting      *)
(* (/message-acked, /delivery-failed) may be delayed, reordered or lost.   *)
(***************************************************************************)
EXTENDS Sessions

CONSTANTS
  MaxMsg,   \* how many messages are ever queued
  MaxAge,   \* how old a row is ever allowed to grow, see PendingRow
  Kinds     \* the kinds of message that are queued

(***************************************************************************)
(* user_input_relay, map_chat: a reply on a node of a board or of a map; the *)
(*   poll handler puts it in the node's thread.                            *)
(* diagram_chat, board_structure_request: the submitting handler itself    *)
(*   posts it, once it sees the row delivered; the log node that shows a   *)
(*   structure request does not exist on a default board.                  *)
(* external_notify: posted to the thread when it is queued; nobody waits.  *)
(* note: a reminder the broker queues (checklist_settled, issue_created,   *)
(*   ...): no thread item, nobody waits, no reachability gate.             *)
(***************************************************************************)
Replies == {"user_input_relay", "map_chat"}
Submitted == Replies \cup {"diagram_chat", "board_structure_request"}
Kind == Submitted \cup {"external_notify", "note"}

ASSUME MaxMsgAssumption == MaxMsg \in Nat
ASSUME MaxAgeAssumption == MaxAge \in 0 .. 2
ASSUME KindsAssumption == Kinds \subseteq Kind
ASSUME BoardAssumption == Board # {}

Msg == 1 .. MaxMsg   \* pending_messages.id, in order of created_at

VARIABLES
  rows,     \* the pending_messages table
  queued,   \* how many rows were ever inserted
  wait,     \* the blocking submission call of each row
  batch,    \* rows a poller drained and has not pushed yet
  calls,    \* fire-and-forget calls on their way to the broker
  pushes,   \* how often the row's channel notification resolved (2: or more)
  items     \* how many thread_items carry the message (2: or more)

dvars == <<rows, queued, wait, batch, calls, pushes, items>>
vars == <<svars, dvars>>

(***************************************************************************)
(* item: thread_item_id is set.  pushed: pushed_at is set.  age: how old   *)
(* created_at is: 0 within the resweep grace (60 s), 1 past it, 2 past the *)
(* retention of the purge (7 days).                                        *)
(***************************************************************************)
PendingRow ==
  [used : BOOLEAN, sid : Session \cup {NoSession}, board : Board, kind : Kind,
   delivered : BOOLEAN, cancelled : BOOLEAN, requeued : BOOLEAN,
   item : BOOLEAN, pushed : BOOLEAN, age : 0 .. 2]

WaitState == {"none", "waiting", "ok", "timeout", "broken"}

DTypeOK ==
  /\ TypeOK
  /\ rows \in [Msg -> PendingRow]
  /\ queued \in 0 .. MaxMsg
  /\ wait \in [Msg -> WaitState]
  /\ batch \in [Session -> SUBSET Msg]
  /\ calls \subseteq ({"acked", "failed"} \X Msg)
  /\ pushes \in [Msg -> 0 .. 2]
  /\ items \in [Msg -> 0 .. 2]

NewRow(s, b, k) ==
  [used |-> TRUE, sid |-> s, board |-> b, kind |-> k, delivered |-> FALSE,
   cancelled |-> FALSE, requeued |-> FALSE, item |-> k = "external_notify",
   pushed |-> FALSE, age |-> 0]

DInit ==
  /\ Init
  /\ rows = [m \in Msg |->
               [NewRow(NoSession, CHOOSE b \in Board : TRUE, "note")
                  EXCEPT !.used = FALSE]]
  /\ queued = 0
  /\ wait = [m \in Msg |-> "none"]
  /\ batch = [s \in Session |-> {}]
  /\ calls = {}
  /\ pushes = [m \in Msg |-> 0]
  /\ items = [m \in Msg |-> 0]

-----------------------------------------------------------------------------
(* Derived notions *)

Bump(n) == IF n < 2 THEN n + 1 ELSE 2

\* In a poller's hands, or reported on but the report not yet handled.
InTransit(m) ==
  \/ \E s \in Session : m \in batch[s]
  \/ \E v \in {"acked", "failed"} : <<v, m>> \in calls

\* (Mutation: withdrawn rows are drained too.)
SelectedWithCancelled(s) == {m \in Msg : /\ rows[m].used
                                        /\ rows[m].sid = s
                                        /\ ~rows[m].delivered}

\* selectPending
Selected(s) == {m \in Msg : /\ rows[m].used
                            /\ rows[m].sid = s
                            /\ ~rows[m].delivered
                            /\ ~rows[m].cancelled}

\* The session has had a push acknowledged, on some row it still holds.
HasAcked(s) == \E m \in Msg : rows[m].used /\ rows[m].sid = s /\ rows[m].pushed

\* (Mutation: a row is re-queued once and then given up.)
ResweepDueOnce(m) == /\ rows[m].used
                     /\ rows[m].delivered
                     /\ ~rows[m].pushed
                     /\ ~rows[m].cancelled
                     /\ ~rows[m].requeued
                     /\ rows[m].age >= 1
                     /\ HasAcked(rows[m].sid)

\* resweepUnackedStmt's WHERE clause.
ResweepDue(m) == /\ rows[m].used
                 /\ rows[m].delivered
                 /\ ~rows[m].pushed
                 /\ ~rows[m].cancelled
                 /\ rows[m].age >= 1
                 /\ HasAcked(rows[m].sid)

-----------------------------------------------------------------------------
(* Queueing *)

\* A row for whoever owns the board (the map, the diagram); w says whether a
\* handler goes on waiting for it, n how many thread items carry it already.
insertPending(b, k, w, n) ==
  /\ queued < MaxMsg
  /\ k \in Kinds
  /\ owner[b] # NoSession
  /\ queued' = queued + 1
  /\ rows' = [rows EXCEPT ![queued'] = NewRow(owner[b], b, k)]
  /\ wait' = [wait EXCEPT ![queued'] = w]
  /\ items' = [items EXCEPT ![queued'] = n]
  /\ UNCHANGED <<svars, batch, calls, pushes>>

\* The submission handlers up to their first await.
handleSubmitAnswer(b) ==
  /\ Reachable(owner[b])
  /\ \E k \in {"user_input_relay", "board_structure_request"} :
       insertPending(b, k, "waiting", 0)

handleMapChat(b) ==
  Reachable(owner[b]) /\ insertPending(b, "map_chat", "waiting", 0)

handleDiagramChat(b) ==
  Reachable(owner[b]) /\ insertPending(b, "diagram_chat", "waiting", 0)

handleNotifySession(b) ==
  Reachable(owner[b]) /\ insertPending(b, "external_notify", "none", 1)

\* What onBoardSettled, onNodeSettled and the issue tracker queue for the owner.
remind(b) == insertPending(b, "note", "none", 0)

enqueue(b) ==
  \/ handleSubmitAnswer(b)
  \/ handleMapChat(b)
  \/ handleDiagramChat(b)
  \/ handleNotifySession(b)
  \/ remind(b)

\* A structure request for a default board finds no log node to be shown on.
Unshown(m) == rows[m].kind = "board_structure_request" /\ rows[m].board \in dflt

\* The waiting handler looks at its row and finds it delivered: it posts the
\* message unless the poll handler did.
submitDelivered(m) ==
  /\ wait[m] = "waiting"
  /\ rows[m].used /\ rows[m].delivered
  /\ wait' = [wait EXCEPT ![m] = "ok"]
  /\ items' = [items EXCEPT ![m] = IF rows[m].item \/ Unshown(m) THEN @
                                         ELSE Bump(@)]
  /\ UNCHANGED <<svars, rows, queued, batch, calls, pushes>>

\* The deadline passed.  The row is not looked at again: the UPDATE's WHERE
\* clause alone decides whether it is withdrawn, the answer is timeout anyway.
submitTimeout(m) ==
  /\ wait[m] = "waiting"
  /\ wait' = [wait EXCEPT ![m] = "timeout"]
  /\ rows' = IF ~rows[m].delivered /\ ~rows[m].requeued
               THEN [rows EXCEPT ![m].cancelled = TRUE]
               ELSE rows
  /\ UNCHANGED <<svars, queued, batch, calls, pushes, items>>

-----------------------------------------------------------------------------
(* The poller *)

\* (Mutation: a re-drained row is posted again.)
PostsAgain(m) == rows[m].kind \in Replies

\* Replies are put in their thread at the first drain.
Posts(m) == rows[m].kind \in Replies /\ ~rows[m].item

\* Drains the queue of one session: rows are marked delivered here, before
\* anything reaches Claude Code.
handlePollMessages(s) ==
  /\ proc[s].phase = "serving"
  /\ batch[s] = {}                      \* pollInFlight
  /\ Selected(s) # {}
  /\ rows' = [m \in Msg |->
                IF m \in Selected(s)
                  THEN [rows[m] EXCEPT !.delivered = TRUE,
                                       !.item = @ \/ Posts(m)]
                  ELSE rows[m]]
  /\ items' = [m \in Msg |->
                 IF m \in Selected(s) /\ Posts(m) THEN Bump(items[m])
                                                  ELSE items[m]]
  /\ UNCHANGED <<svars, queued, wait, calls, pushes>>

poll(s) ==
  /\ handlePollMessages(s)
  /\ batch' = [batch EXCEPT ![s] = Selected(s)]

\* The broker drained the rows but the answer never arrived: the fetch timed
\* out, the connection broke or the broker died.
pollLost(s) == handlePollMessages(s) /\ UNCHANGED batch

\* Messages are pushed one after the other, oldest first.
NextOf(s, m) == m \in batch[s] /\ \A n \in batch[s] : m <= n

pushResolved(s, m) ==
  /\ NextOf(s, m)
  /\ batch' = [batch EXCEPT ![s] = @ \ {m}]
  /\ pushes' = [pushes EXCEPT ![m] = Bump(@)]
  /\ calls' = calls \cup {<<"acked", m>>}
  /\ UNCHANGED <<svars, rows, queued, wait, items>>

pushThrew(s, m) ==
  /\ NextOf(s, m)
  /\ batch' = [batch EXCEPT ![s] = @ \ {m}]
  /\ calls' = calls \cup {<<"failed", m>>}
  /\ UNCHANGED <<svars, rows, queued, wait, pushes, items>>

handleMessageAcked(m) ==
  /\ <<"acked", m>> \in calls
  /\ calls' = calls \ {<<"acked", m>>}
  /\ rows' = IF rows[m].used THEN [rows EXCEPT ![m].pushed = TRUE] ELSE rows
  /\ UNCHANGED <<svars, queued, wait, batch, pushes, items>>

handleDeliveryFailed(m) ==
  /\ <<"failed", m>> \in calls
  /\ calls' = calls \ {<<"failed", m>>}
  /\ rows' = IF rows[m].used /\ ~rows[m].cancelled
               THEN [rows EXCEPT ![m] = [@ EXCEPT !.delivered = FALSE,
                                                  !.requeued = TRUE]]
               ELSE rows
  /\ UNCHANGED <<svars, queued, wait, batch, pushes, items>>

\* A fire-and-forget call fails; its caller swallows the error.
callLost(call) ==
  /\ call \in calls
  /\ calls' = calls \ {call}
  /\ UNCHANGED <<svars, rows, queued, wait, batch, pushes, items>>

-----------------------------------------------------------------------------
(* Background sweeps, restart, time *)

resweepUnackedMessages ==
  /\ \E m \in Msg : ResweepDue(m)
  /\ rows' = [m \in Msg |->
                IF ResweepDue(m)
                  THEN [rows[m] EXCEPT !.delivered = FALSE, !.requeued = TRUE]
                  ELSE rows[m]]
  /\ UNCHANGED <<svars, queued, wait, batch, calls, pushes, items>>

Finished(m) == /\ rows[m].used
               /\ rows[m].age = 2
               /\ rows[m].delivered \/ rows[m].cancelled

purgeOldDeliveredMessages ==
  /\ \E m \in Msg : Finished(m)
  /\ rows' = [m \in Msg |->
                IF Finished(m) THEN [rows[m] EXCEPT !.used = FALSE]
                               ELSE rows[m]]
  /\ UNCHANGED <<svars, queued, wait, batch, calls, pushes, items>>

\* The broker process is replaced: the table survives, the submission calls
\* blocked in it and the calls on their way to it do not.
brokerRestart ==
  /\ calls # {} \/ \E m \in Msg : wait[m] = "waiting"
  /\ wait' = [m \in Msg |-> IF wait[m] = "waiting" THEN "broken" ELSE wait[m]]
  /\ calls' = {}
  /\ UNCHANGED <<svars, rows, queued, batch, pushes, items>>

\* Time passes the grace of a row.  The submission deadline (8 s) is shorter
\* than the grace (60 s), and a push and its report are taken to be: what
\* a sweep does to a push that is slower than that is the sweep's intention.
passGrace(m) ==
  /\ rows[m].used /\ rows[m].age = 0 /\ MaxAge >= 1
  /\ wait[m] # "waiting"
  /\ ~InTransit(m)
  /\ rows' = [rows EXCEPT ![m].age = 1]
  /\ UNCHANGED <<svars, queued, wait, batch, calls, pushes, items>>

\* Seven days pass: whatever a serving poller (1 s) or the resweep (20 s) has
\* to do for the row has been done.
passRetention(m) ==
  /\ rows[m].used /\ rows[m].age = 1 /\ MaxAge = 2
  /\ ~InTransit(m)
  /\ ~ResweepDue(m)
  /\ \A s \in Session : m \in Selected(s) => proc[s].phase # "serving"
  /\ rows' = [rows EXCEPT ![m].age = 2]
  /\ UNCHANGED <<svars, queued, wait, batch, calls, pushes, items>>

-----------------------------------------------------------------------------
(* The registry's actions and what they do to the queue *)

\* (Mutation: rows that were drained are taken along and queued again.)
RehomeAll(s, M) ==
  rows' = [m \in Msg |->
             IF m \in M /\ rows[m].used
               THEN [rows[m] EXCEPT !.sid = s, !.delivered = FALSE]
               ELSE rows[m]]

\* UPDATE pending_messages SET session_id = s WHERE delivered = 0, within M
Rehome(s, M) ==
  rows' = [m \in Msg |->
             IF m \in M /\ rows[m].used /\ ~rows[m].delivered
               THEN [rows[m] EXCEPT !.sid = s]
               ELSE rows[m]]

reclaimMessages(s, c) ==
  /\ Rehome(s, {m \in Msg : rows[m].sid \in Reclaimed(s, c)})
  /\ UNCHANGED <<queued, wait, batch, calls, pushes, items>>

attach(s) ==
  /\ tryAutoAttach(s) \/ selfHealAttachOnce(s)
  /\ reclaimMessages(s, proc[s].client)

attachByTool(s, c) == attachTool(s, c) /\ reclaimMessages(s, c)

attachToBoard(s, b) ==
  /\ handleAttachToBoard(s, b)
  /\ Rehome(s, {m \in Msg : rows[m].board = b})
  /\ UNCHANGED <<queued, wait, batch, calls, pushes, items>>

\* The batch a poller holds dies with its process.
stop(s) ==
  /\ cleanup(s) \/ Crash(s)
  /\ batch' = [batch EXCEPT ![s] = {}]
  /\ UNCHANGED <<rows, queued, wait, calls, pushes, items>>

registryOnly(s) ==
  /\ \/ \E c \in CC, d \in Cwd, remote \in BOOLEAN : handleRegister(s, c, d, remote)
     \/ handleHeartbeat(s)
     \/ startUnbound(s)
     \/ Unlink(s)
     \/ \E b \in Board : handleCreateBoard(s, b)
  /\ UNCHANGED dvars

sweepSessions(S) == cleanStaleSessions(S) /\ UNCHANGED dvars

DNext ==
  \/ \E b \in Board : enqueue(b)
  \/ \E m \in Msg : submitDelivered(m)
  \/ \E m \in Msg : submitTimeout(m)
  \/ \E s \in Session : poll(s)
  \/ \E s \in Session : pollLost(s)
  \/ \E s \in Session, m \in Msg : pushResolved(s, m)
  \/ \E s \in Session, m \in Msg : pushThrew(s, m)
  \/ \E m \in Msg : handleMessageAcked(m)
  \/ \E m \in Msg : handleDeliveryFailed(m)
  \/ \E call \in calls : callLost(call)
  \/ resweepUnackedMessages
  \/ purgeOldDeliveredMessages
  \/ brokerRestart
  \/ \E m \in Msg : passGrace(m)
  \/ \E m \in Msg : passRetention(m)
  \/ \E s \in Session : attach(s)
  \/ \E s \in Session, c \in CC : attachByTool(s, c)
  \/ \E s \in Session, b \in Board : attachToBoard(s, b)
  \/ \E s \in Session : stop(s)
  \/ \E s \in Session : registryOnly(s)
  \/ \E S \in SUBSET Session : sweepSessions(S)

DSpec == DInit /\ [][DNext]_vars

\* The interval timers of the broker and of every serving process fire again
\* and again, a submission loop reaches its deadline, and time passes.  Polls
\* and pushes may fail any number of times, but not always.
DFairness ==
  /\ WF_vars(resweepUnackedMessages)
  /\ \A m \in Msg :
       /\ WF_vars(submitDelivered(m) \/ submitTimeout(m))
       /\ WF_vars(passGrace(m))
       /\ WF_vars(\E call \in calls : /\ call[2] = m
                                      /\ \/ handleMessageAcked(m)
                                         \/ handleDeliveryFailed(m)
                                         \/ callLost(call))
  /\ \A s \in Session : SF_vars(poll(s))
  /\ \A s \in Session, m \in Msg : SF_vars(pushResolved(s, m))

FairDSpec == DSpec /\ DFairness

-----------------------------------------------------------------------------
(* Properties *)

\* A submission withdrawn at its deadline never reaches Claude Code and never
\* shows in a thread, whatever polls, failed pushes, re-queues and restarts
\* surround the deadline: the user, told it failed, can safely send it again.
WithdrawnNeverDelivered ==
  \A m \in Msg : rows[m].cancelled =>
    /\ ~rows[m].delivered /\ ~rows[m].requeued
    /\ \A s \in Session : m \notin batch[s]
    /\ pushes[m] = 0
    /\ items[m] = 0

\* The converse: a submission answered with a timeout is either withdrawn or
\* was handed to a poller already; no later poll drains it for a first time.
TimeoutIsFinal ==
  \A m \in Msg : wait[m] = "timeout" =>
    rows[m].cancelled \/ rows[m].delivered \/ rows[m].requeued

\* However often a message is drained, re-queued and drained again, its thread
\* shows it at most once, and what a poller may push (a reply, a notice) it
\* shows already, so that the push can name the thread item.
PostedOnce ==
  \A m \in Msg :
    /\ items[m] <= 1
    /\ (/\ rows[m].kind \in Replies \cup {"external_notify"}
        /\ rows[m].delivered \/ rows[m].requeued) => items[m] = 1

\* "ok" is only ever answered for a message a poller drained, and its thread
\* then shows it, if there is one.
OkWasDrained ==
  \A m \in Msg : wait[m] = "ok" =>
    /\ rows[m].delivered \/ rows[m].requeued
    /\ items[m] = 1 \/ Unshown(m)

\* Until the grace of the resweep is over, no two pollers hold the same message
\* and it is pushed at most once, even when its session is replaced meanwhile:
\* re-delivery is only ever an answer to a push that failed or is overdue.
FreshPushedOnce ==
  \A m \in Msg : rows[m].age = 0 =>
    /\ pushes[m] <= 1
    /\ \A r, s \in Session : m \in batch[r] /\ m \in batch[s] => r = s
    /\ (\E s \in Session : m \in batch[s]) => pushes[m] = 0

\* A message queued for session s that never got a push through.
Unpushed(m) == rows[m].used /\ ~rows[m].cancelled /\ pushes[m] = 0

\* No message stays unpushed for ever while the session it is queued for keeps
\* serving and has shown that it acknowledges: lost poll answers, pushes that
\* throw and lost reports are all repaired by a later poll.
EventuallyPushed ==
  \A m \in Msg : []<>~(/\ Unpushed(m)
                       /\ \E s \in Session : /\ rows[m].sid = s
                                             /\ proc[s].phase = "serving"
                                             /\ HasAcked(s))

\* The same when the session that drained the message was able to acknowledge
\* and died: the session that owns the message's board now gets it ("gets
\* re-delivered on the next poll", threads.ts).
EventuallyPushedToOwner ==
  \A m \in Msg : []<>~(/\ Unpushed(m)
                       /\ HasAcked(rows[m].sid)
                       /\ \E s \in Session : /\ owner[rows[m].board] = s
                                             /\ proc[s].phase = "serving")

\* The pipeline is a mailbox: taken is "drained at least once", which survives
\* re-queueing; received is "a push resolved".
Mail ==
  INSTANCE Mailbox WITH
    state <- [m \in Msg |-> IF m > queued THEN "new"
                            ELSE IF rows[m].cancelled THEN "withdrawn"
                            ELSE "open"],
    taken <- [m \in Msg |-> rows[m].delivered \/ rows[m].requeued],
    got <- [m \in Msg |-> pushes[m] > 0],
    verdict <- wait

\* Every behaviour of the pipeline is one of the mailbox.
ImplementsMailbox == Mail!MSpec
=============================================================================
