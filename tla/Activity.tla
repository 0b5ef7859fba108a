-------------------------------- MODULE Activity --------------------------------
(***************************************************************************)
(* What the broker believes one Claude Code is doing (broker/activity.ts): *)
(* the working / blocked badge, the stall and compacting flags, and the    *)
(* timers that resume a session that stopped on an API error.              *)
(*                                                                         *)
(* All of it is hearsay.  Claude Code runs a hook script at every event and *)
(* waits for it; the script posts to the broker and gives up after its     *)
(* attempts (scripts/hook-io.ts).  Pushes fire no hook, but the poller     *)
(* reports when one resolved, without waiting for an answer.               *)
(***************************************************************************)
EXTENDS Naturals, FiniteSets

CONSTANTS
  Message,    \* what may wait for a push
  Continue,   \* the message of the auto-continue
  MaxStreak,  \* MAX_AUTO_CONTINUE_STREAK
  Env         \* which faults are explored, see EnvKind

(***************************************************************************)
(* "loss":      an attempt of a hook, or its answer, is lost.              *)
(* "restart":   the broker is restarted.                                   *)
(* "offline":   the sweep takes the session for dead for a while.          *)
(* "interrupt": the user breaks a turn off, which fires no hook.           *)
(* "timeout":   a submission is withdrawn because nobody polled.           *)
(***************************************************************************)
EnvKind == {"loss", "restart", "offline", "interrupt", "timeout"}

ASSUME ActivityEnvAssumption == Env \subseteq EnvKind
ASSUME ContinueAssumption == Continue \in Message
ASSUME MaxStreakAssumption == MaxStreak \in Nat \ {0}

VARIABLES
  cc,      \* what Claude Code is really doing
  posts,   \* the hook posts of its last event that are not answered yet
  alive,   \* the session row is alive
  row,     \* stalled_at and compacting_at of the row
  act,     \* the entry of the map activities
  timers,  \* the pending auto-continue timers
  memo,    \* autoContinueStreak, and whether a notice was posted
  inbox,   \* the submitted messages that are not pushed yet
  acks,    \* the /channel-pushed calls on their way
  missed,  \* history: the badges the broker may be wrong about
  sent     \* history: continues since the last stall report, nudges since the
           \* last sign of life or start of the broker

avars == <<cc, posts, alive, row, act, timers, memo, inbox, acks, missed, sent>>

\* "pausing" is a compaction with a turn to go on with, "compacting" one without.
Compactions == {"compacting", "pausing"}
ClaudeState == {"idle", "busy", "asking", "stopped"} \cup Compactions

Post == {"heartbeat", "blocked", "unblocked", "stop", "stalled", "compacting",
         "compacted"}

Badge == {"blocked", "stalled", "compacting", "working"}

\* An acknowledgement "covers" a stall that is older than its push.
Ack == {"covers", "stale"}

ATypeOK ==
  /\ cc \in ClaudeState
  /\ posts \subseteq [post : Post, tries : 1..2]
  /\ alive \in BOOLEAN
  /\ row \in [stalled : BOOLEAN, compacting : BOOLEAN]
  /\ act \in {"none", "working", "blocked"}
  /\ timers \in [nudge : 0..2, resume : 0..2]
  /\ memo \in [streak : 0..MaxStreak, noticed : BOOLEAN]
  /\ inbox \subseteq Message
  /\ acks \subseteq Ack
  /\ missed \subseteq Badge
  /\ sent \in [continues : 0..2, nudges : 0..(MaxStreak + 1)]

Forgotten == [streak |-> 0, noticed |-> FALSE]
NoTimer == [nudge |-> 0, resume |-> 0]

AInit ==
  /\ cc = "idle" /\ posts = {} /\ alive = TRUE
  /\ row = [stalled |-> FALSE, compacting |-> FALSE]
  /\ act = "none" /\ timers = NoTimer /\ memo = Forgotten
  /\ inbox = {} /\ acks = {} /\ missed = {}
  /\ sent = [continues |-> 0, nudges |-> 0]

-----------------------------------------------------------------------------
(* The handlers of broker/activity.ts, on the state they change *)

\* ONCE_PER_TURN_POST tries twice, perToolCallPost once.
Tries(post) == IF post \in {"heartbeat", "blocked"} THEN 1 ELSE 2

Posts(S) == {[post |-> p, tries |-> Tries(p)] : p \in S}

\* The badges a post is about.
Settles(post) ==
  CASE post = "heartbeat"  -> {"stalled", "compacting"}
    [] post = "blocked"    -> {"blocked"}
    [] post = "unblocked"  -> {}
    [] post = "stop"       -> {"stalled", "compacting", "working"}
    [] post = "stalled"    -> {"stalled", "working"}
    [] post = "compacting" -> {"compacting", "working"}
    [] post = "compacted"  -> {"compacting"}

WorkingCleared == IF act = "working" THEN "none" ELSE act

\* (Mutation: the tool heartbeat overwrites any state.)
MarkedAlways == "working"

\* An explicit state is never overwritten by a sign of work.
MarkedWorking == IF act = "blocked" THEN act ELSE "working"

\* (Mutation: the timer that is pending already is left running.)
ScheduledAgain(t) == [t EXCEPT !.nudge = IF @ = 2 THEN 2 ELSE @ + 1]

\* Any timer that is pending is cleared first.
scheduleAutoContinue(t) == [nudge |-> 1, resume |-> 0]

\* Genuine life: the flag, the timer, the streak and the notices go, but only
\* if the flag was set.
clearStall ==
  IF row.stalled THEN timers' = NoTimer /\ memo' = Forgotten
                 ELSE UNCHANGED <<timers, memo>>

\* What the sign of life means, whatever the broker makes of it.
Life == sent' = [continues |-> 0, nudges |-> 0]

Cleared == [stalled |-> FALSE, compacting |-> FALSE]

handleHeartbeatTool ==
  /\ clearStall /\ row' = Cleared /\ Life
  /\ act' = MarkedWorking
  /\ UNCHANGED acks

handleClearToolActivity ==
  /\ clearStall /\ row' = Cleared /\ Life
  /\ act' = WorkingCleared
  /\ UNCHANGED acks

\* The new stall is younger than every push reported so far.
handleSessionStalled ==
  /\ row' = [row EXCEPT !.stalled = TRUE]
  /\ acks' = IF acks = {} THEN {} ELSE {"stale"}
  /\ act' = WorkingCleared
  /\ timers' = scheduleAutoContinue(timers)
  /\ sent' = [sent EXCEPT !.continues = 0]
  /\ UNCHANGED memo

handleSessionCompacting ==
  /\ row' = [row EXCEPT !.compacting = TRUE]
  /\ act' = WorkingCleared
  /\ UNCHANGED <<acks, timers, memo, sent>>

handleSessionCompactingDone ==
  /\ row' = [row EXCEPT !.compacting = FALSE]
  /\ UNCHANGED <<acks, act, timers, memo, sent>>

handleBlockedOnUserStart ==
  /\ act' = "blocked"
  /\ UNCHANGED <<row, acks, timers, memo, sent>>

handleBlockedOnUserClear ==
  /\ act' = IF act = "blocked" THEN "none" ELSE act
  /\ UNCHANGED <<row, acks, timers, memo, sent>>

Handler(post) ==
  CASE post = "heartbeat"  -> handleHeartbeatTool
    [] post = "stop"       -> handleClearToolActivity
    [] post = "stalled"    -> handleSessionStalled
    [] post = "compacting" -> handleSessionCompacting
    [] post = "compacted"  -> handleSessionCompactingDone
    [] post = "blocked"    -> handleBlockedOnUserStart
    [] post = "unblocked"  -> handleBlockedOnUserClear

-----------------------------------------------------------------------------
(* The posts of the hooks on their way (scripts/hook-io.ts) *)

\* The handler runs and its answer arrives, or the row is not alive: the
\* handler does nothing, and its answer ends the attempts all the same.
hookAnswered(p) ==
  /\ posts' = posts \ {p}
  /\ IF alive
       THEN Handler(p.post) /\ missed' = missed \ Settles(p.post)
       ELSE /\ missed' = missed \cup Settles(p.post)
            /\ UNCHANGED <<row, act, timers, memo, acks, sent>>
  /\ UNCHANGED <<cc, alive, inbox>>

Retried(p) ==
  (posts \ {p}) \cup
    IF p.tries > 1 THEN {[p EXCEPT !.tries = 1]} ELSE {}

\* The attempt is given up and tried again; it was handled nevertheless.
hookUnanswered(p) ==
  /\ "loss" \in Env
  /\ alive
  /\ posts' = Retried(p)
  /\ Handler(p.post) /\ missed' = missed \ Settles(p.post)
  /\ UNCHANGED <<cc, alive, inbox>>

\* The attempt never reaches the broker.
hookLost(p) ==
  /\ "loss" \in Env
  /\ posts' = Retried(p)
  /\ missed' = IF p.tries > 1 THEN missed ELSE missed \cup Settles(p.post)
  /\ UNCHANGED <<cc, alive, row, act, timers, memo, inbox, acks, sent>>

-----------------------------------------------------------------------------
(* Claude Code: its events and the hooks they run (hooks/hooks.json).  It waits *)
(* for the hooks of one event before it goes on.                           *)

Event(from, to, S) ==
  /\ cc \in from /\ posts = {}
  /\ cc' = to /\ posts' = Posts(S)
  /\ UNCHANGED <<alive, row, act, timers, memo, inbox, acks, missed, sent>>

\* (UserPromptSubmit posts the same heartbeat as a tool call.)
prompt == Event({"idle", "stopped"}, "busy", {"heartbeat"})
toolCall == Event({"busy"}, "busy", {"heartbeat"})
\* The two PreToolUse hooks of a question run side by side, in any order.
ask == Event({"busy"}, "asking", {"heartbeat", "blocked"})
answered == Event({"asking"}, "busy", {"unblocked"})
finish == Event({"busy"}, "idle", {"stop"})
apiError == Event({"busy"}, "stopped", {"stalled"})
compactIdle == Event({"idle"}, "compacting", {"compacting"})
compactBusy == Event({"busy"}, "pausing", {"compacting"})
compactedIdle == Event({"compacting"}, "idle", {"compacted"})
compactedBusy == Event({"pausing"}, "busy", {"compacted"})

interrupted ==
  /\ "interrupt" \in Env
  /\ cc \in {"busy", "asking"} /\ posts = {}
  /\ cc' = "idle"
  /\ missed' = missed \cup {"working"}
  /\ UNCHANGED <<posts, alive, row, act, timers, memo, inbox, acks, sent>>

-----------------------------------------------------------------------------
(* Messages (broker/threads.ts, server/poll.ts) *)

\* An owner that is not alive refuses the message.
Submit(m) ==
  IF alive THEN inbox' = inbox \cup {m} /\ act' = MarkedWorking
           ELSE UNCHANGED <<inbox, act>>

handleSubmitAnswer(m) ==
  /\ m \in Message \ (inbox \cup {Continue})
  /\ Submit(m)
  /\ UNCHANGED <<cc, posts, alive, row, timers, memo, acks, missed, sent>>

\* The deadline: the message is withdrawn, the badge stays.
submitTimeout(m) ==
  /\ "timeout" \in Env
  /\ m \in inbox
  /\ inbox' = inbox \ {m}
  /\ missed' = missed \cup {"working"}
  /\ UNCHANGED <<cc, posts, alive, row, act, timers, memo, acks, sent>>

\* The poller pushes m, which wakes Claude Code up, and reports it.
pushed(m) ==
  /\ m \in inbox
  /\ inbox' = inbox \ {m}
  /\ cc' = CASE cc \in {"idle", "stopped"} -> "busy"
             [] cc = "compacting" -> "pausing"
             [] OTHER -> cc
  /\ acks' = acks \cup {IF row.stalled THEN "covers" ELSE "stale"}
  /\ UNCHANGED <<posts, alive, row, act, timers, memo, missed, sent>>

\* (Mutation: the times are not compared.)
ClearsAny(a) == row.stalled

ClearsStall(a) == row.stalled /\ a = "covers"

\* Flag and timer go, the streak stays: that the message was delivered is no
\* proof of work.
clearStallBefore(a) ==
  /\ row' = [row EXCEPT !.stalled = FALSE]
  /\ timers' = NoTimer
  /\ UNCHANGED memo

handleChannelPushed(a) ==
  /\ acks' = acks \ {a}
  /\ IF ClearsStall(a) THEN clearStallBefore(a)
                       ELSE UNCHANGED <<row, timers, memo>>
  /\ UNCHANGED <<cc, posts, alive, act, inbox, missed, sent>>

ackLost(a) ==
  /\ acks' = acks \ {a}
  /\ UNCHANGED <<cc, posts, alive, row, act, timers, memo, inbox, missed, sent>>

\* Another MCP server of this Claude Code was sent a message.
handleHeartbeatCcPid ==
  /\ alive
  /\ cc \in {"idle", "stopped"}
  /\ cc' = "busy" /\ act' = MarkedWorking
  /\ UNCHANGED <<posts, alive, row, timers, memo, inbox, acks, missed, sent>>

\* The user dismisses the badge.
handleClearWorkingActivity ==
  /\ act = "working"
  /\ act' = "none"
  /\ UNCHANGED <<cc, posts, alive, row, timers, memo, inbox, acks, missed, sent>>

-----------------------------------------------------------------------------
(* The timers *)

sendAutoContinue ==
  /\ Submit(Continue)
  /\ sent' = [sent EXCEPT !.continues = IF @ = 2 THEN 2 ELSE @ + 1]

\* What the transcript says of the cause by the time the timer fires.  An expired
\* login and exhausted credits are alike: one notice, no continue.
StallReason == {"rate_limit", "unknown_reset", "login", "transient"}

fireNudge(reason) ==
  /\ timers.nudge > 0
  /\ LET t == [timers EXCEPT !.nudge = @ - 1]
     IN \/ /\ ~row.stalled
           /\ timers' = t
           /\ UNCHANGED <<act, memo, inbox, sent>>
        \/ /\ row.stalled /\ reason = "rate_limit"
           /\ timers' = [t EXCEPT !.resume = 1]
           /\ UNCHANGED <<act, memo, inbox, sent>>
        \/ /\ row.stalled /\ reason = "unknown_reset"
           /\ timers' = t
           /\ UNCHANGED <<act, memo, inbox, sent>>
        \/ /\ row.stalled /\ reason = "login"
           /\ timers' = t
           /\ memo' = [memo EXCEPT !.noticed = TRUE]
           /\ UNCHANGED <<act, inbox, sent>>
        \/ /\ row.stalled /\ reason = "transient"
           /\ memo.streak >= MaxStreak
           /\ timers' = t
           /\ UNCHANGED <<act, memo, inbox, sent>>
        \/ /\ row.stalled /\ reason = "transient"
           /\ memo.streak < MaxStreak
           /\ timers' = t
           /\ memo' = [memo EXCEPT !.streak = @ + 1]
           /\ Submit(Continue)
           /\ sent' = [continues |-> IF sent.continues = 2 THEN 2
                                     ELSE sent.continues + 1,
                       nudges |-> IF sent.nudges > MaxStreak THEN sent.nudges
                                  ELSE sent.nudges + 1]
  /\ UNCHANGED <<cc, posts, alive, row, acks, missed>>

fireResume ==
  /\ timers.resume > 0
  /\ timers' = [timers EXCEPT !.resume = @ - 1]
  /\ IF row.stalled THEN sendAutoContinue ELSE UNCHANGED <<act, inbox, sent>>
  /\ UNCHANGED <<cc, posts, alive, row, memo, acks, missed>>

-----------------------------------------------------------------------------
(* The session row and the broker *)

cleanStaleSessions ==
  /\ "offline" \in Env
  /\ alive /\ alive' = FALSE
  /\ UNCHANGED <<cc, posts, row, act, timers, memo, inbox, acks, missed, sent>>

handleHeartbeat ==
  /\ ~alive /\ alive' = TRUE
  /\ UNCHANGED <<cc, posts, row, act, timers, memo, inbox, acks, missed, sent>>

\* A self-healing attach of the same process counts as a sign of life: it may
\* come while Claude Code is stopped, or compacting.
handleAttachCCSession ==
  /\ ~alive /\ alive' = TRUE
  /\ clearStall /\ row' = Cleared /\ Life
  /\ missed' = missed \cup {"stalled", "compacting"}
  /\ UNCHANGED <<cc, posts, act, inbox, acks>>

\* What is kept in memory is lost, timers included.
brokerRestart ==
  /\ "restart" \in Env
  /\ act' = "none" /\ timers' = NoTimer /\ memo' = Forgotten
  /\ missed' = missed \cup {"blocked"}
  /\ sent' = [sent EXCEPT !.nudges = 0]
  /\ UNCHANGED <<cc, posts, alive, row, inbox, acks>>

ANext ==
  \/ \E p \in posts : hookAnswered(p) \/ hookUnanswered(p) \/ hookLost(p)
  \/ prompt \/ toolCall \/ ask \/ answered \/ finish \/ apiError
  \/ compactIdle \/ compactBusy \/ compactedIdle \/ compactedBusy \/ interrupted
  \/ \E m \in Message : handleSubmitAnswer(m) \/ submitTimeout(m) \/ pushed(m)
  \/ \E a \in acks : handleChannelPushed(a) \/ ackLost(a)
  \/ handleHeartbeatCcPid \/ handleClearWorkingActivity
  \/ \E r \in StallReason : fireNudge(r)
  \/ fireResume
  \/ cleanStaleSessions \/ handleHeartbeat \/ handleAttachCCSession
  \/ brokerRestart

ASpec == AInit /\ [][ANext]_avars

-----------------------------------------------------------------------------
(* Properties *)

\* A question that waits for the user shows as blocked, in whatever order the
\* hooks of the call are handled and whatever is submitted meanwhile.
AskingIsBlocked ==
  (cc = "asking" /\ posts = {} /\ "blocked" \notin missed) => act = "blocked"

\* A session that stopped on an error shows as stalled until it moves again:
\* the late acknowledgement of an earlier push does not wipe the warning.
StoppedIsShown ==
  (cc = "stopped" /\ posts = {} /\ "stalled" \notin missed) => row.stalled

\* The badges of work are true whatever reports were lost: the compacting badge
\* shows during a compaction and at no other time (a lost report is made up for by
\* the next tool call or end of turn), and no session that is not working shows as
\* working, unless a message is on its way to it.
BadgesAreTrue ==
  posts = {} =>
    /\ "compacting" \notin missed => (row.compacting <=> cc \in Compactions)
    /\ (cc \in {"idle", "stopped", "compacting"} /\ inbox = {} /\
        "working" \notin missed) => act # "working"

\* However often stalls are reported, one timer is pending at most and one
\* continue is sent per report.
OneContinuePerStall ==
  timers.nudge + timers.resume =< 1 /\ sent.continues =< 1

\* A stall that comes back after every nudge is nudged MaxStreak times and then
\* left alone, although each nudge is delivered and clears the warning.
HammeringStops == sent.nudges =< MaxStreak
=============================================================================
