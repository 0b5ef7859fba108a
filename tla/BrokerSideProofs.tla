--------------------------- MODULE BrokerSideProofs ---------------------------
(***************************************************************************)
(* Proofs about what the broker does on its own side: what it says of a    *)
(* Claude Code (Activity, for any messages, any cap of the nudges and any  *)
(* combination of the faults); and, of the parts of Page, the dialogs of a *)
(* new session (Spawn), the model it reports (ModelChip), the page it      *)
(* serves (WebDist), the backups it watches (Backup), and the words it is  *)
(* sent, or keeps until their time has come (Composer), laid out as those  *)
(* of PageProofs.                                                          *)
(***************************************************************************)
EXTENDS Activity, Page, SequenceTheorems, FiniteSetTheorems, WellFoundedInduction, TLAPS

-----------------------------------------------------------------------------
(* Activity *)

\* Claude Code waits for the hooks of an event: what is still on its way tells
\* where it has come from.
PostsFit ==
  /\ cc = "idle" => \A p \in posts : p.post \in {"stop", "compacted"}
  /\ cc = "busy" => \A p \in posts : p.post \in {"heartbeat", "unblocked", "stop", "stalled",
                                                 "compacted"}
  /\ cc = "asking" => \A p \in posts : p.post \in {"heartbeat", "blocked"}
  /\ cc = "stopped" => \A p \in posts : p.post = "stalled"
  /\ cc \in Compactions => \A p \in posts : p.post = "compacting"

Pending(post) == \E p \in posts : p.post = post

\* Each badge is right, or the report that sets it right is still on its way, or
\* the broker missed one.
BlockedFits == cc = "asking" => Pending("blocked") \/ "blocked" \in missed \/ act = "blocked"

\* Nor can an acknowledgement that is still on its way clear the stall.
StalledFits ==
  cc = "stopped" => \/ Pending("stalled") \/ "stalled" \in missed
                    \/ row.stalled /\ "covers" \notin acks

CompactingFits ==
  "compacting" \notin missed =>
    /\ cc \in Compactions => Pending("compacting") \/ row.compacting
    /\ row.compacting => cc \in Compactions \/ Pending("compacted")

WorkingFits ==
  (cc \in {"idle", "stopped", "compacting"} /\ inbox = {} /\ "working" \notin missed) =>
    \/ act # "working"
    \/ Pending("stop") \/ Pending("stalled") \/ Pending("compacting")

\* A timer that is pending is a continue to come: of each report at most one is
\* pending or sent.
OneToCome == timers.nudge + timers.resume + sent.continues =< 1

\* Every nudge counts in the streak, which only a sign of life takes back.
NudgesCount == sent.nudges =< memo.streak

Fits == PostsFit /\ BlockedFits /\ StalledFits /\ CompactingFits /\ WorkingFits
AInv == ATypeOK /\ Fits /\ OneToCome /\ NudgesCount

LEMMA InitAInv == AInit => AInv
<1> SUFFICES ASSUME AInit PROVE AInv
  OBVIOUS
<1>1. ATypeOK
  BY MaxStreakAssumption
  DEF AInit, ATypeOK, ClaudeState, NoTimer, Forgotten
<1>2. Fits /\ OneToCome /\ NudgesCount
  BY DEF AInit, Fits, PostsFit, BlockedFits, StalledFits, CompactingFits, WorkingFits, OneToCome,
         NudgesCount, Compactions, NoTimer, Forgotten
<1> QED  BY <1>1, <1>2 DEF AInv

-----------------------------------------------------------------------------
(* The timers and the streak. *)

Counters == <<timers, memo, sent>>

\* The part of the type invariant that is about them.
CountersOK ==
  /\ timers \in [nudge : 0..2, resume : 0..2]
  /\ memo \in [streak : 0..MaxStreak, noticed : BOOLEAN]
  /\ sent \in [continues : 0..2, nudges : 0..(MaxStreak + 1)]
  /\ OneToCome /\ NudgesCount

\* A sign of life starts everything over, or finds no stall to clear.
LEMMA LifeCounters ==
  ASSUME CountersOK, clearStall, Life
  PROVE  CountersOK'
<1>1. sent' = [continues |-> 0, nudges |-> 0]
  BY DEF Life
<1>2. CASE row.stalled
  <2>1. timers' = [nudge |-> 0, resume |-> 0] /\ memo' = [streak |-> 0, noticed |-> FALSE]
    BY <1>2 DEF clearStall, NoTimer, Forgotten
  <2>2. /\ timers' \in [nudge : 0..2, resume : 0..2]
        /\ memo' \in [streak : 0..MaxStreak, noticed : BOOLEAN]
        /\ sent' \in [continues : 0..2, nudges : 0..(MaxStreak + 1)]
    BY <1>1, <2>1, MaxStreakAssumption
  <2> QED  BY <1>1, <2>1, <2>2 DEF CountersOK, OneToCome, NudgesCount
<1>3. CASE ~row.stalled
  <2>1. UNCHANGED <<timers, memo>>
    BY <1>3 DEF clearStall
  <2>2. /\ timers.nudge \in Nat /\ timers.resume \in Nat /\ sent.continues \in Nat
        /\ timers.nudge + timers.resume =< 1 /\ memo.streak \in Nat
    BY MaxStreakAssumption DEF CountersOK, OneToCome
  <2>3. sent' \in [continues : 0..2, nudges : 0..(MaxStreak + 1)]
    BY <1>1, MaxStreakAssumption
  <2> QED  BY <1>1, <2>1, <2>2, <2>3 DEF CountersOK, OneToCome, NudgesCount
<1> QED  BY <1>2, <1>3

\* Whatever a report does to the timers, it leaves one continue to come at most.
LEMMA HandlerCounters ==
  ASSUME CountersOK, NEW post \in Post, Handler(post)
  PROVE  CountersOK'
<1>1. CASE post = "heartbeat"
  BY <1>1, LifeCounters DEF Handler, handleHeartbeatTool
<1>2. CASE post = "stop"
  BY <1>2, LifeCounters DEF Handler, handleClearToolActivity
<1>3. CASE post = "stalled"
  <2>1. /\ timers' = [nudge |-> 1, resume |-> 0] /\ memo' = memo
        /\ sent' = [sent EXCEPT !.continues = 0]
    BY <1>3 DEF Handler, handleSessionStalled, scheduleAutoContinue
  <2> QED  BY <2>1 DEF CountersOK, OneToCome, NudgesCount
<1>4. CASE post \in {"compacting", "compacted", "blocked", "unblocked"}
  <2>1. UNCHANGED Counters
    BY <1>4 DEF Handler, handleSessionCompacting, handleSessionCompactingDone,
                handleBlockedOnUserStart, handleBlockedOnUserClear, Counters
  <2> QED  BY <2>1 DEF CountersOK, OneToCome, NudgesCount, Counters
<1> QED  BY <1>1, <1>2, <1>3, <1>4 DEF Post

\* A nudge is counted in the streak, and a timer that fires is spent.
LEMMA NudgeCounters ==
  ASSUME CountersOK, NEW reason \in StallReason, fireNudge(reason)
  PROVE  CountersOK'
<1>0. /\ timers.nudge = 1 /\ timers.resume = 0 /\ timers = [nudge |-> 1, resume |-> 0]
      /\ timers.nudge - 1 = 0
  BY DEF fireNudge, CountersOK, OneToCome
<1>1. \/ timers' = [nudge |-> 0, resume |-> 0] /\ UNCHANGED <<memo, sent>>
      \/ timers' = [nudge |-> 0, resume |-> 1] /\ UNCHANGED <<memo, sent>>
      \/ timers' = [nudge |-> 0, resume |-> 0] /\ memo' = [memo EXCEPT !.noticed = TRUE] /\ sent' = sent
      \/ /\ timers' = [nudge |-> 0, resume |-> 0] /\ memo.streak < MaxStreak
         /\ memo' = [memo EXCEPT !.streak = @ + 1]
         /\ sent' = [continues |-> IF sent.continues = 2 THEN 2 ELSE sent.continues + 1,
                     nudges |-> IF sent.nudges > MaxStreak THEN sent.nudges ELSE sent.nudges + 1]
  BY <1>0 DEF fireNudge
<1>2. CASE UNCHANGED <<memo, sent>>
  BY <1>0, <1>1, <1>2, MaxStreakAssumption DEF CountersOK, OneToCome, NudgesCount
<1>3. CASE memo' = [memo EXCEPT !.noticed = TRUE] /\ sent' = sent
  <2>1. /\ memo' \in [streak : 0..MaxStreak, noticed : BOOLEAN]
        /\ memo'.streak = memo.streak
    BY <1>3 DEF CountersOK
  <2>2. timers'.nudge + timers'.resume =< 1 /\ sent.continues = 0
        /\ timers' \in [nudge : 0..2, resume : 0..2]
        /\ timers'.nudge \in Nat /\ timers'.resume \in Nat
    BY <1>0, <1>1 DEF CountersOK, OneToCome
  <2> QED  BY <1>3, <2>1, <2>2 DEF CountersOK, OneToCome, NudgesCount
<1>4. CASE /\ timers' = [nudge |-> 0, resume |-> 0] /\ memo.streak < MaxStreak
           /\ memo' = [memo EXCEPT !.streak = @ + 1]
           /\ sent' = [continues |-> IF sent.continues = 2 THEN 2 ELSE sent.continues + 1,
                       nudges |-> IF sent.nudges > MaxStreak THEN sent.nudges ELSE sent.nudges + 1]
  <2>1. /\ sent.continues = 0 /\ sent.nudges \in 0..MaxStreak /\ sent.nudges =< memo.streak
        /\ memo.streak \in 0..MaxStreak
    BY <1>0, MaxStreakAssumption DEF CountersOK, OneToCome, NudgesCount
  <2>2. sent' = [continues |-> 1, nudges |-> sent.nudges + 1]
    BY <1>4, <2>1, MaxStreakAssumption
  <2>3. /\ memo' \in [streak : 0..MaxStreak, noticed : BOOLEAN]
        /\ memo'.streak = memo.streak + 1
    BY <1>4, <2>1, MaxStreakAssumption DEF CountersOK
  <2> QED  BY <1>4, <2>1, <2>2, <2>3, MaxStreakAssumption DEF CountersOK, OneToCome, NudgesCount
<1> QED  BY <1>1, <1>2, <1>3, <1>4

LEMMA ResumeCounters ==
  ASSUME CountersOK, fireResume
  PROVE  CountersOK'
<1>0. timers.nudge = 0 /\ timers.resume = 1 /\ timers = [nudge |-> 0, resume |-> 1]
  BY DEF fireResume, CountersOK, OneToCome
<1>1. /\ timers' = [nudge |-> 0, resume |-> 0] /\ memo' = memo
      /\ \/ sent' = sent
         \/ sent' = [sent EXCEPT !.continues = IF @ = 2 THEN 2 ELSE @ + 1]
  BY <1>0 DEF fireResume, sendAutoContinue
<1> QED  BY <1>0, <1>1 DEF CountersOK, OneToCome, NudgesCount

-----------------------------------------------------------------------------
(* The reports. *)

\* A report that is handled: what it is about is right from then on, and the others
\* are still on their way.  It may be tried again although it was handled.
Handled(p) ==
  /\ Handler(p.post) /\ missed' = missed \ Settles(p.post)
  /\ \A q \in posts \ {p} : q \in posts'
  /\ \A q \in posts' : q \in posts \/ q.post = p.post
  /\ UNCHANGED <<cc, alive, inbox>>

LEMMA HandledFits ==
  ASSUME AInv, NEW p \in posts, Handled(p), p.post \in Post
  PROVE  Fits'
<1>0. /\ cc' = cc /\ inbox' = inbox /\ missed' = missed \ Settles(p.post)
      /\ Fits /\ row \in [stalled : BOOLEAN, compacting : BOOLEAN] /\ acks \subseteq Ack
      /\ act \in {"none", "working", "blocked"}
  BY DEF AInv, ATypeOK, Handled
<1>1. PostsFit'
  BY <1>0 DEF Handled, Fits, PostsFit, Compactions
<1>2. \A x \in Post \ {p.post} : Pending(x) => Pending(x)'
  BY DEF Handled, Pending
<1>3. CASE p.post = "heartbeat"
  <2>1. /\ row' = Cleared /\ act' = MarkedWorking /\ acks' = acks
        /\ missed' = missed \ {"stalled", "compacting"}
    BY <1>0, <1>3 DEF Handled, Handler, handleHeartbeatTool, Settles
  <2>2. cc \in {"busy", "asking"}
    BY <1>0, <1>3 DEF Fits, PostsFit, AInv, ATypeOK, ClaudeState
  <2> QED  BY <1>0, <1>1, <1>2, <1>3, <2>1, <2>2
           DEF Fits, BlockedFits, StalledFits, CompactingFits, WorkingFits, Cleared, MarkedWorking,
               Compactions, Post
<1>4. CASE p.post = "stop"
  <2>1. /\ row' = Cleared /\ act' = WorkingCleared /\ acks' = acks
        /\ missed' = missed \ {"stalled", "compacting", "working"}
    BY <1>0, <1>4 DEF Handled, Handler, handleClearToolActivity, Settles
  <2>2. cc \in {"busy", "idle"}
    BY <1>0, <1>4 DEF Fits, PostsFit, AInv, ATypeOK, ClaudeState
  <2> QED  BY <1>0, <1>1, <1>2, <1>4, <2>1, <2>2
           DEF Fits, BlockedFits, StalledFits, CompactingFits, WorkingFits, Cleared, WorkingCleared,
               Compactions, Post
<1>5. CASE p.post = "stalled"
  <2>1. /\ row' = [row EXCEPT !.stalled = TRUE] /\ act' = WorkingCleared
        /\ "covers" \notin acks' /\ missed' = missed \ {"stalled", "working"}
    BY <1>0, <1>5 DEF Handled, Handler, handleSessionStalled, Settles
  <2>2. cc \in {"busy", "stopped"}
    BY <1>0, <1>5 DEF Fits, PostsFit, AInv, ATypeOK, ClaudeState
  <2> QED  BY <1>0, <1>1, <1>2, <1>5, <2>1, <2>2
           DEF Fits, BlockedFits, StalledFits, CompactingFits, WorkingFits, WorkingCleared,
               Compactions, Post
<1>6. CASE p.post = "compacting"
  <2>1. /\ row' = [row EXCEPT !.compacting = TRUE] /\ act' = WorkingCleared
        /\ acks' = acks /\ missed' = missed \ {"compacting", "working"}
    BY <1>0, <1>6 DEF Handled, Handler, handleSessionCompacting, Settles
  <2>2. cc \in Compactions
    BY <1>0, <1>6 DEF Fits, PostsFit, AInv, ATypeOK, ClaudeState
  <2> QED  BY <1>0, <1>1, <1>2, <1>6, <2>1, <2>2
           DEF Fits, BlockedFits, StalledFits, CompactingFits, WorkingFits, WorkingCleared,
               Compactions, Post
<1>7. CASE p.post = "compacted"
  <2>1. /\ row' = [row EXCEPT !.compacting = FALSE] /\ act' = act
        /\ acks' = acks /\ missed' = missed \ {"compacting"}
    BY <1>0, <1>7 DEF Handled, Handler, handleSessionCompactingDone, Settles
  <2>2. cc \in {"busy", "idle"}
    BY <1>0, <1>7 DEF Fits, PostsFit, AInv, ATypeOK, ClaudeState
  <2> QED  BY <1>0, <1>1, <1>2, <1>7, <2>1, <2>2
           DEF Fits, BlockedFits, StalledFits, CompactingFits, WorkingFits, Compactions, Post
<1>8. CASE p.post = "blocked"
  <2>1. /\ row' = row /\ act' = "blocked" /\ acks' = acks /\ missed' = missed \ {"blocked"}
    BY <1>0, <1>8 DEF Handled, Handler, handleBlockedOnUserStart, Settles
  <2> QED  BY <1>0, <1>1, <1>2, <1>8, <2>1
           DEF Fits, BlockedFits, StalledFits, CompactingFits, WorkingFits, Compactions, Post
<1>9. CASE p.post = "unblocked"
  <2>1. /\ row' = row /\ acks' = acks /\ missed' = missed
        /\ act' = IF act = "blocked" THEN "none" ELSE act
    BY <1>0, <1>9 DEF Handled, Handler, handleBlockedOnUserClear, Settles
  <2>2. cc = "busy"
    BY <1>0, <1>9 DEF Fits, PostsFit, AInv, ATypeOK, ClaudeState
  <2> QED  BY <1>0, <1>1, <1>2, <1>9, <2>1, <2>2
           DEF Fits, BlockedFits, StalledFits, CompactingFits, WorkingFits, Compactions, Post
<1> QED  BY <1>3, <1>4, <1>5, <1>6, <1>7, <1>8, <1>9 DEF Post

\* A report that is lost for good counts as missed.
Lost(p) ==
  /\ \A q \in posts \ {p} : q \in posts'
  /\ \A q \in posts' : q \in posts \/ q.post = p.post
  /\ \/ missed' = missed /\ \E q \in posts' : q.post = p.post
     \/ missed' = missed \cup Settles(p.post)
  /\ UNCHANGED <<cc, row, act, acks, inbox>>

LEMMA LostFits ==
  ASSUME AInv, NEW p \in posts, Lost(p), p.post \in Post
  PROVE  Fits'
<1>0. /\ UNCHANGED <<cc, row, act, acks, inbox>> /\ Fits
  BY DEF AInv, Lost
<1>1. PostsFit'
  BY <1>0 DEF Lost, Fits, PostsFit, Compactions
<1>2. \A x \in Post \ {p.post} : Pending(x) => Pending(x)'
  BY DEF Lost, Pending
<1>3. CASE missed' = missed /\ Pending(p.post)'
  BY <1>0, <1>1, <1>2, <1>3
  DEF Fits, BlockedFits, StalledFits, CompactingFits, WorkingFits, Post
<1>4. CASE missed' = missed \cup Settles(p.post)
  <2>1. /\ p.post = "blocked" => "blocked" \in missed'
        /\ p.post = "stalled" => {"stalled", "working"} \subseteq missed'
        /\ p.post = "stop" => "working" \in missed'
        /\ p.post = "compacting" => {"compacting", "working"} \subseteq missed'
        /\ p.post = "compacted" => "compacting" \in missed'
        /\ missed \subseteq missed'
    BY <1>4 DEF Settles
  <2> QED  BY <1>0, <1>1, <1>2, <2>1
           DEF Fits, BlockedFits, StalledFits, CompactingFits, WorkingFits, Post
<1> QED  BY <1>3, <1>4 DEF Lost, Pending

\* What a handler leaves of the row, the badge and the acknowledgements.
LEMMA HandlerType ==
  ASSUME ATypeOK, NEW post \in Post, Handler(post)
  PROVE  /\ row' \in [stalled : BOOLEAN, compacting : BOOLEAN]
         /\ act' \in {"none", "working", "blocked"} /\ acks' \subseteq Ack
<1>0. /\ row \in [stalled : BOOLEAN, compacting : BOOLEAN] /\ acks \subseteq Ack
      /\ act \in {"none", "working", "blocked"}
  BY DEF ATypeOK
<1>1. /\ WorkingCleared \in {"none", "working", "blocked"}
      /\ MarkedWorking \in {"none", "working", "blocked"}
      /\ Cleared \in [stalled : BOOLEAN, compacting : BOOLEAN]
  BY <1>0 DEF WorkingCleared, MarkedWorking, Cleared
<1>2. CASE post = "heartbeat"
  BY <1>0, <1>1, <1>2 DEF Handler, handleHeartbeatTool
<1>3. CASE post = "stop"
  BY <1>0, <1>1, <1>3 DEF Handler, handleClearToolActivity
<1>4. CASE post = "stalled"
  BY <1>0, <1>1, <1>4 DEF Handler, handleSessionStalled, Ack
<1>5. CASE post = "compacting"
  BY <1>0, <1>1, <1>5 DEF Handler, handleSessionCompacting
<1>6. CASE post = "compacted"
  BY <1>0, <1>6 DEF Handler, handleSessionCompactingDone
<1>7. CASE post = "blocked"
  BY <1>0, <1>7 DEF Handler, handleBlockedOnUserStart
<1>8. CASE post = "unblocked"
  BY <1>0, <1>8 DEF Handler, handleBlockedOnUserClear
<1> QED  BY <1>2, <1>3, <1>4, <1>5, <1>6, <1>7, <1>8 DEF Post

\* The invariant in terms of its parts.
LEMMA AInvParts == AInv => ATypeOK /\ Fits /\ CountersOK
BY DEF AInv, CountersOK, ATypeOK

LEMMA AInvNext ==
  ASSUME ATypeOK', Fits', CountersOK'
  PROVE  AInv'
BY DEF AInv, CountersOK

\* An attempt of a report, whatever becomes of it.
LEMMA HookInv ==
  ASSUME AInv, NEW p \in posts, hookAnswered(p) \/ hookUnanswered(p) \/ hookLost(p)
  PROVE  AInv'
<1>0. /\ p \in [post : Post, tries : 1..2] /\ p.post \in Post /\ ATypeOK /\ CountersOK
      /\ Settles(p.post) \subseteq Badge
  <2>1. p \in [post : Post, tries : 1..2] /\ ATypeOK /\ CountersOK
    BY AInvParts DEF ATypeOK
  <2>2. \A x \in Post : Settles(x) \subseteq Badge
    BY DEF Settles, Badge, Post
  <2> QED  BY <2>1, <2>2
<1>1. Retried(p) = posts \ {p} \/
      \E q \in [post : Post, tries : 1..2] :
         q.post = p.post /\ q = [p EXCEPT !.tries = 1] /\ p.tries > 1 /\ Retried(p) = (posts \ {p}) \cup {q}
  BY <1>0 DEF Retried
<1>2. p.tries > 1 => \E q \in Retried(p) : q.post = p.post
  <2>1. p.tries > 1 => [p EXCEPT !.tries = 1] \in Retried(p)
    BY DEF Retried
  <2>2. [p EXCEPT !.tries = 1].post = p.post
    BY <1>0
  <2> QED  BY <2>1, <2>2
<1>3. CASE Handler(p.post) /\ missed' = missed \ Settles(p.post) /\ posts' \in {posts \ {p}, Retried(p)}
           /\ UNCHANGED <<cc, alive, inbox>>
  <2>1. Handled(p)
    BY <1>1, <1>3 DEF Handled
  <2>2. posts' \subseteq [post : Post, tries : 1..2] /\ missed' \subseteq Badge
    BY <1>0, <1>1, <1>3 DEF ATypeOK
  <2>3. CountersOK'
    BY <1>0, <1>3, HandlerCounters
  <2>4. ATypeOK'
    BY <1>0, <1>3, <2>2, <2>3, HandlerType DEF ATypeOK, CountersOK
  <2> QED  BY <1>0, <2>1, <2>3, <2>4, HandledFits, AInvNext
<1>4. CASE /\ UNCHANGED <<cc, alive, row, act, timers, memo, inbox, acks, sent>>
           /\ \/ posts' = posts \ {p} /\ missed' = missed \cup Settles(p.post)
              \/ /\ posts' = Retried(p)
                 /\ missed' = IF p.tries > 1 THEN missed ELSE missed \cup Settles(p.post)
  <2>1. Lost(p)
    BY <1>0, <1>1, <1>2, <1>4 DEF Lost
  <2>2. posts' \subseteq [post : Post, tries : 1..2] /\ missed' \subseteq Badge
    BY <1>0, <1>1, <1>4 DEF ATypeOK
  <2>3. CountersOK'
    BY <1>0, <1>4 DEF CountersOK, OneToCome, NudgesCount
  <2>4. ATypeOK'
    BY <1>0, <1>4, <2>2 DEF ATypeOK
  <2> QED  BY <1>0, <2>1, <2>3, <2>4, LostFits, AInvNext
<1>5. CASE hookAnswered(p)
  BY <1>3, <1>4, <1>5 DEF hookAnswered
<1>6. CASE hookUnanswered(p)
  BY <1>3, <1>6 DEF hookUnanswered
<1>7. CASE hookLost(p)
  BY <1>4, <1>7 DEF hookLost
<1> QED  BY <1>5, <1>6, <1>7

-----------------------------------------------------------------------------
(* Claude Code. *)

\* An event runs its hooks when those of the event before are through.
LEMMA EventType ==
  ASSUME AInv, NEW from, NEW to \in ClaudeState, NEW X \in SUBSET Post, Event(from, to, X)
  PROVE  /\ ATypeOK' /\ CountersOK' /\ posts = {} /\ cc \in from /\ cc' = to
         /\ UNCHANGED <<row, act, inbox, acks, missed>>
         /\ \A q \in posts' : q.post \in X
         /\ \A x \in X : Pending(x)'
<1>1. posts' = {[post |-> x, tries |-> Tries(x)] : x \in X}
  BY DEF Event, Posts
<1>2. posts' \subseteq [post : Post, tries : 1..2]
  BY <1>1 DEF Tries
<1>3. ATypeOK'
  BY <1>2 DEF AInv, ATypeOK, Event
<1>4. CountersOK'
  BY AInvParts DEF CountersOK, OneToCome, NudgesCount, Event
<1>5. \A x \in X : [post |-> x, tries |-> Tries(x)] \in posts'
  BY <1>1
<1>6. \A q \in posts' : q.post \in X
  BY <1>1
<1>7. ASSUME NEW x \in X PROVE Pending(x)'
  <2>1. [post |-> x, tries |-> Tries(x)].post = x
    OBVIOUS
  <2> QED  BY <1>5, <2>1 DEF Pending
<1> QED  BY <1>3, <1>4, <1>6, <1>7 DEF Event

LEMMA EventInv ==
  ASSUME AInv,
         \/ prompt \/ toolCall \/ ask \/ answered \/ finish \/ apiError
         \/ compactIdle \/ compactBusy \/ compactedIdle \/ compactedBusy
  PROVE  AInv'
<1>0. Fits
  BY DEF AInv
<1> DEFINE Ran(from, to, X) ==
      /\ cc \in from /\ cc' = to /\ posts = {}
      /\ UNCHANGED <<row, act, inbox, acks, missed>>
      /\ \A q \in posts' : q.post \in X
      /\ \A x \in X : Pending(x)'
<1>1. ASSUME NEW from, NEW to \in ClaudeState, NEW X \in SUBSET Post, Event(from, to, X)
      PROVE  ATypeOK' /\ CountersOK' /\ Ran(from, to, X)
  BY <1>1, EventType
<1>2. /\ ATypeOK' /\ CountersOK'
      /\ \/ Ran({"idle", "stopped"}, "busy", {"heartbeat"})
         \/ Ran({"busy"}, "busy", {"heartbeat"})
         \/ Ran({"busy"}, "asking", {"heartbeat", "blocked"})
         \/ Ran({"asking"}, "busy", {"unblocked"})
         \/ Ran({"busy"}, "idle", {"stop"})
         \/ Ran({"busy"}, "stopped", {"stalled"})
         \/ Ran({"idle"}, "compacting", {"compacting"})
         \/ Ran({"busy"}, "pausing", {"compacting"})
         \/ Ran({"compacting"}, "idle", {"compacted"})
         \/ Ran({"pausing"}, "busy", {"compacted"})
  <2>1. /\ {"idle", "busy", "asking", "stopped", "compacting", "pausing"} \subseteq ClaudeState
        /\ {"heartbeat"} \in SUBSET Post /\ {"heartbeat", "blocked"} \in SUBSET Post
        /\ {"unblocked"} \in SUBSET Post /\ {"stop"} \in SUBSET Post /\ {"stalled"} \in SUBSET Post
        /\ {"compacting"} \in SUBSET Post /\ {"compacted"} \in SUBSET Post
    BY DEF ClaudeState, Compactions, Post
  <2> HIDE DEF Ran
  <2>2. CASE prompt \/ toolCall
    BY <1>1, <2>1, <2>2 DEF prompt, toolCall
  <2>3. CASE ask \/ answered
    BY <1>1, <2>1, <2>3 DEF ask, answered
  <2>4. CASE finish \/ apiError
    BY <1>1, <2>1, <2>4 DEF finish, apiError
  <2>5. CASE compactIdle \/ compactBusy
    BY <1>1, <2>1, <2>5 DEF compactIdle, compactBusy
  <2>6. CASE compactedIdle \/ compactedBusy
    BY <1>1, <2>1, <2>6 DEF compactedIdle, compactedBusy
  <2> QED  BY <2>2, <2>3, <2>4, <2>5, <2>6
<1>3. Fits'
  BY <1>0, <1>2
  DEF Fits, PostsFit, BlockedFits, StalledFits, CompactingFits, WorkingFits, Pending, Compactions
<1> QED  BY <1>2, <1>3, AInvNext
-----------------------------------------------------------------------------
(* Messages. *)

\* An action that leaves the timers, the streak and the history of both alone.
LEMMA CountersKept ==
  ASSUME CountersOK, UNCHANGED Counters
  PROVE  CountersOK'
BY DEF CountersOK, OneToCome, NudgesCount, Counters

LEMMA MessageInv ==
  ASSUME AInv, NEW m \in Message, handleSubmitAnswer(m) \/ submitTimeout(m) \/ pushed(m)
  PROVE  AInv'
<1>0. ATypeOK /\ Fits /\ CountersOK
  BY AInvParts
<1>1. CountersOK'
  BY <1>0, CountersKept DEF Counters, handleSubmitAnswer, submitTimeout, pushed
<1>2. CASE handleSubmitAnswer(m)
  <2>1. ATypeOK'
    BY <1>0, <1>2 DEF handleSubmitAnswer, Submit, MarkedWorking, ATypeOK
  <2>2. /\ UNCHANGED <<cc, posts, row, acks, missed>>
        /\ (act' = act /\ inbox' = inbox) \/ (act' = MarkedWorking /\ inbox' = inbox \cup {m})
    BY <1>2 DEF handleSubmitAnswer, Submit
  <2>3. Fits'
    BY <1>0, <2>2
    DEF Fits, PostsFit, BlockedFits, StalledFits, CompactingFits, WorkingFits, Pending, MarkedWorking
  <2> QED  BY <1>1, <2>1, <2>3, AInvNext
<1>3. CASE submitTimeout(m)
  <2>1. ATypeOK'
    BY <1>0, <1>3 DEF submitTimeout, ATypeOK, Badge
  <2>2. /\ UNCHANGED <<cc, posts, row, act, acks>> /\ inbox' = inbox \ {m}
        /\ missed' = missed \cup {"working"}
    BY <1>3 DEF submitTimeout
  <2>3. Fits'
    BY <1>0, <2>2
    DEF Fits, PostsFit, BlockedFits, StalledFits, CompactingFits, WorkingFits, Pending
  <2> QED  BY <1>1, <2>1, <2>3, AInvNext
<1>4. CASE pushed(m)
  <2>1. ATypeOK'
    BY <1>0, <1>4 DEF pushed, ATypeOK, Ack, ClaudeState, Compactions
  <2>2. /\ UNCHANGED <<posts, row, act, missed>> /\ m \in inbox
        /\ \/ cc \in {"idle", "stopped"} /\ cc' = "busy"
           \/ cc = "compacting" /\ cc' = "pausing"
           \/ cc \in {"busy", "asking", "pausing"} /\ cc' = cc
    BY <1>0, <1>4 DEF pushed, ATypeOK, ClaudeState, Compactions
  <2>3. Fits'
    BY <1>0, <2>2
    DEF Fits, PostsFit, BlockedFits, StalledFits, CompactingFits, WorkingFits, Pending, Compactions
  <2> QED  BY <1>1, <2>1, <2>3, AInvNext
<1> QED  BY <1>2, <1>3, <1>4

\* An acknowledgement clears a stall, and the timer with it, or nothing.
LEMMA AckInv ==
  ASSUME AInv, NEW a \in acks, handleChannelPushed(a) \/ ackLost(a)
  PROVE  AInv'
<1>0. ATypeOK /\ Fits /\ CountersOK
  BY AInvParts
<1>1. CASE handleChannelPushed(a) /\ ClearsStall(a)
  <2>1. /\ a = "covers" /\ row' = [row EXCEPT !.stalled = FALSE] /\ memo' = memo
        /\ timers' = [nudge |-> 0, resume |-> 0] /\ acks' = acks \ {a}
        /\ UNCHANGED <<cc, posts, alive, act, inbox, missed, sent>>
    BY <1>1 DEF handleChannelPushed, ClearsStall, clearStallBefore, NoTimer
  <2>2. CountersOK'
    BY <1>0, <2>1 DEF CountersOK, OneToCome, NudgesCount
  <2>3. ATypeOK'
    BY <1>0, <2>1, <2>2 DEF ATypeOK, CountersOK
  <2>4. /\ UNCHANGED <<cc, posts, act, inbox, missed>> /\ "covers" \in acks
        /\ row'.compacting = row.compacting
    BY <1>0, <2>1 DEF ATypeOK
  <2>5. Fits'
    BY <1>0, <2>4
    DEF Fits, PostsFit, BlockedFits, StalledFits, CompactingFits, WorkingFits, Pending
  <2> QED  BY <2>2, <2>3, <2>5, AInvNext
<1>2. CASE ~(handleChannelPushed(a) /\ ClearsStall(a))
  <2>1. /\ acks' = acks \ {a}
        /\ UNCHANGED <<cc, posts, alive, row, act, timers, memo, inbox, missed, sent>>
    BY <1>2 DEF handleChannelPushed, ackLost
  <2>2. CountersOK'
    BY <1>0, <2>1, CountersKept DEF Counters
  <2>3. ATypeOK'
    BY <1>0, <2>1 DEF ATypeOK
  <2>4. Fits'
    BY <1>0, <2>1
    DEF Fits, PostsFit, BlockedFits, StalledFits, CompactingFits, WorkingFits, Pending
  <2> QED  BY <2>2, <2>3, <2>4, AInvNext
<1> QED  BY <1>1, <1>2

-----------------------------------------------------------------------------
(* The timers. *)

\* A continue makes the inbox non-empty, or is refused and changes nothing.
LEMMA ContinueFits ==
  ASSUME ATypeOK, Fits, UNCHANGED <<cc, posts, row, acks, missed>>,
         Submit(Continue) \/ UNCHANGED <<act, inbox>>
  PROVE  /\ Fits' /\ act' \in {"none", "working", "blocked"} /\ inbox' \subseteq Message
<1>1. (act' = act /\ inbox' = inbox) \/ (act' = MarkedWorking /\ inbox' = inbox \cup {Continue})
  BY DEF Submit
<1>2. act' \in {"none", "working", "blocked"} /\ inbox' \subseteq Message
  BY <1>1, ContinueAssumption DEF ATypeOK, MarkedWorking
<1>3. Fits'
  BY <1>1
  DEF Fits, PostsFit, BlockedFits, StalledFits, CompactingFits, WorkingFits, Pending, MarkedWorking
<1> QED  BY <1>2, <1>3

LEMMA TimerInv ==
  ASSUME AInv, (\E r \in StallReason : fireNudge(r)) \/ fireResume
  PROVE  AInv'
<1>0. ATypeOK /\ Fits /\ CountersOK
  BY AInvParts
<1>1. CountersOK'
  BY <1>0, NudgeCounters, ResumeCounters
<1>2. /\ UNCHANGED <<cc, posts, alive, row, acks, missed>>
      /\ Submit(Continue) \/ UNCHANGED <<act, inbox>>
  BY DEF fireNudge, fireResume, sendAutoContinue
<1>3. /\ Fits' /\ act' \in {"none", "working", "blocked"} /\ inbox' \subseteq Message
  BY <1>0, <1>2, ContinueFits
<1>4. ATypeOK'
  BY <1>0, <1>1, <1>2, <1>3 DEF ATypeOK, CountersOK
<1> QED  BY <1>1, <1>3, <1>4, AInvNext

-----------------------------------------------------------------------------
(* The rest: the user, the session row and the broker. *)

LEMMA UserInv ==
  ASSUME AInv, interrupted \/ handleHeartbeatCcPid \/ handleClearWorkingActivity
  PROVE  AInv'
<1>0. ATypeOK /\ Fits /\ CountersOK
  BY AInvParts
<1>1. CountersOK'
  BY <1>0, CountersKept
  DEF Counters, interrupted, handleHeartbeatCcPid, handleClearWorkingActivity
<1>2. CASE interrupted
  <2>1. ATypeOK'
    BY <1>0, <1>2 DEF interrupted, ATypeOK, ClaudeState, Badge
  <2>2. /\ cc' = "idle" /\ cc \notin Compactions /\ posts = {} /\ missed' = missed \cup {"working"}
        /\ UNCHANGED <<posts, row, act, acks, inbox>>
    BY <1>2 DEF interrupted, Compactions
  <2>3. Fits'
    BY <1>0, <2>2
    DEF Fits, PostsFit, BlockedFits, StalledFits, CompactingFits, WorkingFits, Pending, Compactions
  <2> QED  BY <1>1, <2>1, <2>3, AInvNext
<1>3. CASE handleHeartbeatCcPid
  <2>1. ATypeOK'
    BY <1>0, <1>3 DEF handleHeartbeatCcPid, ATypeOK, ClaudeState, MarkedWorking
  <2>2. /\ cc \in {"idle", "stopped"} /\ cc' = "busy" /\ cc \notin Compactions
        /\ UNCHANGED <<posts, row, inbox, acks, missed>>
    BY <1>3 DEF handleHeartbeatCcPid, Compactions
  <2>3. Fits'
    BY <1>0, <2>2
    DEF Fits, PostsFit, BlockedFits, StalledFits, CompactingFits, WorkingFits, Pending, Compactions
  <2> QED  BY <1>1, <2>1, <2>3, AInvNext
<1>4. CASE handleClearWorkingActivity
  <2>1. ATypeOK'
    BY <1>0, <1>4 DEF handleClearWorkingActivity, ATypeOK
  <2>2. /\ act = "working" /\ act' = "none"
        /\ UNCHANGED <<cc, posts, row, inbox, acks, missed>>
    BY <1>4 DEF handleClearWorkingActivity
  <2>3. Fits'
    BY <1>0, <2>2
    DEF Fits, PostsFit, BlockedFits, StalledFits, CompactingFits, WorkingFits, Pending
  <2> QED  BY <1>1, <2>1, <2>3, AInvNext
<1> QED  BY <1>2, <1>3, <1>4

LEMMA BrokerInv ==
  ASSUME AInv, cleanStaleSessions \/ handleHeartbeat \/ handleAttachCCSession \/ brokerRestart
  PROVE  AInv'
<1>0. ATypeOK /\ Fits /\ CountersOK
  BY AInvParts
<1>1. CASE cleanStaleSessions \/ handleHeartbeat
  <2>1. ATypeOK'
    BY <1>0, <1>1 DEF cleanStaleSessions, handleHeartbeat, ATypeOK
  <2>2. CountersOK'
    BY <1>0, <1>1, CountersKept DEF Counters, cleanStaleSessions, handleHeartbeat
  <2>3. UNCHANGED <<cc, posts, row, act, acks, inbox, missed>>
    BY <1>1 DEF cleanStaleSessions, handleHeartbeat
  <2>4. Fits'
    BY <1>0, <2>3
    DEF Fits, PostsFit, BlockedFits, StalledFits, CompactingFits, WorkingFits, Pending
  <2> QED  BY <2>1, <2>2, <2>4, AInvNext
<1>2. CASE handleAttachCCSession
  <2>1. CountersOK'
    BY <1>0, <1>2, LifeCounters DEF handleAttachCCSession
  <2>2. /\ row' = Cleared /\ missed' = missed \cup {"stalled", "compacting"} /\ alive' = TRUE
        /\ UNCHANGED <<cc, posts, act, inbox, acks>>
    BY <1>2 DEF handleAttachCCSession
  <2>3. ATypeOK'
    BY <1>0, <2>1, <2>2 DEF ATypeOK, CountersOK, Cleared, Badge
  <2>4. Fits'
    BY <1>0, <2>2
    DEF Fits, PostsFit, BlockedFits, StalledFits, CompactingFits, WorkingFits, Pending
  <2> QED  BY <2>1, <2>3, <2>4, AInvNext
<1>3. CASE brokerRestart
  <2>1. /\ timers' = [nudge |-> 0, resume |-> 0] /\ memo' = [streak |-> 0, noticed |-> FALSE]
        /\ sent' = [sent EXCEPT !.nudges = 0]
    BY <1>3 DEF brokerRestart, NoTimer, Forgotten
  <2>2. CountersOK'
    BY <1>0, <2>1, MaxStreakAssumption DEF CountersOK, OneToCome, NudgesCount
  <2>3. /\ act' = "none" /\ missed' = missed \cup {"blocked"}
        /\ UNCHANGED <<cc, posts, alive, row, inbox, acks>>
    BY <1>3 DEF brokerRestart
  <2>4. ATypeOK'
    BY <1>0, <2>2, <2>3 DEF ATypeOK, CountersOK, Badge
  <2>5. Fits'
    BY <1>0, <2>3
    DEF Fits, PostsFit, BlockedFits, StalledFits, CompactingFits, WorkingFits, Pending
  <2> QED  BY <2>2, <2>4, <2>5, AInvNext
<1> QED  BY <1>1, <1>2, <1>3

-----------------------------------------------------------------------------
(* The invariant, and what follows from it. *)

LEMMA NextAInv ==
  ASSUME AInv, [ANext]_avars
  PROVE  AInv'
<1>1. CASE ANext
  <2>1. CASE \E p \in posts : hookAnswered(p) \/ hookUnanswered(p) \/ hookLost(p)
    BY <2>1, HookInv
  <2>2. CASE \/ prompt \/ toolCall \/ ask \/ answered \/ finish \/ apiError
             \/ compactIdle \/ compactBusy \/ compactedIdle \/ compactedBusy
    BY <2>2, EventInv
  <2>3. CASE interrupted \/ handleHeartbeatCcPid \/ handleClearWorkingActivity
    BY <2>3, UserInv
  <2>4. CASE \E m \in Message : handleSubmitAnswer(m) \/ submitTimeout(m) \/ pushed(m)
    BY <2>4, MessageInv
  <2>5. CASE \E a \in acks : handleChannelPushed(a) \/ ackLost(a)
    BY <2>5, AckInv
  <2>6. CASE (\E r \in StallReason : fireNudge(r)) \/ fireResume
    BY <2>6, TimerInv
  <2>7. CASE cleanStaleSessions \/ handleHeartbeat \/ handleAttachCCSession \/ brokerRestart
    BY <2>7, BrokerInv
  <2> QED  BY <1>1, <2>1, <2>2, <2>3, <2>4, <2>5, <2>6, <2>7 DEF ANext
<1>2. CASE UNCHANGED avars
  <2>1. UNCHANGED <<cc, posts, alive, row, act, timers, memo, inbox, acks, missed, sent>>
    BY <1>2 DEF avars
  <2> QED  BY <2>1
           DEF AInv, ATypeOK, Fits, PostsFit, BlockedFits, StalledFits, CompactingFits, WorkingFits,
               Pending, OneToCome, NudgesCount
<1> QED  BY <1>1, <1>2

\* Whatever the hooks, the poller, the timers and the faults do, the state keeps its
\* type, and each badge is right, awaits its report or has missed one.
THEOREM ActivityInv == ASpec => []AInv
BY InitAInv, NextAInv, PTL DEF ASpec

\* The badge, the flags and the timers are always of their types
\* (broker/activity.ts).
THEOREM ATypeCorrect == ASpec => []ATypeOK
<1>1. AInv => ATypeOK
  BY DEF AInv
<1> QED  BY <1>1, ActivityInv, PTL

\* A question that waits for the user shows as blocked, whatever the order of its
\* hooks and whatever is submitted meanwhile.
THEOREM AskingShowsBlocked == ASpec => []AskingIsBlocked
<1>1. AInv => AskingIsBlocked
  BY DEF AInv, Fits, BlockedFits, AskingIsBlocked, Pending
<1> QED  BY <1>1, ActivityInv, PTL

\* A session that stopped on an error shows as stalled until it moves again.
THEOREM StoppedShows == ASpec => []StoppedIsShown
<1>1. AInv => StoppedIsShown
  BY DEF AInv, Fits, StalledFits, StoppedIsShown, Pending
<1> QED  BY <1>1, ActivityInv, PTL

\* The compacting badge and the working badge are true as soon as the reports of the
\* last event are through.
THEOREM BadgesTrue == ASpec => []BadgesAreTrue
<1>1. ASSUME AInv, posts = {}
      PROVE  /\ "compacting" \notin missed => (row.compacting <=> cc \in Compactions)
             /\ (cc \in {"idle", "stopped", "compacting"} /\ inbox = {} /\
                 "working" \notin missed) => act # "working"
  <2>1. ~ \E p \in posts : TRUE
    BY <1>1
  <2>2. row.compacting \in BOOLEAN /\ CompactingFits /\ WorkingFits
    BY <1>1 DEF AInv, ATypeOK, Fits
  <2> QED  BY <2>1, <2>2 DEF CompactingFits, WorkingFits, Pending
<1>2. AInv => BadgesAreTrue
  BY <1>1 DEF BadgesAreTrue
<1> QED  BY <1>2, ActivityInv, PTL

\* One timer is pending at most, and of each stall report one continue is sent at
\* most.
THEOREM OneContinueEach == ASpec => []OneContinuePerStall
<1>1. AInv => OneContinuePerStall
  <2>1. ASSUME AInv PROVE /\ timers.nudge \in Nat /\ timers.resume \in Nat /\ sent.continues \in Nat
                          /\ timers.nudge + timers.resume + sent.continues =< 1
    BY <2>1 DEF AInv, ATypeOK, OneToCome
  <2> QED  BY <2>1 DEF OneContinuePerStall
<1> QED  BY <1>1, ActivityInv, PTL

\* A stall that comes back after every nudge is nudged MaxStreak times at most.
THEOREM HammeringEnds == ASpec => []HammeringStops
<1>1. AInv => HammeringStops
  <2>1. ASSUME AInv PROVE /\ memo.streak \in 0..MaxStreak /\ sent.nudges \in 0..(MaxStreak + 1)
                          /\ sent.nudges =< memo.streak
    BY <2>1 DEF AInv, ATypeOK, NudgesCount
  <2> QED  BY <2>1, MaxStreakAssumption DEF HammeringStops
<1> QED  BY <1>1, ActivityInv, PTL

-----------------------------------------------------------------------------
(* The parts of Page *)

\* The slots of Page by the names they have in the parts.
env == v1
model == v1
requests == v1
webenv == v1
bounds == v2
page == v2
pane == v2
pend == v2
tab == v2
claude == v3
now == v3
shown == v3
web == v3
edits == v4
ran == v4
shift == v4
stored == v4
cache == v5
calls == v5
files == v5
ticks == v5
watch == v5
age == v6
armed == v6
dirs == v6
partial == v6
screen == v6
hooks == v7
rows == v7
runs == v7
script == v7
tmp == v7
attached == v8
brokers == v8
firing == v8
keys == v8
status == v8
behind == v9
edit == v9
verdict == v9
wrong == v9
judged == v10
typed == v10
got == v11
published == v11
dropped == v12
USE DEF env, model, requests, webenv, bounds, page, pane, pend, tab, claude,
        now, shown, web, edits, ran, shift, stored, cache, calls, files,
        ticks, watch, age, armed, dirs, partial, screen, hooks, rows, runs,
        script, tmp, attached, brokers, firing, keys, status, behind, edit,
        verdict, wrong, judged, typed, got, published, dropped

-----------------------------------------------------------------------------
(* Sets *)

\* The instance counts as this module does.
LEMMA CountsAgree ==
  ASSUME NEW X
  PROVE  B!Cardinality(X) = Cardinality(X)
BY DEF B!Cardinality, Cardinality

-----------------------------------------------------------------------------
(* Spawn *)

\* A pane shows a key by the time the watcher would send it again; and one that
\* redraws the rest of its screen shows it before the next poll.
SpawnConstants ==
  /\ \A b \in Behaviour : b.lag \in Nat /\ b.lag =< RetryPolls /\ (b.noise => b.lag =< 1)
  /\ Scripts \subseteq Seq(P!Screens)
  /\ RetryPolls \in Nat /\ TimeoutPolls \in Nat /\ MaxRequests \in Nat
  /\ None \notin [screen : P!Shot, at : Nat]

LEMMA SpawnStarts == ASSUME SpawnConstants, P!SpawnInit PROVE P!SpawnInv
<1>1. P!SpawnTypeOK
  <2>1. screen \in [shows : P!Screens \cup {"blank", "ready"}, cursor : P!Lines,
                    whole : BOOLEAN, rest : 0 .. 1]
    BY DEF P!SpawnInit, P!Blank, P!Lines, P!default
  <2>2. 0 \in 0 .. MaxRequests BY DEF SpawnConstants
  <2>3. keys = <<>> /\ script = <<>> /\ requests = 0 /\ stored = None /\ watch = None /\ wrong = FALSE
        /\ claude = "none" /\ pane \in Behaviour
    BY DEF P!SpawnInit
  <2>4. script \in Seq(P!Screens) /\ \A i \in DOMAIN keys : FALSE BY <2>3
  <2>5. requests \in 0 .. MaxRequests /\ wrong \in BOOLEAN BY <2>2, <2>3
  <2>6. claude \in {"none", "starting", "prompt", "exited"} /\ stored \in Config \cup {None}
    BY <2>3
  <2> QED BY <2>1, <2>3, <2>4, <2>5, <2>6, Zenon DEF P!SpawnTypeOK
<1> QED BY <1>1 DEF P!SpawnInit, P!SpawnInv, P!KeyIsMeant

\* What the watcher remembers stays of its kind; when it sends a key it notes
\* the screen and the poll, and while one is in flight it keeps the note.
LEMMA WatchMoves ==
  ASSUME SpawnConstants, P!SpawnInv, watch # None,
         NEW w, w = [P!Watched(watch) EXCEPT !.polls = @ + 1]
  PROVE  /\ w \in P!Watch
         /\ w.polls = watch.polls + 1
         /\ P!Sends(watch) => w.acted = [screen |-> screen, at |-> watch.polls]
         /\ P!InFlight(watch) => w.acted = watch.acted
         /\ claude = "exited" => w.acted = watch.acted
<1> DEFINE v == P!Watched(watch)
           action == P!classifyStartupScreen(screen)
           loud   == [watch EXCEPT !.quiet = None, !.failures = 0]
           since  == IF watch.quiet = None THEN watch.polls ELSE watch.quiet
<1>1. watch \in P!Watch /\ screen \in P!Shot BY DEF P!SpawnInv, P!SpawnTypeOK, P!Shot
<1>2. loud \in P!Watch /\ loud.acted = watch.acted /\ loud.polls = watch.polls /\ since \in Nat
  BY <1>1 DEF P!Watch
<1>3. /\ v \in P!Watch /\ v.polls = watch.polls
      /\ P!Sends(watch) => v.acted = [screen |-> screen, at |-> watch.polls]
      /\ P!InFlight(watch) => v.acted = watch.acted
      /\ claude = "exited" => v.acted = watch.acted
  <2>1. CASE watch.polls >= TimeoutPolls
    <3>1. v = [watch EXCEPT !.outcome = "timeout"] BY <2>1 DEF P!Watched
    <3>2. ~ P!Sends(watch) BY <1>1, <2>1 DEF P!Sends, P!Watch, SpawnConstants
    <3> QED BY <1>1, <3>1, <3>2 DEF P!Watch
  <2>2. CASE ~ (watch.polls >= TimeoutPolls) /\ claude = "exited"
    <3>1. PICK o \in {None, "gone"} : v = [watch EXCEPT !.failures = @ + 1, !.outcome = o]
      BY <2>2 DEF P!Watched
    <3>2. watch.failures + 1 \in Nat BY <1>1 DEF P!Watch
    <3>3. ~ P!Sends(watch) BY <2>2 DEF P!Sends
    <3> HIDE DEF v
    <3>4. v \in P!Watch /\ v.polls = watch.polls /\ v.acted = watch.acted
      BY <1>1, <3>1, <3>2 DEF P!Watch
    <3> QED BY <3>3, <3>4
  <2>3. CASE ~ (watch.polls >= TimeoutPolls) /\ claude # "exited" /\ action = "keys"
    <3>1. v = [loud EXCEPT !.acted = IF P!InFlight(watch) THEN @
                                     ELSE [screen |-> screen, at |-> watch.polls]]
      BY <2>3 DEF P!Watched
    <3>2. CASE P!InFlight(watch)
      <4>1. v = loud BY <1>1, <3>1, <3>2 DEF P!Watch
      <4> QED BY <1>2, <2>3, <3>2, <4>1 DEF P!Sends
    <3>3. CASE ~ P!InFlight(watch)
      <4>1. v = [loud EXCEPT !.acted = [screen |-> screen, at |-> watch.polls]] BY <3>1, <3>3
      <4>2. [screen |-> screen, at |-> watch.polls] \in [screen : P!Shot, at : Nat]
        BY <1>1 DEF P!Watch
      <4> HIDE DEF loud
      <4> QED BY <1>2, <2>3, <3>3, <4>1, <4>2 DEF P!Watch
    <3> QED BY <3>2, <3>3
  <2>4. CASE ~ (watch.polls >= TimeoutPolls) /\ claude # "exited" /\ action # "keys"
    <3>1. ~ P!Sends(watch) BY <2>4 DEF P!Sends
    <3>2. \/ v = loud \/ v = [loud EXCEPT !.outcome = "ready"]
          \/ \E o \in {None, "settled"} : v = [loud EXCEPT !.quiet = since, !.outcome = o]
      BY <2>4 DEF P!Watched
    <3> HIDE DEF loud, since, v
    <3> QED BY <1>2, <2>4, <3>1, <3>2 DEF P!Watch
  <2> QED BY <2>1, <2>2, <2>3, <2>4
<1> HIDE DEF v
<1>4. w = [v EXCEPT !.polls = @ + 1] BY DEF v
<1>5. v.polls + 1 \in Nat BY <1>3 DEF P!Watch
<1>6. w \in P!Watch /\ w.polls = v.polls + 1 /\ w.acted = v.acted BY <1>3, <1>4, <1>5 DEF P!Watch
<1> QED BY <1>3, <1>6

LEMMA SpawnStep == ASSUME SpawnConstants, P!SpawnInv, P!SpawnNext PROVE P!SpawnInv'
<1>0. /\ P!SpawnTypeOK /\ P!KeyIsMeant /\ ~ wrong /\ watch \in P!Watch \cup {None}
      /\ pane \in Behaviour /\ requests \in 0 .. MaxRequests /\ screen \in P!Shot
      /\ claude = "none" => watch = None /\ keys = <<>>
      /\ claude = "exited" => screen = P!Blank
  BY DEF P!SpawnInv, P!SpawnTypeOK, P!Shot
<1>1. P!Blank \in P!Shot /\ P!Blank.shows = "blank" /\ P!Blank.whole
  BY DEF P!Blank, P!Shot, P!Lines, P!default
<1>2. ASSUME NEW c \in Config \cup {None}, P!spawnRefused(c) PROVE P!SpawnInv'
  <2>1. requests' \in 0 .. MaxRequests BY <1>0, <1>2 DEF P!spawnRefused, SpawnConstants
  <2>2. UNCHANGED <<pane, stored, claude, screen, script, keys, watch, wrong>>
    BY <1>2 DEF P!spawnRefused
  <2> QED BY <1>0, <2>1, <2>2 DEF P!SpawnInv, P!SpawnTypeOK, P!KeyIsMeant
<1>3. ASSUME NEW c \in Config \cup {None}, P!handleSpawnSession(c) PROVE P!SpawnInv'
  <2>1. /\ claude = "none" /\ claude' = "starting" /\ watch' = P!Fresh
        /\ UNCHANGED <<pane, screen, keys, wrong>>
    BY <1>3 DEF P!handleSpawnSession
  <2>2. requests' \in 0 .. MaxRequests BY <1>0, <1>3 DEF P!handleSpawnSession, SpawnConstants
  <2>3. stored' \in Config \cup {None} BY <1>0, <1>3 DEF P!handleSpawnSession, P!SpawnTypeOK
  <2>4. script' \in Seq(P!Screens) BY <1>3 DEF P!handleSpawnSession, SpawnConstants
  <2>5. P!Fresh \in P!Watch BY DEF P!Fresh, P!Watch
  <2>6. keys = <<>> BY <1>0, <2>1
  <2>7. P!SpawnTypeOK' BY <1>0, <2>1, <2>2, <2>3, <2>4, <2>5 DEF P!SpawnTypeOK, P!Watch
  <2> QED BY <1>0, <2>1, <2>5, <2>6, <2>7 DEF P!SpawnInv, P!KeyIsMeant
<1>4. CASE P!show
  <2>1. /\ claude = "starting" /\ screen.shows \in {"blank", "text"}
        /\ UNCHANGED <<pane, stored, requests, keys, watch, wrong>>
    BY <1>4 DEF P!show
  <2>2. keys = <<>> BY <1>0, <2>1 DEF P!KeyIsMeant, P!DIALOGS
  <2>3. screen' \in P!Shot /\ script' \in Seq(P!Screens) /\ claude' \in {"starting", "prompt"}
    <3>1. CASE script = <<>>
      <4>1. /\ screen' = [P!Blank EXCEPT !.shows = "ready"]
            /\ claude' = "prompt" /\ script' = script
        BY <1>4, <3>1 DEF P!show
      <4> QED BY <1>0, <1>1, <4>1 DEF P!Shot, P!SpawnTypeOK
    <3>2. CASE script # <<>>
      <4>1. PICK b \in BOOLEAN : screen' = [P!Blank EXCEPT !.shows = Head(script), !.whole = b]
        BY <1>4, <3>2 DEF P!show
      <4>2. script' = Tail(script) /\ claude' = claude BY <1>4, <3>2 DEF P!show
      <4>3. script \in Seq(P!Screens) BY <1>0 DEF P!SpawnTypeOK
      <4>4. Head(script) \in P!Screens /\ Tail(script) \in Seq(P!Screens) BY <3>2, <4>3
      <4> QED BY <1>1, <2>1, <4>1, <4>2, <4>4 DEF P!Shot
    <3> QED BY <3>1, <3>2
  <2>4. P!SpawnTypeOK' BY <1>0, <2>1, <2>3 DEF P!SpawnTypeOK, P!Shot
  <2> QED BY <1>0, <2>1, <2>2, <2>3, <2>4 DEF P!SpawnInv, P!KeyIsMeant
<1>5. CASE P!drawn
  <2>1. /\ ~ screen.whole /\ screen' = [screen EXCEPT !.whole = TRUE]
        /\ UNCHANGED <<pane, stored, requests, claude, script, keys, watch, wrong>>
    BY <1>5 DEF P!drawn
  <2>2. claude # "exited" BY <1>0, <1>1, <2>1
  <2>3. keys = <<>> BY <1>0, <2>1, <2>2 DEF P!KeyIsMeant
  <2>4. screen' \in P!Shot BY <1>0, <2>1 DEF P!Shot
  <2>5. P!SpawnTypeOK' BY <1>0, <2>1, <2>4 DEF P!SpawnTypeOK, P!Shot
  <2> QED BY <1>0, <2>1, <2>2, <2>3, <2>5 DEF P!SpawnInv, P!KeyIsMeant
<1>6. CASE P!redrawn
  <2>1. /\ pane.noise /\ screen.shows \in P!DIALOGS
        /\ screen' = [screen EXCEPT !.rest = 1 - @]
        /\ UNCHANGED <<pane, stored, requests, claude, script, keys, watch, wrong>>
    BY <1>6 DEF P!redrawn
  <2>2. claude # "exited" BY <1>0, <1>1, <2>1 DEF P!DIALOGS
  <2>3. /\ screen' \in P!Shot /\ screen'.shows = screen.shows
        /\ screen'.cursor = screen.cursor /\ screen'.whole = screen.whole
    <3>1. screen.rest \in 0 .. 1 /\ 1 - screen.rest \in 0 .. 1 BY <1>0 DEF P!Shot
    <3> QED BY <1>0, <2>1, <3>1 DEF P!Shot
  <2>4. P!SpawnTypeOK' BY <1>0, <2>1, <2>3 DEF P!SpawnTypeOK, P!Shot
  <2>5. P!Keys(screen') = P!Keys(screen) BY <2>3 DEF P!Keys
  <2>6. P!KeyIsMeant' BY <1>0, <2>1, <2>3, <2>5 DEF P!KeyIsMeant
  <2> QED BY <1>0, <2>1, <2>2, <2>4, <2>6 DEF P!SpawnInv
<1>7. CASE P!landed
  <2>1. keys # <<>> /\ keys' = Tail(keys) /\ UNCHANGED <<pane, stored, requests, script, watch>>
    BY <1>7 DEF P!landed
  <2>2. PICK k \in {"Down", "Up", "Enter"}, a \in 0 .. pane.lag :
          /\ keys = <<[key |-> k, age |-> a]>>
          /\ claude # "exited" => screen.shows \in P!DIALOGS /\ P!Keys(screen) = <<k>>
    BY <1>0, <2>1 DEF P!KeyIsMeant
  <2>3. keys' = <<>> /\ Head(keys).key = k BY <2>1, <2>2
  <2>4. /\ screen' \in P!Shot /\ wrong' = wrong /\ claude' = claude
        /\ claude = "exited" => screen' = P!Blank
    <3>1. CASE claude = "exited"
      <4>1. screen.shows = "blank" BY <1>0, <1>1, <3>1
      <4> QED BY <1>0, <1>7, <3>1, <4>1 DEF P!landed, P!DIALOGS
    <3>2. CASE claude # "exited"
      <4>1. screen.shows \in P!DIALOGS /\ P!Keys(screen) = <<k>> BY <2>2, <3>2
      <4>2. CASE k # "Enter"
        <5>1. PICK c \in P!Moved(k) : screen' = [screen EXCEPT !.cursor = c]
          BY <1>7, <2>3, <4>1, <4>2 DEF P!landed, P!DIALOGS
        <5>2. c \in P!Lines BY DEF P!Moved, P!Lines
        <5> QED BY <1>0, <1>7, <2>3, <3>2, <4>1, <4>2, <5>1, <5>2 DEF P!landed, P!Shot
      <4>3. CASE k = "Enter"
        <5>1. screen.cursor = P!want[screen.shows] BY <4>1, <4>3 DEF P!Keys
        <5> QED BY <1>1, <1>7, <2>3, <3>2, <4>1, <4>3, <5>1 DEF P!landed, P!DIALOGS
      <4> QED BY <4>2, <4>3
    <3> QED BY <3>1, <3>2
  <2>5. P!SpawnTypeOK' BY <1>0, <2>1, <2>3, <2>4 DEF P!SpawnTypeOK, P!Shot
  <2> QED BY <1>0, <2>1, <2>3, <2>4, <2>5 DEF P!SpawnInv, P!KeyIsMeant
<1>8. CASE P!userAnswers
  <2>1. /\ screen.shows = "unknown" /\ screen' = P!Blank
        /\ UNCHANGED <<pane, stored, requests, claude, script, keys, watch, wrong>>
    BY <1>8 DEF P!userAnswers
  <2>2. claude # "exited" BY <1>0, <1>1, <2>1
  <2>3. keys = <<>> BY <1>0, <2>1, <2>2 DEF P!KeyIsMeant, P!DIALOGS
  <2>4. P!SpawnTypeOK' BY <1>0, <1>1, <2>1 DEF P!SpawnTypeOK, P!Shot
  <2> QED BY <1>0, <2>1, <2>3, <2>4 DEF P!SpawnInv, P!KeyIsMeant
<1>9. CASE P!exits
  <2>1. /\ claude' = "exited" /\ screen' = P!Blank
        /\ UNCHANGED <<pane, stored, requests, script, keys, watch, wrong>>
    BY <1>9 DEF P!exits
  <2>2. P!SpawnTypeOK' BY <1>0, <1>1, <2>1 DEF P!SpawnTypeOK, P!Shot
  <2> QED BY <1>0, <2>1, <2>2 DEF P!SpawnInv, P!KeyIsMeant
<1>10. CASE P!step
  <2> DEFINE aged == [i \in DOMAIN keys |-> [keys[i] EXCEPT !.age = @ + 1]]
             new  == IF P!Sends(watch)
                     THEN [i \in DOMAIN P!Keys(screen) |-> [key |-> P!Keys(screen)[i], age |-> 0]]
                     ELSE <<>>
  <2>1. /\ watch # None /\ keys' = aged \o new
        /\ \A i \in DOMAIN keys : keys[i].age + 1 < pane.lag
        /\ watch' = [P!Watched(watch) EXCEPT !.polls = @ + 1]
        /\ UNCHANGED <<pane, stored, requests, claude, screen, script, wrong>>
    BY <1>10 DEF P!step
  <2>2. /\ watch' \in P!Watch /\ watch'.polls = watch.polls + 1
        /\ P!Sends(watch) => watch'.acted = [screen |-> screen, at |-> watch.polls]
        /\ P!InFlight(watch) => watch'.acted = watch.acted
        /\ claude = "exited" => watch'.acted = watch.acted
    BY <2>1, WatchMoves
  <2>3. pane.lag \in Nat /\ pane.lag =< RetryPolls /\ (pane.noise => pane.lag =< 1)
    BY <1>0 DEF SpawnConstants
  <2>4. watch \in P!Watch BY <1>0, <2>1
  <2>5. P!KeyIsMeant'
    <3>1. CASE keys # <<>>
      <4>1. PICK k \in {"Down", "Up", "Enter"}, a \in 0 .. pane.lag :
              /\ keys = <<[key |-> k, age |-> a]>>
              /\ watch.acted # None /\ watch.polls = watch.acted.at + 1 + a
              /\ claude # "exited" =>
                    /\ screen.shows \in P!DIALOGS /\ screen.whole /\ P!Keys(screen) = <<k>>
                    /\ pane.noise \/ watch.acted.screen = screen
        BY <1>0, <3>1 DEF P!KeyIsMeant
      <4>2. a + 1 < pane.lag
        <5>1. 1 \in DOMAIN keys /\ keys[1].age = a BY <4>1
        <5> QED BY <2>1, <5>1
      <4>3. aged = <<[key |-> k, age |-> a + 1]>> BY <4>1
      <4>4. watch.acted.at \in Nat /\ watch.acted \in [screen : P!Shot, at : Nat] BY <2>4, <4>1 DEF P!Watch
      <4>5. claude # "exited" => P!InFlight(watch)
        <5> SUFFICES ASSUME claude # "exited" PROVE P!InFlight(watch) OBVIOUS
        <5>1. ~ pane.noise BY <2>3, <4>1, <4>2
        <5>2. watch.acted.screen = screen BY <4>1, <5>1
        <5>3. watch.polls - watch.acted.at < RetryPolls BY <2>3, <4>1, <4>2, <4>4 DEF SpawnConstants
        <5> QED BY <4>1, <5>2, <5>3 DEF P!InFlight
      <4>6. ~ P!Sends(watch) BY <4>5 DEF P!Sends
      <4>7. keys' = <<[key |-> k, age |-> a + 1]>> BY <2>1, <4>3, <4>6
      <4>8. watch'.acted = watch.acted BY <2>2, <4>5
      <4>9. watch'.polls = watch'.acted.at + 1 + (a + 1) BY <2>2, <4>1, <4>4, <4>8
      <4>10. a + 1 \in 0 .. pane.lag BY <2>3, <4>1, <4>2
      <4> QED BY <2>1, <4>1, <4>7, <4>8, <4>9, <4>10 DEF P!KeyIsMeant
    <3>2. CASE keys = <<>> /\ ~ P!Sends(watch)
      <4>1. keys' = <<>> BY <2>1, <3>2
      <4> QED BY <4>1 DEF P!KeyIsMeant
    <3>3. CASE keys = <<>> /\ P!Sends(watch)
      <4>1. /\ screen.shows \in P!DIALOGS /\ screen.whole
            /\ watch'.acted = [screen |-> screen, at |-> watch.polls]
        BY <2>2, <3>3 DEF P!Sends, P!classifyStartupScreen
      <4>2. PICK k \in {"Down", "Up", "Enter"} : P!Keys(screen) = <<k>> BY DEF P!Keys
      <4>3. new = <<[key |-> k, age |-> 0]>> BY <3>3, <4>2
      <4>4. keys' = <<[key |-> k, age |-> 0]>> BY <2>1, <3>3, <4>3
      <4>5. watch'.acted # None
        <5>1. watch'.acted \in [screen : P!Shot, at : Nat] BY <1>0, <2>4, <4>1 DEF P!Watch
        <5> QED BY <5>1 DEF SpawnConstants
      <4>6. watch'.polls = watch'.acted.at + 1 + 0 BY <2>2, <2>4, <4>1 DEF P!Watch
      <4>7. 0 \in 0 .. pane.lag BY <2>3
      <4>8. watch'.acted.screen = screen BY <4>1
      <4>9. /\ keys' = <<[key |-> k, age |-> 0]>>
            /\ watch'.acted # None /\ watch'.polls = watch'.acted.at + 1 + 0
            /\ claude' # "exited" =>
                  /\ screen'.shows \in P!DIALOGS /\ screen'.whole /\ P!Keys(screen') = <<k>>
                  /\ pane'.noise \/ watch'.acted.screen = screen'
        BY <2>1, <4>1, <4>2, <4>4, <4>5, <4>6, <4>8
      <4>10. 0 \in 0 .. pane'.lag BY <2>1, <4>7
      <4> QED BY <4>9, <4>10 DEF P!KeyIsMeant
    <3> QED BY <3>1, <3>2, <3>3
  <2>6. \A i \in DOMAIN keys' : keys'[i].key \in {"Down", "Up", "Enter"} /\ keys'[i].age \in 0 .. pane.lag
    <3>1. CASE keys' = <<>> BY <3>1
    <3>2. ASSUME NEW k \in {"Down", "Up", "Enter"}, NEW a \in 0 .. pane.lag,
                 keys' = <<[key |-> k, age |-> a]>>
          PROVE  \A i \in DOMAIN keys' : keys'[i].key \in {"Down", "Up", "Enter"} /\ keys'[i].age \in 0 .. pane.lag
      BY <3>2
    <3>3. keys' = <<>> \/ \E k \in {"Down", "Up", "Enter"}, a \in 0 .. pane.lag :
                              keys' = <<[key |-> k, age |-> a]>>
      BY <2>1, <2>5 DEF P!KeyIsMeant
    <3> QED BY <3>1, <3>2, <3>3
  <2>7. P!SpawnTypeOK' BY <1>0, <2>1, <2>2, <2>6 DEF P!SpawnTypeOK, P!Watch
  <2>8. claude # "none" BY <1>0, <2>1
  <2> QED BY <1>0, <2>1, <2>2, <2>5, <2>7, <2>8 DEF P!SpawnInv
<1> QED BY <1>2, <1>3, <1>4, <1>5, <1>6, <1>7, <1>8, <1>9, <1>10 DEF P!SpawnNext

\* If a pane shows the effect of a key before the watcher would send it again,
\* and by the next poll when it redraws something else meanwhile: no dialog of
\* a new session gets an answer nobody wanted (createDialogWatcher).
THEOREM OnlyWantedAnswers ==
  ASSUME SpawnConstants
  PROVE  PageSpec => []OnlyTheWanted
<1> DEFINE Inv == part = "spawn" => P!SpawnInv
<1>1. PageInit => Inv BY SpawnStarts DEF PageInit
<1>2. Inv /\ [PageNext]_<<part, slots>> => Inv'
  <2> SUFFICES ASSUME Inv, [PageNext]_<<part, slots>>, part' = "spawn" PROVE P!SpawnInv' OBVIOUS
  <2>1. CASE PageNext BY <2>1, SpawnStep DEF PageNext
  <2>2. CASE UNCHANGED <<part, slots>>
    <3>1. P!SpawnInv /\ UNCHANGED slots BY <2>2
    <3>2. P!SpawnTypeOK' BY <3>1 DEF slots, P!SpawnInv, P!SpawnTypeOK
    <3>3. P!KeyIsMeant' BY <3>1 DEF slots, P!SpawnInv, P!KeyIsMeant
    <3> QED BY <3>1, <3>2, <3>3 DEF slots, P!SpawnInv
  <2> QED BY <2>1, <2>2
<1>3. Inv => OnlyTheWanted BY DEF P!SpawnInv, P!OnlyTheWanted, OnlyTheWanted
<1> QED BY <1>1, <1>2, <1>3, PTL DEF PageSpec

-----------------------------------------------------------------------------
(* ModelChip *)

ChipConstants ==
  /\ ResendTicks \in Nat \ {0}
  /\ MaxSwitches \in Nat /\ MaxRebinds \in Nat /\ MaxLost \in Nat
  /\ None \notin Model

LEMMA ChipStarts == ASSUME ChipConstants, H!ChipInit PROVE H!ChipInv
<1> USE DEF ChipConstants, H!ChipInit
<1>a. bounds \in [switches : 0 .. MaxSwitches, rebinds : 0 .. MaxRebinds, lost : 0 .. MaxLost]
  OBVIOUS
<1>b. attached \in BOOLEAN /\ ran \in BOOLEAN OBVIOUS
<1>c. age \in 0 .. ResendTicks /\ behind \in 0 .. ResendTicks+1 OBVIOUS
<1>1. H!ChipTypeOK BY <1>a, <1>b, <1>c DEF H!ChipTypeOK
<1> QED BY <1>1 DEF ChipConstants, H!ChipInit, H!ChipInv, H!ChipTypeOK

LEMMA ChipStep ==
  ASSUME ChipConstants, H!ChipInv, H!ChipNext PROVE H!ChipInv'
<1> USE DEF ChipConstants, H!ChipInv
<1>0. /\ H!ChipTypeOK
      /\ bounds \in [switches : 0 .. MaxSwitches, rebinds : 0 .. MaxRebinds, lost : 0 .. MaxLost]
  BY DEF H!ChipTypeOK
<1>1. CASE H!Tick
  <2>5. behind' \in 0 .. ResendTicks+1 BY <1>1, <1>0 DEF H!Tick, H!ChipTypeOK, H!Vouched
  <2>6. age' \in 0 .. ResendTicks BY <1>1, <1>0 DEF H!Tick, H!ChipTypeOK, H!Vouched
  <2>7. ran' \in BOOLEAN BY <1>1, <1>0 DEF H!Tick, H!ChipTypeOK, H!Vouched
  <2>1. H!ChipTypeOK' BY <1>1, <1>0, <2>5, <2>6, <2>7 DEF H!Tick, H!ChipTypeOK
  <2>2. behind' =< ResendTicks BY <1>1, <1>0 DEF H!Tick, H!ChipTypeOK, H!Vouched
  <2>3. hooks' = {} /\ ran' = FALSE BY <1>1 DEF H!Tick
  <2>4. behind' > 0 /\ attached' /\ shown' # model' /\ cache' = model' => behind' =< age'
    BY <1>1, <1>0 DEF H!Tick, H!ChipTypeOK, H!Vouched
  <2> QED BY <2>1, <2>2, <2>3, <2>4
<1>2. ASSUME NEW m \in Model, H!switchModel(m) PROVE H!ChipInv'
  <2>1. bounds' \in [switches : 0 .. MaxSwitches, rebinds : 0 .. MaxRebinds, lost : 0 .. MaxLost]
    BY <1>2, <1>0 DEF H!switchModel, H!Spend
  <2>3. ran' \in BOOLEAN BY <1>2 DEF H!switchModel
  <2>2. behind' = 0 /\ H!ChipTypeOK' BY <1>0, <1>2, <2>1, <2>3 DEF H!switchModel, H!ChipTypeOK
  <2> QED BY <2>2
<1>3. CASE H!register
  <2>1. ran' \in BOOLEAN /\ attached' \in BOOLEAN BY <1>3 DEF H!register
  <2>2. behind' = 0 /\ H!ChipTypeOK' BY <1>0, <1>3, <2>1 DEF H!register, H!ChipTypeOK
  <2> QED BY <2>2
<1>4. CASE H!leave
  <2>1. bounds' \in [switches : 0 .. MaxSwitches, rebinds : 0 .. MaxRebinds, lost : 0 .. MaxLost]
    BY <1>4, <1>0 DEF H!leave, H!Spend
  <2>2. attached' = FALSE /\ H!ChipTypeOK' BY <1>0, <1>4, <2>1 DEF H!leave, H!ChipTypeOK
  <2> QED BY <1>4, <2>2 DEF H!leave, H!ChipTypeOK
<1>5. ASSUME NEW i \in 1 .. MaxHooks, H!reportModel(i) PROVE H!ChipInv'
  <2>1. CASE H!Vouched BY <1>5, <2>1 DEF H!reportModel, H!Vouched, H!ChipTypeOK
  <2>2. CASE ~H!Vouched BY <1>5, <2>2 DEF H!reportModel, H!Vouched, H!Hook, H!ChipTypeOK
  <2> QED BY <2>1, <2>2
<1>6. ASSUME NEW k \in hooks, H!handleReportModel(k) PROVE H!ChipInv'
  <2>1. CASE attached BY <1>6, <2>1 DEF H!handleReportModel, H!Vouched, H!Hook, H!ChipTypeOK
  <2>2. CASE ~attached BY <1>6, <2>2 DEF H!handleReportModel, H!Vouched, H!Hook, H!ChipTypeOK
  <2> QED BY <2>1, <2>2
<1>7. ASSUME NEW k \in hooks, H!answered(k) PROVE H!ChipInv'
  <2>1. CASE k.at = "ok" BY <1>7, <2>1 DEF H!answered, H!Vouched, H!Hook, H!ChipTypeOK
  <2>2. CASE k.at # "ok" BY <1>7, <2>2 DEF H!answered, H!Vouched, H!Hook, H!ChipTypeOK
  <2> QED BY <2>1, <2>2
<1>8. ASSUME NEW k \in hooks, H!timeout(k) PROVE H!ChipInv'
  <2>1. bounds' \in [switches : 0 .. MaxSwitches, rebinds : 0 .. MaxRebinds, lost : 0 .. MaxLost]
    BY <1>8, <1>0 DEF H!timeout, H!Spend
  <2> QED BY <1>8, <2>1 DEF H!timeout, H!Vouched, H!ChipTypeOK
<1> QED BY <1>1, <1>2, <1>3, <1>4, <1>5, <1>6, <1>7, <1>8 DEF H!ChipNext

\* Whatever is switched, registered or lost: a session that keeps working does
\* not show a wrong model for longer than a report is vouched for (reportModel).
THEOREM ChipFollowsModel ==
  ASSUME ChipConstants
  PROVE  PageSpec => []ChipCatchesUp
<1> DEFINE Inv == part = "chip" => H!ChipInv
<1>1. PageInit => Inv BY ChipStarts DEF PageInit
<1>2. Inv /\ [PageNext]_<<part, slots>> => Inv'
  <2> SUFFICES ASSUME Inv, [PageNext]_<<part, slots>>, part' = "chip" PROVE H!ChipInv' OBVIOUS
  <2>1. CASE PageNext BY <2>1, ChipStep DEF PageNext
  <2>2. CASE UNCHANGED <<part, slots>>
    <3>1. H!ChipInv /\ UNCHANGED slots BY <2>2
    <3> QED BY <3>1 DEF slots, H!ChipInv, H!ChipTypeOK, H!Vouched
  <2> QED BY <2>1, <2>2
<1>3. Inv => ChipCatchesUp BY DEF H!ChipInv, H!ChipCatchesUp, ChipCatchesUp
<1> QED BY <1>1, <1>2, <1>3, PTL DEF PageSpec

-----------------------------------------------------------------------------
(* WebDist *)

WebConstants ==
  /\ PruneAge \in Nat \ {0, 1} /\ MaxTicks \in Nat /\ MaxEdits \in Nat
  /\ User \in Broker /\ None \notin Key

\* No two brokers start into old litter, no sleep past the prune age, no edit under a start.
OnTime == \A e \in WebEnvs : e \cap {"close", "asleep", "edited"} = {}

LEMMA WebStarts == ASSUME WebConstants, W!WebInit PROVE W!WebInv
<1> USE DEF WebConstants
<1>1. W!WebTypeOK
  <2>1. dirs \in [Key -> W!Dir] BY DEF W!WebInit, W!Dir, W!NoDir
  <2>2. tmp \in [Broker -> W!Dir] BY DEF W!WebInit, W!Dir, W!NoDir
  <2>3. brokers \in [Broker -> W!Proc] BY DEF W!WebInit, W!Proc, W!Place
  <2>4. tab \in W!TabState BY DEF W!WebInit, W!TabState, W!NoTab
  <2>5. webenv \in WebEnvs /\ web \in Key /\ edits = 0 /\ ticks = 0 BY DEF W!WebInit
  <2> QED BY <2>1, <2>2, <2>3, <2>4, <2>5 DEF W!WebTypeOK
<1>2. W!StartersAgree BY DEF W!WebInit, W!StartersAgree, W!Starting, W!NoDir
<1>3. W!DirsAreNamed BY DEF W!WebInit, W!DirsAreNamed, W!Starting, W!NoDir
<1>4. W!TakenIsThere /\ W!ServedIsTouched /\ W!VictimsAreUnused
  BY DEF W!WebInit, W!TakenIsThere, W!ServedIsTouched, W!VictimsAreUnused, W!isCompleteDist, W!Mine
<1> QED BY <1>1, <1>2, <1>3, <1>4 DEF W!WebInv

\* Most steps of a broker change where it is and no more of it.
LEMMA Going ==
  ASSUME brokers \in [Broker -> W!Proc], NEW b \in Broker, NEW at \in W!Place, W!Goes(b, at)
  PROVE  /\ brokers' \in [Broker -> W!Proc]
         /\ \A o \in Broker : /\ brokers'[o].key = brokers[o].key
                              /\ brokers'[o].due = brokers[o].due
                              /\ brokers'[o].victims = brokers[o].victims
                              /\ brokers'[o].bundle = brokers[o].bundle
                              /\ brokers'[o].at = IF o = b THEN at ELSE brokers[o].at
BY DEF W!Goes, W!Proc

LEMMA WebStep ==
  ASSUME WebConstants, OnTime, W!WebInv, W!WebNext PROVE W!WebInv'
<1> USE DEF WebConstants
<1>0. W!WebTypeOK /\ W!StartersAgree /\ W!DirsAreNamed /\ W!TakenIsThere /\ W!ServedIsTouched /\ W!VictimsAreUnused BY DEF W!WebInv
<1>f. /\ W!NoDir \in W!Dir /\ [W!NoDir EXCEPT !.is = "junk"] \in W!Dir
      /\ \A k \in Key : [is |-> "complete", of |-> k, age |-> 0] \in W!Dir
      /\ \A x \in W!Dir : [x EXCEPT !.age = 0] \in W!Dir
  BY DEF W!Dir, W!NoDir
<1>k. \A o \in Broker : brokers[o].key \in Key BY <1>0 DEF W!WebTypeOK, W!Proc
<1>n. PruneAge \in Nat /\ PruneAge > 1 /\ \A k \in Key : dirs[k].age \in Nat BY <1>0 DEF W!WebTypeOK, W!Dir
<1>e. webenv \cap {"close", "asleep", "edited"} = {} BY <1>0 DEF OnTime, W!WebTypeOK
<1>1. ASSUME NEW b \in Broker, W!start(b) PROVE W!WebInv'
    <2>1. W!WebTypeOK' BY <1>0, <1>f, <1>1, <1>e DEF W!WebTypeOK, W!start, W!Proc, W!Place
    <2>2. W!StartersAgree' BY <1>0, <1>1, <1>e DEF W!WebTypeOK, W!StartersAgree, W!Starting, W!start, W!Proc, W!Place
    <2>3. W!DirsAreNamed' BY <1>0, <1>1, <1>e DEF W!WebTypeOK, W!DirsAreNamed, W!Starting, W!start, W!Proc, W!Place, W!StartersAgree, W!Aged, W!Mine, W!Dir
    <2>4. W!TakenIsThere' BY <1>0, <1>1, <1>e DEF W!WebTypeOK, W!TakenIsThere, W!isCompleteDist, W!Mine, W!start, W!Proc, W!Place
    <2>5. W!ServedIsTouched' BY <1>0, <1>1, <1>e DEF W!WebTypeOK, W!ServedIsTouched, W!Mine, W!start, W!Proc, W!Place
    <2>6. W!VictimsAreUnused' BY <1>0, <1>1, <1>e DEF W!WebTypeOK, W!VictimsAreUnused, W!start, W!Proc, W!Place
    <2> QED BY <2>1, <2>2, <2>3, <2>4, <2>5, <2>6 DEF W!WebInv
<1>2. ASSUME NEW b \in Broker, W!look(b) PROVE W!WebInv'
  <2>0. brokers[b].at = "look" /\ UNCHANGED <<webenv, web, edits, ticks, dirs, tab>> BY <1>2 DEF W!look
  <2>a. CASE W!isCompleteDist(b) /\ W!Goes(b, "adopt") /\ UNCHANGED tmp
    <3>g. /\ brokers' \in [Broker -> W!Proc]
          /\ \A o \in Broker : /\ brokers'[o].key = brokers[o].key
                               /\ brokers'[o].due = brokers[o].due
                               /\ brokers'[o].victims = brokers[o].victims
                               /\ brokers'[o].bundle = brokers[o].bundle
                               /\ brokers'[o].at = IF o = b THEN "adopt" ELSE brokers[o].at
      BY <2>a, <1>0, Going DEF W!WebTypeOK, W!Place
    <3>1. W!WebTypeOK' BY <1>0, <1>f, <2>0, <2>a, <3>g DEF W!WebTypeOK
    <3>2. W!StartersAgree' BY <1>0, <2>0, <2>a, <3>g DEF W!WebTypeOK, W!StartersAgree, W!Starting
    <3>3. W!DirsAreNamed' BY <1>0, <2>0, <2>a, <3>g DEF W!WebTypeOK, W!DirsAreNamed, W!Starting
    <3>4. W!TakenIsThere' BY <1>0, <2>0, <2>a, <3>g DEF W!WebTypeOK, W!TakenIsThere, W!isCompleteDist, W!Mine
    <3>5. W!ServedIsTouched' BY <1>0, <2>0, <2>a, <3>g DEF W!WebTypeOK, W!ServedIsTouched, W!Mine
    <3>6. W!VictimsAreUnused' BY <1>0, <2>0, <2>a, <3>g DEF W!WebTypeOK, W!VictimsAreUnused
    <3> QED BY <3>1, <3>2, <3>3, <3>4, <3>5, <3>6 DEF W!WebInv
  <2>b. CASE tmp' = [tmp EXCEPT ![b] = [W!NoDir EXCEPT !.is = "junk"]] /\ W!Goes(b, "build")
    <3>g. /\ brokers' \in [Broker -> W!Proc]
          /\ \A o \in Broker : /\ brokers'[o].key = brokers[o].key
                               /\ brokers'[o].due = brokers[o].due
                               /\ brokers'[o].victims = brokers[o].victims
                               /\ brokers'[o].bundle = brokers[o].bundle
                               /\ brokers'[o].at = IF o = b THEN "build" ELSE brokers[o].at
      BY <2>b, <1>0, Going DEF W!WebTypeOK, W!Place
    <3>1. W!WebTypeOK' BY <1>0, <1>f, <2>0, <2>b, <3>g DEF W!WebTypeOK
    <3>2. W!StartersAgree' BY <1>0, <2>0, <2>b, <3>g DEF W!WebTypeOK, W!StartersAgree, W!Starting, W!Dir, W!NoDir
    <3>3. W!DirsAreNamed' BY <1>0, <2>0, <2>b, <3>g DEF W!WebTypeOK, W!DirsAreNamed, W!Starting, W!StartersAgree
    <3>4. W!TakenIsThere' BY <1>0, <2>0, <2>b, <3>g DEF W!WebTypeOK, W!TakenIsThere, W!isCompleteDist, W!Mine
    <3>5. W!ServedIsTouched' BY <1>0, <2>0, <2>b, <3>g DEF W!WebTypeOK, W!ServedIsTouched, W!Mine
    <3>6. W!VictimsAreUnused' BY <1>0, <2>0, <2>b, <3>g DEF W!WebTypeOK, W!VictimsAreUnused
    <3> QED BY <3>1, <3>2, <3>3, <3>4, <3>5, <3>6 DEF W!WebInv
  <2> QED BY <1>2, <2>a, <2>b DEF W!look
<1>3. ASSUME NEW b \in Broker, W!build(b) PROVE W!WebInv'
  <2>0. brokers[b].at = "build" /\ UNCHANGED <<webenv, web, edits, ticks, dirs, tab>> BY <1>3 DEF W!build
  <2>a. CASE tmp' = [tmp EXCEPT ![b] = [is |-> "complete", of |-> web, age |-> 0]] /\ W!Goes(b, "publish")
    <3>g. /\ brokers' \in [Broker -> W!Proc]
          /\ \A o \in Broker : /\ brokers'[o].key = brokers[o].key
                               /\ brokers'[o].due = brokers[o].due
                               /\ brokers'[o].victims = brokers[o].victims
                               /\ brokers'[o].bundle = brokers[o].bundle
                               /\ brokers'[o].at = IF o = b THEN "publish" ELSE brokers[o].at
      BY <2>a, <1>0, Going DEF W!WebTypeOK, W!Place
    <3>1. W!WebTypeOK' BY <1>0, <1>f, <2>0, <2>a, <3>g DEF W!WebTypeOK
    <3>2. W!StartersAgree' BY <1>0, <2>0, <2>a, <3>g DEF W!WebTypeOK, W!StartersAgree, W!Starting, W!Dir, W!NoDir
    <3>3. W!DirsAreNamed' BY <1>0, <2>0, <2>a, <3>g DEF W!WebTypeOK, W!DirsAreNamed, W!Starting
    <3>4. W!TakenIsThere' BY <1>0, <2>0, <2>a, <3>g DEF W!WebTypeOK, W!TakenIsThere, W!isCompleteDist, W!Mine
    <3>5. W!ServedIsTouched' BY <1>0, <2>0, <2>a, <3>g DEF W!WebTypeOK, W!ServedIsTouched, W!Mine
    <3>6. W!VictimsAreUnused' BY <1>0, <2>0, <2>a, <3>g DEF W!WebTypeOK, W!VictimsAreUnused
    <3> QED BY <3>1, <3>2, <3>3, <3>4, <3>5, <3>6 DEF W!WebInv
  <2>b. CASE tmp' = [tmp EXCEPT ![b] = W!NoDir] /\ W!Goes(b, "bundling")
    <3>g. /\ brokers' \in [Broker -> W!Proc]
          /\ \A o \in Broker : /\ brokers'[o].key = brokers[o].key
                               /\ brokers'[o].due = brokers[o].due
                               /\ brokers'[o].victims = brokers[o].victims
                               /\ brokers'[o].bundle = brokers[o].bundle
                               /\ brokers'[o].at = IF o = b THEN "bundling" ELSE brokers[o].at
      BY <2>b, <1>0, Going DEF W!WebTypeOK, W!Place
    <3>1. W!WebTypeOK' BY <1>0, <1>f, <2>0, <2>b, <3>g DEF W!WebTypeOK
    <3>2. W!StartersAgree' BY <1>0, <2>0, <2>b, <3>g DEF W!WebTypeOK, W!StartersAgree, W!Starting, W!Dir, W!NoDir
    <3>3. W!DirsAreNamed' BY <1>0, <2>0, <2>b, <3>g DEF W!WebTypeOK, W!DirsAreNamed, W!Starting
    <3>4. W!TakenIsThere' BY <1>0, <2>0, <2>b, <3>g DEF W!WebTypeOK, W!TakenIsThere, W!isCompleteDist, W!Mine
    <3>5. W!ServedIsTouched' BY <1>0, <2>0, <2>b, <3>g DEF W!WebTypeOK, W!ServedIsTouched, W!Mine
    <3>6. W!VictimsAreUnused' BY <1>0, <2>0, <2>b, <3>g DEF W!WebTypeOK, W!VictimsAreUnused
    <3> QED BY <3>1, <3>2, <3>3, <3>4, <3>5, <3>6 DEF W!WebInv
  <2> QED BY <1>3, <2>a, <2>b DEF W!build
<1>r. ASSUME NEW b \in Broker, brokers[b].at \in {"publish", "again"}, W!Renamed(b),
             UNCHANGED <<webenv, web, edits, ticks, tab>>
      PROVE  W!WebInv'
  <2>a. dirs' = [dirs EXCEPT ![web] = [is |-> "complete", of |-> web, age |-> 0]] /\ tmp' = [tmp EXCEPT ![b] = W!NoDir] /\ W!Goes(b, "prune")
    BY <1>0, <1>r DEF W!Renamed, W!StartersAgree, W!Starting
  <2>b. dirs[web].is = "absent" /\ brokers[b].key = web BY <1>0, <1>r DEF W!Renamed, W!CanRename, W!StartersAgree, W!Starting, W!Mine
    <2>g. /\ brokers' \in [Broker -> W!Proc]
          /\ \A o \in Broker : /\ brokers'[o].key = brokers[o].key
                               /\ brokers'[o].due = brokers[o].due
                               /\ brokers'[o].victims = brokers[o].victims
                               /\ brokers'[o].bundle = brokers[o].bundle
                               /\ brokers'[o].at = IF o = b THEN "prune" ELSE brokers[o].at
      BY <2>a, <1>0, Going DEF W!WebTypeOK, W!Place
    <2>1. W!WebTypeOK' BY <1>0, <1>f, <1>r, <2>a, <2>b, <2>g DEF W!WebTypeOK
    <2>2. W!StartersAgree' BY <1>0, <1>r, <2>a, <2>b, <2>g DEF W!WebTypeOK, W!StartersAgree, W!Starting, W!Dir, W!NoDir
    <2>3. W!DirsAreNamed' BY <1>0, <1>r, <2>a, <2>b, <2>g DEF W!WebTypeOK, W!DirsAreNamed, W!Starting, W!Dir
    <2>4. W!TakenIsThere' BY <1>0, <1>r, <2>a, <2>b, <2>g DEF W!WebTypeOK, W!TakenIsThere, W!isCompleteDist, W!Mine, W!Dir
    <2>5. W!ServedIsTouched' BY <1>0, <1>r, <2>a, <2>b, <2>g DEF W!WebTypeOK, W!ServedIsTouched, W!Mine, W!Dir
    <2>6. W!VictimsAreUnused' BY <1>0, <1>r, <2>a, <2>b, <2>g DEF W!WebTypeOK, W!VictimsAreUnused, W!Dir
    <2> QED BY <2>1, <2>2, <2>3, <2>4, <2>5, <2>6 DEF W!WebInv
<1>d. ASSUME NEW b \in Broker, brokers[b].at \in {"publish", "again"}, 
             NEW at \in {"adopt", "bundling"}, W!Discarded(b, at), at = "adopt" => W!isCompleteDist(b),
             UNCHANGED <<webenv, web, edits, ticks, tab>>
      PROVE  W!WebInv'
  <2>a. tmp' = [tmp EXCEPT ![b] = W!NoDir] /\ W!Goes(b, at) /\ dirs' = dirs BY <1>d DEF W!Discarded
    <2>g. /\ brokers' \in [Broker -> W!Proc]
          /\ \A o \in Broker : /\ brokers'[o].key = brokers[o].key
                               /\ brokers'[o].due = brokers[o].due
                               /\ brokers'[o].victims = brokers[o].victims
                               /\ brokers'[o].bundle = brokers[o].bundle
                               /\ brokers'[o].at = IF o = b THEN at ELSE brokers[o].at
      BY <2>a, <1>0, Going DEF W!WebTypeOK, W!Place
    <2>1. W!WebTypeOK' BY <1>0, <1>f, <1>d, <2>a, <2>g DEF W!WebTypeOK
    <2>2. W!StartersAgree' BY <1>0, <1>d, <2>a, <2>g DEF W!WebTypeOK, W!StartersAgree, W!Starting, W!Dir, W!NoDir
    <2>3. W!DirsAreNamed' BY <1>0, <1>d, <2>a, <2>g DEF W!WebTypeOK, W!DirsAreNamed, W!Starting
    <2>4. W!TakenIsThere' BY <1>0, <1>d, <2>a, <2>g DEF W!WebTypeOK, W!TakenIsThere, W!isCompleteDist, W!Mine
    <2>5. W!ServedIsTouched' BY <1>0, <1>d, <2>a, <2>g DEF W!WebTypeOK, W!ServedIsTouched, W!Mine
    <2>6. W!VictimsAreUnused' BY <1>0, <1>d, <2>a, <2>g DEF W!WebTypeOK, W!VictimsAreUnused
    <2> QED BY <2>1, <2>2, <2>3, <2>4, <2>5, <2>6 DEF W!WebInv
<1>4. ASSUME NEW b \in Broker, W!publish(b) PROVE W!WebInv'
  <2>0. brokers[b].at = "publish" /\ UNCHANGED <<webenv, web, edits, ticks, tab>> BY <1>4 DEF W!publish
  <2>a. CASE ~W!CanRename(b) /\ ~W!isCompleteDist(b) /\ W!Goes(b, "replace") /\ UNCHANGED <<dirs, tmp>>
    <3>j. brokers[b].key = web /\ dirs[web].is = "junk"
      BY <1>0, <2>0, <2>a DEF W!WebTypeOK, W!StartersAgree, W!Starting, W!CanRename, W!isCompleteDist, W!Mine, W!Dir
    <3>g. /\ brokers' \in [Broker -> W!Proc]
          /\ \A o \in Broker : /\ brokers'[o].key = brokers[o].key
                               /\ brokers'[o].due = brokers[o].due
                               /\ brokers'[o].victims = brokers[o].victims
                               /\ brokers'[o].bundle = brokers[o].bundle
                               /\ brokers'[o].at = IF o = b THEN "replace" ELSE brokers[o].at
      BY <2>a, <1>0, Going DEF W!WebTypeOK, W!Place
    <3>1. W!WebTypeOK' BY <1>0, <1>f, <2>0, <2>a, <3>g, <3>j DEF W!WebTypeOK
    <3>2. W!StartersAgree' BY <1>0, <2>0, <2>a, <3>g, <3>j DEF W!WebTypeOK, W!StartersAgree, W!Starting
    <3>3. W!DirsAreNamed' BY <1>0, <2>0, <2>a, <3>g, <3>j DEF W!WebTypeOK, W!DirsAreNamed, W!Starting
    <3>4. W!TakenIsThere' BY <1>0, <2>0, <2>a, <3>g, <3>j DEF W!WebTypeOK, W!TakenIsThere, W!isCompleteDist, W!Mine
    <3>5. W!ServedIsTouched' BY <1>0, <2>0, <2>a, <3>g, <3>j DEF W!WebTypeOK, W!ServedIsTouched, W!Mine
    <3>6. W!VictimsAreUnused' BY <1>0, <2>0, <2>a, <3>g, <3>j DEF W!WebTypeOK, W!VictimsAreUnused
    <3> QED BY <3>1, <3>2, <3>3, <3>4, <3>5, <3>6 DEF W!WebInv
  <2> QED BY <1>4, <1>r, <1>d, <2>a, <2>0 DEF W!publish
<1>5. ASSUME NEW b \in Broker, W!replace(b) PROVE W!WebInv'
  <2>a. /\ brokers[b].at = "replace" /\ W!Goes(b, "again") 
        /\ UNCHANGED <<webenv, web, edits, ticks, tmp, tab>>
    BY <1>5 DEF W!replace
  <2>b. dirs' = [dirs EXCEPT ![web] = W!NoDir] /\ brokers[b].key = web /\ dirs[web].is = "junk"
    BY <1>0, <1>5 DEF W!replace, W!StartersAgree, W!Starting, W!DirsAreNamed
    <2>g. /\ brokers' \in [Broker -> W!Proc]
          /\ \A o \in Broker : /\ brokers'[o].key = brokers[o].key
                               /\ brokers'[o].due = brokers[o].due
                               /\ brokers'[o].victims = brokers[o].victims
                               /\ brokers'[o].bundle = brokers[o].bundle
                               /\ brokers'[o].at = IF o = b THEN "again" ELSE brokers[o].at
      BY <2>a, <1>0, Going DEF W!WebTypeOK, W!Place
    <2>1. W!WebTypeOK' BY <1>0, <1>f, <2>a, <2>b, <2>g DEF W!WebTypeOK
    <2>2. W!StartersAgree' BY <1>0, <2>a, <2>b, <2>g DEF W!WebTypeOK, W!StartersAgree, W!Starting, W!Dir, W!NoDir
    <2>3. W!DirsAreNamed' BY <1>0, <2>a, <2>b, <2>g DEF W!WebTypeOK, W!DirsAreNamed, W!Starting, W!Dir, W!NoDir
    <2>4. W!TakenIsThere' BY <1>0, <2>a, <2>b, <2>g DEF W!WebTypeOK, W!TakenIsThere, W!isCompleteDist, W!Mine, W!Dir, W!NoDir, W!Starting
    <2>5. W!ServedIsTouched' BY <1>0, <2>a, <2>b, <2>g DEF W!WebTypeOK, W!ServedIsTouched, W!Mine, W!Dir, W!NoDir, W!Starting
    <2>6. W!VictimsAreUnused' BY <1>0, <2>a, <2>b, <2>g DEF W!WebTypeOK, W!VictimsAreUnused, W!Dir, W!NoDir, W!Starting
    <2> QED BY <2>1, <2>2, <2>3, <2>4, <2>5, <2>6 DEF W!WebInv
<1>6. ASSUME NEW b \in Broker, W!again(b) PROVE W!WebInv'
  <2> QED BY <1>6, <1>r, <1>d DEF W!again
<1>7. ASSUME NEW b \in Broker, W!prune(b) PROVE W!WebInv'
  <2> DEFINE old == {k \in Key \ {brokers[b].key} : W!Aged(dirs[k])}
  <2>a. /\ brokers[b].at = "prune" /\ brokers[b].key = web
        /\ UNCHANGED <<webenv, web, edits, ticks, dirs, tmp, tab>>
        /\ brokers' = [brokers EXCEPT ![b].at = "remove", ![b].victims = old]
    BY <1>0, <1>7 DEF W!prune, W!StartersAgree, W!Starting
  <2>o. web \notin old /\ \A o \in Broker : brokers[o].at = "serving" => brokers[o].key \notin old
    
    <3>1. web \notin old BY <2>a
    <3>2. ASSUME NEW o \in Broker, brokers[o].at = "serving" PROVE ~W!Aged(dirs[brokers[o].key])
      BY <1>0, <1>k, <1>n, <3>2 DEF W!ServedIsTouched, W!Aged, W!Mine
    <3> QED BY <3>1, <3>2
  <2>s. old \in SUBSET Key OBVIOUS
  <2> HIDE DEF old
  <2>r. [brokers[b] EXCEPT !.at = "remove", !.victims = old] \in W!Proc
    BY <1>0, <2>s DEF W!WebTypeOK, W!Proc, W!Place
  <2>q. brokers' = [brokers EXCEPT ![b] = [brokers[b] EXCEPT !.at = "remove", !.victims = old]]
    BY <1>0, <2>a DEF W!WebTypeOK
  <2>g. /\ brokers' \in [Broker -> W!Proc]
        /\ \A o \in Broker : /\ brokers'[o].key = brokers[o].key
                             /\ brokers'[o].due = brokers[o].due
                             /\ brokers'[o].victims = IF o = b THEN old ELSE brokers[o].victims
                             /\ brokers'[o].bundle = brokers[o].bundle
                             /\ brokers'[o].at = IF o = b THEN "remove" ELSE brokers[o].at
    BY <1>0, <2>q, <2>r, <2>s DEF W!WebTypeOK, W!Proc
    <2>1. W!WebTypeOK' BY <1>0, <1>f, <2>a, <2>g, <2>o DEF W!WebTypeOK
    <2>2. W!StartersAgree' BY <1>0, <2>a, <2>g, <2>o DEF W!WebTypeOK, W!StartersAgree, W!Starting
    <2>3. W!DirsAreNamed' BY <1>0, <2>a, <2>g, <2>o DEF W!WebTypeOK, W!DirsAreNamed, W!Starting
    <2>4. W!TakenIsThere' BY <1>0, <2>a, <2>g, <2>o DEF W!WebTypeOK, W!TakenIsThere, W!isCompleteDist, W!Mine
    <2>5. W!ServedIsTouched' BY <1>0, <2>a, <2>g, <2>o DEF W!WebTypeOK, W!ServedIsTouched, W!Mine
    <2>6. W!VictimsAreUnused' BY <1>0, <2>a, <2>g, <2>o DEF W!WebTypeOK, W!VictimsAreUnused
    <2> QED BY <2>1, <2>2, <2>3, <2>4, <2>5, <2>6 DEF W!WebInv
<1>8. ASSUME NEW b \in Broker, W!remove(b) PROVE W!WebInv'
  <2>a. /\ brokers[b].at = "remove" /\ brokers[b].key = web /\ W!Goes(b, "adopt")
        /\ UNCHANGED <<webenv, web, edits, ticks, tab>>
        /\ dirs' = [k \in Key |-> IF k \in brokers[b].victims THEN W!NoDir ELSE dirs[k]]
        /\ tmp' = tmp
    <3>1. \A o \in Broker : ~W!Aged(tmp[o])
      BY <1>0 DEF W!StartersAgree, W!Aged, W!NoDir
    <3> QED BY <1>0, <1>8, <3>1 DEF W!remove, W!StartersAgree, W!Starting, W!WebTypeOK
  <2>v. /\ web \notin brokers[b].victims 
        /\ \A o \in Broker : brokers[o].at = "serving" => brokers[o].key \notin brokers[b].victims
    BY <1>0, <2>a DEF W!VictimsAreUnused
  <2>w. /\ dirs' \in [Key -> W!Dir]
        /\ \A k \in Key : k \notin brokers[b].victims => dirs'[k] = dirs[k]
        /\ \A k \in Key : dirs'[k] \in {W!NoDir, dirs[k]}
    BY <1>0, <1>f, <2>a DEF W!WebTypeOK
  <2>x. \A o \in Broker : brokers[o].at \in {"prune", "remove", "adopt", "serving"} =>
          dirs'[brokers[o].key] = dirs[brokers[o].key]
    BY <1>0, <1>k, <2>a, <2>v, <2>w DEF W!StartersAgree, W!Starting
    <2>g. /\ brokers' \in [Broker -> W!Proc]
          /\ \A o \in Broker : /\ brokers'[o].key = brokers[o].key
                               /\ brokers'[o].due = brokers[o].due
                               /\ brokers'[o].victims = brokers[o].victims
                               /\ brokers'[o].bundle = brokers[o].bundle
                               /\ brokers'[o].at = IF o = b THEN "adopt" ELSE brokers[o].at
      BY <2>a, <1>0, Going DEF W!WebTypeOK, W!Place
    <2>1. W!WebTypeOK' BY <1>0, <1>f, <2>a, <2>v, <2>w, <2>x, <2>g DEF W!WebTypeOK
    <2>2. W!StartersAgree' BY <1>0, <2>a, <2>v, <2>w, <2>x, <2>g DEF W!WebTypeOK, W!StartersAgree, W!Starting
    <2>3. W!DirsAreNamed' BY <1>0, <2>a, <2>v, <2>w, <2>x, <2>g DEF W!WebTypeOK, W!DirsAreNamed, W!Starting, W!NoDir
    <2>4. W!TakenIsThere' BY <1>0, <2>a, <2>v, <2>w, <2>x, <2>g DEF W!WebTypeOK, W!TakenIsThere, W!isCompleteDist, W!Mine
    <2>5. W!ServedIsTouched' BY <1>0, <2>a, <2>v, <2>w, <2>x, <2>g DEF W!WebTypeOK, W!ServedIsTouched, W!Mine
    <2>6. W!VictimsAreUnused' BY <1>0, <2>a, <2>v, <2>w, <2>x, <2>g DEF W!WebTypeOK, W!VictimsAreUnused
    <2> QED BY <2>1, <2>2, <2>3, <2>4, <2>5, <2>6 DEF W!WebInv
<1>9. ASSUME NEW b \in Broker, W!keepWebDistAlive(b) PROVE W!WebInv'
  <2>a. /\ brokers[b].at = "adopt" /\ brokers[b].key = web /\ W!Goes(b, "serving")
        /\ UNCHANGED <<webenv, web, edits, ticks, tmp, tab>>
        /\ dirs' = [dirs EXCEPT ![web].age = 0]
    BY <1>0, <1>9 DEF W!keepWebDistAlive, W!Touched, W!StartersAgree, W!Starting
  <2>c. dirs[web].is = "complete" BY <1>0, <2>a DEF W!TakenIsThere, W!isCompleteDist, W!Mine
    <2>g. /\ brokers' \in [Broker -> W!Proc]
          /\ \A o \in Broker : /\ brokers'[o].key = brokers[o].key
                               /\ brokers'[o].due = brokers[o].due
                               /\ brokers'[o].victims = brokers[o].victims
                               /\ brokers'[o].bundle = brokers[o].bundle
                               /\ brokers'[o].at = IF o = b THEN "serving" ELSE brokers[o].at
      BY <2>a, <1>0, Going DEF W!WebTypeOK, W!Place
    <2>1. W!WebTypeOK' BY <1>0, <1>f, <2>a, <2>c, <2>g DEF W!WebTypeOK
    <2>2. W!StartersAgree' BY <1>0, <2>a, <2>c, <2>g DEF W!WebTypeOK, W!StartersAgree, W!Starting, W!Dir, W!NoDir
    <2>3. W!DirsAreNamed'
      <3>1. dirs'[web].is = "complete" /\ \A k \in Key : dirs'[k].is = dirs[k].is /\ dirs'[k].of = dirs[k].of
        BY <1>0, <2>a, <2>c DEF W!WebTypeOK, W!Dir
      <3>2. \A k \in Key : /\ (dirs'[k].is = "complete" => dirs'[k].of = k)
                          /\ (dirs'[k].is = "junk" => dirs'[k].age = PruneAge)
        BY <1>0, <2>a, <2>c, <3>1 DEF W!DirsAreNamed, W!WebTypeOK
      <3>3. \A o \in Broker : brokers'[o].at # "replace" BY <1>0, <2>c, <2>g DEF W!DirsAreNamed
      <3> QED BY <2>a, <3>1, <3>2, <3>3 DEF W!DirsAreNamed
    <2>4. W!TakenIsThere' BY <1>0, <2>a, <2>c, <2>g DEF W!WebTypeOK, W!TakenIsThere, W!isCompleteDist, W!Mine, W!Dir, W!NoDir, W!StartersAgree, W!Starting
    <2>5. W!ServedIsTouched' BY <1>0, <2>a, <2>c, <2>g DEF W!WebTypeOK, W!ServedIsTouched, W!Mine, W!Dir, W!NoDir, W!StartersAgree, W!Starting
    <2>6. W!VictimsAreUnused' BY <1>0, <2>a, <2>c, <2>g DEF W!WebTypeOK, W!VictimsAreUnused, W!Dir, W!NoDir, W!StartersAgree, W!Starting
    <2> QED BY <2>1, <2>2, <2>3, <2>4, <2>5, <2>6 DEF W!WebInv
<1>10. ASSUME NEW b \in Broker, W!touch(b) PROVE W!WebInv'
  <2>a. /\ brokers[b].at = "serving"
        /\ UNCHANGED <<webenv, web, edits, ticks, tmp, tab>>
        /\ dirs' = [dirs EXCEPT ![brokers[b].key].age = 0]
        /\ brokers' = [brokers EXCEPT ![b].due = FALSE]
    BY <1>10 DEF W!touch, W!Touched
  <2>c. W!Mine(b).is = "complete" BY <1>0, <2>a DEF W!TakenIsThere, W!isCompleteDist, W!Mine
  <2>g. /\ brokers' \in [Broker -> W!Proc]
        /\ \A o \in Broker : /\ brokers'[o].key = brokers[o].key
                             /\ brokers'[o].due = IF o = b THEN FALSE ELSE brokers[o].due
                             /\ brokers'[o].victims = brokers[o].victims
                             /\ brokers'[o].bundle = brokers[o].bundle
                             /\ brokers'[o].at = brokers[o].at
    BY <1>0, <2>a DEF W!WebTypeOK, W!Proc, W!Place
    <2>1. W!WebTypeOK' BY <1>0, <1>f, <1>k, <2>a, <2>c, <2>g DEF W!WebTypeOK
    <2>2. W!StartersAgree' BY <1>0, <1>k, <2>a, <2>c, <2>g DEF W!WebTypeOK, W!StartersAgree, W!Starting
    <2>3. W!DirsAreNamed' BY <1>0, <1>k, <2>a, <2>c, <2>g DEF W!WebTypeOK, W!DirsAreNamed, W!Starting, W!Dir, W!Mine, W!Proc
    <2>4. W!TakenIsThere' BY <1>0, <1>k, <2>a, <2>c, <2>g DEF W!WebTypeOK, W!TakenIsThere, W!isCompleteDist, W!Mine, W!Dir, W!Proc
    <2>5. W!ServedIsTouched' BY <1>0, <1>k, <2>a, <2>c, <2>g DEF W!WebTypeOK, W!ServedIsTouched, W!Mine, W!Dir, W!Proc
    <2>6. W!VictimsAreUnused' BY <1>0, <1>k, <2>a, <2>c, <2>g DEF W!WebTypeOK, W!VictimsAreUnused, W!Dir, W!Proc
    <2> QED BY <2>1, <2>2, <2>3, <2>4, <2>5, <2>6 DEF W!WebInv
<1>11. ASSUME NEW b \in Broker, W!stop(b) PROVE W!WebInv'
  <2>a. /\ brokers[b].at # "down"
        /\ UNCHANGED <<webenv, web, edits, ticks, dirs>>
        /\ tmp' = [tmp EXCEPT ![b] = W!NoDir]
        /\ brokers' = [brokers EXCEPT ![b].at = "down", ![b].due = FALSE]
    BY <1>11 DEF W!stop
  <2>t. tab' \in W!TabState BY <1>0, <1>11 DEF W!stop, W!WebTypeOK, W!TabState
  <2>g. /\ brokers' \in [Broker -> W!Proc]
        /\ \A o \in Broker : /\ brokers'[o].key = brokers[o].key
                             /\ brokers'[o].due = IF o = b THEN FALSE ELSE brokers[o].due
                             /\ brokers'[o].victims = brokers[o].victims
                             /\ brokers'[o].bundle = brokers[o].bundle
                             /\ brokers'[o].at = IF o = b THEN "down" ELSE brokers[o].at
    BY <1>0, <2>a DEF W!WebTypeOK, W!Proc, W!Place
    <2>1. W!WebTypeOK' BY <1>0, <1>f, <2>a, <2>t, <2>g DEF W!WebTypeOK, W!Dir, W!NoDir
    <2>2. W!StartersAgree' BY <1>0, <2>a, <2>t, <2>g DEF W!WebTypeOK, W!StartersAgree, W!Starting, W!NoDir
    <2>3. W!DirsAreNamed' BY <1>0, <2>a, <2>t, <2>g DEF W!WebTypeOK, W!DirsAreNamed, W!Starting
    <2>4. W!TakenIsThere' BY <1>0, <2>a, <2>t, <2>g DEF W!WebTypeOK, W!TakenIsThere, W!isCompleteDist, W!Mine
    <2>5. W!ServedIsTouched' BY <1>0, <2>a, <2>t, <2>g DEF W!WebTypeOK, W!ServedIsTouched, W!Mine
    <2>6. W!VictimsAreUnused' BY <1>0, <2>a, <2>t, <2>g DEF W!WebTypeOK, W!VictimsAreUnused
    <2> QED BY <2>1, <2>2, <2>3, <2>4, <2>5, <2>6 DEF W!WebInv
<1>12. ASSUME W!load PROVE W!WebInv'
  <2>a. UNCHANGED <<webenv, web, edits, ticks, dirs, tmp>> BY <1>12 DEF W!load
  <2>t. tab' \in W!TabState BY <1>0, <1>12 DEF W!load, W!WebTypeOK, W!TabState, W!NoTab, W!Bundled, W!Mine, W!Dir, W!Proc
  <2>b. User \in Broker /\ W!Bundled \in Key /\ brokers[User] \in W!Proc BY <1>0 DEF W!WebTypeOK, W!Proc, W!Bundled
  <2>g. /\ brokers' \in [Broker -> W!Proc]
        /\ \A o \in Broker : /\ brokers'[o].key = brokers[o].key
                             /\ brokers'[o].due = brokers[o].due
                             /\ brokers'[o].victims = brokers[o].victims
                             /\ brokers'[o].at = brokers[o].at
    <3>1. CASE brokers' = brokers BY <1>0, <3>1 DEF W!WebTypeOK
    <3>2. CASE brokers' = [brokers EXCEPT ![User].bundle = W!Bundled]
      <4> DEFINE entry == [brokers[User] EXCEPT !.bundle = W!Bundled]
      <4>1. entry \in W!Proc /\ entry.key = brokers[User].key /\ entry.due = brokers[User].due
            /\ entry.victims = brokers[User].victims /\ entry.at = brokers[User].at
        BY <2>b DEF W!Proc
      <4>2. brokers' = [brokers EXCEPT ![User] = entry] BY <1>0, <2>b, <3>2 DEF W!WebTypeOK
      <4> HIDE DEF entry
      <4> QED BY <1>0, <4>1, <4>2 DEF W!WebTypeOK
    <3> QED BY <1>12, <3>1, <3>2 DEF W!load
    <2>1. W!WebTypeOK' BY <1>0, <1>f, <2>a, <2>t, <2>g DEF W!WebTypeOK
    <2>2. W!StartersAgree' BY <1>0, <2>a, <2>t, <2>g DEF W!WebTypeOK, W!StartersAgree, W!Starting
    <2>3. W!DirsAreNamed' BY <1>0, <2>a, <2>t, <2>g DEF W!WebTypeOK, W!DirsAreNamed, W!Starting
    <2>4. W!TakenIsThere' BY <1>0, <2>a, <2>t, <2>g DEF W!WebTypeOK, W!TakenIsThere, W!isCompleteDist, W!Mine
    <2>5. W!ServedIsTouched' BY <1>0, <2>a, <2>t, <2>g DEF W!WebTypeOK, W!ServedIsTouched, W!Mine
    <2>6. W!VictimsAreUnused' BY <1>0, <2>a, <2>t, <2>g DEF W!WebTypeOK, W!VictimsAreUnused
    <2> QED BY <2>1, <2>2, <2>3, <2>4, <2>5, <2>6 DEF W!WebInv
<1>13. ASSUME W!hello \/ W!drop PROVE W!WebInv'
  <2>a. UNCHANGED <<webenv, web, edits, ticks, dirs, tmp, brokers>> BY <1>13 DEF W!hello, W!drop
  <2>t. tab' \in W!TabState BY <1>0, <1>13 DEF W!hello, W!drop, W!noteBuildId, W!WebTypeOK, W!TabState, W!Proc
    <2>1. W!WebTypeOK' BY <1>0, <1>f, <2>a, <2>t DEF W!WebTypeOK
    <2>2. W!StartersAgree' BY <1>0, <2>a, <2>t DEF W!WebTypeOK, W!StartersAgree, W!Starting
    <2>3. W!DirsAreNamed' BY <1>0, <2>a, <2>t DEF W!WebTypeOK, W!DirsAreNamed, W!Starting
    <2>4. W!TakenIsThere' BY <1>0, <2>a, <2>t DEF W!WebTypeOK, W!TakenIsThere, W!isCompleteDist, W!Mine
    <2>5. W!ServedIsTouched' BY <1>0, <2>a, <2>t DEF W!WebTypeOK, W!ServedIsTouched, W!Mine
    <2>6. W!VictimsAreUnused' BY <1>0, <2>a, <2>t DEF W!WebTypeOK, W!VictimsAreUnused
    <2> QED BY <2>1, <2>2, <2>3, <2>4, <2>5, <2>6 DEF W!WebInv
<1>14. ASSUME W!edit PROVE W!WebInv'
  <2>a. /\ \A b \in Broker : ~W!Starting(b)
        /\ web' \in Key /\ UNCHANGED <<webenv, ticks, dirs, tmp, brokers, tab>>
        /\ edits' \in 0 .. MaxEdits
    BY <1>0, <1>14, <1>e DEF W!edit, W!WebTypeOK
    <2>1. W!WebTypeOK' BY <1>0, <1>f, <2>a DEF W!WebTypeOK
    <2>2. W!StartersAgree' BY <1>0, <2>a DEF W!WebTypeOK, W!StartersAgree, W!Starting, W!Proc, W!Place
    <2>3. W!DirsAreNamed' BY <1>0, <2>a DEF W!WebTypeOK, W!DirsAreNamed, W!Starting
    <2>4. W!TakenIsThere' BY <1>0, <2>a DEF W!WebTypeOK, W!TakenIsThere, W!isCompleteDist, W!Mine, W!Proc, W!Place, W!Starting
    <2>5. W!ServedIsTouched' BY <1>0, <2>a DEF W!WebTypeOK, W!ServedIsTouched, W!Mine, W!Proc, W!Place, W!Starting
    <2>6. W!VictimsAreUnused' BY <1>0, <2>a DEF W!WebTypeOK, W!VictimsAreUnused, W!Proc, W!Place, W!Starting
    <2> QED BY <2>1, <2>2, <2>3, <2>4, <2>5, <2>6 DEF W!WebInv
<1>15. ASSUME W!Tick PROVE W!WebInv'
  <2>a. /\ \A b \in Broker : ~W!Starting(b) /\ ~brokers[b].due
        /\ UNCHANGED <<webenv, web, edits, tab>> /\ ticks' \in 0 .. MaxTicks
        /\ dirs' = [k \in Key |-> W!Older(dirs[k])]
        /\ tmp' = [b \in Broker |-> W!Older(tmp[b])]
    BY <1>0, <1>15, <1>e DEF W!Tick, W!WebTypeOK
  <2>d. /\ dirs' \in [Key -> W!Dir]
        /\ \A k \in Key : /\ dirs'[k].is = dirs[k].is /\ dirs'[k].of = dirs[k].of
                          /\ dirs'[k].age =< dirs[k].age + 1
                          /\ (dirs[k].age = PruneAge => dirs'[k].age = PruneAge)
    BY <1>0, <2>a DEF W!WebTypeOK, W!Dir, W!Older
  <2>m. tmp' = tmp
    <3>1. \A b \in Broker : tmp[b] = W!NoDir BY <1>0, <2>a DEF W!StartersAgree, W!Starting
    <3> QED BY <1>0, <2>a, <3>1 DEF W!Older, W!NoDir, W!WebTypeOK
  <2>g. /\ brokers' \in [Broker -> W!Proc]
        /\ \A o \in Broker : /\ brokers'[o].key = brokers[o].key
                             /\ brokers'[o].due = (brokers[o].at = "serving")
                             /\ brokers'[o].victims = brokers[o].victims
                             /\ brokers'[o].at = brokers[o].at
    BY <1>0, <1>15 DEF W!Tick, W!WebTypeOK, W!Proc, W!Place
    <2>1. W!WebTypeOK' BY <1>0, <1>f, <1>k, <1>n, <2>a, <2>d, <2>m, <2>g DEF W!WebTypeOK
    <2>2. W!StartersAgree' BY <1>0, <1>k, <1>n, <2>a, <2>d, <2>m, <2>g DEF W!WebTypeOK, W!StartersAgree, W!Starting
    <2>3. W!DirsAreNamed' BY <1>0, <1>k, <1>n, <2>a, <2>d, <2>m, <2>g DEF W!WebTypeOK, W!DirsAreNamed, W!Starting
    <2>4. W!TakenIsThere' BY <1>0, <1>k, <1>n, <2>a, <2>d, <2>m, <2>g DEF W!WebTypeOK, W!TakenIsThere, W!isCompleteDist, W!Mine, W!Dir
    <2>5. ASSUME NEW b \in Broker, brokers[b].at = "serving"
          PROVE  dirs'[brokers[b].key].age =< 1 /\ brokers'[b].due
      <3>1. dirs[brokers[b].key].age = 0 BY <1>0, <1>k, <1>n, <2>a, <2>5 DEF W!ServedIsTouched, W!Mine
      <3>2. dirs'[brokers[b].key].age =< 1 BY <1>k, <1>n, <2>d, <3>1
      <3> QED BY <2>5, <2>g, <3>2
    <2>8. W!ServedIsTouched' BY <2>5, <2>g DEF W!ServedIsTouched, W!Mine
    <2>6. W!VictimsAreUnused' BY <1>0, <1>k, <1>n, <2>a, <2>d, <2>m, <2>g DEF W!WebTypeOK, W!VictimsAreUnused, W!Dir
    <2> QED BY <2>1, <2>2, <2>3, <2>4, <2>8, <2>6 DEF W!WebInv
<1> QED BY <1>1, <1>2, <1>3, <1>4, <1>5, <1>6, <1>7, <1>8, <1>9, <1>10, <1>11, <1>12, <1>13, <1>14, <1>15 DEF W!WebNext

\* The broker is not replaced between a load and its first connection.
OwnSocket == \A e \in WebEnvs : "swapped" \notin e

LEMMA TabStarts == ASSUME WebConstants, W!WebInit PROVE W!TabInv
BY DEF WebConstants, W!WebInit, W!TabInv, W!BundlesAgree, W!Starting, W!TabIsTold, W!StaleIsTold, W!NoTab

\* A step that leaves alone what the tab knows, and that User is up, and its key.
LEMMA TabKept ==
  ASSUME W!TabIsTold, UNCHANGED tab, brokers'[User].key = brokers[User].key, W!Up => W!Up'
  PROVE  W!TabIsTold'
BY DEF W!TabIsTold, W!StaleIsTold

LEMMA TabStep ==
  ASSUME WebConstants, OnTime, OwnSocket, W!WebInv, W!TabInv, W!WebNext PROVE W!TabInv'
<1> USE DEF WebConstants
<1>0. W!WebTypeOK /\ W!StartersAgree /\ W!TakenIsThere /\ W!DirsAreNamed /\ W!BundlesAgree /\ W!TabIsTold
  BY DEF W!WebInv, W!TabInv
<1>e. "swapped" \notin webenv /\ "edited" \notin webenv BY <1>0 DEF OnTime, OwnSocket, W!WebTypeOK
<1>n. /\ \A b \in Broker : brokers[b].key \in Key /\ brokers[b].key # None
      /\ web # None
  BY <1>0 DEF W!WebTypeOK, W!Proc
<1>1. ASSUME NEW b \in Broker, W!start(b) PROVE W!TabInv'
  <2>a. /\ brokers[b].at = "down" /\ tab' = tab /\ web' = web
        /\ brokers' = [brokers EXCEPT ![b] = [at |-> "look", key |-> web, victims |-> {},
                                          due |-> FALSE, bundle |-> None]]
    BY <1>1 DEF W!start
  <2>1. W!BundlesAgree' BY <1>0, <2>a DEF W!BundlesAgree, W!Starting, W!WebTypeOK
  <2>2. CASE b # User
    <3>1. brokers'[User] = brokers[User] BY <1>0, <2>a, <2>2 DEF W!WebTypeOK
    <3> QED BY <1>0, <2>a, <2>1, <3>1, TabKept DEF W!TabInv, W!Up
  <2>3. CASE b = User
    <3>1. ~W!Up BY <2>a, <2>3 DEF W!Up
    <3> QED BY <1>0, <2>1, <2>a, <3>1 DEF W!TabInv, W!TabIsTold, W!StaleIsTold
  <2> QED BY <2>2, <2>3
\* A starting broker goes on: it was not up before.
<1>2. ASSUME NEW b \in Broker, NEW at \in W!Place, W!Starting(b), W!Goes(b, at), tab' = tab, web' = web
      PROVE  W!TabInv'
  <2>g. /\ brokers' \in [Broker -> W!Proc]
        /\ \A o \in Broker : /\ brokers'[o].key = brokers[o].key
                             /\ brokers'[o].bundle = brokers[o].bundle
                             /\ brokers'[o].at = IF o = b THEN at ELSE brokers[o].at
    BY <1>2, <1>0, Going DEF W!WebTypeOK
  <2>k. brokers[b].key = web /\ (brokers[b].bundle = None \/ brokers[b].bundle = brokers[b].key)
    BY <1>0, <1>2 DEF W!StartersAgree, W!BundlesAgree
  <2>1. W!BundlesAgree' BY <1>0, <1>2, <2>g, <2>k DEF W!BundlesAgree, W!Starting
  <2>2. W!Up => W!Up' BY <1>2, <2>g DEF W!Up, W!Starting
  <2> QED BY <1>0, <1>2, <2>g, <2>1, <2>2, TabKept DEF W!TabInv
<1>3. ASSUME NEW b \in Broker, W!look(b) \/ W!build(b) \/ W!publish(b) \/ W!replace(b) \/ W!again(b)
                                 \/ W!remove(b) \/ W!keepWebDistAlive(b)
      PROVE  W!TabInv'
  <2>1. W!Starting(b) /\ tab' = tab /\ web' = web
    BY <1>3 DEF W!look, W!build, W!publish, W!replace, W!again, W!remove, W!keepWebDistAlive, W!Starting
  <2>2. \E at \in W!Place : W!Goes(b, at)
    BY <1>3 DEF W!look, W!build, W!publish, W!replace, W!again, W!remove, W!keepWebDistAlive, W!Renamed,
                W!Discarded, W!Place
  <2> QED BY <1>2, <2>1, <2>2
<1>4. ASSUME NEW b \in Broker, W!prune(b) \/ W!touch(b) PROVE W!TabInv'
  <2>1. /\ tab' = tab /\ web' = web
        /\ brokers[b].at # "bundling"
        /\ \A o \in Broker : /\ brokers'[o].key = brokers[o].key
                             /\ brokers'[o].bundle = brokers[o].bundle
                             /\ (o # b => brokers'[o].at = brokers[o].at)
        /\ brokers'[b].at = IF brokers[b].at = "prune" THEN "remove" ELSE brokers[b].at
    BY <1>0, <1>4 DEF W!prune, W!touch, W!WebTypeOK, W!Proc
  <2>2. W!BundlesAgree' BY <1>0, <2>1 DEF W!BundlesAgree, W!Starting
  <2>3. W!Up => W!Up' BY <2>1 DEF W!Up
  <2> QED BY <1>0, <2>1, <2>2, <2>3, TabKept DEF W!TabInv
<1>5. ASSUME NEW b \in Broker, W!stop(b) PROVE W!TabInv'
  <2>g. /\ web' = web
        /\ tab' = IF b = User THEN [tab EXCEPT !.open = FALSE] ELSE tab
        /\ \A o \in Broker : /\ brokers'[o].key = brokers[o].key
                             /\ brokers'[o].bundle = brokers[o].bundle
                             /\ brokers'[o].at = IF o = b THEN "down" ELSE brokers[o].at
    BY <1>0, <1>5 DEF W!stop, W!WebTypeOK, W!Proc
  <2>1. W!BundlesAgree' BY <1>0, <2>g DEF W!BundlesAgree, W!Starting
  <2>2. CASE b # User
    <3>1. W!Up => W!Up' BY <2>2, <2>g DEF W!Up
    <3> QED BY <1>0, <2>g, <2>1, <2>2, <3>1, TabKept DEF W!TabInv
  <2>3. CASE b = User
    <3>1. tab.bundle = None \/ tab.seen # None BY <1>e, <1>5, <2>3 DEF W!stop
    <3>2. /\ tab'.open = FALSE /\ tab'.bundle = tab.bundle /\ tab'.seen = tab.seen
      BY <1>0, <2>3, <2>g DEF W!WebTypeOK, W!TabState
    <3> QED BY <1>0, <2>1, <3>1, <3>2 DEF W!TabInv, W!TabIsTold, W!StaleIsTold
  <2> QED BY <2>2, <2>3
<1>6. ASSUME W!load PROVE W!TabInv'
  <2>1. /\ web' = web
        /\ \A o \in Broker : /\ brokers'[o].key = brokers[o].key
                             /\ brokers'[o].at = brokers[o].at
                             /\ (o # User => brokers'[o].bundle = brokers[o].bundle)
    BY <1>0, <1>6 DEF W!load, W!WebTypeOK, W!Proc
  <2>2. tab' = [W!NoTab EXCEPT !.bundle = brokers[User].key] /\ W!BundlesAgree'
    <3>1. CASE /\ brokers[User].at = "serving" /\ W!Mine(User).is = "complete"
               /\ tab' = [W!NoTab EXCEPT !.bundle = W!Mine(User).of]
               /\ UNCHANGED brokers
      <4>1. W!Mine(User).of = brokers[User].key BY <1>0, <1>n, <3>1 DEF W!DirsAreNamed, W!Mine
      <4>2. W!BundlesAgree' BY <1>0, <2>1, <3>1 DEF W!BundlesAgree, W!Starting
      <4> QED BY <3>1, <4>1, <4>2
    <3>2. CASE /\ brokers[User].at = "bundling"
               /\ brokers' = [brokers EXCEPT ![User].bundle = W!Bundled]
               /\ tab' = [W!NoTab EXCEPT !.bundle = W!Bundled]
      <4>1. W!Bundled = brokers[User].key BY <1>0, <3>2 DEF W!BundlesAgree, W!Starting, W!Bundled
      <4>2. brokers'[User].bundle = brokers[User].key BY <1>0, <3>2, <4>1 DEF W!WebTypeOK, W!Proc
      <4> QED BY <1>0, <1>n, <2>1, <3>2, <4>1, <4>2 DEF W!BundlesAgree, W!Starting
    <3> QED BY <1>6, <3>1, <3>2 DEF W!load
  <2>3. tab'.bundle = brokers[User].key /\ tab'.seen = None /\ tab'.open = FALSE
    BY <2>2 DEF W!NoTab
  <2>4. W!Up /\ W!Up' BY <1>6, <2>1 DEF W!load, W!Up
  <2> QED BY <2>1, <2>2, <2>3, <2>4 DEF W!TabInv, W!TabIsTold, W!StaleIsTold
<1>7. ASSUME W!hello PROVE W!TabInv'
  <2>1. UNCHANGED <<web, brokers>> /\ W!Up /\ tab.bundle # None BY <1>7 DEF W!hello
  <2>2. /\ tab'.bundle = tab.bundle /\ tab'.open
        /\ tab'.seen = IF tab.seen = None THEN brokers[User].key ELSE tab.seen
        /\ (tab.seen # None /\ brokers[User].key # tab.seen => tab'.told)
    BY <1>0, <1>7 DEF W!hello, W!noteBuildId, W!WebTypeOK, W!TabState
  <2>3. W!BundlesAgree' BY <1>0, <2>1 DEF W!BundlesAgree, W!Starting
  <2>4. tab'.seen = tab'.bundle /\ tab'.seen # None BY <1>0, <1>n, <2>1, <2>2 DEF W!TabIsTold
  <2>5. tab'.bundle # brokers[User].key => tab'.told BY <1>0, <1>n, <2>1, <2>2, <2>4 DEF W!TabIsTold
  <2>6. W!Up' BY <2>1 DEF W!Up
  <2> QED BY <2>1, <2>2, <2>3, <2>4, <2>5, <2>6 DEF W!TabInv, W!TabIsTold, W!StaleIsTold
<1>8. ASSUME W!drop PROVE W!TabInv'
  <2>1. UNCHANGED <<web, brokers>> BY <1>8 DEF W!drop
  <2>2. tab'.open = FALSE /\ tab'.bundle = tab.bundle /\ tab'.seen = tab.seen
    BY <1>0, <1>8 DEF W!drop, W!WebTypeOK, W!TabState
  <2>3. W!BundlesAgree' BY <1>0, <2>1 DEF W!BundlesAgree, W!Starting
  <2>4. W!Up => W!Up' BY <2>1 DEF W!Up
  <2> QED BY <1>0, <2>1, <2>2, <2>3, <2>4 DEF W!TabInv, W!TabIsTold, W!StaleIsTold
<1>9. ASSUME W!edit \/ W!Tick PROVE W!TabInv'
  <2>1. tab' = tab BY <1>9 DEF W!edit, W!Tick
  <2>2. \A o \in Broker : /\ brokers'[o].key = brokers[o].key
                          /\ brokers'[o].bundle = brokers[o].bundle
                          /\ brokers'[o].at = brokers[o].at
    BY <1>0, <1>9 DEF W!edit, W!Tick, W!WebTypeOK, W!Proc
  <2>4. W!Up => W!Up' BY <2>2 DEF W!Up
  <2>5. web' = web \/ \A b \in Broker : ~(brokers[b].at = "bundling" /\ brokers[b].bundle = None)
    BY <1>9, <1>e DEF W!edit, W!Tick
  <2>6. W!BundlesAgree' BY <1>0, <2>2, <2>5 DEF W!BundlesAgree, W!Starting
  <2> QED BY <1>0, <2>1, <2>2, <2>4, <2>6, TabKept DEF W!TabInv
<1> QED BY <1>1, <1>3, <1>4, <1>5, <1>6, <1>7, <1>8, <1>9 DEF W!WebNext
LEMMA WebIdle ==
  ASSUME UNCHANGED <<webenv, web, edits, ticks, dirs, tmp, brokers, tab>>
  PROVE  (W!WebInv => W!WebInv') /\ (W!TabInv => W!TabInv')
<1>1. W!WebTypeOK => W!WebTypeOK' BY DEF W!WebTypeOK
<1>2. W!StartersAgree /\ W!DirsAreNamed => W!StartersAgree' /\ W!DirsAreNamed'
  BY DEF W!StartersAgree, W!DirsAreNamed, W!Starting
<1>3. W!TakenIsThere /\ W!ServedIsTouched /\ W!VictimsAreUnused =>
        W!TakenIsThere' /\ W!ServedIsTouched' /\ W!VictimsAreUnused'
  BY DEF W!TakenIsThere, W!ServedIsTouched, W!VictimsAreUnused, W!isCompleteDist, W!Mine
<1>4. W!BundlesAgree /\ W!TabIsTold => W!BundlesAgree' /\ W!TabIsTold'
  BY DEF W!BundlesAgree, W!TabIsTold, W!StaleIsTold, W!Starting, W!Up
<1> QED BY <1>1, <1>2, <1>3, <1>4 DEF W!WebInv, W!TabInv

\* If no two brokers that start at one time find old litter, the machine does
\* not sleep past the prune age, and sources are not edited under a start: what
\* a broker serves is there, whole, and of its own sources (ensureWebDist,
\* pruneWebDist, keepWebDistAlive).
THEOREM ServedStaysThere ==
  ASSUME WebConstants, OnTime
  PROVE  PageSpec => []ServedIsThere
<1> DEFINE Inv == part = "web" => W!WebInv
<1>1. PageInit => Inv BY WebStarts DEF PageInit
<1>2. Inv /\ [PageNext]_<<part, slots>> => Inv'
  <2> SUFFICES ASSUME Inv, [PageNext]_<<part, slots>>, part' = "web" PROVE W!WebInv' OBVIOUS
  <2>1. CASE PageNext BY <2>1, WebStep DEF PageNext
  <2>2. CASE UNCHANGED <<part, slots>> BY <2>2, WebIdle DEF slots
  <2> QED BY <2>1, <2>2
<1>3. Inv => ServedIsThere
  BY DEF W!WebInv, W!WebTypeOK, W!Proc, W!TakenIsThere, W!DirsAreNamed, W!isCompleteDist, W!Mine,
         W!ServedIsThere, ServedIsThere
<1> QED BY <1>1, <1>2, <1>3, PTL DEF PageSpec

\* If, besides, the broker is not replaced between a tab's load and its first
\* connection: a tab that is connected to a broker with another build than its
\* own says so (noteBuildId).
THEOREM StaleTabIsTold ==
  ASSUME WebConstants, OnTime, OwnSocket
  PROVE  PageSpec => []StaleIsTold
<1> DEFINE Inv == part = "web" => W!WebInv /\ W!TabInv
<1>1. PageInit => Inv BY WebStarts, TabStarts DEF PageInit
<1>2. Inv /\ [PageNext]_<<part, slots>> => Inv'
  <2> SUFFICES ASSUME Inv, [PageNext]_<<part, slots>>, part' = "web" PROVE W!WebInv' /\ W!TabInv'
    OBVIOUS
  <2>1. CASE PageNext BY <2>1, WebStep, TabStep DEF PageNext
  <2>2. CASE UNCHANGED <<part, slots>> BY <2>2, WebIdle DEF slots
  <2> QED BY <2>1, <2>2
<1>3. Inv => StaleIsTold BY DEF W!TabInv, W!TabIsTold, StaleIsTold
<1> QED BY <1>1, <1>2, <1>3, PTL DEF PageSpec

-----------------------------------------------------------------------------
(* Backup *)

BackupConstants ==
  /\ Keep \in Nat \ {0} /\ Period \in Nat \ {0} /\ StaleAfter \in Nat /\ MaxHalfDays \in Nat
  /\ None \notin B!Verdict

\* One run at a time, and the date of the machine only moves on.
InOrder == \A e \in BackupEnvs : e \cap {"twice", "backward"} = {}
\* No run sleeps through half a day or runs out of space, nor is it killed where renames are refused.
NothingTorn == \A e \in BackupEnvs : e \subseteq {"killed"} \/ e \subseteq {"refused"}

LEMMA FirstDay ==
  ASSUME NEW X \in SUBSET Nat, X # {}
  PROVE  B!Min(X) \in X /\ \A d \in X : B!Min(X) =< d
<1>1. PICK m \in X : \A k \in X : ~(<<k, m>> \in OpToRel(<, Nat))
  BY NatLessThanWellFounded, WFMin, Zenon
<1>2. ASSUME NEW k \in X PROVE m =< k
  <2>1. <<k, m>> \in Nat \X Nat OBVIOUS
  <2>2. ~(<<k, m>>[1] < <<k, m>>[2]) BY <1>1, <2>1, Zenon DEF OpToRel
  <2> QED BY <2>2
<1> QED BY <1>2 DEF B!Min

\* The days from one on.
LEMMA DaysFrom ==
  ASSUME NEW n \in Nat, NEW X \in SUBSET (0 .. n), NEW Y \in SUBSET X
  PROVE  /\ Cardinality(Y) \in Nat /\ Cardinality(X) \in Nat /\ Cardinality(Y) =< Cardinality(X)
<1>1. IsFiniteSet(0 .. n) BY FS_Interval
<1>2. IsFiniteSet(X) BY <1>1, FS_Subset
<1>3. IsFiniteSet(Y) /\ Cardinality(Y) =< Cardinality(X) BY <1>2, FS_Subset
<1> QED BY <1>2, <1>3, FS_CardinalityType

LEMMA TodayIs ==
  ASSUME BackupConstants, now \in 0 .. MaxHalfDays, shift = 0
  PROVE  B!today \in B!Day /\ 2 * B!today =< now /\ now =< 2 * B!today + 1
<1>1. now \div 2 \in Nat /\ 2 * (now \div 2) =< now /\ now =< 2 * (now \div 2) + 1 BY DEF BackupConstants
<1>2. B!today = now \div 2 BY <1>1 DEF B!today, B!Day_
<1>3. MaxHalfDays \div 2 \in Nat /\ MaxHalfDays =< 2 * (MaxHalfDays \div 2) + 1 BY DEF BackupConstants
<1>4. now \div 2 =< MaxHalfDays \div 2 BY <1>1, <1>3 DEF BackupConstants
<1> QED BY <1>1, <1>2, <1>3, <1>4 DEF B!Day

LEMMA DaysAre == ASSUME BackupConstants PROVE B!Day \subseteq Nat /\ \E n \in Nat : B!Day = 0 .. n
<1>1. MaxHalfDays \div 2 \in Nat BY DEF BackupConstants
<1> QED BY <1>1 DEF B!Day

LEMMA RunMoves ==
  ASSUME runs \in [Run -> B!Process], NEW r \in Run, NEW step \in B!Step,
         B!Goes(r, step) \/ (B!Fails(r) /\ step = "report")
  PROVE  /\ runs' \in [Run -> B!Process]
         /\ \A o \in Run : o # r => runs'[o] = runs[o]
         /\ runs'[r].at = step /\ runs'[r].day = runs[r].day /\ runs'[r].started = runs[r].started
         /\ (B!Goes(r, step) => runs'[r].ok = runs[r].ok) /\ (B!Fails(r) => ~runs'[r].ok)
<1>1. CASE B!Goes(r, step)
  <2> DEFINE entry == [runs[r] EXCEPT !.at = step]
  <2>1. runs' = [runs EXCEPT ![r] = entry] BY <1>1 DEF B!Goes
  <2>2. entry \in B!Process /\ entry.at = step /\ entry.day = runs[r].day /\ entry.started = runs[r].started /\ entry.ok = runs[r].ok
    BY DEF B!Process
  <2> HIDE DEF entry
  <2>3. runs'[r] = entry BY <2>1
  <2>4. B!Fails(r) => runs'[r].ok = FALSE BY <1>1 DEF B!Fails
  <2> QED BY <2>1, <2>2, <2>3, <2>4, <1>1
<1>2. CASE B!Fails(r) /\ step = "report"
  <2> DEFINE entry == [runs[r] EXCEPT !.at = "report", !.ok = FALSE]
  <2>1. runs' = [runs EXCEPT ![r] = entry] BY <1>2 DEF B!Fails
  <2>2. entry \in B!Process /\ entry.at = step /\ entry.day = runs[r].day /\ entry.started = runs[r].started /\ entry.ok = FALSE
    BY <1>2 DEF B!Process, B!Step
  <2> HIDE DEF entry
  <2>3. runs'[r] = entry BY <2>1
  <2>4. ASSUME B!Goes(r, step) PROVE runs'[r].ok = runs[r].ok
    <3>1. runs'[r] = [runs[r] EXCEPT !.at = step] BY <2>4 DEF B!Goes
    <3> QED BY <3>1 DEF B!Process
  <2>5. runs' \in [Run -> B!Process] /\ \A o \in Run : o # r => runs'[o] = runs[o] BY <2>1, <2>2
  <2> QED BY <2>2, <2>3, <2>4, <2>5
<1> QED BY <1>1, <1>2

LEMMA RunEnds ==
  ASSUME runs \in [Run -> B!Process], NEW r \in Run, runs' = [runs EXCEPT ![r] = B!Idle], BackupConstants
  PROVE  runs' \in [Run -> B!Process] /\ \A o \in Run : runs'[o] = IF o = r THEN B!Idle ELSE runs[o]
<1>1. MaxHalfDays \div 2 \in Nat BY DEF BackupConstants
<1>0. 0 \in B!Day /\ 0 \in 0 .. MaxHalfDays BY <1>1 DEF B!Day, BackupConstants
<1>2. B!Idle \in B!Process BY <1>0 DEF B!Idle, B!Process, B!Step
<1> QED BY <1>2

LEMMA BackupStarts == ASSUME BackupConstants, B!BackupInit PROVE B!BackupTypeOK /\ B!AnchorInv /\ B!QuietInv
<1> USE DEF BackupConstants
<1>1. B!BackupTypeOK
  <2>1. 0 \in B!Day /\ 0 \in 0 .. MaxHalfDays
    <3>1. MaxHalfDays \div 2 \in Nat OBVIOUS
    <3> QED BY <3>1 DEF B!Day
  <2>2. B!Idle \in B!Process BY <2>1 DEF B!Idle, B!Process, B!Step
  <2>3. runs \in [Run -> B!Process] BY <2>2 DEF B!BackupInit
  <2>4. files \in [B!Day -> B!File] /\ partial \in [B!Day -> B!File] BY DEF B!BackupInit, B!File
  <2>5. status \in [is : {"none", "torn", "done"}, ok : BOOLEAN, finished : 0 .. MaxHalfDays] BY <2>1 DEF B!BackupInit
  <2>6. verdict = "none" /\ page = None /\ judged = TRUE /\ published = {} /\ now = 0 /\ shift = 0 /\ env \in BackupEnvs BY DEF B!BackupInit
  <2> QED BY <2>1, <2>3, <2>4, <2>5, <2>6 DEF B!BackupTypeOK, B!Verdict
<1>2. B!InTurn BY DEF B!BackupInit, B!InTurn, B!Active, B!Idle
<1>3. B!AnchorsStay BY DEF B!BackupInit, B!AnchorsStay
<1>4. B!WorkIsWhole BY DEF B!BackupInit, B!WorkIsWhole, B!Active, B!Idle
<1>5. B!StatusHolds BY DEF B!BackupInit, B!StatusHolds
<1>6. B!PageFollows BY DEF B!BackupInit, B!PageFollows, B!evaluateBackupHealth
<1> QED BY <1>1, <1>2, <1>3, <1>4, <1>5, <1>6 DEF B!AnchorInv, B!QuietInv

\* What a step of the script or of the broker does to the types.
LEMMA BackupTypes ==
  ASSUME BackupConstants, B!BackupTypeOK, B!InTurn, B!BackupNext
  PROVE  B!BackupTypeOK'
<1> USE DEF B!health
<1>t. /\ env \in BackupEnvs /\ now \in 0 .. MaxHalfDays /\ shift \in 0 .. 1
      /\ files \in [B!Day -> B!File] /\ partial \in [B!Day -> B!File] /\ runs \in [Run -> B!Process]
      /\ status \in [is : {"none", "torn", "done"}, ok : BOOLEAN, finished : 0 .. MaxHalfDays]
      /\ verdict \in B!Verdict /\ page \in B!Verdict \cup {None} /\ judged \in BOOLEAN /\ published \subseteq B!Day
  BY DEF B!BackupTypeOK
<1>d. \A r \in Run : runs[r].day \in B!Day BY <1>t DEF B!Process
<1>e. B!evaluateBackupHealth \in B!Verdict BY <1>t DEF B!evaluateBackupHealth, B!Verdict
<1>1. ASSUME NEW r \in Run, B!runBackup(r) PROVE B!BackupTypeOK'
  <2>1. B!today \in B!Day BY <1>t, TodayIs DEF B!InTurn
  <2> DEFINE entry == [at |-> IF files[B!today] = "absent" THEN "snapshot" ELSE "prune", day |-> B!today, started |-> now, ok |-> TRUE]
  <2>2. entry \in B!Process BY <2>1, <1>t DEF B!Process, B!Step
  <2>3. runs' = [runs EXCEPT ![r] = entry] BY <1>1 DEF B!runBackup
  <2> HIDE DEF entry
  <2>4. runs' \in [Run -> B!Process] BY <2>2, <2>3, <1>t
  <2> QED BY <2>4, <1>1, <1>t DEF B!runBackup, B!BackupTypeOK
<1>2. ASSUME NEW r \in Run, B!snapshotFails(r) PROVE B!BackupTypeOK'
  <2>1. runs' \in [Run -> B!Process] BY <1>2, <1>t, RunMoves DEF B!snapshotFails, B!Step
  <2> QED BY <2>1, <1>2, <1>t DEF B!snapshotFails, B!BackupTypeOK
<1>3. ASSUME NEW r \in Run, B!copyToPartial(r) PROVE B!BackupTypeOK'
  <2>1. runs' \in [Run -> B!Process] BY <1>3, <1>t, RunMoves DEF B!copyToPartial, B!Step
  <2>2. partial' \in [B!Day -> B!File] BY <1>3, <1>t DEF B!copyToPartial, B!File
  <2> QED BY <2>1, <2>2, <1>3, <1>t DEF B!copyToPartial, B!BackupTypeOK
<1>4. ASSUME NEW r \in Run, B!copied(r) PROVE B!BackupTypeOK'
  <2>1. runs' \in [Run -> B!Process] BY <1>4, <1>t, RunMoves DEF B!copied, B!Step
  <2>2. partial' \in [B!Day -> B!File] /\ files' \in [B!Day -> B!File] BY <1>4, <1>t DEF B!copied, B!File
  <2> QED BY <2>1, <2>2, <1>4, <1>t DEF B!copied, B!BackupTypeOK
<1>5. ASSUME NEW r \in Run, B!rename(r) PROVE B!BackupTypeOK'
  <2>1. runs' \in [Run -> B!Process] BY <1>5, <1>t, RunMoves DEF B!rename, B!Step
  <2>2. partial' \in [B!Day -> B!File] /\ files' \in [B!Day -> B!File] /\ published' \subseteq B!Day BY <1>5, <1>t, <1>d DEF B!rename, B!File
  <2> QED BY <2>1, <2>2, <1>5, <1>t DEF B!rename, B!BackupTypeOK
<1>6. ASSUME NEW r \in Run, B!fallback(r) PROVE B!BackupTypeOK'
  <2>1. runs' \in [Run -> B!Process] BY <1>6, <1>t, RunMoves DEF B!fallback, B!Step
  <2>2. partial' \in [B!Day -> B!File] /\ files' \in [B!Day -> B!File] /\ published' \subseteq B!Day BY <1>6, <1>t, <1>d DEF B!fallback, B!File
  <2> QED BY <2>1, <2>2, <1>6, <1>t DEF B!fallback, B!BackupTypeOK
<1>7. ASSUME NEW r \in Run, B!directCopied(r) PROVE B!BackupTypeOK'
  <2>1. runs' \in [Run -> B!Process] BY <1>7, <1>t, RunMoves DEF B!directCopied, B!Step
  <2>2. files' \in [B!Day -> B!File] BY <1>7, <1>t DEF B!directCopied, B!File
  <2> QED BY <2>1, <2>2, <1>7, <1>t DEF B!directCopied, B!BackupTypeOK
<1>8. ASSUME NEW r \in Run, B!prune(r) PROVE B!BackupTypeOK'
  <2>1. runs' \in [Run -> B!Process] BY <1>8, <1>t, RunMoves DEF B!prune, B!Step
  <2>2. files' \in [B!Day -> B!File] BY <1>8, <1>t DEF B!prune, B!File
  <2> QED BY <2>1, <2>2, <1>8, <1>t DEF B!prune, B!BackupTypeOK
<1>9. ASSUME NEW r \in Run, B!writeStatus(r) PROVE B!BackupTypeOK'
  <2>1. runs' \in [Run -> B!Process] BY <1>9, <1>t, RunEnds DEF B!writeStatus
  <2>2. status' \in [is : {"none", "torn", "done"}, ok : BOOLEAN, finished : 0 .. MaxHalfDays] /\ judged' \in BOOLEAN
    <3>1. runs[r].ok \in BOOLEAN BY <1>t DEF B!Process
    <3>2. ASSUME NEW is \in {"done", "torn"}
          PROVE  [is |-> is, ok |-> runs[r].ok, finished |-> now] \in [is : {"none", "torn", "done"}, ok : BOOLEAN, finished : 0 .. MaxHalfDays]
      BY <3>1, <1>t
    <3>3. (\E is \in {"done", "torn"} : status' = [is |-> is, ok |-> runs[r].ok, finished |-> now] /\ judged' = FALSE)
          \/ (status' = status /\ judged' = judged)
      BY <1>9 DEF B!writeStatus
    <3> QED BY <3>2, <3>3, <1>t
  <2> QED BY <2>1, <2>2, <1>9, <1>t DEF B!writeStatus, B!BackupTypeOK
<1>10. ASSUME NEW r \in Run, B!kill(r) PROVE B!BackupTypeOK'
  <2>1. runs' \in [Run -> B!Process] BY <1>10, <1>t, RunEnds DEF B!kill
  <2> QED BY <2>1, <1>10, <1>t DEF B!kill, B!BackupTypeOK
<1>11. CASE B!refreshBackupHealth BY <1>11, <1>t, <1>e DEF B!refreshBackupHealth, B!BackupTypeOK
<1>12. CASE B!handleGetBackupHealth BY <1>12, <1>t, <1>e DEF B!handleGetBackupHealth, B!BackupTypeOK
<1>13. CASE B!disconnect BY <1>13, <1>t DEF B!disconnect, B!BackupTypeOK
<1>14. CASE B!Tick
  <2>1. now' \in 0 .. MaxHalfDays /\ judged' = FALSE BY <1>14, <1>t DEF B!Tick, BackupConstants
  <2> QED BY <2>1, <1>14, <1>t DEF B!Tick, B!BackupTypeOK
<1>15. CASE B!turnBack BY <1>15, <1>t DEF B!turnBack, B!BackupTypeOK
<1> QED BY <1>1, <1>2, <1>3, <1>4, <1>5, <1>6, <1>7, <1>8, <1>9, <1>10, <1>11, <1>12, <1>13, <1>14, <1>15 DEF B!BackupNext

\* The script works on the day it has, and may publish it.
LEMMA DayWorked ==
  ASSUME BackupConstants, B!BackupTypeOK, B!BackupTypeOK', B!InTurn, shift' = shift, now' >= now,
         \A o \in Run : B!Active(o)' => B!Active(o) /\ runs'[o].day = runs[o].day,
         \A d \in published' : d \in published \/ \E r \in Run : B!Active(r) /\ d = runs[r].day,
         published \subseteq published',
         \A d \in B!Day : files'[d] # "absent" => files[d] # "absent" \/ d \in published',
         \A o \in Run : runs'[o].at = "direct" => runs[o].at = "direct" \/ runs[o].day \in published'
  PROVE  B!InTurn'
<1>t. /\ now \in Nat /\ now' \in Nat /\ published \subseteq Nat /\ published' \subseteq Nat
      /\ \A o \in Run : runs[o].day \in Nat /\ runs[o].day \in B!Day
  BY DaysAre DEF B!BackupTypeOK, B!Process, BackupConstants
<1>1. \A r, o \in Run : B!Active(r)' /\ B!Active(o)' => r = o BY DEF B!InTurn
<1>2. \A d \in published' : 2 * d =< now'
  <2> TAKE d \in published'
  <2>1. 2 * d =< now BY DEF B!InTurn
  <2> QED BY <2>1, <1>t
<1>3. \A r \in Run : B!Active(r)' => 2 * runs'[r].day =< now' /\ \A d \in published' : d =< runs'[r].day
  <2> SUFFICES ASSUME NEW r \in Run, B!Active(r)' PROVE 2 * runs'[r].day =< now' /\ \A d \in published' : d =< runs'[r].day
    OBVIOUS
  <2>1. B!Active(r) /\ runs'[r].day = runs[r].day OBVIOUS
  <2>2. 2 * runs[r].day =< now' BY <2>1, <1>t DEF B!InTurn
  <2>3. \A o \in Run : B!Active(o) => o = r BY <2>1 DEF B!InTurn
  <2>4. \A d \in published' : d =< runs[r].day BY <2>1, <2>3, <1>t DEF B!InTurn
  <2> QED BY <2>1, <2>2, <2>4
<1>4. \A d \in B!Day : files'[d] # "absent" => d \in published' BY DEF B!InTurn
<1>5. \A r \in Run : runs'[r].at = "direct" => runs'[r].day \in published'
  <2> SUFFICES ASSUME NEW r \in Run, runs'[r].at = "direct" PROVE runs'[r].day \in published' OBVIOUS
  <2>1. runs'[r].day = runs[r].day BY DEF B!Active
  <2> QED BY <2>1 DEF B!InTurn
<1>6. shift' = 0 BY DEF B!InTurn
<1> QED BY <1>1, <1>2, <1>3, <1>4, <1>5, <1>6 DEF B!InTurn

LEMMA InTurnStep ==
  ASSUME BackupConstants, InOrder, B!BackupTypeOK, B!InTurn, B!BackupNext
  PROVE  B!InTurn'
<1> USE DEF B!health
<1>0. B!BackupTypeOK' BY BackupTypes
<1>t. /\ now \in Nat /\ runs \in [Run -> B!Process] /\ files \in [B!Day -> B!File] /\ partial \in [B!Day -> B!File]
      /\ now \in 0 .. MaxHalfDays
  BY DEF B!BackupTypeOK, BackupConstants
<1>e. env \cap {"twice", "backward"} = {} BY DEF B!BackupTypeOK, InOrder
<1>d. \A r \in Run : runs[r].day \in B!Day BY <1>t DEF B!Process
<1>1. ASSUME NEW r \in Run, B!runBackup(r) PROVE B!InTurn'
  <2>1. \A o \in Run : ~B!Active(o) BY <1>1, <1>e DEF B!runBackup, B!Active
  <2>2. B!today \in B!Day /\ 2 * B!today =< now /\ now =< 2 * B!today + 1 BY <1>t, TodayIs DEF B!InTurn
  <2> DEFINE entry == [at |-> IF files[B!today] = "absent" THEN "snapshot" ELSE "prune", day |-> B!today, started |-> now, ok |-> TRUE]
  <2>3. runs' = [runs EXCEPT ![r] = entry] /\ entry.day = B!today /\ entry.at # "direct" BY <1>1 DEF B!runBackup
  <2> HIDE DEF entry
  <2>4. \A o \in Run : IF o = r THEN runs'[o].day = B!today /\ runs'[o].at # "direct" ELSE runs'[o] = runs[o] BY <2>3, <1>t
  <2>5. \A o \in Run : B!Active(o)' => o = r BY <2>1, <2>4 DEF B!Active
  <2>6. \A d \in published : d =< B!today
    <3> TAKE d \in published
    <3>1. 2 * d =< now /\ d \in Nat /\ B!today \in Nat BY <2>2, DaysAre DEF B!InTurn, B!BackupTypeOK
    <3> QED BY <3>1, <2>2, <1>t
  <2> QED BY <1>1, <2>2, <2>4, <2>5, <2>6, <2>1 DEF B!runBackup, B!InTurn, B!Active
<1>2. ASSUME NEW r \in Run, B!snapshotFails(r) PROVE B!InTurn'
  <2>1. /\ \A o \in Run : o # r => runs'[o] = runs[o]
        /\ runs'[r].at = "report" /\ runs'[r].day = runs[r].day
    BY <1>2, <1>t, RunMoves DEF B!snapshotFails, B!Step
  <2> QED BY <1>0, <1>2, <2>1, <1>t, DayWorked DEF B!snapshotFails, B!Active
<1>3. ASSUME NEW r \in Run, B!copyToPartial(r) PROVE B!InTurn'
  <2>1. /\ \A o \in Run : o # r => runs'[o] = runs[o]
        /\ runs'[r].at = "copying" /\ runs'[r].day = runs[r].day
    BY <1>3, <1>t, RunMoves DEF B!copyToPartial, B!Step
  <2> QED BY <1>0, <1>3, <2>1, <1>t, DayWorked DEF B!copyToPartial, B!Active
<1>4. ASSUME NEW r \in Run, B!copied(r) PROVE B!InTurn'
  <2>1. /\ \A o \in Run : o # r => runs'[o] = runs[o]
        /\ runs'[r].at \in {"rename", "fallback"} /\ runs'[r].day = runs[r].day
    BY <1>4, <1>t, RunMoves DEF B!copied, B!Step
  <2>2. \A d \in B!Day : files'[d] # "absent" => files[d] # "absent" BY <1>4, <1>t DEF B!copied
  <2> QED BY <1>0, <1>4, <2>1, <2>2, <1>t, DayWorked DEF B!copied, B!Active
<1>5. ASSUME NEW r \in Run, B!rename(r) PROVE B!InTurn'
  <2>1. /\ \A o \in Run : o # r => runs'[o] = runs[o]
        /\ runs'[r].at \in {"prune", "report", "fallback"} /\ runs'[r].day = runs[r].day
    BY <1>5, <1>t, RunMoves DEF B!rename, B!Step
  <2>2. \A d \in B!Day : files'[d] # "absent" => files[d] # "absent" \/ d \in published' BY <1>5, <1>t, <1>d DEF B!rename
  <2>3. B!Active(r) /\ published \subseteq published' /\ (\A d \in published' : d \in published \/ d = runs[r].day)
    BY <1>5 DEF B!rename, B!Active
  <2> QED BY <1>0, <1>5, <2>1, <2>2, <2>3, <1>t, DayWorked DEF B!rename, B!Active
<1>6. ASSUME NEW r \in Run, B!fallback(r) PROVE B!InTurn'
  <2>1. /\ \A o \in Run : o # r => runs'[o] = runs[o]
        /\ runs'[r].day = runs[r].day
    BY <1>6, <1>t, RunMoves DEF B!fallback, B!Step
  <2>2. \A d \in B!Day : files'[d] # "absent" => files[d] # "absent" \/ d \in published' BY <1>6, <1>t, <1>d DEF B!fallback
  <2>3. B!Active(r) /\ published \subseteq published' /\ (\A d \in published' : d \in published \/ d = runs[r].day)
    BY <1>6 DEF B!fallback, B!Active
  <2>4. runs'[r].at = "direct" => runs[r].day \in published'
    <3>1. CASE files[runs[r].day] # "absent"
      <4>1. B!Fails(r) BY <1>6, <3>1 DEF B!fallback
      <4>2. runs'[r].at = "report" BY <4>1, <1>t, RunMoves DEF B!Step
      <4> QED BY <4>2
    <3>2. CASE files[runs[r].day] = "absent" BY <1>6, <3>2 DEF B!fallback
    <3> QED BY <3>1, <3>2
  <2> QED BY <1>0, <1>6, <2>1, <2>2, <2>3, <2>4, <1>t, DayWorked DEF B!fallback, B!Active
<1>7. ASSUME NEW r \in Run, B!directCopied(r) PROVE B!InTurn'
  <2>1. /\ \A o \in Run : o # r => runs'[o] = runs[o]
        /\ runs'[r].at \in {"prune", "report"} /\ runs'[r].day = runs[r].day
    BY <1>7, <1>t, RunMoves DEF B!directCopied, B!Step
  <2>2. \A d \in B!Day : files'[d] # "absent" => files[d] # "absent" \/ d \in published BY <1>7, <1>t, <1>d DEF B!directCopied, B!InTurn
  <2>3. published' = published /\ B!Active(r) /\ shift' = shift /\ now' = now BY <1>7 DEF B!directCopied, B!Active
  <2> QED BY <1>0, <2>1, <2>2, <2>3, <1>t, DayWorked DEF B!Active
<1>8. ASSUME NEW r \in Run, B!prune(r) PROVE B!InTurn'
  <2>1. /\ \A o \in Run : o # r => runs'[o] = runs[o]
        /\ runs'[r].at = "report" /\ runs'[r].day = runs[r].day
    BY <1>8, <1>t, RunMoves DEF B!prune, B!Step
  <2>2. \A d \in B!Day : files'[d] # "absent" => files[d] # "absent" BY <1>8, <1>t DEF B!prune
  <2> QED BY <1>0, <1>8, <2>1, <2>2, <1>t, DayWorked DEF B!prune, B!Active
<1>9. ASSUME NEW r \in Run, B!writeStatus(r) \/ B!kill(r) PROVE B!InTurn'
  <2>1. \A o \in Run : runs'[o] = IF o = r THEN B!Idle ELSE runs[o] BY <1>9, <1>t, RunEnds DEF B!writeStatus, B!kill
  <2>2. published' = published /\ files' = files /\ shift' = shift /\ now' = now BY <1>9 DEF B!writeStatus, B!kill
  <2> QED BY <1>0, <2>1, <2>2, <1>t, DayWorked DEF B!Active, B!Idle
<1>10. CASE B!refreshBackupHealth \/ B!handleGetBackupHealth \/ B!disconnect
  BY <1>10 DEF B!refreshBackupHealth, B!handleGetBackupHealth, B!disconnect, B!InTurn, B!Active
<1>11. CASE B!Tick
  <2>1. now' = now + 1 /\ UNCHANGED <<shift, files, runs, published>> BY <1>11 DEF B!Tick
  <2> QED BY <1>0, <2>1, <1>t, DayWorked DEF B!Active
<1>12. CASE B!turnBack BY <1>12, <1>e DEF B!turnBack
<1> QED BY <1>1, <1>2, <1>3, <1>4, <1>5, <1>6, <1>7, <1>8, <1>9, <1>10, <1>11, <1>12 DEF B!BackupNext

\* An anchor among more days, of which the others are later, was one before.
LEMMA AnchorBefore ==
  ASSUME BackupConstants, NEW Z \in SUBSET B!Day, NEW d \in B!Day, \A x \in Z : x =< d,
         NEW e \in Z, B!Anchor(Z \cup {d}, e)
  PROVE  B!Anchor(Z, e)
<1>0. PICK n \in Nat : B!Day = 0 .. n BY DaysAre
<1>1. Z \in SUBSET Nat /\ (Z \cup {d}) \in SUBSET Nat /\ d \in Nat BY <1>0
<1>2. B!Min(Z) \in Z /\ \A x \in Z : B!Min(Z) =< x BY <1>1, FirstDay
<1>3. B!Min(Z \cup {d}) \in Z \cup {d} /\ \A x \in Z \cup {d} : B!Min(Z \cup {d}) =< x BY <1>1, FirstDay
<1>4. B!Min(Z \cup {d}) = B!Min(Z)
  <2>1. B!Min(Z) =< B!Min(Z \cup {d})
    <3>1. B!Min(Z) =< d BY <1>2
    <3> QED BY <3>1, <1>2, <1>3
  <2>2. B!Min(Z \cup {d}) =< B!Min(Z) BY <1>2, <1>3
  <2>3. B!Min(Z) \in Nat /\ B!Min(Z \cup {d}) \in Nat BY <1>1, <1>2, <1>3
  <2> QED BY <2>1, <2>2, <2>3
<1>5. Cardinality({x \in Z : x >= e}) =< Cardinality({x \in Z \cup {d} : x >= e})
      /\ Cardinality({x \in Z : x >= e}) \in Nat /\ Cardinality({x \in Z \cup {d} : x >= e}) \in Nat
  <2> DEFINE X == {x \in Z \cup {d} : x >= e} Y == {x \in Z : x >= e}
  <2>1. X \in SUBSET (0 .. n) /\ Y \in SUBSET X BY <1>0
  <2> HIDE DEF X, Y
  <2>2. Cardinality(Y) \in Nat /\ Cardinality(X) \in Nat /\ Cardinality(Y) =< Cardinality(X) BY <2>1, DaysFrom
  <2> QED BY <2>2 DEF X, Y
<1> QED BY <1>4, <1>5, CountsAgree DEF B!Anchor, BackupConstants

\* An anchor is in no plan of the pruning, while the first day and the anchors are there.
LEMMA AnchorNotPruned ==
  ASSUME BackupConstants, B!BackupTypeOK, B!InTurn, B!AnchorsStay, NEW e \in published, B!Anchor(published, e)
  PROVE  files[e] # "absent" /\ e \notin B!planPrune
<1>0. PICK n \in Nat : B!Day = 0 .. n BY DaysAre
<1>1. published \in SUBSET Nat /\ published \subseteq B!Day BY <1>0 DEF B!BackupTypeOK
<1>2. B!There \subseteq published /\ B!There \in SUBSET Nat BY <1>1 DEF B!There, B!InTurn
<1>3. B!Min(published) \in published /\ \A x \in published : B!Min(published) =< x BY <1>1, FirstDay
<1>4. B!Min(published) \in B!There
  <2>1. (B!Min(published) - B!Min(published)) % Period = 0
    <3>0. B!Min(published) \in Nat BY <1>1, <1>3
    <3>1. B!Min(published) - B!Min(published) = 0 BY <3>0
    <3>2. 0 % Period = 0 BY DEF BackupConstants
    <3> QED BY <3>1, <3>2
  <2>2. B!Anchor(published, B!Min(published)) BY <2>1 DEF B!Anchor
  <2> QED BY <2>2, <1>1, <1>3 DEF B!AnchorsStay, B!There
<1>5. B!Min(B!There) \in B!There /\ \A x \in B!There : B!Min(B!There) =< x BY <1>2, <1>4, FirstDay
<1>6. B!Min(B!There) = B!Min(published)
  <2>1. B!Min(B!There) =< B!Min(published) /\ B!Min(published) =< B!Min(B!There) BY <1>2, <1>3, <1>4, <1>5
  <2>2. B!Min(B!There) \in Nat /\ B!Min(published) \in Nat BY <1>1, <1>2, <1>3, <1>5
  <2> QED BY <2>1, <2>2
<1>7. Cardinality({x \in B!There : x >= e}) =< Cardinality({x \in published : x >= e})
      /\ Cardinality({x \in B!There : x >= e}) \in Nat /\ Cardinality({x \in published : x >= e}) \in Nat
  <2> DEFINE X == {x \in published : x >= e} Y == {x \in B!There : x >= e}
  <2>1. X \in SUBSET (0 .. n) /\ Y \in SUBSET X BY <1>0, <1>1, <1>2
  <2> HIDE DEF X, Y
  <2>2. Cardinality(Y) \in Nat /\ Cardinality(X) \in Nat /\ Cardinality(Y) =< Cardinality(X) BY <2>1, DaysFrom
  <2> QED BY <2>2 DEF X, Y
<1>8. e \notin B!planPrune BY <1>6, <1>7, CountsAgree DEF B!planPrune, B!Anchor, BackupConstants
<1> QED BY <1>8 DEF B!AnchorsStay

LEMMA AnchorStep ==
  ASSUME BackupConstants, InOrder, B!AnchorInv, B!BackupNext
  PROVE  B!AnchorInv'
<1> USE DEF B!health
<1>0. B!BackupTypeOK /\ B!InTurn /\ B!AnchorsStay BY DEF B!AnchorInv
<1>1. B!BackupTypeOK' /\ B!InTurn' BY <1>0, BackupTypes, InTurnStep
<1>t. /\ runs \in [Run -> B!Process] /\ files \in [B!Day -> B!File] /\ partial \in [B!Day -> B!File] /\ published \subseteq B!Day
  BY <1>0 DEF B!BackupTypeOK
<1>d. \A r \in Run : runs[r].day \in B!Day BY <1>t DEF B!Process
\* Nothing is published, and nothing goes.
<1>k. ASSUME published' = published, \A d \in B!Day : files[d] # "absent" => files'[d] # "absent"
      PROVE  B!AnchorsStay'
  BY <1>k, <1>0, <1>t DEF B!AnchorsStay
\* A day is published.
<1>p. ASSUME NEW r \in Run, B!Active(r), published' = published \cup {runs[r].day},
             \A d \in B!Day : files[d] # "absent" \/ d = runs[r].day => files'[d] # "absent"
      PROVE  B!AnchorsStay'
  <2>1. \A x \in published : x =< runs[r].day BY <1>p, <1>0 DEF B!InTurn
  <2> SUFFICES ASSUME NEW e \in published', B!Anchor(published', e) PROVE files'[e] # "absent"
    BY DEF B!AnchorsStay
  <2>2. CASE e = runs[r].day BY <2>2, <1>p, <1>d
  <2>3. CASE e # runs[r].day
    <3>1. e \in published BY <2>3, <1>p
    <3>2. B!Anchor(published, e) BY <3>1, <2>1, <1>p, <1>t, <1>d, AnchorBefore
    <3> QED BY <3>1, <3>2, <1>p, <1>0, <1>t DEF B!AnchorsStay
  <2> QED BY <2>2, <2>3
<1>2. ASSUME NEW r \in Run, B!runBackup(r) \/ B!snapshotFails(r) \/ B!copyToPartial(r) \/ B!writeStatus(r) \/ B!kill(r)
      PROVE  B!AnchorsStay'
  BY <1>2, <1>k DEF B!runBackup, B!snapshotFails, B!copyToPartial, B!writeStatus, B!kill
<1>3. ASSUME NEW r \in Run, B!copied(r) PROVE B!AnchorsStay'
  <2>1. \A d \in B!Day : files[d] # "absent" => files'[d] # "absent" BY <1>3, <1>t DEF B!copied
  <2> QED BY <2>1, <1>3, <1>k DEF B!copied
<1>4. ASSUME NEW r \in Run, B!rename(r) PROVE B!AnchorsStay'
  <2>1. CASE files' = files /\ published' = published BY <2>1, <1>k
  <2>2. CASE partial[runs[r].day] # "absent" /\ files' = [files EXCEPT ![runs[r].day] = partial[runs[r].day]]
             /\ published' = published \cup {runs[r].day}
    <3>1. \A d \in B!Day : files[d] # "absent" \/ d = runs[r].day => files'[d] # "absent" BY <2>2, <1>t
    <3>2. B!Active(r) BY <1>4 DEF B!rename, B!Active
    <3> QED BY <2>2, <3>1, <3>2, <1>p
  <2> QED BY <2>1, <2>2, <1>4 DEF B!rename
<1>5. ASSUME NEW r \in Run, B!fallback(r) PROVE B!AnchorsStay'
  <2>1. CASE files' = files /\ published' = published BY <2>1, <1>k
  <2>2. CASE files' = [files EXCEPT ![runs[r].day] = "torn"] /\ published' = published \cup {runs[r].day}
    <3>1. \A d \in B!Day : files[d] # "absent" \/ d = runs[r].day => files'[d] # "absent" BY <2>2, <1>t
    <3>2. B!Active(r) BY <1>5 DEF B!fallback, B!Active
    <3> QED BY <2>2, <3>1, <3>2, <1>p
  <2> QED BY <2>1, <2>2, <1>5 DEF B!fallback
<1>6. ASSUME NEW r \in Run, B!directCopied(r) PROVE B!AnchorsStay'
  <2>1. \A d \in B!Day : files[d] # "absent" => files'[d] # "absent" BY <1>6, <1>t DEF B!directCopied
  <2> QED BY <2>1, <1>6, <1>k DEF B!directCopied
<1>7. ASSUME NEW r \in Run, B!prune(r) PROVE B!AnchorsStay'
  <2>1. PICK gone \in SUBSET B!planPrune : files' = [d \in B!Day |-> IF d \in gone THEN "absent" ELSE files[d]]
    BY <1>7 DEF B!prune
  <2>2. published' = published BY <1>7 DEF B!prune
  <2> SUFFICES ASSUME NEW e \in published, B!Anchor(published, e) PROVE files'[e] # "absent"
    BY <2>2 DEF B!AnchorsStay
  <2>3. files[e] # "absent" /\ e \notin B!planPrune BY <1>0, AnchorNotPruned
  <2> QED BY <2>1, <2>3, <1>t
<1>8. ASSUME B!refreshBackupHealth \/ B!handleGetBackupHealth \/ B!disconnect \/ B!Tick \/ B!turnBack PROVE B!AnchorsStay'
  BY <1>8, <1>k DEF B!refreshBackupHealth, B!handleGetBackupHealth, B!disconnect, B!Tick, B!turnBack
<1>9. B!AnchorsStay' BY <1>2, <1>3, <1>4, <1>5, <1>6, <1>7, <1>8 DEF B!BackupNext
<1> QED BY <1>1, <1>9 DEF B!AnchorInv

LEMMA QuietStep ==
  ASSUME BackupConstants, InOrder, NothingTorn, B!QuietInv, B!BackupNext
  PROVE  B!QuietInv'
<1> USE DEF B!health
<1>0. B!BackupTypeOK /\ B!InTurn /\ B!WorkIsWhole /\ B!StatusHolds /\ B!PageFollows BY DEF B!QuietInv
<1>1. B!BackupTypeOK' /\ B!InTurn' BY <1>0, BackupTypes, InTurnStep
<1>t. /\ runs \in [Run -> B!Process] /\ files \in [B!Day -> B!File] /\ partial \in [B!Day -> B!File]
      /\ now \in 0 .. MaxHalfDays /\ now \in Nat /\ status.finished \in 0 .. MaxHalfDays /\ page \in B!Verdict \cup {None}
  BY <1>0 DEF B!BackupTypeOK, BackupConstants
<1>d. \A r \in Run : runs[r].day \in B!Day /\ runs[r].day \in Nat /\ runs[r].started \in Nat /\ runs[r].ok \in BOOLEAN
  BY <1>t, DaysAre DEF B!Process, BackupConstants
<1>e. env \cap {"full", "asleep"} = {} /\ ~("killed" \in env /\ "refused" \in env)
  <2>1. env \subseteq {"killed"} \/ env \subseteq {"refused"} BY <1>0 DEF B!BackupTypeOK, NothingTorn
  <2> QED BY <2>1
<1>n. B!Day \subseteq Nat BY DaysAre
\* The run that works is the only one.
<1>o. ASSUME NEW r \in Run, B!Active(r), NEW o \in Run, o # r PROVE runs[o].at = "none"
  BY <1>o, <1>0 DEF B!InTurn, B!Active
\* A step of a run that leaves no whole file away.
<1>w. ASSUME NEW r \in Run, B!Active(r), now' = now, env' = env,
             \A o \in Run : o # r => runs'[o] = runs[o],
             runs'[r].at # "none" => runs'[r].day = runs[r].day /\ runs'[r].started = runs[r].started,
             runs'[r].at \in {"snapshot", "copying", "rename", "fallback"} => files'[runs[r].day] = "absent",
             runs'[r].at = "copying" => partial'[runs[r].day] = "torn",
             runs'[r].at = "rename" => partial'[runs[r].day] = "whole",
             runs'[r].at \in {"fallback", "direct"} => "refused" \in env,
             runs'[r].at = "prune" \/ (runs'[r].at = "report" /\ runs'[r].ok) => files'[runs[r].day] = "whole",
             \A d \in B!Day : files'[d] = "torn" => runs'[r].at = "direct" /\ runs'[r].day = d
      PROVE  B!WorkIsWhole'
  <2>1. \A o \in Run : o # r => runs'[o].at = "none" BY <1>w, <1>o
  <2>2. runs'[r].at # "none" => now =< runs[r].started + 1 /\ runs[r].started =< 2 * runs[r].day + 1 BY <1>w, <1>0 DEF B!WorkIsWhole
  <2>3. B!WorkIsWhole' =
      ( /\ \A o \in Run :
             /\ runs'[o].at \in {"snapshot", "copying", "rename", "fallback"} => files'[runs'[o].day] = "absent"
             /\ runs'[o].at = "copying" => partial'[runs'[o].day] = "torn"
             /\ runs'[o].at = "rename" => partial'[runs'[o].day] = "whole"
             /\ runs'[o].at \in {"fallback", "direct"} => "refused" \in env'
             /\ runs'[o].at = "prune" \/ (runs'[o].at = "report" /\ runs'[o].ok) => files'[runs'[o].day] = "whole"
             /\ runs'[o].at # "none" => now' =< runs'[o].started + 1 /\ runs'[o].started =< 2 * runs'[o].day + 1
        /\ \A d \in B!Day : files'[d] = "torn" => \E o \in Run : runs'[o].at = "direct" /\ runs'[o].day = d)
    BY DEF B!WorkIsWhole, B!Active
  <2> QED BY <1>w, <2>1, <2>2, <2>3
\* The status still holds, and the page still follows.
<1>s. ASSUME status' = status, \A d \in B!Day : files[d] = "whole" => files'[d] = "whole" PROVE B!StatusHolds'
  BY <1>s, <1>0 DEF B!StatusHolds
<1>p. ASSUME UNCHANGED <<status, now, verdict, page, judged>> PROVE B!PageFollows'
  BY <1>p, <1>0 DEF B!PageFollows, B!evaluateBackupHealth
<1>2. ASSUME NEW r \in Run, B!runBackup(r) PROVE B!QuietInv'
  <2>1. \A o \in Run : ~B!Active(o) BY <1>2, <1>0, <1>1 DEF B!runBackup, B!Active, B!InTurn, InOrder, B!BackupTypeOK
  <2>2. B!today \in B!Day /\ 2 * B!today =< now /\ now =< 2 * B!today + 1 BY <1>0, <1>t, TodayIs DEF B!InTurn
  <2> DEFINE entry == [at |-> IF files[B!today] = "absent" THEN "snapshot" ELSE "prune", day |-> B!today, started |-> now, ok |-> TRUE]
  <2>3. runs' = [runs EXCEPT ![r] = entry] /\ entry.day = B!today /\ entry.started = now
        /\ entry.at = IF files[B!today] = "absent" THEN "snapshot" ELSE "prune"
    BY <1>2 DEF B!runBackup
  <2> HIDE DEF entry
  <2>4. \A o \in Run : IF o = r THEN runs'[o] = entry ELSE runs'[o] = runs[o] BY <2>3, <1>t
  <2>5. \A o \in Run : o # r => runs'[o].at = "none" BY <2>1, <2>4 DEF B!Active
  <2>6. \A d \in B!Day : files[d] # "torn" BY <2>1, <1>0 DEF B!WorkIsWhole, B!Active
  <2>7. entry.at = "prune" => files[B!today] = "whole" BY <2>3, <2>6, <2>2, <1>t DEF B!File
  <2>8. UNCHANGED <<env, now, files, status, verdict, page, judged>> BY <1>2 DEF B!runBackup
  <2>9. B!WorkIsWhole'
    <3>1. \A o \in Run :
             /\ runs'[o].at \in {"snapshot", "copying", "rename", "fallback"} => files[runs'[o].day] = "absent"
             /\ runs'[o].at \notin {"copying", "rename", "fallback", "direct", "report"}
             /\ runs'[o].at = "prune" => files[runs'[o].day] = "whole"
             /\ runs'[o].at # "none" => now =< runs'[o].started + 1 /\ runs'[o].started =< 2 * runs'[o].day + 1
      BY <2>2, <2>3, <2>4, <2>5, <2>7, <1>t
    <3> QED BY <3>1, <2>6, <2>8 DEF B!WorkIsWhole, B!Active
  <2> QED BY <2>8, <2>9, <1>1, <1>s, <1>p DEF B!QuietInv
<1>3. ASSUME NEW r \in Run, B!snapshotFails(r) PROVE B!QuietInv'
  <2>1. /\ \A o \in Run : o # r => runs'[o] = runs[o]
        /\ runs'[r].at = "report" /\ runs'[r].day = runs[r].day /\ runs'[r].started = runs[r].started /\ ~runs'[r].ok
    BY <1>3, <1>t, RunMoves DEF B!snapshotFails, B!Step
  <2>2. B!Active(r) /\ UNCHANGED <<env, now, files, status, verdict, page, judged>> /\ runs[r].at = "snapshot"
    BY <1>3 DEF B!snapshotFails, B!Active
  <2>3. \A d \in B!Day : files[d] # "torn" BY <2>2, <1>o, <1>0 DEF B!WorkIsWhole
  <2>4. B!WorkIsWhole' BY <2>1, <2>2, <2>3, <1>w
  <2> QED BY <2>2, <2>4, <1>1, <1>s, <1>p DEF B!QuietInv
<1>4. ASSUME NEW r \in Run, B!copyToPartial(r) PROVE B!QuietInv'
  <2>1. /\ \A o \in Run : o # r => runs'[o] = runs[o]
        /\ runs'[r].at = "copying" /\ runs'[r].day = runs[r].day /\ runs'[r].started = runs[r].started
    BY <1>4, <1>t, RunMoves DEF B!copyToPartial, B!Step
  <2>2. B!Active(r) /\ UNCHANGED <<env, now, files, status, verdict, page, judged>> /\ runs[r].at = "snapshot"
    BY <1>4 DEF B!copyToPartial, B!Active
  <2>3. \A d \in B!Day : files[d] # "torn" BY <2>2, <1>o, <1>0 DEF B!WorkIsWhole
  <2>4. partial'[runs[r].day] = "torn" BY <1>4, <1>t, <1>d DEF B!copyToPartial
  <2>5. files[runs[r].day] = "absent" BY <2>2, <1>0 DEF B!WorkIsWhole
  <2>6. B!WorkIsWhole' BY <2>1, <2>2, <2>3, <2>4, <2>5, <1>w
  <2> QED BY <2>2, <2>6, <1>1, <1>s, <1>p DEF B!QuietInv
<1>5. ASSUME NEW r \in Run, B!copied(r) PROVE B!QuietInv'
  <2>1. B!Active(r) /\ UNCHANGED <<env, now, status, verdict, page, judged>> /\ runs[r].at = "copying"
    BY <1>5 DEF B!copied, B!Active
  <2>2. partial[runs[r].day] = "torn" /\ files[runs[r].day] = "absent" BY <2>1, <1>0 DEF B!WorkIsWhole
  <2>3. B!Goes(r, "rename") /\ files' = files /\ partial' = [partial EXCEPT ![runs[r].day] = "whole"] BY <2>2, <1>5, <1>e DEF B!copied
  <2>4. /\ \A o \in Run : o # r => runs'[o] = runs[o]
        /\ runs'[r].at = "rename" /\ runs'[r].day = runs[r].day /\ runs'[r].started = runs[r].started
    BY <2>3, <1>t, RunMoves DEF B!Step
  <2>5. partial'[runs[r].day] = "whole" BY <2>3, <1>t, <1>d
  <2>6. \A d \in B!Day : files[d] # "torn" BY <2>1, <1>o, <1>0 DEF B!WorkIsWhole
  <2>7. B!WorkIsWhole' BY <2>1, <2>2, <2>3, <2>4, <2>5, <2>6, <1>w
  <2> QED BY <2>1, <2>3, <2>7, <1>1, <1>s, <1>p DEF B!QuietInv
<1>6. ASSUME NEW r \in Run, B!rename(r) PROVE B!QuietInv'
  <2>1. B!Active(r) /\ UNCHANGED <<env, now, status, verdict, page, judged>> /\ runs[r].at = "rename"
    BY <1>6 DEF B!rename, B!Active
  <2>2. partial[runs[r].day] = "whole" /\ files[runs[r].day] = "absent" BY <2>1, <1>0 DEF B!WorkIsWhole
  <2>3. \A d \in B!Day : files[d] # "torn" BY <2>1, <1>o, <1>0 DEF B!WorkIsWhole
  <2>4. CASE B!Goes(r, "prune") /\ files' = [files EXCEPT ![runs[r].day] = "whole"]
    <3>1. /\ \A o \in Run : o # r => runs'[o] = runs[o]
          /\ runs'[r].at = "prune" /\ runs'[r].day = runs[r].day /\ runs'[r].started = runs[r].started
      BY <2>4, <1>t, RunMoves DEF B!Step
    <3>2. files'[runs[r].day] = "whole" /\ (\A d \in B!Day : files'[d] = files[d] \/ files'[d] = "whole") BY <2>4, <1>t, <1>d
    <3>3. B!WorkIsWhole' BY <3>1, <3>2, <2>1, <2>3, <1>w
    <3>4. \A d \in B!Day : files[d] = "whole" => files'[d] = "whole" BY <3>2
    <3> QED BY <3>3, <3>4, <2>1, <1>1, <1>s, <1>p DEF B!QuietInv
  <2>5. CASE B!Goes(r, "fallback") /\ files' = files /\ partial' = partial /\ "refused" \in env
    <3>1. /\ \A o \in Run : o # r => runs'[o] = runs[o]
          /\ runs'[r].at = "fallback" /\ runs'[r].day = runs[r].day /\ runs'[r].started = runs[r].started
      BY <2>5, <1>t, RunMoves DEF B!Step
    <3>2. B!WorkIsWhole' BY <3>1, <2>1, <2>2, <2>3, <2>5, <1>w
    <3> QED BY <3>2, <2>1, <2>5, <1>1, <1>s, <1>p DEF B!QuietInv
  <2> QED BY <2>2, <2>4, <2>5, <1>6 DEF B!rename
<1>7. ASSUME NEW r \in Run, B!fallback(r) PROVE B!QuietInv'
  <2>1. B!Active(r) /\ UNCHANGED <<env, now, status, verdict, page, judged>> /\ runs[r].at = "fallback"
    BY <1>7 DEF B!fallback, B!Active
  <2>2. files[runs[r].day] = "absent" /\ "refused" \in env BY <2>1, <1>0 DEF B!WorkIsWhole
  <2>3. \A d \in B!Day : files[d] # "torn" BY <2>1, <1>o, <1>0 DEF B!WorkIsWhole
  <2>4. B!Goes(r, "direct") /\ files' = [files EXCEPT ![runs[r].day] = "torn"] BY <1>7, <2>2 DEF B!fallback
  <2>5. /\ \A o \in Run : o # r => runs'[o] = runs[o]
        /\ runs'[r].at = "direct" /\ runs'[r].day = runs[r].day /\ runs'[r].started = runs[r].started
    BY <2>4, <1>t, RunMoves DEF B!Step
  <2>6. \A d \in B!Day : files'[d] = IF d = runs[r].day THEN "torn" ELSE files[d] BY <2>4, <1>t
  <2>7. B!WorkIsWhole' BY <2>1, <2>2, <2>3, <2>5, <2>6, <1>w
  <2>8. \A d \in B!Day : files[d] = "whole" => files'[d] = "whole" BY <2>2, <2>6
  <2> QED BY <2>1, <2>7, <2>8, <1>1, <1>s, <1>p DEF B!QuietInv
<1>8. ASSUME NEW r \in Run, B!directCopied(r) PROVE B!QuietInv'
  <2>1. B!Active(r) /\ UNCHANGED <<env, now, status, verdict, page, judged>> /\ runs[r].at = "direct"
    BY <1>8 DEF B!directCopied, B!Active
  <2>2. B!Goes(r, "prune") /\ files' = [files EXCEPT ![runs[r].day] = "whole"] BY <1>8, <1>e DEF B!directCopied
  <2>3. /\ \A o \in Run : o # r => runs'[o] = runs[o]
        /\ runs'[r].at = "prune" /\ runs'[r].day = runs[r].day /\ runs'[r].started = runs[r].started
    BY <2>2, <1>t, RunMoves DEF B!Step
  <2>4. \A d \in B!Day : files'[d] = IF d = runs[r].day THEN "whole" ELSE files[d] BY <2>2, <1>t
  <2>5. \A d \in B!Day : files'[d] # "torn"
    <3>1. \A d \in B!Day : files[d] = "torn" => d = runs[r].day BY <2>1, <1>o, <1>0 DEF B!WorkIsWhole
    <3> QED BY <3>1, <2>4
  <2>6. B!WorkIsWhole' BY <2>1, <2>3, <2>4, <2>5, <1>d, <1>w
  <2> QED BY <2>1, <2>4, <2>6, <1>1, <1>s, <1>p DEF B!QuietInv
<1>9. ASSUME NEW r \in Run, B!prune(r) PROVE B!QuietInv'
  <2>1. B!Active(r) /\ UNCHANGED <<env, now, status, verdict, page, judged>> /\ runs[r].at = "prune" /\ B!Goes(r, "report")
    BY <1>9 DEF B!prune, B!Active
  <2>2. files[runs[r].day] = "whole" BY <2>1, <1>0 DEF B!WorkIsWhole
  <2>3. \A d \in B!Day : files[d] # "torn" BY <2>1, <1>o, <1>0 DEF B!WorkIsWhole
  <2>4. PICK gone \in SUBSET B!planPrune : files' = [d \in B!Day |-> IF d \in gone THEN "absent" ELSE files[d]]
    BY <1>9 DEF B!prune
  <2>5. \A d \in B!There : d =< runs[r].day BY <2>1, <1>0 DEF B!There, B!InTurn
  <2>6. runs[r].day \notin B!planPrune
    <3> DEFINE X == {e \in B!There : e >= runs[r].day}
    <3>0. \A e \in B!There : e >= runs[r].day => e = runs[r].day
      <4> TAKE e \in B!There
      <4>1. e \in Nat BY <1>n DEF B!There
      <4> QED BY <4>1, <2>5, <1>d
    <3>1. X \subseteq {runs[r].day} BY <3>0
    <3> HIDE DEF X
    <3>2. Cardinality({runs[r].day}) = 1 /\ IsFiniteSet({runs[r].day}) BY FS_Singleton
    <3>3. Cardinality(X) =< 1 /\ IsFiniteSet(X) BY <3>1, <3>2, FS_Subset
    <3>4. Cardinality(X) \in Nat BY <3>3, FS_CardinalityType
    <3>5. ~(Cardinality(X) > Keep) BY <3>3, <3>4 DEF BackupConstants
    <3> QED BY <3>5, CountsAgree DEF B!planPrune, X
  <2>7. files'[runs[r].day] = "whole" BY <2>2, <2>4, <2>6, <1>d
  <2>8. /\ \A o \in Run : o # r => runs'[o] = runs[o]
        /\ runs'[r].at = "report" /\ runs'[r].day = runs[r].day /\ runs'[r].started = runs[r].started
    BY <2>1, <1>t, RunMoves DEF B!Step
  <2>9. B!WorkIsWhole'
    <3>1. \A d \in B!Day : files'[d] # "torn" BY <2>3, <2>4
    <3> QED BY <3>1, <2>1, <2>7, <2>8, <1>w
  <2>10. B!StatusHolds'
    <3> SUFFICES ASSUME status.is = "done", status.ok PROVE \E d \in B!Day : files'[d] = "whole" /\ status.finished =< 2 * d + 2
      BY <2>1 DEF B!StatusHolds
    <3>1. PICK d \in B!Day : files[d] = "whole" /\ status.finished =< 2 * d + 2 BY <1>0 DEF B!StatusHolds
    <3>2. d =< runs[r].day BY <3>1, <2>5 DEF B!There
    <3>3. status.finished =< 2 * runs[r].day + 2 BY <3>1, <3>2, <1>n, <1>d, <1>t
    <3> QED BY <3>3, <2>7, <1>d
  <2> QED BY <2>1, <2>9, <2>10, <1>1, <1>p DEF B!QuietInv
<1>10. ASSUME NEW r \in Run, B!writeStatus(r) \/ B!kill(r) PROVE B!QuietInv'
  <2>1. \A o \in Run : runs'[o] = IF o = r THEN B!Idle ELSE runs[o] BY <1>10, <1>t, RunEnds DEF B!writeStatus, B!kill
  <2>2. B!Active(r) /\ UNCHANGED <<env, now, files, verdict, page>> BY <1>10 DEF B!writeStatus, B!kill, B!Active
  <2>3. \A d \in B!Day : files[d] # "torn"
    <3>1. runs[r].at # "direct"
      <4>1. CASE B!writeStatus(r) BY <4>1 DEF B!writeStatus
      <4>2. CASE B!kill(r)
        <5>1. "refused" \notin env BY <4>2, <1>e DEF B!kill
        <5> QED BY <5>1, <1>0 DEF B!WorkIsWhole
      <4> QED BY <4>1, <4>2, <1>10
    <3> QED BY <3>1, <2>2, <1>o, <1>0 DEF B!WorkIsWhole
  <2>4. B!WorkIsWhole' BY <2>1, <2>2, <2>3, <1>w DEF B!Idle
  <2>5. CASE status' = status /\ judged' = judged BY <2>2, <2>4, <2>5, <1>1, <1>s, <1>p DEF B!QuietInv
  <2>6. CASE B!writeStatus(r) /\ judged' = FALSE /\ (\E is \in {"done", "torn"} : status' = [is |-> is, ok |-> runs[r].ok, finished |-> now])
    <3>1. status'.ok = runs[r].ok /\ status'.finished = now BY <2>6
    <3>2. runs[r].ok => files[runs[r].day] = "whole" /\ now =< 2 * runs[r].day + 2
      BY <2>6, <1>0, <1>d, <1>t DEF B!writeStatus, B!WorkIsWhole, B!Active
    <3>3. B!StatusHolds' BY <3>1, <3>2, <2>2, <1>d DEF B!StatusHolds
    <3>4. B!PageFollows' BY <2>2, <2>6, <1>0 DEF B!PageFollows
    <3> QED BY <3>3, <3>4, <2>4, <1>1 DEF B!QuietInv
  <2> QED BY <2>5, <2>6, <1>10 DEF B!writeStatus, B!kill
<1>11. ASSUME B!refreshBackupHealth \/ B!handleGetBackupHealth \/ B!disconnect PROVE B!QuietInv'
  <2>1. UNCHANGED <<env, now, files, partial, runs, status>> BY <1>11 DEF B!refreshBackupHealth, B!handleGetBackupHealth, B!disconnect
  <2>2. B!WorkIsWhole' /\ B!StatusHolds' BY <2>1, <1>0 DEF B!WorkIsWhole, B!StatusHolds, B!Active
  <2>3. B!evaluateBackupHealth' = B!evaluateBackupHealth BY <2>1 DEF B!evaluateBackupHealth
  <2>4. B!PageFollows' BY <2>3, <1>11, <1>0 DEF B!refreshBackupHealth, B!handleGetBackupHealth, B!disconnect, B!PageFollows
  <2> QED BY <2>2, <2>4, <1>1 DEF B!QuietInv
<1>12. CASE B!Tick
  <2>1. now' = now + 1 /\ judged' = FALSE /\ UNCHANGED <<env, files, partial, runs, status, verdict, page>> BY <1>12 DEF B!Tick
  <2>2. \A r \in Run : B!Active(r) => runs[r].started = now BY <1>12, <1>e DEF B!Tick, B!Active
  <2>3. \A r \in Run : B!Active(r) => now' =< runs[r].started + 1 BY <2>1, <2>2, <1>t
  <2>4. B!WorkIsWhole' BY <2>1, <2>3, <1>0 DEF B!WorkIsWhole, B!Active
  <2>5. B!StatusHolds' /\ B!PageFollows' BY <2>1, <1>0 DEF B!StatusHolds, B!PageFollows
  <2> QED BY <2>4, <2>5, <1>1 DEF B!QuietInv
<1>13. CASE B!turnBack BY <1>13, <1>0 DEF B!turnBack, InOrder, B!BackupTypeOK
<1> QED BY <1>2, <1>3, <1>4, <1>5, <1>6, <1>7, <1>8, <1>9, <1>10, <1>11, <1>12, <1>13 DEF B!BackupNext

LEMMA QuietShows == ASSUME BackupConstants, B!QuietInv PROVE B!QuietMeansBackedUp
<1> SUFFICES ASSUME page = "ok", judged
             PROVE  \E d \in B!Day : files[d] = "whole" /\ now - 2 * d =< StaleAfter + 2
  BY DEF B!QuietMeansBackedUp
<1>0. /\ "ok" # None /\ now \in Nat /\ status.finished \in Nat /\ B!Day \subseteq Nat /\ StaleAfter \in Nat
      /\ status.is \in {"none", "torn", "done"} /\ status.ok \in BOOLEAN
  BY DaysAre DEF B!QuietInv, B!BackupTypeOK, BackupConstants, B!Verdict
<1>1. B!evaluateBackupHealth = "ok" BY <1>0 DEF B!QuietInv, B!PageFollows
<1>2. status.is = "done" /\ status.ok /\ ~(now - status.finished > StaleAfter) BY <1>0, <1>1 DEF B!evaluateBackupHealth
<1>3. PICK d \in B!Day : files[d] = "whole" /\ status.finished =< 2 * d + 2 BY <1>2 DEF B!QuietInv, B!StatusHolds
<1>4. now - 2 * d =< StaleAfter + 2 BY <1>0, <1>2, <1>3
<1> QED BY <1>3, <1>4

LEMMA DaysIdle ==
  ASSUME B!BackupTypeOK, B!InTurn, UNCHANGED slots
  PROVE  B!BackupTypeOK' /\ B!InTurn'
<1>1. B!BackupTypeOK' BY DEF slots, B!BackupTypeOK
<1>2. B!InTurn' BY DEF slots, B!InTurn, B!Active
<1> QED BY <1>1, <1>2

\* One run at a time, on dates that only move on: the first snapshot, every
\* Period-th day from it and the newest stay for good (planPrune).
THEOREM AnchorsAreKept ==
  ASSUME BackupConstants, InOrder
  PROVE  PageSpec => []AnchorsStay
<1> DEFINE Inv == part = "backup" => B!AnchorInv
<1>1. PageInit => Inv BY BackupStarts DEF PageInit
<1>2. Inv /\ [PageNext]_<<part, slots>> => Inv'
  <2> SUFFICES ASSUME Inv, [PageNext]_<<part, slots>>, part' = "backup" PROVE B!AnchorInv' OBVIOUS
  <2>1. CASE PageNext BY <2>1, AnchorStep DEF PageNext
  <2>2. CASE UNCHANGED <<part, slots>>
    <3>1. B!AnchorInv /\ UNCHANGED slots BY <2>2
    <3>2. B!BackupTypeOK' /\ B!InTurn' BY <3>1, DaysIdle DEF B!AnchorInv
    <3>3. UNCHANGED <<files, published>> BY <3>1 DEF slots
    <3>4. B!AnchorsStay' BY <3>1, <3>3 DEF B!AnchorInv, B!AnchorsStay
    <3> QED BY <3>2, <3>4 DEF B!AnchorInv
  <2> QED BY <2>1, <2>2
<1>3. Inv => AnchorsStay BY DEF B!AnchorInv, AnchorsStay
<1> QED BY <1>1, <1>2, <1>3, PTL DEF PageSpec

\* If, besides, no run is killed where the file system refuses to rename, runs
\* out of space or sleeps: a page that shows no warning means that there is a
\* whole, recent snapshot (publishSnapshot, evaluateBackupHealth).
THEOREM QuietIsBackedUp ==
  ASSUME BackupConstants, InOrder, NothingTorn
  PROVE  PageSpec => []QuietMeansBackedUp
<1> DEFINE Inv == part = "backup" => B!QuietInv
<1>1. PageInit => Inv BY BackupStarts DEF PageInit
<1>2. Inv /\ [PageNext]_<<part, slots>> => Inv'
  <2> SUFFICES ASSUME Inv, [PageNext]_<<part, slots>>, part' = "backup" PROVE B!QuietInv' OBVIOUS
  <2>1. CASE PageNext BY <2>1, QuietStep DEF PageNext
  <2>2. CASE UNCHANGED <<part, slots>>
    <3>1. B!QuietInv /\ UNCHANGED slots BY <2>2
    <3>2. B!BackupTypeOK' /\ B!InTurn' BY <3>1, DaysIdle DEF B!QuietInv
    <3>3. B!WorkIsWhole' BY <3>1 DEF slots, B!QuietInv, B!WorkIsWhole, B!Active
    <3>4. B!StatusHolds' BY <3>1 DEF slots, B!QuietInv, B!StatusHolds
    <3>5. B!PageFollows' BY <3>1 DEF slots, B!QuietInv, B!PageFollows, B!evaluateBackupHealth
    <3> QED BY <3>2, <3>3, <3>4, <3>5 DEF B!QuietInv
  <2> QED BY <2>1, <2>2
<1>3. Inv => QuietMeansBackedUp BY QuietShows DEF QuietMeansBackedUp
<1> QED BY <1>1, <1>2, <1>3, PTL DEF PageSpec

-----------------------------------------------------------------------------
(* Composer *)

\* Names that are told apart.
ComposerConstants ==
  /\ MaxWords \in Nat /\ Closed \notin C!Text
  /\ None \notin TimedRow /\ None \notin [row : TimedRow, text : C!Text]
  /\ None \notin {"pending", "sent", "gone"}

\* Users wait for what they have begun, and those who type ahead have luck.
Unrushed == \A e \in ComposerEnvs :
  "race" \notin e /\ ("ahead" \in e => {"fail", "crash"} \cap e = {})

Writes == [box : Box, text : C!Text]
SavedOf(p, s) == IF p = <<>> THEN s ELSE p[Len(p)].text
Only(p, b) == \A i \in DOMAIN p : p[i].box = b

LEMMA SavedIs ==
  /\ C!Saved = SavedOf(pend, stored) /\ C!Saved' = SavedOf(pend', stored')
  /\ \A b : (C!OnlyOf(b) <=> Only(pend, b)) /\ (C!OnlyOf(b)' <=> Only(pend', b))
BY DEF C!Saved, SavedOf, C!Last, C!OnlyOf, Only

\* What the draft is, given the writes that wait, what is stored and shown.
DraftIs(p, s, sh) ==
  /\ sh \in [Box -> C!Text \cup {Closed}] /\ p \in Seq(Writes) /\ s \in C!Text
  /\ Len(p) =< 1
  /\ \A b \in Box : sh[b] # Closed => sh[b] = SavedOf(p, s)

\* The draft is what it was.
Still == /\ DraftIs(pend', stored', shown') /\ C!Saved' = C!Saved
         /\ \A b : C!OnlyOf(b) => Only(pend', b)

\* The draft becomes t, and the write of it is b's.
Anew(b, t) == DraftIs(pend', stored', shown') /\ C!Saved' = t /\ Only(pend', b)

LEMMA OneWrite ==
  ASSUME NEW p \in Seq(Writes), Len(p) =< 1, p # <<>>
  PROVE  /\ Len(p) = 1 /\ DOMAIN p = {1} /\ p[1] \in Writes
         /\ Head(p) = p[1] /\ Tail(p) = <<>>
         /\ C!RemoveAt(p, 1) = <<>>
<1>1. Len(p) = 1 /\ DOMAIN p = {1}
  <2>1. Len(p) # 0 /\ Len(p) \in Nat BY EmptySeq
  <2>2. Len(p) = 1 BY <2>1
  <2>3. DOMAIN p = 1 .. Len(p) OBVIOUS
  <2> QED BY <2>2, <2>3
<1>2. Tail(p) = <<>> /\ Head(p) = p[1] /\ p[1] \in Writes
  <2>1. Tail(p) \in Seq(Writes) /\ Len(Tail(p)) = 0 BY <1>1, HeadTailProperties
  <2>2. Tail(p) = <<>> BY <2>1, EmptySeq
  <2>3. p[1] \in Writes BY <1>1
  <2>4. Head(p) = p[1] OBVIOUS
  <2> QED BY <2>2, <2>3, <2>4
<1>3. SubSeq(p, 1, 0) = <<>> /\ SubSeq(p, 2, 1) = <<>> BY <1>1
<1>4. C!RemoveAt(p, 1) = <<>> BY <1>1, <1>3 DEF C!RemoveAt
<1> QED BY <1>1, <1>2, <1>4

LEMMA CancelledIs ==
  ASSUME NEW b, pend \in Seq(Writes), Len(pend) =< 1, Only(pend, b)
  PROVE  C!Cancelled(b) = <<>> /\ (pend # <<>> => (CHOOSE i \in C!Pending(b) : TRUE) = 1)
                               /\ (pend # <<>> <=> C!Pending(b) # {})
<1>1. CASE pend = <<>> BY <1>1 DEF C!Cancelled, C!Pending
<1>2. CASE pend # <<>>
  <2>1. C!Pending(b) = {1} BY <1>2, OneWrite DEF C!Pending, Only
  <2>2. (CHOOSE i \in C!Pending(b) : TRUE) = 1 BY <2>1
  <2> QED BY <1>2, <2>1, <2>2, OneWrite DEF C!Cancelled
<1> QED BY <1>1, <1>2

DraftNow == DraftIs(pend, stored, shown)

LEMMA UpdateIs ==
  ASSUME ComposerConstants, DraftNow, NEW b \in Box, NEW t \in C!Text, Only(pend, b), C!update(b, t)
  PROVE  Anew(b, t) \/ stored' # stored
<1> SUFFICES ASSUME stored' = stored PROVE Anew(b, t) OBVIOUS
<1>1. pend' = <<[box |-> b, text |-> t]>>
  <2>1. C!Cancelled(b) = <<>> BY CancelledIs DEF DraftNow, DraftIs
  <2>2. pend' = Append(<<>>, [box |-> b, text |-> t]) BY <2>1 DEF C!update
  <2> QED BY <2>2
<1>2. /\ pend' \in Seq(Writes) /\ Len(pend') = 1 /\ SavedOf(pend', stored') = t
      /\ Only(pend', b)
  <2> DEFINE new == [box |-> b, text |-> t]
  <2>1. new \in Writes /\ new.text = t /\ new.box = b BY DEF Writes
  <2> HIDE DEF new
  <2>2. pend' = <<new>> BY <1>1 DEF new
  <2> QED BY <2>1, <2>2 DEF SavedOf, Only
<1>3. shown' \in [Box -> C!Text \cup {Closed}]
      /\ \A x \in Box : shown'[x] # Closed => shown'[x] = t
  BY DEF C!update
<1> QED BY <1>2, <1>3, SavedIs DEF Anew, DraftIs, DraftNow

LEMMA SavedIsText ==
  ASSUME DraftNow
  PROVE  C!Saved \in C!Text /\ \A b \in Box : shown[b] # Closed => shown[b] = C!Saved
<1>1. CASE pend = <<>> BY <1>1, SavedIs DEF DraftNow, DraftIs, SavedOf
<1>2. CASE pend # <<>>
  <2>1. pend[Len(pend)] \in Writes BY <1>2, OneWrite DEF DraftNow, DraftIs
  <2> QED BY <2>1, SavedIs, <1>2 DEF DraftNow, DraftIs, SavedOf, Writes
<1> QED BY <1>1, <1>2

LEMMA DraftStands ==
  ASSUME DraftNow, UNCHANGED <<shown, pend, stored>>
  PROVE  Still
BY SavedIs DEF DraftNow, DraftIs, Still

LEMMA FlushIs ==
  ASSUME DraftNow, C!flush
  PROVE  Still
<1>1. pend # <<>> /\ stored' = Head(pend).text /\ pend' = Tail(pend) /\ shown' = shown
  BY DEF C!flush
<1>2. pend' = <<>> /\ stored' = pend[1].text /\ pend[1] \in Writes /\ Len(pend) = 1
  BY <1>1, OneWrite DEF DraftNow, DraftIs
<1>3. stored' \in C!Text BY <1>2 DEF Writes
<1>4. SavedOf(pend', stored') = SavedOf(pend, stored) BY <1>1, <1>2 DEF SavedOf
<1>5. \A b \in Box : shown'[b] # Closed => shown'[b] = SavedOf(pend', stored')
  BY <1>1, <1>4 DEF DraftIs, DraftNow
<1>6. DraftIs(pend', stored', shown')
  <2>1. pend' \in Seq(Writes) /\ Len(pend') =< 1 BY <1>2, EmptySeq
  <2>2. shown' \in [Box -> C!Text \cup {Closed}] BY <1>1 DEF DraftIs, DraftNow
  <2> QED BY <2>1, <2>2, <1>3, <1>5 DEF DraftIs
<1>7. \A b : Only(pend', b) BY <1>2 DEF Only
<1> QED BY <1>4, <1>6, <1>7, SavedIs DEF Still

LEMMA OpenIs ==
  ASSUME DraftNow, "race" \notin env, NEW b \in Box, C!open(b)
  PROVE  Still
<1>1. pend = <<>> /\ pend' = pend /\ stored' = stored /\ shown' = [shown EXCEPT ![b] = stored]
  BY DEF C!open
<1>2. SavedOf(pend, stored) = stored BY <1>1 DEF SavedOf
<1>3. shown' \in [Box -> C!Text \cup {Closed}]
      /\ \A x \in Box : shown'[x] # Closed => shown'[x] = stored
  BY <1>1, <1>2 DEF DraftNow, DraftIs
<1> QED BY <1>1, <1>2, <1>3, SavedIs DEF Still, DraftIs, DraftNow, Only

LEMMA CloseIs ==
  ASSUME ComposerConstants, DraftNow, NEW b \in Box, C!close(b)
  PROVE  Still
<1>1. /\ shown' = [shown EXCEPT ![b] = Closed] /\ pend' = C!Cancelled(b)
      /\ stored' = IF C!Pending(b) = {} THEN stored
                   ELSE pend[CHOOSE i \in C!Pending(b) : TRUE].text
  BY DEF C!close
<1>2. shown' \in [Box -> C!Text \cup {Closed}]
      /\ \A x \in Box : shown'[x] # Closed => shown'[x] = shown[x]
  BY <1>1 DEF DraftNow, DraftIs
<1>3. CASE C!Pending(b) = {}
  <2>1. pend' = pend /\ stored' = stored BY <1>1, <1>3 DEF C!Cancelled
  <2> QED BY <1>2, <2>1, SavedIs DEF Still, DraftIs, DraftNow
<1>4. CASE C!Pending(b) # {}
  <2>1. pend # <<>> BY <1>4 DEF C!Pending
  <2>2. DOMAIN pend = {1} /\ Len(pend) = 1 /\ pend[1] \in Writes
    BY <2>1, OneWrite DEF DraftNow, DraftIs
  <2>3. Only(pend, b) BY <1>4, <2>2 DEF C!Pending, Only
  <2>4. pend' = <<>> /\ stored' = pend[1].text
    BY <1>1, <1>4, <2>1, <2>3, CancelledIs DEF DraftNow, DraftIs
  <2>5. SavedOf(pend', stored') = SavedOf(pend, stored) /\ stored' \in C!Text
    BY <2>1, <2>2, <2>4 DEF SavedOf, Writes
  <2> QED BY <1>2, <2>4, <2>5, SavedIs DEF Still, DraftIs, DraftNow, Only
<1> QED BY <1>3, <1>4

LEMMA LeaveIs ==
  ASSUME ComposerConstants, DraftNow, "race" \notin env, C!leave
  PROVE  Still
<1> DEFINE kept == {i \in DOMAIN pend : pend[i].box \in C!Open}
<1>1. /\ shown' = [b \in Box |-> Closed] /\ pend' = <<>> /\ kept = DOMAIN pend
      /\ stored' = IF kept = {} THEN stored ELSE pend[C!Max(kept)].text
  BY DEF C!leave
<1>2. shown' \in [Box -> C!Text \cup {Closed}] /\ \A b \in Box : shown'[b] = Closed BY <1>1
<1>3. CASE pend = <<>>
  <2>1. stored' = stored BY <1>1, <1>3
  <2> QED BY <1>1, <1>2, <1>3, <2>1, SavedIs DEF Still, DraftIs, DraftNow, Only
<1>4. CASE pend # <<>>
  <2>1. DOMAIN pend = {1} /\ Len(pend) = 1 /\ pend[1] \in Writes
    BY <1>4, OneWrite DEF DraftNow, DraftIs
  <2>2. C!Max({1}) = 1 BY DEF C!Max
  <2>3. kept = {1} BY <1>1, <2>1
  <2> HIDE DEF kept
  <2>4. stored' = pend[1].text BY <1>1, <2>2, <2>3
  <2>5. SavedOf(pend', stored') = SavedOf(pend, stored) /\ stored' \in C!Text
    BY <1>1, <1>4, <2>1, <2>4 DEF SavedOf, Writes
  <2> QED BY <1>1, <1>2, <2>5, SavedIs DEF Still, DraftIs, DraftNow, Only
<1> QED BY <1>3, <1>4
Ats == {"asked", "out", "accepted", "refused", "failed", "told", "done"}

\* Call i has come to a, and the others stand.
Moved(cs, ds, i, a) ==
  /\ ds \in Seq(C!Call) /\ DOMAIN ds = DOMAIN cs /\ i \in DOMAIN cs
  /\ \A j \in DOMAIN cs : /\ ds[j].kind = cs[j].kind /\ ds[j].box = cs[j].box
                          /\ ds[j].text = cs[j].text
                          /\ ds[j].at = IF j = i THEN a ELSE cs[j].at

\* Call c has been begun.
Added(cs, ds, c) ==
  /\ ds \in Seq(C!Call) /\ DOMAIN ds = DOMAIN cs \cup {Len(cs) + 1}
  /\ Len(cs) + 1 \notin DOMAIN cs /\ ds[Len(cs) + 1] = c
  /\ \A j \in DOMAIN cs : ds[j] = cs[j]

LEMMA CallIs ==
  ASSUME NEW cs \in Seq(C!Call), NEW i \in DOMAIN cs
  PROVE  /\ cs[i] \in C!Call /\ cs[i].kind \in {"send", "book"} /\ cs[i].box \in Box
         /\ cs[i].text \in C!Text /\ cs[i].at \in Ats
<1>1. cs[i] \in C!Call OBVIOUS
<1> QED BY <1>1 DEF C!Call, Ats

LEMMA CallMoved ==
  ASSUME NEW cs \in Seq(C!Call), NEW i \in DOMAIN cs, NEW a \in Ats
  PROVE  Moved(cs, [cs EXCEPT ![i].at = a], i, a)
<1> DEFINE ds == [cs EXCEPT ![i].at = a]
           c == [cs[i] EXCEPT !.at = a]
<1>1. c \in C!Call /\ c.kind = cs[i].kind /\ c.box = cs[i].box /\ c.text = cs[i].text /\ c.at = a
  BY CallIs DEF C!Call, Ats
<1>2. ds = [cs EXCEPT ![i] = c] OBVIOUS
<1> HIDE DEF c, ds
<1>3. ds \in Seq(C!Call) /\ DOMAIN ds = DOMAIN cs BY <1>1, <1>2, ExceptSeq
<1>4. \A j \in DOMAIN cs : ds[j] = IF j = i THEN c ELSE cs[j] BY <1>2
<1>5. Moved(cs, ds, i, a) BY <1>1, <1>3, <1>4 DEF Moved
<1> QED BY <1>5 DEF ds

LEMMA CallAdded ==
  ASSUME NEW cs \in Seq(C!Call), NEW c \in C!Call
  PROVE  Added(cs, Append(cs, c), c)
<1>1. DOMAIN cs = 1 .. Len(cs) /\ Len(cs) \in Nat OBVIOUS
<1> DEFINE ds == Append(cs, c)
<1>2. /\ ds \in Seq(C!Call) /\ Len(ds) = Len(cs) + 1 /\ ds[Len(cs) + 1] = c
      /\ \A j \in 1 .. Len(cs) : ds[j] = cs[j]
  BY AppendProperties
<1> HIDE DEF ds
<1>3. DOMAIN ds = 1 .. Len(ds) BY <1>2
<1>4. DOMAIN ds = DOMAIN cs \cup {Len(cs) + 1} /\ Len(cs) + 1 \notin DOMAIN cs
  BY <1>1, <1>2, <1>3
<1>5. Added(cs, ds, c) BY <1>1, <1>2, <1>4 DEF Added
<1> QED BY <1>5 DEF ds

\* What the calls have to do with the draft, whose writes are p.
CallsOk(cs, e, draft, p) ==
  /\ cs \in Seq(C!Call)
  /\ \A i \in DOMAIN cs :
       /\ cs[i].at = "asked" => cs[i].kind = "send"
       /\ C!Rests(cs[i]) =>
             /\ cs[i].text = draft /\ draft # {} /\ Only(p, cs[i].box)
             /\ \A j \in DOMAIN cs : C!Rests(cs[j]) => j = i
       /\ "ahead" \notin e /\ C!Goes(cs[i]) =>
             /\ draft = {} /\ Only(p, cs[i].box)
             /\ \A j \in DOMAIN cs : C!Goes(cs[j]) => j = i
       /\ "ahead" \in e => cs[i].at # "failed"

RowType == [state : {None, "pending", "sent", "gone"}, text : C!Text,
            due : BOOLEAN, armed : BOOLEAN]

RowsOk(rs, fi, ed) ==
  /\ rs \in [TimedRow -> RowType] /\ fi \in TimedRow \cup {None}
  /\ ed \in [row : TimedRow, text : C!Text] \cup {None}
  /\ ed # None => rs[ed.row].text \subseteq ed.text /\ rs[ed.row].state \in {"pending", "sent"}
  /\ fi # None => rs[fi].state = "sent"
  /\ \A r \in TimedRow : rs[r].state = None => rs[r].text = {}

WordsOk(draft, cs, rs, ed, n, g, d) ==
  /\ n \in 0 .. MaxWords /\ g \in [C!Word -> Nat] /\ d \in C!Text
  /\ draft \subseteq 1 .. n
  /\ \A i \in DOMAIN cs : cs[i].text \subseteq 1 .. n
  /\ \A r \in TimedRow : rs[r].text \subseteq 1 .. n
  /\ ed # None => ed.text \subseteq 1 .. n
  /\ \A w \in C!Word : w > n => g[w] = 0

LEMMA InvIs ==
  /\ C!ComposerInv <=> /\ env \in ComposerEnvs /\ DraftNow
                       /\ CallsOk(calls, env, C!Saved, pend) /\ RowsOk(rows, firing, edit)
                       /\ WordsOk(C!Saved, calls, rows, edit, typed, got, dropped)
  /\ C!ComposerInv' <=> /\ env' \in ComposerEnvs /\ DraftIs(pend', stored', shown')
                        /\ CallsOk(calls', env', C!Saved', pend') /\ RowsOk(rows', firing', edit')
                        /\ WordsOk(C!Saved', calls', rows', edit', typed', got', dropped')
<1>1. SavedOf(pend, stored) = C!Saved /\ SavedOf(pend', stored') = C!Saved' BY SavedIs
<1>2. /\ DraftNow <=> /\ shown \in [Box -> C!Text \cup {Closed}]
                      /\ pend \in Seq([box : Box, text : C!Text]) /\ stored \in C!Text
                      /\ C!OneDraft
      /\ DraftIs(pend', stored', shown') <=>
                      /\ shown' \in [Box -> C!Text \cup {Closed}]
                      /\ pend' \in Seq([box : Box, text : C!Text]) /\ stored' \in C!Text
                      /\ C!OneDraft'
  BY <1>1 DEF DraftNow, DraftIs, Writes, C!OneDraft, C!Open
<1>3. /\ CallsOk(calls, env, C!Saved, pend) <=>
            /\ calls \in Seq(C!Call)
            /\ \A i \in DOMAIN calls : calls[i].at = "asked" => calls[i].kind = "send"
            /\ C!CallsFollow
      /\ CallsOk(calls', env', C!Saved', pend') <=>
            /\ calls' \in Seq(C!Call)
            /\ \A i \in DOMAIN calls' : calls'[i].at = "asked" => calls'[i].kind = "send"
            /\ C!CallsFollow'
  BY SavedIs, Zenon DEF CallsOk, C!CallsFollow
<1>4. /\ RowsOk(rows, firing, edit) <=>
            /\ rows \in [TimedRow -> RowType] /\ firing \in TimedRow \cup {None}
            /\ edit \in [row : TimedRow, text : C!Text] \cup {None} /\ C!RowsFollow
      /\ RowsOk(rows', firing', edit') <=>
            /\ rows' \in [TimedRow -> RowType] /\ firing' \in TimedRow \cup {None}
            /\ edit' \in [row : TimedRow, text : C!Text] \cup {None} /\ C!RowsFollow'
  BY Zenon DEF RowsOk, C!RowsFollow
<1>5. /\ WordsOk(C!Saved, calls, rows, edit, typed, got, dropped) <=>
            /\ typed \in 0 .. MaxWords /\ got \in [C!Word -> Nat] /\ dropped \in C!Text
            /\ C!AreTyped
      /\ WordsOk(C!Saved', calls', rows', edit', typed', got', dropped') <=>
            /\ typed' \in 0 .. MaxWords /\ got' \in [C!Word -> Nat] /\ dropped' \in C!Text
            /\ C!AreTyped'
  BY Zenon DEF WordsOk, C!AreTyped
<1>6. /\ C!ComposerTypes <=>
            /\ env \in ComposerEnvs
            /\ shown \in [Box -> C!Text \cup {Closed}]
            /\ pend \in Seq([box : Box, text : C!Text]) /\ stored \in C!Text
            /\ calls \in Seq(C!Call)
            /\ \A i \in DOMAIN calls : calls[i].at = "asked" => calls[i].kind = "send"
            /\ rows \in [TimedRow -> RowType] /\ firing \in TimedRow \cup {None}
            /\ edit \in [row : TimedRow, text : C!Text] \cup {None}
            /\ typed \in 0 .. MaxWords /\ got \in [C!Word -> Nat] /\ dropped \in C!Text
      /\ C!ComposerTypes' <=>
            /\ env' \in ComposerEnvs
            /\ shown' \in [Box -> C!Text \cup {Closed}]
            /\ pend' \in Seq([box : Box, text : C!Text]) /\ stored' \in C!Text
            /\ calls' \in Seq(C!Call)
            /\ \A i \in DOMAIN calls' : calls'[i].at = "asked" => calls'[i].kind = "send"
            /\ rows' \in [TimedRow -> RowType] /\ firing' \in TimedRow \cup {None}
            /\ edit' \in [row : TimedRow, text : C!Text] \cup {None}
            /\ typed' \in 0 .. MaxWords /\ got' \in [C!Word -> Nat] /\ dropped' \in C!Text
  BY Zenon DEF C!ComposerTypes, RowType
<1> QED BY <1>2, <1>3, <1>4, <1>5, <1>6, Zenon DEF C!ComposerInv

\* The calls go on, and none begins to rest on the draft or to take it along.
Faded(cs, ds) ==
  /\ ds \in Seq(C!Call) /\ DOMAIN ds = DOMAIN cs
  /\ \A i \in DOMAIN cs : /\ ds[i].kind = cs[i].kind /\ ds[i].box = cs[i].box
                          /\ ds[i].text = cs[i].text
                          /\ ds[i].at = "asked" => cs[i].at = "asked"
                          /\ C!Rests(ds[i]) => C!Rests(cs[i])
                          /\ C!Goes(ds[i]) => C!Goes(cs[i])

LEMMA CallsFade ==
  ASSUME NEW cs, NEW ds, NEW e, NEW t, NEW p, NEW q, CallsOk(cs, e, t, p), Faded(cs, ds),
         \A b : Only(p, b) => Only(q, b),
         "ahead" \in e => \A i \in DOMAIN cs : ds[i].at = "failed" => cs[i].at = "failed"
  PROVE  CallsOk(ds, e, t, q)
<1> SUFFICES ASSUME NEW i \in DOMAIN cs
             PROVE  /\ ds[i].at = "asked" => ds[i].kind = "send"
                    /\ C!Rests(ds[i]) =>
                         /\ ds[i].text = t /\ t # {} /\ Only(q, ds[i].box)
                         /\ \A j \in DOMAIN cs : C!Rests(ds[j]) => j = i
                    /\ "ahead" \notin e /\ C!Goes(ds[i]) =>
                         /\ t = {} /\ Only(q, ds[i].box)
                         /\ \A j \in DOMAIN cs : C!Goes(ds[j]) => j = i
                    /\ "ahead" \in e => ds[i].at # "failed"
  BY Zenon DEF CallsOk, Faded
<1>1. C!Rests(ds[i]) =>
         /\ ds[i].text = t /\ t # {} /\ Only(q, ds[i].box)
         /\ \A j \in DOMAIN cs : C!Rests(ds[j]) => j = i
  BY Zenon DEF CallsOk, Faded
<1>2. "ahead" \notin e /\ C!Goes(ds[i]) =>
         /\ t = {} /\ Only(q, ds[i].box)
         /\ \A j \in DOMAIN cs : C!Goes(ds[j]) => j = i
  BY Zenon DEF CallsOk, Faded
<1>3. "ahead" \in e => ds[i].at # "failed" BY DEF CallsOk
<1>4. ds[i].at = "asked" => ds[i].kind = "send" BY DEF CallsOk, Faded
<1> QED BY <1>1, <1>2, <1>3, <1>4

LEMMA CallsAnew ==
  ASSUME NEW ds \in Seq(C!Call), NEW e, NEW t, NEW b, NEW q,
         \A i \in DOMAIN ds : ~ C!Rests(ds[i]), Only(q, b),
         "ahead" \notin e => \A i \in DOMAIN ds : C!Goes(ds[i]) =>
            t = {} /\ ds[i].box = b /\ \A j \in DOMAIN ds : C!Goes(ds[j]) => j = i,
         "ahead" \in e => \A i \in DOMAIN ds : ds[i].at # "failed"
  PROVE  CallsOk(ds, e, t, q)
<1>1. \A i \in DOMAIN ds : ds[i].at # "asked" BY DEF C!Rests
<1> QED BY <1>1 DEF CallsOk

\* A call that rests on the draft is begun when none does.
LEMMA CallsBegin ==
  ASSUME NEW cs, NEW ds, NEW e, NEW t, NEW p, NEW c, CallsOk(cs, e, t, p), Added(cs, ds, c),
         \A i \in DOMAIN cs : ~ C!Rests(cs[i]), C!Rests(c), ~ C!Goes(c), c.at # "failed",
         c.at = "asked" => c.kind = "send", c.text = t, t # {}, Only(p, c.box)
  PROVE  CallsOk(ds, e, t, p)
<1> DEFINE n == Len(cs) + 1
<1>1. /\ ds \in Seq(C!Call) /\ DOMAIN ds = DOMAIN cs \cup {n} /\ n \notin DOMAIN cs /\ ds[n] = c
      /\ \A j \in DOMAIN cs : ds[j] = cs[j]
  BY DEF Added
<1> HIDE DEF n
<1>2. \A j \in DOMAIN ds : C!Rests(ds[j]) <=> j = n BY <1>1
<1>3. \A j \in DOMAIN ds : C!Goes(ds[j]) => "ahead" \in e BY <1>1 DEF CallsOk
<1>4. \A j \in DOMAIN ds : /\ ds[j].at = "asked" => ds[j].kind = "send"
                           /\ "ahead" \in e => ds[j].at # "failed"
  BY <1>1 DEF CallsOk
<1> QED BY <1>1, <1>2, <1>3, <1>4 DEF CallsOk

\* Nothing rests on the draft that an unhurried box changes.
LEMMA UnhurriedIs ==
  ASSUME NEW b, calls \in Seq(C!Call), C!Unhurried(b)
  PROVE  Only(pend, b) /\ \A i \in DOMAIN calls : ~ C!Rests(calls[i]) /\ ~ C!Reserves(calls[i])
<1>1. Only(pend, b) BY DEF C!Unhurried, Only
<1>2. \A i \in DOMAIN calls : calls[i].at # "asked" BY DEF C!Unhurried, C!Asked
<1>3. ASSUME NEW i \in DOMAIN calls, calls[i].kind = "book",
             calls[i].at \in {"out", "accepted", "refused", "failed"}
      PROVE  FALSE
  <2>1. calls[i].box \in Box BY CallIs
  <2>2. i \in C!Under(calls[i].box, "book") BY <1>3 DEF C!Under
  <2> QED BY <2>1, <2>2 DEF C!Unhurried, C!Booking
<1> QED BY <1>1, <1>2, <1>3 DEF C!Rests, C!Reserves

LEMMA NotSending ==
  ASSUME calls \in Seq(C!Call), ~ C!Sending
  PROVE  \A i \in DOMAIN calls : ~ C!Goes(calls[i])
<1> SUFFICES ASSUME NEW i \in DOMAIN calls, C!Goes(calls[i]) PROVE FALSE OBVIOUS
<1>1. calls[i].box \in Box BY CallIs
<1>2. i \in C!Under(calls[i].box, "send") BY DEF C!Under, C!Goes
<1> QED BY <1>1, <1>2 DEF C!Sending

LEMMA NotBooking ==
  ASSUME calls \in Seq(C!Call), ~ C!Booking
  PROVE  \A i \in DOMAIN calls :
            ~ (calls[i].kind = "book" /\ calls[i].at \in {"out", "accepted", "refused", "failed"})
<1> SUFFICES ASSUME NEW i \in DOMAIN calls, calls[i].kind = "book",
                    calls[i].at \in {"out", "accepted", "refused", "failed"}
             PROVE  FALSE
  OBVIOUS
<1>1. calls[i].box \in Box BY CallIs
<1>2. i \in C!Under(calls[i].box, "book") BY DEF C!Under
<1> QED BY <1>1, <1>2 DEF C!Booking

-----------------------------------------------------------------------------
\* The words a call has with it, on their way or about to be.
Flying(w) == \E i \in DOMAIN calls : /\ calls[i].at \in {"asked", "out", "failed"}
                                     /\ w \in calls[i].text

LEMMA SafeIs ==
  /\ \A w : C!Safe(w) <=> \/ got[w] > 0 \/ w \in dropped \/ (edit # None /\ w \in edit.text)
                          \/ \E r \in TimedRow : rows[r].state # "gone" /\ w \in rows[r].text
  /\ \A w : C!Safe(w)' <=> \/ got'[w] > 0 \/ w \in dropped' \/ (edit' # None /\ w \in edit'.text)
                           \/ \E r \in TimedRow : rows'[r].state # "gone" /\ w \in rows'[r].text
  /\ \A w : (w \in C!UnderWay <=> Flying(w)) /\ (w \in C!UnderWay' <=> Flying(w)')
<1>1. \A w : w \in C!Booked <=> \E r \in TimedRow : rows[r].state # "gone" /\ w \in rows[r].text
  BY DEF C!Booked
<1>2. \A w : w \in C!Booked' <=> \E r \in TimedRow : rows'[r].state # "gone" /\ w \in rows'[r].text
  BY DEF C!Booked
<1>3. \A w : w \in C!UnderWay <=> Flying(w) BY DEF C!UnderWay, Flying
<1>4. \A w : w \in C!UnderWay' <=> Flying(w)' BY DEF C!UnderWay, Flying
<1>5. \A w : C!Safe(w) <=> \/ got[w] > 0 \/ w \in dropped \/ (edit # None /\ w \in edit.text)
                          \/ w \in C!Booked
  BY DEF C!Safe
<1>6. \A w : C!Safe(w)' <=> \/ got'[w] > 0 \/ w \in dropped' \/ (edit' # None /\ w \in edit'.text)
                           \/ w \in C!Booked'
  BY DEF C!Safe
<1>7. /\ \A w : C!Safe(w) <=> \/ got[w] > 0 \/ w \in dropped \/ (edit # None /\ w \in edit.text)
                          \/ \E r \in TimedRow : rows[r].state # "gone" /\ w \in rows[r].text
      /\ \A w : C!Safe(w)' <=> \/ got'[w] > 0 \/ w \in dropped' \/ (edit' # None /\ w \in edit'.text)
                           \/ \E r \in TimedRow : rows'[r].state # "gone" /\ w \in rows'[r].text
  BY <1>1, <1>2, <1>5, <1>6, Zenon
<1> QED BY <1>3, <1>4, <1>7, Zenon

Keeps ==
  /\ \A i \in DOMAIN calls : C!Reserves(calls[i]) => \A w \in calls[i].text : C!Safe(w)
  /\ \A w \in 1 .. typed : C!Safe(w) \/ w \in C!Saved \/ Flying(w)
Onces == \A w \in C!Word : ~ C!Told(w) => C!InOnePlace(w)

\* What every step of the composer is to preserve.
Goal == C!ComposerInv' /\ ("refuse" \notin env /\ Keeps => Keeps') /\ (Onces => Onces')

LEMMA GoalIs ==
  /\ C!KeptInv <=> C!ComposerInv /\ Keeps
  /\ C!KeptInv' <=> C!ComposerInv' /\ Keeps'
  /\ C!OnceInv <=> C!ComposerInv /\ Onces
  /\ C!OnceInv' <=> C!ComposerInv' /\ Onces'
<1>1. C!KeptInv <=> C!ComposerInv /\ Keeps BY SafeIs, Zenon DEF C!KeptInv, Keeps
<1>2. C!KeptInv' <=> C!ComposerInv' /\ Keeps' BY SafeIs, Zenon DEF C!KeptInv, Keeps
<1>3. (C!OnceInv <=> C!ComposerInv /\ Onces) /\ (C!OnceInv' <=> C!ComposerInv' /\ Onces')
  BY Zenon DEF C!OnceInv, Onces
<1> QED BY <1>1, <1>2, <1>3

LEMMA KeepsOn ==
  ASSUME Keeps,
         \A w : C!Safe(w) => C!Safe(w)',
         \A i \in DOMAIN calls' : C!Reserves(calls'[i]) => \A w \in calls'[i].text :
            C!Safe(w)' \/ \E j \in DOMAIN calls : C!Reserves(calls[j]) /\ w \in calls[j].text,
         \A w \in 1 .. typed' : \/ w \in 1 .. typed \/ C!Safe(w)'
                                \/ w \in C!Saved' \/ Flying(w)',
         \A w \in C!Saved : C!Safe(w)' \/ w \in C!Saved' \/ Flying(w)',
         \A w : Flying(w) => C!Safe(w)' \/ w \in C!Saved' \/ Flying(w)'
  PROVE  Keeps'
<1>1. \A i \in DOMAIN calls' : C!Reserves(calls'[i]) => \A w \in calls'[i].text : C!Safe(w)'
  BY Zenon DEF Keeps
<1>2. \A w \in 1 .. typed' : C!Safe(w)' \/ w \in C!Saved' \/ Flying(w)' BY Zenon DEF Keeps
<1> QED BY <1>1, <1>2, Zenon DEF Keeps

LEMMA StaysInPlace ==
  ASSUME NEW w, C!InOnePlace(w), got'[w] = got[w], C!InDraft(w)' => C!InDraft(w),
         \A i \in DOMAIN calls' : C!InCall(w, i)' => i \in DOMAIN calls /\ C!InCall(w, i),
         \A r \in TimedRow : C!InRow(w, r)' => C!InRow(w, r)
  PROVE  C!InOnePlace(w)'
<1>1. got'[w] =< 1 BY DEF C!InOnePlace
<1>2. C!InDraft(w)' => /\ got'[w] = 0 /\ \A i \in DOMAIN calls' : ~ C!InCall(w, i)'
                       /\ \A r \in TimedRow : ~ C!InRow(w, r)'
  BY Zenon DEF C!InOnePlace
<1>3. ASSUME NEW i \in DOMAIN calls', C!InCall(w, i)'
      PROVE  /\ got'[w] = 0 /\ \A j \in DOMAIN calls' : C!InCall(w, j)' => j = i
             /\ \A r \in TimedRow : ~ C!InRow(w, r)'
  BY <1>3, Zenon DEF C!InOnePlace
<1>4. ASSUME NEW r \in TimedRow, C!InRow(w, r)'
      PROVE  got'[w] = 0 /\ \A q \in TimedRow : C!InRow(w, q)' => q = r
  BY <1>4, Zenon DEF C!InOnePlace
<1> QED BY <1>1, <1>2, <1>3, <1>4, Zenon DEF C!InOnePlace

\* In one place: nowhere, in one call, in one row.
LEMMA NowInPlace ==
  ASSUME NEW w
  PROVE  /\ /\ got'[w] =< 1 /\ ~ C!InDraft(w)' /\ \A i \in DOMAIN calls' : ~ C!InCall(w, i)'
            /\ \A r \in TimedRow : ~ C!InRow(w, r)'
            => C!InOnePlace(w)'
         /\ /\ got'[w] = 0 /\ \A i \in DOMAIN calls' : ~ C!InCall(w, i)'
            /\ \A r \in TimedRow : ~ C!InRow(w, r)'
            => C!InOnePlace(w)'
         /\ \A i : /\ got'[w] = 0 /\ ~ C!InDraft(w)'
                   /\ \A j \in DOMAIN calls' : C!InCall(w, j)' => j = i
                   /\ \A r \in TimedRow : ~ C!InRow(w, r)'
                   => C!InOnePlace(w)'
         /\ \A q : /\ got'[w] = 0 /\ ~ C!InDraft(w)' /\ \A i \in DOMAIN calls' : ~ C!InCall(w, i)'
                   /\ \A r \in TimedRow : C!InRow(w, r)' => r = q
                   => C!InOnePlace(w)'
BY DEF C!InOnePlace

LEMMA InDraftIs ==
  \A w : /\ C!InDraft(w) <=> /\ w \in C!Saved
                             /\ \A i \in DOMAIN calls : C!Reserves(calls[i]) => w \notin calls[i].text
         /\ C!InDraft(w)' <=> /\ w \in C!Saved'
                              /\ \A i \in DOMAIN calls' :
                                    C!Reserves(calls'[i]) => w \notin calls'[i].text
BY DEF C!InDraft

LEMMA InCallIs ==
  \A w, i : /\ C!InCall(w, i) <=> /\ calls[i].kind = "send" /\ calls[i].at = "out"
                                  /\ w \in calls[i].text
            /\ C!InCall(w, i)' <=> /\ calls'[i].kind = "send" /\ calls'[i].at = "out"
                                   /\ w \in calls'[i].text
BY DEF C!InCall

LEMMA ToldIs ==
  \A w : /\ C!Told(w) <=> \E i \in DOMAIN calls : /\ w \in calls[i].text
                                                  /\ calls[i].at \in {"failed", "told"}
         /\ C!Told(w)' <=> \E i \in DOMAIN calls' : /\ w \in calls'[i].text
                                                    /\ calls'[i].at \in {"failed", "told"}
BY DEF C!Told

LEMMA InRowIs ==
  \A w, r : /\ C!InRow(w, r) <=>
                 \/ firing = r /\ w \in rows[r].text
                 \/ /\ rows[r].state = "pending"
                    /\ \/ w \in rows[r].text
                       \/ edit # None /\ edit.row = r /\ w \in edit.text
            /\ C!InRow(w, r)' <=>
                 \/ firing' = r /\ w \in rows'[r].text
                 \/ /\ rows'[r].state = "pending"
                    /\ \/ w \in rows'[r].text
                       \/ edit' # None /\ edit'.row = r /\ w \in edit'.text
BY DEF C!InRow

-----------------------------------------------------------------------------
\* Steps that move nothing.
LEMMA NothingMoves ==
  ASSUME C!ComposerInv, Still,
         UNCHANGED <<env, calls, rows, firing, edit, typed, got, dropped>>
  PROVE  Goal
<1>1. C!Saved' = C!Saved /\ DraftIs(pend', stored', shown') /\ \A b : Only(pend, b) => Only(pend', b)
  BY SavedIs DEF Still
<1>2. CallsOk(calls, env, C!Saved, pend) BY InvIs
<1>3. CallsOk(calls', env', C!Saved', pend') BY <1>1, <1>2 DEF CallsOk
<1>4. C!ComposerInv' BY <1>1, <1>3, InvIs
<1>5. Keeps => Keeps' BY <1>1, SafeIs DEF Keeps, Flying
<1>6. ASSUME Onces PROVE Onces'
  <2> SUFFICES ASSUME NEW w \in C!Word, ~ C!Told(w)' PROVE C!InOnePlace(w)' BY Zenon DEF Onces
  <2>1. C!InOnePlace(w) BY <1>6, ToldIs DEF Onces
  <2>2. C!InDraft(w)' => C!InDraft(w) BY <1>1, InDraftIs
  <2>3. \A i : C!InCall(w, i)' => C!InCall(w, i) BY InCallIs
  <2>4. \A r : C!InRow(w, r)' => C!InRow(w, r) BY InRowIs
  <2> QED BY <2>1, <2>2, <2>3, <2>4, StaysInPlace
<1> QED BY <1>4, <1>5, <1>6 DEF Goal

Calm == "race" \notin env /\ ("ahead" \in env => "fail" \notin env /\ "crash" \notin env)

LEMMA UnderRowsSame ==
  ASSUME UNCHANGED <<rows, firing, edit>>
  PROVE  \A w, r : C!InRow(w, r)' => C!InRow(w, r)
BY InRowIs

LEMMA UpdateAnew ==
  ASSUME ComposerConstants, DraftNow, NEW b \in Box, NEW t \in C!Text, Only(pend, b), C!update(b, t),
         stored' = stored
  PROVE  /\ DraftIs(pend', stored', shown') /\ C!Saved' = t /\ Only(pend', b)
BY UpdateIs DEF Anew

LEMMA TypeGoes ==
  ASSUME ComposerConstants, Calm, C!ComposerInv, NEW b \in Box, C!type(b)
  PROVE  Goal
<1> DEFINE n == typed + 1
           t == shown[b] \cup {n}
<1>1. /\ DraftNow /\ CallsOk(calls, env, C!Saved, pend) /\ RowsOk(rows, firing, edit)
      /\ WordsOk(C!Saved, calls, rows, edit, typed, got, dropped) /\ env \in ComposerEnvs
  BY InvIs
<1>2. /\ shown[b] # Closed /\ typed < MaxWords /\ typed' = n /\ C!Unhurried(b)
      /\ "ahead" \notin env => ~ C!Sending
      /\ C!update(b, t)
      /\ UNCHANGED <<env, stored, calls, rows, firing, edit, got, dropped>>
  BY DEF C!type, Calm
<1>3. shown[b] = C!Saved /\ C!Saved \in C!Text BY <1>1, <1>2, SavedIsText
<1>4. n \in C!Word /\ n \in 0 .. MaxWords /\ typed \in 0 .. MaxWords
  BY <1>1, <1>2 DEF WordsOk, C!Word, ComposerConstants
<1>5. t = C!Saved \cup {n} /\ t \in C!Text BY <1>3, <1>4 DEF C!Text
<1> HIDE DEF n, t
<1>6. Only(pend, b) /\ \A i \in DOMAIN calls : ~ C!Rests(calls[i]) /\ ~ C!Reserves(calls[i])
  BY <1>1, <1>2, UnhurriedIs DEF CallsOk
<1>7. DraftIs(pend', stored', shown') /\ C!Saved' = t /\ Only(pend', b)
  BY <1>1, <1>2, <1>5, <1>6, UpdateAnew
<1>8. CallsOk(calls', env', C!Saved', pend')
  <2>1. "ahead" \notin env => \A i \in DOMAIN calls : ~ C!Goes(calls[i])
    BY <1>1, <1>2, NotSending DEF CallsOk
  <2>2. CallsOk(calls, env, t, pend') BY <1>1, <1>6, <1>7, <2>1, CallsAnew DEF CallsOk
  <2> QED BY <1>2, <1>7, <2>2
<1>9. WordsOk(C!Saved', calls', rows', edit', typed', got', dropped')
  <2>1. 1 .. typed \subseteq 1 .. n /\ n \in 1 .. n BY <1>4 DEF n
  <2>2. t \subseteq 1 .. n BY <1>1, <1>5, <2>1 DEF WordsOk
  <2>3. \A w \in C!Word : w > n => w > typed BY <1>4 DEF n, C!Word
  <2>4. WordsOk(t, calls, rows, edit, n, got, dropped) BY <1>1, <1>4, <2>1, <2>2, <2>3 DEF WordsOk
  <2> QED BY <1>2, <1>7, <2>4
<1>10. C!ComposerInv' BY <1>1, <1>2, <1>7, <1>8, <1>9, InvIs
<1>11. Keeps => Keeps'
  <2>1. \A w : C!Safe(w) => C!Safe(w)' BY <1>2, SafeIs
  <2>2. \A w : Flying(w) => Flying(w)' BY <1>2 DEF Flying
  <2>3. \A w \in 1 .. typed' : w \in 1 .. typed \/ w \in C!Saved'
    BY <1>2, <1>4, <1>5, <1>7 DEF n
  <2>4. C!Saved \subseteq C!Saved' BY <1>5, <1>7
  <2>5. \A i \in DOMAIN calls' : ~ C!Reserves(calls'[i]) BY <1>2, <1>6
  <2> QED BY <2>1, <2>2, <2>3, <2>4, <2>5, KeepsOn
<1>12. ASSUME Onces PROVE Onces'
  <2> SUFFICES ASSUME NEW w \in C!Word, ~ C!Told(w)' PROVE C!InOnePlace(w)' BY Zenon DEF Onces
  <2>1. C!InOnePlace(w) BY <1>2, <1>12, ToldIs DEF Onces
  <2>2. \A i \in DOMAIN calls' : C!InCall(w, i)' => i \in DOMAIN calls /\ C!InCall(w, i)
    BY <1>2, InCallIs
  <2>3. \A r \in TimedRow : C!InRow(w, r)' => C!InRow(w, r) BY <1>2, UnderRowsSame
  <2>4. CASE w # n
    <3>1. C!InDraft(w)' => C!InDraft(w) BY <1>2, <1>5, <1>7, <2>4, InDraftIs
    <3> QED BY <1>2, <2>1, <2>2, <2>3, <3>1, StaysInPlace
  <2>5. CASE w = n
    <3>1. n \notin 1 .. typed /\ n > typed BY <1>4 DEF n
    <3>2. \A i \in DOMAIN calls : ~ C!InCall(w, i) BY <1>1, <2>5, <3>1, InCallIs DEF WordsOk
    <3>3. \A r \in TimedRow : ~ C!InRow(w, r) BY <1>1, <2>5, <3>1, InRowIs DEF WordsOk
    <3>4. got'[w] = 0 BY <1>1, <1>2, <1>4, <2>5, <3>1 DEF WordsOk
    <3> QED BY <1>2, <2>2, <2>3, <3>2, <3>3, <3>4, NowInPlace
  <2> QED BY <2>4, <2>5
<1> QED BY <1>10, <1>11, <1>12 DEF Goal

\* The rows stand, whatever their alarm.
RowsAlike == /\ RowsOk(rows', firing', edit') /\ firing' = firing /\ edit' = edit
             /\ \A r \in TimedRow : rows'[r].state = rows[r].state /\ rows'[r].text = rows[r].text

LEMMA AlikeIs ==
  ASSUME RowsAlike, got' = got, dropped' = dropped
  PROVE  /\ \A w : C!Safe(w) => C!Safe(w)'
         /\ \A w : \A r \in TimedRow : C!InRow(w, r)' => C!InRow(w, r)
BY SafeIs, InRowIs DEF RowsAlike

LEMMA RowsStand ==
  ASSUME RowsOk(rows, firing, edit), UNCHANGED <<rows, firing, edit>>
  PROVE  RowsAlike
BY DEF RowsAlike

\* A confirmation is asked for, or a reservation begun: the draft stays.
LEMMA RestBegins ==
  ASSUME C!ComposerInv, NEW b \in Box, shown[b] \notin {Closed, {}}, C!Unhurried(b), NEW kind, NEW at,
         (kind = "send" /\ at = "asked") \/ (kind = "book" /\ at = "out"),
         calls' = Append(calls, C!call(b, kind, at)), RowsAlike,
         UNCHANGED <<env, shown, pend, stored, typed, got, dropped>>
  PROVE  Goal
<1> DEFINE c == C!call(b, kind, at)
           n == Len(calls) + 1
<1>1. /\ DraftNow /\ CallsOk(calls, env, C!Saved, pend)
      /\ WordsOk(C!Saved, calls, rows, edit, typed, got, dropped) /\ env \in ComposerEnvs
  BY InvIs
<1>2. shown[b] = C!Saved /\ C!Saved \in C!Text /\ C!Saved # {} BY <1>1, SavedIsText
<1>3. /\ c \in C!Call /\ c.text = C!Saved /\ c.box = b /\ c.kind = kind /\ c.at = at
  BY <1>2 DEF C!call, C!Call
<1>4. C!Rests(c) /\ ~ C!Goes(c) /\ ~ C!Reserves(c) /\ c.at \notin {"failed", "told"}
      /\ (c.at = "asked" => c.kind = "send")
  BY <1>3 DEF C!Rests, C!Goes, C!Reserves
<1>5. calls' = Append(calls, c) OBVIOUS
<1> HIDE DEF c
<1>6. Only(pend, b) /\ \A i \in DOMAIN calls : ~ C!Rests(calls[i]) /\ ~ C!Reserves(calls[i])
  BY <1>1, UnhurriedIs DEF CallsOk
<1>7. Added(calls, calls', c) BY <1>1, <1>3, <1>5, CallAdded DEF CallsOk
<1>8. /\ DOMAIN calls' = DOMAIN calls \cup {n} /\ n \notin DOMAIN calls /\ calls'[n] = c
      /\ \A j \in DOMAIN calls : calls'[j] = calls[j]
  BY <1>7 DEF Added
<1> HIDE DEF n
<1>9. C!Saved' = C!Saved /\ DraftIs(pend', stored', shown') BY <1>1, DraftStands DEF Still
<1>10. CallsOk(calls', env', C!Saved', pend')
  <2>1. CallsOk(calls', env, C!Saved, pend)
    BY <1>1, <1>2, <1>3, <1>4, <1>6, <1>7, CallsBegin
  <2> QED BY <1>9, <2>1
<1>11. WordsOk(C!Saved', calls', rows', edit', typed', got', dropped')
  <2>1. \A i \in DOMAIN calls' : calls'[i].text \subseteq 1 .. typed
    BY <1>1, <1>3, <1>8 DEF WordsOk
  <2>2. \A r \in TimedRow : rows'[r].text \subseteq 1 .. typed BY <1>1 DEF WordsOk, RowsAlike
  <2>3. WordsOk(C!Saved, calls', rows', edit, typed, got, dropped) BY <1>1, <2>1, <2>2 DEF WordsOk
  <2> QED BY <1>9, <2>3 DEF RowsAlike
<1>12. C!ComposerInv' BY <1>1, <1>9, <1>10, <1>11, InvIs DEF RowsAlike
<1>13. Keeps => Keeps'
  <2>1. \A w : C!Safe(w) => C!Safe(w)' BY AlikeIs
  <2>2. \A w : Flying(w) => Flying(w)' BY <1>8 DEF Flying
  <2>3. \A i \in DOMAIN calls' : ~ C!Reserves(calls'[i]) BY <1>4, <1>6, <1>8
  <2> QED BY <1>9, <2>1, <2>2, <2>3, KeepsOn
<1>14. ASSUME Onces PROVE Onces'
  <2> SUFFICES ASSUME NEW w \in C!Word, ~ C!Told(w)' PROVE C!InOnePlace(w)' BY Zenon DEF Onces
  <2>1. C!Told(w) => C!Told(w)' BY <1>8, ToldIs
  <2>2. C!InOnePlace(w) BY <2>1, <1>14 DEF Onces
  <2>3. C!InDraft(w)' => C!InDraft(w) BY <1>6, <1>9, InDraftIs
  <2>4. \A i \in DOMAIN calls' : C!InCall(w, i)' => i \in DOMAIN calls /\ C!InCall(w, i)
    BY <1>3, <1>8, InCallIs
  <2> QED BY <2>2, <2>3, <2>4, AlikeIs, StaysInPlace
<1> QED BY <1>12, <1>13, <1>14 DEF Goal

LEMMA ScheduleGoes ==
  ASSUME Calm, C!ComposerInv, NEW b \in Box, C!schedule(b)
  PROVE  Goal
<1>1. /\ shown[b] \notin {Closed, {}} /\ C!Unhurried(b)
      /\ calls' = Append(calls, C!call(b, "book", "out"))
      /\ UNCHANGED <<env, shown, pend, stored, rows, firing, edit, typed, got, dropped>>
  BY DEF C!schedule, Calm
<1>2. RowsAlike BY <1>1, InvIs, RowsStand
<1> QED BY <1>1, <1>2, RestBegins

LEMMA SendAsks ==
  ASSUME Calm, C!ComposerInv, NEW b \in Box, C!send(b), b \in Timed /\ armed /\ C!Asked = {}
  PROVE  Goal
<1>1. /\ shown[b] \notin {Closed, {}} /\ C!Unhurried(b)
      /\ calls' = Append(calls, C!call(b, "send", "asked"))
      /\ rows' = [r \in TimedRow |-> [rows[r] EXCEPT !.armed = @ /\ rows[r].state # "pending"]]
      /\ UNCHANGED <<env, shown, pend, stored, firing, edit, typed, got, dropped>>
  BY DEF C!send, Calm
<1>2. RowsAlike
  <2>1. RowsOk(rows, firing, edit) BY InvIs
  <2>2. ASSUME NEW r \in TimedRow
        PROVE  /\ rows'[r] \in RowType /\ rows'[r].state = rows[r].state
               /\ rows'[r].text = rows[r].text
    <3>1. rows'[r] = [rows[r] EXCEPT !.armed = @ /\ rows[r].state # "pending"] BY <1>1
    <3>2. rows[r] \in RowType BY <2>1 DEF RowsOk
    <3> QED BY <3>1, <3>2 DEF RowType
  <2>3. rows' \in [TimedRow -> RowType] BY <1>1, <2>2
  <2>4. RowsOk(rows', firing, edit) BY <2>1, <2>2, <2>3 DEF RowsOk
  <2> QED BY <1>1, <2>2, <2>4 DEF RowsAlike
<1> QED BY <1>1, <1>2, RestBegins

LEMMA SendGoes ==
  ASSUME ComposerConstants, Calm, C!ComposerInv, NEW b \in Box, C!send(b),
         ~ (b \in Timed /\ armed /\ C!Asked = {})
  PROVE  Goal
<1> DEFINE c == C!call(b, "send", "out")
           n == Len(calls) + 1
<1>1. /\ DraftNow /\ CallsOk(calls, env, C!Saved, pend) /\ RowsOk(rows, firing, edit)
      /\ WordsOk(C!Saved, calls, rows, edit, typed, got, dropped) /\ env \in ComposerEnvs
  BY InvIs
<1>2. /\ shown[b] \notin {Closed, {}} /\ C!Unhurried(b) /\ calls' = Append(calls, c)
      /\ C!update(b, {})
      /\ UNCHANGED <<env, stored, rows, firing, edit, typed, got, dropped>>
  BY DEF C!send, Calm
<1>3. shown[b] = C!Saved /\ C!Saved \in C!Text /\ C!Saved # {} BY <1>1, <1>2, SavedIsText
<1>4. /\ c \in C!Call /\ c.text = C!Saved /\ c.box = b /\ c.kind = "send" /\ c.at = "out"
  BY <1>3 DEF C!call, C!Call
<1> HIDE DEF c
<1>5. ~ C!Rests(c) /\ ~ C!Reserves(c) BY <1>4 DEF C!Rests, C!Reserves
<1>6. Only(pend, b) /\ \A i \in DOMAIN calls : ~ C!Rests(calls[i]) /\ ~ C!Reserves(calls[i])
  BY <1>1, <1>2, UnhurriedIs DEF CallsOk
<1>7. DraftIs(pend', stored', shown') /\ C!Saved' = {} /\ Only(pend', b)
  <2>1. {} \in C!Text BY DEF C!Text
  <2> QED BY <1>1, <1>2, <1>6, <2>1, UpdateAnew
<1>8. Added(calls, calls', c) BY <1>1, <1>2, <1>4, CallAdded DEF CallsOk
<1>9. /\ DOMAIN calls' = DOMAIN calls \cup {n} /\ n \notin DOMAIN calls /\ calls'[n] = c
      /\ calls' \in Seq(C!Call) /\ \A j \in DOMAIN calls : calls'[j] = calls[j]
  BY <1>8 DEF Added
<1> HIDE DEF n
<1>10. CallsOk(calls', env', C!Saved', pend')
  <2>1. \A i \in DOMAIN calls' : ~ C!Rests(calls'[i]) BY <1>5, <1>6, <1>9
  <2>2. "ahead" \notin env => \A i \in DOMAIN calls' : C!Goes(calls'[i]) =>
           i = n /\ calls'[i].box = b
    BY <1>1, <1>3, <1>4, <1>9 DEF CallsOk
  <2>3. "ahead" \in env => \A i \in DOMAIN calls' : calls'[i].at # "failed"
    BY <1>1, <1>4, <1>9 DEF CallsOk
  <2>4. "ahead" \notin env => \A i \in DOMAIN calls' : C!Goes(calls'[i]) =>
           {} = {} /\ calls'[i].box = b /\ \A j \in DOMAIN calls' : C!Goes(calls'[j]) => j = i
    BY <2>2
  <2>5. CallsOk(calls', env, {}, pend') BY <1>7, <1>9, <2>1, <2>3, <2>4, CallsAnew
  <2> QED BY <1>2, <1>7, <2>5
<1>11. WordsOk(C!Saved', calls', rows', edit', typed', got', dropped')
  <2>1. \A i \in DOMAIN calls' : calls'[i].text \subseteq 1 .. typed
    BY <1>1, <1>4, <1>9 DEF WordsOk
  <2>2. WordsOk({}, calls', rows, edit, typed, got, dropped) BY <1>1, <2>1 DEF WordsOk
  <2> QED BY <1>2, <1>7, <2>2
<1>12. C!ComposerInv' BY <1>1, <1>2, <1>7, <1>10, <1>11, InvIs
<1>13. Keeps => Keeps'
  <2>1. \A w : C!Safe(w) => C!Safe(w)' BY <1>2, SafeIs
  <2>2. \A w : Flying(w) => Flying(w)' BY <1>9 DEF Flying
  <2>3. \A i \in DOMAIN calls' : ~ C!Reserves(calls'[i]) BY <1>5, <1>6, <1>9
  <2>4. \A w \in C!Saved : Flying(w)' BY <1>4, <1>9 DEF Flying
  <2> QED BY <1>2, <2>1, <2>2, <2>3, <2>4, KeepsOn
<1>14. ASSUME Onces PROVE Onces'
  <2> SUFFICES ASSUME NEW w \in C!Word, ~ C!Told(w)' PROVE C!InOnePlace(w)' BY Zenon DEF Onces
  <2>1. C!Told(w) => C!Told(w)' BY <1>9, ToldIs
  <2>2. C!InOnePlace(w) BY <2>1, <1>14 DEF Onces
  <2>3. ~ C!InDraft(w)' BY <1>7, InDraftIs
  <2>4. \A r \in TimedRow : C!InRow(w, r)' => C!InRow(w, r) BY <1>2, UnderRowsSame
  <2>5. \A i \in DOMAIN calls : C!InCall(w, i)' => C!InCall(w, i) BY <1>9, InCallIs
  <2>6. CASE w \notin C!Saved
    <3>1. \A i \in DOMAIN calls' : C!InCall(w, i)' => i \in DOMAIN calls
      BY <1>4, <1>9, <2>6, InCallIs
    <3> QED BY <1>2, <2>2, <2>3, <2>4, <2>5, <3>1, StaysInPlace
  <2>7. CASE w \in C!Saved
    <3>1. C!InDraft(w) BY <1>6, <2>7, InDraftIs
    <3>2. got[w] = 0 /\ (\A i \in DOMAIN calls : ~ C!InCall(w, i))
          /\ \A r \in TimedRow : ~ C!InRow(w, r)
      BY <2>2, <3>1 DEF C!InOnePlace
    <3>3. \A j \in DOMAIN calls' : C!InCall(w, j)' => j = n BY <1>9, <2>5, <3>2
    <3> QED BY <1>2, <2>3, <2>4, <3>2, <3>3, NowInPlace
  <2> QED BY <2>6, <2>7
<1> QED BY <1>12, <1>13, <1>14 DEF Goal

LEMMA MovedFades ==
  ASSUME NEW cs, NEW ds, NEW i, NEW a, Moved(cs, ds, i, a),
         \/ a \in {"told", "done"}
         \/ /\ a \in {"accepted", "refused", "failed"}
            /\ cs[i].at \in {"out", "accepted", "refused", "failed"}
  PROVE  Faded(cs, ds)
<1> SUFFICES ASSUME NEW j \in DOMAIN cs
             PROVE  /\ ds[j].kind = cs[j].kind /\ ds[j].box = cs[j].box /\ ds[j].text = cs[j].text
                    /\ ds[j].at = "asked" => cs[j].at = "asked"
                    /\ C!Rests(ds[j]) => C!Rests(cs[j])
                    /\ C!Goes(ds[j]) => C!Goes(cs[j])
  BY DEF Moved, Faded
<1>1. /\ ds[j].kind = cs[j].kind /\ ds[j].box = cs[j].box /\ ds[j].text = cs[j].text
      /\ ds[j].at = IF j = i THEN a ELSE cs[j].at
  BY DEF Moved
<1> QED BY <1>1 DEF C!Rests, C!Goes

LEMMA FadedInv ==
  ASSUME C!ComposerInv, Still, Faded(calls, calls'),
         "ahead" \in env =>
            \A i \in DOMAIN calls : calls'[i].at = "failed" => calls[i].at = "failed",
         RowsOk(rows', firing', edit'), \A r \in TimedRow : rows'[r].text \subseteq 1 .. typed,
         got' \in [C!Word -> Nat], \A w \in C!Word : w > typed => got'[w] = 0,
         UNCHANGED <<env, edit, typed, dropped>>
  PROVE  C!ComposerInv'
<1>1. /\ env \in ComposerEnvs /\ CallsOk(calls, env, C!Saved, pend)
      /\ WordsOk(C!Saved, calls, rows, edit, typed, got, dropped)
  BY InvIs
<1>2. C!Saved' = C!Saved /\ DraftIs(pend', stored', shown') /\ \A b : Only(pend, b) => Only(pend', b)
  BY SavedIs DEF Still
<1>3. CallsOk(calls', env', C!Saved', pend')
  <2>1. CallsOk(calls', env, C!Saved, pend') BY <1>1, <1>2, CallsFade
  <2> QED BY <1>2, <2>1
<1>4. WordsOk(C!Saved', calls', rows', edit', typed', got', dropped')
  <2>1. \A i \in DOMAIN calls' : calls'[i].text \subseteq 1 .. typed BY <1>1 DEF WordsOk, Faded
  <2>2. WordsOk(C!Saved, calls', rows', edit, typed, got', dropped) BY <1>1, <2>1 DEF WordsOk
  <2> QED BY <1>2, <2>2
<1> QED BY <1>1, <1>2, <1>3, <1>4, InvIs

\* What a call must not do when the draft and the rows stand.
FadesWell ==
  \A i \in DOMAIN calls :
    /\ "ahead" \in env /\ calls'[i].at = "failed" => calls[i].at = "failed"
    /\ C!Reserves(calls'[i]) => C!Reserves(calls[i])
    /\ "refuse" \notin env /\ calls[i].at \in {"asked", "out", "failed"} =>
          calls'[i].at \in {"asked", "out", "failed"} \/ calls[i].text = C!Saved
    /\ calls'[i].at = "out" => calls[i].at = "out"
    /\ C!Reserves(calls[i]) => C!Reserves(calls'[i]) \/ calls'[i].at \in {"failed", "told"}
    /\ calls[i].at \in {"failed", "told"} => calls'[i].at \in {"failed", "told"}

LEMMA FadeGoes ==
  ASSUME ComposerConstants, C!ComposerInv, Still, Faded(calls, calls'), FadesWell, firing' \in {firing, None},
         UNCHANGED <<env, rows, edit, typed, got, dropped>>
  PROVE  Goal
<1>1. RowsOk(rows, firing, edit) /\ WordsOk(C!Saved, calls, rows, edit, typed, got, dropped)
  BY InvIs
<1>2. RowsOk(rows', firing', edit') BY <1>1 DEF RowsOk
<1>3. C!Saved' = C!Saved BY DEF Still
<1>4. C!ComposerInv'
  <2>1. "ahead" \in env =>
           \A i \in DOMAIN calls : calls'[i].at = "failed" => calls[i].at = "failed"
    BY DEF FadesWell
  <2>2. \A r \in TimedRow : rows'[r].text \subseteq 1 .. typed BY <1>1 DEF WordsOk
  <2>3. got' \in [C!Word -> Nat] /\ \A w \in C!Word : w > typed => got'[w] = 0
    BY <1>1 DEF WordsOk
  <2> QED BY <1>2, <2>1, <2>2, <2>3, FadedInv
<1>5. DOMAIN calls' = DOMAIN calls
      /\ \A i \in DOMAIN calls : calls'[i].text = calls[i].text /\ calls'[i].kind = calls[i].kind
  BY DEF Faded
<1>6. ASSUME "refuse" \notin env, Keeps PROVE Keeps'
  <2>1. \A w : C!Safe(w) => C!Safe(w)' BY SafeIs
  <2>2. \A w : Flying(w) => w \in C!Saved' \/ Flying(w)'
    BY <1>3, <1>5, <1>6 DEF Flying, FadesWell
  <2>3. \A i \in DOMAIN calls' : C!Reserves(calls'[i]) => \A w \in calls'[i].text :
           \E j \in DOMAIN calls : C!Reserves(calls[j]) /\ w \in calls[j].text
    BY <1>5, Zenon DEF FadesWell
  <2> QED BY <1>3, <1>6, <2>1, <2>2, <2>3, KeepsOn
<1>7. ASSUME Onces PROVE Onces'
  <2> SUFFICES ASSUME NEW w \in C!Word, ~ C!Told(w)' PROVE C!InOnePlace(w)' BY Zenon DEF Onces
  <2>1. C!Told(w) => C!Told(w)' BY <1>5, ToldIs DEF FadesWell
  <2>2. C!InOnePlace(w) BY <2>1, <1>7 DEF Onces
  <2>3. C!InDraft(w)' => C!InDraft(w)
    <3>1. ASSUME C!InDraft(w)', NEW i \in DOMAIN calls, C!Reserves(calls[i]), w \in calls[i].text
          PROVE  FALSE
      <4>1. ~ C!Reserves(calls'[i]) BY <1>5, <3>1, InDraftIs
      <4>2. calls'[i].at \in {"failed", "told"} BY <3>1, <4>1 DEF FadesWell
      <4>3. C!Told(w)' BY <1>5, <3>1, <4>2, ToldIs
      <4> QED BY <4>3
    <3> QED BY <1>3, <3>1, InDraftIs
  <2>4. \A i \in DOMAIN calls' : C!InCall(w, i)' => i \in DOMAIN calls /\ C!InCall(w, i)
    BY <1>5, InCallIs DEF FadesWell
  <2>5. \A r \in TimedRow : C!InRow(w, r)' => C!InRow(w, r)
    <3> SUFFICES ASSUME NEW r \in TimedRow, C!InRow(w, r)' PROVE C!InRow(w, r) OBVIOUS
    <3>1. CASE firing' = firing BY <3>1, InRowIs
    <3>2. CASE firing' = None
      <4>1. firing' # r BY <3>2 DEF ComposerConstants
      <4> QED BY <4>1, InRowIs
    <3> QED BY <3>1, <3>2
  <2> QED BY <2>2, <2>3, <2>4, <2>5, StaysInPlace
<1> QED BY <1>4, <1>6, <1>7 DEF Goal

-----------------------------------------------------------------------------
LEMMA ChooseIs ==
  ASSUME C!ComposerInv, NEW p \in BOOLEAN, C!choose(p)
  PROVE  \E i \in DOMAIN calls :
           /\ calls[i].at = "asked" /\ calls[i].kind = "send" /\ calls[i].box \in Box
           /\ calls[i].text = C!Saved /\ C!Saved # {} /\ Only(pend, calls[i].box)
           /\ \A j \in DOMAIN calls : C!Rests(calls[j]) => j = i
           /\ Moved(calls, calls', i, IF p THEN "out" ELSE "done")
           /\ IF p THEN C!update(calls[i].box, {}) ELSE UNCHANGED <<shown, pend>>
           /\ UNCHANGED <<env, stored, rows, firing, edit, typed, got, dropped>>
<1>1. CallsOk(calls, env, C!Saved, pend) BY InvIs
<1>2. PICK i \in C!Asked :
        /\ calls' = [calls EXCEPT ![i].at = IF p THEN "out" ELSE "done"]
        /\ IF p THEN C!update(calls[i].box, {}) ELSE UNCHANGED <<shown, pend>>
        /\ UNCHANGED <<env, stored, armed, rows, firing, edit, typed, got, dropped>>
  BY Zenon DEF C!choose
<1>3. i \in DOMAIN calls /\ calls[i].at = "asked" BY DEF C!Asked
<1>4. C!Rests(calls[i]) BY <1>3 DEF C!Rests
<1>5. /\ calls[i].kind = "send" /\ calls[i].text = C!Saved /\ C!Saved # {}
      /\ Only(pend, calls[i].box) /\ \A j \in DOMAIN calls : C!Rests(calls[j]) => j = i
  BY <1>1, <1>3, <1>4 DEF CallsOk
<1>6. calls[i].box \in Box BY <1>1, <1>3, CallIs DEF CallsOk
<1>7. Moved(calls, calls', i, IF p THEN "out" ELSE "done")
  <2>1. (IF p THEN "out" ELSE "done") \in Ats BY DEF Ats
  <2> QED BY <1>1, <1>2, <1>3, <2>1, CallMoved DEF CallsOk
<1> QED BY <1>2, <1>3, <1>5, <1>6, <1>7

LEMMA ChooseNot ==
  ASSUME ComposerConstants, C!ComposerInv, C!choose(FALSE)
  PROVE  Goal
<1>1. PICK i \in DOMAIN calls :
           /\ calls[i].at = "asked" /\ calls[i].kind = "send" /\ calls[i].text = C!Saved
           /\ Moved(calls, calls', i, "done") /\ UNCHANGED <<shown, pend>>
           /\ UNCHANGED <<env, stored, rows, firing, edit, typed, got, dropped>>
  BY ChooseIs
<1>2. Faded(calls, calls') BY <1>1, MovedFades
<1>3. Still BY <1>1, InvIs, DraftStands
<1>4. FadesWell BY <1>1 DEF FadesWell, Moved, C!Reserves
<1> QED BY <1>1, <1>2, <1>3, <1>4, FadeGoes

LEMMA ChooseGoes ==
  ASSUME ComposerConstants, C!ComposerInv, C!choose(TRUE)
  PROVE  Goal
<1>1. PICK i \in DOMAIN calls :
           /\ calls[i].at = "asked" /\ calls[i].kind = "send" /\ calls[i].box \in Box
           /\ calls[i].text = C!Saved /\ C!Saved # {} /\ Only(pend, calls[i].box)
           /\ \A j \in DOMAIN calls : C!Rests(calls[j]) => j = i
           /\ Moved(calls, calls', i, "out") /\ C!update(calls[i].box, {})
           /\ UNCHANGED <<env, stored, rows, firing, edit, typed, got, dropped>>
  BY ChooseIs
<1>2. /\ DraftNow /\ CallsOk(calls, env, C!Saved, pend) /\ RowsOk(rows, firing, edit)
      /\ WordsOk(C!Saved, calls, rows, edit, typed, got, dropped) /\ env \in ComposerEnvs
  BY InvIs
<1>3. DraftIs(pend', stored', shown') /\ C!Saved' = {} /\ Only(pend', calls[i].box)
  <2>1. {} \in C!Text BY DEF C!Text
  <2> QED BY <1>1, <1>2, <2>1, UpdateAnew
<1>4. /\ calls' \in Seq(C!Call) /\ DOMAIN calls' = DOMAIN calls
      /\ \A j \in DOMAIN calls : /\ calls'[j].kind = calls[j].kind /\ calls'[j].box = calls[j].box
                                 /\ calls'[j].text = calls[j].text
                                 /\ calls'[j].at = IF j = i THEN "out" ELSE calls[j].at
  BY <1>1 DEF Moved
<1>5. \A j \in DOMAIN calls : ~ C!Rests(calls'[j]) BY <1>1, <1>4 DEF C!Rests
<1>6. \A j \in DOMAIN calls : ~ C!Reserves(calls[j]) /\ ~ C!Reserves(calls'[j])
  BY <1>1, <1>4 DEF C!Rests, C!Reserves
<1>7. CallsOk(calls', env', C!Saved', pend')
  <2>1. "ahead" \notin env => \A j \in DOMAIN calls' : C!Goes(calls'[j]) => j = i
    <3>1. "ahead" \notin env => \A j \in DOMAIN calls : ~ C!Goes(calls[j])
      BY <1>1, <1>2 DEF CallsOk
    <3> QED BY <1>4, <3>1 DEF C!Goes
  <2>2. "ahead" \notin env => \A j \in DOMAIN calls' : C!Goes(calls'[j]) =>
           {} = {} /\ calls'[j].box = calls[i].box
           /\ \A k \in DOMAIN calls' : C!Goes(calls'[k]) => k = j
    BY <1>4, <2>1
  <2>3. "ahead" \in env => \A j \in DOMAIN calls' : calls'[j].at # "failed"
    BY <1>2, <1>4 DEF CallsOk
  <2>4. CallsOk(calls', env, {}, pend') BY <1>3, <1>4, <1>5, <2>2, <2>3, CallsAnew
  <2> QED BY <1>1, <1>3, <2>4
<1>8. WordsOk(C!Saved', calls', rows', edit', typed', got', dropped')
  <2>1. WordsOk({}, calls', rows, edit, typed, got, dropped) BY <1>2, <1>4 DEF WordsOk
  <2> QED BY <1>1, <1>3, <2>1
<1>9. C!ComposerInv' BY <1>1, <1>2, <1>3, <1>7, <1>8, InvIs
<1>10. Keeps => Keeps'
  <2>1. \A w : C!Safe(w) => C!Safe(w)' BY <1>1, SafeIs
  <2>2. \A w : Flying(w) => Flying(w)' BY <1>4 DEF Flying
  <2>3. \A w \in C!Saved : Flying(w)' BY <1>1, <1>4 DEF Flying
  <2> QED BY <1>1, <1>4, <1>6, <2>1, <2>2, <2>3, KeepsOn
<1>11. ASSUME Onces PROVE Onces'
  <2> SUFFICES ASSUME NEW w \in C!Word, ~ C!Told(w)' PROVE C!InOnePlace(w)' BY Zenon DEF Onces
  <2>1. C!Told(w) => C!Told(w)' BY <1>1, <1>4, ToldIs
  <2>2. C!InOnePlace(w) BY <2>1, <1>11 DEF Onces
  <2>3. ~ C!InDraft(w)' BY <1>3, InDraftIs
  <2>4. \A r \in TimedRow : C!InRow(w, r)' => C!InRow(w, r) BY <1>1, UnderRowsSame
  <2>5. \A j \in DOMAIN calls' : C!InCall(w, j)' => j \in DOMAIN calls /\ (j # i => C!InCall(w, j))
    BY <1>4, InCallIs
  <2>6. CASE w \notin C!Saved
    <3>1. \A j \in DOMAIN calls' : C!InCall(w, j)' => j # i BY <1>1, <1>4, <2>6, InCallIs
    <3> QED BY <1>1, <2>2, <2>3, <2>4, <2>5, <3>1, StaysInPlace
  <2>7. CASE w \in C!Saved
    <3>1. C!InDraft(w) BY <1>6, <2>7, InDraftIs
    <3>2. got[w] = 0 /\ (\A j \in DOMAIN calls : ~ C!InCall(w, j))
          /\ \A r \in TimedRow : ~ C!InRow(w, r)
      BY <2>2, <3>1 DEF C!InOnePlace
    <3>3. \A j \in DOMAIN calls' : C!InCall(w, j)' => j = i BY <2>5, <3>2
    <3> QED BY <1>1, <2>3, <2>4, <3>2, <3>3, NowInPlace
  <2> QED BY <2>6, <2>7
<1> QED BY <1>9, <1>10, <1>11 DEF Goal

-----------------------------------------------------------------------------
LEMMA CallGoes ==
  ASSUME C!ComposerInv, NEW i \in DOMAIN calls, NEW a \in Ats, calls' = [calls EXCEPT ![i].at = a]
  PROVE  /\ Moved(calls, calls', i, a) /\ calls[i].box \in Box /\ calls[i].text \in C!Text
         /\ calls' \in Seq(C!Call) /\ DOMAIN calls' = DOMAIN calls
         /\ \A j \in DOMAIN calls : /\ calls'[j].kind = calls[j].kind /\ calls'[j].box = calls[j].box
                                    /\ calls'[j].text = calls[j].text
                                    /\ calls'[j].at = IF j = i THEN a ELSE calls[j].at
<1>1. calls \in Seq(C!Call) BY InvIs DEF CallsOk
<1>2. Moved(calls, calls', i, a) BY <1>1, CallMoved
<1> QED BY <1>1, <1>2, CallIs DEF Moved

LEMMA SubmitRefused ==
  ASSUME ComposerConstants, C!ComposerInv, NEW i \in DOMAIN calls, calls[i].kind = "send",
         calls[i].at = "out", "refuse" \in env, calls' = [calls EXCEPT ![i].at = "refused"],
         UNCHANGED <<env, shown, pend, stored, rows, firing, edit, typed, got, dropped>>
  PROVE  Goal
<1>1. Moved(calls, calls', i, "refused") BY CallGoes DEF Ats
<1>2. Faded(calls, calls') BY <1>1, MovedFades
<1>3. Still BY InvIs, DraftStands
<1>4. FadesWell BY <1>1 DEF FadesWell, Moved, C!Reserves
<1> QED BY <1>2, <1>3, <1>4, FadeGoes

LEMMA LoseGoes ==
  ASSUME ComposerConstants, Calm, C!ComposerInv, NEW i \in DOMAIN calls, C!lose(i)
  PROVE  Goal
<1>1. /\ "ahead" \notin env /\ calls[i].at \in {"out", "accepted", "refused"}
      /\ calls' = [calls EXCEPT ![i].at = "failed"]
      /\ UNCHANGED <<env, shown, pend, stored, rows, firing, edit, typed, got, dropped>>
  BY DEF C!lose, Calm
<1>2. Moved(calls, calls', i, "failed") BY <1>1, CallGoes DEF Ats
<1>3. Faded(calls, calls') BY <1>1, <1>2, MovedFades
<1>4. Still BY <1>1, InvIs, DraftStands
<1>5. FadesWell BY <1>1, <1>2 DEF FadesWell, Moved, C!Reserves
<1> QED BY <1>1, <1>3, <1>4, <1>5, FadeGoes

LEMMA DeliverIs ==
  ASSUME NEW t, got \in [C!Word -> Nat], C!deliver(t)
  PROVE  /\ got' \in [C!Word -> Nat]
         /\ \A w \in C!Word : got'[w] = IF w \in t THEN got[w] + 1 ELSE got[w]
BY DEF C!deliver

\* A word the session has is safe; the rest is as it was.
LEMMA DeliverSafe ==
  ASSUME C!ComposerInv, NEW t, t \subseteq C!Word, C!deliver(t),
         UNCHANGED <<rows, edit, dropped>>
  PROVE  /\ \A w \in C!Word : C!Safe(w) => C!Safe(w)'
         /\ \A w \in t : C!Safe(w)'
<1>1. got \in [C!Word -> Nat] BY InvIs DEF WordsOk
<1>2. \A w \in C!Word : got'[w] = IF w \in t THEN got[w] + 1 ELSE got[w] BY <1>1, DeliverIs
<1>3. \A w \in C!Word : got[w] \in Nat BY <1>1
<1>4. \A w \in t : got'[w] > 0 BY <1>2, <1>3
<1>5. \A w \in C!Word : got[w] > 0 => got'[w] > 0 BY <1>2, <1>3
<1> QED BY <1>4, <1>5, SafeIs

LEMMA SubmitTaken ==
  ASSUME ComposerConstants, C!ComposerInv, NEW i \in DOMAIN calls, calls[i].kind = "send",
         calls[i].at = "out", calls' = [calls EXCEPT ![i].at = "accepted"],
         C!deliver(calls[i].text),
         UNCHANGED <<env, shown, pend, stored, rows, firing, edit, typed, dropped>>
  PROVE  Goal
<1> DEFINE t == calls[i].text
<1>1. /\ RowsOk(rows, firing, edit)
      /\ WordsOk(C!Saved, calls, rows, edit, typed, got, dropped)
  BY InvIs
<1>2. Still /\ C!Saved' = C!Saved BY InvIs, DraftStands DEF Still
<1>3. /\ Moved(calls, calls', i, "accepted") /\ DOMAIN calls' = DOMAIN calls
      /\ \A j \in DOMAIN calls : /\ calls'[j].kind = calls[j].kind
                                 /\ calls'[j].text = calls[j].text
                                 /\ calls'[j].at = IF j = i THEN "accepted" ELSE calls[j].at
  BY CallGoes DEF Ats
<1>4. t \subseteq 1 .. typed /\ t \subseteq C!Word /\ typed \in Nat
  BY <1>1 DEF WordsOk, C!Word, ComposerConstants
<1>5. /\ got' \in [C!Word -> Nat] /\ got \in [C!Word -> Nat]
      /\ \A w \in C!Word : got'[w] = IF w \in t THEN got[w] + 1 ELSE got[w]
  BY <1>1, DeliverIs DEF WordsOk
<1> HIDE DEF t
<1>6. C!ComposerInv'
  <2>1. Faded(calls, calls') BY <1>3, MovedFades
  <2>2. \A j \in DOMAIN calls : calls'[j].at = "failed" => calls[j].at = "failed" BY <1>3
  <2>3. \A r \in TimedRow : rows'[r].text \subseteq 1 .. typed BY <1>1 DEF WordsOk
  <2>4. \A w \in C!Word : w > typed => w \notin t BY <1>4
  <2>5. \A w \in C!Word : w > typed => got'[w] = 0 BY <1>1, <1>5, <2>4 DEF WordsOk
  <2> QED BY <1>1, <1>2, <1>5, <2>1, <2>2, <2>3, <2>5, FadedInv
<1>7. ASSUME Keeps PROVE Keeps'
  <2>1. /\ \A w \in C!Word : C!Safe(w) => C!Safe(w)'
        /\ \A w \in t : C!Safe(w)'
    BY <1>4, DeliverSafe DEF t
  <2>2. \A w : Flying(w) => C!Safe(w)' \/ Flying(w)'
    BY <1>3, <2>1 DEF Flying, t
  <2>3. \A j \in DOMAIN calls : C!Reserves(calls'[j]) => C!Reserves(calls[j])
    BY <1>3 DEF C!Reserves
  <2>4. \A j \in DOMAIN calls : calls[j].text \subseteq C!Word
    BY <1>1, <1>4 DEF WordsOk, C!Word, ComposerConstants
  <2>5. 1 .. typed \subseteq C!Word BY <1>1 DEF WordsOk, C!Word, ComposerConstants
  <2>6. \A j \in DOMAIN calls' : C!Reserves(calls'[j]) => \A w \in calls'[j].text : C!Safe(w)'
    BY <1>3, <1>7, <2>1, <2>3, <2>4 DEF Keeps
  <2>7. \A w \in 1 .. typed' : C!Safe(w)' \/ w \in C!Saved' \/ Flying(w)'
    BY <1>2, <1>7, <2>1, <2>2, <2>5 DEF Keeps
  <2> QED BY <2>6, <2>7, Zenon DEF Keeps
<1>8. ASSUME Onces PROVE Onces'
  <2> SUFFICES ASSUME NEW w \in C!Word, ~ C!Told(w)' PROVE C!InOnePlace(w)' BY Zenon DEF Onces
  <2>1. C!Told(w) => C!Told(w)' BY <1>3, ToldIs
  <2>2. C!InOnePlace(w) BY <2>1, <1>8 DEF Onces
  <2>3. \A r \in TimedRow : C!InRow(w, r)' => C!InRow(w, r) BY UnderRowsSame
  <2>4. \A j \in DOMAIN calls' : C!InCall(w, j)' => j \in DOMAIN calls /\ C!InCall(w, j) /\ j # i
    BY <1>3, InCallIs
  <2>5. C!InDraft(w)' => C!InDraft(w) BY <1>2, <1>3, InDraftIs DEF C!Reserves
  <2>6. CASE w \notin t
    <3>1. got'[w] = got[w] BY <1>5, <2>6
    <3> QED BY <2>2, <2>3, <2>4, <2>5, <3>1, StaysInPlace
  <2>7. CASE w \in t
    <3>1. C!InCall(w, i) BY <2>7, InCallIs DEF t
    <3>2. got[w] = 0 /\ ~ C!InDraft(w) /\ (\A j \in DOMAIN calls : C!InCall(w, j) => j = i)
          /\ \A r \in TimedRow : ~ C!InRow(w, r)
      BY <2>2, <3>1, Zenon DEF C!InOnePlace
    <3>3. got'[w] =< 1 BY <1>5, <2>7, <3>2
    <3>4. \A j \in DOMAIN calls' : ~ C!InCall(w, j)' BY <2>4, <3>2
    <3> QED BY <2>3, <2>5, <3>2, <3>3, <3>4, NowInPlace
  <2> QED BY <2>6, <2>7
<1> QED BY <1>6, <1>7, <1>8 DEF Goal

LEMMA SubmitGoes ==
  ASSUME ComposerConstants, C!ComposerInv, NEW i \in DOMAIN calls, C!submitAnswer(i)
  PROVE  Goal
<1>1. /\ calls[i].kind = "send" /\ calls[i].at = "out"
      /\ UNCHANGED <<env, shown, pend, stored, rows, firing, edit, typed, dropped>>
  BY DEF C!submitAnswer
<1>2. CASE calls' = [calls EXCEPT ![i].at = "accepted"] /\ C!deliver(calls[i].text)
  BY <1>1, <1>2, SubmitTaken
<1>3. CASE "refuse" \in env /\ calls' = [calls EXCEPT ![i].at = "refused"] /\ got' = got
  BY <1>1, <1>3, SubmitRefused
<1> QED BY <1>2, <1>3 DEF C!submitAnswer

LEMMA SendDone ==
  ASSUME ComposerConstants, C!ComposerInv, NEW i \in DOMAIN calls, C!sendAnswered(i),
         calls[i].at # "failed"
  PROVE  Goal
<1>1. /\ calls[i].kind = "send" /\ calls[i].at \in {"accepted", "refused"}
      /\ calls' = [calls EXCEPT ![i].at = "done"]
      /\ UNCHANGED <<env, shown, pend, stored, rows, firing, edit, typed, got, dropped>>
  BY DEF C!sendAnswered
<1>2. Moved(calls, calls', i, "done") BY <1>1, CallGoes DEF Ats
<1>3. Faded(calls, calls') BY <1>2, MovedFades
<1>4. Still BY <1>1, InvIs, DraftStands
<1>5. FadesWell BY <1>1, <1>2 DEF FadesWell, Moved, C!Reserves
<1> QED BY <1>1, <1>3, <1>4, <1>5, FadeGoes

LEMMA SendFailed ==
  ASSUME ComposerConstants, C!ComposerInv, NEW i \in DOMAIN calls, C!sendAnswered(i),
         calls[i].at = "failed"
  PROVE  Goal
<1> DEFINE t == calls[i].text
           b == calls[i].box
<1>1. /\ calls[i].kind = "send" /\ C!update(b, t)
      /\ calls' = [calls EXCEPT ![i].at = "told"]
      /\ UNCHANGED <<env, stored, rows, firing, edit, typed, got, dropped>>
  BY DEF C!sendAnswered
<1>2. /\ DraftNow /\ CallsOk(calls, env, C!Saved, pend) /\ RowsOk(rows, firing, edit)
      /\ WordsOk(C!Saved, calls, rows, edit, typed, got, dropped) /\ env \in ComposerEnvs
  BY InvIs
<1>3. C!Goes(calls[i]) BY <1>1 DEF C!Goes
<1>4. /\ "ahead" \notin env /\ C!Saved = {} /\ Only(pend, b)
      /\ \A j \in DOMAIN calls : C!Goes(calls[j]) => j = i
      /\ \A j \in DOMAIN calls : ~ C!Rests(calls[j])
  BY <1>2, <1>3 DEF CallsOk
<1>5. /\ b \in Box /\ t \in C!Text /\ calls' \in Seq(C!Call) /\ DOMAIN calls' = DOMAIN calls
      /\ \A j \in DOMAIN calls : /\ calls'[j].kind = calls[j].kind
                                 /\ calls'[j].text = calls[j].text
                                 /\ calls'[j].at = IF j = i THEN "told" ELSE calls[j].at
  BY <1>1, CallGoes DEF Ats
<1>6. t \subseteq 1 .. typed BY <1>2 DEF WordsOk
<1> HIDE DEF t, b
<1>7. DraftIs(pend', stored', shown') /\ C!Saved' = t /\ Only(pend', b)
  BY <1>1, <1>2, <1>4, <1>5, UpdateAnew
<1>8. \A j \in DOMAIN calls : /\ ~ C!Rests(calls'[j]) /\ ~ C!Goes(calls'[j])
                              /\ ~ C!Reserves(calls'[j])
  BY <1>4, <1>5 DEF C!Rests, C!Goes, C!Reserves
<1>9. CallsOk(calls', env', C!Saved', pend')
  <2>1. CallsOk(calls', env, t, pend') BY <1>4, <1>5, <1>7, <1>8, CallsAnew
  <2> QED BY <1>1, <1>7, <2>1
<1>10. WordsOk(C!Saved', calls', rows', edit', typed', got', dropped')
  <2>1. WordsOk(t, calls', rows, edit, typed, got, dropped) BY <1>2, <1>5, <1>6 DEF WordsOk
  <2> QED BY <1>1, <1>7, <2>1
<1>11. C!ComposerInv' BY <1>1, <1>2, <1>7, <1>9, <1>10, InvIs
<1>12. Keeps => Keeps'
  <2>1. \A w : C!Safe(w) => C!Safe(w)' BY <1>1, SafeIs
  <2>2. \A w : Flying(w) => w \in C!Saved' \/ Flying(w)' BY <1>5, <1>7 DEF Flying, t
  <2> QED BY <1>1, <1>4, <1>5, <1>8, <2>1, <2>2, KeepsOn
<1>13. ASSUME Onces PROVE Onces'
  <2> SUFFICES ASSUME NEW w \in C!Word, ~ C!Told(w)' PROVE C!InOnePlace(w)' BY Zenon DEF Onces
  <2>1. C!Told(w) => C!Told(w)' BY <1>5, ToldIs
  <2>2. C!InOnePlace(w) BY <2>1, <1>13 DEF Onces
  <2>3. w \notin t BY <1>5, ToldIs DEF t
  <2>4. ~ C!InDraft(w)' BY <1>7, <2>3, InDraftIs
  <2>5. \A r \in TimedRow : C!InRow(w, r)' => C!InRow(w, r) BY <1>1, UnderRowsSame
  <2>6. \A j \in DOMAIN calls' : C!InCall(w, j)' => j \in DOMAIN calls /\ C!InCall(w, j)
    BY <1>5, InCallIs
  <2> QED BY <1>1, <2>2, <2>4, <2>5, <2>6, StaysInPlace
<1> QED BY <1>11, <1>12, <1>13 DEF Goal

\* A call that rests on the draft, and is the only one.
LEMMA RestsIs ==
  ASSUME C!ComposerInv, NEW i \in DOMAIN calls, C!Rests(calls[i])
  PROVE  /\ calls[i].text = C!Saved /\ C!Saved # {} /\ Only(pend, calls[i].box)
         /\ \A j \in DOMAIN calls : C!Rests(calls[j]) => j = i
         /\ \A j \in DOMAIN calls : C!Reserves(calls[j]) => j = i
         /\ "ahead" \notin env => \A j \in DOMAIN calls : ~ C!Goes(calls[j])
<1>1. CallsOk(calls, env, C!Saved, pend) BY InvIs
<1>2. /\ calls[i].text = C!Saved /\ C!Saved # {} /\ Only(pend, calls[i].box)
      /\ \A j \in DOMAIN calls : C!Rests(calls[j]) => j = i
  BY <1>1 DEF CallsOk
<1>3. \A j \in DOMAIN calls : C!Reserves(calls[j]) => C!Rests(calls[j]) BY DEF C!Reserves, C!Rests
<1>4. "ahead" \notin env => \A j \in DOMAIN calls : ~ C!Goes(calls[j]) BY <1>1, <1>2 DEF CallsOk
<1> QED BY <1>2, <1>3, <1>4

LEMMA ScheduleFailed ==
  ASSUME ComposerConstants, C!ComposerInv, NEW i \in DOMAIN calls, C!scheduleAnswered(i),
         calls[i].at # "accepted"
  PROVE  Goal
<1>1. /\ calls[i].kind = "book" /\ calls[i].at = "failed"
      /\ calls' = [calls EXCEPT ![i].at = "told"]
      /\ UNCHANGED <<env, shown, pend, stored, rows, firing, edit, typed, got, dropped>>
  BY DEF C!scheduleAnswered
<1>2. Moved(calls, calls', i, "told") BY <1>1, CallGoes DEF Ats
<1>3. Faded(calls, calls') BY <1>2, MovedFades
<1>4. Still BY <1>1, InvIs, DraftStands
<1>5. calls[i].text = C!Saved BY <1>1, RestsIs DEF C!Rests
<1>6. FadesWell BY <1>1, <1>2, <1>5 DEF FadesWell, Moved, C!Reserves
<1> QED BY <1>1, <1>3, <1>4, <1>6, FadeGoes

LEMMA ScheduleTaken ==
  ASSUME ComposerConstants, C!ComposerInv, NEW i \in DOMAIN calls, C!scheduleAnswered(i),
         calls[i].at = "accepted"
  PROVE  Goal
<1>1. /\ calls[i].kind = "book" /\ C!update(calls[i].box, {})
      /\ calls' = [calls EXCEPT ![i].at = "done"]
      /\ UNCHANGED <<env, stored, rows, firing, edit, typed, got, dropped>>
  BY DEF C!scheduleAnswered
<1>2. /\ DraftNow /\ CallsOk(calls, env, C!Saved, pend) /\ RowsOk(rows, firing, edit)
      /\ WordsOk(C!Saved, calls, rows, edit, typed, got, dropped) /\ env \in ComposerEnvs
  BY InvIs
<1>3. C!Rests(calls[i]) /\ C!Reserves(calls[i]) BY <1>1 DEF C!Rests, C!Reserves
<1>4. /\ calls[i].text = C!Saved /\ C!Saved # {} /\ Only(pend, calls[i].box)
      /\ \A j \in DOMAIN calls : C!Rests(calls[j]) => j = i
      /\ \A j \in DOMAIN calls : C!Reserves(calls[j]) => j = i
      /\ "ahead" \notin env => \A j \in DOMAIN calls : ~ C!Goes(calls[j])
  BY <1>3, RestsIs
<1>5. /\ calls[i].box \in Box /\ calls' \in Seq(C!Call) /\ DOMAIN calls' = DOMAIN calls
      /\ \A j \in DOMAIN calls : /\ calls'[j].kind = calls[j].kind
                                 /\ calls'[j].text = calls[j].text
                                 /\ calls'[j].at = IF j = i THEN "done" ELSE calls[j].at
  BY <1>1, CallGoes DEF Ats
<1>6. DraftIs(pend', stored', shown') /\ C!Saved' = {} /\ Only(pend', calls[i].box)
  <2>1. {} \in C!Text BY DEF C!Text
  <2> QED BY <1>1, <1>2, <1>4, <1>5, <2>1, UpdateAnew
<1>7. \A j \in DOMAIN calls : /\ ~ C!Rests(calls'[j]) /\ ~ C!Reserves(calls'[j])
                              /\ C!Goes(calls'[j]) => C!Goes(calls[j])
  BY <1>4, <1>5 DEF C!Rests, C!Goes, C!Reserves
<1>8. CallsOk(calls', env', C!Saved', pend')
  <2>1. "ahead" \in env => \A j \in DOMAIN calls' : calls'[j].at # "failed"
    BY <1>2, <1>5 DEF CallsOk
  <2>2. "ahead" \notin env => \A j \in DOMAIN calls' : ~ C!Goes(calls'[j]) BY <1>4, <1>5, <1>7
  <2>3. CallsOk(calls', env, {}, pend') BY <1>5, <1>6, <1>7, <2>1, <2>2, CallsAnew
  <2> QED BY <1>1, <1>6, <2>3
<1>9. WordsOk(C!Saved', calls', rows', edit', typed', got', dropped')
  <2>1. WordsOk({}, calls', rows, edit, typed, got, dropped) BY <1>2, <1>5 DEF WordsOk
  <2> QED BY <1>1, <1>6, <2>1
<1>10. C!ComposerInv' BY <1>1, <1>2, <1>6, <1>8, <1>9, InvIs
<1>11. ASSUME Keeps PROVE Keeps'
  <2>1. \A w : C!Safe(w) => C!Safe(w)' BY <1>1, SafeIs
  <2>2. \A w : Flying(w) => Flying(w)' BY <1>5 DEF Flying
  <2>3. \A w \in C!Saved : C!Safe(w) BY <1>3, <1>4, <1>11 DEF Keeps
  <2> QED BY <1>1, <1>5, <1>7, <1>11, <2>1, <2>2, <2>3, KeepsOn
<1>12. ASSUME Onces PROVE Onces'
  <2> SUFFICES ASSUME NEW w \in C!Word, ~ C!Told(w)' PROVE C!InOnePlace(w)' BY Zenon DEF Onces
  <2>1. C!Told(w) => C!Told(w)' BY <1>5, ToldIs
  <2>2. C!InOnePlace(w) BY <2>1, <1>12 DEF Onces
  <2>3. ~ C!InDraft(w)' BY <1>6, InDraftIs
  <2>4. \A r \in TimedRow : C!InRow(w, r)' => C!InRow(w, r) BY <1>1, UnderRowsSame
  <2>5. \A j \in DOMAIN calls' : C!InCall(w, j)' => j \in DOMAIN calls /\ C!InCall(w, j)
    BY <1>5, InCallIs
  <2> QED BY <1>1, <2>2, <2>3, <2>4, <2>5, StaysInPlace
<1> QED BY <1>10, <1>11, <1>12 DEF Goal

LEMMA ReservedGoes ==
  ASSUME ComposerConstants, C!ComposerInv, NEW i \in DOMAIN calls, NEW r \in TimedRow,
         firing = None, C!handleScheduleMessage(i, r)
  PROVE  Goal
<1> DEFINE t == calls[i].text
           entry == [state |-> "pending", text |-> t, due |-> FALSE, armed |-> TRUE]
<1>1. /\ calls[i].kind = "book" /\ calls[i].at = "out" /\ rows[r].state = None
      /\ rows' = [rows EXCEPT ![r] = entry]
      /\ calls' = [calls EXCEPT ![i].at = "accepted"]
      /\ UNCHANGED <<env, shown, pend, stored, firing, edit, typed, got, dropped>>
  BY DEF C!handleScheduleMessage
<1>2. /\ RowsOk(rows, firing, edit) /\ WordsOk(C!Saved, calls, rows, edit, typed, got, dropped)
  BY InvIs
<1>3. C!Rests(calls[i]) BY <1>1 DEF C!Rests
<1>4. /\ t = C!Saved /\ \A j \in DOMAIN calls : C!Reserves(calls[j]) => j = i
  BY <1>3, RestsIs
<1>5. /\ Moved(calls, calls', i, "accepted") /\ t \in C!Text /\ DOMAIN calls' = DOMAIN calls
      /\ \A j \in DOMAIN calls : /\ calls'[j].kind = calls[j].kind
                                 /\ calls'[j].text = calls[j].text
                                 /\ calls'[j].at = IF j = i THEN "accepted" ELSE calls[j].at
  BY <1>1, CallGoes DEF Ats
<1>6. t \subseteq 1 .. typed BY <1>2 DEF WordsOk
<1> HIDE DEF t
<1>7. entry \in RowType /\ entry.state = "pending" /\ entry.text = t BY <1>5 DEF RowType
<1> HIDE DEF entry
<1>8. /\ rows' \in [TimedRow -> RowType] /\ rows'[r] = entry
      /\ \A q \in TimedRow : q # r => rows'[q] = rows[q]
  BY <1>1, <1>2, <1>7 DEF RowsOk
<1>9. ~ C!Reserves(calls[i]) /\ \A j \in DOMAIN calls : ~ C!Reserves(calls[j])
  BY <1>1, <1>4 DEF C!Reserves
<1>10. rows[r].text = {} BY <1>1, <1>2 DEF RowsOk
<1>11. edit # None => edit.row # r /\ edit.row \in TimedRow
  <2>1. edit # None => rows[edit.row].state # None BY <1>2 DEF RowsOk, ComposerConstants
  <2> QED BY <1>1, <1>2, <2>1 DEF RowsOk
<1>12. C!ComposerInv'
  <2>1. Faded(calls, calls') BY <1>1, <1>5, MovedFades
  <2>2. Still BY <1>1, InvIs, DraftStands
  <2>3. RowsOk(rows', firing', edit')
    <3>1. edit # None => rows'[edit.row] = rows[edit.row] BY <1>8, <1>11
    <3>2. \A q \in TimedRow : rows'[q].state = None => rows'[q].text = {}
      BY <1>2, <1>7, <1>8 DEF RowsOk, ComposerConstants
    <3>3. RowsOk(rows', firing, edit) BY <1>2, <1>8, <3>1, <3>2 DEF RowsOk
    <3> QED BY <1>1, <3>3
  <2>4. \A q \in TimedRow : rows'[q].text \subseteq 1 .. typed BY <1>2, <1>6, <1>7, <1>8 DEF WordsOk
  <2>5. got' \in [C!Word -> Nat] /\ \A w \in C!Word : w > typed => got'[w] = 0
    BY <1>1, <1>2 DEF WordsOk
  <2>6. \A j \in DOMAIN calls : calls'[j].at = "failed" => calls[j].at = "failed" BY <1>5
  <2> QED BY <1>1, <2>1, <2>2, <2>3, <2>4, <2>5, <2>6, FadedInv
<1>13. C!Saved' = C!Saved BY <1>1, SavedIs
<1>14. Keeps => Keeps'
  <2>1. \A w \in t : C!Safe(w)' BY <1>7, <1>8, SafeIs
  <2>2. \A w : C!Safe(w) => C!Safe(w)'
    <3> SUFFICES ASSUME NEW w, NEW q \in TimedRow, rows[q].state # "gone", w \in rows[q].text
                 PROVE  \E x \in TimedRow : rows'[x].state # "gone" /\ w \in rows'[x].text
      BY <1>1, SafeIs
    <3> QED BY <1>8, <1>10
  <2>3. \A w : Flying(w) => C!Safe(w)' \/ Flying(w)' BY <1>5, <2>1 DEF Flying, t
  <2>4. \A j \in DOMAIN calls' : C!Reserves(calls'[j]) => \A w \in calls'[j].text : C!Safe(w)'
    BY <1>5, <1>9, <2>1 DEF C!Reserves, t
  <2> QED BY <1>1, <1>13, <2>2, <2>3, <2>4, KeepsOn
<1>15. ASSUME Onces PROVE Onces'
  <2> SUFFICES ASSUME NEW w \in C!Word, ~ C!Told(w)' PROVE C!InOnePlace(w)' BY Zenon DEF Onces
  <2>1. C!Told(w) => C!Told(w)' BY <1>1, <1>5, ToldIs
  <2>2. C!InOnePlace(w) BY <2>1, <1>15 DEF Onces
  <2>3. \A j \in DOMAIN calls' : C!InCall(w, j)' => j \in DOMAIN calls /\ C!InCall(w, j)
    BY <1>1, <1>5, InCallIs
  <2>4. \A q \in TimedRow : q # r /\ C!InRow(w, q)' => C!InRow(w, q) BY <1>1, <1>8, InRowIs
  <2>5. CASE w \in t
    <3>1. C!InDraft(w) BY <1>4, <1>9, <2>5, InDraftIs
    <3>2. got[w] = 0 /\ (\A j \in DOMAIN calls : ~ C!InCall(w, j))
          /\ \A q \in TimedRow : ~ C!InRow(w, q)
      BY <2>2, <3>1 DEF C!InOnePlace
    <3>3. C!Reserves(calls'[i]) BY <1>1, <1>5 DEF C!Reserves
    <3>4. ~ C!InDraft(w)' BY <1>5, <2>5, <3>3, InDraftIs DEF t
    <3> QED BY <1>1, <2>3, <2>4, <3>2, <3>4, NowInPlace
  <2>6. CASE w \notin t
    <3>1. ~ C!InRow(w, r)'
      <4>1. firing' # r BY <1>1 DEF ComposerConstants
      <4> QED BY <1>1, <1>7, <1>8, <1>11, <2>6, <4>1, InRowIs
    <3>2. \A q \in TimedRow : C!InRow(w, q)' => C!InRow(w, q) BY <2>4, <3>1
    <3>3. C!InDraft(w)' => C!InDraft(w) BY <1>9, <1>13, InDraftIs
    <3> QED BY <1>1, <2>2, <2>3, <3>2, <3>3, StaysInPlace
  <2> QED BY <2>5, <2>6
<1> QED BY <1>12, <1>14, <1>15 DEF Goal

-----------------------------------------------------------------------------
\* A step that settles calls, each for itself.
LEMMA EachSettles ==
  ASSUME NEW cs \in Seq(C!Call), NEW ds, ds = [i \in DOMAIN cs |-> ds[i]],
         \A i \in DOMAIN cs : ds[i] \in C!Call
  PROVE  ds \in Seq(C!Call) /\ DOMAIN ds = DOMAIN cs
<1>1. Len(cs) \in Nat /\ DOMAIN cs = 1 .. Len(cs) OBVIOUS
<1>2. ds \in [1 .. Len(cs) -> C!Call] BY <1>1
<1> QED BY <1>1, <1>2, SeqDef

LEMMA NothingCounted == C!Cardinality({}) = 0
<1>1. C!Cardinality({}) = Cardinality({}) BY DEF C!Cardinality, Cardinality
<1> QED BY <1>1, FS_EmptySet

LEMMA LeaveGoes ==
  ASSUME ComposerConstants, Calm, C!ComposerInv, C!leave
  PROVE  Goal
<1>1. /\ ~ C!Sending /\ ~ C!Booking
      /\ calls' = [i \in DOMAIN calls |->
                     [calls[i] EXCEPT !.at = IF @ \in {"told", "done"} THEN @ ELSE "done"]]
      /\ got' \in {got, [w \in C!Word |-> got[w] + C!Cardinality(
                     {i \in DOMAIN calls : /\ calls[i].kind = "send" /\ calls[i].at = "out"
                                           /\ w \in calls[i].text})]}
      /\ UNCHANGED <<env, rows, firing, edit, typed, dropped>>
  BY DEF C!leave, Calm
<1>2. /\ CallsOk(calls, env, C!Saved, pend) /\ got \in [C!Word -> Nat] /\ DraftNow
      /\ calls \in Seq(C!Call)
  BY InvIs DEF CallsOk, WordsOk
<1>3. Still BY <1>2, LeaveIs DEF Calm
<1>4. \A i \in DOMAIN calls : /\ calls[i].at \notin {"out", "accepted", "refused", "failed"}
                              /\ calls[i].at = "asked" => calls[i].text = C!Saved
  <2>1. \A i \in DOMAIN calls : ~ C!Goes(calls[i]) BY <1>1, <1>2, NotSending
  <2>2. \A i \in DOMAIN calls :
           ~ (calls[i].kind = "book" /\ calls[i].at \in {"out", "accepted", "refused", "failed"})
    BY <1>1, <1>2, NotBooking
  <2>3. \A i \in DOMAIN calls : calls[i].kind \in {"send", "book"} BY <1>2, CallIs
  <2>4. \A i \in DOMAIN calls : calls[i].at = "asked" => calls[i].text = C!Saved
    BY <1>2 DEF CallsOk, C!Rests
  <2> QED BY <2>1, <2>2, <2>3, <2>4 DEF C!Goes
<1>5. got' = got
  <2> DEFINE more == [w \in C!Word |-> got[w] + C!Cardinality(
                     {i \in DOMAIN calls : /\ calls[i].kind = "send" /\ calls[i].at = "out"
                                           /\ w \in calls[i].text})]
  <2>1. ASSUME NEW w \in C!Word PROVE more[w] = got[w]
    <3>1. {i \in DOMAIN calls : /\ calls[i].kind = "send" /\ calls[i].at = "out"
                                /\ w \in calls[i].text} = {}
      BY <1>4
    <3>2. more[w] = got[w] + C!Cardinality({}) BY <3>1
    <3> QED BY <1>2, <3>2, NothingCounted
  <2>2. more = [w \in C!Word |-> more[w]] BY DEF more
  <2> HIDE DEF more
  <2>3. more = got BY <1>2, <2>1, <2>2
  <2> QED BY <1>1, <2>3 DEF more
<1>6. \A i \in DOMAIN calls :
         /\ calls'[i] \in C!Call /\ calls'[i].kind = calls[i].kind /\ calls'[i].box = calls[i].box
         /\ calls'[i].text = calls[i].text
         /\ calls'[i].at = IF calls[i].at \in {"told", "done"} THEN calls[i].at ELSE "done"
  <2> SUFFICES ASSUME NEW i \in DOMAIN calls
               PROVE  /\ calls'[i] \in C!Call /\ calls'[i].kind = calls[i].kind
                      /\ calls'[i].box = calls[i].box /\ calls'[i].text = calls[i].text
                      /\ calls'[i].at = IF calls[i].at \in {"told", "done"} THEN calls[i].at
                                        ELSE "done"
    BY Zenon
  <2>1. calls'[i] = [calls[i] EXCEPT !.at = IF @ \in {"told", "done"} THEN @ ELSE "done"] BY <1>1
  <2>2. calls[i] \in C!Call BY <1>2
  <2> QED BY <2>1, <2>2 DEF C!Call
<1>7. calls' \in Seq(C!Call) /\ DOMAIN calls' = DOMAIN calls
  <2>1. calls' = [i \in DOMAIN calls |-> calls'[i]] BY <1>1
  <2> QED BY <1>2, <1>6, <2>1, EachSettles
<1>8. Faded(calls, calls') BY <1>4, <1>6, <1>7 DEF Faded, C!Rests, C!Goes
<1>9. FadesWell BY <1>4, <1>6 DEF FadesWell, C!Reserves
<1> QED BY <1>1, <1>3, <1>5, <1>8, <1>9, FadeGoes

LEMMA CrashGoes ==
  ASSUME ComposerConstants, Calm, C!ComposerInv, C!crash
  PROVE  Goal
<1>1. /\ "ahead" \notin env /\ firing' = None
      /\ calls' = [i \in DOMAIN calls |->
                     [calls[i] EXCEPT !.at = IF @ = "out" THEN "failed" ELSE @]]
      /\ UNCHANGED <<env, shown, pend, stored, rows, edit, typed, got, dropped>>
  BY DEF C!crash, Calm
<1>2. calls \in Seq(C!Call) BY InvIs DEF CallsOk
<1>3. \A i \in DOMAIN calls :
         /\ calls'[i] \in C!Call /\ calls'[i].kind = calls[i].kind /\ calls'[i].box = calls[i].box
         /\ calls'[i].text = calls[i].text
         /\ calls'[i].at = IF calls[i].at = "out" THEN "failed" ELSE calls[i].at
  <2> SUFFICES ASSUME NEW i \in DOMAIN calls
               PROVE  /\ calls'[i] \in C!Call /\ calls'[i].kind = calls[i].kind
                      /\ calls'[i].box = calls[i].box /\ calls'[i].text = calls[i].text
                      /\ calls'[i].at = IF calls[i].at = "out" THEN "failed" ELSE calls[i].at
    BY Zenon
  <2>1. calls'[i] = [calls[i] EXCEPT !.at = IF @ = "out" THEN "failed" ELSE @] BY <1>1
  <2>2. calls[i] \in C!Call BY <1>2
  <2> QED BY <2>1, <2>2 DEF C!Call
<1>4. calls' \in Seq(C!Call) /\ DOMAIN calls' = DOMAIN calls
  <2>1. calls' = [i \in DOMAIN calls |-> calls'[i]] BY <1>1
  <2> QED BY <1>2, <1>3, <2>1, EachSettles
<1>5. Faded(calls, calls') BY <1>3, <1>4 DEF Faded, C!Rests, C!Goes
<1>6. FadesWell BY <1>1, <1>3 DEF FadesWell, C!Reserves
<1>7. Still BY <1>1, InvIs, DraftStands
<1> QED BY <1>1, <1>5, <1>6, <1>7, FadeGoes

-----------------------------------------------------------------------------
\* A step of the reservations or of their editor: the draft and the calls stand.
RowsGo ==
  /\ UNCHANGED <<env, shown, pend, stored, calls>>
  /\ RowsOk(rows', firing', edit') /\ typed' \in typed .. MaxWords
  /\ \A r \in TimedRow : rows'[r].text \subseteq 1 .. typed'
  /\ edit' # None => edit'.text \subseteq 1 .. typed'
  /\ got' \in [C!Word -> Nat] /\ \A w \in C!Word : w > typed' => got'[w] = 0
  /\ dropped' \in C!Text
  /\ \A w \in C!Word : C!Safe(w) => C!Safe(w)'
  /\ \A w \in 1 .. typed' : w \in 1 .. typed \/ C!Safe(w)'

\* What becomes of a word: as before, or it is in no other place, and comes to
\* one row at most or to the session for the first time.
WordGoes(w) ==
  \/ got'[w] = got[w] /\ \A r \in TimedRow : C!InRow(w, r)' => C!InRow(w, r)
  \/ /\ ~ C!InDraft(w) /\ \A i \in DOMAIN calls : ~ C!InCall(w, i)
     /\ \/ got'[w] =< 1 /\ \A r \in TimedRow : ~ C!InRow(w, r)'
        \/ got'[w] = 0 /\ \E q \in TimedRow : \A r \in TimedRow : C!InRow(w, r)' => r = q

LEMMA RowsGoWell ==
  ASSUME ComposerConstants, C!ComposerInv, RowsGo,
         \A w \in C!Word : C!InOnePlace(w) => WordGoes(w)
  PROVE  Goal
<1>1. /\ DraftNow /\ CallsOk(calls, env, C!Saved, pend)
      /\ WordsOk(C!Saved, calls, rows, edit, typed, got, dropped) /\ env \in ComposerEnvs
  BY InvIs
<1>2. /\ UNCHANGED <<env, shown, pend, stored, calls>> /\ RowsOk(rows', firing', edit')
  BY DEF RowsGo
<1>3. C!Saved' = C!Saved /\ DraftIs(pend', stored', shown') BY <1>1, <1>2, DraftStands DEF Still
<1>4. /\ typed \in 0 .. MaxWords /\ typed' \in 0 .. MaxWords /\ 1 .. typed \subseteq 1 .. typed'
      /\ 1 .. typed \subseteq C!Word /\ 1 .. typed' \subseteq C!Word
  BY <1>1 DEF RowsGo, WordsOk, C!Word, ComposerConstants
<1>5. C!ComposerInv'
  <2>1. CallsOk(calls', env', C!Saved', pend') BY <1>1, <1>2, <1>3
  <2>2. WordsOk(C!Saved', calls', rows', edit', typed', got', dropped')
    <3>1. C!Saved \subseteq 1 .. typed' BY <1>1, <1>4 DEF WordsOk
    <3>2. \A i \in DOMAIN calls : calls[i].text \subseteq 1 .. typed' BY <1>1, <1>4 DEF WordsOk
    <3>3. WordsOk(C!Saved, calls, rows', edit', typed', got', dropped')
      BY <1>4, <3>1, <3>2 DEF RowsGo, WordsOk
    <3> QED BY <1>2, <1>3, <3>3
  <2> QED BY <1>1, <1>2, <1>3, <2>1, <2>2, InvIs
<1>6. ASSUME Keeps PROVE Keeps'
  <2>1. \A w : Flying(w) => Flying(w)' BY <1>2 DEF Flying
  <2>2. \A w \in C!Word : C!Safe(w) => C!Safe(w)' BY DEF RowsGo
  <2>3. \A i \in DOMAIN calls : calls[i].text \subseteq C!Word BY <1>1, <1>4 DEF WordsOk
  <2>4. \A i \in DOMAIN calls' : C!Reserves(calls'[i]) => \A w \in calls'[i].text : C!Safe(w)'
    BY <1>2, <1>6, <2>2, <2>3 DEF Keeps
  <2>5. \A w \in 1 .. typed' : C!Safe(w)' \/ w \in C!Saved' \/ Flying(w)'
    BY <1>3, <1>4, <1>6, <2>1, <2>2 DEF Keeps, RowsGo
  <2> QED BY <2>4, <2>5, Zenon DEF Keeps
<1>7. ASSUME Onces PROVE Onces'
  <2> SUFFICES ASSUME NEW w \in C!Word, ~ C!Told(w)' PROVE C!InOnePlace(w)' BY Zenon DEF Onces
  <2>1. C!Told(w) => C!Told(w)' BY <1>2, ToldIs
  <2>2. C!InOnePlace(w) BY <2>1, <1>7 DEF Onces
  <2>3. C!InDraft(w)' => C!InDraft(w) BY <1>2, <1>3, InDraftIs
  <2>4. \A i \in DOMAIN calls' : C!InCall(w, i)' => i \in DOMAIN calls /\ C!InCall(w, i)
    BY <1>2, InCallIs
  <2>5. WordGoes(w) BY <2>2
  <2>6. CASE got'[w] = got[w] /\ \A r \in TimedRow : C!InRow(w, r)' => C!InRow(w, r)
    BY <2>2, <2>3, <2>4, <2>6, StaysInPlace
  <2>7. CASE /\ ~ C!InDraft(w) /\ \A i \in DOMAIN calls : ~ C!InCall(w, i)
             /\ got'[w] =< 1 /\ \A r \in TimedRow : ~ C!InRow(w, r)'
    BY <2>3, <2>4, <2>7, NowInPlace
  <2>8. CASE /\ ~ C!InDraft(w) /\ \A i \in DOMAIN calls : ~ C!InCall(w, i)
             /\ got'[w] = 0
             /\ \E q \in TimedRow : \A r \in TimedRow : C!InRow(w, r)' => r = q
    <3>1. PICK q \in TimedRow : \A r \in TimedRow : C!InRow(w, r)' => r = q BY <2>8
    <3> QED BY <2>3, <2>4, <2>8, <3>1, NowInPlace
  <2> QED BY <2>5, <2>6, <2>7, <2>8 DEF WordGoes
<1> QED BY <1>5, <1>6, <1>7 DEF Goal

\* The facts about the rows that the steps below start from.
LEMMA RowsNow ==
  ASSUME ComposerConstants, C!ComposerInv
  PROVE  /\ rows \in [TimedRow -> RowType] /\ firing \in TimedRow \cup {None}
         /\ edit \in [row : TimedRow, text : C!Text] \cup {None}
         /\ edit # None => /\ rows[edit.row].text \subseteq edit.text
                           /\ rows[edit.row].state \in {"pending", "sent"}
                           /\ edit.row \in TimedRow /\ edit.text \in C!Text
                           /\ edit.text \subseteq 1 .. typed
                           /\ edit \in [row : TimedRow, text : C!Text]
         /\ firing # None => rows[firing].state = "sent"
         /\ \A r \in TimedRow : /\ rows[r].state = None => rows[r].text = {}
                                /\ rows[r] \in RowType /\ rows[r].text \in C!Text
                                /\ rows[r].text \subseteq 1 .. typed
         /\ typed \in 0 .. MaxWords /\ typed \in typed .. MaxWords /\ typed \in Nat /\ MaxWords \in Nat
         /\ got \in [C!Word -> Nat] /\ \A w \in C!Word : w > typed => got[w] = 0
         /\ dropped \in C!Text /\ C!Saved \subseteq 1 .. typed
         /\ \A i \in DOMAIN calls : calls[i].text \subseteq 1 .. typed
<1>1. RowsOk(rows, firing, edit) /\ WordsOk(C!Saved, calls, rows, edit, typed, got, dropped)
  BY InvIs
<1>2. edit # None => edit \in [row : TimedRow, text : C!Text] BY <1>1 DEF RowsOk
<1>3. edit # None => edit.row \in TimedRow /\ edit.text \in C!Text BY <1>2
<1>4. \A r \in TimedRow : rows[r] \in RowType BY <1>1 DEF RowsOk
<1>5. \A r \in TimedRow : rows[r].text \in C!Text BY <1>4 DEF RowType
<1>6. typed \in 0 .. MaxWords /\ typed \in typed .. MaxWords /\ typed \in Nat /\ MaxWords \in Nat
  BY <1>1 DEF WordsOk, ComposerConstants
<1> QED BY <1>1, <1>2, <1>3, <1>4, <1>5, <1>6 DEF RowsOk, WordsOk

\* Steps after which no more than before is to be sent.
LEMMA RowsFade ==
  ASSUME ComposerConstants, C!ComposerInv, RowsGo, got' = got,
         \A w \in C!Word : \A r \in TimedRow : C!InRow(w, r)' => C!InRow(w, r)
  PROVE  Goal
<1>1. \A w \in C!Word : WordGoes(w) BY DEF WordGoes
<1> QED BY <1>1, RowsGoWell

LEMMA RowBecomes ==
  ASSUME rows \in [TimedRow -> RowType], NEW r \in TimedRow, NEW x \in RowType,
         rows' = [rows EXCEPT ![r] = x]
  PROVE  /\ rows' \in [TimedRow -> RowType] /\ rows'[r] = x
         /\ \A q \in TimedRow : q # r => rows'[q] = rows[q]
OBVIOUS

LEMMA CancelGoes ==
  ASSUME ComposerConstants, C!ComposerInv, NEW r \in TimedRow, firing = None,
         C!handleCancelScheduledMessage(r)
  PROVE  Goal
<1> DEFINE x == [rows[r] EXCEPT !.state = "gone"]
<1>1. /\ rows[r].state = "pending" /\ edit = None /\ rows' = [rows EXCEPT ![r].state = "gone"]
      /\ dropped' = dropped \cup rows[r].text
      /\ UNCHANGED <<env, shown, pend, stored, calls, firing, edit, typed, got>>
  BY DEF C!handleCancelScheduledMessage
<1>2. x \in RowType /\ x.state = "gone" /\ x.text = rows[r].text BY RowsNow DEF RowType
<1>3. rows' = [rows EXCEPT ![r] = x] BY <1>1
<1> HIDE DEF x
<1>4. /\ rows' \in [TimedRow -> RowType] /\ rows'[r] = x
      /\ \A q \in TimedRow : q # r => rows'[q] = rows[q]
  BY <1>2, <1>3, RowsNow, RowBecomes
<1>5. \A q \in TimedRow : rows'[q].text = rows[q].text BY <1>2, <1>4
<1>6. RowsOk(rows', firing', edit')
  <2>1. \A q \in TimedRow : rows'[q].state = None => rows'[q].text = {}
    BY <1>2, <1>4, RowsNow DEF ComposerConstants
  <2> QED BY <1>1, <1>4, <2>1 DEF RowsOk
<1>7. \A w : C!Safe(w) => C!Safe(w)'
  <2> SUFFICES ASSUME NEW w, NEW q \in TimedRow, rows[q].state # "gone", w \in rows[q].text
               PROVE  \/ w \in dropped'
                      \/ \E y \in TimedRow : rows'[y].state # "gone" /\ w \in rows'[y].text
    BY <1>1, SafeIs
  <2> QED BY <1>1, <1>4
<1>8. dropped' \in C!Text BY <1>1, RowsNow DEF C!Text
<1>9. RowsGo BY <1>1, <1>5, <1>6, <1>7, <1>8, RowsNow DEF RowsGo
<1>10. \A w \in C!Word : \A q \in TimedRow : C!InRow(w, q)' => C!InRow(w, q)
  <2> SUFFICES ASSUME NEW w \in C!Word, NEW q \in TimedRow, C!InRow(w, q)' PROVE C!InRow(w, q)
    OBVIOUS
  <2>1. q # r
    <3>1. firing' # r BY <1>1 DEF ComposerConstants
    <3> QED BY <1>2, <1>4, <3>1, InRowIs
  <2> QED BY <1>1, <1>4, <2>1, InRowIs
<1> QED BY <1>1, <1>9, <1>10, RowsFade

LEMMA EditOpens ==
  ASSUME ComposerConstants, C!ComposerInv, NEW r \in TimedRow, C!openScheduledEdit(r)
  PROVE  Goal
<1>1. /\ rows[r].state = "pending" /\ edit = None /\ edit' = [row |-> r, text |-> rows[r].text]
      /\ UNCHANGED <<env, shown, pend, stored, calls, rows, firing, typed, got, dropped>>
  BY DEF C!openScheduledEdit
<1>2. /\ edit' \in [row : TimedRow, text : C!Text] /\ edit'.row = r /\ edit'.text = rows[r].text
      /\ edit' # None
  BY <1>1, RowsNow DEF ComposerConstants
<1>3. RowsOk(rows', firing', edit') BY <1>1, <1>2, RowsNow DEF RowsOk
<1>4. \A w : C!Safe(w) => C!Safe(w)' BY <1>1, SafeIs
<1>5. RowsGo BY <1>1, <1>2, <1>3, <1>4, RowsNow DEF RowsGo
<1>6. \A w \in C!Word : \A q \in TimedRow : C!InRow(w, q)' => C!InRow(w, q)
  BY <1>1, <1>2, InRowIs
<1> QED BY <1>1, <1>5, <1>6, RowsFade

LEMMA EditTyped ==
  ASSUME ComposerConstants, C!ComposerInv, C!typeInEdit
  PROVE  Goal
<1> DEFINE n == typed + 1
<1>1. /\ edit # None /\ typed < MaxWords /\ edit' = [edit EXCEPT !.text = @ \cup {n}]
      /\ typed' = n
      /\ UNCHANGED <<env, shown, pend, stored, calls, rows, firing, got, dropped>>
  BY DEF C!typeInEdit
<1>2. /\ n \in Nat /\ n > typed /\ n \in C!Word /\ typed' \in typed .. MaxWords
      /\ 1 .. typed' = 1 .. typed \cup {n} /\ n \notin 1 .. typed /\ 1 .. typed \subseteq C!Word
  BY <1>1, RowsNow DEF C!Word
<1> HIDE DEF n
<1>3. /\ edit' \in [row : TimedRow, text : C!Text] /\ edit'.row = edit.row
      /\ edit'.text = edit.text \cup {n} /\ edit' # None
  <2>1. edit.text \cup {n} \in C!Text BY <1>1, <1>2, RowsNow DEF C!Text
  <2>2. edit \in [row : TimedRow, text : C!Text] BY <1>1, RowsNow
  <2>3. /\ edit' \in [row : TimedRow, text : C!Text] /\ edit'.row = edit.row
        /\ edit'.text = edit.text \cup {n}
    BY <1>1, <2>1, <2>2
  <2> QED BY <2>3 DEF ComposerConstants
<1>4. RowsOk(rows', firing', edit') BY <1>1, <1>3, RowsNow DEF RowsOk
<1>5. \A w : C!Safe(w) => C!Safe(w)' BY <1>1, <1>3, SafeIs
<1>6. \A w \in 1 .. typed' : w \in 1 .. typed \/ C!Safe(w)' BY <1>2, <1>3, SafeIs
<1>7. /\ \A r \in TimedRow : rows'[r].text \subseteq 1 .. typed' BY <1>1, <1>2, RowsNow
<1>8. edit'.text \subseteq 1 .. typed' BY <1>1, <1>2, <1>3, RowsNow
<1>9. \A w \in C!Word : w > typed' => got'[w] = 0 BY <1>1, <1>2, RowsNow DEF C!Word
<1>10. RowsGo BY <1>1, <1>2, <1>4, <1>5, <1>6, <1>7, <1>8, <1>9, RowsNow DEF RowsGo
<1>11. ASSUME NEW w \in C!Word PROVE WordGoes(w)
  <2>1. CASE w # n
    <3>1. \A r \in TimedRow : C!InRow(w, r)' => C!InRow(w, r) BY <1>1, <1>3, <2>1, InRowIs
    <3> QED BY <1>1, <3>1 DEF WordGoes
  <2>2. CASE w = n
    <3>1. ~ C!InDraft(w) BY <1>2, <2>2, RowsNow, InDraftIs
    <3>2. \A i \in DOMAIN calls : ~ C!InCall(w, i) BY <1>2, <2>2, RowsNow, InCallIs
    <3>3. got'[w] = 0 BY <1>1, <1>2, <2>2, RowsNow
    <3>4. \A r \in TimedRow : w \notin rows'[r].text BY <1>1, <1>2, <2>2, RowsNow
    <3>5. \A r \in TimedRow : C!InRow(w, r)' => r = edit.row BY <1>3, <3>4, InRowIs
    <3>6. edit.row \in TimedRow BY <1>1, RowsNow
    <3> QED BY <3>1, <3>2, <3>3, <3>5, <3>6 DEF WordGoes
  <2> QED BY <2>1, <2>2
<1> QED BY <1>10, <1>11, RowsGoWell

LEMMA EditClosed ==
  ASSUME ComposerConstants, C!ComposerInv, C!closeEdit
  PROVE  Goal
<1>1. /\ edit # None /\ edit' = None /\ dropped' = dropped \cup edit.text
      /\ UNCHANGED <<env, shown, pend, stored, calls, rows, firing, typed, got>>
  BY DEF C!closeEdit
<1>2. RowsOk(rows', firing', edit') BY <1>1, RowsNow DEF RowsOk
<1>3. \A w : C!Safe(w) => C!Safe(w)' BY <1>1, SafeIs
<1>4. dropped' \in C!Text BY <1>1, RowsNow DEF C!Text
<1>5. RowsGo BY <1>1, <1>2, <1>3, <1>4, RowsNow DEF RowsGo
<1>6. \A w \in C!Word : \A q \in TimedRow : C!InRow(w, q)' => C!InRow(w, q) BY <1>1, InRowIs
<1> QED BY <1>1, <1>5, <1>6, RowsFade

LEMMA EditSaved ==
  ASSUME ComposerConstants, C!ComposerInv, firing = None, C!handleUpdateScheduledMessage
  PROVE  Goal
<1> DEFINE r == edit.row
           x == [rows[r] EXCEPT !.text = edit.text, !.due = FALSE]
<1>1. /\ edit # None /\ rows[r].state = "pending"
      /\ rows' = [rows EXCEPT ![r].text = edit.text, ![r].due = FALSE]
      /\ edit' \in {edit, None}
      /\ UNCHANGED <<env, shown, pend, stored, calls, firing, typed, got, dropped>>
  BY DEF C!handleUpdateScheduledMessage
<1>2. r \in TimedRow /\ x \in RowType /\ x.state = "pending" /\ x.text = edit.text
  BY <1>1, RowsNow DEF RowType
<1>3. rows' = [rows EXCEPT ![r] = x] BY <1>1, <1>2, RowsNow
<1> HIDE DEF x, r
<1>4. /\ rows' \in [TimedRow -> RowType] /\ rows'[r] = x
      /\ \A q \in TimedRow : q # r => rows'[q] = rows[q]
  BY <1>2, <1>3, RowsNow, RowBecomes
<1>5. RowsOk(rows', firing', edit')
  <2>1. \A q \in TimedRow : rows'[q].state = None => rows'[q].text = {}
    BY <1>2, <1>4, RowsNow DEF ComposerConstants
  <2>2. edit' # None => edit' = edit /\ rows'[edit.row].text \subseteq edit.text
                        /\ rows'[edit.row].state \in {"pending", "sent"}
    BY <1>1, <1>2, <1>4 DEF r
  <2> QED BY <1>1, <1>4, <2>1, <2>2, RowsNow DEF RowsOk
<1>6. \A q \in TimedRow : rows'[q].text \subseteq 1 .. typed BY <1>1, <1>2, <1>4, RowsNow
<1>7. \A w : C!Safe(w) => C!Safe(w)'
  <2>1. \A w \in edit.text : C!Safe(w)' BY <1>2, <1>4, SafeIs
  <2>2. ASSUME NEW w, NEW q \in TimedRow, rows[q].state # "gone", w \in rows[q].text
        PROVE  C!Safe(w)'
    <3>1. CASE q = r BY <1>1, <2>1, <2>2, <3>1, RowsNow DEF r
    <3>2. CASE q # r BY <1>4, <2>2, <3>2, SafeIs
    <3> QED BY <3>1, <3>2
  <2> QED BY <1>1, <2>1, <2>2, SafeIs
<1>8. RowsGo BY <1>1, <1>5, <1>6, <1>7, RowsNow DEF RowsGo
<1>9. \A w \in C!Word : \A q \in TimedRow : C!InRow(w, q)' => C!InRow(w, q)
  <2> SUFFICES ASSUME NEW w \in C!Word, NEW q \in TimedRow, C!InRow(w, q)' PROVE C!InRow(w, q)
    OBVIOUS
  <2>1. firing # q /\ firing' # q BY <1>1 DEF ComposerConstants
  <2>2. CASE q = r
    <3>1. w \in edit.text BY <1>1, <1>2, <1>4, <2>1, <2>2, InRowIs
    <3> QED BY <1>1, <2>2, <3>1, InRowIs DEF r
  <2>3. CASE q # r BY <1>1, <1>4, <2>1, <2>3, InRowIs DEF r
  <2> QED BY <2>2, <2>3
<1> QED BY <1>1, <1>8, <1>9, RowsFade

LEMMA TimeGoes ==
  ASSUME ComposerConstants, C!ComposerInv, NEW r \in TimedRow, C!timePasses(r)
  PROVE  Goal
<1> DEFINE x == [rows[r] EXCEPT !.due = TRUE]
<1>1. /\ rows[r].state = "pending" /\ rows' = [rows EXCEPT ![r].due = TRUE]
      /\ UNCHANGED <<env, shown, pend, stored, calls, firing, edit, typed, got, dropped>>
  BY DEF C!timePasses
<1>2. x \in RowType /\ x.state = "pending" /\ x.text = rows[r].text
  BY <1>1, RowsNow DEF RowType
<1>3. rows' = [rows EXCEPT ![r] = x] BY <1>1
<1> HIDE DEF x
<1>4. /\ rows' \in [TimedRow -> RowType] /\ rows'[r] = x
      /\ \A q \in TimedRow : q # r => rows'[q] = rows[q]
  BY <1>2, <1>3, RowsNow, RowBecomes
<1>5. \A q \in TimedRow : rows'[q].text = rows[q].text /\ rows'[q].state = rows[q].state
  BY <1>1, <1>2, <1>4
<1>6. RowsOk(rows', firing', edit') BY <1>1, <1>4, <1>5, RowsNow DEF RowsOk
<1>7. RowsAlike BY <1>1, <1>5, <1>6 DEF RowsAlike
<1>8. \A w : C!Safe(w) => C!Safe(w)' BY <1>1, <1>7, AlikeIs
<1>9. RowsGo BY <1>1, <1>5, <1>6, <1>8, RowsNow DEF RowsGo
<1> QED BY <1>1, <1>7, <1>9, AlikeIs, RowsFade

LEMMA FireGoes ==
  ASSUME ComposerConstants, C!ComposerInv, NEW r \in TimedRow, C!fireDueScheduledMessages(r)
  PROVE  Goal
<1> DEFINE x == [rows[r] EXCEPT !.state = "sent"]
<1>1. /\ firing = None /\ rows[r].state = "pending" /\ rows' = [rows EXCEPT ![r].state = "sent"]
      /\ firing' = r
      /\ UNCHANGED <<env, shown, pend, stored, calls, edit, typed, got, dropped>>
  BY DEF C!fireDueScheduledMessages
<1>2. x \in RowType /\ x.state = "sent" /\ x.text = rows[r].text BY RowsNow DEF RowType
<1>3. rows' = [rows EXCEPT ![r] = x] BY <1>1
<1> HIDE DEF x
<1>4. /\ rows' \in [TimedRow -> RowType] /\ rows'[r] = x
      /\ \A q \in TimedRow : q # r => rows'[q] = rows[q]
  BY <1>2, <1>3, RowsNow, RowBecomes
<1>5. \A q \in TimedRow : rows'[q].text = rows[q].text BY <1>2, <1>4
<1>6. RowsOk(rows', firing', edit')
  <2>1. \A q \in TimedRow : rows'[q].state = None => rows'[q].text = {}
    BY <1>2, <1>4, RowsNow DEF ComposerConstants
  <2>2. edit # None => rows'[edit.row].state \in {"pending", "sent"} BY <1>2, <1>4, RowsNow
  <2>3. rows'[r].state = "sent" BY <1>2, <1>4
  <2> QED BY <1>1, <1>4, <1>5, <2>1, <2>2, <2>3, RowsNow DEF RowsOk
<1>7. \A w : C!Safe(w) => C!Safe(w)'
  <2> SUFFICES ASSUME NEW w, NEW q \in TimedRow, rows[q].state # "gone", w \in rows[q].text
               PROVE  \E y \in TimedRow : rows'[y].state # "gone" /\ w \in rows'[y].text
    BY <1>1, SafeIs
  <2> QED BY <1>2, <1>4
<1>8. RowsGo BY <1>1, <1>5, <1>6, <1>7, RowsNow DEF RowsGo
<1>9. \A w \in C!Word : \A q \in TimedRow : C!InRow(w, q)' => C!InRow(w, q)
  <2> SUFFICES ASSUME NEW w \in C!Word, NEW q \in TimedRow, C!InRow(w, q)' PROVE C!InRow(w, q)
    OBVIOUS
  <2>1. CASE q = r BY <1>1, <1>2, <1>4, <2>1, InRowIs
  <2>2. CASE q # r BY <1>1, <1>4, <2>2, InRowIs
  <2> QED BY <2>1, <2>2
<1> QED BY <1>1, <1>8, <1>9, RowsFade

LEMMA FiredGoes ==
  ASSUME ComposerConstants, C!ComposerInv, C!submitFired
  PROVE  Goal
<1> DEFINE t == rows[firing].text
<1>1. /\ firing # None /\ firing' = None
      /\ UNCHANGED <<env, shown, pend, stored, calls, rows, edit, typed, dropped>>
  BY DEF C!submitFired
<1>2. firing \in TimedRow /\ rows[firing].state = "sent" /\ t \subseteq 1 .. typed
      /\ t \subseteq C!Word /\ 1 .. typed \subseteq C!Word
  BY <1>1, RowsNow DEF C!Word
<1>3. RowsOk(rows', firing', edit') BY <1>1, RowsNow DEF RowsOk
<1>4. \A w : \A q \in TimedRow : C!InRow(w, q)' => C!InRow(w, q) /\ q # firing
  <2> SUFFICES ASSUME NEW w, NEW q \in TimedRow, C!InRow(w, q)' PROVE C!InRow(w, q) /\ q # firing
    OBVIOUS
  <2>1. firing' # q BY <1>1 DEF ComposerConstants
  <2> QED BY <1>1, <1>2, <2>1, InRowIs
<1>5. CASE got' = got
  <2>1. \A w : C!Safe(w) => C!Safe(w)' BY <1>1, <1>5, SafeIs
  <2>2. RowsGo BY <1>1, <1>3, <1>5, <2>1, RowsNow DEF RowsGo
  <2> QED BY <1>4, <1>5, <2>2, RowsFade
<1>6. CASE C!deliver(t)
  <2> HIDE DEF t
  <2>1. /\ got \in [C!Word -> Nat] /\ got' \in [C!Word -> Nat]
        /\ \A w \in C!Word : got'[w] = IF w \in t THEN got[w] + 1 ELSE got[w]
    BY <1>6, RowsNow, DeliverIs
  <2>2. \A w \in C!Word : C!Safe(w) => C!Safe(w)' BY <1>1, <1>2, <1>6, DeliverSafe
  <2>3. \A w \in C!Word : w > typed => w \notin t
    <3>1. \A w \in t : w \in 1 .. typed BY <1>2
    <3>2. typed \in Nat BY RowsNow
    <3> QED BY <3>1, <3>2
  <2>4. \A w \in C!Word : w > typed => got'[w] = 0 BY <2>1, <2>3, RowsNow
  <2>5. RowsGo BY <1>1, <1>3, <2>1, <2>2, <2>4, RowsNow DEF RowsGo
  <2>6. ASSUME NEW w \in C!Word, C!InOnePlace(w) PROVE WordGoes(w)
    <3>1. CASE w \notin t BY <1>4, <2>1, <3>1 DEF WordGoes
    <3>2. CASE w \in t
      <4>1. C!InRow(w, firing) BY <1>2, <3>2, InRowIs DEF t
      <4>2. got[w] = 0 /\ \A q \in TimedRow : C!InRow(w, q) => q = firing
        BY <1>2, <2>6, <4>1, Zenon DEF C!InOnePlace
      <4>3. ~ C!InDraft(w) /\ \A i \in DOMAIN calls : ~ C!InCall(w, i)
        BY <1>2, <2>6, <4>1, Zenon DEF C!InOnePlace
      <4>4. got'[w] =< 1 BY <2>1, <3>2, <4>2
      <4>5. \A q \in TimedRow : ~ C!InRow(w, q)' BY <1>4, <4>2
      <4> QED BY <4>3, <4>4, <4>5 DEF WordGoes
    <3> QED BY <3>1, <3>2
  <2> QED BY <2>5, <2>6, RowsGoWell
<1> QED BY <1>5, <1>6 DEF C!submitFired

-----------------------------------------------------------------------------
LEMMA HeardGoes ==
  ASSUME C!ComposerInv, C!heard
  PROVE  Goal
<1>1. UNCHANGED <<env, shown, pend, stored, calls, rows, firing, edit, typed, got, dropped>>
  BY DEF C!heard
<1>2. Still BY <1>1, InvIs, DraftStands
<1> QED BY <1>1, <1>2, NothingMoves

LEMMA DraftGoes ==
  ASSUME ComposerConstants, Calm, C!ComposerInv, NEW b \in Box, C!flush \/ C!open(b) \/ C!close(b)
  PROVE  Goal
<1>1. DraftNow BY InvIs
<1>2. CASE C!flush
  <2>1. UNCHANGED <<env, calls, rows, firing, edit, typed, got, dropped>> BY <1>2 DEF C!flush
  <2> QED BY <1>1, <1>2, <2>1, FlushIs, NothingMoves
<1>3. CASE C!open(b)
  <2>1. UNCHANGED <<env, calls, rows, firing, edit, typed, got, dropped>> BY <1>3 DEF C!open
  <2> QED BY <1>1, <1>3, <2>1, OpenIs, NothingMoves DEF Calm
<1>4. CASE C!close(b)
  <2>1. UNCHANGED <<env, calls, rows, firing, edit, typed, got, dropped>> BY <1>4 DEF C!close
  <2> QED BY <1>1, <1>4, <2>1, CloseIs, NothingMoves
<1> QED BY <1>2, <1>3, <1>4

LEMMA ComposerStep ==
  ASSUME ComposerConstants, Unrushed, C!ComposerInv, C!Next
  PROVE  Goal
<1>1. Calm BY InvIs DEF Unrushed, Calm
<1>2. ASSUME NEW b \in Box, C!type(b) PROVE Goal BY <1>1, <1>2, TypeGoes
<1>3. ASSUME NEW b \in Box, C!open(b) \/ C!close(b) PROVE Goal BY <1>1, <1>3, DraftGoes
<1>4. ASSUME NEW b \in Box, C!send(b) PROVE Goal BY <1>1, <1>4, SendAsks, SendGoes
<1>5. ASSUME NEW b \in Box, C!schedule(b) PROVE Goal BY <1>1, <1>5, ScheduleGoes
<1>6. CASE C!flush
  <2>1. DraftNow /\ UNCHANGED <<env, calls, rows, firing, edit, typed, got, dropped>>
    BY <1>6, InvIs DEF C!flush
  <2> QED BY <1>6, <2>1, FlushIs, NothingMoves
<1>7. CASE C!leave BY <1>1, <1>7, LeaveGoes
<1>8. ASSUME NEW p \in BOOLEAN, C!choose(p) PROVE Goal
  <2>1. CASE p = TRUE BY <1>8, <2>1, ChooseGoes
  <2>2. CASE p = FALSE BY <1>8, <2>2, ChooseNot
  <2> QED BY <2>1, <2>2
<1>9. ASSUME NEW i \in DOMAIN calls, C!lose(i) PROVE Goal BY <1>1, <1>9, LoseGoes
<1>10. ASSUME NEW i \in DOMAIN calls, C!sendAnswered(i) PROVE Goal BY <1>10, SendDone, SendFailed
<1>11. ASSUME NEW i \in DOMAIN calls, C!scheduleAnswered(i) PROVE Goal
  BY <1>11, ScheduleTaken, ScheduleFailed
<1>12. ASSUME NEW i \in DOMAIN calls, C!submitAnswer(i) PROVE Goal BY <1>12, SubmitGoes
<1>13. ASSUME NEW i \in DOMAIN calls, NEW r \in TimedRow, C!broker, C!handleScheduleMessage(i, r)
       PROVE  Goal
  BY <1>13, ReservedGoes DEF C!broker
<1>14. CASE C!heard BY <1>14, HeardGoes
<1>15. ASSUME NEW r \in TimedRow,
              C!openScheduledEdit(r) \/ C!timePasses(r) \/ C!fireDueScheduledMessages(r)
       PROVE  Goal
  BY <1>15, EditOpens, TimeGoes, FireGoes
<1>16. ASSUME NEW r \in TimedRow, C!broker, C!handleCancelScheduledMessage(r) PROVE Goal
  BY <1>16, CancelGoes DEF C!broker
<1>17. CASE C!typeInEdit BY <1>17, EditTyped
<1>18. CASE C!closeEdit BY <1>18, EditClosed
<1>19. CASE C!broker /\ C!handleUpdateScheduledMessage BY <1>19, EditSaved DEF C!broker
<1>20. CASE C!submitFired BY <1>20, FiredGoes
<1>21. CASE C!crash BY <1>1, <1>21, CrashGoes
<1> QED BY <1>2, <1>3, <1>4, <1>5, <1>6, <1>7, <1>8, <1>9, <1>10, <1>11, <1>12, <1>13, <1>14,
           <1>15, <1>16, <1>17, <1>18, <1>19, <1>20, <1>21, Zenon DEF C!Next

LEMMA ComposerRests ==
  ASSUME C!ComposerInv, UNCHANGED C!vars
  PROVE  Goal
<1>1. UNCHANGED <<env, shown, pend, stored, calls, rows, firing, edit, typed, got, dropped>>
  BY DEF C!vars
<1>2. Still BY <1>1, InvIs, DraftStands
<1> QED BY <1>1, <1>2, NothingMoves

LEMMA ComposerBegins ==
  ASSUME ComposerConstants, C!Init
  PROVE  C!KeptInv /\ C!OnceInv
<1>1. /\ env \in ComposerEnvs /\ shown = [b \in Box |-> Closed] /\ pend = <<>> /\ stored = {}
      /\ calls = <<>> /\ rows = [r \in TimedRow |-> C!NoRow] /\ firing = None /\ edit = None
      /\ typed = 0 /\ got = [w \in C!Word |-> 0] /\ dropped = {}
  BY DEF C!Init
<1>2. {} \in C!Text BY DEF C!Text
<1>3. C!Saved = {} BY <1>1, SavedIs DEF SavedOf
<1>4. DraftNow
  <2>1. pend \in Seq(Writes) /\ Len(pend) =< 1 BY <1>1, EmptySeq
  <2>2. shown \in [Box -> C!Text \cup {Closed}] BY <1>1
  <2> QED BY <1>1, <1>2, <2>1, <2>2 DEF DraftNow, DraftIs
<1>5. calls \in Seq(C!Call) /\ DOMAIN calls = {} BY <1>1, EmptySeq
<1>6. CallsOk(calls, env, C!Saved, pend) BY <1>5 DEF CallsOk
<1>7. \A r \in TimedRow : rows[r] = C!NoRow BY <1>1
<1>8. C!NoRow \in RowType /\ C!NoRow.text = {} /\ C!NoRow.state = None
  BY <1>2 DEF C!NoRow, RowType
<1>9. RowsOk(rows, firing, edit) BY <1>1, <1>7, <1>8 DEF RowsOk
<1>10. WordsOk(C!Saved, calls, rows, edit, typed, got, dropped)
  BY <1>1, <1>2, <1>3, <1>5, <1>7, <1>8 DEF WordsOk, ComposerConstants
<1>11. C!ComposerInv BY <1>1, <1>4, <1>6, <1>9, <1>10, InvIs
<1>12. Keeps BY <1>1, <1>5 DEF Keeps
<1>13. Onces
  <2> SUFFICES ASSUME NEW w \in C!Word PROVE C!InOnePlace(w) BY DEF Onces
  <2>1. got[w] = 0 BY <1>1
  <2>2. ~ C!InDraft(w) BY <1>3, InDraftIs
  <2>3. \A r \in TimedRow : ~ C!InRow(w, r) BY <1>1, <1>7, <1>8, InRowIs DEF ComposerConstants
  <2> QED BY <1>5, <2>1, <2>2, <2>3 DEF C!InOnePlace
<1> QED BY <1>11, <1>12, <1>13, GoalIs

LEMMA NoWordLost ==
  ASSUME C!KeptInv
  PROVE  C!WordsKept
<1> SUFFICES ASSUME NEW w \in 1 .. typed
             PROVE  \/ got[w] > 0
                    \/ w \in C!Shown \cup C!Saved \cup C!Booked \cup C!UnderWay \cup dropped
                    \/ edit # None /\ w \in edit.text
  BY DEF C!WordsKept
<1>1. C!Safe(w) \/ w \in C!Saved \cup C!UnderWay BY DEF C!KeptInv
<1> QED BY <1>1 DEF C!Safe

LEMMA NoWordTwice ==
  ASSUME C!OnceInv
  PROVE  C!SentOnce
<1> SUFFICES ASSUME NEW w \in C!Word, got[w] > 1, ~ C!Told(w) PROVE FALSE
  BY DEF C!SentOnce, C!Told
<1>1. got[w] =< 1 BY DEF C!OnceInv, C!InOnePlace
<1>2. got[w] \in Nat BY DEF C!OnceInv, C!ComposerInv, C!ComposerTypes
<1> QED BY <1>1, <1>2

LEMMA KeptSteps ==
  ASSUME ComposerConstants, Unrushed, \A e \in ComposerEnvs : "refuse" \notin e, C!KeptInv,
         C!Next \/ UNCHANGED C!vars
  PROVE  C!KeptInv'
<1>1. Goal BY GoalIs, ComposerStep, ComposerRests
<1>2. "refuse" \notin env BY GoalIs, InvIs
<1> QED BY <1>1, <1>2, GoalIs DEF Goal

LEMMA OnceSteps ==
  ASSUME ComposerConstants, Unrushed, C!OnceInv, C!Next \/ UNCHANGED C!vars
  PROVE  C!OnceInv'
<1>1. Goal BY GoalIs, ComposerStep, ComposerRests
<1> QED BY <1>1, GoalIs DEF Goal

\* For every number of boxes, words, reservations and sends: a user who waits for
\* what was begun, and types ahead only while nothing fails, loses no word, unless
\* the broker refuses a message.
THEOREM WordsAreKept ==
  ASSUME ComposerConstants, Unrushed, \A e \in ComposerEnvs : "refuse" \notin e
  PROVE  PageSpec => []WordsKept
<1> DEFINE Inv == part = "composer" => C!KeptInv
<1>1. PageInit => Inv BY ComposerBegins DEF PageInit
<1>2. Inv /\ [PageNext]_<<part, slots>> => Inv'
  <2> SUFFICES ASSUME Inv, [PageNext]_<<part, slots>>, part' = "composer" PROVE C!KeptInv' OBVIOUS
  <2>1. CASE PageNext BY <2>1, KeptSteps DEF PageNext
  <2>2. CASE UNCHANGED <<part, slots>> BY <2>2, KeptSteps DEF slots, C!vars
  <2> QED BY <2>1, <2>2
<1>3. Inv => WordsKept BY NoWordLost DEF WordsKept
<1> QED BY <1>1, <1>2, <1>3, PTL DEF PageSpec

\* The same users, with brokers that refuse as well: a word reaches the session
\* twice only after its author was told that it had not.
THEOREM WordsAreSentOnce ==
  ASSUME ComposerConstants, Unrushed
  PROVE  PageSpec => []SentOnce
<1> DEFINE Inv == part = "composer" => C!OnceInv
<1>1. PageInit => Inv BY ComposerBegins DEF PageInit
<1>2. Inv /\ [PageNext]_<<part, slots>> => Inv'
  <2> SUFFICES ASSUME Inv, [PageNext]_<<part, slots>>, part' = "composer" PROVE C!OnceInv' OBVIOUS
  <2>1. CASE PageNext BY <2>1, OnceSteps DEF PageNext
  <2>2. CASE UNCHANGED <<part, slots>> BY <2>2, OnceSteps DEF slots, C!vars
  <2> QED BY <2>1, <2>2
<1>3. Inv => SentOnce BY NoWordTwice DEF SentOnce
<1> QED BY <1>1, <1>2, <1>3, PTL DEF PageSpec
=============================================================================
