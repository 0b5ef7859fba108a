------------------------------- MODULE Slash -------------------------------
(***************************************************************************)
(* Slash commands sent from the page (/cli-send): they are typed into the  *)
(* tmux pane in which Claude Code runs.  A local session's pane is typed   *)
(* into by the broker, inside the request; a remote session's (and any     *)
(* session's of a Windows broker) by its own MCP server, which takes the   *)
(* command from the queue cli_injects with its poll and reports back.      *)
(*                                                                         *)
(* env names what may go wrong or happen meanwhile:                        *)
(*   two      a second local send may start before the first is answered   *)
(*   turn     Claude Code may start a turn of its own                      *)
(*   exit     Claude Code may exit and leave a shell, or no pane           *)
(*   die      the MCP server may die                                       *)
(*   lose     a poll answer or an acknowledgement may be lost              *)
(*   restart  the broker may be restarted                                  *)
(***************************************************************************)
EXTENDS Naturals, Sequences, Basics, FiniteSets

CONSTANTS Send,       \* the sends of one command each, whatever the page
          None,
          Settings    \* what is explored: [queued : BOOLEAN, env : SUBSET ...]

VARIABLES
    queued,    \* commands go through cli_injects
    env,
    stage,     \* per send: where it is
    pane,      \* "claude", "shell" or "gone"
    turn,      \* Claude Code is working or blocked on a question
    busy,      \* ... as last reported to the broker
    line,      \* the sends whose text is on the prompt line
    ran,       \* how often each send ran as a slash command
    mcp,       \* the MCP server is up
    alive,     \* sessions.alive
    queue,     \* undelivered rows of cli_injects, by id
    transit,   \* the injects of a poll answer under way, or None
    list,      \* the injects the MCP server has still to run
    acks,      \* acknowledgements under way
    acked,     \* rows with acked_at
    watch,     \* cliInjectAckTimers
    forgot,    \* sends whose timer was lost with the broker
    chip,      \* sends noted as issued on the default board
    told       \* what the page was told of each send

vars == <<queued, env, stage, pane, turn, busy, line, ran, mcp, alive,
          queue, transit, list, acks, acked, watch, forgot, chip, told>>
world  == <<queued, env>>
claude == <<pane, turn, busy, line, ran>>
shown  == <<chip, told>>

Typing == {"probe", "clear", "paste", "enter"}
Stages == {"idle", "row", "drained", "over"} \cup Typing
Ack    == [send : Send, ok : BOOLEAN]
Told   == {"refused", "sent", "queued", "failed", "no_ack"}

SlTypeOK ==
    /\ [queued |-> queued, env |-> env] \in Settings
    /\ stage \in [Send -> Stages]
    /\ pane \in {"claude", "shell", "gone"}
    /\ turn \in BOOLEAN /\ busy \in BOOLEAN /\ mcp \in BOOLEAN /\ alive \in BOOLEAN
    /\ line \in Seq(Send) /\ list \in Seq(Send) /\ queue \in Seq(Send)
    /\ transit = None \/ transit \in Seq(Send)
    /\ ran \in [Send -> Nat]
    /\ acks \subseteq Ack
    /\ acked \subseteq Send /\ watch \subseteq Send /\ forgot \subseteq Send
    /\ chip \subseteq Send
    /\ told \in [Send -> SUBSET Told]

Init ==
    /\ \E s \in Settings : queued = s.queued /\ env = s.env
    /\ stage = [s \in Send |-> "idle"]
    /\ pane = "claude" /\ turn = FALSE /\ busy = FALSE
    /\ line = <<>> /\ ran = [s \in Send |-> 0]
    /\ mcp = TRUE /\ alive = TRUE
    /\ queue = <<>> /\ transit = None /\ list = <<>>
    /\ acks = {} /\ acked = {} /\ watch = {} /\ forgot = {}
    /\ chip = {} /\ told = [s \in Send |-> {}]

Tell(s, what) == told' = [told EXCEPT ![s] = @ \cup {what}]

-----------------------------------------------------------------------------
(* The request.                                                            *)

\* One page sends one command at a time; a second page knows nothing of it.
MaySend == queued \/ "two" \in env \/ \A s \in Send : stage[s] \notin Typing

\* An unknown or dead session, or one that was reported busy, is refused.
handleCliSend(s) ==
    /\ stage[s] = "idle" /\ MaySend
    /\ \/ /\ ~ alive \/ busy
          /\ stage' = [stage EXCEPT ![s] = "over"] /\ Tell(s, "refused")
          /\ UNCHANGED queue
       \/ /\ alive /\ ~ busy /\ queued
          /\ stage' = [stage EXCEPT ![s] = "row"] /\ queue' = Append(queue, s)
          /\ Tell(s, "queued")
       \/ /\ alive /\ ~ busy /\ ~ queued
          /\ stage' = [stage EXCEPT ![s] = "probe"] /\ UNCHANGED <<told, queue>>
    /\ UNCHANGED <<world, claude, mcp, alive, transit, list, acks, acked, watch, forgot, chip>>

-----------------------------------------------------------------------------
(* injectIntoPane: probe, C-u, paste, a pause, Enter.                      *)

\* Who types: the request itself, or the MCP server through its list in order.
\* Mutant of Acts: the server types the commands of its list all at once.
ActsAtOnce(s) == stage[s] \in Typing /\ (queued => mcp /\ Contains(list, s))
Acts(s) == stage[s] \in Typing /\ (queued => mcp /\ list # <<>> /\ Head(list) = s)

\* The outcome: the answer of the request and the note on the board at once
\* (handleCliSend), or an acknowledgement to the broker (runCliInjects).
Finish(s, ok) ==
    /\ stage' = [stage EXCEPT ![s] = "over"]
    /\ IF queued
       THEN /\ list' = Tail(list) /\ acks' = acks \cup {[send |-> s, ok |-> ok]}
            /\ UNCHANGED shown
       ELSE /\ Tell(s, IF ok THEN "sent" ELSE "failed")
            /\ chip' = IF ok THEN chip \cup {s} ELSE chip
            /\ UNCHANGED <<list, acks>>

Goes(s, next) == /\ stage' = [stage EXCEPT ![s] = next]
                 /\ UNCHANGED <<list, acks, shown>>

Rest == <<world, pane, turn, busy, mcp, alive, queue, transit, acked, watch, forgot>>

\* A shell in the pane, or no pane, ends it here.
probePane(s) ==
    /\ Acts(s) /\ stage[s] = "probe"
    /\ IF pane = "claude" THEN Goes(s, "clear") ELSE Finish(s, FALSE)
    /\ UNCHANGED <<Rest, line, ran>>

\* Each step of sendToPane fails when the pane is gone.
clear(s) ==
    /\ Acts(s) /\ stage[s] = "clear"
    /\ IF pane = "gone" THEN Finish(s, FALSE) /\ UNCHANGED line
                        ELSE Goes(s, "paste") /\ line' = <<>>
    /\ UNCHANGED <<Rest, ran>>

paste(s) ==
    /\ Acts(s) /\ stage[s] = "paste"
    /\ IF pane = "gone" THEN Finish(s, FALSE) /\ UNCHANGED line
                        ELSE Goes(s, "enter") /\ line' = Append(line, s)
    /\ UNCHANGED <<Rest, ran>>

\* Only a line that holds one command, at an idle prompt, runs it.
Runs == pane = "claude" /\ ~ turn /\ Len(line) = 1
enter(s) ==
    /\ Acts(s) /\ stage[s] = "enter"
    /\ IF pane = "gone" THEN Finish(s, FALSE) /\ UNCHANGED <<line, ran>>
       ELSE /\ Finish(s, TRUE) /\ line' = <<>>
            /\ ran' = IF Runs THEN [ran EXCEPT ![Head(line)] = @ + 1] ELSE ran
    /\ UNCHANGED Rest

-----------------------------------------------------------------------------
(* The queue.                                                              *)

\* Mutant of Watching: only the outcome reported by the server is shown.
WatchingNone == watch
Watching == watch \cup ToSet(queue)

\* The drain marks its rows delivered and starts a timer for each; one poll is
\* under way at a time, and it lasts until its injects have been typed.
handlePollMessages ==
    /\ mcp /\ transit = None /\ list = <<>>
    /\ queue # <<>> /\ queue' = <<>> /\ transit' = queue
    /\ stage' = [s \in Send |-> IF Contains(queue, s) THEN "drained" ELSE stage[s]]
    /\ watch' = Watching
    /\ UNCHANGED <<world, claude, mcp, alive, list, acks, acked, forgot, shown>>

pollAnswered ==
    /\ transit # None /\ mcp
    /\ list' = transit /\ transit' = None
    /\ stage' = [s \in Send |-> IF Contains(transit, s) THEN "probe" ELSE stage[s]]
    /\ UNCHANGED <<world, claude, mcp, alive, queue, acks, acked, watch, forgot, shown>>

pollLost ==
    /\ transit # None /\ ("lose" \in env \/ ~ mcp)
    /\ transit' = None
    /\ UNCHANGED <<world, claude, stage, mcp, alive, queue, list, acks, acked, watch, forgot, shown>>

handleCliInjectAcked(a) ==
    /\ a \in acks /\ acks' = acks \ {a}
    /\ acked' = acked \cup {a.send} /\ watch' = watch \ {a.send}
    /\ IF a.ok THEN chip' = chip \cup {a.send} /\ UNCHANGED told
               ELSE Tell(a.send, "failed") /\ UNCHANGED chip
    /\ UNCHANGED <<world, claude, stage, mcp, alive, queue, transit, list, forgot>>

ackLost(a) ==
    /\ a \in acks /\ "lose" \in env
    /\ acks' = acks \ {a}
    /\ UNCHANGED <<world, claude, stage, mcp, alive, queue, transit, list, acked, watch, forgot, shown>>

\* The timer of a drained row: every open page hears that nobody confirmed it.
watchCliInjectAck(s) ==
    /\ s \in watch /\ watch' = watch \ {s}
    /\ IF s \in acked THEN UNCHANGED told ELSE Tell(s, "no_ack")
    /\ UNCHANGED <<world, claude, stage, mcp, alive, queue, transit, list, acks, acked, forgot, chip>>

-----------------------------------------------------------------------------
(* Everyone else.                                                          *)

turns ==
    /\ "turn" \in env /\ pane = "claude" /\ turn' = ~ turn
    /\ UNCHANGED <<world, stage, pane, busy, line, ran, mcp, alive, queue, transit, list, acks,
                   acked, watch, forgot, shown>>

reportActivity ==
    /\ busy # turn /\ busy' = turn
    /\ UNCHANGED <<world, stage, pane, turn, line, ran, mcp, alive, queue, transit, list, acks,
                   acked, watch, forgot, shown>>

\* What the MCP server held is lost with it; what it had pasted stays there.
exits ==
    /\ mcp /\ mcp' = FALSE
    /\ \/ "exit" \in env /\ pane' \in {"shell", "gone"} /\ line' = <<>>
       \/ "die" \in env /\ UNCHANGED <<pane, line>>
    /\ list' = <<>>
    /\ stage' = [s \in Send |-> IF Contains(list, s) THEN "over" ELSE stage[s]]
    /\ UNCHANGED <<world, turn, busy, ran, alive, queue, transit, acks, acked, watch, forgot, shown>>

cleanStaleSessions ==
    /\ ~ mcp /\ alive /\ alive' = FALSE
    /\ UNCHANGED <<world, claude, stage, mcp, queue, transit, list, acks, acked, watch, forgot, shown>>

\* The requests under way end without an answer, and the timers are gone.
brokerRestart ==
    /\ "restart" \in env /\ forgot = {}
    /\ watch # {} \/ \E s \in Send : ~ queued /\ stage[s] \in Typing
    /\ LET cut == {s \in Send : ~ queued /\ stage[s] \in Typing} IN
       /\ stage' = [s \in Send |-> IF s \in cut THEN "over" ELSE stage[s]]
       /\ told' = [s \in Send |-> IF s \in cut THEN told[s] \cup {"failed"} ELSE told[s]]
       /\ forgot' = watch \cup cut
    /\ watch' = {}
    /\ UNCHANGED <<world, claude, mcp, alive, queue, transit, list, acks, acked, chip>>

Next ==
    \/ \E s \in Send : \/ handleCliSend(s) \/ watchCliInjectAck(s)
                       \/ probePane(s) \/ clear(s) \/ paste(s) \/ enter(s)
    \/ \E a \in Ack : handleCliInjectAcked(a) \/ ackLost(a)
    \/ handlePollMessages \/ pollAnswered \/ pollLost
    \/ turns \/ reportActivity \/ exits \/ cleanStaleSessions \/ brokerRestart

SlashSpec == Init /\ [][Next]_vars

-----------------------------------------------------------------------------
(* Properties.                                                             *)

\* No command runs twice, and, unless Claude Code turns to something else while
\* it is typed or two local sends type at once, the note on the default board
\* says the truth: the command it names did run.
Alone == env \cap {"turn", "exit"} = {} /\ (queued \/ "two" \notin env)
ChipMeansRun ==
    \A s \in Send : ran[s] <= 1 /\ (Alone /\ s \in chip => ran[s] = 1)

\* Once a queued command was handed over, the user hears how it went: the note,
\* the failure, or that nobody confirmed it.  Until then its timer is running.
OutcomeShown ==
    \A s \in Send :
        queued /\ stage[s] \in {"drained", "over"} \cup Typing =>
            \/ s \in chip \cup watch \cup forgot
            \/ told[s] \cap {"refused", "failed", "no_ack"} # {}

-----------------------------------------------------------------------------
(* The inductive invariant *)

\* Each send is in one place at a time, and its stage says in which.
PlacesKept ==
    /\ \A i \in DOMAIN queue : stage[queue[i]] = "row"
    /\ (transit # None => transit \in Seq(Send) /\ \A i \in DOMAIN transit : stage[transit[i]] = "drained")
    /\ \A i \in DOMAIN list : stage[list[i]] \in Typing
    /\ \A i, j \in DOMAIN list : list[i] = list[j] => i = j
    /\ \A i, j \in DOMAIN queue : queue[i] = queue[j] => i = j
    /\ (transit # None => \A i, j \in DOMAIN transit : transit[i] = transit[j] => i = j)
    /\ (transit # None => list = <<>>)
    /\ (~queued => queue = <<>> /\ transit = None /\ list = <<>>)

\* What is on the line was pasted once and has not run.
LineIsFresh ==
    /\ \A i, j \in DOMAIN line : line[i] = line[j] => i = j
    /\ \A i \in DOMAIN line : ran[line[i]] = 0 /\ stage[line[i]] \in {"enter", "over"}
    /\ \A s \in Send : stage[s] \notin {"enter", "over"} => ran[s] = 0
    /\ \A s \in Send : ran[s] =< 1

\* One send is typed at a time, and the line holds what it pasted.
OneTypes ==
    /\ pane = "claude" /\ ~turn
    /\ \A s \in Send : stage[s] \in Typing =>
         IF queued
         THEN /\ mcp /\ Contains(list, s)
              /\ (Head(list) # s => stage[s] = "probe")
         ELSE \A o \in Send : stage[o] \in Typing => o = s
    /\ \A s \in Send : /\ (stage[s] = "paste" => line = <<>>)
                       /\ (stage[s] = "enter" => line = <<s>>)
    /\ \A a \in acks : a.ok => ran[a.send] = 1
    /\ \A s \in chip : ran[s] = 1

SlashInv == SlTypeOK /\ PlacesKept /\ LineIsFresh /\ (Alone => OneTypes)

ShownInv == /\ OutcomeShown
            /\ (queued => \A s \in acked : s \in chip \/ "failed" \in told[s])
=============================================================================
