------------------------------- MODULE Spawn -------------------------------
(***************************************************************************)
(* Launching Claude Code from the page: handleSpawnSession starts it in a  *)
(* detached tmux session, and a watcher answers its startup dialogs by     *)
(* reading the pane about once a second.  Two of the dialogs highlight     *)
(* "No, exit", so a key that lands late, or on another screen than the one *)
(* it was meant for, ends the session that was just started.               *)
(*                                                                         *)
(* Time is counted in polls.  A Behaviour fixes how the pane behaves:      *)
(* lag is the most polls a key takes to show its effect (1: before the     *)
(* next poll; at most RetryPolls), noise whether the rest of the screen    *)
(* may change meanwhile.                                                   *)
(***************************************************************************)
EXTENDS Naturals, Sequences, FiniteSets

CONSTANTS Config,        \* launch configurations the modal may send
          None,
          Scripts,       \* the sequences of screens a start may go through
          Behaviour,     \* [lag, noise] of the pane
          RetryPolls, SettlePolls, TimeoutPolls, MaxCaptureFailures,
          MaxRequests    \* bound: spawn requests

DIALOGS == {"trust", "bypass", "dev_channels"}
Screens == DIALOGS \cup {"unknown", "text"}

\* The menus: which line is wanted and which one is highlighted first.
Lines == 1 .. 2
want    == [d \in DIALOGS |-> IF d = "dev_channels" THEN 1 ELSE 2]
default == 1

VARIABLES
    pane,      \* how this pane behaves
    stored,    \* spawn_config, or None
    requests,  \* spawn requests so far
    claude,    \* "none", "starting", "prompt", "exited"
    screen,    \* what the pane shows
    script,    \* the screens still to come
    keys,      \* keys sent and not yet landed, each with its age in polls
    watch,     \* the state of createDialogWatcher, or None
    wrong    \* the watcher gave an answer that nobody wanted

svars == <<pane, stored, requests, claude, screen, script, keys, watch, wrong>>

\* A screen: what is up, its cursor, whether its menu is whole, and the rest.
Blank == [shows |-> "blank", cursor |-> default, whole |-> TRUE, rest |-> 0]
Fresh == [polls |-> 0, failures |-> 0, quiet |-> None, acted |-> None, outcome |-> None]

SpawnTypeOK ==
    /\ pane \in Behaviour
    /\ stored \in Config \cup {None}
    /\ requests \in 0 .. MaxRequests
    /\ claude \in {"none", "starting", "prompt", "exited"}
    /\ screen \in [shows : Screens \cup {"blank", "ready"}, cursor : Lines,
                   whole : BOOLEAN, rest : 0 .. 1]
    /\ script \in Seq(Screens)
    /\ \A i \in DOMAIN keys : /\ keys[i].key \in {"Down", "Up", "Enter"}
                              /\ keys[i].age \in 0 .. pane.lag
    /\ watch = None \/ watch.outcome \in {None, "ready", "settled", "timeout", "gone"}
    /\ wrong \in BOOLEAN

SpawnInit ==
    /\ pane \in Behaviour
    /\ stored = None /\ requests = 0
    /\ claude = "none" /\ screen = Blank /\ script = <<>>
    /\ keys = <<>> /\ watch = None /\ wrong = FALSE

-----------------------------------------------------------------------------
(* The request.                                                            *)

\* No configuration, a bad or missing directory, a session still alive, or
\* tmux failing: nothing is kept of the request.
spawnRefused(c) ==
    /\ claude = "none" /\ requests < MaxRequests
    /\ requests' = requests + 1
    /\ UNCHANGED <<pane, stored, claude, screen, script, keys, watch, wrong>>

\* tmux started the session: its configuration is saved and the watcher set
\* going.  A request without a configuration uses the stored one.
handleSpawnSession(c) ==
    /\ claude = "none" /\ requests < MaxRequests
    /\ LET cfg == IF c = None THEN stored ELSE c IN
       /\ cfg # None
       /\ stored' = cfg
    /\ requests' = requests + 1
    /\ claude' = "starting" /\ script' \in Scripts
    /\ watch' = Fresh
    /\ UNCHANGED <<pane, screen, keys, wrong>>

-----------------------------------------------------------------------------
(* The pane.                                                               *)

\* The next screen is drawn: a menu may be seen half drawn.
show ==
    /\ claude = "starting" /\ screen.shows \in {"blank", "text"}
    /\ IF script = <<>>
       THEN /\ screen' = [Blank EXCEPT !.shows = "ready"]
            /\ claude' = "prompt" /\ UNCHANGED script
       ELSE /\ \E w \in BOOLEAN :
                 screen' = [Blank EXCEPT !.shows = Head(script), !.whole = w]
            /\ script' = Tail(script) /\ UNCHANGED claude
    /\ UNCHANGED <<pane, stored, requests, keys, watch, wrong>>

drawn ==
    /\ ~ screen.whole
    /\ screen' = [screen EXCEPT !.whole = TRUE]
    /\ UNCHANGED <<pane, stored, requests, claude, script, keys, watch, wrong>>

redrawn ==
    /\ pane.noise /\ screen.shows \in DIALOGS
    /\ screen' = [screen EXCEPT !.rest = 1 - @]
    /\ UNCHANGED <<pane, stored, requests, claude, script, keys, watch, wrong>>

\* The oldest key takes effect.  Moving past an end of a menu stops or wraps,
\* which is the terminal program's business.
Moved(key) ==
    IF key = "Down" THEN IF screen.cursor = 2 THEN Lines ELSE {2}
                    ELSE IF screen.cursor = 1 THEN Lines ELSE {1}
landed ==
    /\ keys # <<>> /\ keys' = Tail(keys)
    /\ LET key == Head(keys).key IN
       \/ /\ screen.shows \in DIALOGS /\ key # "Enter"
          /\ \E c \in Moved(key) : screen' = [screen EXCEPT !.cursor = c]
          /\ UNCHANGED <<claude, wrong>>
       \/ /\ screen.shows \in DIALOGS /\ key = "Enter"
          /\ screen' = Blank
          /\ IF screen.cursor = want[screen.shows]
             THEN UNCHANGED <<claude, wrong>> ELSE claude' = "exited" /\ wrong' = TRUE
       \/ /\ screen.shows = "unknown" /\ key = "Enter"
          /\ wrong' = TRUE /\ screen' = Blank /\ UNCHANGED claude
       \/ /\ screen.shows \notin DIALOGS
          /\ ~ (screen.shows = "unknown" /\ key = "Enter")
          /\ UNCHANGED <<screen, claude, wrong>>
    /\ UNCHANGED <<pane, stored, requests, script, watch>>

\* The user answers a dialog the watcher does not know.
userAnswers ==
    /\ screen.shows = "unknown"
    /\ screen' = Blank
    /\ UNCHANGED <<pane, stored, requests, claude, script, keys, watch, wrong>>

\* Claude Code, or tmux, ends for reasons of its own.
exits ==
    /\ claude = "starting" /\ claude' = "exited" /\ screen' = Blank
    /\ UNCHANGED <<pane, stored, requests, script, keys, watch, wrong>>

-----------------------------------------------------------------------------
(* classifyStartupScreen and createDialogWatcher.                          *)

\* Only moves are returned while the cursor is not on the wanted line.
Keys(s) == IF s.cursor = want[s.shows] THEN <<"Enter">>
           ELSE IF s.cursor < want[s.shows] THEN <<"Down">> ELSE <<"Up">>
classifyStartupScreen(s) ==
    IF s.shows \in DIALOGS THEN (IF s.whole THEN "keys" ELSE "wait")
    ELSE IF s.shows = "unknown" THEN "unknown_dialog"
    ELSE IF s.shows = "ready" THEN "ready" ELSE "none"

\* Mutant of InFlight: nothing is remembered of the keys already sent.
InFlightNever(w) == FALSE

\* Keys already sent are left time to show on a screen that has not changed.
InFlight(w) == /\ w.acted # None /\ w.acted.screen = screen
               /\ w.polls - w.acted.at < RetryPolls

Watched(w) ==
    LET action == classifyStartupScreen(screen)
        loud   == [w EXCEPT !.quiet = None, !.failures = 0]
        since  == IF w.quiet = None THEN w.polls ELSE w.quiet
    IN  IF w.polls >= TimeoutPolls THEN [w EXCEPT !.outcome = "timeout"]
        ELSE IF claude = "exited" THEN
             [w EXCEPT !.failures = @ + 1,
                       !.outcome = IF w.failures + 1 >= MaxCaptureFailures THEN "gone" ELSE None]
        ELSE IF action = "keys" THEN
             [loud EXCEPT !.acted = IF InFlight(w) THEN @
                                    ELSE [screen |-> screen, at |-> w.polls]]
        ELSE IF action = "ready" THEN [loud EXCEPT !.outcome = "ready"]
        ELSE IF action = "none" /\ screen.shows # "blank" THEN
             [loud EXCEPT !.quiet = since,
                          !.outcome = IF w.polls - since >= SettlePolls THEN "settled" ELSE None]
        ELSE loud

Sends(w) == /\ w.polls < TimeoutPolls /\ claude # "exited"
            /\ classifyStartupScreen(screen) = "keys" /\ ~ InFlight(w)

step ==
    /\ watch # None /\ watch.outcome = None
    /\ \A i \in DOMAIN keys : keys[i].age + 1 < pane.lag
    /\ LET aged == [i \in DOMAIN keys |-> [keys[i] EXCEPT !.age = @ + 1]]
           new  == IF Sends(watch)
                   THEN [i \in DOMAIN Keys(screen) |-> [key |-> Keys(screen)[i], age |-> 0]]
                   ELSE <<>>
       IN  keys' = aged \o new
    /\ watch' = [Watched(watch) EXCEPT !.polls = @ + 1]
    /\ UNCHANGED <<pane, stored, requests, claude, screen, script, wrong>>

SpawnNext ==
    \/ \E c \in Config \cup {None} : spawnRefused(c) \/ handleSpawnSession(c)
    \/ show \/ drawn \/ redrawn \/ landed \/ userAnswers \/ exits
    \/ step

SpawnSpec == SpawnInit /\ [][SpawnNext]_svars

-----------------------------------------------------------------------------
(* Properties.                                                             *)

\* The watcher never gives an answer nobody wanted, whatever dialogs come up in
\* whatever order and however late its keys land: it does not choose "No, exit",
\* which would end the session it was to start, and does not confirm a dialog it
\* does not know.
OnlyTheWanted == ~ wrong

-----------------------------------------------------------------------------
(* The inductive invariant.                                                *)

Shot == [shows : Screens \cup {"blank", "ready"}, cursor : Lines,
         whole : BOOLEAN, rest : 0 .. 1]

Watch == [polls : Nat, failures : Nat, quiet : Nat \cup {None},
          acted : [screen : Shot, at : Nat] \cup {None},
          outcome : {None, "ready", "settled", "timeout", "gone"}]

\* At most one key is on its way.  It is the next one for the menu that is up,
\* which is as the watcher saw it when it sent the key, if the pane is not
\* noisy; and as many polls have passed as the key is old.
KeyIsMeant ==
    keys = <<>> \/ \E k \in {"Down", "Up", "Enter"}, a \in 0 .. pane.lag :
        /\ keys = <<[key |-> k, age |-> a]>>
        /\ watch.acted # None /\ watch.polls = watch.acted.at + 1 + a
        /\ claude # "exited" =>
              /\ screen.shows \in DIALOGS /\ screen.whole /\ Keys(screen) = <<k>>
              /\ pane.noise \/ watch.acted.screen = screen

SpawnInv ==
    /\ SpawnTypeOK /\ watch \in Watch \cup {None}
    /\ claude = "none" => watch = None /\ keys = <<>>
    /\ claude = "exited" => screen = Blank
    /\ KeyIsMeant
    /\ ~ wrong
=============================================================================
