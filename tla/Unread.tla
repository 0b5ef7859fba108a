------------------------------- MODULE Unread -------------------------------
(***************************************************************************)
(* Unread marks.  What Claude writes on a card (a message of a thread, or   *)
(* a change of a map's checklist) is unread until the card was on screen    *)
(* for the dwell, or the user says so.  The broker keeps what is read; the  *)
(* page reads it with the card, and the sidebar with the session list.     *)
(*                                                                         *)
(* One card, and the sidebar of the same page.  Changes are numbered as     *)
(* they are made: for a thread a change is a message with an id, for a      *)
(* checklist a version.                                                     *)
(***************************************************************************)
EXTENDS Naturals, FiniteSets, Sequences, Basics

CONSTANTS
    Kinds,         \* {"thread", "checklist"}
    Dwell,         \* ticks a card has to be on screen (VISIBLE_DURATION_MS / TICK_MS)
    MaxChanges,    \* bound: changes
    MaxLooks,      \* bound: the card comes on screen
    MaxMarks,      \* bound: marks, mark-alls and answers that are lost
    MaxUnderWay,   \* bound: answers under way, of either kind
    Overtake       \* BOOLEAN: answers may overtake each other

Change == 1 .. MaxChanges

VARIABLES
    kind,       \* the card: a thread or a checklist
    changes,    \* thread_items of cc and external, or checklist_version
    read,       \* read_at, or everything up to checklist_read_version
    view,       \* the card as rendered: [held, read]
    asks,       \* answers under way with the card, oldest first
    news,       \* a frame of the board is under way to the page
    onScreen,   \* the card is visible, legible and the window has the focus
    dwell,      \* useVisibleDwell: ticks since visibleSince; Dwell once posted
    marks,      \* marks under way to the broker: sets of changes
    confirm,    \* the user is asked whether to mark all
    count,      \* unread_count of the board in the sidebar
    lists,      \* answers under way with the session list: counts, oldest first
    nudge,      \* sidebar-refresh under way, or being coalesced
    looked,     \* per change: ticks it has been on screen without a break
    seen,       \* changes that were on screen for the dwell, or opened
    swept,      \* changes that were read by a mark-all
    bounds

vars == <<kind, changes, read, view, asks, news, onScreen, dwell, marks, confirm, count,
          lists, nudge, looked, seen, swept, bounds>>
broker  == <<changes, read, swept>>
reading == <<onScreen, dwell, looked, seen>>
sidebar == <<count, lists, nudge>>
page    == <<view, asks, news>>

View == [held : 0 .. MaxChanges, read : SUBSET Change]

UnreadTypeOK ==
    /\ kind \in Kinds /\ changes \in 0 .. MaxChanges
    /\ read \subseteq 1 .. changes
    /\ view \in View /\ asks \in Seq(View) /\ lists \in Seq(0 .. MaxChanges)
    /\ news \in BOOLEAN /\ onScreen \in BOOLEAN /\ confirm \in BOOLEAN /\ nudge \in BOOLEAN
    /\ dwell \in 0 .. Dwell /\ looked \in [Change -> 0 .. Dwell]
    /\ marks \subseteq SUBSET Change
    /\ count \in 0 .. MaxChanges
    /\ seen \cup swept \subseteq Change
    /\ bounds \in [looks : 0 .. MaxLooks, marks : 0 .. MaxMarks]

Init ==
    /\ kind \in Kinds
    /\ changes = 0 /\ read = {}
    /\ view = [held |-> 0, read |-> {}] /\ asks = <<>> /\ news = FALSE
    /\ onScreen = FALSE /\ dwell = 0
    /\ marks = {} /\ confirm = FALSE
    /\ count = 0 /\ lists = <<>> /\ nudge = FALSE
    /\ looked = [c \in Change |-> 0] /\ seen = {} /\ swept = {}
    /\ bounds = [looks |-> 0, marks |-> 0]

Spend(what, max) == bounds[what] < max /\ bounds' = [bounds EXCEPT ![what] = @ + 1]

\* isUnreadThreadItem, checklist_unread.
Unread(v) == (1 .. v.held) \ v.read
Server    == [held |-> changes, read |-> read]

-----------------------------------------------------------------------------
(* The broker.                                                             *)

\* Every page of the board hears of it; the sidebars of all pages only hear of
\* messages, and see a change of a checklist with their next poll.
Announce == news' = TRUE /\ nudge' = (nudge \/ kind = "thread")

\* Claude posts a message, or the checklist's next version is made.
handlePost ==
    /\ changes < MaxChanges /\ changes' = changes + 1
    /\ Announce
    /\ UNCHANGED <<kind, read, swept, view, asks, reading, marks, confirm, count, lists, bounds>>

\* A mark of a thread names messages; one of a checklist names the version that
\* the page had rendered.
Marked(m)    == IF kind = "thread" THEN m ELSE 1 .. Max(m)

handleMarkRead(m) ==
    /\ m \in marks /\ marks' = marks \ {m}
    /\ read' = read \cup Marked(m)
    /\ Announce
    /\ UNCHANGED <<kind, changes, swept, view, asks, reading, confirm, count, lists, bounds>>

-----------------------------------------------------------------------------
(* The page: the card.                                                     *)

fetchView ==
    /\ news /\ Len(asks) < MaxUnderWay
    /\ news' = FALSE /\ asks' = Append(asks, Server)
    /\ UNCHANGED <<kind, broker, view, reading, marks, confirm, sidebar, bounds>>

\* The effect of the dwell depends on what is unread: it starts again when that
\* changes.  A checklist is unread as a whole, and depends on its version.
Dep(v) == CASE kind = "thread" -> Unread(v)
            [] OTHER -> IF Unread(v) = {} THEN {} ELSE {v.held}

\* Mutant of Rearmed: the dwell goes on when something else becomes unread.
RearmedNever(v) == dwell
Rearmed(v) == IF Dep(v) = Dep(view) THEN dwell ELSE 0

landView(i) ==
    /\ i = 1 \/ Overtake
    /\ view' = asks[i] /\ asks' = RemoveAt(asks, i)
    /\ dwell' = Rearmed(asks[i])
    /\ UNCHANGED <<kind, broker, news, onScreen, looked, seen, marks, confirm, sidebar, bounds>>

\* Scrolled, out of focus, in the background, zoomed or covered by a preview; the
\* last two start the effect again, and it may post again.
look ==
    /\ \/ onScreen /\ UNCHANGED bounds
       \/ ~ onScreen /\ Spend("looks", MaxLooks)
    /\ onScreen' = ~ onScreen
    /\ dwell' \in {0} \cup ({Dwell} \cap {dwell})
    /\ looked' = [c \in Change |-> 0]
    /\ UNCHANGED <<kind, broker, page, seen, marks, confirm, sidebar>>

\* A tick: time passes for the changes on the card, and the effect posts once
\* the card was there for the dwell.
tick ==
    /\ onScreen /\ Unread(view) # {}
    /\ looked' = [c \in Change |-> IF c <= view.held /\ looked[c] < Dwell
                                   THEN looked[c] + 1 ELSE looked[c]]
    /\ seen' = seen \cup {c \in Change : looked'[c] = Dwell}
    /\ dwell' = IF dwell < Dwell THEN dwell + 1 ELSE Dwell
    /\ marks' = IF dwell = Dwell - 1 THEN marks \cup {Dep(view)} ELSE marks
    /\ <<looked, dwell>> # <<looked', dwell'>>
    /\ UNCHANGED <<kind, broker, page, onScreen, confirm, sidebar, bounds>>

\* The preview of a checklist, the button of a card, the log of requests: a
\* deliberate read of what is rendered.
readDeliberately ==
    /\ Unread(view) # {} /\ Spend("marks", MaxMarks)
    /\ marks' = marks \cup {Dep(view)}
    /\ seen' = seen \cup 1 .. view.held
    /\ UNCHANGED <<kind, broker, page, onScreen, dwell, looked, confirm, sidebar>>

\* "Mark N as read?"; the broker marks whatever is on the board by then.
askMarkAll ==
    /\ kind = "thread" /\ Unread(view) # {} /\ ~ confirm
    /\ Spend("marks", MaxMarks)
    /\ confirm' = TRUE
    /\ UNCHANGED <<kind, broker, page, reading, marks, sidebar>>

handleMarkBoardRead ==
    /\ confirm /\ confirm' = FALSE
    /\ swept' = swept \cup ((1 .. changes) \ read) /\ read' = 1 .. changes
    /\ Announce
    /\ UNCHANGED <<kind, changes, view, asks, reading, marks, count, lists, bounds>>

\* The request fails: the page does not try again before something else is unread.
lost(m) ==
    /\ m \in marks /\ Spend("marks", MaxMarks)
    /\ marks' = marks \ {m}
    /\ UNCHANGED <<kind, broker, page, reading, confirm, sidebar>>

-----------------------------------------------------------------------------
(* The page: the sidebar.                                                  *)

\* handleListSessions counts what is unread of the nodes that can be opened.
handleListSessions == lists' = Append(lists, Cardinality(Unread(Server)))

\* A burst of nudges is one fetch.
refresh ==
    /\ nudge /\ Len(lists) < MaxUnderWay
    /\ nudge' = FALSE /\ handleListSessions
    /\ UNCHANGED <<kind, broker, page, reading, marks, confirm, count, bounds>>

\* Every ten seconds, and when the tab comes to the front; a poll that would find
\* nothing new is left out.
poll ==
    /\ lists = <<>> /\ count # Cardinality(Unread(Server)) /\ handleListSessions
    /\ UNCHANGED <<kind, broker, page, reading, marks, confirm, count, nudge, bounds>>

landList(i) ==
    /\ i = 1 \/ Overtake
    /\ count' = lists[i] /\ lists' = RemoveAt(lists, i)
    /\ UNCHANGED <<kind, broker, page, reading, marks, confirm, nudge, bounds>>

Next ==
    \/ handlePost \/ handleMarkBoardRead \/ fetchView
    \/ look \/ tick \/ readDeliberately \/ askMarkAll \/ refresh \/ poll
    \/ \E m \in marks : handleMarkRead(m) \/ lost(m)
    \/ \E i \in DOMAIN asks : landView(i)
    \/ \E i \in DOMAIN lists : landList(i)

UnreadSpec == Init /\ [][Next]_vars

-----------------------------------------------------------------------------
(* Properties.                                                             *)

\* Nothing is read that the user had no chance to read: a change is read only
\* after it was on screen for the whole dwell, or was on the card when the user
\* opened it, or with the mark-all.  A change that arrives during the dwell of an
\* older one, or while the mark is under way, stays unread.
ReadWasShown == read \subseteq seen \cup swept

\* When nothing is under way, the sidebar shows as many unread messages as there
\* are, whatever was posted and read while it was fetching.
Quiet == lists = <<>> /\ ~ nudge
DotIsTrue == kind = "thread" /\ Quiet /\ ~ Overtake => count = Cardinality(Unread(Server))

-----------------------------------------------------------------------------
(* The inductive invariant *)

\* What the page holds, or will, is not ahead of the broker.
ViewsBehind == view.held =< changes /\ \A i \in DOMAIN asks : asks[i].held =< changes

\* What the effect of the dwell counts was on screen all that time.
Counted == IF kind = "thread" THEN Unread(view) ELSE 1 .. view.held
DwellIsLooked ==
    dwell < Dwell /\ Unread(view) # {} => \A c \in Counted : looked[c] >= dwell

\* A mark under way names what was shown.
MarksWereShown ==
    \A m \in marks :
      IF kind = "thread" THEN m \subseteq seen \cap (1 .. changes)
      ELSE \E h \in 1 .. changes : m = {h} /\ 1 .. h \subseteq seen

\* The newest answer to the sidebar is right unless a nudge is still to come.
SidebarFollows ==
    kind = "thread" /\ ~ nudge /\ ~ Overtake =>
      (IF lists = <<>> THEN count ELSE lists[Len(lists)]) = Cardinality(Unread(Server))

UnreadInv ==
    UnreadTypeOK /\ ViewsBehind /\ DwellIsLooked /\ MarksWereShown /\ ReadWasShown /\ SidebarFollows
=============================================================================
