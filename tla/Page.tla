--------------------------------- MODULE Page ---------------------------------
(***************************************************************************)
(* The parts that stand by themselves: those of the web page, and the ones *)
(* that type, count, build and save beside the broker.  A behaviour is a   *)
(* behaviour of one part, picked at the start; the parts share no state.   *)
(* The variables are slots: variables of two parts that have one name      *)
(* share a slot, and the slots a part does not need stay None.  The        *)
(* constants of a part are explained in its module.                        *)
(***************************************************************************)
EXTENDS Naturals, Sequences, FiniteSets

CONSTANTS
  None,                      \* nothing, in every part
  \* Composer
  Box, Timed, TimedRow,
  MaxWords, MaxCalls, ComposerEnvs, Closed,
  \* Tracker
  Tab, Issue, Slice, Pick, DEFAULT_FILTERS,
  MaxPicks, MaxIssueChanges, MaxOpens, MaxAsks, TrackerEnvs,
  \* MapCanvas
  Card, Frame, Edge, Pos, NoMap,
  MaxGestures, MaxOps, MaxFaults, MaxFetches, MaxDragged, CanvasEnv,
  \* Spawn
  Config, Scripts, Behaviour,
  RetryPolls, SettlePolls, TimeoutPolls, MaxCaptureFailures, MaxRequests,
  \* Slash
  Send, Settings,
  \* Unread
  Kinds, Dwell, Overtake,
  MaxPosts, MaxLooks, MaxMarks, MaxUnderWay,
  \* Diagrams
  Source, Broken, Upsert, MaxEvents, MaxDiagramFaults, DiagramEnvs,
  \* Usage
  Session, Account, Length, MaxUsageTime, MaxUses, MaxReports,
  \* ModelChip
  Model, ResendTicks, MaxSwitches, MaxRebinds, MaxHooks, MaxLost,
  \* Backup
  Run, Keep, Period, StaleAfter, MaxHalfDays, BackupEnvs,
  \* WebDist
  Broker, User, Key, PruneAge, MaxTicks, MaxEdits, WebEnvs

VARIABLES
  part,
  v1, v2, v3, v4, v5, v6, v7, v8, v9, v10, v11, v12, v13, v14, v15, v16, v17,
  v18, v19

C == INSTANCE Composer WITH
  Row <- TimedRow, Envs <- ComposerEnvs, env <- v1, shown <- v3, pend <- v2,
  stored <- v4, calls <- v5, armed <- v6, rows <- v7, firing <- v8,
  edit <- v9, typed <- v10, got <- v11, dropped <- v12

T == INSTANCE Tracker WITH
  MaxChanges <- MaxIssueChanges, env <- v1, ledger <- v5, saved <- v6,
  lastPick <- v7, tab <- v2, asks <- v3, own <- v8, steps <- v4

M == INSTANCE MapCanvas WITH
  Env <- CanvasEnv, map <- v1, page <- v2, drag <- v3, undo <- v5,
  toast <- v6, posts <- v8, waits <- v9, frame <- v10, up <- v11,
  fetches <- v12, told <- v7, amiss <- v13, steps <- v4

P == INSTANCE Spawn WITH
  pane <- v2, stored <- v4, requests <- v1, claude <- v3, screen <- v6,
  script <- v7, keys <- v8, watch <- v5, wrong <- v9

S == INSTANCE Slash WITH
  queued <- v8, env <- v1, stage <- v9, pane <- v2, turn <- v10, busy <- v11,
  line <- v3, ran <- v4, mcp <- v12, alive <- v6, queue <- v13,
  transit <- v14, list <- v15, acks <- v16, acked <- v17, watch <- v5,
  forgot <- v18, chip <- v19, told <- v7

R == INSTANCE Unread WITH
  MaxChanges <- MaxPosts, kind <- v1, changes <- v5, read <- v6, view <- v4,
  asks <- v3, news <- v7, onScreen <- v8, dwell <- v9, marks <- v10,
  confirm <- v11, count <- v12, lists <- v13, nudge <- v14, looked <- v15,
  seen <- v16, swept <- v17, bounds <- v2

D == INSTANCE Diagrams WITH
  MaxFaults <- MaxDiagramFaults, env <- v1, diagram <- v5, upserts <- v6,
  view <- v4, notFound <- v7, svg <- v8, error <- v9, canvas <- v10,
  renders <- v11, line <- v3, sock <- v12, bounds <- v2

U == INSTANCE Usage WITH
  MaxTime <- MaxUsageTime, extra <- v1, account <- v2, now <- v3,
  meter <- v4, uses <- v5, alive <- v6, file <- v7, reports <- v8,
  limits <- v9, had <- v10

H == INSTANCE ModelChip WITH
  model <- v1, cache <- v5, age <- v6, hooks <- v7, attached <- v8,
  shown <- v3, ran <- v4, behind <- v9, bounds <- v2

B == INSTANCE Backup WITH
  MaxTime <- MaxHalfDays, env <- v1, now <- v3, shift <- v4, files <- v5,
  partial <- v6, runs <- v7, status <- v8, verdict <- v9, page <- v2,
  judged <- v10, published <- v11

W == INSTANCE WebDist WITH
  webenv <- v1, web <- v3, edits <- v4, ticks <- v5, dirs <- v6, tmp <- v7,
  brokers <- v8, tab <- v2

-----------------------------------------------------------------------------
PageInit ==
  \/ /\ part = "composer" /\ C!Init
     /\ v13 = None /\ v14 = None /\ v15 = None /\ v16 = None /\ v17 = None
     /\ v18 = None /\ v19 = None
  \/ /\ part = "tracker" /\ T!TrackerInit
     /\ v9 = None /\ v10 = None /\ v11 = None /\ v12 = None /\ v13 = None
     /\ v14 = None /\ v15 = None /\ v16 = None /\ v17 = None /\ v18 = None
     /\ v19 = None
  \/ /\ part = "canvas" /\ M!MInit
     /\ v14 = None /\ v15 = None /\ v16 = None /\ v17 = None /\ v18 = None
     /\ v19 = None
  \/ /\ part = "spawn" /\ P!SpawnInit
     /\ v10 = None /\ v11 = None /\ v12 = None /\ v13 = None /\ v14 = None
     /\ v15 = None /\ v16 = None /\ v17 = None /\ v18 = None /\ v19 = None
  \/ /\ part = "slash" /\ S!Init
  \/ /\ part = "unread" /\ R!Init
     /\ v18 = None /\ v19 = None
  \/ /\ part = "diagram" /\ D!DiagramInit
     /\ v13 = None /\ v14 = None /\ v15 = None /\ v16 = None /\ v17 = None
     /\ v18 = None /\ v19 = None
  \/ /\ part = "usage" /\ U!UsageInit
     /\ v11 = None /\ v12 = None /\ v13 = None /\ v14 = None /\ v15 = None
     /\ v16 = None /\ v17 = None /\ v18 = None /\ v19 = None
  \/ /\ part = "chip" /\ H!ChipInit
     /\ v10 = None /\ v11 = None /\ v12 = None /\ v13 = None /\ v14 = None
     /\ v15 = None /\ v16 = None /\ v17 = None /\ v18 = None /\ v19 = None
  \/ /\ part = "backup" /\ B!BackupInit
     /\ v12 = None /\ v13 = None /\ v14 = None /\ v15 = None /\ v16 = None
     /\ v17 = None /\ v18 = None /\ v19 = None
  \/ /\ part = "web" /\ W!WebInit
     /\ v9 = None /\ v10 = None /\ v11 = None /\ v12 = None /\ v13 = None
     /\ v14 = None /\ v15 = None /\ v16 = None /\ v17 = None /\ v18 = None
     /\ v19 = None

PageNext ==
  /\ UNCHANGED part
  /\ \/ /\ part = "composer" /\ C!Next
        /\ UNCHANGED <<v13, v14, v15, v16, v17, v18, v19>>
     \/ /\ part = "tracker" /\ T!TrackerNext
        /\ UNCHANGED <<v9, v10, v11, v12, v13, v14, v15, v16, v17, v18, v19>>
     \/ /\ part = "canvas" /\ M!MNext
        /\ UNCHANGED <<v14, v15, v16, v17, v18, v19>>
     \/ /\ part = "spawn" /\ P!SpawnNext
        /\ UNCHANGED <<v10, v11, v12, v13, v14, v15, v16, v17, v18, v19>>
     \/ /\ part = "slash" /\ S!Next
     \/ /\ part = "unread" /\ R!Next
        /\ UNCHANGED <<v18, v19>>
     \/ /\ part = "diagram" /\ D!DiagramNext
        /\ UNCHANGED <<v13, v14, v15, v16, v17, v18, v19>>
     \/ /\ part = "usage" /\ U!UsageNext
        /\ UNCHANGED <<v11, v12, v13, v14, v15, v16, v17, v18, v19>>
     \/ /\ part = "chip" /\ H!ChipNext
        /\ UNCHANGED <<v10, v11, v12, v13, v14, v15, v16, v17, v18, v19>>
     \/ /\ part = "backup" /\ B!BackupNext
        /\ UNCHANGED <<v12, v13, v14, v15, v16, v17, v18, v19>>
     \/ /\ part = "web" /\ W!WebNext
        /\ UNCHANGED <<v9, v10, v11, v12, v13, v14, v15, v16, v17, v18, v19>>

slots == <<v1, v2, v3, v4, v5, v6, v7, v8, v9, v10, v11, v12, v13, v14, v15, v16, v17,
           v18, v19>>

PageSpec == PageInit /\ [][PageNext]_<<part, slots>>

-----------------------------------------------------------------------------
(* Properties, each of one part *)

\* No word the user typed into a reply box is lost: it is on the page or will
\* be when a box is opened, on its way, in a reservation or its editor, with
\* the session, or it was thrown away on purpose (useDraft, ThreadComposer,
\* scheduled messages).
WordsKept == part = "composer" => C!WordsKept

\* A word reaches the session twice only if the user was told that sending or
\* scheduling it had failed (fireDueScheduledMessages, ThreadComposer.send).
SentOnce == part = "composer" => C!SentOnce

\* Once every tab of the tracker has settled, the filters in the database are
\* the ones the user chose last: opening it elsewhere never writes older ones,
\* or the defaults, over them.  Once its requests are answered, a tab's list
\* shows the edits made in it, and its counts say what a chip would bring up
\* (IssueTrackerModal).
TrackerKeeps == part = "tracker" => T!LastPickKept /\ T!OwnEditsShow /\ T!CountsReveal

\* What the user was told is restored is there, whatever posts of the deletion
\* were still on their way when the user reached for the undo (MapView).
RestoredIsThere == part = "canvas" => M!RestoredIsThere

\* Once everything is answered, the canvas shows the map, whoever changed it
\* last and however often the socket was down (MapView).
AtRestShowsMap == part = "canvas" => M!AtRestShowsMap

\* The watcher of a new session's dialogs never gives an answer nobody wanted,
\* in whatever order they come and however late its keys land
\* (createDialogWatcher).
OnlyTheWanted == part = "spawn" => P!OnlyTheWanted

\* No slash command runs twice, and the note on the default board names a
\* command that did run (sendToPane, handleCliSend, handleCliInjectAck).
ChipMeansRun == part = "slash" => S!ChipMeansRun

\* Once a queued command was handed over, the user hears how it went (the
\* acknowledgement, or the timer that runs until then).
OutcomeShown == part = "slash" => S!OutcomeShown

\* Nothing is read that the user had no chance to read, and once nothing is
\* under way the sidebar counts what is unread (useVisibleDwell,
\* handleMarkThreadRead, the refresh of the sidebar).
UnreadIsHonest == part = "unread" => R!ReadWasShown /\ R!DotIsTrue

\* At rest the page shows the diagram as it is: its latest source drawn, the
\* parse error of that very source, or the notice that it is gone (DiagramView).
PageShowsDiagram == part = "diagram" => D!PageShowsDiagram

\* A page never shows the usage of another subscription or of a window that is
\* over (combineLimits, getUsageLimitsForAccount).
OwnWindow == part = "usage" => U!OwnWindow

\* A session that keeps working does not show a wrong model for longer than a
\* report is vouched for (reportModel).
ChipCatchesUp == part = "chip" => H!ChipCatchesUp

\* A page that shows no warning means that there is a whole, recent snapshot,
\* whatever runs were killed on the way (publishSnapshot, evaluateBackupHealth).
QuietMeansBackedUp == part = "backup" => B!QuietMeansBackedUp

\* The first snapshot, every Period-th day from it and the newest stay for good
\* (planPrune).
AnchorsStay == part = "backup" => B!AnchorsStay

\* A broker that serves a prebuilt page serves one that is there, whole, and of
\* its own sources, whatever other brokers build and remove (ensureWebDist).
ServedIsThere == part = "web" => W!ServedIsThere

\* A tab that is connected to a broker with another build than its own says so
\* (noteBuildId).
StaleIsTold == part = "web" => W!StaleIsTold
=============================================================================
