------------------------------ MODULE Tracker ------------------------------
(***************************************************************************)
(* The issue tracker of the web page (IssueTrackerModal): the list it      *)
(* fetches once and filters in the browser, the counts of its filter bar,  *)
(* the edits made from a row, the editor, and the filters it keeps in the  *)
(* broker's database so that they are the same in every browser.           *)
(*                                                                         *)
(* Tabs of several browsers are open.  env names what may go wrong:        *)
(*   slow    the saved filters take longer to load than the 400 ms of the  *)
(*           debounce                                                      *)
(*   reopen  the tracker is opened again in a tab that has loaded before   *)
(*   blip    a call fails                                                  *)
(*   reorder answers of two list requests arrive in the other order        *)
(*   hasty   the user picks in a tab while another tab, or this tab's      *)
(*           last pick, is unsettled, or closes the tracker on it          *)
(***************************************************************************)
EXTENDS Naturals, Sequences, Basics, FiniteSets

CONSTANTS Tab, Issue,
          Slice,        \* sessions an issue is filed against
          Pick,         \* filter settings the user may choose
          DEFAULT_FILTERS,
          MaxPicks, MaxChanges, MaxOpens,   \* bounds on the steps of a behaviour
          MaxAsks,      \* bound: list requests of a tab under way
          TrackerEnvs, None

Owner == {"user", "cc"}
State == {"todo", "done"}
Row   == [owner : Owner, state : State, session : Slice, approved : BOOLEAN,
          deleted : BOOLEAN, ver : 0 .. MaxChanges]
Filters == [owners : SUBSET Owner, states : SUBSET State,
            sessionIds : SUBSET Slice, showDeleted : BOOLEAN]

VARIABLES
    env,
    ledger,     \* the issues table, a row per issue
    saved,      \* issue_filters, the one row, or None when there is none
    lastPick,   \* the filters the user chose last, in any tab
    tab,        \* [Tab -> state of its IssueTrackerModal]
    asks,       \* [Tab -> list requests, oldest first]
    own,        \* [Tab -> [Issue -> version the tab's own last edit made]]
    steps       \* picks, changes and openings so far

tvars == <<env, ledger, saved, lastPick, tab, asks, own, steps>>

\* A list request: what it asks for and, once served, what it was answered.
Ask == [all : BOOLEAN, rows : [Issue -> Row] \cup {None}]

Modal == [open : BOOLEAN, loading : BOOLEAN, loaded : BOOLEAN,
          filters : Filters, timer : Filters \cup {None},
          rows : [Issue -> Row], all : BOOLEAN, fetched : BOOLEAN,
          after : BOOLEAN \cup {None}]

TrackerTypeOK ==
    /\ env \in TrackerEnvs
    /\ ledger \in [Issue -> Row]
    /\ saved \in Filters \cup {None} /\ lastPick \in Filters
    /\ tab \in [Tab -> Modal]
    /\ asks \in [Tab -> Seq(Ask)] /\ \A t \in Tab : Len(asks[t]) <= MaxAsks
    /\ own \in [Tab -> [Issue -> 0 .. MaxChanges]]
    /\ steps \in [picks : 0 .. MaxPicks, changes : 0 .. MaxChanges, opens : 0 .. MaxOpens]

TrackerInit ==
    /\ env \in TrackerEnvs
    /\ ledger \in [Issue -> [owner : Owner, state : {"todo"}, session : Slice,
                             approved : {FALSE}, deleted : {FALSE}, ver : {0}]]
    /\ saved \in {None, DEFAULT_FILTERS} /\ lastPick = DEFAULT_FILTERS
    /\ tab = [t \in Tab |-> [open |-> FALSE, loading |-> FALSE, loaded |-> FALSE,
                             filters |-> DEFAULT_FILTERS, timer |-> None,
                             rows |-> ledger, all |-> FALSE, fetched |-> FALSE,
                             after |-> None]]
    /\ asks = [t \in Tab |-> <<>>]
    /\ own = [t \in Tab |-> [i \in Issue |-> 0]]
    /\ steps = [picks |-> 0, changes |-> 0, opens |-> 0]

-----------------------------------------------------------------------------
(* The predicates of utils/issues.ts: an empty axis is an unfiltered one.  *)

isAwaitingApproval(r) == r.state = "done" /\ ~ r.approved
ownerMatches(r, f)    == f.owners = {} \/ r.owner \in f.owners
stateMatches(r, f)    == f.states = {} \/ r.state \in f.states
sessionMatches(r, f)  == f.sessionIds = {} \/ r.session \in f.sessionIds
isVisible(r, f) ==
    /\ sessionMatches(r, f)
    /\ isAwaitingApproval(r) \/ (ownerMatches(r, f) /\ stateMatches(r, f))

\* The rows a tab holds, those on its screen, and the rows a chip counts: its
\* own axis is left out.
pool(t) == {i \in Issue : tab[t].fetched /\ (tab[t].all \/ ~ tab[t].rows[i].deleted)}
visible(t, f)     == {i \in pool(t) : isVisible(tab[t].rows[i], f)}
ownerCounts(t, o) == {i \in pool(t) : LET r == tab[t].rows[i] IN
                        /\ r.owner = o
                        /\ stateMatches(r, tab[t].filters) /\ sessionMatches(r, tab[t].filters)}
stateCounts(t, s) == {i \in pool(t) : LET r == tab[t].rows[i] IN
                        /\ r.state = s
                        /\ ownerMatches(r, tab[t].filters) /\ sessionMatches(r, tab[t].filters)}

-----------------------------------------------------------------------------
(* The effect that saves the filters: whenever filters, open or loaded     *)
(* change, the pending save is dropped, and a new one begins if the        *)
(* tracker is open and the saved filters have been loaded.                 *)
\*
\* Mutant of effect: it does not wait for the saved filters.
effectUnloaded(m) == [m EXCEPT !.timer = IF m.open THEN m.filters ELSE None]
effect(m) == [m EXCEPT !.timer = IF m.open /\ m.loaded THEN m.filters ELSE None]

refetch(t, all) ==
    /\ Len(asks[t]) < MaxAsks
    /\ asks' = [asks EXCEPT ![t] = Append(@, [all |-> all, rows |-> None])]

Settled(t) == ~ tab[t].loading /\ tab[t].timer = None /\ tab[t].after = None
savedFilters == IF saved = None THEN DEFAULT_FILTERS ELSE saved
Quiet == "hasty" \in env \/ \A t \in Tab : Settled(t)

openTracker(t) ==
    /\ ~ tab[t].open /\ steps.opens < MaxOpens
    /\ tab[t].loaded => "reopen" \in env
    /\ Quiet
    /\ tab' = [tab EXCEPT ![t] = effect([@ EXCEPT !.open = TRUE, !.loading = TRUE])]
    /\ steps' = [steps EXCEPT !.opens = @ + 1]
    /\ UNCHANGED <<env, ledger, saved, lastPick, asks, own>>

\* handleGetIssueFilters and its answer: the filters are shown, and the list
\* is fetched as they ask.
filtersLoaded(t) ==
    /\ tab[t].loading
    /\ LET f == savedFilters IN
       /\ tab' = [tab EXCEPT ![t] = effect([@ EXCEPT !.loading = FALSE, !.loaded = TRUE,
                                                     !.filters = f])]
       /\ refetch(t, f.showDeleted)
    /\ UNCHANGED <<env, ledger, saved, lastPick, own, steps>>

\* The call failed: the defaults stay, and count as loaded.
filtersNotLoaded(t) ==
    /\ "blip" \in env /\ tab[t].loading
    /\ tab' = [tab EXCEPT ![t] = effect([@ EXCEPT !.loading = FALSE, !.loaded = TRUE])]
    /\ refetch(t, FALSE)
    /\ UNCHANGED <<env, ledger, saved, lastPick, own, steps>>

\* The debounce runs out, and handleSetIssueFilters.
saveFilters(t) ==
    /\ tab[t].timer # None
    /\ tab[t].loading => "slow" \in env
    /\ saved' = tab[t].timer
    /\ tab' = [tab EXCEPT ![t].timer = None]
    /\ UNCHANGED <<env, ledger, lastPick, asks, own, steps>>

\* A pick in the filter bar; the bin and the reset fetch the list again.
setFilters(t, f) ==
    /\ tab[t].open /\ f # tab[t].filters /\ steps.picks < MaxPicks
    /\ Quiet
    /\ tab' = [tab EXCEPT ![t] = effect([@ EXCEPT !.filters = f])]
    /\ lastPick' = f
    /\ steps' = [steps EXCEPT !.picks = @ + 1]
    /\ IF f.showDeleted # tab[t].filters.showDeleted \/ f = DEFAULT_FILTERS
       THEN refetch(t, f.showDeleted) ELSE UNCHANGED asks
    /\ UNCHANGED <<env, ledger, saved, own>>

closeTracker(t) ==
    /\ tab[t].open
    /\ "hasty" \in env \/ Settled(t)
    /\ tab' = [tab EXCEPT ![t] = effect([@ EXCEPT !.open = FALSE])]
    /\ UNCHANGED <<env, ledger, saved, lastPick, asks, own, steps>>

-----------------------------------------------------------------------------
(* The list and the edits.                                                 *)

listServed(t, k) ==
    /\ asks[t][k].rows = None
    /\ asks' = [asks EXCEPT ![t][k].rows = ledger]
    /\ UNCHANGED <<env, ledger, saved, lastPick, tab, own, steps>>

listArrived(t, k) ==
    /\ asks[t][k].rows # None
    /\ k = 1 \/ "reorder" \in env
    /\ tab' = [tab EXCEPT ![t].rows = asks[t][k].rows, ![t].all = asks[t][k].all,
                          ![t].fetched = TRUE]
    /\ asks' = [asks EXCEPT ![t] = RemoveAt(@, k)]
    /\ UNCHANGED <<env, ledger, saved, lastPick, own, steps>>

\* A request that fails leaves the previous list.
listFailed(t, k) ==
    /\ "blip" \in env
    /\ asks' = [asks EXCEPT ![t] = RemoveAt(@, k)]
    /\ UNCHANGED <<env, ledger, saved, lastPick, tab, own, steps>>

\* What an edit makes of a row: a close by the user needs no sign-off, one by
\* Claude Code does, and a reopening takes the sign-off back.
Stamped(r, s) == [r EXCEPT !.ver = s]
Edits(r, actor) ==
    {[r EXCEPT !.owner = o] : o \in Owner} \cup
    {[r EXCEPT !.state = "todo", !.approved = FALSE]} \cup
    {[r EXCEPT !.state = "done", !.approved = IF r.state = "done" THEN @ ELSE actor = "user"]}

\* A call of the tab changes row i; the bin's setting of the moment is what
\* the list will be fetched with once it is answered.
edited(t, i, r) ==
    /\ steps.changes < MaxChanges /\ tab[t].after = None
    /\ "hasty" \in env \/ ~ tab[t].loading
    /\ ledger' = [ledger EXCEPT ![i] = Stamped(r, steps.changes + 1)]
    /\ own' = [own EXCEPT ![t][i] = steps.changes + 1]
    /\ steps' = [steps EXCEPT !.changes = @ + 1]
    /\ tab' = [tab EXCEPT ![t].after = tab[t].filters.showDeleted]
    /\ UNCHANGED <<env, saved, lastPick, asks>>

afterMutation(t) ==
    /\ tab[t].after # None
    /\ refetch(t, tab[t].after)
    /\ tab' = [tab EXCEPT ![t].after = None]
    /\ UNCHANGED <<env, ledger, saved, lastPick, own, steps>>

Shows(t, i) == tab[t].open /\ i \in visible(t, tab[t].filters)

\* The chips of a row, and the editor's save, which sends every field the
\* row had when the editor was opened.
quickSet(t, i) ==
    /\ Shows(t, i) /\ ~ tab[t].rows[i].deleted /\ ~ ledger[i].deleted
    /\ \E r \in Edits(ledger[i], "user") : r # ledger[i] /\ edited(t, i, r)
submitDraft(t, i) ==
    /\ Shows(t, i) /\ ~ tab[t].rows[i].deleted /\ ~ ledger[i].deleted
    /\ \E r \in Edits(tab[t].rows[i], "user") :
          edited(t, i, [r EXCEPT !.approved = IF r.state = "done" THEN @ \/ ledger[i].state # "done"
                                              ELSE FALSE])
approve(t, i) ==
    /\ Shows(t, i) /\ isAwaitingApproval(tab[t].rows[i])
    /\ isAwaitingApproval(ledger[i]) /\ ~ ledger[i].deleted
    /\ edited(t, i, [ledger[i] EXCEPT !.approved = TRUE])
sendBack(t, i) ==
    /\ Shows(t, i) /\ isAwaitingApproval(tab[t].rows[i])
    /\ ledger[i].state = "done" /\ ~ ledger[i].deleted
    /\ edited(t, i, [ledger[i] EXCEPT !.state = "todo", !.approved = FALSE])
deleteIssue(t, i) ==
    /\ Shows(t, i) /\ ~ tab[t].rows[i].deleted /\ ~ ledger[i].deleted
    /\ edited(t, i, [ledger[i] EXCEPT !.deleted = TRUE])
restoreIssue(t, i) ==
    /\ Shows(t, i) /\ tab[t].rows[i].deleted /\ ledger[i].deleted
    /\ edited(t, i, [ledger[i] EXCEPT !.deleted = FALSE])

\* A chip, a sign-off or a deletion of a row that is no longer what the tab
\* shows is refused, says so, and fetches the list like any other.
editRefused(t, i) ==
    /\ Shows(t, i) /\ tab[t].after = None
    /\ "hasty" \in env \/ ~ tab[t].loading
    /\ \/ ledger[i].deleted # tab[t].rows[i].deleted
       \/ isAwaitingApproval(tab[t].rows[i]) /\ ~ isAwaitingApproval(ledger[i])
    /\ tab' = [tab EXCEPT ![t].after = tab[t].filters.showDeleted]
    /\ UNCHANGED <<env, ledger, saved, lastPick, asks, own, steps>>

\* Claude Code works on an issue meanwhile; the page is not told.
ccUpdates(i) ==
    /\ steps.changes < MaxChanges /\ ~ ledger[i].deleted
    /\ \E r \in Edits(ledger[i], "cc") :
          r # ledger[i] /\ ledger' = [ledger EXCEPT ![i] = Stamped(r, steps.changes + 1)]
    /\ steps' = [steps EXCEPT !.changes = @ + 1]
    /\ UNCHANGED <<env, saved, lastPick, tab, asks, own>>

TrackerNext ==
    \/ \E t \in Tab :
         \/ openTracker(t) \/ filtersLoaded(t) \/ filtersNotLoaded(t)
         \/ saveFilters(t) \/ closeTracker(t) \/ afterMutation(t)
         \/ \E f \in Pick : setFilters(t, f)
         \/ \E k \in DOMAIN asks[t] : listServed(t, k) \/ listArrived(t, k) \/ listFailed(t, k)
         \/ \E i \in Issue : \/ quickSet(t, i) \/ submitDraft(t, i) \/ approve(t, i)
                             \/ sendBack(t, i) \/ deleteIssue(t, i) \/ restoreIssue(t, i)
                             \/ editRefused(t, i)
    \/ \E i \in Issue : ccUpdates(i)

TrackerSpec == TrackerInit /\ [][TrackerNext]_tvars

-----------------------------------------------------------------------------
(* Properties.                                                             *)

\* Once every tab has settled, the filters in the database are the ones the
\* user chose last, in whatever browser: opening the tracker elsewhere never
\* writes an older setting, or the defaults, over them.
LastPickKept == (\A t \in Tab : Settled(t)) => savedFilters = lastPick

\* Once its requests are answered, a tab's list shows the edits made in it,
\* and holds deleted issues exactly when the bin is on.
OwnEditsShow ==
    \A t \in Tab : (asks[t] = <<>> /\ tab[t].fetched /\ tab[t].after = None) =>
        /\ \A i \in Issue : tab[t].rows[i].ver >= own[t][i]
        /\ tab[t].loading \/ tab[t].all = tab[t].filters.showDeleted

\* A chip that is off counts every row that pressing it would bring up, and no
\* row that would still not be on screen.
CountsReveal ==
    \A t \in Tab : LET f == tab[t].filters IN
        /\ \A o \in Owner : LET g == [f EXCEPT !.owners = @ \cup {o}] IN
             /\ visible(t, g) \ visible(t, f) \subseteq ownerCounts(t, o)
             /\ ownerCounts(t, o) \subseteq visible(t, g)
        /\ \A s \in State : LET g == [f EXCEPT !.states = @ \cup {s}] IN
             /\ visible(t, g) \ visible(t, f) \subseteq stateCounts(t, s)
             /\ stateCounts(t, s) \subseteq visible(t, g)

-----------------------------------------------------------------------------
(* The inductive invariant, of users who wait for what they began.         *)

\* One tab at a time loads or saves.  What it loads, and what is in the database
\* when none does, is what was picked last; and so is what it is about to save,
\* unless it is loading, when it does not save.
Busy(t) == tab[t].loading \/ tab[t].timer # None
PicksInTurn ==
    /\ \A t, u \in Tab : Busy(t) /\ Busy(u) => t = u
    /\ (\A t \in Tab : ~ Busy(t)) => savedFilters = lastPick
    /\ \A t \in Tab :
         /\ tab[t].loading => savedFilters = lastPick /\ (tab[t].timer = None \/ "slow" \notin env)
         /\ ~ tab[t].loading => tab[t].timer \in {None, lastPick}
         /\ tab[t].open => tab[t].loading \/ tab[t].loaded

\* The list that comes last has the tab's own edits, and is the one its bin
\* asks for; or another will be asked for that is.
Holds(t, rows) == \A i \in Issue : rows[i].ver >= own[t][i]
ListFollows(t) ==
    IF tab[t].after # None
    THEN ~ tab[t].loading /\ tab[t].after = tab[t].filters.showDeleted
    ELSE IF asks[t] = <<>>
    THEN /\ Holds(t, tab[t].rows)
         /\ tab[t].fetched => tab[t].loading \/ tab[t].all = tab[t].filters.showDeleted
    ELSE LET last == Last(asks[t]) IN
         /\ last.rows = None \/ Holds(t, last.rows)
         /\ tab[t].loading \/ last.all = tab[t].filters.showDeleted

TrackerInv ==
    /\ TrackerTypeOK
    /\ PicksInTurn
    /\ \A t \in Tab : ListFollows(t) /\ Holds(t, ledger)
    /\ \A i \in Issue : ledger[i].ver =< steps.changes
=============================================================================
