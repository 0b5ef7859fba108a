------------------------------- MODULE LiveBoard -------------------------------
(***************************************************************************)
(* How the page of a board keeps up with the broker.  A socket brings       *)
(* frames that only say "something changed": the page answers some with the *)
(* full view and some with a delta, everything since the newest item it     *)
(* holds, which it merges into what it shows.  Frames are lost while the    *)
(* socket is down, so every (re)connection fetches the full view.           *)
(*                                                                         *)
(* Sources: web/components/BoardApp.tsx, web/utils/liveSocket.ts,          *)
(* web/utils/boardDelta.ts, web/utils/boardCache.ts, broker/helpers.ts,    *)
(* broker/ws.ts.                                                           *)
(***************************************************************************)
EXTENDS Naturals, FiniteSets, Sequences, SequencesExt

CONSTANTS
  Board,        \* boards
  Home,         \* the board that is opened first
  Node,         \* nodes of a board
  NoView, Error,
  MaxEvents,    \* bound: changes of the boards
  MaxFaults,    \* bound: connections lost, requests that fail, and navigations
  Env           \* see LiveEnvKind

(***************************************************************************)
(* "drop":     connections are lost, silently or by freezing the tab.      *)
(* "fail":     requests fail.                                              *)
(* "switch":   the user navigates to another board, and back.              *)
(* "overtake": requests travel on connections of their own: a later one may *)
(*             be answered first, or its answer arrive first (a full view is *)
(*             megabytes on a big board).                                  *)
(***************************************************************************)
LiveEnvKind == {"drop", "fail", "switch", "overtake"}

ASSUME LiveEnvAssumption == Env \subseteq LiveEnvKind
ASSUME HomeAssumption == Home \in Board
ASSUME NoViewAssumption ==
  NoView \notin [board : Board, items : SUBSET Nat, read : SUBSET Nat,
                 nodes : SUBSET Node, header : Nat]
ASSUME LiveBoundsAssumption == MaxEvents \in Nat /\ MaxFaults \in Nat

VARIABLES
  server,    \* the boards as the broker has them
  here,      \* the board of the URL
  view,      \* what the page shows
  failed,    \* the page shows an error
  cache,     \* the last views written to IndexedDB
  caching,   \* the read of the cache is under way
  requests,  \* requests of the page, oldest first
  inFlight,  \* deltaInFlightRef is set
  again,     \* deltaAgainRef
  sock,      \* the socket
  frames,    \* frames on their way to the page
  bounds     \* events and faults so far

pvars == <<server, here, view, failed, cache, caching, requests, inFlight, again,
           sock, frames, bounds>>
fetching == <<requests, inFlight, again>>
socket == <<sock, frames>>

\* A view: the items (numbered as they arrive), which of them are read, the
\* nodes, and the header with the statuses.
View == [board : Board, items : SUBSET (1..MaxEvents), read : SUBSET (1..MaxEvents),
         nodes : SUBSET Node, header : 0..MaxEvents]

\* stale: a full fetch has started since.  reply: what the broker answered.
Request == [kind : {"full", "delta"}, board : Board, after : 0..MaxEvents,
            stale : BOOLEAN, reply : View \cup {NoView, Error}]

\* "accepted": the broker has subscribed the socket, and the page does not know.
SockState == {"down", "accepted", "open"}

\* The frames the page answers with a delta, and those with the full view.
Frame == {"thread-update", "structure-update"}

maxThreadItemId(v) == IF v.items = {} THEN 0 ELSE Max(v.items)

\* Types; no view marks an item as read that it does not hold, and no delta is
\* asked for from beyond the newest item there is.
LBTypeOK ==
  /\ server \in [Board -> View] /\ here \in Board
  /\ view \in View \cup {NoView} /\ (view # NoView => view.read \subseteq view.items)
  /\ cache \in [Board -> View \cup {NoView}]
  /\ failed \in BOOLEAN /\ caching \in BOOLEAN
  /\ requests \in Seq(Request)
  /\ \A i \in DOMAIN requests :
       requests[i].after =< maxThreadItemId(server[requests[i].board])
  /\ inFlight \in BOOLEAN /\ again \in BOOLEAN
  /\ sock \in SockState /\ frames \in Seq(Frame)
  /\ bounds \in [events : 0..MaxEvents, faults : 0..MaxFaults]

FullOf(b) == [kind |-> "full", board |-> b, after |-> 0, stale |-> FALSE, reply |-> NoView]

DeltaOf(v) == [kind |-> "delta", board |-> here, after |-> maxThreadItemId(v),
               stale |-> FALSE, reply |-> NoView]

\* fetchBoard: whatever delta is under way is superseded.
WithFull(rs, b) ==
  Append([i \in DOMAIN rs |-> [rs[i] EXCEPT !.stale = @ \/ rs[i].kind = "delta"]], FullOf(b))

PInit ==
  /\ server \in [Board -> {[board |-> b, items |-> {}, read |-> {}, nodes |-> {},
                            header |-> 0] : b \in Board}]
  /\ \A b \in Board : server[b].board = b
  /\ here = Home /\ view = NoView /\ failed = FALSE
  /\ cache = [b \in Board |-> NoView] /\ caching = FALSE
  /\ requests = <<FullOf(here)>> /\ inFlight = FALSE /\ again = FALSE
  /\ sock = "down" /\ frames = <<>>
  /\ bounds = [events |-> 0, faults |-> 0]

Spend(kind, max) ==
  /\ bounds[kind] < max
  /\ bounds' = [bounds EXCEPT ![kind] = @ + 1]

-----------------------------------------------------------------------------
(* The broker *)

\* Every subscriber of the board is told, after the tables have changed.
broadcast(b, frame) ==
  frames' = IF b = here /\ sock \in {"accepted", "open"} THEN Append(frames, frame)
                                                         ELSE frames

Change(b, new, frame) ==
  /\ Spend("events", MaxEvents)
  /\ server' = [server EXCEPT ![b] = new]
  /\ broadcast(b, frame)
  /\ UNCHANGED <<here, view, failed, cache, caching, fetching, sock>>

handlePostToNode(b) ==
  LET new == maxThreadItemId(server[b]) + 1
  IN  Change(b, [server[b] EXCEPT !.items = @ \cup {new}], "thread-update")

handleMarkBoardRead(b) ==
  /\ server[b].read # server[b].items
  /\ Change(b, [server[b] EXCEPT !.read = server[b].items], "thread-update")

\* Statuses, and what the header shows of the owner.
handleSetNodeStatus(b) ==
  Change(b, [server[b] EXCEPT !.header = @ + 1], "thread-update")

\* A node is added or deleted.
restructure(b, n) ==
  Change(b, [server[b] EXCEPT !.nodes = IF n \in @ THEN @ \ {n} ELSE @ \cup {n}],
         "structure-update")

\* getBoardView, getBoardThreadDelta: one snapshot; a delta carries the items
\* after the given one only, see mergeBoardDelta.
answer(i) ==
  /\ requests[i].reply = NoView
  /\ "overtake" \in Env \/ \A j \in 1..(i - 1) : requests[j].reply # NoView
  /\ \/ requests' = [requests EXCEPT ![i].reply = server[requests[i].board]]
        /\ UNCHANGED bounds
     \/ /\ "fail" \in Env /\ Spend("faults", MaxFaults)
        /\ requests' = [requests EXCEPT ![i].reply = Error]
  /\ UNCHANGED <<server, here, view, failed, cache, caching, inFlight, again, socket>>

-----------------------------------------------------------------------------
(* The page: views *)

\* The view with the delta: new items, the read state of what the broker could
\* see, and the statuses.  Deleted nodes stay.
mergeBoardDelta(v, delta, after) ==
  LET new  == {i \in delta.items : i > after}
      seen == IF new = {} THEN after ELSE Max(new)
      all  == v.items \cup new
  IN  [v EXCEPT !.items = all,
                !.read = {i \in all : IF i > seen THEN i \in v.read ELSE i \in delta.read},
                !.header = delta.header]

\* A delta that names a node the view does not know cannot be merged.
Mergeable(v, delta) == delta.nodes \subseteq v.nodes

\* One round of syncDelta over view v, with requests rs under way: a full fetch
\* if there is nothing to merge into.
Round(v, rs) ==
  LET usable == v # NoView /\ v.board = here
  IN  /\ again' = FALSE /\ inFlight' = usable
      /\ requests' = IF usable THEN Append(rs, DeltaOf(v)) ELSE WithFull(rs, here)

syncDelta ==
  IF inFlight THEN again' = TRUE /\ UNCHANGED <<requests, inFlight>>
              ELSE Round(view, requests)

\* The end of a round: another if something happened meanwhile.
Continue(v, rs) ==
  IF again THEN Round(v, rs)
           ELSE requests' = rs /\ inFlight' = FALSE /\ UNCHANGED again

Finish(rs) == requests' = rs /\ inFlight' = FALSE /\ UNCHANGED again

\* Answers arrive in the order of the requests, unless one overtakes another.
Arrives(i, kind) ==
  /\ requests[i].kind = kind /\ requests[i].reply # NoView
  /\ i = 1 \/ "overtake" \in Env

landFull(i) ==
  LET r == requests[i]
  IN  /\ Arrives(i, "full")
      /\ requests' = RemoveAt(requests, i)
      /\ failed' = (failed \/ (r.board = here /\ r.reply = Error))
      /\ view' = IF r.board = here /\ r.reply # Error THEN r.reply ELSE view
      /\ UNCHANGED <<server, here, cache, caching, inFlight, again, socket, bounds>>

landDelta(i) ==
  LET r    == requests[i]
      rest == RemoveAt(requests, i)
      mine == view # NoView /\ view.board = here
      new  == mergeBoardDelta(view, r.reply, r.after)
  IN  /\ Arrives(i, "delta")
      /\ \/ r.board # here /\ Finish(rest) /\ UNCHANGED view
         \/ r.board = here /\ r.reply = Error
              /\ Finish(WithFull(rest, here)) /\ UNCHANGED view
         \/ r.board = here /\ r.reply # Error /\ r.stale
              /\ Continue(view, rest) /\ UNCHANGED view
         \/ r.board = here /\ r.reply # Error /\ ~r.stale /\ ~mine
              /\ Finish(rest) /\ UNCHANGED view
         \/ r.board = here /\ r.reply # Error /\ ~r.stale /\ mine
              /\ IF Mergeable(view, r.reply)
                   THEN view' = new /\ Continue(new, rest)
                   ELSE Finish(WithFull(rest, here)) /\ UNCHANGED view
      /\ UNCHANGED <<server, here, failed, cache, caching, socket, bounds>>

\* (Mutation: the cached view is rendered whatever is on the page by now.)
readBoardCacheAnyway ==
  /\ caching /\ caching' = FALSE
  /\ view' = IF cache[here] = NoView THEN view ELSE cache[here]
  /\ UNCHANGED <<server, here, failed, cache, fetching, socket, bounds>>

\* The cached view is for a page that has none of this board yet.
readBoardCache ==
  /\ caching /\ caching' = FALSE
  /\ view' = IF cache[here] # NoView /\ (view = NoView \/ view.board # here)
               THEN cache[here] ELSE view
  /\ UNCHANGED <<server, here, failed, cache, fetching, socket, bounds>>

\* The user navigates: the view of the old board stays until there is another.
\* The write of the cache is debounced: it may not have come to the last view.
navigate(b) ==
  /\ cache' \in {cache} \cup {[cache EXCEPT ![v.board] = v] : v \in {view} \ {NoView}}
  /\ "switch" \in Env /\ b # here /\ Spend("faults", MaxFaults)
  /\ here' = b /\ failed' = FALSE /\ caching' = TRUE
  /\ requests' = WithFull(requests, b) /\ inFlight' = FALSE /\ again' = FALSE
  /\ sock' = "down" /\ frames' = <<>>
  /\ UNCHANGED <<server, view>>

-----------------------------------------------------------------------------
(* The page: the socket *)

connect ==
  /\ sock = "down" /\ sock' = "accepted"
  /\ UNCHANGED <<server, here, view, failed, cache, caching, fetching, frames, bounds>>

\* (Mutation: nothing is fetched when the socket opens.)
onopenOnly ==
  /\ sock = "accepted" /\ sock' = "open"
  /\ UNCHANGED <<server, here, view, failed, cache, caching, fetching, frames, bounds>>

onopen ==
  /\ sock = "accepted" /\ sock' = "open"
  /\ requests' = WithFull(requests, here)
  /\ UNCHANGED <<server, here, view, failed, cache, caching, inFlight, again, frames,
                 bounds>>

onmessage ==
  /\ sock = "open" /\ frames # <<>>
  /\ frames' = Tail(frames)
  /\ IF Head(frames) = "thread-update"
       THEN syncDelta
       ELSE requests' = WithFull(requests, here) /\ UNCHANGED <<inFlight, again>>
  /\ UNCHANGED <<server, here, view, failed, cache, caching, sock, bounds>>

\* The connection goes, silently or with the tab that is frozen, and whatever was
\* on it; the page retries after the backoff, or when it is resumed.
drop ==
  /\ "drop" \in Env /\ sock # "down" /\ Spend("faults", MaxFaults)
  /\ sock' = "down" /\ frames' = <<>>
  /\ UNCHANGED <<server, here, view, failed, cache, caching, fetching>>

-----------------------------------------------------------------------------
PNext ==
  \/ \E b \in Board :
       \/ handlePostToNode(b) \/ handleMarkBoardRead(b) \/ handleSetNodeStatus(b)
       \/ \E n \in Node : restructure(b, n)
       \/ navigate(b)
  \/ \E i \in DOMAIN requests : answer(i) \/ landFull(i) \/ landDelta(i)
  \/ readBoardCache \/ connect \/ onopen \/ onmessage \/ drop

PSpec == PInit /\ [][PNext]_pvars

(***************************************************************************)
(* The broker answers, answers arrive, and a socket that is down is retried *)
(* (a frozen tab is resumed).  Nothing else has to happen.                 *)
(***************************************************************************)
PFairness ==
  /\ WF_pvars(\E i \in DOMAIN requests : answer(i))
  /\ WF_pvars(\E i \in DOMAIN requests : landFull(i) \/ landDelta(i))
  /\ WF_pvars(connect \/ onopen)
  /\ WF_pvars(onmessage)

PFairSpec == PSpec /\ PFairness

-----------------------------------------------------------------------------
(* Properties *)

\* A delta is "everything since the newest item held", so a page holds every
\* item of the board up to the newest it holds: an item that is skipped once is
\* not asked for again.
NoGaps == view # NoView => view.items = 1..maxThreadItemId(view)

\* When the changes have stopped, the page comes to show the board of the URL as
\* it is, and goes on showing it, or it shows an error.
CatchesUp == <>[](failed \/ view = server[here])
=============================================================================
