------------------------------- MODULE MapCanvas -------------------------------
(***************************************************************************)
(* A map: a graph of cards that Claude Code grows and the user lays out.    *)
(* The user's gestures show on the canvas at once and are posted to the     *)
(* broker; the broker says "something changed" to every open page, and the  *)
(* page answers with a fetch of the whole map.  Deletions are logical and   *)
(* can be undone, as can moves and new frames.                              *)
(*                                                                         *)
(* Sources: broker/maps.ts, web/components/MapView.tsx, web/utils/api.ts.  *)
(***************************************************************************)
EXTENDS Naturals, FiniteSets, Sequences, Basics

CONSTANTS
  Card, Frame,   \* map_nodes and map_frames
  Edge,          \* ids of map_edges
  Pos,           \* places (and sizes) of a card or frame
  NoMap,         \* no answer yet
  MaxGestures,   \* bound: gestures of the user
  MaxOps,        \* bound: calls of Claude Code
  MaxFaults,     \* bound: failed posts and failures of the socket
  MaxFetches,    \* bound: fetches in flight
  MaxDragged,    \* bound: cards and frames dragged at once
  Env            \* see MapEnvKind

(***************************************************************************)
(* "drop":     the socket is down for a while.                             *)
(* "refuse":   a post does not get through.                                *)
(* "overtake": the answers of two fetches arrive in the other order.       *)
(***************************************************************************)
MapEnvKind == {"drop", "refuse", "overtake"}

VARIABLES
  map,      \* the rows of the broker
  page,     \* what the canvas shows
  drag,     \* where what is being dragged was when the drag began
  undo,     \* undoStack
  toast,    \* the deletion that the toast on the screen offers to undo
  posts,    \* posts on their way
  waits,    \* what the page does when the posts of a gesture are answered
  frame,    \* a map-update is on its way to the page
  up,       \* the socket is up
  fetches,  \* fetches of the map, oldest first
  told,     \* history: what the user was told is restored
  amiss,    \* history: a post or fetch failed, or an old answer was applied, and no newer one
  steps     \* gestures and calls so far

mvars == <<map, page, drag, undo, toast, posts, waits, frame, up, fetches, told, amiss, steps>>
canvas == <<page, drag, undo, toast>>
net == <<frame, up, fetches>>

Item == Card \cup Frame
Ends == {p \in Card \X Card : p[1] # p[2]}
Nowhere == <<>>

Row == [state : {"none", "live", "deleted"}, pos : Pos]
Live(m, x) == m.items[x].state = "live"

\* getMapView: live cards and frames, and the live edges between live cards.
getMapView(m) ==
  [at |-> [x \in {y \in Item : Live(m, y)} |-> m.items[x].pos],
   edges |-> {e \in Edge : m.edges[e].live /\ \A i \in {1, 2} : Live(m, m.edges[e].ends[i])}]

\* A post of the page about ids.  "at" is where to (move) or from and to (connect).
Op == {"delete", "restore", "move", "add", "connect"}

\* What an edge is called before the broker has named it.
Provisional == Ends

MTypeOK ==
  /\ map.items \in [Item -> Row]
  /\ \A e \in Edge : map.edges[e].ends \in Ends \cup {Nowhere} /\ map.edges[e].live \in BOOLEAN
  /\ DOMAIN page.at \subseteq Item /\ \A x \in DOMAIN page.at : page.at[x] \in Pos
  /\ page.edges \subseteq Edge \cup Provisional
  /\ DOMAIN drag \subseteq Item /\ \A x \in DOMAIN drag : drag[x] \in Pos
  /\ \A i \in DOMAIN undo : undo[i].kind \in {"delete", "add", "move"}
  /\ \A t \in toast : t.kind = "delete"
  /\ \A p \in posts : p.g \in 1..MaxGestures /\ p.op \in Op
  /\ \A w \in waits : w.kind \in {"delete", "undo", "connect", "add"} /\ w.failed \in BOOLEAN
  /\ frame \in BOOLEAN /\ up \in BOOLEAN /\ (frame => up)
  /\ told \subseteq Item \cup Edge
  /\ steps \in [user : 0..MaxGestures, cc : 0..MaxOps, faults : 0..MaxFaults]
  /\ Len(fetches) =< MaxFetches

-----------------------------------------------------------------------------
(* The handlers of broker/maps.ts: what becomes of the rows *)

\* deleted_at is set, whatever it was.
softDelete(m, x) == [m EXCEPT !.items[x].state = "deleted"]
softDeleteMapEdge(m, e) == [m EXCEPT !.edges[e].live = FALSE]
Place(m, x, p) == [m EXCEPT !.items[x].pos = p]

Fresh(m) == {e \in Edge : m.edges[e].ends = Nowhere}

insertMapEdge(m, ends) ==
  LET e == CHOOSE f \in Fresh(m) : TRUE
  IN  [m EXCEPT !.edges[e] = [ends |-> ends, live |-> TRUE]]

\* An edge of this pair that is not deleted covers it.
Covered(m, ends) == \E e \in Edge : m.edges[e].ends = ends /\ m.edges[e].live

Connects(m, ends) ==
  Live(m, ends[1]) /\ Live(m, ends[2]) /\ ~Covered(m, ends) /\ Fresh(m) # {}

\* A place that is free: which one the properties do not ask.
placeNode == CHOOSE p \in Pos : TRUE

\* A parent that is live gets the edge.
addNode(m, x, p, parents) ==
  LET added == [m EXCEPT !.items[x] = [state |-> "live", pos |-> p]]
  IN  IF parents = {} THEN added
      ELSE insertMapEdge(added, <<CHOOSE y \in parents : TRUE, x>>)

Added(m) ==
  {addNode(m, x, placeNode, parents) :
     x \in {y \in Card : m.items[y].state = "none"},
     parents \in {{}} \cup {{y} : y \in {z \in Card : Live(m, z) /\ Fresh(m) # {}}}}

Moved(m) == {Place(m, x, p) : x \in {y \in Card : Live(m, y)}, p \in Pos}
Deleted(m) == {softDelete(m, x) : x \in {y \in Card : Live(m, y)}}
Connected(m) == {insertMapEdge(m, ends) : ends \in {q \in Ends : Connects(m, q)}}
Disconnected(m) == {softDeleteMapEdge(m, e) : e \in {f \in Edge : m.edges[f].live}}

\* Every page that is open is told, if its socket is up.
emit == frame' = up

\* What Claude Code deletes is no longer promised to the user.
Gone(m) == {x \in Item : m.items[x].state = "deleted"} \cup {e \in Edge : ~m.edges[e].live}

ccCall(m) ==
  /\ steps.cc < MaxOps /\ steps' = [steps EXCEPT !.cc = @ + 1]
  /\ map' = m
  /\ LET gone == Gone(m) \ Gone(map)
     IN  /\ told' = told \ gone
         /\ waits' = {[w EXCEPT !.ids = IF w.kind = "undo" THEN @ \ gone ELSE @] : w \in waits}
  /\ emit
  /\ UNCHANGED <<canvas, posts, up, fetches, amiss>>

handleAddMapNode == \E m \in Added(map) : ccCall(m)
\* Content, title and messages: nothing the properties tell apart.
handleUpdateMapNode == ccCall(map)
handleMoveMapNode == \E m \in Moved(map) : ccCall(m)
handleDeleteMapNode == \E m \in Deleted(map) : ccCall(m)
handleConnectMap == \E m \in Connected(map) : ccCall(m)
handleDisconnectMap == \E m \in Disconnected(map) : ccCall(m)

\* A batch: one operation after another, those that are refused skipped, and one
\* broadcast.
handleApplyMapOps ==
  LET One(m) == Added(m) \cup Deleted(m) \cup Connected(m) \cup Disconnected(m)
  IN  \E n \in {map} \cup UNION {One(m) : m \in One(map)} : ccCall(n)

-----------------------------------------------------------------------------
(* The posts of the page *)

\* handleRestoreMap, handleRestoreMapFrame
Restored(m, ids) ==
  [items |-> [x \in Item |-> IF x \in ids THEN [m.items[x] EXCEPT !.state = "live"]
                                          ELSE m.items[x]],
   edges |-> [e \in Edge |-> IF e \in ids THEN [m.edges[e] EXCEPT !.live = TRUE]
                                          ELSE m.edges[e]]]

\* A refused call answers ok: false, with status 200, and tells nobody.
Refused(m, p) ==
  CASE p.op = "move" -> \E x \in p.ids : ~Live(m, x)
    [] p.op = "delete" -> \E x \in p.ids \cap Card : ~Live(m, x)
    [] p.op = "connect" -> ~(Live(m, p.at[1]) /\ Live(m, p.at[2]))
    [] OTHER -> FALSE

\* What the broker makes of the map.  A provisional name names no row.
Handled(m, p) ==
  LET x == CHOOSE i \in p.ids : TRUE
  IN  IF Refused(m, p) THEN m
      ELSE CASE p.op = "restore" -> Restored(m, p.ids)
             [] p.op = "add" -> [m EXCEPT !.items[x] = [state |-> "live", pos |-> p.at[1]]]
             [] p.op = "move" -> Place(m, x, p.at[1])
             [] p.op = "connect" -> IF Covered(m, p.at) THEN m ELSE insertMapEdge(m, p.at)
             [] OTHER -> IF x \in Item THEN softDelete(m, x)
                         ELSE IF x \in Edge THEN softDeleteMapEdge(m, x) ELSE m

\* The broker handles the posts in any order: each has a connection of its own.
postHandled(p) ==
  /\ p.op = "connect" /\ ~Covered(map, p.at) => Fresh(map) # {}
  /\ map' = Handled(map, p)
  /\ IF Refused(map, p) \/ (p.op = "connect" /\ Covered(map, p.at)) THEN UNCHANGED frame ELSE emit
  /\ posts' = posts \ {p}
  /\ UNCHANGED <<canvas, waits, up, fetches, told, amiss, steps>>

Fault == steps.faults < MaxFaults /\ steps' = [steps EXCEPT !.faults = @ + 1]

\* Only a fetch begun from now on is sure to put the canvas right.
Aged(s) == [i \in DOMAIN s |-> [s[i] EXCEPT !.old = TRUE]]

postFailed(p) ==
  /\ "refuse" \in Env /\ Fault
  /\ posts' = posts \ {p}
  /\ waits' = {IF w.g = p.g THEN [w EXCEPT !.failed = TRUE] ELSE w : w \in waits}
  /\ fetches' = Aged(fetches) /\ amiss' = TRUE
  /\ UNCHANGED <<map, canvas, frame, up, told>>

-----------------------------------------------------------------------------
(* The gestures of the user *)

Idle == DOMAIN drag = {}
G == steps.user + 1
Gesture == steps.user < MaxGestures /\ steps' = [steps EXCEPT !.user = @ + 1]

PostAt(op, ids, at) == [g |-> G, op |-> op, ids |-> ids, at |-> at]
Entry(kind, g, ids, at) == [kind |-> kind, g |-> g, ids |-> ids, at |-> at]
Wait(kind, g, ids, at) == [kind |-> kind, g |-> g, ids |-> ids, at |-> at, failed |-> FALSE]

\* What the user deletes is no longer promised.
Forsake(ids, more) ==
  /\ told' = told \ ids
  /\ waits' = {[w EXCEPT !.ids = IF w.kind = "undo" THEN @ \ ids ELSE @] : w \in waits} \cup more

onNodeDragStart(S) ==
  /\ Idle /\ steps.user < MaxGestures
  /\ Cardinality(S) \in 1..MaxDragged /\ S \subseteq DOMAIN page.at
  /\ drag' = [x \in S |-> page.at[x]]
  /\ UNCHANGED <<map, page, undo, toast, posts, waits, net, told, amiss, steps>>

onNodesChange(x, p) ==
  /\ x \in DOMAIN drag \cap DOMAIN page.at
  /\ page.at[x] # p
  /\ page' = [page EXCEPT !.at[x] = p]
  /\ UNCHANGED <<map, drag, undo, toast, posts, waits, net, told, amiss, steps>>

\* Everything that was dragged is posted; what has really moved can be undone, at
\* once, as one entry.
onNodeDragStop ==
  /\ ~Idle /\ Gesture
  /\ LET dragged == DOMAIN drag \cap DOMAIN page.at
         moved == {x \in dragged : drag[x] # page.at[x]}
     IN  /\ posts' = posts \cup {PostAt("move", {x}, <<page.at[x]>>) : x \in dragged}
         /\ undo' = IF moved = {} THEN undo
                    ELSE Append(undo, Entry("move", G, moved, [x \in moved |-> drag[x]]))
  /\ drag' = <<>>
  /\ UNCHANGED <<map, page, toast, waits, net, told, amiss>>

EndsOf(e) == IF e \in Edge THEN map.edges[e].ends ELSE e

\* (Mutation: the deletion can be undone before it is through.)
onDeleteExposed(I, J) ==
  LET ids == I \cup J
                \cup {e \in page.edges : EndsOf(e)[1] \in I \/ EndsOf(e)[2] \in I}
  IN  /\ Idle /\ Gesture
      /\ ids # {} /\ I \subseteq DOMAIN page.at /\ J \subseteq page.edges
      /\ page' = [at |-> [x \in DOMAIN page.at \ ids |-> page.at[x]], edges |-> page.edges \ ids]
      /\ posts' = posts \cup {PostAt("delete", {x}, Nowhere) : x \in ids}
      /\ Forsake(ids, {})
      /\ undo' = Append(undo, Entry("delete", G, ids \ Provisional, Nowhere))
      /\ UNCHANGED <<map, drag, toast, net, amiss>>

\* The selection goes, and the edges that touch it: one post each.
onDelete(I, J) ==
  LET ids == I \cup J
                \cup {e \in page.edges : EndsOf(e)[1] \in I \/ EndsOf(e)[2] \in I}
  IN  /\ Idle /\ Gesture
      /\ ids # {} /\ I \subseteq DOMAIN page.at /\ J \subseteq page.edges
      /\ page' = [at |-> [x \in DOMAIN page.at \ ids |-> page.at[x]], edges |-> page.edges \ ids]
      /\ posts' = posts \cup {PostAt("delete", {x}, Nowhere) : x \in ids}
      /\ Forsake(ids, {Wait("delete", G, ids \ Provisional, Nowhere)})
      /\ UNCHANGED <<map, drag, undo, toast, net, amiss>>

onConnect(ends) ==
  /\ Idle /\ Gesture
  /\ ends[1] \in DOMAIN page.at /\ ends[2] \in DOMAIN page.at
  /\ page' = [page EXCEPT !.edges = @ \cup {ends}]
  /\ posts' = posts \cup {PostAt("connect", {}, ends)}
  /\ waits' = waits \cup {Wait("connect", G, {}, ends)}
  /\ UNCHANGED <<map, drag, undo, toast, net, told, amiss>>

\* An end of an edge is dragged to another card: two posts, and nobody waits.
onReconnect(e, ends) ==
  /\ Idle /\ Gesture
  /\ e \in page.edges /\ ends # EndsOf(e)
  /\ ends[1] \in DOMAIN page.at /\ ends[2] \in DOMAIN page.at
  /\ page' = [page EXCEPT !.edges = (@ \ {e}) \cup {ends}]
  /\ posts' = posts \cup {PostAt("delete", {e}, Nowhere), PostAt("connect", {}, ends)}
  /\ Forsake({e}, {})
  /\ UNCHANGED <<map, drag, undo, toast, net, amiss>>

addFrame(f, p) ==
  /\ Idle /\ Gesture
  /\ map.items[f].state = "none" /\ \A q \in posts : q.op = "add" => f \notin q.ids
  /\ posts' = posts \cup {PostAt("add", {f}, <<p>>)}
  /\ waits' = waits \cup {Wait("add", G, {f}, Nowhere)}
  /\ UNCHANGED <<map, canvas, net, told, amiss>>

\* The newest entry, or the one that the toast offers, undone already or not.  What
\* the user has deleted once more in the meantime is not promised.
undoEntry(entry) ==
  LET again == {x \in entry.ids : \E p \in posts : p.op = "delete" /\ x \in p.ids /\ p.g # entry.g}
  IN  /\ Idle /\ Gesture
      /\ \/ undo # <<>> /\ entry = Last(undo) /\ UNCHANGED toast
         \/ entry \in toast /\ toast' = {}
      /\ undo' = IF Contains(undo, entry)
                   THEN RemoveAt(undo, CHOOSE i \in DOMAIN undo : undo[i] = entry) ELSE undo
      /\ posts' = posts \cup
           CASE entry.kind = "delete" ->
                  {q \in {PostAt("restore", entry.ids \ Frame, Nowhere)} : q.ids # {}}
                    \cup {PostAt("restore", {f}, Nowhere) : f \in entry.ids \cap Frame}
             [] entry.kind = "add" -> {PostAt("delete", entry.ids, Nowhere)}
             [] entry.kind = "move" -> {PostAt("move", {x}, <<entry.at[x]>>) : x \in entry.ids}
      /\ IF entry.kind = "add"
           THEN Forsake(entry.ids, {Wait("undo", G, {}, Nowhere)})
           ELSE /\ waits' = waits \cup
                     {Wait("undo", G, IF entry.kind = "delete" THEN entry.ids \ again ELSE {},
                           Nowhere)}
                /\ UNCHANGED told
      /\ UNCHANGED <<map, page, drag, net, amiss>>

-----------------------------------------------------------------------------
(* Answers, and the live view *)

Fetch == [reply |-> NoMap, old |-> FALSE]

\* The posts of a gesture are all answered.
answered(w) ==
  /\ \A p \in posts : p.g # w.g
  /\ Len(fetches) < MaxFetches
  /\ waits' = waits \ {w}
  /\ undo' = IF w.kind \in {"delete", "add"} /\ ~w.failed
               THEN Append(undo, Entry(w.kind, w.g, w.ids, Nowhere)) ELSE undo
  /\ toast' = IF w.kind = "delete" /\ ~w.failed
                THEN {Entry(w.kind, w.g, w.ids, Nowhere)} ELSE toast
  /\ page' = IF w.kind = "connect" /\ w.failed
               THEN [page EXCEPT !.edges = @ \ {w.at}] ELSE page
  /\ fetches' = IF w.kind = "undo" /\ ~w.failed THEN Append(fetches, Fetch) ELSE fetches
  /\ told' = IF w.kind = "undo" /\ ~w.failed THEN told \cup w.ids ELSE told
  /\ UNCHANGED <<map, drag, posts, frame, up, amiss, steps>>

\* Any frame means a fetch.
onMessage ==
  /\ frame /\ frame' = FALSE
  /\ Len(fetches) < MaxFetches
  /\ fetches' = Append(fetches, Fetch)
  /\ UNCHANGED <<map, canvas, posts, waits, up, told, amiss, steps>>

fetchServed(i) ==
  /\ fetches[i].reply = NoMap
  /\ "overtake" \in Env \/ \A j \in 1..(i - 1) : fetches[j].reply # NoMap
  /\ fetches' = [fetches EXCEPT ![i].reply = getMapView(map)]
  /\ UNCHANGED <<map, canvas, posts, waits, frame, up, told, amiss, steps>>

\* The broker's view, but what the user is dragging stays where it is dragged.
applySnapshot(v) ==
  [at |-> [x \in DOMAIN v.at |-> IF x \in DOMAIN drag \cap DOMAIN page.at THEN page.at[x]
                                                                          ELSE v.at[x]],
   edges |-> v.edges]

fetchArrived(i) ==
  /\ fetches[i].reply # NoMap
  /\ i = 1 \/ "overtake" \in Env
  /\ page' = applySnapshot(fetches[i].reply)
  /\ fetches' = [j \in 1..(Len(fetches) - 1) |->
                   IF j < i THEN [fetches[j] EXCEPT !.old = TRUE] ELSE fetches[j + 1]]
  /\ amiss' = fetches[i].old
  /\ UNCHANGED <<map, drag, undo, toast, posts, waits, frame, up, told, steps>>

\* "Transient -- the reconnection will retry": nothing else does.
fetchFailed(i) ==
  /\ "refuse" \in Env /\ Fault
  /\ fetches' = Aged(RemoveAt(fetches, i)) /\ amiss' = TRUE
  /\ UNCHANGED <<map, canvas, posts, waits, frame, up, told>>

socketDown ==
  /\ "drop" \in Env /\ Fault
  /\ up /\ up' = FALSE /\ frame' = FALSE
  /\ UNCHANGED <<map, canvas, posts, waits, fetches, told, amiss>>

\* (Mutation: the page waits for the next frame.)
onResyncOnly ==
  /\ ~up /\ up' = TRUE
  /\ UNCHANGED <<map, canvas, posts, waits, frame, fetches, told, amiss, steps>>

\* A reconnection fetches.
onResync ==
  /\ ~up /\ up' = TRUE
  /\ Len(fetches) < MaxFetches
  /\ fetches' = Append(fetches, Fetch)
  /\ UNCHANGED <<map, canvas, posts, waits, frame, told, amiss, steps>>

-----------------------------------------------------------------------------
MInit ==
  /\ \E live \in SUBSET Card :
       map = [items |-> [x \in Item |-> [state |-> IF x \in live THEN "live" ELSE "none",
                                         pos |-> placeNode]],
              edges |-> [e \in Edge |-> [ends |-> Nowhere, live |-> FALSE]]]
  /\ page = getMapView(map)
  /\ drag = <<>> /\ undo = <<>> /\ toast = {}
  /\ posts = {} /\ waits = {} /\ frame = FALSE /\ up = TRUE /\ fetches = <<>>
  /\ told = {} /\ amiss = FALSE /\ steps = [user |-> 0, cc |-> 0, faults |-> 0]

MNext ==
  \/ handleAddMapNode \/ handleUpdateMapNode \/ handleMoveMapNode \/ handleDeleteMapNode
  \/ handleConnectMap \/ handleDisconnectMap \/ handleApplyMapOps
  \/ \E p \in posts : postHandled(p) \/ postFailed(p)
  \/ \E S \in SUBSET Item : onNodeDragStart(S)
  \/ \E x \in Item, p \in Pos : onNodesChange(x, p)
  \/ onNodeDragStop
  \/ \E I \in SUBSET Item, J \in SUBSET page.edges : onDelete(I, J)
  \/ \E ends \in Ends : onConnect(ends) \/ \E e \in page.edges : onReconnect(e, ends)
  \/ \E f \in Frame : addFrame(f, placeNode)
  \/ \E entry \in ToSet(undo) \cup toast : undoEntry(entry)
  \/ \E w \in waits : answered(w)
  \/ onMessage \/ socketDown \/ onResync
  \/ \E i \in DOMAIN fetches : fetchServed(i) \/ fetchArrived(i) \/ fetchFailed(i)

MSpec == MInit /\ [][MNext]_mvars

-----------------------------------------------------------------------------
(* Properties *)

\* What the user was told is restored is there, whatever posts of the deletion
\* were still on their way when the user reached for the undo.
RestoredIsThere ==
  \A x \in told : IF x \in Edge THEN map.edges[x].live ELSE Live(map, x)

AtRest == posts = {} /\ waits = {} /\ ~frame /\ up /\ fetches = <<>> /\ Idle

\* Once everything is answered, the canvas shows the map, whoever changed it last
\* and however often the socket was down; a provisional edge that is left over lies
\* on an edge of the map.
AtRestShowsMap ==
  (AtRest /\ ~amiss) =>
    /\ page.at = getMapView(map).at
    /\ page.edges \cap Edge = getMapView(map).edges
    /\ \A q \in page.edges \cap Provisional :
         \E e \in getMapView(map).edges : map.edges[e].ends = q
-----------------------------------------------------------------------------
(* The inductive invariants: what the rows, posts and answers may hold, why  *)
(* a promise is kept, and why the canvas comes to show the map.              *)

Places == UNION {[X -> Pos] : X \in SUBSET Item}
Entries == [kind : {"delete", "add", "move"}, g : Nat, ids : SUBSET (Item \cup Edge),
            at : Places]
Posts == [g : Nat, op : Op, ids : SUBSET (Item \cup Edge \cup Provisional),
          at : {Nowhere} \cup {<<p>> : p \in Pos} \cup Ends]
Waits == [kind : {"delete", "undo", "connect", "add"}, g : Nat,
          ids : SUBSET (Item \cup Edge), at : {Nowhere} \cup Ends, failed : BOOLEAN]
Views == [at : Places, edges : SUBSET Edge]

CanvasTypes ==
  /\ map \in [items : [Item -> Row], edges : [Edge -> [ends : Ends \cup {Nowhere}, live : BOOLEAN]]]
  /\ page \in [at : Places, edges : SUBSET (Edge \cup Provisional)]
  /\ drag \in Places
  /\ undo \in Seq(Entries) /\ toast \subseteq Entries
  /\ posts \subseteq Posts /\ waits \subseteq Waits
  /\ frame \in BOOLEAN /\ up \in BOOLEAN /\ amiss \in BOOLEAN
  /\ fetches \in Seq([reply : {NoMap} \cup Views, old : BOOLEAN])
  /\ told \subseteq Item \cup Edge
  /\ steps \in [user : Nat, cc : Nat, faults : Nat]

\* What a post is about; nothing moves or deletes what it does not name.
IsMade(p) == /\ p.op \in {"delete", "restore", "move", "add"} => p.ids # {}
             /\ p.op \in {"move", "add"} => p.ids \subseteq Item /\ p.at \in {<<q>> : q \in Pos}
             /\ p.op = "connect" => p.at \in Ends
PostsAreMade == \A p \in posts : IsMade(p)

\* What an entry, or a wait that becomes one, can undo.
CanUndo(e) == /\ e.kind = "move" => e.ids = DOMAIN e.at
              /\ e.kind = "add" => e.ids # {}
IsDue(w) == /\ w.kind = "add" => w.ids # {}
            /\ w.kind = "connect" => w.at \in Ends
EntriesAreMade ==
  /\ \A e \in ToSet(undo) \cup toast : CanUndo(e)
  /\ \A w \in waits : IsDue(w)

CanvasShape == CanvasTypes /\ PostsAreMade /\ EntriesAreMade

\* Gestures are numbered as they are made.
GesturesArePast ==
  /\ \A p \in posts : p.g =< steps.user
  /\ \A w \in waits : w.g =< steps.user
  /\ \A e \in ToSet(undo) \cup toast : e.g =< steps.user

\* A deletion is offered for undoing when its posts are all answered.
OffersAreSettled ==
  \A e \in ToSet(undo) \cup toast : e.kind = "delete" => \A p \in posts : p.g # e.g

\* No deletion is on its way of what is promised, or about to be.
NothingDoomed ==
  \A p \in posts : p.op = "delete" =>
    /\ p.ids \cap told = {}
    /\ \A w \in waits : w.kind = "undo" => p.ids \cap w.ids = {}

There(x) == IF x \in Edge THEN map.edges[x].live ELSE Live(map, x)

\* What an undo is about to promise is there, or its restoration is on its way.
RestoresComing ==
  \A w \in waits : w.kind = "undo" /\ ~w.failed =>
    \A x \in w.ids : There(x) \/ \E p \in posts : p.op = "restore" /\ p.g = w.g /\ x \in p.ids

PromiseInv ==
  /\ CanvasShape /\ GesturesArePast /\ OffersAreSettled
  /\ NothingDoomed /\ RestoresComing
  /\ \A x \in told : There(x)

\* A fetch that is the last one brings the map as it is.
LastBringsMap ==
  (fetches # <<>> /\ ~Last(fetches).old /\ Last(fetches).reply # NoMap)
     => Last(fetches).reply = getMapView(map)

Deleting(x) == \E p \in posts : p.op = "delete" /\ p.ids = {x}
Moving(x) == x \in DOMAIN drag \/ \E p \in posts : p.op = "move" /\ p.ids = {x}
Connecting(q) == \E p \in posts : p.op = "connect" /\ p.at = q

\* What the canvas shows is there; what it does not show, or shows elsewhere, the
\* broker has yet to hear about.
ItemsFollow ==
  /\ \A x \in DOMAIN page.at : Live(map, x) /\ (page.at[x] = map.items[x].pos \/ Moving(x))
  /\ \A x \in Item : Live(map, x) => x \in DOMAIN page.at \/ Deleting(x)
EdgesFollow ==
  /\ page.edges \cap Edge \subseteq getMapView(map).edges
  /\ \A e \in getMapView(map).edges : e \in page.edges \/ Deleting(e)
  /\ \A q \in page.edges \cap Provisional :
       /\ Live(map, q[1]) /\ Live(map, q[2])
       /\ Covered(map, q) \/ Connecting(q)

\* The page will hear of it, or a fetch is on its way.
ViewInv ==
  /\ CanvasShape
  /\ (up /\ ~frame) => LastBringsMap
  /\ (up /\ ~frame /\ fetches = <<>> /\ ~amiss) => ItemsFollow /\ EdgesFollow
=============================================================================
