------------------------------ MODULE Diagrams ------------------------------
(***************************************************************************)
(* A Mermaid diagram and the page that shows it.  Claude replaces the       *)
(* source as a whole; the broker first has it parsed by a child process,   *)
(* and takes an answer that does not come for a yes.  The page is told of   *)
(* changes over a socket, fetches the diagram again, renders its source     *)
(* asynchronously, and puts the drawing into a canvas React knows nothing   *)
(* about.                                                                  *)
(*                                                                         *)
(* Sources: broker/diagrams.ts, broker/mermaid-validate.ts,                *)
(* web/components/DiagramView.tsx.                                         *)
(***************************************************************************)
EXTENDS Naturals, FiniteSets, Sequences, Basics

CONSTANTS
    Source,        \* Mermaid sources with a known header
    Broken,        \* those of them that do not parse
    Upsert,        \* calls of upsert_diagram
    MaxEvents,     \* bound: renames, archivings and messages of the chat
    MaxFaults,     \* bound: sockets lost, requests failed
    None,          \* no diagram; nothing
    DiagramEnvs    \* possible environments, see DiagramEnvKind

(***************************************************************************)
(* "drop":     sockets are lost.                                           *)
(* "fail":     requests of the page fail.                                  *)
(* "recreate": a deleted diagram is created again under its id.            *)
(* "overtake": answers and frames overtake each other.                     *)
(***************************************************************************)
DiagramEnvKind == {"drop", "fail", "recreate", "overtake"}

VARIABLES
    env,
    diagram,    \* the row of the diagram, with what counts its other changes
    upserts,    \* the source each upsert asks for, and how far it is
    view,       \* the diagram the page holds
    notFound,
    svg, error, \* of which source the page has a drawing, or a parse error
    canvas,     \* what the canvas shows; "unmounted" when it is not there
    renders,    \* renders under way; at most one is not cancelled
    line,       \* answers and frames on their way to the page, oldest first
    sock,       \* the socket
    bounds

dvars == <<env, diagram, upserts, view, notFound, svg, error, canvas, renders, line, sock, bounds>>
page    == <<view, notFound, svg, error, canvas, renders>>

Row == [source : Source, other : 0 .. MaxEvents]

\* A request, its answer, the frames; and what is left of an answer or a frame
\* that does not come: a request that failed, a frame lost with its socket.
Answer == [is : {"answer"}, of : Row \cup {None}]
Event  == [is : {"asked", "lost", "diagram-update", "thread-update", "diagram-deleted"}]
Asked  == [is |-> "asked"]
Lost   == [is |-> "lost"]

DiagramTypeOK ==
    /\ env \in DiagramEnvs
    /\ diagram \in Row \cup {None} /\ view \in Row \cup {None} /\ notFound \in BOOLEAN
    /\ upserts \in [Upsert -> [of : Source \cup {None}, at : {"new", "checking", "done", "refused"}]]
    /\ {svg, error} \subseteq Source \cup {None}
    /\ canvas \in Source \cup {None, "unmounted"}
    /\ renders \subseteq [source : Source, current : BOOLEAN]
    /\ line \in Seq(Answer \cup Event)
    /\ sock \in {"down", "accepted", "open"}
    /\ bounds \in [events : 0 .. MaxEvents, faults : 0 .. MaxFaults]

DiagramInit ==
    /\ env \in DiagramEnvs
    /\ \E s \in Source : diagram = [source |-> s, other |-> 0]
    /\ upserts = [u \in Upsert |-> [of |-> None, at |-> "new"]]
    /\ view = None /\ notFound = FALSE
    /\ svg = None /\ error = None /\ canvas = "unmounted" /\ renders = {}
    /\ line = <<Asked>> /\ sock = "down"
    /\ bounds = [events |-> 0, faults |-> 0]

Spend(what, max) == bounds[what] < max /\ bounds' = [bounds EXCEPT ![what] = @ + 1]

-----------------------------------------------------------------------------
(* The broker *)

broadcast(type) ==
    line' = IF sock \in {"accepted", "open"} THEN Append(line, [is |-> type]) ELSE line

\* handleUpsertDiagram up to its await.
handleUpsertDiagram(u, s) ==
    /\ upserts[u].at = "new"
    /\ diagram # None \/ "recreate" \in env
    /\ upserts' = [upserts EXCEPT ![u] = [of |-> s, at |-> "checking"]]
    /\ UNCHANGED <<env, diagram, page, line, sock, bounds>>

\* The child's answer: a source that does not parse is refused.
refuse(u) ==
    /\ upserts[u].at = "checking" /\ upserts[u].of \in Broken
    /\ upserts' = [upserts EXCEPT ![u].at = "refused"]
    /\ UNCHANGED <<env, diagram, page, line, sock, bounds>>

\* The child has no objection; or it is gone, or slower than the timeout, and
\* a broken source is stored too.  Only the row decides whether to create.
store(u) ==
    /\ upserts[u].at = "checking"
    /\ upserts' = [upserts EXCEPT ![u].at = "done"]
    /\ IF diagram # None
       THEN /\ diagram' = [diagram EXCEPT !.source = upserts[u].of]
            /\ broadcast("diagram-update")
       ELSE /\ diagram' = [source |-> upserts[u].of, other |-> bounds.events]
            /\ UNCHANGED line
    /\ UNCHANGED <<env, page, sock, bounds>>

\* handleRenameDiagram, handleArchiveDiagram; a message of the chat.
Amend(type) ==
    /\ diagram # None
    /\ Spend("events", MaxEvents)
    /\ diagram' = [diagram EXCEPT !.other = bounds'.events]
    /\ broadcast(type)
    /\ UNCHANGED <<env, upserts, page, sock>>
handleRenameDiagram   == Amend("diagram-update")
handlePostDiagramChat == Amend("thread-update")

handleDeleteDiagram ==
    /\ diagram # None
    /\ "recreate" \in env \/ \A u \in Upsert : upserts[u].at # "checking"
    /\ diagram' = None
    /\ broadcast("diagram-deleted")
    /\ UNCHANGED <<env, upserts, page, sock, bounds>>

\* getDiagramView, for one request; requests are taken in order.
getDiagramView ==
    /\ \E i \in DOMAIN line :
         /\ line[i] = Asked /\ \A j \in 1 .. i - 1 : line[j] # Asked
         /\ \E reply \in {[is |-> "answer", of |-> diagram]}
                         \cup (IF "fail" \in env THEN {Lost} ELSE {}) :
              line' = Append(RemoveAt(line, i), reply)
    /\ UNCHANGED <<env, diagram, upserts, page, sock, bounds>>

-----------------------------------------------------------------------------
(* The page *)

fetchDiagram(rest) == line' = Append(rest, Asked)

Parses(s) == s \notin Broken

\* A commit of React: the effect on the source starts a render and cancels
\* the others; the effect on the drawing ran only if the drawing changed.
Commit(v, nf) ==
    LET Mounted == v # None /\ ~nf /\ error = None IN
    /\ view' = v /\ notFound' = nf
    /\ canvas' = IF ~Mounted THEN "unmounted"
                 ELSE IF canvas = "unmounted" THEN None ELSE canvas
    /\ renders' = IF v # None /\ (view = None \/ v.source # view.source)
                  THEN {[r EXCEPT !.current = FALSE] : r \in renders}
                         \cup {[source |-> v.source, current |-> TRUE]}
                  ELSE renders
    /\ UNCHANGED <<svg, error>>

\* What can arrive; an unanswered request holds nothing up.
Arriving == {i \in DOMAIN line : line[i] # Asked
                                /\ ("overtake" \in env \/ \A j \in 1 .. i - 1 : line[j] = Asked)}

landDiagram ==
    \E i \in Arriving :
      /\ line[i].is \in {"answer", "lost"}
      /\ line' = RemoveAt(line, i)
      /\ IF line[i] = Lost THEN UNCHANGED page
         ELSE IF line[i].of = None THEN Commit(view, TRUE)
         ELSE Commit(line[i].of, FALSE)
      /\ UNCHANGED <<env, diagram, upserts, sock, bounds>>

onMessage ==
    \E i \in Arriving :
      /\ line[i].is \notin {"answer", "lost"}
      /\ IF line[i].is = "diagram-deleted"
         THEN line' = RemoveAt(line, i) /\ Commit(view, TRUE)
         ELSE fetchDiagram(RemoveAt(line, i)) /\ UNCHANGED page
      /\ UNCHANGED <<env, diagram, upserts, sock, bounds>>

Accepted ==
    /\ sock = "down" /\ sock' = "accepted"
    /\ UNCHANGED <<env, diagram, upserts, page, line, bounds>>

\* The open socket is followed by a fetch: whatever was missed is there.
onopen ==
    /\ sock = "accepted" /\ sock' = "open"
    /\ fetchDiagram(line)
    /\ UNCHANGED <<env, diagram, upserts, page, bounds>>

\* Frames on their way are lost with it, requests are not.
drop ==
    /\ "drop" \in env /\ sock # "down"
    /\ Spend("faults", MaxFaults)
    /\ sock' = "down"
    /\ line' = [i \in DOMAIN line |-> IF line[i].is \in {"asked", "answer"} THEN line[i] ELSE Lost]
    /\ UNCHANGED <<env, diagram, upserts, page>>

\* (Mutation: a render that was overtaken by another is drawn all the same.)
renderEndsStale(r) ==
    /\ renders' = renders \ {r}
    /\ LET shown == view # None /\ ~notFound IN
       IF Parses(r.source)
       THEN /\ svg' = r.source /\ error' = None
            /\ canvas' = IF shown THEN r.source ELSE "unmounted"
       ELSE svg' = None /\ error' = r.source /\ canvas' = "unmounted"
    /\ UNCHANGED <<env, diagram, upserts, view, notFound, line, sock, bounds>>

\* A render ends.  One that was cancelled changes nothing.
renderEnds(r) ==
    /\ renders' = renders \ {r}
    /\ IF ~r.current THEN UNCHANGED <<svg, error, canvas>>
       ELSE LET shown == view # None /\ ~notFound IN
            IF Parses(r.source)
            THEN /\ svg' = r.source /\ error' = None
                 /\ canvas' = IF shown THEN r.source ELSE "unmounted"
            ELSE svg' = None /\ error' = r.source /\ canvas' = "unmounted"
    /\ UNCHANGED <<env, diagram, upserts, view, notFound, line, sock, bounds>>

DiagramNext ==
    \/ \E u \in Upsert : (\E s \in Source : handleUpsertDiagram(u, s)) \/ refuse(u) \/ store(u)
    \/ handleRenameDiagram \/ handlePostDiagramChat \/ handleDeleteDiagram
    \/ getDiagramView \/ landDiagram \/ onMessage \/ Accepted \/ onopen \/ drop
    \/ \E r \in renders : renderEnds(r)

DiagramSpec == DiagramInit /\ [][DiagramNext]_dvars

-----------------------------------------------------------------------------
(* Properties *)

AtRest == line = <<>> /\ sock = "open" /\ ~\E r \in renders : r.current

\* At rest the page shows the diagram as it is: its latest source drawn in the
\* canvas, or the parse error of that very source, and nothing but the notice
\* once it is deleted; whatever upserts, deletions, lost sockets and renders
\* that overtake each other came before (fetchDiagram, onResync, the sequence
\* guard of the render, the commits that unmount the canvas).
PageShowsDiagram ==
    AtRest =>
      IF diagram = None THEN notFound
      ELSE /\ ~notFound /\ view = diagram
           /\ IF Parses(diagram.source) THEN canvas = diagram.source /\ error = None
              ELSE error = diagram.source

-----------------------------------------------------------------------------
(* The inductive invariant, of a page that has one wire to the broker.     *)

Cut == [source : Source, current : BOOLEAN]

Gone(x) == x.is = "diagram-deleted" \/ (x.is = "answer" /\ x.of = None)

\* What follows the news that the diagram is gone does not bring it back.
StaysGone(s) ==
    \A i \in DOMAIN s : Gone(s[i]) =>
        /\ diagram = None
        /\ \A j \in DOMAIN s : j > i /\ s[j].is = "answer" => s[j].of = None
GoneIsGone ==
    /\ StaysGone(line)
    /\ notFound => /\ diagram = None
                   /\ \A i \in DOMAIN line : line[i].is = "answer" => line[i].of = None

\* The open page will ask again; or the last thing that comes, or what is
\* there, is the diagram as it is.
Refetches(s) == \E i \in DOMAIN s : s[i].is \in {"asked", "diagram-update", "thread-update"}
Brings(x) == \/ x.is = "answer" /\ x.of = diagram
             \/ x.is = "diagram-deleted" /\ diagram = None
IsHere == IF diagram = None THEN notFound ELSE ~notFound /\ view = diagram
CatchesUp == \/ Refetches(line)
             \/ line # <<>> /\ Brings(line[Len(line)])
             \/ line = <<>> /\ IsHere

\* The one render that is not cancelled is of the source in view; when there is
\* none, that source has been drawn, or its error is shown.
Drawn == IF Parses(view.source)
         THEN error = None /\ (~notFound => canvas = view.source)
         ELSE error = view.source
RendersFollow ==
    /\ \A r \in renders : r.current => view # None /\ r.source = view.source
    /\ view # None => (\E r \in renders : r.current) \/ Drawn

DiagramInv ==
    /\ DiagramTypeOK
    /\ \A u \in Upsert : /\ upserts[u].at # "new" => upserts[u].of \in Source
                         /\ upserts[u].at = "checking" => diagram # None
    /\ GoneIsGone /\ RendersFollow
    /\ sock = "open" => CatchesUp
=============================================================================
