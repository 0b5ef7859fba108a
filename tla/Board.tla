--------------------------------- MODULE Board ---------------------------------
(***************************************************************************)
(* One board: its tree of nodes (broker/nodes.ts, helpers.ts), its log     *)
(* (structure-log.ts), its checklist (checklist.ts) and the status that    *)
(* the broker derives from all of them (recomputeBoardStatus in db.ts).    *)
(*                                                                         *)
(* The status is a stored column, not a view: it is right only as long as  *)
(* every handler that changes the tree calls one of the two functions      *)
(* named syncBoardStatus afterwards.                                       *)
(***************************************************************************)
EXTENDS Naturals, Sequences, FiniteSets

CONSTANTS
  Node,      \* node ids
  Root,      \* the NULL parent_id of a top-level node
  Decision,  \* ids of checklist items
  MaxPos,    \* bound on position
  Env        \* which of the rarer calls are explored, see EnvKind

(***************************************************************************)
(* "convert":   update_node turns an item into a concern or back.          *)
(* "duplicate": add_concern is given an item id that is taken already, after *)
(*              others that went in.                                       *)
(* "stray":     add_item names a parent that is no live concern.           *)
(* "deleted":   set_node_status or post_to_node name a deleted node.       *)
(***************************************************************************)
EnvKind == {"convert", "duplicate", "stray", "deleted"}

ASSUME BoardEnvAssumption == Env \subseteq EnvKind
ASSUME RootAssumption == Root \notin Node
ASSUME NodesAreFinite == IsFiniteSet(Node)
ASSUME MaxPosAssumption == MaxPos \in Nat

VARIABLES
  board,      \* the row of the boards table
  nodes,      \* the rows of the nodes table
  decisions,  \* the checklist_items of the board
  notes       \* the reminders the last handler queued

bvars == <<board, nodes, decisions, notes>>

AutoStatuses == {"discussing", "settled"}

\* "completed" stands for withdrawn too: both are final and set by the user.
BoardStatus == AutoStatuses \cup {"completed", "paused"}

\* "pending" stands for every status that is no verdict, "adopted" for those
\* that are (SETTLED_NODE_STATUSES).
NodeStatus == {"pending", "adopted"}

NodeRow == [kind : {"none", "concern", "item"}, parent : Node \cup {Root},
            pos : 0..MaxPos, status : NodeStatus, deleted : BOOLEAN,
            log : BOOLEAN, checklist : BOOLEAN]

\* manual is a history variable: the status was last set by set_board_status.
BoardRow == [exists : BOOLEAN, default : BOOLEAN, status : BoardStatus,
             auto : BOOLEAN, manual : BOOLEAN]

Note == {"checklist_settled", "checklist_node_settled"}

BTypeOK ==
  /\ board \in BoardRow
  /\ nodes \in [Node -> NodeRow]
  /\ decisions \in [Decision -> {"none", "pending", "done"}]
  /\ notes \subseteq Note

NoRow == [kind |-> "none", parent |-> Root, pos |-> 0, status |-> "pending",
          deleted |-> FALSE, log |-> FALSE, checklist |-> FALSE]

BInit ==
  /\ board = [exists |-> FALSE, default |-> FALSE, status |-> "discussing",
              auto |-> TRUE, manual |-> FALSE]
  /\ nodes = [n \in Node |-> NoRow]
  /\ decisions = [d \in Decision |-> "none"]
  /\ notes = {}

-----------------------------------------------------------------------------
(* The tree *)

Exists(n) == nodes[n].kind # "none"
Live(ns) == {n \in Node : ns[n].kind # "none" /\ ~ns[n].deleted}

IsLogNode(n) == nodes[n].log

Fresh(kind, parent, pos) ==
  [NoRow EXCEPT !.kind = kind, !.parent = parent, !.pos = pos]

\* (Mutation: the number of siblings is taken for the next position.)
IsCountPos(ns, R, parent, pos) ==
  pos = Cardinality({n \in R : ns[n].kind # "none" /\ ns[n].parent = parent})

\* pos is one more than the largest position among the rows of R under parent.
IsNextPos(ns, R, parent, pos) ==
  LET siblings == {n \in R : ns[n].kind # "none" /\ ns[n].parent = parent}
  IN /\ \A n \in siblings : ns[n].pos < pos
     /\ pos = 0 \/ \E n \in siblings : ns[n].pos + 1 = pos

\* Everything below n, n included, along rows of R: the least set that holds n
\* and every row of R whose parent it holds.  Deletion walks the live rows down,
\* the cycle check of a move walks every row up.
Below(ns, n, R) ==
  LET Closed == {S \in SUBSET R :
                   \A m \in R : (/\ ns[m].kind # "none"
                                 /\ ns[m].parent \in S \cup {n}) => m \in S}
  IN {n} \cup {m \in R : \A S \in Closed : m \in S}

\* A caller's list of items: each id once, none of them taken.
Lists == {l \in UNION {[1..k -> Node] : k \in 0..Cardinality(Node)} :
            \A i, j \in DOMAIN l : l[i] = l[j] => i = j}

\* The items of a new concern, at positions 0, 1, ...
insertNodesRecursive(ns, c, items) ==
  [n \in Node |->
     IF \E i \in DOMAIN items : items[i] = n
       THEN Fresh("item", c, (CHOOSE i \in DOMAIN items : items[i] = n) - 1)
       ELSE ns[n]]

NewConcern(c, items, pos) ==
  /\ ~Exists(c)
  /\ IsNextPos(nodes, Node, Root, pos)
  /\ \A i \in DOMAIN items : ~Exists(items[i]) /\ items[i] # c
  /\ Len(items) =< MaxPos + 1
  /\ nodes' = insertNodesRecursive(
                [nodes EXCEPT ![c] = Fresh("concern", Root, pos)], c, items)

-----------------------------------------------------------------------------
(* The derived status *)

\* Only items feed the rollup, and the log is none of the user's decisions.
Counted(ns) == {n \in Live(ns) : ns[n].kind = "item" /\ ~ns[n].log}

AllSettled(ns) ==
  Counted(ns) # {} /\ \A n \in Counted(ns) : ns[n].status = "adopted"

Checklists(ns) == {n \in Live(ns) : ns[n].checklist}

\* Every item ever recorded on the board is done or dropped, and there is one.
Resolved(ds) ==
  /\ \E d \in Decision : ds[d] # "none"
  /\ \A d \in Decision : ds[d] # "pending"

Rollup(ns, ds) ==
  IF ~AllSettled(ns) THEN "discussing"
  ELSE IF Checklists(ns) # {} /\ Resolved(ds) THEN "completed" ELSE "settled"

\* (Mutation: the explicit statuses are derived like the others.)
RecomputeAlways(b, ns, ds) ==
  IF b.auto THEN [b EXCEPT !.status = Rollup(ns, ds), !.manual = FALSE] ELSE b

\* The explicit statuses are left alone, and so is a board that opted out.
recomputeBoardStatus(b, ns, ds) ==
  IF b.auto /\ b.status \in AutoStatuses
    THEN [b EXCEPT !.status = Rollup(ns, ds), !.manual = FALSE]
    ELSE b

\* The reminder of a board that landed on its verdicts.
onBoardSettled(before, after, ns) ==
  IF before # after /\ after = "settled" /\ Checklists(ns) # {}
    THEN {"checklist_settled"} ELSE {}

\* The reminder of one node, unless it is the (first) checklist itself.
onNodeSettled(ns, n, status) ==
  LET first == {c \in Checklists(ns) :
                  \A e \in Checklists(ns) : ns[c].pos =< ns[e].pos}
  IN IF status = "adopted" /\ first \ {n} # {}
       THEN {"checklist_node_settled"} ELSE {}

\* (Mutation: the rollup is left out.)
syncSkipped(ns, nudges) == UNCHANGED board /\ notes' = nudges

\* syncBoardStatus of nodes.ts.
syncBoardStatus(ns, nudges) ==
  /\ board' = recomputeBoardStatus(board, ns, decisions)
  /\ notes' = nudges \cup onBoardSettled(board.status, board'.status, ns)

\* A post resurfaces a shelved board.
revertBoardFromPaused(b) ==
  IF b.status = "paused"
    THEN [b EXCEPT !.status = "discussing", !.auto = TRUE] ELSE b

\* syncBoardStatus of threads.ts, where the post paths end.
syncAfterPost(ns, nudges) ==
  /\ board' = recomputeBoardStatus(revertBoardFromPaused(board), ns, decisions)
  /\ notes' = nudges \cup onBoardSettled(board.status, board'.status, ns)

-----------------------------------------------------------------------------
(* broker/boards.ts *)

handleCreateBoard(c) ==
  /\ ~board.exists
  /\ \E items \in Lists : NewConcern(c, items, 0)
  /\ board' = [board EXCEPT !.exists = TRUE]
  /\ notes' = {}
  /\ UNCHANGED decisions

ensureDefaultBoard(c, i) ==
  /\ ~board.exists
  /\ NewConcern(c, <<i>>, 0)
  /\ board' = [board EXCEPT !.exists = TRUE, !.default = TRUE]
  /\ notes' = {}
  /\ UNCHANGED decisions

\* set_board_status; close_board is the same for "completed".
handleSetBoardStatus(status) ==
  /\ board.exists
  /\ board' = [board EXCEPT !.status = status, !.manual = TRUE]
  /\ notes' = {}
  /\ UNCHANGED <<nodes, decisions>>

handleSetBoardAutoStatus(enabled) ==
  /\ board.exists
  /\ IF enabled
       THEN LET b == recomputeBoardStatus([board EXCEPT !.auto = TRUE],
                                          nodes, decisions)
            IN board' = b
               /\ notes' = onBoardSettled(board.status, b.status, nodes)
       ELSE board' = [board EXCEPT !.auto = FALSE] /\ notes' = {}
  /\ UNCHANGED <<nodes, decisions>>

-----------------------------------------------------------------------------
(* broker/nodes.ts *)

\* The shape of a default board is fixed.
Unlocked == board.exists /\ ~board.default

handleAddConcern(c) ==
  /\ Unlocked /\ ~Exists(c)
  /\ \E items \in Lists, pos \in 0..MaxPos : NewConcern(c, items, pos)
  /\ syncBoardStatus(nodes', {})
  /\ UNCHANGED decisions

\* The insert of one item throws, because its id is taken: what went in before
\* it stays (there is no transaction), and the rest of the handler is skipped.
addConcernThrows(c) ==
  /\ Unlocked /\ ~Exists(c)
  /\ \E items \in Lists, pos \in 0..MaxPos :
       (items = <<>> \/ "duplicate" \in Env) /\ NewConcern(c, items, pos)
  /\ notes' = {}
  /\ UNCHANGED <<board, decisions>>

handleAddItem(c, i) ==
  /\ Unlocked
  /\ ~Exists(i) /\ i # c
  /\ "stray" \in Env \/ (c \in Live(nodes) /\ nodes[c].kind = "concern")
  /\ \E pos \in 0..MaxPos :
       /\ IsNextPos(nodes, Node, c, pos)
       /\ nodes' = [nodes EXCEPT ![i] = Fresh("item", c, pos)]
  /\ syncBoardStatus(nodes', {})
  /\ UNCHANGED decisions

\* A change of title or context, which are left out, and of the kind.  Neither
\* the lock of the default board nor that of the log applies, and nothing is
\* recomputed.
handleUpdateNode(n, kind) ==
  /\ Exists(n)
  /\ kind = nodes[n].kind \/ "convert" \in Env
  /\ nodes' = [nodes EXCEPT ![n].kind = kind,
                            ![n].status = IF kind = "concern" THEN "pending"
                                          ELSE @]
  /\ notes' = {}
  /\ UNCHANGED <<board, decisions>>

\* What set_node_status and post_to_node are called with.
Addressed(n) == nodes[n].kind = "item" /\ ("deleted" \in Env \/ ~nodes[n].deleted)

handleSetNodeStatus(n, status) ==
  /\ board.exists
  /\ Addressed(n)
  /\ nodes' = [nodes EXCEPT ![n].status = status]
  /\ syncBoardStatus(nodes', IF nodes[n].status # status
                               THEN onNodeSettled(nodes', n, status) ELSE {})
  /\ UNCHANGED decisions

handleDeleteNode(n) ==
  /\ Unlocked /\ ~IsLogNode(n)
  /\ n \in Live(nodes)
  /\ LET subtree == Below(nodes, n, Live(nodes))
     IN nodes' = [m \in Node |->
                    IF m \in subtree THEN [nodes[m] EXCEPT !.deleted = TRUE]
                    ELSE nodes[m]]
  /\ syncBoardStatus(nodes', {})
  /\ UNCHANGED decisions

MoveTarget(n, parent) ==
  \/ parent = Root
  \/ /\ parent \in Live(nodes)
     /\ parent \notin Below(nodes, n, Node)

\* Appended to its new siblings; the status is not recomputed, nor need it be.
handleMoveNode(n, parent) ==
  /\ Unlocked /\ ~IsLogNode(n)
  /\ n \in Live(nodes)
  /\ MoveTarget(n, parent)
  /\ \E pos \in 0..MaxPos :
       /\ IsNextPos(nodes, Node, parent, pos)
       /\ nodes' = [nodes EXCEPT ![n].parent = parent, ![n].pos = pos]
  /\ notes' = {}
  /\ UNCHANGED <<board, decisions>>

Siblings(n) == {m \in Live(nodes) : nodes[m].parent = nodes[n].parent}

\* The place of m among its live siblings when n is taken out and put in again
\* as the want-th.
Reordered(n, want, m) ==
  LET others == Siblings(n) \ {n}
      place == Cardinality({x \in others : nodes[x].pos < nodes[m].pos})
  IN IF m = n THEN want ELSE IF place < want THEN place ELSE place + 1

handleReorderNode(n, want) ==
  /\ Unlocked /\ ~IsLogNode(n)
  /\ n \in Live(nodes)
  /\ want \in 0..Cardinality(Siblings(n) \ {n})
  /\ \A m \in Siblings(n) : Reordered(n, want, m) =< MaxPos
  /\ nodes' = [m \in Node |->
                 IF m \in Siblings(n)
                   THEN [nodes[m] EXCEPT !.pos = Reordered(n, want, m)]
                   ELSE nodes[m]]
  /\ notes' = {}
  /\ UNCHANGED <<board, decisions>>

-----------------------------------------------------------------------------
(* broker/structure-log.ts *)

LogConcerns(ns) == {n \in Live(ns) : ns[n].log /\ ns[n].kind = "concern"}
LogItems(ns) == {n \in Live(ns) : ns[n].log /\ ns[n].kind = "item"}

\* Any read of the board creates what is missing of its log.
LogMissing == LogConcerns(nodes) = {} \/ LogItems(nodes) = {}

ensureBoardLogNode(c, i) ==
  /\ Unlocked /\ LogMissing
  /\ IF LogConcerns(nodes) = {} THEN ~Exists(c) ELSE c \in LogConcerns(nodes)
  /\ IF LogItems(nodes) = {} THEN ~Exists(i) /\ i # c
                             ELSE i \in LogItems(nodes)
  /\ \E pos \in 0..MaxPos :
       /\ IF Exists(c) THEN pos = nodes[c].pos
                       ELSE IsNextPos(nodes, Live(nodes), Root, pos)
       /\ nodes' = [n \in Node |->
            IF n = c /\ ~Exists(c)
              THEN [Fresh("concern", Root, pos) EXCEPT !.log = TRUE]
            ELSE IF n = i /\ ~Exists(i)
              THEN [Fresh("item", c, 0) EXCEPT !.log = TRUE]
            ELSE nodes[n]]
  /\ notes' = {}
  /\ UNCHANGED <<board, decisions>>

-----------------------------------------------------------------------------
(* broker/threads.ts, external-notify.ts: the posts *)

handlePostToNode(n, status) ==
  /\ board.exists
  /\ Addressed(n) /\ ~nodes[n].checklist
  /\ nodes' = [nodes EXCEPT ![n].status = status]
  /\ syncAfterPost(nodes', IF nodes[n].status # status
                             THEN onNodeSettled(nodes', n, status) ELSE {})
  /\ UNCHANGED decisions

\* A reply of the user once it was delivered (it moves its node from pending to
\* discussing at most), a structure request on the log, a notice.
userPost(n) ==
  /\ board.exists
  /\ n \in Live(nodes) /\ nodes[n].kind = "item" /\ ~nodes[n].checklist
  /\ syncAfterPost(nodes, {})
  /\ UNCHANGED <<nodes, decisions>>

-----------------------------------------------------------------------------
(* broker/checklist.ts *)

\* A node with a conversation is refused; threads are not modelled, so any node
\* may be taken for one without.
handleSetNodeChecklist(n, promoting) ==
  /\ board.exists
  /\ n \in Live(nodes)
  /\ nodes' = [nodes EXCEPT ![n].checklist = promoting]
  /\ notes' = {}
  /\ UNCHANGED <<board, decisions>>

handleRecordDecision(n, d) ==
  /\ n \in Checklists(nodes)
  /\ decisions[d] = "none"
  /\ decisions' = [decisions EXCEPT ![d] = "pending"]
  /\ notes' = {}
  /\ UNCHANGED <<board, nodes>>

\* The rollup may complete the board here, but settles it without a reminder.
handleUpdateDecision(d, status) ==
  /\ decisions[d] # "none"
  /\ decisions' = [decisions EXCEPT ![d] = status]
  /\ board' = recomputeBoardStatus(board, nodes, decisions')
  /\ notes' = {}
  /\ UNCHANGED nodes

-----------------------------------------------------------------------------
\* The migration db.ts runs whenever the broker starts.
brokerRestart ==
  /\ board.exists
  /\ board' = recomputeBoardStatus(board, nodes, decisions)
  /\ nodes' = [n \in Node |->
                 IF nodes[n].kind = "concern"
                   THEN [nodes[n] EXCEPT !.status = "pending"] ELSE nodes[n]]
  /\ notes' = {}
  /\ UNCHANGED decisions

BNext ==
  \/ \E c \in Node : handleCreateBoard(c)
  \/ \E c, i \in Node : ensureDefaultBoard(c, i)
  \/ \E s \in BoardStatus : handleSetBoardStatus(s)
  \/ \E e \in BOOLEAN : handleSetBoardAutoStatus(e)
  \/ \E c \in Node : handleAddConcern(c)
  \/ \E c \in Node : addConcernThrows(c)
  \/ \E c, i \in Node : handleAddItem(c, i)
  \/ \E n \in Node, k \in {"concern", "item"} : handleUpdateNode(n, k)
  \/ \E n \in Node, s \in NodeStatus : handleSetNodeStatus(n, s)
  \/ \E n \in Node : handleDeleteNode(n)
  \/ \E n \in Node, m \in Node \cup {Root} : handleMoveNode(n, m)
  \/ \E n \in Node, w \in 0..MaxPos : handleReorderNode(n, w)
  \/ \E c, i \in Node : ensureBoardLogNode(c, i)
  \/ \E n \in Node, s \in NodeStatus : handlePostToNode(n, s)
  \/ \E n \in Node : userPost(n)
  \/ \E n \in Node, p \in BOOLEAN : handleSetNodeChecklist(n, p)
  \/ \E n \in Node, d \in Decision : handleRecordDecision(n, d)
  \/ \E d \in Decision, s \in {"pending", "done"} : handleUpdateDecision(d, s)
  \/ brokerRestart

BSpec == BInit /\ [][BNext]_bvars

-----------------------------------------------------------------------------
(* Properties *)

\* The stored status says what the nodes say ("the broker recomputes them on
\* every node-status / structure mutation", db.ts), unless somebody set it.
StatusIsRollup ==
  (board.auto /\ ~board.manual /\ board.status \in AutoStatuses) =>
    ((board.status = "settled") <=> AllSettled(nodes))

\* "completed" and "paused" are the user's: no change of a node, a
\* decision or the broker's start moves them.  Only a call that sets them
\* does, and a post on a paused board.
ExplicitStatusStays ==
  [][(board.status \notin AutoStatuses /\ board'.status # board.status) =>
       \/ board'.manual /\ UNCHANGED <<nodes, decisions>>
       \/ board.status = "paused" /\ board'.auto]_bvars

\* However nodes were added, moved, reordered and deleted, the page can show the
\* board: every live node hangs from the root by live nodes, so that nothing that
\* counts for the status is out of sight, and siblings have an order.
NodesHaveTheirPlace ==
  /\ Live(nodes) \subseteq Below(nodes, Root, Live(nodes))
  /\ \A n, m \in Live(nodes) :
       (n # m /\ nodes[n].parent = nodes[m].parent) => nodes[n].pos # nodes[m].pos

\* The owner of a checklist is reminded exactly when the board lands on its
\* verdicts.  A decision or the broker's start may settle a board in silence, but
\* only one whose status was set by hand.
SettlingIsAnnounced ==
  [][LET settles == /\ board.status # "settled" /\ board'.status = "settled"
                    /\ Checklists(nodes') # {}
     IN /\ "checklist_settled" \in notes' => settles /\ ~board'.manual
        /\ (settles /\ ~board.manual /\ ~board'.manual) =>
             "checklist_settled" \in notes']_bvars
=============================================================================
