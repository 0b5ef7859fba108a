------------------------------ MODULE BoardProofs ------------------------------
(***************************************************************************)
(* One board, for any number of nodes and decisions: its derived status    *)
(* and the shape of its tree.                                              *)
(***************************************************************************)
EXTENDS Board, FiniteSetTheorems, SequenceTheorems, TLAPS

-----------------------------------------------------------------------------
(* What the helpers do *)

\* A list of items is one position after the other.
LEMMA ListsAreSequences ==
  ASSUME NEW items \in Lists \cup {<<i>> : i \in Node}
  PROVE  /\ items \in Seq(Node) /\ Len(items) \in Nat
         /\ DOMAIN items = 1 .. Len(items)
         /\ \A j \in DOMAIN items : items[j] \in Node
<1>1. Cardinality(Node) \in Nat
  BY NodesAreFinite, FS_CardinalityType
<1>2. CASE items \in Lists
  <2> PICK k \in 0..Cardinality(Node) : items \in [1..k -> Node]
    BY <1>2 DEF Lists
  <2>1. k \in Nat
    BY <1>1
  <2>2. items \in Seq(Node)
    BY <2>1, SeqDef
  <2> QED  BY <2>2, LenProperties, ElementOfSeq
<1>3. CASE items \in {<<i>> : i \in Node}
  <2> PICK i \in Node : items = <<i>>
    BY <1>3
  <2>1. items \in Seq(Node) /\ Len(items) = 1
    OBVIOUS
  <2> QED  BY <2>1, LenProperties, ElementOfSeq
<1> QED  BY <1>2, <1>3

ItemsOf(items) == {n \in Node : \E j \in DOMAIN items : items[j] = n}

\* The rows of a new concern c with the items I, as NewConcern inserts them.
ConcernAdded(c, I, pos) ==
  /\ ~Exists(c) /\ c \notin I
  /\ \A i \in I : ~Exists(i)
  /\ IsNextPos(nodes, Node, Root, pos)
  /\ nodes' \in [Node -> NodeRow]
  /\ nodes'[c] = Fresh("concern", Root, pos)
  /\ \A i \in I : /\ nodes'[i] = Fresh("item", c, nodes'[i].pos)
                  /\ \A j \in I : nodes'[i].pos = nodes'[j].pos => i = j
  /\ \A n \in Node : n # c /\ n \notin I => nodes'[n] = nodes[n]

LEMMA FreshRow ==
  ASSUME NEW k \in {"concern", "item"}, NEW p \in Node \cup {Root},
         NEW pos \in 0..MaxPos
  PROVE  /\ Fresh(k, p, pos) \in NodeRow
         /\ Fresh(k, p, pos).kind = k /\ Fresh(k, p, pos).parent = p
         /\ Fresh(k, p, pos).pos = pos /\ Fresh(k, p, pos).status = "pending"
         /\ ~Fresh(k, p, pos).deleted /\ ~Fresh(k, p, pos).log
         /\ ~Fresh(k, p, pos).checklist
  BY DEF Fresh, NoRow, NodeRow, NodeStatus

\* A new concern is one row at the root, with a row below it for every item,
\* no two of them at the same place.
LEMMA NewConcernAdds ==
  ASSUME BTypeOK, NEW c \in Node, NEW pos \in 0..MaxPos,
         NEW items \in Lists \cup {<<i>> : i \in Node},
         NewConcern(c, items, pos)
  PROVE  ConcernAdded(c, ItemsOf(items), pos)
<1> DEFINE I == ItemsOf(items)
           At(n) == CHOOSE j \in DOMAIN items : items[j] = n
           ns == [nodes EXCEPT ![c] = Fresh("concern", Root, pos)]
<1>1. /\ Len(items) \in Nat /\ Len(items) =< MaxPos + 1
      /\ DOMAIN items = 1 .. Len(items)
      /\ \A j \in DOMAIN items : items[j] \in Node /\ items[j] # c
      /\ \A j \in DOMAIN items : ~Exists(items[j])
  BY ListsAreSequences DEF NewConcern
<1>2. \A n \in I : At(n) \in 1 .. Len(items) /\ items[At(n)] = n
  BY <1>1 DEF ItemsOf
<1>3. \A n \in Node : (\E j \in DOMAIN items : items[j] = n) <=> n \in I
  BY DEF ItemsOf
<1>4. \A n \in I : At(n) - 1 \in 0..MaxPos
  BY <1>1, <1>2, MaxPosAssumption
<1>5. c \notin I /\ (\A i \in I : ~Exists(i)) /\ I \subseteq Node
  BY <1>1 DEF ItemsOf
<1>6. nodes' = [n \in Node |->
                 IF n \in I THEN Fresh("item", c, At(n) - 1) ELSE ns[n]]
  BY <1>3 DEF NewConcern, insertNodesRecursive
<1>7. Fresh("concern", Root, pos) \in NodeRow
  BY FreshRow
<1>8. \A q \in 0..MaxPos : /\ Fresh("item", c, q) \in NodeRow
                           /\ Fresh("item", c, q).pos = q
  BY FreshRow
<1>9. /\ ns[c] = Fresh("concern", Root, pos)
      /\ \A n \in Node : ns[n] \in NodeRow /\ (n # c => ns[n] = nodes[n])
  BY <1>7 DEF BTypeOK
<1> HIDE DEF At, ns, I
<1>10. nodes' \in [Node -> NodeRow]
  BY <1>4, <1>6, <1>8, <1>9
<1>11. \A i \in I : /\ nodes'[i] = Fresh("item", c, At(i) - 1)
                    /\ nodes'[i].pos = At(i) - 1
  BY <1>4, <1>5, <1>6, <1>8
<1>12. \A i, j \in I : nodes'[i].pos = nodes'[j].pos => i = j
  <2> SUFFICES ASSUME NEW i \in I, NEW j \in I, nodes'[i].pos = nodes'[j].pos
               PROVE  i = j
    OBVIOUS
  <2>1. At(i) - 1 = At(j) - 1 /\ At(i) \in Int /\ At(j) \in Int
    BY <1>1, <1>2, <1>11
  <2>2. At(i) = At(j)
    BY <2>1
  <2> QED  BY <1>2, <2>2
<1>13. nodes'[c] = Fresh("concern", Root, pos)
  BY <1>5, <1>6, <1>9
<1>14. \A n \in Node : n # c /\ n \notin I => nodes'[n] = nodes[n]
  BY <1>6, <1>9
<1> QED
  BY <1>5, <1>10, <1>11, <1>12, <1>13, <1>14 DEF ConcernAdded, NewConcern, I

\* What the rollup makes of a board's row: an automatic status is derived, and
\* anything else stays as it is.
LEMMA RecomputeFacts ==
  ASSUME NEW b \in BoardRow, NEW ns, NEW ds, NEW r,
         r = recomputeBoardStatus(b, ns, ds)
  PROVE  /\ r \in BoardRow
         /\ r.exists = b.exists /\ r.default = b.default /\ r.auto = b.auto
         /\ (r.auto /\ r.status \in AutoStatuses) =>
              (r.status = "settled" <=> AllSettled(ns))
         /\ b.status \notin AutoStatuses => r = b
         /\ r.status # b.status => r.auto /\ ~r.manual
  BY DEF recomputeBoardStatus, BoardRow, BoardStatus, AutoStatuses, Rollup

\* A post takes a paused board back into the rollup and touches no other.
LEMMA RevertFacts ==
  ASSUME NEW b \in BoardRow
  PROVE  LET r == revertBoardFromPaused(b)
         IN /\ r \in BoardRow /\ r.exists = b.exists
            /\ r.manual = b.manual
            /\ b.status # "paused" => r = b
            /\ b.status = "paused" => r.status = "discussing" /\ r.auto
  BY DEF revertBoardFromPaused, BoardRow, BoardStatus, AutoStatuses

\* The places a reordered node and its siblings can get.
LEMMA PlaceIsNatural ==
  ASSUME BTypeOK, NEW n \in Node, NEW p \in Nat
  PROVE  LET S == {x \in Siblings(n) \ {n} : nodes[x].pos < p}
         IN IsFiniteSet(S) /\ Cardinality(S) \in Nat
<1> DEFINE S == {x \in Siblings(n) \ {n} : nodes[x].pos < p}
<1>1. S \in SUBSET Node
  BY DEF Siblings, Live
<1>2. IsFiniteSet(S)
  BY <1>1, NodesAreFinite, FS_Subset
<1> QED  BY <1>2, FS_CardinalityType

\* update_node and move_node change one row.
LEMMA UpdateRow ==
  ASSUME BTypeOK, NEW n \in Node, NEW k \in {"concern", "item"},
         handleUpdateNode(n, k)
  PROVE  nodes' = [nodes EXCEPT ![n] =
                     [@ EXCEPT !.kind = k,
                               !.status = IF k = "concern" THEN "pending"
                                          ELSE nodes[n].status]]
  BY DEF handleUpdateNode, BTypeOK

LEMMA MoveRow ==
  ASSUME BTypeOK, NEW n \in Node, NEW p \in Node \cup {Root}, handleMoveNode(n, p)
  PROVE  \E pos \in 0..MaxPos :
           /\ IsNextPos(nodes, Node, p, pos)
           /\ nodes' = [nodes EXCEPT ![n] = [@ EXCEPT !.parent = p, !.pos = pos]]
  BY DEF handleMoveNode, BTypeOK

-----------------------------------------------------------------------------
(* Type correctness *)

LEMMA InitBTypeOK == BInit => BTypeOK
  BY MaxPosAssumption
     DEF BInit, BTypeOK, BoardRow, BoardStatus, AutoStatuses, NodeRow, NoRow,
         NodeStatus

\* Every handler of a board leaves its tables well typed.
LEMMA NextBTypeOK == BTypeOK /\ [BNext]_bvars => BTypeOK'
<1> SUFFICES ASSUME BTypeOK, [BNext]_bvars PROVE BTypeOK'
  OBVIOUS
<1>a. /\ board \in BoardRow /\ nodes \in [Node -> NodeRow]
      /\ decisions \in [Decision -> {"none", "pending", "done"}]
  BY DEF BTypeOK
<1>b. \A x, y, z : onBoardSettled(x, y, z) \subseteq Note
  BY DEF onBoardSettled, Note
<1>c. \A ns, n, x : onNodeSettled(ns, n, x) \subseteq Note
  BY DEF onNodeSettled, Note
<1>d. /\ \A ns, ds : recomputeBoardStatus(board, ns, ds) \in BoardRow
      /\ \A ns, ds : recomputeBoardStatus(revertBoardFromPaused(board), ns, ds)
                       \in BoardRow
  BY <1>a, RecomputeFacts, RevertFacts
<1>e. ASSUME NEW ns, NEW nudges \in SUBSET Note,
             syncBoardStatus(ns, nudges) \/ syncAfterPost(ns, nudges)
      PROVE  board' \in BoardRow /\ notes' \subseteq Note
  BY <1>b, <1>d, <1>e DEF syncBoardStatus, syncAfterPost
<1>f. \A n \in Node : /\ \A x \in NodeStatus : [nodes[n] EXCEPT !.status = x] \in NodeRow
                      /\ \A x \in BOOLEAN : [nodes[n] EXCEPT !.deleted = x] \in NodeRow
                      /\ \A x \in BOOLEAN : [nodes[n] EXCEPT !.checklist = x] \in NodeRow
                      /\ \A x \in 0..MaxPos : [nodes[n] EXCEPT !.pos = x] \in NodeRow
  BY <1>a DEF NodeRow
<1>1. ASSUME NEW c \in Node, NEW pos \in 0..MaxPos,
             NEW items \in Lists \cup {<<i>> : i \in Node},
             NewConcern(c, items, pos)
      PROVE  nodes' \in [Node -> NodeRow]
  BY <1>1, NewConcernAdds DEF ConcernAdded
<1>2. 0 \in 0..MaxPos
  BY MaxPosAssumption
<1>3. CASE \E c \in Node : handleCreateBoard(c) \/ \E i \in Node : ensureDefaultBoard(c, i)
  <2>1. board' \in BoardRow /\ notes' \subseteq Note /\ decisions' = decisions
    BY <1>a, <1>3 DEF handleCreateBoard, ensureDefaultBoard, BoardRow
  <2> QED  BY <1>1, <1>2, <1>3, <1>a, <2>1
           DEF handleCreateBoard, ensureDefaultBoard, BTypeOK
<1>4. CASE \/ \E s \in BoardStatus : handleSetBoardStatus(s)
           \/ \E e \in BOOLEAN : handleSetBoardAutoStatus(e)
  <2>1. CASE \E s \in BoardStatus : handleSetBoardStatus(s)
    BY <1>a, <2>1 DEF handleSetBoardStatus, BTypeOK, BoardRow
  <2>2. CASE \E e \in BOOLEAN : handleSetBoardAutoStatus(e)
    <3>1. [board EXCEPT !.auto = TRUE] \in BoardRow
          /\ [board EXCEPT !.auto = FALSE] \in BoardRow
      BY <1>a DEF BoardRow
    <3>2. \A ns, ds : recomputeBoardStatus([board EXCEPT !.auto = TRUE], ns, ds)
                        \in BoardRow
      BY <3>1, RecomputeFacts
    <3>3. board' \in BoardRow
      BY <2>2, <3>1, <3>2 DEF handleSetBoardAutoStatus
    <3>4. notes' \subseteq Note /\ UNCHANGED <<nodes, decisions>>
      BY <1>b, <2>2 DEF handleSetBoardAutoStatus
    <3> QED  BY <3>3, <3>4 DEF BTypeOK
  <2> QED  BY <1>4, <2>1, <2>2
<1>5. CASE \E c \in Node : handleAddConcern(c) \/ addConcernThrows(c)
  BY <1>1, <1>5, <1>a, <1>e DEF handleAddConcern, addConcernThrows, BTypeOK
<1>6. CASE \E c, i \in Node : handleAddItem(c, i)
  <2> PICK c \in Node, i \in Node : handleAddItem(c, i)
    BY <1>6
  <2>1. nodes' \in [Node -> NodeRow]
    BY <1>a, FreshRow DEF handleAddItem
  <2> QED  BY <1>a, <1>e, <2>1 DEF handleAddItem, BTypeOK
<1>7. CASE \E n \in Node, k \in {"concern", "item"} : handleUpdateNode(n, k)
  <2> PICK n \in Node, k \in {"concern", "item"} : handleUpdateNode(n, k)
    BY <1>7
  <2> DEFINE row == [nodes[n] EXCEPT !.kind = k,
                                     !.status = IF k = "concern" THEN "pending"
                                                ELSE nodes[n].status]
  <2>2. nodes' = [nodes EXCEPT ![n] = row]
    BY UpdateRow
  <2>3. row \in NodeRow
    BY <1>a DEF NodeStatus, NodeRow
  <2>1. nodes' \in [Node -> NodeRow]
    BY <1>a, <2>2, <2>3
  <2> QED  BY <1>a, <2>1 DEF handleUpdateNode, BTypeOK
<1>8. CASE \E n \in Node, s \in NodeStatus :
             handleSetNodeStatus(n, s) \/ handlePostToNode(n, s)
  <2> PICK n \in Node, s \in NodeStatus :
             handleSetNodeStatus(n, s) \/ handlePostToNode(n, s)
    BY <1>8
  <2>1. nodes' = [nodes EXCEPT ![n].status = s] /\ decisions' = decisions
    BY DEF handleSetNodeStatus, handlePostToNode
  <2>2. nodes' \in [Node -> NodeRow]
    BY <1>a, <1>f, <2>1
  <2>3. board' \in BoardRow /\ notes' \subseteq Note
    BY <1>c, <1>e DEF handleSetNodeStatus, handlePostToNode
  <2> QED  BY <1>a, <2>1, <2>2, <2>3 DEF BTypeOK
<1>9. CASE \E n \in Node : handleDeleteNode(n)
  <2> PICK n \in Node : handleDeleteNode(n)
    BY <1>9
  <2>1. nodes' \in [Node -> NodeRow]
    BY <1>a, <1>f DEF handleDeleteNode
  <2> QED  BY <1>a, <1>e, <2>1 DEF handleDeleteNode, BTypeOK
<1>10. CASE \E n \in Node, m \in Node \cup {Root} : handleMoveNode(n, m)
  <2> PICK n \in Node, m \in Node \cup {Root} : handleMoveNode(n, m)
    BY <1>10
  <2>2. PICK pos \in 0..MaxPos :
          /\ IsNextPos(nodes, Node, m, pos)
          /\ nodes' = [nodes EXCEPT ![n] = [@ EXCEPT !.parent = m, !.pos = pos]]
    BY MoveRow
  <2>3. [nodes[n] EXCEPT !.parent = m, !.pos = pos] \in NodeRow
    BY <1>a DEF NodeRow
  <2>1. nodes' \in [Node -> NodeRow]
    BY <1>a, <2>2, <2>3
  <2> QED  BY <1>a, <2>1 DEF handleMoveNode, BTypeOK
<1>11. CASE \E n \in Node, w \in 0..MaxPos : handleReorderNode(n, w)
  <2> PICK n \in Node, w \in 0..MaxPos : handleReorderNode(n, w)
    BY <1>11
  <2>1. ASSUME NEW m \in Siblings(n) PROVE Reordered(n, w, m) \in 0..MaxPos
    <3> DEFINE place == Cardinality({x \in Siblings(n) \ {n} : nodes[x].pos < nodes[m].pos})
    <3>1. m \in Node /\ nodes[m].pos \in Nat
      BY <1>a DEF Siblings, Live, NodeRow
    <3>2. place \in Nat
      BY <3>1, PlaceIsNatural
    <3>3. Reordered(n, w, m) =< MaxPos
      BY DEF handleReorderNode
    <3>4. Reordered(n, w, m) = IF m = n THEN w ELSE IF place < w THEN place ELSE place + 1
      BY DEF Reordered
    <3> QED  BY <3>2, <3>3, <3>4, MaxPosAssumption
  <2>2. nodes' \in [Node -> NodeRow]
    BY <1>a, <1>f, <2>1 DEF handleReorderNode
  <2> QED  BY <1>a, <2>2 DEF handleReorderNode, BTypeOK
<1>12. CASE \E c, i \in Node : ensureBoardLogNode(c, i)
  <2> PICK c \in Node, i \in Node, pos \in 0..MaxPos :
        nodes' = [n \in Node |->
            IF n = c /\ ~Exists(c)
              THEN [Fresh("concern", Root, pos) EXCEPT !.log = TRUE]
            ELSE IF n = i /\ ~Exists(i)
              THEN [Fresh("item", c, 0) EXCEPT !.log = TRUE]
            ELSE nodes[n]]
    BY <1>12 DEF ensureBoardLogNode
  <2>1. /\ [Fresh("concern", Root, pos) EXCEPT !.log = TRUE] \in NodeRow
        /\ [Fresh("item", c, 0) EXCEPT !.log = TRUE] \in NodeRow
    BY <1>2 DEF Fresh, NoRow, NodeRow, NodeStatus
  <2>2. nodes' \in [Node -> NodeRow]
    BY <1>a, <2>1
  <2> QED  BY <1>a, <1>12, <2>2 DEF ensureBoardLogNode, BTypeOK
<1>13. CASE \E n \in Node : userPost(n)
  BY <1>13, <1>a, <1>e DEF userPost, BTypeOK
<1>14. CASE \E n \in Node, p \in BOOLEAN : handleSetNodeChecklist(n, p)
  BY <1>14, <1>a, <1>f DEF handleSetNodeChecklist, BTypeOK
<1>15. CASE \/ \E n \in Node, d \in Decision : handleRecordDecision(n, d)
            \/ \E d \in Decision, s \in {"pending", "done"} : handleUpdateDecision(d, s)
  BY <1>15, <1>a, <1>d DEF handleRecordDecision, handleUpdateDecision, BTypeOK
<1>16. CASE brokerRestart
  <2>1. "pending" \in NodeStatus
    BY DEF NodeStatus
  <2> QED  BY <1>16, <1>a, <1>d, <1>f, <2>1 DEF brokerRestart, BTypeOK
<1>17. CASE UNCHANGED bvars
  BY <1>17 DEF bvars, BTypeOK
<1> QED
  BY <1>3, <1>4, <1>5, <1>6, <1>7, <1>8, <1>9, <1>10, <1>11, <1>12, <1>13,
     <1>14, <1>15, <1>16, <1>17 DEF BNext

\* The rows of a board are well typed in every reachable state.
THEOREM BTypeCorrect == BSpec => []BTypeOK
  BY InitBTypeOK, NextBTypeOK, PTL DEF BSpec

-----------------------------------------------------------------------------
(***************************************************************************)
(* The derived status.  It needs two facts about the callers: nobody turns *)
(* an item into a concern, and nobody gives an item id that is taken; in   *)
(* either case the handler changes what counts and recomputes nothing.     *)
(***************************************************************************)
Orderly == Env \cap {"convert", "duplicate"} = {}

\* There is no node before there is a board.
Unmade == ~board.exists => \A n \in Node : nodes[n].kind = "none"

StatusInv == BTypeOK /\ Unmade /\ StatusIsRollup

\* What every handler does to the board's row: settle it by the rollup of the
\* nodes as it leaves them; leave it alone, and what counts too; recompute it in
\* silence; or set it by hand.
Rolls == \E nudges \in SUBSET {"checklist_node_settled"} :
           syncBoardStatus(nodes', nudges) \/ syncAfterPost(nodes', nudges)
SameVerdict == AllSettled(nodes') <=> AllSettled(nodes)
Leaves == board' = board /\ notes' = {} /\ (Orderly => SameVerdict)
Recomputes == /\ board' = recomputeBoardStatus(board, nodes, decisions')
              /\ notes' = {} /\ SameVerdict
Creates == /\ ~board.exists /\ board'.exists /\ notes' = {}
           /\ UNCHANGED <<board.status, board.auto, board.manual>>
           /\ Unmade => ~AllSettled(nodes')
Sets == \E s \in BoardStatus : handleSetBoardStatus(s)
OptsInOrOut == \E e \in BOOLEAN : handleSetBoardAutoStatus(e)

LEMMA CountedFacts ==
  ASSUME NEW ns, NEW n \in Node
  PROVE  n \in Counted(ns) <=> /\ ns[n].kind = "item" /\ ~ns[n].deleted
                               /\ ~ns[n].log
  BY DEF Counted, Live

\* The verdict depends on nothing but the counted items and their statuses.
LEMMA VerdictOfCounted ==
  ASSUME \A n \in Node :
           /\ n \in Counted(nodes') <=> n \in Counted(nodes)
           /\ n \in Counted(nodes) => nodes'[n].status = nodes[n].status
  PROVE  SameVerdict
<1>1. Counted(nodes) \subseteq Node /\ Counted(nodes') \subseteq Node
  BY DEF Counted, Live
<1>2. Counted(nodes') = Counted(nodes)
  BY <1>1
<1> QED  BY <1>1, <1>2 DEF AllSettled, SameVerdict

\* A row whose kind, status and marks stay counts as it did.
LEMMA VerdictOfRows ==
  ASSUME \A n \in Node :
           /\ nodes'[n].kind = nodes[n].kind /\ nodes'[n].log = nodes[n].log
           /\ nodes'[n].deleted = nodes[n].deleted
           /\ nodes[n].kind = "item" => nodes'[n].status = nodes[n].status
  PROVE  SameVerdict
<1>1. \A n \in Node : n \in Counted(nodes') <=> n \in Counted(nodes)
  BY CountedFacts
<1>2. \A n \in Node : n \in Counted(nodes) => nodes[n].kind = "item"
  BY CountedFacts
<1> QED  BY <1>1, <1>2, VerdictOfCounted

\* A concern without items, and one on a board with no node yet, settle nothing.
LEMMA NewConcernVerdict ==
  ASSUME BTypeOK, NEW c \in Node, NEW I \in SUBSET Node, NEW pos \in 0..MaxPos,
         ConcernAdded(c, I, pos)
  PROVE  /\ I = {} => SameVerdict
         /\ (\A n \in Node : nodes[n].kind = "none") => ~AllSettled(nodes')
<1>1. nodes'[c].kind = "concern"
  BY FreshRow DEF ConcernAdded
<1>2. \A i \in I : nodes'[i].kind = "item" /\ nodes'[i].status = "pending"
  <2> SUFFICES ASSUME NEW i \in I
               PROVE  nodes'[i].kind = "item" /\ nodes'[i].status = "pending"
    OBVIOUS
  <2>1. nodes'[i].pos \in 0..MaxPos
    BY DEF ConcernAdded, NodeRow
  <2>2. nodes'[i] = Fresh("item", c, nodes'[i].pos)
    BY DEF ConcernAdded
  <2> QED  BY <2>1, <2>2, FreshRow
<1>3. ASSUME I = {} PROVE SameVerdict
  <2>1. \A n \in Node : /\ n \in Counted(nodes') <=> n \in Counted(nodes)
                        /\ n \in Counted(nodes) => nodes'[n].status = nodes[n].status
    BY <1>1, <1>3, CountedFacts DEF ConcernAdded, Exists
  <2> QED  BY <2>1, VerdictOfCounted
<1>4. ASSUME \A n \in Node : nodes[n].kind = "none" PROVE ~AllSettled(nodes')
  <2>1. \A n \in Counted(nodes') : n \in Node /\ nodes'[n].kind = "item"
    BY DEF Counted, Live
  <2>2. \A n \in Counted(nodes') : n \in I
    BY <1>1, <1>4, <2>1 DEF ConcernAdded
  <2> QED  BY <1>2, <2>2 DEF AllSettled
<1> QED  BY <1>3, <1>4

\* Which handler does what.
LEMMA BoardSteps ==
  ASSUME BTypeOK, BNext
  PROVE  Rolls \/ Leaves \/ Recomputes \/ Creates \/ Sets \/ OptsInOrOut
<1>a. nodes \in [Node -> NodeRow]
  BY DEF BTypeOK
<1>b. \A ns, n, s : onNodeSettled(ns, n, s) \in SUBSET {"checklist_node_settled"}
  BY DEF onNodeSettled
<1>c. {} \in SUBSET {"checklist_node_settled"}
  OBVIOUS
<1>0. 0 \in 0..MaxPos
  BY MaxPosAssumption
<1>1. CASE \/ \E c \in Node : handleCreateBoard(c)
           \/ \E c, i \in Node : ensureDefaultBoard(c, i)
  <2> PICK c \in Node, items \in Lists \cup {<<i>> : i \in Node} :
             /\ NewConcern(c, items, 0)
             /\ ~board.exists /\ notes' = {}
             /\ \/ board' = [board EXCEPT !.exists = TRUE]
                \/ board' = [board EXCEPT !.exists = TRUE, !.default = TRUE]
    BY <1>1 DEF handleCreateBoard, ensureDefaultBoard
  <2>1. ConcernAdded(c, ItemsOf(items), 0)
    BY <1>0, NewConcernAdds
  <2>2. ItemsOf(items) \in SUBSET Node
    BY DEF ItemsOf
  <2>3. Unmade => ~AllSettled(nodes')
    BY <1>0, <2>1, <2>2, NewConcernVerdict DEF Unmade
  <2>4. board'.exists /\ UNCHANGED <<board.status, board.auto, board.manual>>
    BY DEF BTypeOK, BoardRow
  <2> QED  BY <2>3, <2>4 DEF Creates
<1>2. CASE \E s \in BoardStatus : handleSetBoardStatus(s)
  BY <1>2 DEF Sets
<1>3. CASE \E e \in BOOLEAN : handleSetBoardAutoStatus(e)
  BY <1>3 DEF OptsInOrOut
<1>4. CASE \/ \E c \in Node : handleAddConcern(c)
           \/ \E c, i \in Node : handleAddItem(c, i)
           \/ \E n \in Node : handleDeleteNode(n)
  BY <1>4, <1>c DEF handleAddConcern, handleAddItem, handleDeleteNode, Rolls
<1>5. CASE \E n \in Node, s \in NodeStatus :
             handleSetNodeStatus(n, s) \/ handlePostToNode(n, s)
  BY <1>5, <1>b, <1>c DEF handleSetNodeStatus, handlePostToNode, Rolls
<1>6. CASE \E n \in Node : userPost(n)
  BY <1>6, <1>c DEF userPost, Rolls
<1>7. CASE \E c \in Node : addConcernThrows(c)
  <2> PICK c \in Node, items \in Lists, pos \in 0..MaxPos :
             /\ items = <<>> \/ "duplicate" \in Env
             /\ NewConcern(c, items, pos)
    BY <1>7 DEF addConcernThrows
  <2>1. ConcernAdded(c, ItemsOf(items), pos)
    BY NewConcernAdds
  <2>2. ItemsOf(items) \in SUBSET Node /\ (items = <<>> => ItemsOf(items) = {})
    BY DEF ItemsOf
  <2>3. Orderly => SameVerdict
    BY <2>1, <2>2, NewConcernVerdict DEF Orderly
  <2> QED  BY <1>7, <2>3 DEF addConcernThrows, Leaves
<1>8. CASE \E n \in Node, k \in {"concern", "item"} : handleUpdateNode(n, k)
  <2> PICK n \in Node, k \in {"concern", "item"} : handleUpdateNode(n, k)
    BY <1>8
  <2>1. ASSUME Orderly PROVE SameVerdict
    <3>1. k = nodes[n].kind
      BY <2>1 DEF handleUpdateNode, Orderly
    <3> DEFINE row == [nodes[n] EXCEPT !.kind = k,
                                       !.status = IF k = "concern" THEN "pending"
                                                  ELSE nodes[n].status]
    <3>2. nodes' = [nodes EXCEPT ![n] = row]
      BY UpdateRow
    <3>3. /\ row.kind = k /\ row.log = nodes[n].log
          /\ row.deleted = nodes[n].deleted
          /\ k = "item" => row.status = nodes[n].status
      BY <1>a DEF NodeRow
    <3> QED  BY <1>a, <3>1, <3>2, <3>3, VerdictOfRows
  <2> QED  BY <2>1 DEF handleUpdateNode, Leaves
<1>9. CASE \E n \in Node, m \in Node \cup {Root} : handleMoveNode(n, m)
  <2> PICK n \in Node, m \in Node \cup {Root} : handleMoveNode(n, m)
    BY <1>9
  <2>1. PICK pos \in 0..MaxPos :
          /\ IsNextPos(nodes, Node, m, pos)
          /\ nodes' = [nodes EXCEPT ![n] = [@ EXCEPT !.parent = m, !.pos = pos]]
    BY MoveRow
  <2>2. SameVerdict
    <3>1. LET row == [nodes[n] EXCEPT !.parent = m, !.pos = pos]
          IN /\ row.kind = nodes[n].kind /\ row.log = nodes[n].log
             /\ row.deleted = nodes[n].deleted /\ row.status = nodes[n].status
      BY <1>a DEF NodeRow
    <3> QED  BY <1>a, <2>1, <3>1, VerdictOfRows
  <2> QED  BY <2>2 DEF handleMoveNode, Leaves
<1>10. ASSUME \A n \in Node : \/ nodes'[n] = nodes[n]
                              \/ \E q : nodes'[n] = [nodes[n] EXCEPT !.pos = q]
                              \/ \E q : nodes'[n] = [nodes[n] EXCEPT !.checklist = q]
       PROVE  SameVerdict
  <2>1. \A n \in Node :
           /\ nodes'[n].kind = nodes[n].kind /\ nodes'[n].log = nodes[n].log
           /\ nodes'[n].deleted = nodes[n].deleted
           /\ nodes'[n].status = nodes[n].status
    <3> TAKE n \in Node
    <3>1. nodes[n] \in NodeRow
      BY <1>a
    <3>2. CASE nodes'[n] = nodes[n]
      BY <3>2
    <3>3. CASE \E q : nodes'[n] = [nodes[n] EXCEPT !.pos = q]
      BY <3>1, <3>3 DEF NodeRow
    <3>4. CASE \E q : nodes'[n] = [nodes[n] EXCEPT !.checklist = q]
      BY <3>1, <3>4 DEF NodeRow
    <3> QED  BY <1>10, <3>2, <3>3, <3>4
  <2> QED  BY <2>1, VerdictOfRows
<1>11. CASE \E n \in Node, w \in 0..MaxPos : handleReorderNode(n, w)
  BY <1>a, <1>10, <1>11 DEF handleReorderNode, Leaves
<1>12. CASE \E c, i \in Node : ensureBoardLogNode(c, i)
  <2> PICK c \in Node, i \in Node, pos \in 0..MaxPos :
        nodes' = [n \in Node |->
            IF n = c /\ ~Exists(c)
              THEN [Fresh("concern", Root, pos) EXCEPT !.log = TRUE]
            ELSE IF n = i /\ ~Exists(i)
              THEN [Fresh("item", c, 0) EXCEPT !.log = TRUE]
            ELSE nodes[n]]
    BY <1>12 DEF ensureBoardLogNode
  <2>1. /\ [Fresh("concern", Root, pos) EXCEPT !.log = TRUE].log
        /\ [Fresh("item", c, 0) EXCEPT !.log = TRUE].log
    BY DEF Fresh, NoRow
  <2>2. \A n \in Node : \/ nodes'[n] = nodes[n]
                        \/ nodes'[n].log /\ nodes[n].kind = "none"
    BY <2>1 DEF Exists
  <2>3. \A n \in Node : /\ n \in Counted(nodes') <=> n \in Counted(nodes)
                        /\ n \in Counted(nodes) => nodes'[n].status = nodes[n].status
    <3> TAKE n \in Node
    <3>0. /\ n \in Counted(nodes) <=> /\ nodes[n].kind = "item"
                                       /\ ~nodes[n].deleted /\ ~nodes[n].log
          /\ n \in Counted(nodes') <=> /\ nodes'[n].kind = "item"
                                        /\ ~nodes'[n].deleted /\ ~nodes'[n].log
      BY CountedFacts
    <3>1. CASE nodes'[n] = nodes[n]
      BY <3>0, <3>1, Zenon
    <3>2. CASE nodes'[n].log /\ nodes[n].kind = "none"
      BY <3>0, <3>2
    <3> QED  BY <2>2, <3>1, <3>2
  <2> QED  BY <1>12, <2>3, VerdictOfCounted DEF ensureBoardLogNode, Leaves
<1>13. CASE \E n \in Node, p \in BOOLEAN : handleSetNodeChecklist(n, p)
  BY <1>a, <1>10, <1>13 DEF handleSetNodeChecklist, Leaves
<1>14. CASE \E n \in Node, d \in Decision : handleRecordDecision(n, d)
  BY <1>10, <1>14 DEF handleRecordDecision, Leaves
<1>15. CASE \E d \in Decision, s \in {"pending", "done"} : handleUpdateDecision(d, s)
  BY <1>10, <1>15 DEF handleUpdateDecision, Recomputes
<1>16. CASE brokerRestart
  <2>1. \A n \in Node :
           /\ nodes'[n].kind = nodes[n].kind /\ nodes'[n].log = nodes[n].log
           /\ nodes'[n].deleted = nodes[n].deleted
           /\ nodes[n].kind = "item" => nodes'[n].status = nodes[n].status
    BY <1>a, <1>16 DEF brokerRestart, NodeRow
  <2> QED  BY <1>16, <2>1, VerdictOfRows DEF brokerRestart, Recomputes
<1> QED
  BY <1>1, <1>2, <1>3, <1>4, <1>5, <1>6, <1>7, <1>8, <1>9, <1>11, <1>12,
     <1>13, <1>14, <1>15, <1>16 DEF BNext

\* The row a handler leaves, whatever rolled it up.
LEMMA RolledRow ==
  ASSUME BTypeOK, Rolls
  PROVE  /\ board'.exists = board.exists
         /\ (board'.auto /\ board'.status \in AutoStatuses) =>
              (board'.status = "settled" <=> AllSettled(nodes'))
         /\ board.status \notin AutoStatuses /\ board'.status # board.status =>
              board.status = "paused" /\ board'.auto
         /\ board'.status = "settled" /\ board.status # "settled" => ~board'.manual
         /\ "checklist_settled" \in notes' <=>
              /\ board.status # board'.status /\ board'.status = "settled"
              /\ Checklists(nodes') # {}
<1>1. PICK nudges \in SUBSET {"checklist_node_settled"} :
        syncBoardStatus(nodes', nudges) \/ syncAfterPost(nodes', nudges)
  BY DEF Rolls
<1>2. board \in BoardRow
  BY DEF BTypeOK
<1>3. PICK b \in BoardRow :
        /\ b = board \/ b = revertBoardFromPaused(board)
        /\ board' = recomputeBoardStatus(b, nodes', decisions)
        /\ notes' = nudges \cup onBoardSettled(board.status, board'.status, nodes')
  BY <1>1, <1>2, RevertFacts DEF syncBoardStatus, syncAfterPost
<1>4. /\ b.exists = board.exists
      /\ board.status # "paused" => b = board
      /\ b = board \/ (b.status = "discussing" /\ b.auto)
  BY <1>2, <1>3, RevertFacts
<1>5. /\ board'.exists = b.exists /\ board'.auto = b.auto
      /\ (board'.auto /\ board'.status \in AutoStatuses) =>
           (board'.status = "settled" <=> AllSettled(nodes'))
      /\ b.status \notin AutoStatuses => board' = b
      /\ board'.status # b.status => board'.auto /\ ~board'.manual
  BY <1>3, RecomputeFacts
<1>6. "checklist_settled" \in notes' <=>
              /\ board.status # board'.status /\ board'.status = "settled"
              /\ Checklists(nodes') # {}
  BY <1>3 DEF onBoardSettled
<1> QED  BY <1>4, <1>5, <1>6

\* A call that opts a board in rolls it up like any other change.
LEMMA OptedRow ==
  ASSUME BTypeOK, OptsInOrOut
  PROVE  /\ board'.exists = board.exists /\ UNCHANGED <<nodes, decisions>>
         /\ (board'.auto /\ board'.status \in AutoStatuses) =>
              (board'.status = "settled" <=> AllSettled(nodes'))
         /\ board.status \notin AutoStatuses => board'.status = board.status
         /\ board'.status = "settled" /\ board.status # "settled" => ~board'.manual
         /\ "checklist_settled" \in notes' <=>
              /\ board.status # board'.status /\ board'.status = "settled"
              /\ Checklists(nodes') # {}
<1>1. PICK e \in BOOLEAN : handleSetBoardAutoStatus(e)
  BY DEF OptsInOrOut
<1>2. board \in BoardRow
  BY DEF BTypeOK
<1>3. CASE e
  <2>1. /\ [board EXCEPT !.auto = TRUE] \in BoardRow
        /\ [board EXCEPT !.auto = TRUE].status = board.status
        /\ [board EXCEPT !.auto = TRUE].exists = board.exists
    BY <1>2 DEF BoardRow
  <2>2. PICK b \in BoardRow :
          /\ b.status = board.status /\ b.exists = board.exists
          /\ board' = recomputeBoardStatus(b, nodes, decisions)
    BY <1>1, <1>3, <2>1 DEF handleSetBoardAutoStatus
  <2>3. /\ notes' = onBoardSettled(board.status, board'.status, nodes)
        /\ UNCHANGED <<nodes, decisions>>
    BY <1>1, <1>3 DEF handleSetBoardAutoStatus
  <2>4. /\ board'.exists = b.exists
        /\ (board'.auto /\ board'.status \in AutoStatuses) =>
             (board'.status = "settled" <=> AllSettled(nodes))
        /\ b.status \notin AutoStatuses => board' = b
        /\ board'.status # b.status => board'.auto /\ ~board'.manual
    BY <2>2, RecomputeFacts
  <2> QED  BY <2>2, <2>3, <2>4 DEF onBoardSettled
<1>4. CASE ~e
  <2>1. /\ board' = [board EXCEPT !.auto = FALSE] /\ notes' = {}
        /\ UNCHANGED <<nodes, decisions>>
    BY <1>1, <1>4 DEF handleSetBoardAutoStatus
  <2> QED  BY <1>2, <2>1 DEF BoardRow
<1> QED  BY <1>3, <1>4

\* A board is not rolled up, nor its nodes changed, before it exists.
LEMMA NextUnmade == BTypeOK /\ Unmade /\ [BNext]_bvars => Unmade'
<1> SUFFICES ASSUME BTypeOK, Unmade, [BNext]_bvars, ~board'.exists
             PROVE  \A n \in Node : nodes'[n].kind = "none"
  BY DEF Unmade
<1>1. CASE UNCHANGED bvars
  BY <1>1 DEF bvars, Unmade
<1>2. CASE BNext
  <2>1. ~board.exists
    <3>1. board \in BoardRow
      BY DEF BTypeOK
    <3>2. CASE Rolls \/ OptsInOrOut
      BY <3>2, RolledRow, OptedRow
    <3>3. CASE Leaves \/ Creates
      BY <3>3 DEF Leaves, Creates
    <3>4. CASE Recomputes
      BY <3>1, <3>4, RecomputeFacts DEF Recomputes
    <3>5. CASE Sets
      BY <3>1, <3>5 DEF Sets, handleSetBoardStatus, BoardRow
    <3> QED  BY <1>2, <3>2, <3>3, <3>4, <3>5, BoardSteps
  <2>2. \A n \in Node : nodes[n].kind = "none"
    BY <2>1 DEF Unmade
  <2>3. Live(nodes) = {} /\ (\A n \in Node : ~Exists(n)) /\ Checklists(nodes) = {}
    BY <2>2 DEF Live, Exists, Checklists
  <2>4. nodes' = nodes
    <3>1. ~(\E c \in Node : handleCreateBoard(c))
          /\ ~(\E c, i \in Node : ensureDefaultBoard(c, i))
      BY DEF handleCreateBoard, ensureDefaultBoard, BTypeOK, BoardRow
    <3> QED
      BY <1>2, <2>1, <2>3, <3>1
         DEF BNext, Unlocked, handleSetBoardStatus, handleSetBoardAutoStatus,
             handleAddConcern, addConcernThrows, handleAddItem, handleUpdateNode,
             handleSetNodeStatus, handleDeleteNode, handleMoveNode,
             handleReorderNode, ensureBoardLogNode, handlePostToNode, userPost,
             handleSetNodeChecklist, handleRecordDecision, handleUpdateDecision,
             brokerRestart
  <2> QED  BY <2>2, <2>4
<1> QED  BY <1>1, <1>2

LEMMA InitStatusInv == BInit => StatusInv
<1> SUFFICES ASSUME BInit PROVE StatusInv
  OBVIOUS
<1>1. \A n \in Node : nodes[n].kind = "none"
  BY DEF BInit, NoRow
<1>2. Counted(nodes) = {}
  BY <1>1 DEF Counted, Live
<1> QED  BY <1>1, <1>2, InitBTypeOK
         DEF BInit, StatusInv, Unmade, StatusIsRollup, AllSettled

\* Every handler leaves the status what the nodes say, or set by hand.
LEMMA NextStatusInv == Orderly /\ StatusInv /\ [BNext]_bvars => StatusInv'
<1> SUFFICES ASSUME Orderly, StatusInv, [BNext]_bvars PROVE StatusInv'
  OBVIOUS
<1>a. BTypeOK /\ Unmade /\ StatusIsRollup /\ board \in BoardRow
  BY DEF StatusInv, BTypeOK
<1> SUFFICES StatusIsRollup'
  BY <1>a, NextBTypeOK, NextUnmade DEF StatusInv
<1>1. CASE UNCHANGED bvars
  BY <1>a, <1>1 DEF bvars, StatusIsRollup
<1>2. CASE BNext
  <2>1. CASE Rolls \/ OptsInOrOut
    BY <1>a, <2>1, RolledRow, OptedRow DEF StatusIsRollup
  <2>2. CASE Leaves
    BY <1>a, <2>2 DEF Leaves, StatusIsRollup, SameVerdict
  <2>3. CASE Recomputes
    <3>1. (board'.auto /\ board'.status \in AutoStatuses) =>
            (board'.status = "settled" <=> AllSettled(nodes))
      BY <1>a, <2>3, RecomputeFacts DEF Recomputes
    <3> QED  BY <2>3, <3>1 DEF Recomputes, StatusIsRollup, SameVerdict
  <2>4. CASE Creates
    <3>1. ~AllSettled(nodes')
      BY <1>a, <2>4 DEF Creates
    <3>2. ~AllSettled(nodes)
      <4>1. Counted(nodes) = {}
        BY <1>a, <2>4 DEF Creates, Unmade, Counted, Live
      <4> QED  BY <4>1 DEF AllSettled
    <3> QED  BY <1>a, <2>4, <3>1, <3>2 DEF Creates, StatusIsRollup
  <2>5. CASE Sets
    BY <1>a, <2>5 DEF Sets, handleSetBoardStatus, StatusIsRollup, BoardRow
  <2> QED  BY <1>2, <1>a, <2>1, <2>2, <2>3, <2>4, <2>5, BoardSteps
           DEF StatusInv
<1> QED  BY <1>1, <1>2

\* The stored status says what the nodes say, unless somebody set it, whatever
\* handlers changed the tree in whatever order.
THEOREM StatusFollowsNodes == ASSUME Orderly PROVE BSpec => []StatusIsRollup
<1>1. StatusInv => StatusIsRollup
  BY DEF StatusInv
<1>2. StatusInv /\ [BNext]_bvars => StatusInv'
  BY NextStatusInv
<1> QED  BY <1>1, <1>2, InitStatusInv, PTL DEF BSpec

\* "completed" and "paused" are moved by nothing but a call that sets them and a
\* post on a paused board, whoever calls what.
THEOREM ExplicitStatusIsTheUsers == BSpec => ExplicitStatusStays
<1>1. BTypeOK /\ [BNext]_bvars =>
        [(board.status \notin AutoStatuses /\ board'.status # board.status) =>
           \/ board'.manual /\ UNCHANGED <<nodes, decisions>>
           \/ board.status = "paused" /\ board'.auto]_bvars
  <2> SUFFICES ASSUME BTypeOK, BNext,
                      board.status \notin AutoStatuses,
                      board'.status # board.status
               PROVE  \/ board'.manual /\ UNCHANGED <<nodes, decisions>>
                      \/ board.status = "paused" /\ board'.auto
    OBVIOUS
  <2>0. board \in BoardRow
    BY DEF BTypeOK
  <2>1. CASE Rolls
    BY <2>1, RolledRow
  <2>2. CASE Sets
    BY <2>0, <2>2 DEF Sets, handleSetBoardStatus, BoardRow
  <2>3. ~OptsInOrOut
    BY OptedRow
  <2>4. ~Leaves /\ ~Creates
    BY DEF Leaves, Creates
  <2>5. ~Recomputes
    BY <2>0, RecomputeFacts DEF Recomputes
  <2> QED  BY <2>1, <2>2, <2>3, <2>4, <2>5, BoardSteps
<1> QED  BY <1>1, BTypeCorrect, PTL DEF BSpec, ExplicitStatusStays

\* The owner of a checklist hears of its verdicts exactly when the board lands on
\* them: by the rollup and not by hand, and in silence only from a status set by
\* hand.
THEOREM VerdictsAreAnnounced == ASSUME Orderly PROVE BSpec => SettlingIsAnnounced
<1>1. StatusInv /\ [BNext]_bvars =>
        [LET settles == /\ board.status # "settled" /\ board'.status = "settled"
                        /\ Checklists(nodes') # {}
         IN /\ "checklist_settled" \in notes' => settles /\ ~board'.manual
            /\ (settles /\ ~board.manual /\ ~board'.manual) =>
                 "checklist_settled" \in notes']_bvars
  <2> DEFINE settles == /\ board.status # "settled" /\ board'.status = "settled"
                        /\ Checklists(nodes') # {}
  <2> SUFFICES ASSUME StatusInv, BNext
               PROVE  /\ "checklist_settled" \in notes' => settles /\ ~board'.manual
                      /\ (settles /\ ~board.manual /\ ~board'.manual) =>
                           "checklist_settled" \in notes'
    OBVIOUS
  <2>0. board \in BoardRow /\ BTypeOK
    BY DEF BTypeOK, StatusInv
  <2>1. CASE Rolls
    BY <2>0, <2>1, RolledRow
  <2>2. CASE OptsInOrOut
    BY <2>0, <2>2, OptedRow
  <2>3. CASE Leaves \/ Creates
    BY <2>3 DEF Leaves, Creates
  <2>4. CASE Sets
    BY <2>0, <2>4 DEF Sets, handleSetBoardStatus, BoardRow
  <2>5. CASE Recomputes
    <3>1. notes' = {} /\ board' = recomputeBoardStatus(board, nodes, decisions')
      BY <2>5 DEF Recomputes
    <3>2. /\ (board'.auto /\ board'.status \in AutoStatuses) =>
               (board'.status = "settled" <=> AllSettled(nodes))
          /\ board.status \notin AutoStatuses => board' = board
          /\ board'.status # board.status => board'.auto
          /\ board'.auto = board.auto
      BY <2>0, <3>1, RecomputeFacts
    <3>3. ~(settles /\ ~board.manual)
      BY <3>2 DEF StatusInv, StatusIsRollup, AutoStatuses
    <3> QED  BY <3>1, <3>3
  <2> QED  BY <2>0, <2>1, <2>2, <2>3, <2>4, <2>5, BoardSteps
<1>2. StatusInv /\ [BNext]_bvars => StatusInv'
  BY NextStatusInv
<1> QED  BY <1>1, <1>2, InitStatusInv, PTL DEF BSpec, SettlingIsAnnounced

-----------------------------------------------------------------------------
(***************************************************************************)
(* The tree.  It needs two facts about the callers: add_item names a live  *)
(* concern, and nobody turns an item into a concern (the log's own rows    *)
(* among them).  That every live node hangs from the root is no invariant  *)
(* a handler could restore by looking at the node it changes: it is carried *)
(* as "a set of live nodes that is closed under children of the root and   *)
(* of its members is all of them".                                         *)
(***************************************************************************)
WellCalled == Env \cap {"convert", "stray"} = {}

ClosedBelow(ns, S) ==
  \A m \in Live(ns) : ns[m].parent \in S \cup {Root} => m \in S

Hangs(ns) == \A S \in SUBSET Live(ns) : ClosedBelow(ns, S) => Live(ns) \subseteq S

Apart(ns) == \A n, m \in Live(ns) :
               (n # m /\ ns[n].parent = ns[m].parent) => ns[n].pos # ns[m].pos

\* The log is there as a whole, live, a concern at the root with its item.
LogStands(ns) ==
  /\ \A n \in Node : (ns[n].kind # "none" /\ ns[n].log) =>
       /\ ~ns[n].deleted
       /\ \/ ns[n].kind = "concern" /\ ns[n].parent = Root
          \/ ns[n].kind = "item" /\ ns[n].parent \in LogConcerns(ns)
  /\ LogConcerns(ns) = {} <=> LogItems(ns) = {}

PlaceInv == BTypeOK /\ LogStands(nodes) /\ Hangs(nodes) /\ Apart(nodes)

\* What Below is: it holds n, lies in R, is closed, and is the least such set.
LEMMA BelowFacts ==
  ASSUME NEW ns, NEW n, NEW R
  PROVE  /\ n \in Below(ns, n, R) /\ Below(ns, n, R) \subseteq R \cup {n}
         /\ \A m \in R : (ns[m].kind # "none" /\ ns[m].parent \in Below(ns, n, R))
                           => m \in Below(ns, n, R)
         /\ \A S \in SUBSET R :
              (\A m \in R : (ns[m].kind # "none" /\ ns[m].parent \in S \cup {n})
                              => m \in S)
              => Below(ns, n, R) \subseteq S \cup {n}
  BY DEF Below

LEMMA LiveFacts ==
  ASSUME NEW ns, NEW n
  PROVE  n \in Live(ns) <=> n \in Node /\ ns[n].kind # "none" /\ ~ns[n].deleted
  BY DEF Live

\* The page's claim in the form the proofs carry.
LEMMA PlaceMeans == Hangs(nodes) /\ Apart(nodes) => NodesHaveTheirPlace
<1> SUFFICES ASSUME Hangs(nodes), Apart(nodes) PROVE NodesHaveTheirPlace
  OBVIOUS
<1> DEFINE B == Below(nodes, Root, Live(nodes))
           S == B \ {Root}
<1>1. Root \notin Live(nodes)
  BY RootAssumption, LiveFacts
<1>2. S \in SUBSET Live(nodes)
  BY BelowFacts
<1>3. ClosedBelow(nodes, S)
  <2> SUFFICES ASSUME NEW m \in Live(nodes), nodes[m].parent \in S \cup {Root}
               PROVE  m \in S
    BY DEF ClosedBelow
  <2>1. nodes[m].kind # "none" /\ nodes[m].parent \in B
    BY BelowFacts, LiveFacts
  <2>2. m \in B
    BY <2>1, BelowFacts
  <2> QED  BY <1>1, <2>2
<1>4. Live(nodes) \subseteq B
  BY <1>2, <1>3 DEF Hangs
<1> QED  BY <1>4 DEF Apart, NodesHaveTheirPlace

\* The parent of a live node is live, or the root.
LEMMA ParentsLive ==
  ASSUME NEW ns, Hangs(ns), NEW n \in Live(ns)
  PROVE  ns[n].parent \in Live(ns) \cup {Root}
<1> DEFINE S == {m \in Live(ns) : ns[m].parent \in Live(ns) \cup {Root}}
<1>1. S \in SUBSET Live(ns) /\ ClosedBelow(ns, S)
  BY DEF ClosedBelow
<1>2. Live(ns) \subseteq S
  BY <1>1 DEF Hangs
<1> QED  BY <1>2

\* New nodes hang where they were put, directly or one below the other.
LEMMA HangsAdded ==
  ASSUME NEW ns, NEW ms, Hangs(ns), Live(ns) \subseteq Live(ms),
         \A m \in Live(ns) : ms[m].parent = ns[m].parent,
         \A m \in Live(ms) \ Live(ns) :
           \/ ms[m].parent \in Live(ns) \cup {Root}
           \/ /\ ms[m].parent \in Live(ms)
              /\ ms[ms[m].parent].parent \in Live(ns) \cup {Root}
  PROVE  Hangs(ms)
<1> SUFFICES ASSUME NEW S \in SUBSET Live(ms), ClosedBelow(ms, S)
             PROVE  Live(ms) \subseteq S
  BY DEF Hangs
<1> DEFINE T == S \cap Live(ns)
<1>1. T \in SUBSET Live(ns) /\ ClosedBelow(ns, T)
  BY DEF ClosedBelow
<1>2. Live(ns) \subseteq S
  BY <1>1 DEF Hangs
<1>3. \A m \in Live(ms) : ms[m].parent \in Live(ns) \cup {Root} => m \in S
  BY <1>2 DEF ClosedBelow
<1>4. \A m \in Live(ms) \ Live(ns) : m \in S
  BY <1>3 DEF ClosedBelow
<1> QED  BY <1>2, <1>4

\* Deletion takes whole subtrees: what stays hangs as it did.
LEMMA HangsDeleted ==
  ASSUME NEW ns, NEW ms, Hangs(ns), NEW n \in Live(ns),
         Live(ms) = Live(ns) \ Below(ns, n, Live(ns)),
         \A m \in Live(ms) : ms[m].parent = ns[m].parent
  PROVE  Hangs(ms)
<1> DEFINE D == Below(ns, n, Live(ns))
<1> SUFFICES ASSUME NEW S \in SUBSET Live(ms), ClosedBelow(ms, S)
             PROVE  Live(ms) \subseteq S
  BY DEF Hangs
<1>1. D \subseteq Live(ns)
  BY BelowFacts
<1>2. \A m \in Live(ns) : ns[m].parent \in D => m \in D
  BY BelowFacts, LiveFacts
<1>3. S \cup D \in SUBSET Live(ns)
  BY <1>1
<1>4. ClosedBelow(ns, S \cup D)
  <2> SUFFICES ASSUME NEW m \in Live(ns), ns[m].parent \in S \cup D \cup {Root}, m \notin D
               PROVE  m \in S
    BY DEF ClosedBelow
  <2>1. m \in Live(ms) /\ ms[m].parent = ns[m].parent
    OBVIOUS
  <2>2. ms[m].parent \in S \cup {Root}
    BY <1>2, <2>1
  <2> QED  BY <2>1, <2>2 DEF ClosedBelow
<1>5. Live(ns) \subseteq S \cup D
  BY <1>3, <1>4 DEF Hangs
<1> QED  BY <1>5

\* A node that is moved under none of its own descendants still hangs, and they
\* with it.
LEMMA HangsMoved ==
  ASSUME NEW ns, NEW ms, Hangs(ns), NEW n \in Live(ns), NEW p,
         p = Root \/ (p \in Live(ns) /\ p \notin Below(ns, n, Node)),
         Live(ms) = Live(ns), ms[n].parent = p,
         \A m \in Live(ns) : m # n => ms[m].parent = ns[m].parent
  PROVE  Hangs(ms)
<1> DEFINE L == Live(ns)
           D == Below(ns, n, L)
<1> SUFFICES ASSUME NEW S \in SUBSET L, ClosedBelow(ms, S)
             PROVE  L \subseteq S
  BY DEF Hangs
<1>1. D \subseteq L /\ n \in D /\ L \subseteq Node
  BY BelowFacts, LiveFacts
<1>2. \A m \in L : ns[m].parent \in D => m \in D
  BY BelowFacts, LiveFacts
<1>3. ClosedBelow(ns, S \cup D)
  <2> SUFFICES ASSUME NEW m \in L, ns[m].parent \in S \cup D \cup {Root}, m \notin D
               PROVE  m \in S
    BY DEF ClosedBelow
  <2>1. m # n /\ ms[m].parent \in S \cup {Root}
    BY <1>1, <1>2
  <2> QED  BY <2>1 DEF ClosedBelow
<1>4. L \subseteq S \cup D
  BY <1>1, <1>3 DEF Hangs
<1>5. p \in S \cup {Root}
  <2> DEFINE E == Below(ns, n, Node)
  <2>1. \A m \in L : ns[m].parent \in (E \cap L) \cup {n} => m \in E \cap L
    BY <1>1, BelowFacts, LiveFacts
  <2>2. D \subseteq (E \cap L) \cup {n}
    <3>1. \A T \in SUBSET L :
            (\A m \in L : (ns[m].kind # "none" /\ ns[m].parent \in T \cup {n})
                            => m \in T) => D \subseteq T \cup {n}
      BY BelowFacts
    <3>2. E \cap L \in SUBSET L
      OBVIOUS
    <3> HIDE DEF L, D, E
    <3> QED  BY <2>1, <3>1, <3>2
  <2>3. D \subseteq E
    BY <2>2, BelowFacts
  <2> QED  BY <1>4, <2>3
<1>6. n \in S
  BY <1>5 DEF ClosedBelow
<1>7. \A m \in L : ns[m].parent \in S \cup {n} => m \in S
  BY <1>6 DEF ClosedBelow
<1>8. D \subseteq S \cup {n}
  BY <1>7, BelowFacts
<1> QED  BY <1>4, <1>6, <1>8

\* A change of what a row says leaves the tree alone.
LEMMA SameShape ==
  ASSUME NEW ns, NEW ms, LogStands(ns), Hangs(ns), Apart(ns),
         \A n \in Node : /\ ms[n].kind = ns[n].kind /\ ms[n].log = ns[n].log
                         /\ ms[n].deleted = ns[n].deleted
                         /\ ms[n].parent = ns[n].parent /\ ms[n].pos = ns[n].pos
  PROVE  LogStands(ms) /\ Hangs(ms) /\ Apart(ms)
<1>1. Live(ms) = Live(ns) /\ Live(ns) \subseteq Node
  BY DEF Live
<1>2. LogConcerns(ms) = LogConcerns(ns) /\ LogItems(ms) = LogItems(ns)
  BY <1>1 DEF LogConcerns, LogItems
<1>3. LogStands(ms)
  BY <1>2 DEF LogStands
<1>4. \A m \in Live(ns) : ms[m].parent = ns[m].parent /\ ms[m].pos = ns[m].pos
  BY <1>1
<1>5. Hangs(ms)
  BY <1>1, <1>4, HangsAdded
<1>6. Apart(ms)
  BY <1>1, <1>4 DEF Apart
<1> QED  BY <1>3, <1>5, <1>6

InOrder(ns) == LogStands(ns) /\ Hangs(ns) /\ Apart(ns)

\* Rows that come in beside the log leave it standing.
LEMMA LogUntouched ==
  ASSUME NEW ns, NEW ms, LogStands(ns),
         \A n \in Node : (ns[n].kind # "none" /\ ns[n].log) =>
           /\ ms[n].kind = ns[n].kind /\ ms[n].log /\ ~ms[n].deleted
           /\ ms[n].parent = ns[n].parent,
         \A n \in Node : (ms[n].kind # "none" /\ ms[n].log) =>
           ns[n].kind # "none" /\ ns[n].log
  PROVE  LogStands(ms)
<1>1. \A n \in Node : (ns[n].kind # "none" /\ ns[n].log) => ~ns[n].deleted
  BY DEF LogStands
<1>2. \A n \in Node : /\ n \in LogConcerns(ms) <=> n \in LogConcerns(ns)
                      /\ n \in LogItems(ms) <=> n \in LogItems(ns)
  BY <1>1 DEF LogConcerns, LogItems, Live
<1>3. LogConcerns(ms) = LogConcerns(ns) /\ LogItems(ms) = LogItems(ns)
  <2>1. \A xs : LogConcerns(xs) \subseteq Node /\ LogItems(xs) \subseteq Node
    BY DEF LogConcerns, LogItems, Live
  <2> QED  BY <1>2, <2>1
<1> QED  BY <1>3 DEF LogStands

\* A new concern goes to the end of the root's rows, its items below it.
LEMMA ConcernPlaced ==
  ASSUME PlaceInv, NEW c \in Node, NEW I \in SUBSET Node, NEW pos \in 0..MaxPos,
         ConcernAdded(c, I, pos)
  PROVE  InOrder(nodes')
<1>a. nodes \in [Node -> NodeRow] /\ nodes' \in [Node -> NodeRow]
  BY DEF PlaceInv, BTypeOK, ConcernAdded
<1>b. LogStands(nodes) /\ Hangs(nodes) /\ Apart(nodes)
  BY DEF PlaceInv
<1>1. /\ nodes[c].kind = "none" /\ c \notin I
      /\ nodes'[c].kind = "concern" /\ nodes'[c].parent = Root
      /\ nodes'[c].pos = pos /\ ~nodes'[c].deleted /\ ~nodes'[c].log
  BY FreshRow DEF ConcernAdded, Exists
<1>2. \A i \in I : /\ nodes[i].kind = "none"
                   /\ nodes'[i].kind = "item" /\ nodes'[i].parent = c
                   /\ ~nodes'[i].deleted /\ ~nodes'[i].log
  <2> TAKE i \in I
  <2>1. nodes'[i].pos \in 0..MaxPos
    BY <1>a DEF NodeRow
  <2>2. nodes'[i] = Fresh("item", c, nodes'[i].pos) /\ nodes[i].kind = "none"
    BY DEF ConcernAdded, Exists
  <2> QED  BY <2>1, <2>2, FreshRow
<1>3. \A i, j \in I : nodes'[i].pos = nodes'[j].pos => i = j
  BY DEF ConcernAdded
<1>4. \A n \in Node : n # c /\ n \notin I => nodes'[n] = nodes[n]
  BY DEF ConcernAdded
<1>5. /\ \A n \in Live(nodes) : n # c /\ n \notin I /\ n \in Node
      /\ Live(nodes') = Live(nodes) \cup I \cup {c}
  BY <1>1, <1>2, <1>4 DEF Live
<1>6. LogStands(nodes')
  <2>1. \A n \in Node : (nodes[n].kind # "none" /\ nodes[n].log) =>
          ~nodes[n].deleted
    BY <1>b DEF LogStands
  <2>2. \A n \in Node : (nodes[n].kind # "none" /\ nodes[n].log) =>
          /\ nodes'[n].kind = nodes[n].kind /\ nodes'[n].log /\ ~nodes'[n].deleted
          /\ nodes'[n].parent = nodes[n].parent
    BY <1>1, <1>2, <1>4, <2>1
  <2>3. \A n \in Node : (nodes'[n].kind # "none" /\ nodes'[n].log) =>
          nodes[n].kind # "none" /\ nodes[n].log
    BY <1>1, <1>2, <1>4
  <2> QED  BY <1>b, <2>2, <2>3, LogUntouched
<1>7. Hangs(nodes')
  <2>1. \A m \in Live(nodes) : nodes'[m].parent = nodes[m].parent
    BY <1>4, <1>5
  <2>2. \A m \in Live(nodes') \ Live(nodes) :
           \/ nodes'[m].parent \in Live(nodes) \cup {Root}
           \/ /\ nodes'[m].parent \in Live(nodes')
              /\ nodes'[nodes'[m].parent].parent \in Live(nodes) \cup {Root}
    BY <1>1, <1>2, <1>5
  <2> QED  BY <1>b, <1>5, <2>1, <2>2, HangsAdded
<1>8. Apart(nodes')
  <2>1. \A n \in Live(nodes) : nodes[n].parent = Root => nodes[n].pos # pos
    <3>1. \A n \in Node : nodes[n].kind # "none" /\ nodes[n].parent = Root
                            => nodes[n].pos < pos
      BY DEF ConcernAdded, IsNextPos
    <3> QED  BY <1>a, <3>1, LiveFacts DEF NodeRow
  <2>2. \A n \in Live(nodes) : nodes[n].parent # c
    BY <1>b, <1>1, ParentsLive, LiveFacts, RootAssumption
  <2>3. c # Root
    BY RootAssumption
  <2>4. \A n \in Live(nodes) : nodes'[n] = nodes[n]
    BY <1>4, <1>5
  <2> SUFFICES ASSUME NEW n \in Live(nodes'), NEW m \in Live(nodes'),
                      n # m, nodes'[n].parent = nodes'[m].parent
               PROVE  nodes'[n].pos # nodes'[m].pos
    BY DEF Apart
  <2>5. CASE n \in I \/ m \in I
    BY <1>1, <1>2, <1>3, <1>5, <2>2, <2>3, <2>4, <2>5
  <2>6. CASE n \notin I /\ m \notin I
    BY <1>b, <1>1, <1>5, <2>1, <2>4, <2>6 DEF Apart
  <2> QED  BY <2>5, <2>6
<1> QED  BY <1>6, <1>7, <1>8 DEF InOrder

\* A new item goes to the end of the rows of a live concern.
LEMMA ItemPlaced ==
  ASSUME PlaceInv, WellCalled, NEW c \in Node, NEW i \in Node, handleAddItem(c, i)
  PROVE  InOrder(nodes')
<1>a. nodes \in [Node -> NodeRow]
  BY DEF PlaceInv, BTypeOK
<1>b. LogStands(nodes) /\ Hangs(nodes) /\ Apart(nodes)
  BY DEF PlaceInv
<1>1. PICK pos \in 0..MaxPos :
        /\ IsNextPos(nodes, Node, c, pos)
        /\ nodes' = [nodes EXCEPT ![i] = Fresh("item", c, pos)]
  BY DEF handleAddItem
<1>2. nodes[i].kind = "none" /\ c \in Live(nodes) /\ i # c
  BY DEF handleAddItem, Exists, WellCalled
<1>3. /\ nodes'[i].kind = "item" /\ nodes'[i].parent = c /\ nodes'[i].pos = pos
      /\ ~nodes'[i].deleted /\ ~nodes'[i].log
      /\ \A n \in Node : n # i => nodes'[n] = nodes[n]
  BY <1>a, <1>1, FreshRow
<1>4. i \notin Live(nodes) /\ Live(nodes) \subseteq Node
      /\ Live(nodes') = Live(nodes) \cup {i}
  BY <1>2, <1>3 DEF Live
<1>5. LogStands(nodes')
  <2>1. \A n \in Node : (nodes[n].kind # "none" /\ nodes[n].log) =>
          ~nodes[n].deleted
    BY <1>b DEF LogStands
  <2>2. \A n \in Node : (nodes[n].kind # "none" /\ nodes[n].log) =>
          /\ nodes'[n].kind = nodes[n].kind /\ nodes'[n].log /\ ~nodes'[n].deleted
          /\ nodes'[n].parent = nodes[n].parent
    BY <1>2, <1>3, <2>1
  <2>3. \A n \in Node : (nodes'[n].kind # "none" /\ nodes'[n].log) =>
          nodes[n].kind # "none" /\ nodes[n].log
    BY <1>2, <1>3
  <2> QED  BY <1>b, <2>2, <2>3, LogUntouched
<1>6. Hangs(nodes')
  BY <1>b, <1>2, <1>3, <1>4, HangsAdded
<1>7. Apart(nodes')
  <2>1. \A n \in Live(nodes) : nodes[n].parent = c => nodes[n].pos # pos
    <3>1. \A n \in Node : nodes[n].kind # "none" /\ nodes[n].parent = c
                            => nodes[n].pos < pos
      BY <1>1 DEF IsNextPos
    <3> QED  BY <1>a, <3>1, LiveFacts DEF NodeRow
  <2> QED  BY <1>b, <1>3, <1>4, <2>1 DEF Apart
<1> QED  BY <1>5, <1>6, <1>7 DEF InOrder

\* The log is no part of what a deletion takes.
LEMMA LogIsSpared ==
  ASSUME PlaceInv, NEW n \in Live(nodes), ~nodes[n].log,
         NEW m \in Below(nodes, n, Live(nodes))
  PROVE  m \in Live(nodes) /\ ~nodes[m].log
<1> DEFINE S == {x \in Live(nodes) : ~nodes[x].log}
<1>1. S \in SUBSET Live(nodes) /\ n \in S
  OBVIOUS
<1>2. ASSUME NEW x \in Live(nodes), nodes[x].parent \in S \cup {n}
      PROVE  x \in S
  <2> SUFFICES ASSUME nodes[x].log PROVE FALSE
    OBVIOUS
  <2>1. /\ x \in Node /\ nodes[x].kind # "none"
        /\ nodes[x].parent \in Node /\ nodes[x].parent # Root
        /\ ~nodes[nodes[x].parent].log
    BY <1>1, <1>2, LiveFacts, RootAssumption
  <2> QED  BY <2>1 DEF PlaceInv, LogStands, LogConcerns
<1>3. Below(nodes, n, Live(nodes)) \subseteq S \cup {n}
  <2>1. \A T \in SUBSET Live(nodes) :
          (\A x \in Live(nodes) :
             (nodes[x].kind # "none" /\ nodes[x].parent \in T \cup {n}) => x \in T)
          => Below(nodes, n, Live(nodes)) \subseteq T \cup {n}
    BY BelowFacts
  <2> HIDE DEF S
  <2> QED  BY <1>1, <1>2, <2>1
<1> QED  BY <1>1, <1>3

\* Deletion takes a subtree and leaves the rest where it was.
LEMMA DeletedPlaced ==
  ASSUME PlaceInv, NEW n \in Node, handleDeleteNode(n)
  PROVE  InOrder(nodes')
<1> DEFINE D == Below(nodes, n, Live(nodes))
<1>a. nodes \in [Node -> NodeRow]
  BY DEF PlaceInv, BTypeOK
<1>b. LogStands(nodes) /\ Hangs(nodes) /\ Apart(nodes)
  BY DEF PlaceInv
<1>1. /\ n \in Live(nodes) /\ ~nodes[n].log
      /\ nodes' = [m \in Node |-> IF m \in D THEN [nodes[m] EXCEPT !.deleted = TRUE]
                                  ELSE nodes[m]]
  BY DEF handleDeleteNode, IsLogNode
<1>2. \A m \in D : m \in Live(nodes) /\ ~nodes[m].log
  BY <1>1, LogIsSpared
<1> HIDE DEF D
<1>3. \A m \in Node :
        /\ nodes'[m].kind = nodes[m].kind /\ nodes'[m].log = nodes[m].log
        /\ nodes'[m].parent = nodes[m].parent /\ nodes'[m].pos = nodes[m].pos
        /\ IF m \in D THEN nodes'[m].deleted ELSE nodes'[m].deleted = nodes[m].deleted
  BY <1>a, <1>1 DEF NodeRow
<1>4. Live(nodes') = Live(nodes) \ D /\ Live(nodes) \subseteq Node
  BY <1>2, <1>3 DEF Live
<1>5. LogStands(nodes')
  BY <1>b, <1>2, <1>3, LogUntouched DEF LogStands
<1>6. Hangs(nodes')
  BY <1>b, <1>1, <1>3, <1>4, HangsDeleted DEF D
<1>7. Apart(nodes')
  BY <1>b, <1>3, <1>4 DEF Apart
<1> QED  BY <1>5, <1>6, <1>7 DEF InOrder

\* A move takes a node to the end of the rows of its new parent.
LEMMA MovedPlaced ==
  ASSUME PlaceInv, NEW n \in Node, NEW p \in Node \cup {Root}, handleMoveNode(n, p)
  PROVE  InOrder(nodes')
<1>a. nodes \in [Node -> NodeRow]
  BY DEF PlaceInv, BTypeOK
<1>b. LogStands(nodes) /\ Hangs(nodes) /\ Apart(nodes) /\ BTypeOK
  BY DEF PlaceInv
<1>1. PICK pos \in 0..MaxPos :
        /\ IsNextPos(nodes, Node, p, pos)
        /\ nodes' = [nodes EXCEPT ![n] = [@ EXCEPT !.parent = p, !.pos = pos]]
  BY <1>b, MoveRow
<1>2. /\ n \in Live(nodes) /\ ~nodes[n].log
      /\ p = Root \/ (p \in Live(nodes) /\ p \notin Below(nodes, n, Node))
  BY DEF handleMoveNode, IsLogNode, MoveTarget
<1>3. /\ nodes'[n].kind = nodes[n].kind /\ nodes'[n].log = nodes[n].log
      /\ nodes'[n].deleted = nodes[n].deleted
      /\ nodes'[n].parent = p /\ nodes'[n].pos = pos
      /\ \A m \in Node : m # n => nodes'[m] = nodes[m]
  <2> DEFINE row == [nodes[n] EXCEPT !.parent = p, !.pos = pos]
  <2>1. /\ row.kind = nodes[n].kind /\ row.log = nodes[n].log
        /\ row.deleted = nodes[n].deleted /\ row.parent = p /\ row.pos = pos
    BY <1>a DEF NodeRow
  <2>2. nodes' = [nodes EXCEPT ![n] = row]
    BY <1>1
  <2> HIDE DEF row
  <2> QED  BY <1>a, <2>1, <2>2
<1>4. Live(nodes') = Live(nodes) /\ Live(nodes) \subseteq Node
  BY <1>3 DEF Live
<1>5. LogStands(nodes')
  BY <1>b, <1>2, <1>3, LogUntouched DEF LogStands
<1>6. Hangs(nodes')
  BY <1>b, <1>2, <1>3, <1>4, HangsMoved
<1>7. Apart(nodes')
  <2>1. \A m \in Live(nodes) : nodes[m].parent = p => nodes[m].pos # pos
    <3>1. \A m \in Node : nodes[m].kind # "none" /\ nodes[m].parent = p
                            => nodes[m].pos < pos
      BY <1>1 DEF IsNextPos
    <3> QED  BY <1>a, <3>1, LiveFacts DEF NodeRow
  <2> QED  BY <1>b, <1>3, <1>4, <2>1 DEF Apart
<1> QED  BY <1>5, <1>6, <1>7 DEF InOrder

\* A reordering gives no two siblings the same place.
LEMMA ReorderedApart ==
  ASSUME PlaceInv, NEW n \in Node, NEW want \in Nat,
         NEW x \in Siblings(n), NEW y \in Siblings(n), nodes[x].pos < nodes[y].pos
  PROVE  Reordered(n, want, x) # Reordered(n, want, y)
<1> DEFINE others == Siblings(n) \ {n}
           Before(m) == {z \in others : nodes[z].pos < nodes[m].pos}
           place(m) == Cardinality(Before(m))
<1>1. nodes \in [Node -> NodeRow] /\ Siblings(n) \subseteq Node
  BY DEF PlaceInv, BTypeOK, Siblings, Live
<1>2. \A m \in Siblings(n) : nodes[m].pos \in Nat
  BY <1>1 DEF NodeRow
<1>3. \A m \in Siblings(n) : IsFiniteSet(Before(m)) /\ place(m) \in Nat
  BY <1>1, <1>2, PlaceIsNatural DEF PlaceInv
<1>4. \A m \in Siblings(n) :
        Reordered(n, want, m) = IF m = n THEN want
                                ELSE IF place(m) < want THEN place(m) ELSE place(m) + 1
  BY DEF Reordered
<1>5. Before(x) \subseteq Before(y)
  BY <1>2
<1>6. place(x) =< place(y) /\ (x # n => place(x) # place(y))
  <2>1. place(x) =< place(y) /\ (place(x) = place(y) => Before(x) = Before(y))
    BY <1>3, <1>5, FS_Subset
  <2>2. x # n => x \in Before(y) /\ x \notin Before(x)
    BY <1>2
  <2> QED  BY <2>1, <2>2
<1>7. x # y
  BY <1>2
<1>8. place(x) \in Nat /\ place(y) \in Nat
  BY <1>3
<1> HIDE DEF place, Before, others
<1>9. CASE x = n
  BY <1>4, <1>6, <1>7, <1>8, <1>9
<1>10. CASE x # n
  BY <1>4, <1>6, <1>7, <1>8, <1>10
<1> QED  BY <1>9, <1>10

LEMMA ReorderPlaced ==
  ASSUME PlaceInv, NEW n \in Node, NEW want \in 0..MaxPos, handleReorderNode(n, want)
  PROVE  InOrder(nodes')
<1>a. nodes \in [Node -> NodeRow]
  BY DEF PlaceInv, BTypeOK
<1>b. LogStands(nodes) /\ Hangs(nodes) /\ Apart(nodes)
  BY DEF PlaceInv
<1>1. nodes' = [m \in Node |->
                 IF m \in Siblings(n)
                   THEN [nodes[m] EXCEPT !.pos = Reordered(n, want, m)]
                   ELSE nodes[m]]
  BY DEF handleReorderNode
<1>2. \A m \in Node :
        /\ nodes'[m].kind = nodes[m].kind /\ nodes'[m].log = nodes[m].log
        /\ nodes'[m].parent = nodes[m].parent /\ nodes'[m].deleted = nodes[m].deleted
        /\ nodes'[m].pos = IF m \in Siblings(n) THEN Reordered(n, want, m)
                           ELSE nodes[m].pos
  <2> TAKE m \in Node
  <2>1. nodes[m] \in NodeRow
    BY <1>a
  <2>2. CASE m \in Siblings(n)
    <3>1. nodes'[m] = [nodes[m] EXCEPT !.pos = Reordered(n, want, m)]
      BY <1>1, <2>2
    <3> QED  BY <2>1, <2>2, <3>1 DEF NodeRow
  <2>3. CASE m \notin Siblings(n)
    BY <1>1, <2>3
  <2> QED  BY <2>2, <2>3
<1>3. Live(nodes') = Live(nodes) /\ Live(nodes) \subseteq Node
  BY <1>2 DEF Live
<1>4. LogStands(nodes')
  BY <1>b, <1>2, LogUntouched DEF LogStands
<1>5. Hangs(nodes')
  BY <1>b, <1>2, <1>3, HangsAdded
<1>6. Apart(nodes')
  <2> SUFFICES ASSUME NEW x \in Live(nodes), NEW y \in Live(nodes),
                      x # y, nodes[x].parent = nodes[y].parent
               PROVE  nodes'[x].pos # nodes'[y].pos
    BY <1>2, <1>3 DEF Apart
  <2>1. nodes[x].pos # nodes[y].pos /\ nodes[x].pos \in Nat /\ nodes[y].pos \in Nat
    BY <1>a, <1>b, <1>3 DEF Apart, NodeRow
  <2>2. x \in Siblings(n) <=> y \in Siblings(n)
    BY DEF Siblings
  <2>3. CASE x \in Siblings(n)
    <3>1. nodes[x].pos < nodes[y].pos \/ nodes[y].pos < nodes[x].pos
      BY <2>1
    <3>2. want \in Nat
      OBVIOUS
    <3>3. Reordered(n, want, x) # Reordered(n, want, y)
      BY <2>2, <2>3, <3>1, <3>2, ReorderedApart
    <3> QED  BY <1>2, <1>3, <2>2, <2>3, <3>3
  <2>4. CASE x \notin Siblings(n)
    BY <1>2, <1>3, <2>1, <2>2, <2>4
  <2> QED  BY <2>3, <2>4
<1> QED  BY <1>4, <1>5, <1>6 DEF InOrder

\* The log is made as a whole, and only where there is none.
LEMMA LogPlaced ==
  ASSUME PlaceInv, NEW c \in Node, NEW i \in Node, ensureBoardLogNode(c, i)
  PROVE  InOrder(nodes')
<1>a. nodes \in [Node -> NodeRow]
  BY DEF PlaceInv, BTypeOK
<1>b. LogStands(nodes) /\ Hangs(nodes) /\ Apart(nodes)
  BY DEF PlaceInv
<1>1. LogConcerns(nodes) = {} /\ LogItems(nodes) = {}
  BY <1>b DEF ensureBoardLogNode, LogMissing, LogStands
<1>2. nodes[c].kind = "none" /\ nodes[i].kind = "none" /\ i # c
  BY <1>1 DEF ensureBoardLogNode, Exists
<1>3. PICK pos \in 0..MaxPos :
        /\ IsNextPos(nodes, Live(nodes), Root, pos)
        /\ nodes' = [n \in Node |->
             IF n = c THEN [Fresh("concern", Root, pos) EXCEPT !.log = TRUE]
             ELSE IF n = i THEN [Fresh("item", c, 0) EXCEPT !.log = TRUE]
             ELSE nodes[n]]
  BY <1>2 DEF ensureBoardLogNode, Exists
<1>4. /\ nodes'[c].kind = "concern" /\ nodes'[c].parent = Root
      /\ nodes'[c].pos = pos /\ ~nodes'[c].deleted /\ nodes'[c].log
      /\ nodes'[i].kind = "item" /\ nodes'[i].parent = c
      /\ ~nodes'[i].deleted /\ nodes'[i].log
  BY <1>2, <1>3 DEF Fresh, NoRow
<1>5. \A n \in Node : n # c /\ n # i => nodes'[n] = nodes[n]
  BY <1>3
<1>6. /\ \A n \in Live(nodes) : n # c /\ n # i /\ n \in Node
      /\ Live(nodes') = Live(nodes) \cup {c, i}
  BY <1>2, <1>4, <1>5 DEF Live
<1>7. LogStands(nodes')
  <2>1. \A n \in Node : nodes[n].kind # "none" => ~nodes[n].log
    <3>1. ASSUME NEW n \in Node, nodes[n].kind # "none", nodes[n].log PROVE FALSE
      <4>1. n \in LogConcerns(nodes) \/ n \in LogItems(nodes)
        BY <1>b, <3>1 DEF LogStands, LogConcerns, LogItems, Live
      <4> QED  BY <1>1, <4>1
    <3> QED  BY <3>1
  <2>2. c \in LogConcerns(nodes') /\ i \in LogItems(nodes')
    BY <1>4 DEF LogConcerns, LogItems, Live
  <2> QED  BY <1>4, <1>5, <2>1, <2>2 DEF LogStands
<1>8. Hangs(nodes')
  <2>1. \A m \in Live(nodes) : nodes'[m].parent = nodes[m].parent
    BY <1>5, <1>6
  <2> QED  BY <1>b, <1>4, <1>6, <2>1, HangsAdded
<1>9. Apart(nodes')
  <2>1. \A n \in Live(nodes) : nodes[n].parent = Root => nodes[n].pos # pos
    <3>1. \A n \in Live(nodes) : nodes[n].kind # "none" /\ nodes[n].parent = Root
                                   => nodes[n].pos < pos
      BY <1>3 DEF IsNextPos
    <3> QED  BY <1>a, <3>1, LiveFacts DEF NodeRow
  <2>2. \A n \in Live(nodes) : nodes[n].parent # c
    BY <1>b, <1>2, ParentsLive, LiveFacts, RootAssumption
  <2>3. c # Root
    BY RootAssumption
  <2>4. \A n \in Live(nodes) : nodes'[n] = nodes[n]
    BY <1>5, <1>6
  <2> HIDE <1>3
  <2> QED  BY <1>b, <1>4, <1>6, <2>1, <2>2, <2>3, <2>4 DEF Apart
<1> QED  BY <1>7, <1>8, <1>9 DEF InOrder

\* With no node the tree is in order.
LEMMA InitPlaceInv == BInit => PlaceInv
<1> SUFFICES ASSUME BInit PROVE PlaceInv
  OBVIOUS
<1>1. \A n \in Node : nodes[n].kind = "none"
  BY DEF BInit, NoRow
<1>2. Live(nodes) = {} /\ LogConcerns(nodes) = {} /\ LogItems(nodes) = {}
  BY <1>1 DEF Live, LogConcerns, LogItems
<1> QED  BY <1>1, <1>2, InitBTypeOK DEF PlaceInv, LogStands, Hangs, Apart

\* Every handler leaves the tree in order.
LEMMA NextPlaceInv == WellCalled /\ PlaceInv /\ [BNext]_bvars => PlaceInv'
<1> SUFFICES ASSUME WellCalled, PlaceInv, [BNext]_bvars PROVE InOrder(nodes')
  <2>1. PlaceInv /\ [BNext]_bvars => BTypeOK'
    BY NextBTypeOK DEF PlaceInv
  <2> QED  BY <2>1 DEF PlaceInv, InOrder
<1>a. BTypeOK /\ nodes \in [Node -> NodeRow]
  BY DEF PlaceInv, BTypeOK
<1>b. LogStands(nodes) /\ Hangs(nodes) /\ Apart(nodes)
  BY DEF PlaceInv
<1>c. ASSUME \A n \in Node :
               /\ nodes'[n].kind = nodes[n].kind /\ nodes'[n].log = nodes[n].log
               /\ nodes'[n].deleted = nodes[n].deleted
               /\ nodes'[n].parent = nodes[n].parent /\ nodes'[n].pos = nodes[n].pos
      PROVE  InOrder(nodes')
  BY <1>b, <1>c, SameShape DEF InOrder
<1>d. ASSUME \A n \in Node :
               \/ nodes'[n] = nodes[n]
               \/ \E q : nodes'[n] = [nodes[n] EXCEPT !.status = q]
               \/ \E q : nodes'[n] = [nodes[n] EXCEPT !.checklist = q]
      PROVE  InOrder(nodes')
  <2> SUFFICES ASSUME NEW n \in Node
               PROVE  /\ nodes'[n].kind = nodes[n].kind /\ nodes'[n].log = nodes[n].log
                      /\ nodes'[n].deleted = nodes[n].deleted
                      /\ nodes'[n].parent = nodes[n].parent
                      /\ nodes'[n].pos = nodes[n].pos
    BY <1>c
  <2>1. nodes[n] \in NodeRow
    BY <1>a
  <2>2. CASE nodes'[n] = nodes[n]
    BY <2>2
  <2>3. CASE \E q : nodes'[n] = [nodes[n] EXCEPT !.status = q]
    BY <2>1, <2>3 DEF NodeRow
  <2>4. CASE \E q : nodes'[n] = [nodes[n] EXCEPT !.checklist = q]
    BY <2>1, <2>4 DEF NodeRow
  <2> QED  BY <1>d, <2>2, <2>3, <2>4
<1>e. CASE nodes' = nodes
  BY <1>c, <1>e
<1>1. ASSUME NEW c \in Node, NEW pos \in 0..MaxPos,
             NEW items \in Lists \cup {<<i>> : i \in Node},
             NewConcern(c, items, pos)
      PROVE  InOrder(nodes')
  <2>1. ItemsOf(items) \in SUBSET Node
    BY DEF ItemsOf
  <2> QED  BY <1>a, <1>1, <2>1, NewConcernAdds, ConcernPlaced
<1>2. CASE \/ \E c \in Node : \/ handleCreateBoard(c) \/ handleAddConcern(c)
                              \/ addConcernThrows(c)
           \/ \E c, i \in Node : ensureDefaultBoard(c, i)
  <2>1. 0 \in 0..MaxPos
    BY MaxPosAssumption
  <2> QED  BY <1>1, <1>2, <2>1 DEF handleCreateBoard, handleAddConcern,
                                   addConcernThrows, ensureDefaultBoard
<1>3. CASE \E c, i \in Node : handleAddItem(c, i)
  BY <1>3, ItemPlaced
<1>4. CASE \E n \in Node, k \in {"concern", "item"} : handleUpdateNode(n, k)
  <2> PICK n \in Node, k \in {"concern", "item"} : handleUpdateNode(n, k)
    BY <1>4
  <2> DEFINE row == [nodes[n] EXCEPT !.kind = k,
                                     !.status = IF k = "concern" THEN "pending"
                                                ELSE nodes[n].status]
  <2>1. nodes' = [nodes EXCEPT ![n] = row] /\ k = nodes[n].kind
    BY <1>a, UpdateRow DEF handleUpdateNode, WellCalled
  <2>2. /\ row.kind = k /\ row.log = nodes[n].log
        /\ row.deleted = nodes[n].deleted
        /\ row.parent = nodes[n].parent /\ row.pos = nodes[n].pos
    BY <1>a DEF NodeRow
  <2> HIDE DEF row
  <2> QED  BY <1>a, <1>c, <2>1, <2>2
<1>5. CASE \E n \in Node, s \in NodeStatus :
             handleSetNodeStatus(n, s) \/ handlePostToNode(n, s)
  <2> PICK n \in Node, s \in NodeStatus : nodes' = [nodes EXCEPT ![n].status = s]
    BY <1>5 DEF handleSetNodeStatus, handlePostToNode
  <2> QED  BY <1>a, <1>d
<1>6. CASE \E n \in Node : handleDeleteNode(n)
  BY <1>6, DeletedPlaced
<1>7. CASE \E n \in Node, m \in Node \cup {Root} : handleMoveNode(n, m)
  BY <1>7, MovedPlaced
<1>8. CASE \E n \in Node, w \in 0..MaxPos : handleReorderNode(n, w)
  BY <1>8, ReorderPlaced
<1>9. CASE \E c, i \in Node : ensureBoardLogNode(c, i)
  BY <1>9, LogPlaced
<1>10. CASE \E n \in Node, p \in BOOLEAN : handleSetNodeChecklist(n, p)
  BY <1>a, <1>d, <1>10 DEF handleSetNodeChecklist
<1>11. CASE brokerRestart
  <2>1. \A n \in Node : \/ nodes'[n] = nodes[n]
                        \/ nodes'[n] = [nodes[n] EXCEPT !.status = "pending"]
    BY <1>11 DEF brokerRestart
  <2> QED  BY <1>d, <2>1
<1> QED
  BY <1>e, <1>2, <1>3, <1>4, <1>5, <1>6, <1>7, <1>8, <1>9, <1>10, <1>11
     DEF BNext, bvars, handleSetBoardStatus, handleSetBoardAutoStatus, userPost,
         handleRecordDecision, handleUpdateDecision

\* However nodes were added, moved, reordered and deleted, every live node hangs
\* from the root by live nodes, and no two siblings have the same place.
THEOREM NodesKeepTheirPlace == ASSUME WellCalled PROVE BSpec => []NodesHaveTheirPlace
<1>1. PlaceInv => NodesHaveTheirPlace
  BY PlaceMeans DEF PlaceInv
<1>2. PlaceInv /\ [BNext]_bvars => PlaceInv'
  BY NextPlaceInv
<1> QED  BY <1>1, <1>2, InitPlaceInv, PTL DEF BSpec
=============================================================================
