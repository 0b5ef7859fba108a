-------------------------------- MODULE MCBoard --------------------------------
EXTENDS Board, TLC

\* Of a deleted row nothing reads more than its place, as long as no call names
\* it ("deleted" not in Env).
Place(row) ==
  IF row.deleted
    THEN [row EXCEPT !.kind = "item", !.status = "pending", !.log = FALSE,
                     !.checklist = FALSE]
    ELSE row

\* What decides the next step.  The reminders of the last one do not.
WhatDecides == <<board, [n \in Node |-> Place(nodes[n])], decisions>>

\* At most one deleted row and one checklist at a time.
FewSpecialNodes ==
  /\ Cardinality({n \in Node : nodes[n].deleted}) =< 1
  /\ Cardinality(Checklists(nodes)) =< 1

Symmetry == Permutations(Node) \cup Permutations(Decision)
=============================================================================
