------------------------------ MODULE MCIssues ------------------------------
EXTENDS Issues, TLC
IssueSymmetry == Permutations(Issue) \cup Permutations(Place)
\* No guard but drainNotes' and no property of the run reads the notices, who acted
\* last (but as the actor of the step) or the titles.
IssueView == <<[i \in Issue |-> [issue[i] EXCEPT !.title = 0]],
               [p \in Place |-> <<conv[p].made, conv[p].item>>], said, links, loose>>
=============================================================================
