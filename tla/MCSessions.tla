------------------------------ MODULE MCSessions ------------------------------
(* Model-checking instances of Sessions. *)
EXTENDS Sessions, TLC

Symmetry == Permutations(Session) \cup Permutations(CC)
              \cup Permutations(Board) \cup Permutations(Cwd)
=============================================================================
