----------------------------- MODULE MCUnanswered -----------------------------
(* Model-checking instances of Unanswered. *)
EXTENDS Unanswered, TLC

Symmetry == Permutations(Session) \cup Permutations(Board)
=============================================================================
