-------------------------------- MODULE Basics --------------------------------
(***************************************************************************)
(* The operators on sequences and on sets of numbers that the parts of     *)
(* Page use.  SequencesExt and FiniteSetsExt have them too; but each named *)
(* instance of a part would bring in all the definitions of those modules, *)
(* and the prover carries every definition through every step.             *)
(***************************************************************************)
EXTENDS Naturals, Sequences

ToSet(s) == {s[i] : i \in DOMAIN s}
Contains(s, e) == \E i \in 1 .. Len(s) : s[i] = e
Last(s) == s[Len(s)]

RemoveAt(s, i) == SubSeq(s, 1, i - 1) \o SubSeq(s, i + 1, Len(s))

Max(X) == CHOOSE x \in X : \A y \in X : x >= y
Min(X) == CHOOSE x \in X : \A y \in X : x =< y
=============================================================================
