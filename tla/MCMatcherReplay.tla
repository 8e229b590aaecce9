--------------------------- MODULE MCMatcherReplay ---------------------------
(* Small instances of MatcherReplay. *)
EXTENDS MatcherReplay

Symmetry == Permutations(Users) \cup Permutations(ClientOrderIds)
=============================================================================
