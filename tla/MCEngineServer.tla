---------------------------- MODULE MCEngineServer ---------------------------
(* Small instances of EngineServer. *)
EXTENDS EngineServer

Symmetry ==
  Permutations(Users) \cup Permutations(ClientOrderIds) \cup Permutations(Handlers)
=============================================================================
