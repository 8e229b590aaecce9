------------------------------ MODULE MCExchange ------------------------------
(* Small instances of Exchange. *)
EXTENDS Exchange

Symmetry ==
  Permutations(Users) \cup Permutations(ClientOrderIds) \cup Permutations(Requests)

(* Between calls nothing reads the list the last call returned. *)
View == <<book, seq, seen, nextId, order, IF Idle THEN << >> ELSE events, exchangeVars>>

(* Nothing is claimed of a ledger whose accounts were lost under a request. *)
NotOverlapped == ~overlapped
=============================================================================
