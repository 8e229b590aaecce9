------------------------------- MODULE Delivery -------------------------------
(***************************************************************************)
(* What a service may rely on when it consumes the stream engine.events:   *)
(* entries arrive in the order they were added, none twice and none left   *)
(* out unless it was deleted; everything that was in the stream when the   *)
(* consumer started arrives as history, and once an entry has arrived live *)
(* all later ones do (packages/ledger/src/streamConsumer.ts:4-18).         *)
(*                                                                         *)
(* Entries are their positions 1, 2, ... in the order of XADD.             *)
(***************************************************************************)
EXTENDS Integers

VARIABLES
  added,   \* entries added since the beginning
  purged,  \* the first so many of them have been deleted
  known,   \* what had been added when the consumer started
  last,    \* the entry delivered last
  live     \* that entry was delivered as a live one

vars == <<added, purged, known, last, live>>

Init ==
  /\ added \in Nat /\ purged = 0
  /\ known = added
  /\ last = 0 /\ live = FALSE

Add == added' = added + 1 /\ UNCHANGED <<purged, known, last, live>>

Purge == purged' = added /\ UNCHANGED <<added, known, last, live>>

Restart == last' = 0 /\ live' = FALSE /\ known' = added /\ UNCHANGED <<added, purged>>

Deliver(i) ==
  /\ \A skipped \in (last + 1)..(i - 1) : skipped <= purged
  /\ last' = i
  /\ live' \in {live, i > known}
  /\ live => live'
  /\ UNCHANGED <<added, purged, known>>

Next ==
  \/ Add \/ Purge \/ Restart
  \/ \E i \in (last + 1)..added : Deliver(i)

Spec == Init /\ [][Next]_vars
=============================================================================
