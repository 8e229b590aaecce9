---------------------------- MODULE StreamConsumer ----------------------------
(***************************************************************************)
(* consumeEngineStream (packages/ledger/src/streamConsumer.ts, and the     *)
(* same in packages/marketdata): a generator that drains the stream page   *)
(* by page with XRANGE, then follows it with blocking XREADs.              *)
(*                                                                         *)
(* An entry is its position in the order of XADD: ids only grow, also      *)
(* across a DEL, so the stream is always purged+1..added.  A page is the   *)
(* range of entries a read has returned and the generator not yet yielded. *)
(***************************************************************************)
EXTENDS Integers

CONSTANT Page  \* the COUNT of a read

ASSUME PageAssumption == Page \in Nat \ {0}

VARIABLES
  added, purged,  \* the stream
  known,          \* history: what had been added when the consumer started
  cursor,         \* the id yielded last, 0 for none
  phase,          \* the loop the generator is in
  page,           \* [from, to, mode]: entries from..to are to be yielded
  mode            \* the mode of the item yielded last

stream == <<added, purged>>
consumer == <<known, cursor, phase, page, mode>>
vars == <<stream, consumer>>

Modes == {"replay", "live"}

NoPage == [from |-> 1, to |-> 0, mode |-> "replay"]

Drained == page.from > page.to

Start ==
  /\ cursor = 0 /\ phase = "replay" /\ page = NoPage /\ mode = "replay"

Init == added \in Nat /\ purged = 0 /\ known = added /\ Start

(* The first entry after the cursor, and the last that fits on a page. *)
NextEntry == (IF cursor > purged THEN cursor ELSE purged) + 1
LastEntry == IF NextEntry + Page - 1 < added THEN NextEntry + Page - 1 ELSE added

(* Mutant: the entry at the cursor is read again. *)
ReadInclusive(kind) ==
  [from |-> IF cursor > purged THEN cursor ELSE NextEntry, to |-> LastEntry, mode |-> kind]

Read(kind) == [from |-> NextEntry, to |-> LastEntry, mode |-> kind]

PageIsShort == LastEntry - NextEntry + 1 < Page

(* Mutant: the first page is taken for the whole of the stream. *)
FetchReplayOnce ==
  /\ phase = "replay" /\ Drained
  /\ page' = Read("replay")
  /\ phase' = "live"
  /\ UNCHANGED <<stream, known, cursor, mode>>

(* XRANGE.  After a short page the generator goes over to XREAD. *)
FetchReplay ==
  /\ phase = "replay" /\ Drained
  /\ page' = Read("replay")
  /\ phase' = IF PageIsShort THEN "live" ELSE "replay"
  /\ UNCHANGED <<stream, known, cursor, mode>>

(* XREAD BLOCK: it is answered when there is an entry after the cursor. *)
FetchLive ==
  /\ phase = "live" /\ Drained
  /\ NextEntry <= added
  /\ page' = Read("live")
  /\ UNCHANGED <<stream, known, cursor, phase, mode>>

Fetch == FetchReplay \/ FetchLive

Yield ==
  /\ ~Drained
  /\ cursor' = page.from
  /\ mode' = page.mode
  /\ page' = [page EXCEPT !.from = page.from + 1]
  /\ UNCHANGED <<stream, known, phase>>

(* The service starts a new generator, after a reset or with a new process. *)
Restart ==
  /\ cursor' = 0 /\ phase' = "replay" /\ page' = NoPage /\ mode' = "replay"
  /\ known' = added
  /\ UNCHANGED stream

(* The engine's side: XADD and the DEL of its reset. *)
Add == added' = added + 1 /\ UNCHANGED <<purged, consumer>>

Purge == purged' = added /\ UNCHANGED <<added, consumer>>

Next == Fetch \/ Yield \/ Restart \/ Add \/ Purge

Spec == Init /\ [][Next]_vars

(* Read for the live entries, history before, and nothing twice. *)
Abstract == INSTANCE Delivery WITH last <- cursor, live <- (mode = "live")
=============================================================================
