---------------------------- MODULE MatcherReplay ----------------------------
(***************************************************************************)
(* Two consumers that follow the engine's events in the order the engine   *)
(* emits them, in lock-step with it: what replayInto computes, and the     *)
(* market data view of l2book.ts, one event at a time.  It is how the      *)
(* claim that the event list determines the engine's state becomes an      *)
(* invariant.                                                              *)
(***************************************************************************)
EXTENDS Matcher, EventLog, L2Book

VARIABLES
  replica,  \* the replay state after every event emitted so far
  l2        \* the market data view after every event emitted so far

replayVars == <<book, seq, seen, nextId, order, events, replica, l2>>

ReplayInit == Init /\ replica = FreshReplay /\ l2 = FreshL2

(* Every step of the engine that assigns a sequence number emits exactly   *)
(* the last element of its event list.                                     *)
Follow ==
  /\ replica' = IF seq' = seq THEN replica ELSE ReplayEvent(replica, Last(events'))
  /\ l2' = IF seq' = seq THEN l2 ELSE ApplyL2(l2, Last(events'))

ReplayNext == Next /\ Follow

ReplaySpec == ReplayInit /\ [][ReplayNext]_replayVars

-----------------------------------------------------------------------------
(* Replaying the events emitted so far never throws and yields the         *)
(* engine's own state: between calls the flushed replica holds the same    *)
(* book, and its counter is the engine's (matcher.ts:17-22).               *)
ReplayAgrees ==
  /\ ~replica.failed
  /\ replica.lastSeq = seq
  /\ Idle => FlushedBook(replica) = book
  /\ ~Idle => replica.book = book /\ replica.pending = order /\ ~replica.canceled

(* The view never sees the book, only events, and rests an order before    *)
(* the engine has decided whether it will.  Still, after every event it    *)
(* shows what the engine's levels hold plus, while a call runs, what the   *)
(* incoming order has left at its limit (l2book.ts:11-23); and it tracks   *)
(* exactly the orders that can still change a level.                       *)
L2Agrees ==
  LET incoming(s, p) ==
        IF ~Idle /\ order.side = s /\ order.price = p THEN order.remaining ELSE 0
      engineQty(s, p) ==
        incoming(s, p) + IF p \in PricesOn(book, s) THEN Depth(book, s)[p] ELSE 0
  IN /\ \A s \in Sides, p \in Prices \ {0} : QtyAt(l2, s, p) = engineQty(s, p)
     /\ Idle => \A s \in Sides : l2.levels[s] = Depth(book, s)
     /\ Idle => DOMAIN l2.orders = DOMAIN book.refs

(* A restarted engine refuses every client order id the engine before it   *)
(* had spent (matcher.ts:54, eventLog.test.ts:145).                        *)
DedupSurvivesReplay == Idle => replica.seen = seen
=============================================================================
