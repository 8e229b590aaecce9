------------------------------ MODULE EventLog -------------------------------
(***************************************************************************)
(* replayInto (packages/engine/src/eventLog.ts): how a fresh engine        *)
(* rebuilds its book, its idempotency set and its sequence counter from    *)
(* the event stream, one event at a time.                                  *)
(*                                                                         *)
(*   r.pending   the order of the submission being walked; it may still    *)
(*               have to rest                                              *)
(*   r.canceled  pendingCanceled                                           *)
(*   r.failed    reduceTopOrder threw: replay rejects and the process      *)
(*               exits before it listens                                   *)
(***************************************************************************)
EXTENDS OrderBook

FreshReplay ==
  [book |-> EmptyBook, seen |-> {}, lastSeq |-> 0,
   pending |-> NoOrder, canceled |-> FALSE, failed |-> FALSE]

(* Mutant: a terminal cancel of the submission is not remembered. *)
RestsThoughCanceled(r) ==
  /\ r.pending # NoOrder
  /\ r.pending.remaining > 0
  /\ r.pending.type \in {"LIMIT", "POST_ONLY"}

RestsWhenDone(r) ==
  /\ r.pending # NoOrder
  /\ ~r.canceled
  /\ r.pending.remaining > 0
  /\ r.pending.type \in {"LIMIT", "POST_ONLY"}

FlushedBook(r) == IF RestsWhenDone(r) THEN Rest(r.book, r.pending) ELSE r.book

FlushPending(r) ==
  [r EXCEPT !.book = FlushedBook(r), !.pending = NoOrder, !.canceled = FALSE]

ReplayAccepted(r, ev) ==
  [FlushPending(r) EXCEPT
     !.pending = ev.order,
     !.seen = @ \cup {<<ev.order.userId, ev.order.clientOrderId>>}]

(* The maker is looked up by id, but the head of its side is reduced. *)
ReplayTrade(r, ev) ==
  LET side == GetOrder(r.book, ev.makerOrderId).side
      taker == IF r.pending # NoOrder /\ r.pending.orderId = ev.takerOrderId
               THEN [r.pending EXCEPT !.remaining = @ - ev.qty] ELSE r.pending
  IN IF ~IsResting(r.book, ev.makerOrderId)
     THEN [r EXCEPT !.pending = taker]
     ELSE IF CanReduceTop(r.book, side, ev.qty)
     THEN [r EXCEPT !.book = ReduceTopOrder(r.book, side, ev.qty), !.pending = taker]
     ELSE [r EXCEPT !.failed = TRUE]

(* A cancel of the submission being walked only marks it; any other cancel *)
(* removes a resting order.                                                *)
ReplayCanceled(r, ev) ==
  IF r.pending # NoOrder /\ r.pending.orderId = ev.orderId
  THEN [r EXCEPT !.canceled = TRUE]
  ELSE IF IsResting(r.book, ev.orderId)
  THEN [r EXCEPT !.book = CancelOrder(r.book, ev.orderId)]
  ELSE r

ReplayEvent(r, ev) ==
  LET step == CASE ev.kind = "OrderAccepted" -> ReplayAccepted(r, ev)
                [] ev.kind = "OrderRejected" -> FlushPending(r)
                [] ev.kind = "Trade"         -> ReplayTrade(r, ev)
                [] ev.kind = "OrderCanceled" -> ReplayCanceled(r, ev)
  IN IF r.failed THEN r ELSE [step EXCEPT !.lastSeq = ev.seq]

(* Mutant: the last submission is not flushed at the end of the stream. *)
ReplayWithoutEnd(stream) == FoldLeft(ReplayEvent, FreshReplay, stream)

(* The whole of replayInto on a stream. *)
ReplayInto(stream) == FlushPending(FoldLeft(ReplayEvent, FreshReplay, stream))
=============================================================================
