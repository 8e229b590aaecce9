-------------------------------- MODULE L2Book --------------------------------
(***************************************************************************)
(* The market data service's view of the book                              *)
(* (packages/marketdata/src/l2book.ts): the total quantity at each price,  *)
(* computed from the event stream alone, as operators on a view.           *)
(*                                                                         *)
(*   v.levels[side]  price -> quantity                                     *)
(*   v.orders        order id -> [side, price, remaining] of the orders    *)
(*                   that can still change a level                         *)
(***************************************************************************)
EXTENDS OrderBook

FreshL2 == [levels |-> [s \in Sides |-> EmptyMap], orders |-> EmptyMap]

QtyAt(v, side, price) ==
  IF price \in DOMAIN v.levels[side] THEN v.levels[side][price] ELSE 0

(* A level goes when its quantity does. *)
ApplyLevelDelta(v, side, price, change) ==
  LET tree == v.levels[side]
      next == QtyAt(v, side, price) + change
  IN [v EXCEPT !.levels[side] =
        IF next <= 0 THEN Restrict(tree, DOMAIN tree \ {price}) ELSE Put(tree, price, next)]

Untrack(v, id) == [v EXCEPT !.orders = Restrict(@, DOMAIN @ \ {id})]

(* An order is shown at its limit as soon as it is accepted; one without a *)
(* limit is tracked and not shown.                                         *)
AcceptL2(v, o) ==
  LET tracked == [v EXCEPT !.orders =
        Put(@, o.orderId, [side |-> o.side, price |-> o.price, remaining |-> o.qty])]
  IN IF o.type = "MARKET" \/ o.price = 0 THEN tracked
     ELSE ApplyLevelDelta(tracked, o.side, o.price, o.qty)

(* Either side of a trade gives up what was filled. *)
FillL2(v, id, qty) ==
  IF id \notin DOMAIN v.orders THEN v
  ELSE LET o    == v.orders[id]
           kept == IF o.remaining <= qty THEN Untrack(v, id)
                   ELSE [v EXCEPT !.orders[id].remaining = o.remaining - qty]
       IN IF o.price = 0 THEN kept ELSE ApplyLevelDelta(kept, o.side, o.price, -qty)

CancelL2(v, id) ==
  IF id \notin DOMAIN v.orders THEN v
  ELSE LET o == v.orders[id]
       IN IF o.price = 0 THEN Untrack(v, id)
          ELSE ApplyLevelDelta(Untrack(v, id), o.side, o.price, -o.remaining)

(* Mutant: a trade takes nothing back at the taker's own limit. *)
ApplyMakerOnly(v, ev) ==
  CASE ev.kind = "OrderAccepted" -> AcceptL2(v, ev.order)
    [] ev.kind = "OrderRejected" -> v
    [] ev.kind = "Trade"         -> FillL2(v, ev.makerOrderId, ev.qty)
    [] ev.kind = "OrderCanceled" -> CancelL2(v, ev.orderId)

ApplyL2(v, ev) ==
  CASE ev.kind = "OrderAccepted" -> AcceptL2(v, ev.order)
    [] ev.kind = "OrderRejected" -> v
    [] ev.kind = "Trade"         ->
         FillL2(FillL2(v, ev.makerOrderId, ev.qty), ev.takerOrderId, ev.qty)
    [] ev.kind = "OrderCanceled" -> CancelL2(v, ev.orderId)

(* The levels an event changes, in the order their deltas are returned.    *)
ChangedBy(v, ev) ==
  LET level(id) == IF id \in DOMAIN v.orders /\ v.orders[id].price # 0
                   THEN <<At(v.orders[id].side, v.orders[id].price)>> ELSE << >>
  IN CASE ev.kind = "OrderAccepted" ->
            IF ev.order.type = "MARKET" \/ ev.order.price = 0 THEN << >>
            ELSE <<At(ev.order.side, ev.order.price)>>
       [] ev.kind = "OrderRejected" -> << >>
       [] ev.kind = "Trade"         -> level(ev.makerOrderId) \o level(ev.takerOrderId)
       [] ev.kind = "OrderCanceled" -> level(ev.orderId)

(* Mutant: a delta says what the level held before. *)
DeltasBefore(v, ev) ==
  LET changed == ChangedBy(v, ev)
  IN [i \in DOMAIN changed |->
        [side |-> changed[i].side, price |-> changed[i].price,
         qty  |-> QtyAt(v, changed[i].side, changed[i].price)]]

(* What apply() returns: each touched level with its quantity afterwards.  *)
(* The two levels of a trade are on opposite sides, so neither delta       *)
(* contains the other's change.                                            *)
DeltasOf(v, ev) ==
  LET changed == ChangedBy(v, ev)
  IN [i \in DOMAIN changed |->
        [side |-> changed[i].side, price |-> changed[i].price,
         qty  |-> QtyAt(ApplyL2(v, ev), changed[i].side, changed[i].price)]]

(* snapshot(): the best so many levels of each side. *)
Snapshot(v, n) ==
  [s \in Sides |->
     Restrict(v.levels[s],
       {p \in DOMAIN v.levels[s] :
          Cardinality({q \in DOMAIN v.levels[s] : Better(s, q, p)}) < n})]
=============================================================================
