------------------------------ MODULE OrderBook ------------------------------
(***************************************************************************)
(* The price-time order book of the TypeScript engine                      *)
(* (packages/engine/src/book.ts), as operators on a book value, so that    *)
(* the matcher, the replayer and the recovery of a restarted engine all    *)
(* use the same book.                                                      *)
(*                                                                         *)
(*   book.levels[side]  the B-tree of a side: a function from the prices   *)
(*                      that have a level to the level, a FIFO queue of    *)
(*                      orders with the cached total of their quantities   *)
(*   book.refs          the index from order id to side and price          *)
(*                                                                         *)
(* The linked list of a level is its sequence of orders; a ListNode is a   *)
(* position in it.                                                         *)
(***************************************************************************)
EXTENDS Integers, Sequences, FiniteSets, FiniteSetsExt, SequencesExt, TLC

CONSTANTS
  Users,           \* user ids
  ClientOrderIds,  \* idempotency keys
  NoOrder          \* the null of the code: no order in hand

Sides == {"buy", "sell"}

OrderTypes == {"LIMIT", "MARKET", "IOC", "FOK", "POST_ONLY"}

Order ==
  [orderId : Nat, userId : Users, clientOrderId : ClientOrderIds,
   side : Sides, type : OrderTypes, price : Nat, qty : Nat, remaining : Nat]

ASSUME NoOrderAssumption == NoOrder \notin Order

(* The events of the engine (packages/common/src/events.ts). *)

RejectReasons ==
  {"UNKNOWN_SYMBOL", "INVALID_QTY", "INVALID_PRICE", "DUPLICATE_CLIENT_ORDER_ID",
   "POST_ONLY_WOULD_CROSS", "FOK_NOT_FILLABLE"}

CancelReasons == {"USER", "STP", "IOC_REMAINDER", "MARKET_NO_LIQUIDITY"}

Event ==
  [kind : {"OrderAccepted"}, seq : Nat, order : Order]
  \cup [kind : {"OrderRejected"}, seq : Nat, userId : Users,
        clientOrderId : ClientOrderIds, reason : RejectReasons]
  \cup [kind : {"OrderCanceled"}, seq : Nat, orderId : Nat, userId : Users,
        side : Sides, price : Nat, remaining : Nat, reason : CancelReasons]
  \cup [kind : {"Trade"}, seq : Nat, price : Nat, qty : Nat, aggressor : Sides,
        takerOrderId : Nat, takerUserId : Users, takerOrderType : OrderTypes,
        makerOrderId : Nat, makerUserId : Users]

Level == [queue : Seq(Order), totalQty : Int]

Opposite(side) == IF side = "buy" THEN "sell" ELSE "buy"

(* p is ahead of q in the key order of a side's tree. *)
Better(side, p, q) == IF side = "buy" THEN p > q ELSE p < q

(* Mutant: an order does not trade at exactly its own limit. *)
CrossesStrictly(side, limit, p) == IF side = "buy" THEN limit > p ELSE limit < p

(* An incoming order of this side and limit trades at the resting price p. *)
Crosses(side, limit, p) == IF side = "buy" THEN limit >= p ELSE limit <= p

(* set(key, value) of a tree or a map. *)
Put(f, key, value) ==
  [k \in DOMAIN f \cup {key} |-> IF k = key THEN value ELSE f[k]]

EmptyMap == [k \in {} |-> k]

EmptyBook == [levels |-> [s \in Sides |-> EmptyMap], refs |-> EmptyMap]

(* The prices that have a level, the queue at one, and the index. *)
PricesOn(book, side) == DOMAIN book.levels[side]
QueueAt(book, side, p) == book.levels[side][p].queue
IsResting(book, id) == id \in DOMAIN book.refs
RefOf(book, id) == book.refs[id]
At(side, p) == [side |-> side, price |-> p]

(* Mutant: the comparator of the bid tree is not reversed. *)
IsBestAscending(book, side, p) ==
  /\ p \in PricesOn(book, side)
  /\ \A q \in PricesOn(book, side) : p <= q

(* minKey() of the side's tree. *)
IsBest(book, side, p) ==
  /\ p \in PricesOn(book, side)
  /\ \A q \in PricesOn(book, side) : q = p \/ Better(side, p, q)

HasOrders(book, side) == PricesOn(book, side) # {}

BestPrice(book, side) == CHOOSE p \in PricesOn(book, side) : IsBest(book, side, p)

PeekTopOrder(book, side) == Head(QueueAt(book, side, BestPrice(book, side)))

(* Mutant: the new order is put at the front of its queue. *)
RestInFront(book, o) ==
  LET tree  == book.levels[o.side]
      level == IF o.price \in DOMAIN tree THEN tree[o.price]
               ELSE [queue |-> << >>, totalQty |-> 0]
      grown == [queue    |-> <<o>> \o level.queue,
                totalQty |-> level.totalQty + o.remaining]
  IN [levels |-> [book.levels EXCEPT ![o.side] = Put(tree, o.price, grown)],
      refs   |-> Put(book.refs, o.orderId, At(o.side, o.price))]

Rest(book, o) ==
  LET tree  == book.levels[o.side]
      level == IF o.price \in DOMAIN tree THEN tree[o.price]
               ELSE [queue |-> << >>, totalQty |-> 0]
      grown == [queue    |-> Append(level.queue, o),
                totalQty |-> level.totalQty + o.remaining]
  IN [levels |-> [book.levels EXCEPT ![o.side] = Put(tree, o.price, grown)],
      refs   |-> Put(book.refs, o.orderId, At(o.side, o.price))]

(* Mutant: a level that has become empty stays in the tree. *)
UnlinkKeepingLevel(book, side, p, i) ==
  LET level == book.levels[side][p]
      rest  == [queue    |-> RemoveAt(level.queue, i),
                totalQty |-> level.totalQty - level.queue[i].remaining]
  IN [levels |-> [book.levels EXCEPT ![side] = Put(book.levels[side], p, rest)],
      refs   |-> Restrict(book.refs, DOMAIN book.refs \ {level.queue[i].orderId})]

(* unlink, drop the level when it empties, and forget the reference. *)
Unlink(book, side, p, i) ==
  LET tree  == book.levels[side]
      level == tree[p]
      rest  == [queue    |-> RemoveAt(level.queue, i),
                totalQty |-> level.totalQty - level.queue[i].remaining]
  IN [levels |-> [book.levels EXCEPT ![side] =
                    IF rest.queue = << >>
                    THEN Restrict(tree, DOMAIN tree \ {p})
                    ELSE [tree EXCEPT ![p] = rest]],
      refs   |-> Restrict(book.refs, DOMAIN book.refs \ {level.queue[i].orderId})]

(* None of the three throws of reduceTopOrder is reached. *)
CanReduceTop(book, side, fillQty) ==
  /\ HasOrders(book, side)
  /\ fillQty <= PeekTopOrder(book, side).remaining

(* Mutant: a partial fill forgets the cached total of the level. *)
ReduceHeadOnly(book, side, p, fillQty) ==
  [book EXCEPT !.levels[side][p].queue[1].remaining = @ - fillQty]

(* A partial fill of the head of a level. *)
ReduceHead(book, side, p, fillQty) ==
  LET tree    == book.levels[side]
      level   == tree[p]
      reduced == [queue    |-> [level.queue EXCEPT ![1].remaining = @ - fillQty],
                  totalQty |-> level.totalQty - fillQty]
  IN [levels |-> [book.levels EXCEPT ![side] = [tree EXCEPT ![p] = reduced]],
      refs   |-> book.refs]

ReduceTopOrder(book, side, fillQty) ==
  LET p == BestPrice(book, side)
  IN IF fillQty = PeekTopOrder(book, side).remaining
     THEN Unlink(book, side, p, 1)
     ELSE ReduceHead(book, side, p, fillQty)

(* The queue and position a reference leads to. *)
QueueOfRef(book, id) == QueueAt(book, RefOf(book, id).side, RefOf(book, id).price)

PositionOf(book, id) ==
  CHOOSE i \in DOMAIN QueueOfRef(book, id) : QueueOfRef(book, id)[i].orderId = id

GetOrder(book, id) == QueueOfRef(book, id)[PositionOf(book, id)]

CancelOrder(book, id) ==
  Unlink(book, RefOf(book, id).side, RefOf(book, id).price, PositionOf(book, id))

(* The orders resting on a side, and all of them. *)
RestingOn(book, side) ==
  UNION {ToSet(QueueAt(book, side, p)) : p \in PricesOn(book, side)}

QtyOf(orders) == MapThenSumSet(LAMBDA o : o.remaining, orders)

(* depth(): what a level shows to the outside. *)
Depth(book, side) ==
  [p \in PricesOn(book, side) |-> book.levels[side][p].totalQty]

-----------------------------------------------------------------------------
(* What a well-formed book is; the properties of the modules below apply   *)
(* these to their books.                                                   *)

BookTypeOK(book) ==
  /\ book = [levels |-> book.levels, refs |-> book.refs]
  /\ book.levels = [s \in Sides |-> book.levels[s]]
  /\ \A s \in Sides :
       /\ DOMAIN book.levels[s] \subseteq Nat
       /\ book.levels[s] \in [DOMAIN book.levels[s] -> Level]
  /\ DOMAIN book.refs \subseteq Nat
  /\ book.refs \in [DOMAIN book.refs -> [side : Sides, price : Nat]]

(* An order rests under its own side and price, with quantity left. *)
Belongs(o, s, p) == o.side = s /\ o.price = p /\ o.remaining > 0

(* A level exists exactly while it holds an order, its orders belong to    *)
(* it, and refs finds them there.                                          *)
LevelsIndexed(book) ==
  \A s \in Sides : \A p \in PricesOn(book, s) :
    /\ QueueAt(book, s, p) # << >>
    /\ \A i \in DOMAIN QueueAt(book, s, p) :
         /\ Belongs(QueueAt(book, s, p)[i], s, p)
         /\ IsResting(book, QueueAt(book, s, p)[i].orderId)
         /\ RefOf(book, QueueAt(book, s, p)[i].orderId) = At(s, p)

(* refs leads to an order with the id it was asked for. *)
RefsResolve(book) ==
  \A id \in DOMAIN book.refs :
    /\ RefOf(book, id).price \in PricesOn(book, RefOf(book, id).side)
    /\ \E i \in DOMAIN QueueOfRef(book, id) : QueueOfRef(book, id)[i].orderId = id

InOrder(queue) ==
  \A i, j \in DOMAIN queue : i < j => queue[i].orderId < queue[j].orderId

(* Within a level orders wait in the order they were accepted. *)
QueuesInOrder(book) ==
  \A s \in Sides : \A p \in PricesOn(book, s) : InOrder(QueueAt(book, s, p))

(* The cached total of a level is the sum of its orders. *)
TotalsExact(book) ==
  \A s \in Sides : \A p \in PricesOn(book, s) :
    book.levels[s][p].totalQty = QtyOf(ToSet(QueueAt(book, s, p)))

BookWellFormed(book) ==
  BookTypeOK(book) /\ LevelsIndexed(book) /\ RefsResolve(book) /\ QueuesInOrder(book)

Uncrossed(book) ==
  \A p \in PricesOn(book, "buy"), q \in PricesOn(book, "sell") : p < q
=============================================================================
