------------------------------- MODULE Matcher -------------------------------
(***************************************************************************)
(* The matching engine (packages/engine/src/matcher.ts): submit and cancel *)
(* on the order book.  A call runs to completion without interruption, so  *)
(* one step of this module is one iteration of its loop: while an order is *)
(* being matched no other call can start.  `events` is the list a call     *)
(* builds and returns; the previous call's list stays until the next call  *)
(* starts, which is when the server has handed it to the event log.        *)
(***************************************************************************)
EXTENDS OrderBook

CONSTANTS
  Symbols,         \* symbols a command may name
  Types,           \* the order types clients use
  Prices,          \* limit prices of commands; 0 is a missing or bad price
  Quantities,      \* quantities of commands; 0 is a bad quantity
  MaxOrders,       \* bound: order records created
  MaxSeq           \* bound: no call starts once seq has reached it

ASSUME ConstantsAssumption ==
  /\ Types \subseteq OrderTypes
  /\ Prices \subseteq Nat
  /\ Quantities \subseteq Nat
  /\ MaxOrders \in Nat
  /\ MaxSeq \in Nat

VARIABLES
  book,    \* the order book
  seq,     \* the last sequence number assigned
  seen,    \* <<user, clientOrderId>> pairs in the idempotency set
  nextId,  \* the order id newOrderId() returns next
  order,   \* the incoming order of the running submit, or NoOrder
  events   \* the event list of the running or last call

vars == <<book, seq, seen, nextId, order, events>>

Symbol == "BTC-USDC"

Command ==
  [userId : Users, clientOrderId : ClientOrderIds, symbol : Symbols,
   side : Sides, type : Types, price : Prices, qty : Quantities]

-----------------------------------------------------------------------------
(* The events. *)

Accepted(n, o) == [kind |-> "OrderAccepted", seq |-> n, order |-> o]

Rejected(n, cmd, reason) ==
  [kind |-> "OrderRejected", seq |-> n, userId |-> cmd.userId,
   clientOrderId |-> cmd.clientOrderId, reason |-> reason]

Canceled(n, o, reason) ==
  [kind |-> "OrderCanceled", seq |-> n, orderId |-> o.orderId,
   userId |-> o.userId, side |-> o.side, price |-> o.price,
   remaining |-> o.remaining, reason |-> reason]

Trade(n, taker, maker, fillQty) ==
  [kind |-> "Trade", seq |-> n, price |-> maker.price, qty |-> fillQty,
   aggressor |-> taker.side, takerOrderId |-> taker.orderId,
   takerUserId |-> taker.userId, takerOrderType |-> taker.type,
   makerOrderId |-> maker.orderId, makerUserId |-> maker.userId]

-----------------------------------------------------------------------------
(* The pre-checks of submit. *)

Invalid(cmd) ==
  IF cmd.symbol # Symbol THEN "UNKNOWN_SYMBOL"
  ELSE IF cmd.qty <= 0 THEN "INVALID_QTY"
  ELSE IF cmd.type # "MARKET" /\ cmd.price <= 0 THEN "INVALID_PRICE"
  ELSE "valid"

Key(cmd) == <<cmd.userId, cmd.clientOrderId>>

NewOrder(cmd) ==
  [orderId |-> nextId, userId |-> cmd.userId,
   clientOrderId |-> cmd.clientOrderId, side |-> cmd.side, type |-> cmd.type,
   price |-> IF cmd.type = "MARKET" THEN 0 ELSE cmd.price,
   qty |-> cmd.qty, remaining |-> cmd.qty]

(* The incoming order o trades at resting price p. *)
Matches(o, p) == o.type = "MARKET" \/ Crosses(o.side, o.price, p)

WouldCross(o) ==
  \E p \in PricesOn(book, Opposite(o.side)) :
    IsBest(book, Opposite(o.side), p) /\ Crosses(o.side, o.price, p)

(* The crossable resting orders that the walk of fullyFillable reaches: no  *)
(* order of the incoming order's own user is ahead of them or one of them.  *)
Reachable(b, o) ==
  LET opp == Opposite(o.side)
      ReachedAt(p) == {i \in DOMAIN QueueAt(b, opp, p) :
                         \A j \in 1..i : QueueAt(b, opp, p)[j].userId # o.userId}
      Open == {p \in PricesOn(b, opp) :
                 /\ Matches(o, p)
                 /\ \A q \in PricesOn(b, opp) :
                      Better(opp, q, p) => ReachedAt(q) = DOMAIN QueueAt(b, opp, q)}
  IN UNION {{QueueAt(b, opp, p)[i] : i \in ReachedAt(p)} : p \in Open}

FullyFillable(b, o, qty) == QtyOf(Reachable(b, o)) >= qty

(* Mutant: the FOK check skips the own orders it meets and counts on. *)
PrecheckSkippingOwn(o) ==
  LET theirs == {r \in RestingOn(book, Opposite(o.side)) :
                   Crosses(o.side, o.price, r.price) /\ r.userId # o.userId}
  IN IF o.type = "POST_ONLY" /\ WouldCross(o) THEN "POST_ONLY_WOULD_CROSS"
     ELSE IF o.type = "FOK" /\ QtyOf(theirs) < o.qty THEN "FOK_NOT_FILLABLE"
     ELSE "pass"

Precheck(o) ==
  IF o.type = "POST_ONLY" /\ WouldCross(o) THEN "POST_ONLY_WOULD_CROSS"
  ELSE IF o.type = "FOK" /\ ~FullyFillable(book, o, o.qty) THEN "FOK_NOT_FILLABLE"
  ELSE "pass"

-----------------------------------------------------------------------------
Init ==
  /\ book = EmptyBook
  /\ seq = 0
  /\ seen = {}
  /\ nextId = 1
  /\ order = NoOrder
  /\ events = << >>

Idle == order = NoOrder

(* submit: a command that fails validation changes nothing but seq. *)
RejectInvalid(cmd) ==
  /\ Idle /\ seq < MaxSeq
  /\ Invalid(cmd) # "valid"
  /\ seq' = seq + 1
  /\ events' = << Rejected(seq', cmd, Invalid(cmd)) >>
  /\ UNCHANGED <<book, seen, nextId, order>>

RejectDuplicate(cmd) ==
  /\ Idle /\ seq < MaxSeq
  /\ Invalid(cmd) = "valid"
  /\ Key(cmd) \in seen
  /\ seq' = seq + 1
  /\ events' = << Rejected(seq', cmd, "DUPLICATE_CLIENT_ORDER_ID") >>
  /\ UNCHANGED <<book, seen, nextId, order>>

(* The idempotency key and the order id are spent before the pre-checks. *)
RejectPrecheck(cmd) ==
  /\ Idle /\ seq < MaxSeq /\ nextId <= MaxOrders
  /\ Invalid(cmd) = "valid"
  /\ Key(cmd) \notin seen
  /\ Precheck(NewOrder(cmd)) # "pass"
  /\ seen' = seen \cup {Key(cmd)}
  /\ nextId' = nextId + 1
  /\ seq' = seq + 1
  /\ events' = << Rejected(seq', cmd, Precheck(NewOrder(cmd))) >>
  /\ UNCHANGED <<book, order>>

Accept(cmd) ==
  /\ Idle /\ seq < MaxSeq /\ nextId <= MaxOrders
  /\ Invalid(cmd) = "valid"
  /\ Key(cmd) \notin seen
  /\ Precheck(NewOrder(cmd)) = "pass"
  /\ seen' = seen \cup {Key(cmd)}
  /\ nextId' = nextId + 1
  /\ seq' = seq + 1
  /\ order' = NewOrder(cmd)
  /\ events' = << Accepted(seq', NewOrder(cmd)) >>
  /\ UNCHANGED book

Submit(cmd) ==
  RejectInvalid(cmd) \/ RejectDuplicate(cmd) \/ RejectPrecheck(cmd) \/ Accept(cmd)

(* The match loop still has quantity to fill and a crossing order on top. *)
Matchable(p) ==
  /\ order.remaining > 0
  /\ IsBest(book, Opposite(order.side), p)
  /\ Matches(order, p)

TopAt(p) == Head(QueueAt(book, Opposite(order.side), p))

(* Mutant: the fill is the whole top order, however little is wanted. *)
MatchWholeMaker ==
  \E p \in PricesOn(book, Opposite(order.side)) :
    LET fillQty == TopAt(p).remaining
    IN /\ Matchable(p)
       /\ TopAt(p).userId # order.userId
       /\ seq' = seq + 1
       /\ events' = Append(events, Trade(seq', order, TopAt(p), fillQty))
       /\ book' = ReduceTopOrder(book, Opposite(order.side), fillQty)
       /\ order' = [order EXCEPT !.remaining = @ - fillQty]
       /\ UNCHANGED <<seen, nextId>>

(* One iteration that trades with the top order. *)
Match ==
  \E p \in PricesOn(book, Opposite(order.side)) :
    LET fillQty == IF order.remaining < TopAt(p).remaining
                   THEN order.remaining ELSE TopAt(p).remaining
    IN /\ Matchable(p)
       /\ TopAt(p).userId # order.userId
       /\ seq' = seq + 1
       /\ events' = Append(events, Trade(seq', order, TopAt(p), fillQty))
       /\ book' = ReduceTopOrder(book, Opposite(order.side), fillQty)
       /\ order' = [order EXCEPT !.remaining = @ - fillQty]
       /\ UNCHANGED <<seen, nextId>>

KillRemainder(reason) ==
  /\ seq' = seq + 1
  /\ events' = Append(events, Canceled(seq', order, reason))
  /\ order' = NoOrder
  /\ UNCHANGED <<book, seen, nextId>>

(* Cancel-new self-trade prevention: our own order is on top. *)
StopOnSelfTrade ==
  \E p \in PricesOn(book, Opposite(order.side)) :
    /\ Matchable(p)
    /\ TopAt(p).userId = order.userId
    /\ KillRemainder("STP")

(* The loop broke because nothing (more) crosses. *)
NothingCrosses ==
  /\ order.remaining > 0
  /\ \/ ~HasOrders(book, Opposite(order.side))
     \/ \E p \in PricesOn(book, Opposite(order.side)) :
          IsBest(book, Opposite(order.side), p) /\ ~Matches(order, p)

(* Mutant: the order rests with the quantity it came with. *)
RestOriginal ==
  /\ NothingCrosses
  /\ order.type \in {"LIMIT", "POST_ONLY"}
  /\ book' = Rest(book, [order EXCEPT !.remaining = order.qty])
  /\ order' = NoOrder
  /\ UNCHANGED <<seq, seen, nextId, events>>

RestRemainder ==
  /\ NothingCrosses
  /\ order.type \in {"LIMIT", "POST_ONLY"}
  /\ book' = Rest(book, order)
  /\ order' = NoOrder
  /\ UNCHANGED <<seq, seen, nextId, events>>

(* Mutant: the loop waits for someone to trade with. *)
SpinOnRemainder ==
  /\ NothingCrosses
  /\ order.type \in {"IOC", "MARKET"}
  /\ UNCHANGED vars

(* A FOK order here would be the defensive throw: it has no step. *)
CancelRemainder ==
  /\ NothingCrosses
  /\ order.type \in {"IOC", "MARKET"}
  /\ KillRemainder(IF order.type = "IOC" THEN "IOC_REMAINDER" ELSE "MARKET_NO_LIQUIDITY")

Filled ==
  /\ order.remaining = 0
  /\ order' = NoOrder
  /\ UNCHANGED <<book, seq, seen, nextId, events>>

MatchLoop ==
  /\ order # NoOrder
  /\ Match \/ StopOnSelfTrade \/ RestRemainder \/ CancelRemainder \/ Filled

(* cancel: the owner's resting order goes; otherwise no event at all. *)
CancelHit(user, id) ==
  /\ Idle /\ seq < MaxSeq
  /\ IsResting(book, id)
  /\ GetOrder(book, id).userId = user
  /\ seq' = seq + 1
  /\ events' = << Canceled(seq', GetOrder(book, id), "USER") >>
  /\ book' = CancelOrder(book, id)
  /\ UNCHANGED <<seen, nextId, order>>

CancelMiss(user, id) ==
  /\ Idle
  /\ IsResting(book, id) => GetOrder(book, id).userId # user
  /\ events' = << >>
  /\ UNCHANGED <<book, seq, seen, nextId, order>>

Cancel(user, id) == CancelHit(user, id) \/ CancelMiss(user, id)

Next ==
  \/ \E cmd \in Command : Submit(cmd)
  \/ MatchLoop
  \/ \E user \in Users, id \in 1..MaxOrders : Cancel(user, id)

Spec == Init /\ [][Next]_vars

-----------------------------------------------------------------------------
(* Properties. *)

TradesOf(evs) == {i \in DOMAIN evs : evs[i].kind = "Trade"}

(* Every value the engine keeps has its declared type (types.ts, book.ts). *)
TypeOK ==
  /\ BookTypeOK(book)
  /\ seq \in Nat
  /\ seen \subseteq Users \X ClientOrderIds
  /\ nextId \in Nat
  /\ order \in Order \cup {NoOrder}
  /\ events \in Seq(Event)

(* The representations of the book agree: the tree of levels, the cached    *)
(* totals and the reference index, which book.ts maintains by hand in rest, *)
(* reduceTopOrder and cancel.                                               *)
BookConsistent == LevelsIndexed(book) /\ RefsResolve(book)

TotalsConsistent == TotalsExact(book)

(* Between calls, and inside the match loop, the best bid is below the     *)
(* best ask: nothing that could trade is left on the book by the loop, the *)
(* self-trade stop, the remainder handling or the POST_ONLY pre-check.     *)
BookUncrossed == Uncrossed(book)

(* Within a level orders are queued in the order they were accepted, also  *)
(* after partial fills of the head and cancels in the middle.              *)
TimePriority == QueuesInOrder(book)

(* A trade executes at a price the taker's limit allows, and nobody who    *)
(* was ahead of the maker in price-time priority is passed over: no such   *)
(* order still rests when the trade has been emitted.                      *)
PriceTimePriority ==
  \A i \in TradesOf(events) :
    LET t == events[i]
    IN /\ Matches(events[1].order, t.price)
       /\ \A r \in RestingOn(book, Opposite(t.aggressor)) :
            /\ ~Better(r.side, r.price, t.price)
            /\ r.price = t.price => r.orderId >= t.makerOrderId

(* The quantity of an accepted order is always exactly its fills, plus     *)
(* what was killed, plus what is still open or resting.                    *)
QtyAccounted ==
  events # << >> /\ events[1].kind = "OrderAccepted" =>
    LET o      == events[1].order
        filled == MapThenSumSet(LAMBDA i : events[i].qty, TradesOf(events))
        killed == MapThenSumSet(LAMBDA i : events[i].remaining,
                    {i \in DOMAIN events : events[i].kind = "OrderCanceled"})
        open   == IF order # NoOrder THEN order.remaining
                  ELSE IF IsResting(book, o.orderId)
                       THEN GetOrder(book, o.orderId).remaining ELSE 0
    IN filled + killed + open = o.qty

(* What the FOK pre-check promised stays true at every iteration: the rest *)
(* of the order can still be filled in full.  Hence the defensive throw    *)
(* after the loop, which would leave trades applied to the book but never  *)
(* logged, is unreachable.                                                 *)
FOKPromiseKept ==
  order # NoOrder /\ order.type = "FOK" => FullyFillable(book, order, order.remaining)
=============================================================================
