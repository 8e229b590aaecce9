---------------------------- MODULE MatcherProofs ----------------------------
(***************************************************************************)
(* Proofs about Matcher, for every set of users, symbols, prices and       *)
(* quantities, every bound, and books and event lists of every length.     *)
(*                                                                         *)
(* The inductive invariant adds to what is wanted which ids can rest: those *)
(* handed out before the running call's.  That is what makes a rested      *)
(* order the youngest of its queue, and thus keeps time priority.  That    *)
(* the book is uncrossed is inductive with it but stands apart: nothing    *)
(* else rests on it, and an engine that was rebuilt in the middle of a     *)
(* call may have a crossed book (ServerProofs).                            *)
(*                                                                         *)
(* The cached totals of the levels, the account of an accepted order and   *)
(* the promise of the FOK pre-check add up over sets: what a step does to a *)
(* sum is taken from the lemmas of BookTheorems, which say how it changes  *)
(* when one element is added, removed or reduced.                          *)
(***************************************************************************)
EXTENDS Matcher, BookTheorems

(* Ids rest only if they were handed out, and an order in the middle of    *)
(* its call is younger than everything that rests.                         *)
IdsOld ==
  /\ \A id : IsResting(book, id) => id < nextId
  /\ order # NoOrder =>
       /\ order.orderId < nextId
       /\ \A id : IsResting(book, id) => id < order.orderId

IInv ==
  /\ TypeOK
  /\ BookWellFormed(book)
  /\ IdsOld

(* The step leaves an uncrossed book uncrossed.                            *)
StaysUncrossed == BookUncrossed => BookUncrossed'

-----------------------------------------------------------------------------
(* The constructors build orders and events of the declared types. *)

LEMMA NewOrderType ==
  ASSUME nextId \in Nat, NEW cmd \in Command
  PROVE  NewOrder(cmd) \in Order /\ NewOrder(cmd).orderId = nextId
<1>1. /\ cmd.userId \in Users /\ cmd.clientOrderId \in ClientOrderIds
      /\ cmd.side \in Sides /\ cmd.type \in OrderTypes
      /\ cmd.price \in Nat /\ cmd.qty \in Nat
  BY ConstantsAssumption DEF Command
<1>2. (IF cmd.type = "MARKET" THEN 0 ELSE cmd.price) \in Nat
  BY <1>1
<1> QED BY <1>1, <1>2 DEF NewOrder, Order

LEMMA RejectedType ==
  ASSUME NEW n \in Nat, NEW cmd \in Command, NEW reason \in RejectReasons
  PROVE  << Rejected(n, cmd, reason) >> \in Seq(Event)
<1>1. cmd.userId \in Users /\ cmd.clientOrderId \in ClientOrderIds
  BY DEF Command
<1>2. Rejected(n, cmd, reason) \in Event
  BY <1>1 DEF Rejected, Event
<1> HIDE DEF Event
<1> QED BY <1>2

LEMMA AcceptedType ==
  ASSUME NEW n \in Nat, NEW o \in Order
  PROVE  << Accepted(n, o) >> \in Seq(Event)
<1>1. Accepted(n, o) \in Event
  BY DEF Accepted, Event
<1> QED BY <1>1

LEMMA CanceledType ==
  ASSUME NEW n \in Nat, NEW o \in Order, NEW reason \in CancelReasons
  PROVE  Canceled(n, o, reason) \in Event
<1>1. /\ o.orderId \in Nat /\ o.userId \in Users /\ o.side \in Sides
      /\ o.price \in Nat /\ o.remaining \in Nat
  BY DEF Order
<1> QED BY <1>1 DEF Canceled, Event

LEMMA TradeType ==
  ASSUME NEW n \in Nat, NEW taker \in Order, NEW maker \in Order, NEW fillQty \in Nat
  PROVE  Trade(n, taker, maker, fillQty) \in Event
<1>1. /\ taker.side \in Sides /\ taker.orderId \in Nat /\ taker.userId \in Users
      /\ taker.type \in OrderTypes
      /\ maker.price \in Nat /\ maker.orderId \in Nat /\ maker.userId \in Users
  BY DEF Order
<1> QED BY <1>1 DEF Trade, Event

-----------------------------------------------------------------------------
(* The steps. *)

(* What taking orders off the book, or part of one, leaves of the          *)
(* invariant: fewer prices cannot cross, fewer ids cannot be too young.    *)
LEMMA ShrunkBook ==
  ASSUME NEW b, NEW c, BookWellFormed(b), Uncrossed(b), BookWellFormed(c),
         \A s \in Sides : PricesOn(c, s) \subseteq PricesOn(b, s)
  PROVE  Uncrossed(c)
BY DEF Uncrossed, Sides

(* Resting an order that nothing crosses leaves the book uncrossed.        *)
LEMMA RestUncrossed ==
  ASSUME IInv, order # NoOrder, NothingCrosses, order.type \in {"LIMIT", "POST_ONLY"}
  PROVE  /\ BookWellFormed(Rest(book, order))
         /\ Uncrossed(book) => Uncrossed(Rest(book, order))
         /\ \A id : IsResting(Rest(book, order), id) => id < nextId
<1> DEFINE opp == Opposite(order.side)
           c   == Rest(book, order)
<1>1. order \in Order /\ order.remaining > 0 /\ order.side \in Sides /\ order.price \in Nat
  BY DEF IInv, TypeOK, NothingCrosses, Order
<1>2. opp \in Sides /\ opp # order.side /\ opp \in Sides \ {order.side}
  BY <1>1 DEF Opposite, Sides
<1>3. /\ BookWellFormed(c)
      /\ PricesOn(c, order.side) = PricesOn(book, order.side) \cup {order.price}
      /\ PricesOn(c, opp) = PricesOn(book, opp)
      /\ \A id : IsResting(c, id) <=> IsResting(book, id) \/ id = order.orderId
  BY <1>1, <1>2, RestWellFormed DEF IInv, IdsOld
<1>4. \A s \in Sides : PricesOn(book, s) \subseteq Nat
  BY LevelTypes DEF IInv, BookWellFormed
<1>5. \A q \in PricesOn(book, opp) : ~Crosses(order.side, order.price, q)
  <2>1. CASE ~HasOrders(book, opp)
    BY <2>1 DEF HasOrders
  <2>2. CASE \E p \in PricesOn(book, opp) : IsBest(book, opp, p) /\ ~Matches(order, p)
    <3>1. PICK p \in PricesOn(book, opp) :
            IsBest(book, opp, p) /\ ~Crosses(order.side, order.price, p)
      BY <2>2 DEF Matches
    <3> QED BY <1>1, <1>2, <1>4, <3>1 DEF IsBest, Better, Crosses, Opposite, Sides
  <2> QED BY <2>1, <2>2 DEF NothingCrosses
<1>6. Uncrossed(book) => Uncrossed(c)
  BY <1>1, <1>2, <1>3, <1>4, <1>5 DEF Uncrossed, Crosses, Opposite, Sides
<1>7. \A id : IsResting(c, id) => id < nextId
  BY <1>3 DEF IInv, IdsOld
<1> QED BY <1>3, <1>6, <1>7

(* The order on top of a level that Match looks at. *)
LEMMA TopAtType ==
  ASSUME IInv, order # NoOrder, NEW p, Matchable(p)
  PROVE  /\ order \in Order /\ order.remaining \in Nat
         /\ Opposite(order.side) \in Sides
         /\ TopAt(p) \in Order /\ TopAt(p).remaining \in Nat
<1>1. order \in Order /\ order.side \in Sides /\ order.remaining \in Nat
  BY DEF IInv, TypeOK, Order
<1>2. Opposite(order.side) \in Sides /\ p \in PricesOn(book, Opposite(order.side))
  BY <1>1 DEF Opposite, Sides, Matchable, IsBest
<1> DEFINE q == QueueAt(book, Opposite(order.side), p)
<1>3. q \in Seq(Order) /\ q # << >>
  BY <1>2, LevelTypes, LevelFacts DEF IInv, BookWellFormed, LevelOK
<1> HIDE DEF q
<1>4. Head(q) \in Order /\ Head(q).remaining \in Nat
  BY <1>3, QueueTypes
<1> QED BY <1>1, <1>2, <1>4 DEF TopAt, q

LEMMA MatchStep ==
  ASSUME IInv, order # NoOrder, Match
  PROVE  IInv' /\ StaysUncrossed
<1>1. PICK p \in PricesOn(book, Opposite(order.side)) :
        LET fillQty == IF order.remaining < TopAt(p).remaining
                       THEN order.remaining ELSE TopAt(p).remaining
        IN /\ Matchable(p)
           /\ seq' = seq + 1
           /\ events' = Append(events, Trade(seq', order, TopAt(p), fillQty))
           /\ book' = ReduceTopOrder(book, Opposite(order.side), fillQty)
           /\ order' = [order EXCEPT !.remaining = @ - fillQty]
           /\ UNCHANGED <<seen, nextId>>
  BY DEF Match
<1> DEFINE fillQty == IF order.remaining < TopAt(p).remaining
                      THEN order.remaining ELSE TopAt(p).remaining
<1>2. /\ order \in Order /\ order.remaining \in Nat
      /\ Opposite(order.side) \in Sides
      /\ TopAt(p) \in Order /\ TopAt(p).remaining \in Nat
  BY <1>1, TopAtType
<1>3. /\ fillQty \in Nat /\ fillQty <= TopAt(p).remaining
      /\ order.remaining - fillQty \in Nat
  BY <1>2
<1>4. /\ seq' = seq + 1 /\ UNCHANGED <<seen, nextId>>
      /\ events' = Append(events, Trade(seq + 1, order, TopAt(p), fillQty))
      /\ book' = ReduceTopOrder(book, Opposite(order.side), fillQty)
      /\ order' = [order EXCEPT !.remaining = @ - fillQty]
  BY <1>1
<1> HIDE DEF fillQty
<1>5. /\ BookWellFormed(book')
      /\ \A s \in Sides : PricesOn(book', s) \subseteq PricesOn(book, s)
      /\ \A id : IsResting(book', id) => IsResting(book, id)
  <2>1. IsBest(book, Opposite(order.side), p)
    BY <1>1 DEF Matchable
  <2>2. fillQty <= Head(QueueAt(book, Opposite(order.side), p)).remaining
    BY <1>3 DEF TopAt
  <2>3. BookWellFormed(book)
    BY DEF IInv
  <2> QED BY <1>2, <1>3, <1>4, <2>1, <2>2, <2>3, ReduceTopWellFormed
<1>6. order' \in Order /\ order'.orderId = order.orderId
  BY <1>2, <1>3, <1>4 DEF Order
<1>7. seq' \in Nat /\ events' \in Seq(Event)
  <2>1. seq \in Nat /\ seq + 1 \in Nat /\ events \in Seq(Event)
    BY DEF IInv, TypeOK
  <2>2. Trade(seq + 1, order, TopAt(p), fillQty) \in Event
    BY <1>2, <1>3, <2>1, TradeType
  <2> QED BY <1>4, <2>1, <2>2
<1>8. TypeOK'
  BY <1>4, <1>5, <1>6, <1>7 DEF IInv, TypeOK, BookWellFormed
<1>9. StaysUncrossed
  BY <1>5, ShrunkBook DEF IInv, BookUncrossed, StaysUncrossed
<1>10. IdsOld'
  BY <1>4, <1>5, <1>6 DEF IInv, IdsOld
<1> QED BY <1>5, <1>8, <1>9, <1>10 DEF IInv

LEMMA KillStep ==
  ASSUME IInv, order # NoOrder, NEW reason \in CancelReasons, KillRemainder(reason)
  PROVE  IInv' /\ StaysUncrossed
<1>1. order \in Order /\ seq \in Nat /\ seq + 1 \in Nat /\ events \in Seq(Event)
  BY DEF IInv, TypeOK
<1>2. seq' \in Nat /\ events' \in Seq(Event)
  BY <1>1, CanceledType DEF KillRemainder
<1>3. order' = NoOrder /\ UNCHANGED <<book, seen, nextId>>
  BY DEF KillRemainder
<1>4. StaysUncrossed
  BY <1>3 DEF StaysUncrossed, BookUncrossed
<1> QED BY <1>2, <1>3, <1>4 DEF IInv, TypeOK, IdsOld

LEMMA MatchLoopStep ==
  ASSUME IInv, MatchLoop
  PROVE  IInv' /\ StaysUncrossed
<1>1. order # NoOrder
  BY DEF MatchLoop
<1>2. CASE Match
  BY <1>1, <1>2, MatchStep
<1>3. CASE StopOnSelfTrade
  BY <1>1, <1>3, KillStep DEF StopOnSelfTrade, CancelReasons
<1>4. CASE RestRemainder
  <2>1. /\ BookWellFormed(book') /\ (Uncrossed(book) => Uncrossed(book'))
        /\ \A id : IsResting(book', id) => id < nextId
    BY <1>1, <1>4, RestUncrossed DEF RestRemainder
  <2>2. order' = NoOrder /\ UNCHANGED <<seq, seen, nextId, events>>
    BY <1>4 DEF RestRemainder
  <2>3. StaysUncrossed
    BY <2>1 DEF StaysUncrossed, BookUncrossed
  <2> QED BY <2>1, <2>2, <2>3 DEF IInv, TypeOK, BookWellFormed, IdsOld
<1>5. CASE CancelRemainder
  <2>1. (IF order.type = "IOC" THEN "IOC_REMAINDER" ELSE "MARKET_NO_LIQUIDITY") \in CancelReasons
    BY DEF CancelReasons
  <2> QED BY <1>1, <1>5, <2>1, KillStep DEF CancelRemainder
<1>6. CASE Filled
  BY <1>6 DEF Filled, IInv, TypeOK, BookUncrossed, IdsOld, StaysUncrossed
<1> QED BY <1>2, <1>3, <1>4, <1>5, <1>6 DEF MatchLoop

LEMMA SubmitStep ==
  ASSUME IInv, NEW cmd \in Command, Submit(cmd)
  PROVE  IInv' /\ StaysUncrossed
<1>1. seq \in Nat /\ seq + 1 \in Nat /\ nextId \in Nat /\ nextId + 1 \in Nat
  BY DEF IInv, TypeOK
<1>2. Key(cmd) \in Users \X ClientOrderIds
  BY DEF Key, Command
<1>3. ASSUME NEW reason \in RejectReasons, seq' = seq + 1,
             events' = << Rejected(seq', cmd, reason) >>, UNCHANGED <<book, order>>,
             \/ UNCHANGED <<seen, nextId>>
             \/ seen' = seen \cup {Key(cmd)} /\ nextId' = nextId + 1
      PROVE  IInv' /\ StaysUncrossed
  <2>1. seq' \in Nat /\ events' \in Seq(Event)
    BY <1>1, <1>3, RejectedType
  <2>2. seen' \subseteq Users \X ClientOrderIds /\ nextId' \in Nat
    BY <1>1, <1>2, <1>3 DEF IInv, TypeOK
  <2>3. TypeOK'
    BY <1>3, <2>1, <2>2 DEF IInv, TypeOK
  <2>4. IdsOld'
    <3>1. \A id : IsResting(book, id) => id \in Nat
      BY RefTypes DEF IInv, BookWellFormed
    <3>2. order # NoOrder => order.orderId \in Nat
      BY DEF IInv, TypeOK, Order
    <3> QED BY <1>1, <1>3, <3>1, <3>2 DEF IInv, IdsOld
  <2>5. StaysUncrossed
    BY <1>3 DEF StaysUncrossed, BookUncrossed
  <2> QED BY <1>3, <2>3, <2>4, <2>5 DEF IInv
<1>4. CASE RejectInvalid(cmd)
  <2>1. Invalid(cmd) \in RejectReasons
    BY <1>4 DEF RejectInvalid, Invalid, RejectReasons
  <2> QED BY <1>3, <1>4, <2>1 DEF RejectInvalid
<1>5. CASE RejectDuplicate(cmd)
  <2>1. "DUPLICATE_CLIENT_ORDER_ID" \in RejectReasons
    BY DEF RejectReasons
  <2> QED BY <1>3, <1>5, <2>1 DEF RejectDuplicate
<1>6. CASE RejectPrecheck(cmd)
  <2>1. Precheck(NewOrder(cmd)) \in RejectReasons
    BY <1>6 DEF RejectPrecheck, Precheck, RejectReasons
  <2> QED BY <1>3, <1>6, <2>1 DEF RejectPrecheck
<1>7. CASE Accept(cmd)
  <2>1. NewOrder(cmd) \in Order /\ NewOrder(cmd).orderId = nextId
    BY <1>1, NewOrderType
  <2>2. /\ seen' = seen \cup {Key(cmd)} /\ nextId' = nextId + 1 /\ seq' = seq + 1
        /\ order' = NewOrder(cmd) /\ book' = book
        /\ events' = << Accepted(seq + 1, NewOrder(cmd)) >>
    BY <1>7 DEF Accept
  <2>3. seq' \in Nat /\ events' \in Seq(Event)
    BY <1>1, <2>1, <2>2, AcceptedType
  <2>4. seen' \subseteq Users \X ClientOrderIds
    BY <1>2, <2>2 DEF IInv, TypeOK
  <2>5. TypeOK'
    BY <1>1, <2>1, <2>2, <2>3, <2>4 DEF IInv, TypeOK
  <2>6. IdsOld'
    <3>1. \A id : IsResting(book, id) => id \in Nat
      BY RefTypes DEF IInv, BookWellFormed
    <3> QED BY <1>1, <2>1, <2>2, <3>1 DEF IInv, IdsOld
  <2>7. StaysUncrossed
    BY <2>2 DEF StaysUncrossed, BookUncrossed
  <2> QED BY <2>2, <2>5, <2>6, <2>7 DEF IInv
<1> QED BY <1>4, <1>5, <1>6, <1>7 DEF Submit

LEMMA CancelStep ==
  ASSUME IInv, NEW user, NEW id, Cancel(user, id)
  PROVE  IInv' /\ StaysUncrossed
<1>1. CASE CancelHit(user, id)
  <2>1. IsResting(book, id) /\ BookWellFormed(book) /\ order = NoOrder
    BY <1>1 DEF CancelHit, IInv, Idle
  <2>2. /\ seq' = seq + 1 /\ book' = CancelOrder(book, id)
        /\ events' = << Canceled(seq + 1, GetOrder(book, id), "USER") >>
        /\ UNCHANGED <<seen, nextId, order>>
    BY <1>1 DEF CancelHit
  <2>3. /\ BookWellFormed(book')
        /\ \A s \in Sides : PricesOn(book', s) \subseteq PricesOn(book, s)
        /\ \A x : IsResting(book', x) => IsResting(book, x)
    BY <2>1, <2>2, CancelWellFormed
  <2>4. seq' \in Nat /\ events' \in Seq(Event)
    <3>1. seq \in Nat /\ seq + 1 \in Nat
      BY DEF IInv, TypeOK
    <3>2. GetOrder(book, id) \in Order
      BY <2>1, GetOrderProperties
    <3>3. Canceled(seq + 1, GetOrder(book, id), "USER") \in Event
      BY <3>1, <3>2, CanceledType DEF CancelReasons
    <3> QED BY <2>2, <3>1, <3>3
  <2>5. TypeOK'
    BY <2>2, <2>3, <2>4 DEF IInv, TypeOK, BookWellFormed
  <2>6. StaysUncrossed
    BY <2>3, ShrunkBook DEF IInv, BookUncrossed, StaysUncrossed
  <2>7. IdsOld'
    BY <2>1, <2>2, <2>3 DEF IInv, IdsOld
  <2> QED BY <2>3, <2>5, <2>6, <2>7 DEF IInv
<1>2. CASE CancelMiss(user, id)
  <2>1. << >> \in Seq(Event)
    BY EmptySeq
  <2> QED BY <1>2, <2>1 DEF CancelMiss, IInv, TypeOK, BookUncrossed, IdsOld, StaysUncrossed
<1> QED BY <1>1, <1>2 DEF Cancel

-----------------------------------------------------------------------------
LEMMA InitIInv == Init => IInv /\ BookUncrossed
<1> SUFFICES ASSUME Init PROVE IInv /\ BookUncrossed
  OBVIOUS
<1>1. /\ BookWellFormed(book)
      /\ \A s \in Sides : PricesOn(book, s) = {}
      /\ \A id : ~IsResting(book, id)
  BY EmptyBookWellFormed DEF Init
<1>2. << >> \in Seq(Event)
  BY EmptySeq
<1>3. BookUncrossed
  BY <1>1 DEF BookUncrossed, Uncrossed, Sides
<1> QED BY <1>1, <1>2, <1>3 DEF Init, IInv, TypeOK, IdsOld, BookWellFormed

LEMMA NextIInv == IInv /\ [Next]_vars => IInv' /\ StaysUncrossed
<1> SUFFICES ASSUME IInv, [Next]_vars PROVE IInv' /\ StaysUncrossed
  OBVIOUS
<1>1. ASSUME NEW cmd \in Command, Submit(cmd) PROVE IInv' /\ StaysUncrossed
  BY <1>1, SubmitStep
<1>2. CASE MatchLoop
  BY <1>2, MatchLoopStep
<1>3. ASSUME NEW user \in Users, NEW id \in 1..MaxOrders, Cancel(user, id)
      PROVE  IInv' /\ StaysUncrossed
  BY <1>3, CancelStep
<1>4. CASE UNCHANGED vars
  BY <1>4 DEF vars, IInv, TypeOK, BookUncrossed, IdsOld, StaysUncrossed
<1> QED BY <1>1, <1>2, <1>3, <1>4 DEF Next

THEOREM Invariance == Spec => []IInv
BY InitIInv, NextIInv, PTL DEF Spec

(* Every variable of the engine keeps its declared type, whatever sequence *)
(* of submits and cancels it is given.                                     *)
THEOREM TypeCorrect == Spec => []TypeOK
<1>1. IInv => TypeOK
  BY DEF IInv
<1> QED BY <1>1, Invariance, PTL

(* The hand-maintained index of book.ts never dangles and never misses an  *)
(* order: tree, queues and refs always describe the same set of orders.    *)
THEOREM BookAlwaysConsistent == Spec => []BookConsistent
<1>1. IInv => BookConsistent
  BY DEF IInv, BookWellFormed, BookConsistent
<1> QED BY <1>1, Invariance, PTL

(* No reachable book, not even in the middle of a match loop, has a bid at *)
(* or above an ask.                                                        *)
THEOREM NeverCrossed == Spec => []BookUncrossed
<1>1. IInv /\ BookUncrossed /\ [Next]_vars => IInv' /\ BookUncrossed'
  BY NextIInv DEF StaysUncrossed
<1> QED BY <1>1, InitIInv, PTL DEF Spec

(* Every queue holds its orders in the order they were accepted: partial   *)
(* fills keep the head in place and cancels never reorder.                 *)
THEOREM TimePriorityKept == Spec => []TimePriority
<1>1. IInv => TimePriority
  BY DEF IInv, BookWellFormed, TimePriority
<1> QED BY <1>1, Invariance, PTL

-----------------------------------------------------------------------------
(* Price-time priority.  The property looks back at every trade of the     *)
(* call, while the book has changed since.  The invariant therefore ties   *)
(* the running order to the acceptance the call began with, and says of    *)
(* each trade, by the index of the book alone, that nothing which rests    *)
(* was ahead of its maker.  As the index only shrinks on the side a call   *)
(* trades against, that stays true to the end of the call.                 *)

(* No id that rests on the side is ahead of an order with this price and   *)
(* id: at a better price, or at the same price and older.                  *)
NothingAhead(b, side, price, id) ==
  \A x : IsResting(b, x) /\ RefOf(b, x).side = side =>
    /\ ~Better(side, RefOf(b, x).price, price)
    /\ RefOf(b, x).price = price => x >= id

(* The running order is the one whose acceptance opened the call, less     *)
(* what it has filled.                                                     *)
CallOpened ==
  order # NoOrder =>
    /\ events # << >>
    /\ events[1].kind = "OrderAccepted"
    /\ events[1].order.side = order.side
    /\ events[1].order.type = order.type
    /\ events[1].order.price = order.price

TradesFair ==
  \A i \in TradesOf(events) :
    /\ events[i].aggressor \in Sides
    /\ order # NoOrder => events[i].aggressor = order.side
    /\ Matches(events[1].order, events[i].price)
    /\ NothingAhead(book, Opposite(events[i].aggressor), events[i].price,
                    events[i].makerOrderId)

PInv == IInv /\ CallOpened /\ TradesFair

-----------------------------------------------------------------------------
(* The index finds every order that rests on a side. *)
LEMMA RestingIndexed ==
  ASSUME NEW b, BookWellFormed(b), NEW s \in Sides, NEW r \in RestingOn(b, s)
  PROVE  /\ r.side = s /\ IsResting(b, r.orderId)
         /\ RefOf(b, r.orderId) = At(s, r.price)
<1>1. PICK p \in PricesOn(b, s) : r \in ToSet(QueueAt(b, s, p))
  BY DEF RestingOn
<1>2. PICK i \in DOMAIN QueueAt(b, s, p) : r = QueueAt(b, s, p)[i]
  BY <1>1 DEF ToSet
<1>3. LevelOK(b, s, p)
  BY LevelFacts
<1> QED BY <1>2, <1>3 DEF LevelOK, Belongs

(* The head of the best level is ahead of all that rests on its side.      *)
LEMMA HeadIsFirst ==
  ASSUME NEW b, BookWellFormed(b), NEW s \in Sides, NEW p, IsBest(b, s, p)
  PROVE  NothingAhead(b, s, p, Head(QueueAt(b, s, p)).orderId)
<1> DEFINE q == QueueAt(b, s, p)
<1>1. p \in PricesOn(b, s) /\ PricesOn(b, s) \subseteq Nat
  BY LevelTypes DEF IsBest, BookWellFormed
<1>2. q \in Seq(Order) /\ q # << >> /\ InOrder(q)
  BY <1>1, LevelTypes, LevelFacts DEF BookWellFormed, LevelOK
<1>3. /\ Len(q) \in Nat /\ DOMAIN q = 1..Len(q) /\ 1 \in DOMAIN q /\ Head(q) = q[1]
      /\ \A i \in DOMAIN q : q[i].orderId \in Nat
  <2> HIDE DEF q
  <2> QED BY <1>2, QueueTypes
<1> SUFFICES ASSUME NEW x, IsResting(b, x), RefOf(b, x).side = s
             PROVE  /\ ~Better(s, RefOf(b, x).price, p)
                    /\ RefOf(b, x).price = p => x >= Head(q).orderId
  BY DEF NothingAhead
<1>4. /\ RefOf(b, x).price \in PricesOn(b, s)
      /\ \E i \in DOMAIN QueueOfRef(b, x) : QueueOfRef(b, x)[i].orderId = x
  BY DEF BookWellFormed, RefsResolve, IsResting
<1>5. ~Better(s, RefOf(b, x).price, p)
  BY <1>1, <1>4 DEF IsBest, Better
<1>6. ASSUME RefOf(b, x).price = p PROVE x >= Head(q).orderId
  <2>1. PICK i \in DOMAIN q : q[i].orderId = x
    BY <1>4, <1>6 DEF QueueOfRef
  <2> HIDE DEF q
  <2>2. CASE i = 1
    BY <1>3, <2>1, <2>2
  <2>3. CASE i # 1
    <3>1. 1 < i
      BY <1>3, <2>1, <2>3
    <3>2. q[1].orderId < q[i].orderId
      BY <1>2, <1>3, <2>1, <3>1 DEF InOrder
    <3> QED BY <1>3, <2>1, <3>2
  <2> QED BY <2>2, <2>3
<1> QED BY <1>5, <1>6

(* Filling at the top leads no id elsewhere.                               *)
LEMMA ReduceTopRefs ==
  ASSUME NEW b, NEW s, NEW fillQty, NEW x, IsResting(ReduceTopOrder(b, s, fillQty), x)
  PROVE  IsResting(b, x) /\ RefOf(ReduceTopOrder(b, s, fillQty), x) = RefOf(b, x)
<1> DEFINE p == BestPrice(b, s)
           c == ReduceTopOrder(b, s, fillQty)
           y == b.levels[s][p].queue[1].orderId
<1>1. c = Unlink(b, s, p, 1) \/ c = ReduceHead(b, s, p, fillQty)
  BY DEF ReduceTopOrder
<1>2. c.refs = Restrict(b.refs, DOMAIN b.refs \ {y}) \/ c.refs = b.refs
  <2>1. Unlink(b, s, p, 1).refs = Restrict(b.refs, DOMAIN b.refs \ {y})
    BY DEF Unlink
  <2>2. ReduceHead(b, s, p, fillQty).refs = b.refs
    BY DEF ReduceHead
  <2> HIDE DEF c, p, y
  <2> QED BY <1>1, <2>1, <2>2
<1> HIDE DEF c, y
<1>3. x \in DOMAIN c.refs
  BY DEF IsResting, c
<1>4. x \in DOMAIN b.refs /\ c.refs[x] = b.refs[x]
  BY <1>2, <1>3 DEF Restrict
<1> QED BY <1>4 DEF IsResting, RefOf, c

(* Resting an order leads no id of another side elsewhere.                 *)
LEMMA RestRefs ==
  ASSUME NEW b, NEW o, NEW x, IsResting(Rest(b, o), x), RefOf(Rest(b, o), x).side # o.side
  PROVE  IsResting(b, x) /\ RefOf(Rest(b, o), x) = RefOf(b, x)
<1>1. Rest(b, o).refs = Put(b.refs, o.orderId, At(o.side, o.price))
  BY DEF Rest
<1>2. /\ x \in DOMAIN b.refs \cup {o.orderId}
      /\ RefOf(Rest(b, o), x) = IF x = o.orderId THEN At(o.side, o.price) ELSE b.refs[x]
  BY <1>1 DEF IsResting, RefOf, Put
<1>3. x # o.orderId
  BY <1>2 DEF At
<1> QED BY <1>2, <1>3 DEF IsResting, RefOf

-----------------------------------------------------------------------------
(* The steps. *)

(* A trade: it is with the first order of the other side, at a price the   *)
(* taker allows; what came before still has nothing ahead of it.           *)
LEMMA MatchFair ==
  ASSUME PInv, order # NoOrder, Match
  PROVE  CallOpened' /\ TradesFair'
<1> DEFINE opp == Opposite(order.side)
           n   == Len(events)
<1>1. PICK p \in PricesOn(book, opp) :
        LET fillQty == IF order.remaining < TopAt(p).remaining
                       THEN order.remaining ELSE TopAt(p).remaining
        IN /\ Matchable(p)
           /\ seq' = seq + 1
           /\ events' = Append(events, Trade(seq', order, TopAt(p), fillQty))
           /\ book' = ReduceTopOrder(book, opp, fillQty)
           /\ order' = [order EXCEPT !.remaining = @ - fillQty]
           /\ UNCHANGED <<seen, nextId>>
  BY DEF Match
<1> DEFINE fillQty == IF order.remaining < TopAt(p).remaining
                      THEN order.remaining ELSE TopAt(p).remaining
           t       == Trade(seq + 1, order, TopAt(p), fillQty)
<1>2. /\ events' = Append(events, t)
      /\ book' = ReduceTopOrder(book, opp, fillQty)
      /\ order' = [order EXCEPT !.remaining = @ - fillQty]
  BY <1>1
<1>3. /\ order \in Order /\ order.side \in Sides /\ opp \in Sides
      /\ BookWellFormed(book) /\ IsBest(book, opp, p) /\ Matches(order, p)
      /\ events \in Seq(Event) /\ events # << >>
  BY <1>1 DEF PInv, IInv, TypeOK, Order, Opposite, Sides, Matchable, CallOpened
<1>4. /\ TopAt(p) = Head(QueueAt(book, opp, p)) /\ TopAt(p).price = p
      /\ opp \in Sides
  <2> DEFINE q == QueueAt(book, opp, p)
  <2>1. q \in Seq(Order) /\ q # << >> /\ LevelOK(book, opp, p)
    BY <1>3, LevelTypes, LevelFacts DEF BookWellFormed, LevelOK
  <2>2. 1 \in DOMAIN q /\ Head(q) = q[1]
    <3> HIDE DEF q
    <3> QED BY <2>1, QueueTypes
  <2>3. q[1].price = p
    BY <2>1, <2>2 DEF LevelOK, Belongs
  <2> QED BY <1>3, <2>2, <2>3 DEF TopAt
<1>5. /\ t.kind = "Trade" /\ t.price = p /\ t.aggressor = order.side
      /\ t.makerOrderId = TopAt(p).orderId
  BY <1>4 DEF Trade
<1> HIDE DEF t, fillQty, opp
<1>6. /\ n \in Nat /\ n >= 1 /\ DOMAIN events = 1..n
      /\ Len(events') = n + 1 /\ DOMAIN events' = 1..(n + 1)
      /\ events'[n + 1] = t
      /\ \A i \in 1..n : events'[i] = events[i]
  <2>1. n \in Nat /\ DOMAIN events = 1..n /\ n # 0
    BY <1>3, LenProperties, EmptySeq
  <2> QED BY <1>2, <1>3, <2>1
<1>7. /\ order'.side = order.side /\ order'.type = order.type
      /\ order'.price = order.price
  BY <1>2, <1>3 DEF Order
<1>8. /\ events'[1] = events[1]
      /\ events[1].order.side = order.side /\ events[1].order.type = order.type
      /\ events[1].order.price = order.price
  BY <1>6 DEF PInv, CallOpened
<1>9. CallOpened'
  <2>1. events' # << >>
    BY <1>6
  <2> QED BY <1>7, <1>8, <2>1 DEF PInv, CallOpened
<1>10. \A id, price : NothingAhead(book, opp, price, id) => NothingAhead(book', opp, price, id)
  BY <1>2, ReduceTopRefs DEF NothingAhead
<1>11. ASSUME NEW i \in TradesOf(events)
       PROVE  /\ events[i].aggressor = order.side
              /\ Matches(events[1].order, events[i].price)
              /\ NothingAhead(book', opp, events[i].price, events[i].makerOrderId)
  BY <1>10, <1>11 DEF PInv, TradesFair, opp
<1>12. /\ Matches(events[1].order, p)
       /\ NothingAhead(book', opp, p, TopAt(p).orderId)
  <2>1. NothingAhead(book, opp, p, TopAt(p).orderId)
    BY <1>3, <1>4, HeadIsFirst
  <2> QED BY <1>3, <1>8, <1>10, <2>1 DEF Matches
<1>13. ASSUME NEW i \in TradesOf(events)'
       PROVE  /\ events'[i].aggressor = order.side
              /\ Matches(events'[1].order, events'[i].price)
              /\ NothingAhead(book', opp, events'[i].price, events'[i].makerOrderId)
  <2>1. i \in 1..(n + 1) /\ events'[i].kind = "Trade"
    BY <1>6, <1>13 DEF TradesOf
  <2>2. CASE i = n + 1
    BY <1>5, <1>6, <1>8, <1>12, <2>2
  <2>3. CASE i # n + 1
    <3>1. i \in 1..n
      BY <1>6, <2>1, <2>3
    <3>2. i \in TradesOf(events)
      BY <1>6, <2>1, <3>1 DEF TradesOf
    <3> QED BY <1>6, <1>8, <1>11, <3>1, <3>2
  <2> QED BY <2>2, <2>3
<1>14. TradesFair'
  BY <1>3, <1>7, <1>13 DEF TradesFair, opp
<1> QED BY <1>9, <1>14

(* What ends a call, or kills its remainder, trades nothing more, and      *)
(* takes nothing to the side the call traded against.                      *)
LEMMA LoopFair ==
  ASSUME PInv, MatchLoop
  PROVE  CallOpened' /\ TradesFair'
<1>1. order # NoOrder /\ order.side \in Sides /\ events \in Seq(Event) /\ events # << >>
  BY DEF MatchLoop, PInv, IInv, TypeOK, Order, CallOpened
<1>2. ASSUME order' = NoOrder, UNCHANGED events,
             \A id, price : NothingAhead(book, Opposite(order.side), price, id) =>
                            NothingAhead(book', Opposite(order.side), price, id)
      PROVE  CallOpened' /\ TradesFair'
  BY <1>1, <1>2 DEF PInv, CallOpened, TradesFair, TradesOf
<1>3. ASSUME NEW reason, KillRemainder(reason)
      PROVE  CallOpened' /\ TradesFair'
  <2> DEFINE n == Len(events)
             e == Canceled(seq + 1, order, reason)
  <2>1. /\ order' = NoOrder /\ book' = book /\ events' = Append(events, e)
        /\ e.kind = "OrderCanceled"
    BY <1>3 DEF KillRemainder, Canceled
  <2> HIDE DEF e
  <2>2. n \in Nat /\ DOMAIN events = 1..n /\ n # 0
    BY <1>1, LenProperties, EmptySeq
  <2>3. /\ DOMAIN events' = 1..(n + 1) /\ events'[n + 1] = e
        /\ \A i \in 1..n : events'[i] = events[i]
    BY <1>1, <2>1, <2>2
  <2>4. events'[1] = events[1] /\ TradesOf(events)' = TradesOf(events)
    BY <2>1, <2>2, <2>3 DEF TradesOf
  <2>5. \A i \in TradesOf(events) : events'[i] = events[i]
    BY <2>2, <2>3 DEF TradesOf
  <2> QED BY <2>1, <2>4, <2>5 DEF PInv, CallOpened, TradesFair
<1>4. CASE Match
  BY <1>1, <1>4, MatchFair
<1>5. CASE StopOnSelfTrade
  BY <1>3, <1>5 DEF StopOnSelfTrade
<1>6. CASE RestRemainder
  <2>1. order' = NoOrder /\ UNCHANGED events /\ book' = Rest(book, order)
    BY <1>6 DEF RestRemainder
  <2>2. Opposite(order.side) # order.side
    BY <1>1 DEF Opposite, Sides
  <2>3. \A id, price : NothingAhead(book, Opposite(order.side), price, id) =>
                       NothingAhead(book', Opposite(order.side), price, id)
    BY <2>1, <2>2, RestRefs DEF NothingAhead
  <2> QED BY <1>2, <2>1, <2>3
<1>7. CASE CancelRemainder
  BY <1>3, <1>7 DEF CancelRemainder
<1>8. CASE Filled
  BY <1>2, <1>8 DEF Filled
<1> QED BY <1>4, <1>5, <1>6, <1>7, <1>8 DEF MatchLoop

(* A call begins with a list that holds no trade.                          *)
LEMMA CallFair ==
  ASSUME PInv, order = NoOrder,
         \/ \E cmd \in Command : Submit(cmd)
         \/ \E user \in Users, id \in 1..MaxOrders : Cancel(user, id)
  PROVE  CallOpened' /\ TradesFair'
<1>1. ASSUME NEW e, events' = << e >>, e.kind # "Trade"
      PROVE  TradesOf(events)' = {}
  BY <1>1 DEF TradesOf
<1>2. ASSUME NEW cmd \in Command, Submit(cmd) PROVE CallOpened' /\ TradesFair'
  <2>1. ASSUME NEW reason, events' = << Rejected(seq', cmd, reason) >>, order' = order
        PROVE  CallOpened' /\ TradesFair'
    <3>1. TradesOf(events)' = {}
      BY <1>1, <2>1 DEF Rejected
    <3> QED BY <2>1, <3>1 DEF CallOpened, TradesFair
  <2>2. CASE Accept(cmd)
    <3>1. /\ order' = NewOrder(cmd)
          /\ events' = << Accepted(seq', NewOrder(cmd)) >>
      BY <2>2 DEF Accept
    <3>2. TradesOf(events)' = {}
      BY <1>1, <3>1 DEF Accepted
    <3>3. /\ events'[1].kind = "OrderAccepted" /\ events'[1].order = order'
          /\ events' # << >>
      BY <3>1 DEF Accepted
    <3> QED BY <3>2, <3>3 DEF CallOpened, TradesFair
  <2> QED BY <1>2, <2>1, <2>2 DEF Submit, RejectInvalid, RejectDuplicate, RejectPrecheck
<1>3. ASSUME NEW user, NEW id, Cancel(user, id) PROVE CallOpened' /\ TradesFair'
  <2>1. order' = order
    BY <1>3 DEF Cancel, CancelHit, CancelMiss
  <2>2. TradesOf(events)' = {}
    <3>1. CASE CancelHit(user, id)
      BY <1>1, <3>1 DEF CancelHit, Canceled
    <3>2. CASE CancelMiss(user, id)
      BY <3>2 DEF CancelMiss, TradesOf
    <3> QED BY <1>3, <3>1, <3>2 DEF Cancel
  <2> QED BY <2>1, <2>2 DEF CallOpened, TradesFair
<1> QED BY <1>2, <1>3

LEMMA NextPInv == PInv /\ [Next]_vars => PInv'
<1> SUFFICES ASSUME PInv, [Next]_vars PROVE PInv'
  OBVIOUS
<1>1. IInv'
  BY NextIInv DEF PInv
<1>2. CASE MatchLoop
  BY <1>1, <1>2, LoopFair DEF PInv
<1>3. CASE \/ \E cmd \in Command : Submit(cmd)
           \/ \E user \in Users, id \in 1..MaxOrders : Cancel(user, id)
  <2>1. order = NoOrder
    BY <1>3 DEF Submit, Cancel, RejectInvalid, RejectDuplicate, RejectPrecheck, Accept,
                CancelHit, CancelMiss, Idle
  <2> QED BY <1>1, <1>3, <2>1, CallFair DEF PInv
<1>4. CASE UNCHANGED vars
  BY <1>1, <1>4 DEF vars, PInv, CallOpened, TradesFair, TradesOf
<1> QED BY <1>2, <1>3, <1>4 DEF Next

LEMMA InitPInv == Init => PInv
<1> SUFFICES ASSUME Init PROVE PInv
  OBVIOUS
<1>1. TradesOf(events) = {} /\ order = NoOrder
  BY DEF Init, TradesOf
<1> QED BY <1>1, InitIInv DEF PInv, CallOpened, TradesFair

LEMMA PriorityInvariance == Spec => []PInv
BY InitPInv, NextPInv, PTL DEF Spec

(* No trade of a call is at a price its taker does not allow, and none     *)
(* passes over an order that was ahead of the maker: at no time in the     *)
(* call, nor after it, does such an order rest (matcher.ts:136-175).       *)
THEOREM PriceTimePriorityKept == Spec => []PriceTimePriority
<1>1. PInv => PriceTimePriority
  <2> SUFFICES ASSUME PInv, NEW i \in TradesOf(events),
                      NEW r \in RestingOn(book, Opposite(events[i].aggressor))
               PROVE  /\ ~Better(r.side, r.price, events[i].price)
                      /\ r.price = events[i].price => r.orderId >= events[i].makerOrderId
    BY DEF PInv, TradesFair, PriceTimePriority
  <2> DEFINE opp == Opposite(events[i].aggressor)
  <2>1. /\ BookWellFormed(book) /\ opp \in Sides
        /\ NothingAhead(book, opp, events[i].price, events[i].makerOrderId)
    BY DEF PInv, IInv, TradesFair, Opposite, Sides
  <2> HIDE DEF opp
  <2>2. r \in RestingOn(book, opp)
    BY DEF opp
  <2>3. /\ r.side = opp /\ IsResting(book, r.orderId)
        /\ RefOf(book, r.orderId).side = opp
        /\ RefOf(book, r.orderId).price = r.price
    <3>1. /\ r.side = opp /\ IsResting(book, r.orderId)
          /\ RefOf(book, r.orderId) = At(opp, r.price)
      BY <2>1, <2>2, RestingIndexed
    <3> QED BY <3>1, AtProperties
  <2> QED BY <2>1, <2>3 DEF NothingAhead
<1> QED BY <1>1, PriorityInvariance, PTL

-----------------------------------------------------------------------------
(* What Match does, in the terms of the lemmas above: maker is the order   *)
(* on top of the other side, and the fill takes all that one of the two    *)
(* has left.                                                               *)
Traded(p, maker, fillQty) ==
  /\ order \in Order /\ Opposite(order.side) \in Sides
  /\ IsBest(book, Opposite(order.side), p) /\ Matches(order, p)
  /\ maker = Head(QueueAt(book, Opposite(order.side), p))
  /\ maker \in Order /\ maker.userId # order.userId
  /\ maker.price = p /\ maker.side = Opposite(order.side)
  /\ fillQty \in Nat /\ fillQty > 0
  /\ fillQty <= maker.remaining /\ fillQty <= order.remaining
  /\ fillQty = order.remaining \/ fillQty = maker.remaining
  /\ seq' = seq + 1
  /\ events' = Append(events, Trade(seq + 1, order, maker, fillQty))
  /\ book' = ReduceTopOrder(book, Opposite(order.side), fillQty)
  /\ order' = [order EXCEPT !.remaining = order.remaining - fillQty]
  /\ UNCHANGED <<seen, nextId>>

LEMMA TradeMade ==
  ASSUME IInv, order # NoOrder, Match
  PROVE  \E p, maker, fillQty : Traded(p, maker, fillQty)
<1> DEFINE opp == Opposite(order.side)
<1>1. PICK p \in PricesOn(book, opp) :
        LET fillQty == IF order.remaining < TopAt(p).remaining
                       THEN order.remaining ELSE TopAt(p).remaining
        IN /\ Matchable(p)
           /\ TopAt(p).userId # order.userId
           /\ seq' = seq + 1
           /\ events' = Append(events, Trade(seq', order, TopAt(p), fillQty))
           /\ book' = ReduceTopOrder(book, opp, fillQty)
           /\ order' = [order EXCEPT !.remaining = @ - fillQty]
           /\ UNCHANGED <<seen, nextId>>
  BY DEF Match
<1> DEFINE maker   == TopAt(p)
           fillQty == IF order.remaining < maker.remaining THEN order.remaining
                      ELSE maker.remaining
           q       == QueueAt(book, opp, p)
<1>2. /\ order \in Order /\ order.remaining \in Nat /\ opp \in Sides
      /\ maker \in Order /\ maker.remaining \in Nat
  BY <1>1, TopAtType
<1>3. /\ IsBest(book, opp, p) /\ Matches(order, p) /\ order.remaining > 0
      /\ maker = Head(q) /\ maker.userId # order.userId
  BY <1>1 DEF Matchable, TopAt
<1>4. maker.price = p /\ maker.side = opp /\ maker.remaining > 0
  <2>1. q \in Seq(Order) /\ q # << >> /\ LevelOK(book, opp, p)
    BY <1>2, LevelTypes, LevelFacts DEF IInv, BookWellFormed, LevelOK
  <2>2. 1 \in DOMAIN q /\ Head(q) = q[1]
    <3> HIDE DEF q
    <3> QED BY <2>1, QueueTypes
  <2>3. Belongs(q[1], opp, p)
    BY <2>1, <2>2 DEF LevelOK
  <2> QED BY <1>3, <2>2, <2>3 DEF Belongs
<1>5. /\ seq' = seq + 1 /\ UNCHANGED <<seen, nextId>>
      /\ events' = Append(events, Trade(seq + 1, order, maker, fillQty))
      /\ book' = ReduceTopOrder(book, opp, fillQty)
      /\ order' = [order EXCEPT !.remaining = order.remaining - fillQty]
  BY <1>1
<1>6. /\ fillQty \in Nat /\ fillQty > 0
      /\ fillQty <= maker.remaining /\ fillQty <= order.remaining
      /\ fillQty = order.remaining \/ fillQty = maker.remaining
  BY <1>2, <1>3, <1>4
<1> HIDE DEF maker, fillQty, q
<1>7. Traded(p, maker, fillQty)
  BY <1>2, <1>3, <1>4, <1>5, <1>6 DEF Traded, q
<1> QED BY <1>7

LEMMA TotalsStep == IInv /\ TotalsExact(book) /\ [Next]_vars => TotalsExact(book)'
<1> SUFFICES ASSUME IInv, TotalsExact(book), [Next]_vars
             PROVE  TotalsExact(book)'
  OBVIOUS
<1>1. CASE book' = book
  BY <1>1
<1>2. CASE order # NoOrder /\ Match
  <2>1. PICK p, maker, fillQty : Traded(p, maker, fillQty)
    BY <1>2, TradeMade
  <2>2. BookWellFormed(book)
    BY DEF IInv
  <2> DEFINE opp == Opposite(order.side)
  <2>3. /\ opp \in Sides /\ IsBest(book, opp, p)
        /\ maker = Head(QueueAt(book, opp, p))
        /\ fillQty \in Nat /\ fillQty <= maker.remaining
        /\ book' = ReduceTopOrder(book, opp, fillQty)
    BY <2>1 DEF Traded
  <2> HIDE DEF opp
  <2> QED BY <2>2, <2>3, ReduceTopQuantities
<1>3. CASE order # NoOrder /\ RestRemainder
  <2>1. order \in Order /\ \A id : IsResting(book, id) => id < order.orderId
    BY <1>3 DEF IInv, TypeOK, IdsOld
  <2>2. BookWellFormed(book) /\ order.remaining > 0
    BY <1>3 DEF IInv, RestRemainder, NothingCrosses
  <2>3. TotalsExact(Rest(book, order))
    BY <2>1, <2>2, RestQuantities
  <2> QED BY <1>3, <2>3 DEF RestRemainder
<1>4. ASSUME NEW user, NEW id, CancelHit(user, id)
      PROVE  TotalsExact(book)'
  <2>1. BookWellFormed(book) /\ IsResting(book, id) /\ book' = CancelOrder(book, id)
    BY <1>4 DEF IInv, CancelHit
  <2>2. TotalsExact(CancelOrder(book, id))
    BY <2>1, CancelQuantities
  <2> QED BY <2>1, <2>2
<1>5. CASE MatchLoop
  BY <1>1, <1>2, <1>3, <1>5
  DEF MatchLoop, StopOnSelfTrade, CancelRemainder, KillRemainder, Filled
<1>6. ASSUME NEW cmd \in Command, Submit(cmd) PROVE book' = book
  BY <1>6 DEF Submit, RejectInvalid, RejectDuplicate, RejectPrecheck, Accept
<1>7. ASSUME NEW user \in Users, NEW id \in 1..MaxOrders, Cancel(user, id)
      PROVE  TotalsExact(book)'
  BY <1>1, <1>4, <1>7 DEF Cancel, CancelMiss
<1> QED BY <1>1, <1>5, <1>6, <1>7 DEF Next, vars

LEMMA InitTotals == Init => TotalsExact(book)
<1> SUFFICES ASSUME Init PROVE TotalsExact(book)
  OBVIOUS
<1>1. \A s \in Sides : PricesOn(book, s) = {}
  BY EmptyBookWellFormed DEF Init
<1> QED BY <1>1 DEF TotalsExact

LEMMA TotalsInvariance == Spec => [](IInv /\ TotalsExact(book))
BY InitTotals, TotalsStep, InitIInv, NextIInv, PTL DEF Spec

(* The total that book.ts keeps for each level by adding and subtracting   *)
(* is at every moment the sum over the orders that wait there, so depth()  *)
(* and the market data built on it never drift (book.ts:60-141).           *)
THEOREM TotalsAreExact == Spec => []TotalsConsistent
<1>1. TotalsExact(book) => TotalsConsistent
  BY DEF TotalsConsistent
<1> QED BY <1>1, TotalsInvariance, PTL

-----------------------------------------------------------------------------
(* Sums over the events of a call: what its trades filled, and what its    *)
(* cancellations dropped.                                                  *)

FilledIn(evs) == MapThenSumSet(LAMBDA i : evs[i].qty, TradesOf(evs))

CancelsOf(evs) == {i \in DOMAIN evs : evs[i].kind = "OrderCanceled"}

KilledIn(evs) == MapThenSumSet(LAMBDA i : evs[i].remaining, CancelsOf(evs))

(* One field of the events, summed over some of them.                      *)
FieldSum(evs, field, S) == MapThenSumSet(LAMBDA i : evs[i][field], S)

(* The field is a quantity in the events of S.                             *)
Counts(evs, field, S) == IsFiniteSet(S) /\ \A i \in S : evs[i][field] \in Nat

(* Event n has the value x in a field.                                     *)
Bears(evs, n, field, x) == evs[n][field] = x

(* The events of S have not changed.                                       *)
SameOn(evs, later, S) == \A i \in S : later[i] = evs[i]

LEMMA FieldSumIsSigma ==
  ASSUME NEW evs, NEW field, NEW S, IsFiniteSet(S), \A i \in S : evs[i][field] \in Nat
  PROVE  FieldSum(evs, field, S) = Sigma([i \in S |-> evs[i][field]], S)
<1> DEFINE w == [i \in S |-> evs[i][field]]
           pick == [T \in SUBSET S |-> CHOOSE x \in T : TRUE]
           Eq(g) == g = [T \in SUBSET S |-> IF T = {} THEN 0
                      ELSE evs[CHOOSE x \in T : TRUE][field] + g[T \ {CHOOSE x \in T : TRUE}]]
           g == CHOOSE h : Eq(h)
<1>1. Weighs(w, S) /\ \A i \in S : w[i] = evs[i][field]
  BY DEF Weighs
<1> HIDE DEF w
<1>2. Picks(pick, S) /\ \A T \in SUBSET S : pick[T] = CHOOSE x \in T : TRUE
  BY DEF Picks
<1>3. FieldSum(evs, field, S) = g[S]
  BY Zenon DEF FieldSum, MapThenSumSet, MapThenFoldSet
<1>4. ASSUME NEW h
      PROVE  Eq(h) <=> Recursion(h, w, pick, S)
  <2>1. \A T \in SUBSET S :
          (IF T = {} THEN 0
           ELSE evs[CHOOSE x \in T : TRUE][field] + h[T \ {CHOOSE x \in T : TRUE}])
        = IF T = {} THEN 0 ELSE w[pick[T]] + h[T \ {pick[T]}]
    <3> SUFFICES ASSUME NEW T \in SUBSET S, T # {}
                 PROVE  evs[CHOOSE x \in T : TRUE][field] + h[T \ {CHOOSE x \in T : TRUE}]
                        = w[pick[T]] + h[T \ {pick[T]}]
      OBVIOUS
    <3>1. pick[T] \in S /\ pick[T] = CHOOSE x \in T : TRUE
      BY <1>2 DEF Picks
    <3>2. w[pick[T]] = evs[CHOOSE x \in T : TRUE][field]
      BY <1>1, <3>1
    <3> QED BY <3>1, <3>2
  <2> HIDE DEF pick
  <2> QED BY <2>1 DEF Recursion
<1> HIDE DEF pick
<1>5. Eq(g)
  <2>1. PICK h : Recursion(h, w, pick, S)
    BY <1>1, <1>2, FoldExists
  <2>2. Eq(h)
    BY <1>4, <2>1
  <2> HIDE DEF Eq
  <2> QED BY <2>2
<1>6. Recursion(g, w, pick, S)
  <2> HIDE DEF g, Eq
  <2> QED BY <1>4, <1>5
<1> HIDE DEF g
<1>7. g[S] = Sigma(w, S)
  BY <1>1, <1>2, <1>6, FoldIsSigma
<1> QED BY <1>3, <1>7 DEF w

(* The sum of some events stays what it is when others come after them,    *)
(* and grows by the field of an event that is added.                       *)
LEMMA FieldSumKept ==
  ASSUME NEW evs, NEW field, NEW S, Counts(evs, field, S),
         NEW later, SameOn(evs, later, S)
  PROVE  /\ FieldSum(evs, field, S) \in Nat
         /\ FieldSum(later, field, S) = FieldSum(evs, field, S)
         /\ FieldSum(evs, field, {}) = 0
<1> DEFINE w == [i \in S |-> evs[i][field]]
           v == [i \in S |-> later[i][field]]
<1>1. /\ \A i \in S : w[i] = evs[i][field] /\ w[i] \in Nat /\ v[i] = w[i]
      /\ IsFiniteSet(S) /\ \A i \in S : evs[i][field] \in Nat
      /\ \A i \in S : later[i][field] \in Nat
      /\ Weighs(w, S)
  BY DEF Weighs, Counts, SameOn
<1>2. FieldSum(evs, field, S) = Sigma(w, S) /\ FieldSum(later, field, S) = Sigma(v, S)
  BY <1>1, FieldSumIsSigma
<1> HIDE DEF w, v
<1>3. Sigma(w, S) \in Nat /\ Sigma(v, S) = Sigma(w, S)
  BY <1>1, SigmaMonotonic, SigmaSame DEF Weighs
<1>4. FieldSum(evs, field, {}) = 0
  <2> DEFINE u == [i \in {} |-> evs[i][field]]
  <2>1. IsFiniteSet({}) /\ Weighs(u, {})
    BY FS_EmptySet DEF Weighs
  <2>2. FieldSum(evs, field, {}) = Sigma(u, {})
    BY <2>1, FieldSumIsSigma
  <2> HIDE DEF u
  <2> QED BY <2>1, <2>2, SigmaLaws
<1> QED BY <1>2, <1>3, <1>4

LEMMA FieldSumGrows ==
  ASSUME NEW evs, NEW field, NEW S, Counts(evs, field, S),
         NEW later, SameOn(evs, later, S), NEW n, n \notin S,
         NEW x \in Nat, Bears(later, n, field, x)
  PROVE  FieldSum(later, field, S \cup {n}) = FieldSum(evs, field, S) + x
<1> DEFINE T == S \cup {n}
           v == [i \in T |-> later[i][field]]
<1>1. IsFiniteSet(T) /\ \A i \in T : later[i][field] \in Nat
  BY FS_AddElement DEF Counts, SameOn, Bears
<1>2. FieldSum(later, field, T) = Sigma(v, T)
  <2> HIDE DEF T
  <2> QED BY <1>1, FieldSumIsSigma
<1>3. v[n] = later[n][field] /\ \A i \in S : v[i] = later[i][field]
  OBVIOUS
<1> HIDE DEF v
<1>4. Weighs(v, S) /\ v[n] \in Int
  BY <1>1, <1>3 DEF Weighs, Counts
<1>5. Sigma(v, S \cup {n}) = v[n] + Sigma(v, S)
  BY <1>4, SigmaAdd
<1>6. FieldSum(later, field, S) = Sigma(v, S)
  <2> DEFINE u == [i \in S |-> later[i][field]]
  <2>1. FieldSum(later, field, S) = Sigma(u, S) /\ \A i \in S : u[i] = v[i]
    BY <1>1, <1>3, FieldSumIsSigma DEF Counts
  <2> HIDE DEF u
  <2> QED BY <1>4, <2>1, SigmaSame
<1>7. /\ FieldSum(evs, field, S) \in Nat
      /\ FieldSum(later, field, S) = FieldSum(evs, field, S)
  BY FieldSumKept
<1> QED BY <1>2, <1>3, <1>5, <1>6, <1>7 DEF Bears

-----------------------------------------------------------------------------
(* The quantity of an accepted order. *)

(* What the call's order has left: in hand, on the book, or nothing.       *)
Open(o) ==
  IF order # NoOrder THEN order.remaining
  ELSE IF IsResting(book, o.orderId) THEN GetOrder(book, o.orderId).remaining ELSE 0

(* The order in hand is the accepted one, and what was accepted is what    *)
(* was filled, killed or is still open.                                    *)
CallCounted ==
  /\ order # NoOrder => events[1].order.orderId = order.orderId
  /\ events # << >> /\ events[1].kind = "OrderAccepted" =>
       FilledIn(events) + KilledIn(events) + Open(events[1].order) = events[1].order.qty

LEMMA EventFields ==
  ASSUME NEW evs \in Seq(Event)
  PROVE  /\ Len(evs) \in Nat /\ DOMAIN evs = 1..Len(evs)
         /\ IsFiniteSet(TradesOf(evs)) /\ IsFiniteSet(CancelsOf(evs))
         /\ \A i \in TradesOf(evs) : evs[i]["qty"] \in Nat
         /\ \A i \in CancelsOf(evs) : evs[i]["remaining"] \in Nat
         /\ FilledIn(evs) = FieldSum(evs, "qty", TradesOf(evs))
         /\ KilledIn(evs) = FieldSum(evs, "remaining", CancelsOf(evs))
<1>1. Len(evs) \in Nat /\ DOMAIN evs = 1..Len(evs) /\ \A i \in 1..Len(evs) : evs[i] \in Event
  BY LenProperties, ElementOfSeq
<1>2. IsFiniteSet(TradesOf(evs)) /\ IsFiniteSet(CancelsOf(evs))
  <2>1. IsFiniteSet(1..Len(evs))
    BY <1>1, FS_Interval
  <2> QED BY <1>1, <2>1, FS_Subset DEF TradesOf, CancelsOf
<1>3. ASSUME NEW e \in Event
      PROVE  /\ e.kind = "Trade" => e.qty \in Nat
             /\ e.kind = "OrderCanceled" => e.remaining \in Nat
  BY <1>3 DEF Event
<1>4. /\ \A i \in TradesOf(evs) : evs[i].qty \in Nat
      /\ \A i \in CancelsOf(evs) : evs[i].remaining \in Nat
  BY <1>1, <1>3 DEF TradesOf, CancelsOf
<1>5. /\ FilledIn(evs) = FieldSum(evs, "qty", TradesOf(evs))
      /\ KilledIn(evs) = FieldSum(evs, "remaining", CancelsOf(evs))
  BY Zenon DEF FilledIn, KilledIn, FieldSum, MapThenSumSet, MapThenFoldSet
<1> QED BY <1>1, <1>2, <1>4, <1>5

(* What an event at the end of the list adds to the sums.                  *)
LEMMA SumsAppended ==
  ASSUME NEW evs \in Seq(Event), NEW e \in Event, NEW later, later = Append(evs, e)
  PROVE  /\ FilledIn(evs) \in Nat /\ KilledIn(evs) \in Nat
         /\ e.kind = "Trade" => /\ FilledIn(later) = FilledIn(evs) + e.qty
                                /\ KilledIn(later) = KilledIn(evs)
         /\ e.kind = "OrderCanceled" => /\ FilledIn(later) = FilledIn(evs)
                                        /\ KilledIn(later) = KilledIn(evs) + e.remaining
<1> DEFINE n == Len(evs) + 1
           qty  == "qty"
           left == "remaining"
           T == TradesOf(evs)
           C == CancelsOf(evs)
<1>1. /\ IsFiniteSet(T) /\ IsFiniteSet(C)
      /\ \A i \in T : evs[i][qty] \in Nat
      /\ \A i \in C : evs[i][left] \in Nat
      /\ FilledIn(evs) = FieldSum(evs, qty, T)
      /\ KilledIn(evs) = FieldSum(evs, left, C)
  BY EventFields
<1>2. later \in Seq(Event)
  OBVIOUS
<1>3. /\ FilledIn(later) = FieldSum(later, qty, TradesOf(later))
      /\ KilledIn(later) = FieldSum(later, left, CancelsOf(later))
      /\ \A i \in TradesOf(later) : later[i][qty] \in Nat
      /\ \A i \in CancelsOf(later) : later[i][left] \in Nat
  BY <1>2, EventFields
<1>4. /\ Len(evs) \in Nat /\ DOMAIN evs = 1..Len(evs) /\ DOMAIN later = 1..n
      /\ later[n] = e /\ \A i \in 1..Len(evs) : later[i] = evs[i]
  BY EventFields
<1>5. /\ \A i \in T : later[i] = evs[i]
      /\ \A i \in C : later[i] = evs[i]
      /\ n \notin T /\ n \notin C
  BY <1>4 DEF TradesOf, CancelsOf
<1>6. /\ TradesOf(later) = IF e.kind = "Trade" THEN T \cup {n} ELSE T
      /\ CancelsOf(later) = IF e.kind = "OrderCanceled" THEN C \cup {n} ELSE C
  BY <1>4 DEF TradesOf, CancelsOf
<1> HIDE DEF T, C, n, qty, left
<1>7. /\ Counts(evs, qty, T) /\ Counts(evs, left, C)
      /\ SameOn(evs, later, T) /\ SameOn(evs, later, C)
  BY <1>1, <1>5 DEF Counts, SameOn
<1>8. /\ FieldSum(evs, qty, T) \in Nat
      /\ FieldSum(later, qty, T) = FieldSum(evs, qty, T)
      /\ FieldSum(evs, left, C) \in Nat
      /\ FieldSum(later, left, C) = FieldSum(evs, left, C)
  BY <1>7, FieldSumKept
<1>9. ASSUME e.kind = "Trade"
      PROVE  /\ FilledIn(later) = FilledIn(evs) + e.qty
             /\ KilledIn(later) = KilledIn(evs)
  <2>1. TradesOf(later) = T \cup {n} /\ CancelsOf(later) = C
    BY <1>6, <1>9
  <2>2. e.qty \in Nat /\ Bears(later, n, qty, e.qty)
    BY <1>3, <1>4, <2>1 DEF Bears, qty
  <2>3. FieldSum(later, qty, T \cup {n}) = FieldSum(evs, qty, T) + e.qty
    BY <1>5, <1>7, <2>2, FieldSumGrows
  <2> QED BY <1>1, <1>3, <1>4, <1>8, <2>1, <2>3 DEF qty, left
<1>10. ASSUME e.kind = "OrderCanceled"
      PROVE  /\ FilledIn(later) = FilledIn(evs)
             /\ KilledIn(later) = KilledIn(evs) + e.remaining
  <2>1. TradesOf(later) = T /\ CancelsOf(later) = C \cup {n}
    BY <1>6, <1>10
  <2>2. e.remaining \in Nat /\ Bears(later, n, left, e.remaining)
    BY <1>3, <1>4, <2>1 DEF Bears, left
  <2>3. FieldSum(later, left, C \cup {n}) =
          FieldSum(evs, left, C) + e.remaining
    BY <1>5, <1>7, <2>2, FieldSumGrows
  <2> QED BY <1>1, <1>3, <1>4, <1>8, <2>1, <2>3 DEF qty, left
<1> QED BY <1>1, <1>8, <1>9, <1>10

(* A list of one event that neither trades nor cancels.                    *)
LEMMA SumsOfFirst ==
  ASSUME NEW e, e.kind # "Trade", e.kind # "OrderCanceled"
  PROVE  FilledIn(<< e >>) = 0 /\ KilledIn(<< e >>) = 0
<1> DEFINE evs == << e >>
<1>1. TradesOf(evs) = {} /\ CancelsOf(evs) = {}
  BY DEF TradesOf, CancelsOf
<1> HIDE DEF evs
<1>2. FieldSum(evs, "qty", {}) = 0 /\ FieldSum(evs, "remaining", {}) = 0
  <2>1. /\ Counts(evs, "qty", {}) /\ Counts(evs, "remaining", {})
        /\ SameOn(evs, evs, {})
    BY FS_EmptySet DEF Counts, SameOn
  <2> QED BY <2>1, FieldSumKept
<1>3. /\ FilledIn(evs) = FieldSum(evs, "qty", TradesOf(evs))
      /\ KilledIn(evs) = FieldSum(evs, "remaining", CancelsOf(evs))
  BY Zenon DEF FilledIn, KilledIn, FieldSum, MapThenSumSet, MapThenFoldSet
<1> QED BY <1>1, <1>2, <1>3 DEF evs

(* The sums after a step that appends one event to the running call's.     *)
LEMMA CallExtended ==
  ASSUME IInv, CallOpened, CallCounted, order # NoOrder,
         NEW e \in Event, events' = Append(events, e)
  PROVE  /\ events' # << >> /\ events'[1] = events[1] /\ events[1].kind = "OrderAccepted"
         /\ order \in Order /\ order.remaining \in Nat
         /\ events[1].order.orderId = order.orderId
         /\ FilledIn(events) \in Nat /\ KilledIn(events) \in Nat
         /\ FilledIn(events) + KilledIn(events) + order.remaining = events[1].order.qty
         /\ e.kind = "Trade" => /\ FilledIn(events') = FilledIn(events) + e.qty
                                /\ KilledIn(events') = KilledIn(events)
         /\ e.kind = "OrderCanceled" => /\ FilledIn(events') = FilledIn(events)
                                        /\ KilledIn(events') = KilledIn(events) + e.remaining
<1>1. events \in Seq(Event) /\ events # << >> /\ order \in Order /\ order.remaining \in Nat
  BY DEF IInv, TypeOK, CallOpened, Order
<1>2. events' # << >> /\ events'[1] = events[1]
  <2>1. Len(events) \in Nat /\ DOMAIN events = 1..Len(events) /\ Len(events) # 0
    BY <1>1, EventFields, EmptySeq
  <2> QED BY <1>1, <2>1
<1>3. /\ events[1].kind = "OrderAccepted" /\ events[1].order.orderId = order.orderId
      /\ FilledIn(events) + KilledIn(events) + order.remaining = events[1].order.qty
  BY <1>1 DEF CallOpened, CallCounted, Open
<1>4. /\ FilledIn(events) \in Nat /\ KilledIn(events) \in Nat
      /\ e.kind = "Trade" => /\ FilledIn(events') = FilledIn(events) + e.qty
                             /\ KilledIn(events') = KilledIn(events)
      /\ e.kind = "OrderCanceled" => /\ FilledIn(events') = FilledIn(events)
                                     /\ KilledIn(events') = KilledIn(events) + e.remaining
  BY <1>1, SumsAppended
<1> QED BY <1>1, <1>2, <1>3, <1>4

LEMMA LoopCounted ==
  ASSUME IInv, TotalsExact(book), CallOpened, CallCounted, MatchLoop
  PROVE  CallCounted'
<1>1. /\ order # NoOrder /\ order \in Order /\ order.remaining \in Nat
      /\ seq \in Nat /\ seq + 1 \in Nat
      /\ events # << >> /\ events[1].kind = "OrderAccepted"
      /\ events[1].order.orderId = order.orderId
      /\ FilledIn(events) + KilledIn(events) + order.remaining = events[1].order.qty
      /\ ~IsResting(book, order.orderId)
  BY DEF MatchLoop, IInv, TypeOK, CallOpened, CallCounted, Open, IdsOld, Order
<1>2. CASE Match
  <2>1. PICK p, maker, fillQty : Traded(p, maker, fillQty)
    BY <1>1, <1>2, TradeMade
  <2> DEFINE t == Trade(seq + 1, order, maker, fillQty)
  <2>2. /\ t \in Event /\ t.kind = "Trade" /\ t.qty = fillQty /\ events' = Append(events, t)
        /\ fillQty \in Nat /\ fillQty <= order.remaining
        /\ order' = [order EXCEPT !.remaining = order.remaining - fillQty]
    <3>1. maker \in Order /\ fillQty \in Nat
      BY <2>1 DEF Traded
    <3>2. t \in Event
      BY <1>1, <3>1, TradeType
    <3> QED BY <2>1, <3>2 DEF Traded, Trade
  <2>3. /\ events' # << >> /\ events'[1] = events[1]
        /\ FilledIn(events) \in Nat /\ KilledIn(events) \in Nat
        /\ FilledIn(events') = FilledIn(events) + fillQty
        /\ KilledIn(events') = KilledIn(events)
    <3> HIDE DEF t
    <3> QED BY <1>1, <2>2, CallExtended
  <2>4. /\ order' \in Order /\ order' # NoOrder /\ order'.orderId = order.orderId
        /\ order'.remaining = order.remaining - fillQty
    <3>1. order.remaining - fillQty \in Nat
      BY <1>1, <2>2
    <3>2. order' \in Order
      BY <1>1, <2>2, <3>1 DEF Order
    <3> QED BY <1>1, <2>2, <3>2, NoOrderAssumption DEF Order
  <2>5. FilledIn(events') + KilledIn(events') + order'.remaining = events[1].order.qty
    <3> DEFINE f == FilledIn(events)
               k == KilledIn(events)
               r == order.remaining
    <3>1. f + k + r = (f + fillQty) + k + (r - fillQty)
      <4>1. f \in Nat /\ k \in Nat /\ r \in Nat
        BY <1>1, <2>3
      <4> HIDE DEF f, k, r
      <4> QED BY <2>2, <4>1
    <3> QED BY <1>1, <2>3, <2>4, <3>1
  <2>6. /\ FilledIn(events)' = FilledIn(events') /\ KilledIn(events)' = KilledIn(events')
        /\ Open(events[1].order)' = order'.remaining
    BY <2>4 DEF Open
  <2> QED BY <1>1, <2>3, <2>4, <2>5, <2>6 DEF CallCounted
<1>3. ASSUME NEW reason \in CancelReasons, KillRemainder(reason)
      PROVE  CallCounted'
  <2> DEFINE e == Canceled(seq + 1, order, reason)
  <2>1. /\ e \in Event /\ e.kind = "OrderCanceled" /\ e.remaining = order.remaining
        /\ events' = Append(events, e) /\ order' = NoOrder /\ book' = book
    <3>1. e \in Event
      BY <1>1, <1>3, CanceledType
    <3> QED BY <1>3, <3>1 DEF KillRemainder, Canceled
  <2>2. /\ events' # << >> /\ events'[1] = events[1]
        /\ FilledIn(events) \in Nat /\ KilledIn(events) \in Nat
        /\ FilledIn(events') = FilledIn(events)
        /\ KilledIn(events') = KilledIn(events) + order.remaining
    <3> HIDE DEF e
    <3> QED BY <1>1, <2>1, CallExtended
  <2>3. FilledIn(events') + KilledIn(events') + 0 = events[1].order.qty
    <3> DEFINE f == FilledIn(events)
               k == KilledIn(events)
               r == order.remaining
    <3>1. f + (k + r) + 0 = f + k + r
      <4>1. f \in Nat /\ k \in Nat /\ r \in Nat
        BY <1>1, <2>2
      <4> HIDE DEF f, k, r
      <4> QED BY <4>1
    <3> QED BY <1>1, <2>2, <3>1
  <2>4. /\ FilledIn(events)' = FilledIn(events') /\ KilledIn(events)' = KilledIn(events')
        /\ Open(events[1].order)' = 0
    BY <1>1, <2>1, <2>2 DEF Open
  <2> QED BY <2>1, <2>2, <2>3, <2>4 DEF CallCounted
<1>4. ASSUME order' = NoOrder, events' = events,
             Open(events[1].order)' = order.remaining
      PROVE  CallCounted'
  <2>1. FilledIn(events)' = FilledIn(events) /\ KilledIn(events)' = KilledIn(events)
    BY <1>4
  <2> QED BY <1>1, <1>4, <2>1 DEF CallCounted
<1>5. CASE RestRemainder
  <2>1. /\ order' = NoOrder /\ events' = events /\ book' = Rest(book, order)
        /\ order.remaining > 0 /\ BookWellFormed(book)
        /\ \A id : IsResting(book, id) => id < order.orderId
    BY <1>1, <1>5 DEF RestRemainder, NothingCrosses, IInv, IdsOld
  <2>2. /\ IsResting(Rest(book, order), order.orderId)
        /\ GetOrder(Rest(book, order), order.orderId) = order
    BY <1>1, <2>1, RestQuantities, RestWellFormed
  <2>3. Open(events[1].order)' = order.remaining
    BY <1>1, <2>1, <2>2 DEF Open
  <2> QED BY <1>4, <2>1, <2>3
<1>6. CASE Filled
  <2>1. order' = NoOrder /\ UNCHANGED <<events, book>> /\ order.remaining = 0
    BY <1>6 DEF Filled
  <2>2. Open(events[1].order)' = order.remaining
    BY <1>1, <2>1 DEF Open
  <2> QED BY <1>4, <2>1, <2>2
<1>7. CASE StopOnSelfTrade
  BY <1>3, <1>7 DEF StopOnSelfTrade, CancelReasons
<1>8. CASE CancelRemainder
  BY <1>3, <1>8 DEF CancelRemainder, CancelReasons
<1> QED BY <1>2, <1>5, <1>6, <1>7, <1>8 DEF MatchLoop

LEMMA CallStartCounted ==
  ASSUME IInv, order = NoOrder, NEW cmd \in Command, Submit(cmd)
  PROVE  CallCounted'
<1>1. ASSUME NEW reason, events' = << Rejected(seq', cmd, reason) >>, order' = order
      PROVE  CallCounted'
  BY <1>1 DEF CallCounted, Rejected
<1>2. CASE Accept(cmd)
  <2> DEFINE o == NewOrder(cmd)
             e == Accepted(seq', o)
  <2>1. order' = o /\ events' = << e >>
    BY <1>2 DEF Accept
  <2>2. e.kind = "OrderAccepted" /\ e.order = o
    BY DEF Accepted
  <2>3. o \in Order /\ o.remaining = o.qty
    <3>1. o \in Order
      BY NewOrderType DEF IInv, TypeOK
    <3> QED BY <3>1 DEF NewOrder
  <2> HIDE DEF o, e
  <2>4. o # NoOrder /\ o.qty \in Nat
    BY <2>3, NoOrderAssumption DEF Order
  <2>5. FilledIn(events') = 0 /\ KilledIn(events') = 0
    BY <2>1, <2>2, SumsOfFirst
  <2>6. /\ FilledIn(events)' = FilledIn(events') /\ KilledIn(events)' = KilledIn(events')
        /\ Open(events[1].order)' = o.remaining
    BY <2>1, <2>4 DEF Open
  <2>7. events'[1] = e
    BY <2>1
  <2> QED BY <2>1, <2>2, <2>3, <2>4, <2>5, <2>6, <2>7 DEF CallCounted
<1> QED BY <1>1, <1>2 DEF Submit, RejectInvalid, RejectDuplicate, RejectPrecheck

LEMMA CountedInvariance == Spec => []CallCounted
<1>1. Init => CallCounted
  BY DEF Init, CallCounted
<1>2. PInv /\ TotalsExact(book) /\ CallCounted /\ [Next]_vars => CallCounted'
  <2> SUFFICES ASSUME PInv, TotalsExact(book), CallCounted, [Next]_vars
               PROVE  CallCounted'
    OBVIOUS
  <2>1. IInv /\ CallOpened
    BY DEF PInv
  <2>2. CASE MatchLoop
    BY <2>1, <2>2, LoopCounted
  <2>3. ASSUME NEW cmd \in Command, Submit(cmd) PROVE CallCounted'
    <3>1. order = NoOrder
      BY <2>3 DEF Submit, RejectInvalid, RejectDuplicate, RejectPrecheck, Accept, Idle
    <3> QED BY <2>1, <2>3, <3>1, CallStartCounted
  <2>4. ASSUME NEW user \in Users, NEW id \in 1..MaxOrders, Cancel(user, id)
        PROVE  CallCounted'
    <3>1. CASE CancelHit(user, id)
      BY <3>1 DEF CancelHit, Idle, Canceled, CallCounted
    <3>2. CASE CancelMiss(user, id)
      BY <3>2 DEF CancelMiss, Idle, CallCounted
    <3> QED BY <2>4, <3>1, <3>2 DEF Cancel
  <2>5. CASE UNCHANGED vars
    BY <2>5 DEF vars, CallCounted, Open
  <2> QED BY <2>2, <2>3, <2>4, <2>5 DEF Next
<1> QED BY <1>1, <1>2, PriorityInvariance, TotalsInvariance, PTL DEF Spec

(* No quantity of an accepted order is lost or made: after every step of   *)
(* its call, and after the call, what was filled, what was killed and what *)
(* rests add up to what the order came with (matcher.ts:136-210).          *)
THEOREM QuantityIsAccounted == Spec => []QtyAccounted
<1>1. CallCounted => QtyAccounted
  BY DEF CallCounted, QtyAccounted, FilledIn, KilledIn, CancelsOf, Open
<1> QED BY <1>1, CountedInvariance, PTL

-----------------------------------------------------------------------------
(* The promise of the FOK pre-check. *)

(* The positions of a queue before the first order of the user, and the    *)
(* prices of a side that the walk of fullyFillable gets to.                *)
ReachedIn(q, user) == {i \in DOMAIN q : \A j \in 1..i : q[j].userId # user}

Passed(b, s, user, p) == ReachedIn(QueueAt(b, s, p), user) = DOMAIN QueueAt(b, s, p)

OpenPrice(b, o, p) ==
  /\ p \in PricesOn(b, Opposite(o.side))
  /\ Matches(o, p)
  /\ \A q \in PricesOn(b, Opposite(o.side)) :
       Better(Opposite(o.side), q, p) => Passed(b, Opposite(o.side), o.userId, q)

LEMMA ReachableOrders ==
  ASSUME NEW b, NEW o, NEW r
  PROVE  r \in Reachable(b, o) <=>
           \E p : /\ OpenPrice(b, o, p)
                  /\ \E i \in ReachedIn(QueueAt(b, Opposite(o.side), p), o.userId) :
                       r = QueueAt(b, Opposite(o.side), p)[i]
<1> DEFINE opp == Opposite(o.side)
           ReachedAt(p) == {i \in DOMAIN QueueAt(b, opp, p) :
                              \A j \in 1..i : QueueAt(b, opp, p)[j].userId # o.userId}
           Walked == {p \in PricesOn(b, opp) :
                        /\ Matches(o, p)
                        /\ \A q \in PricesOn(b, opp) :
                             Better(opp, q, p) => ReachedAt(q) = DOMAIN QueueAt(b, opp, q)}
<1>1. Reachable(b, o) = UNION {{QueueAt(b, opp, p)[i] : i \in ReachedAt(p)} : p \in Walked}
  BY DEF Reachable
<1>2. \A p : ReachedAt(p) = ReachedIn(QueueAt(b, opp, p), o.userId)
  BY DEF ReachedIn
<1> HIDE DEF ReachedAt
<1>3. \A p : p \in Walked <=> OpenPrice(b, o, p)
  BY <1>2 DEF OpenPrice, Passed
<1> HIDE DEF Walked
<1> QED BY <1>1, <1>2, <1>3

LEMMA ReachableFinite ==
  ASSUME NEW b, BookWellFormed(b), NEW o \in Order,
         IsFiniteSet(PricesOn(b, Opposite(o.side)))
  PROVE  Reachable(b, o) \in SUBSET Order /\ IsFiniteSet(Reachable(b, o))
<1> DEFINE opp == Opposite(o.side)
           P   == PricesOn(b, opp)
           f   == [p \in P |-> ToSet(QueueAt(b, opp, p))]
           F   == {f[p] : p \in P}
<1>1. opp \in Sides
  BY DEF Opposite, Sides, Order
<1> HIDE DEF opp
<1>2. \A p \in P : ToSet(QueueAt(b, opp, p)) \in SUBSET Order
                   /\ IsFiniteSet(ToSet(QueueAt(b, opp, p)))
  BY <1>1, LevelTypes, QueueSet DEF BookWellFormed
<1>3. IsFiniteSet(P)
  BY DEF opp
<1>4. f \in Surjection(P, F)
  BY DEF Surjection
<1>5. IsFiniteSet(F)
  <2> HIDE DEF f, F, P
  <2> QED BY <1>3, <1>4, FS_Surjection
<1>6. IsFiniteSet(UNION F)
  <2>1. \A T \in F : IsFiniteSet(T)
    BY <1>2
  <2> HIDE DEF F
  <2> QED BY <1>5, <2>1, FS_UNION
<1>7. Reachable(b, o) \subseteq UNION F
  <2> SUFFICES ASSUME NEW r \in Reachable(b, o) PROVE r \in UNION F
    OBVIOUS
  <2>1. PICK p \in P : \E i \in ReachedIn(QueueAt(b, opp, p), o.userId) :
                         r = QueueAt(b, opp, p)[i]
    BY ReachableOrders DEF OpenPrice, opp
  <2>2. r \in ToSet(QueueAt(b, opp, p))
    BY <2>1 DEF ReachedIn, ToSet
  <2> QED BY <2>2
<1>8. UNION F \subseteq Order
  BY <1>2
<1> QED BY <1>6, <1>7, <1>8, FS_Subset

(* Who the order belongs to, what it trades against and how far.           *)
SameTerms(o, n) ==
  n.side = o.side /\ n.userId = o.userId /\ n.price = o.price /\ n.type = o.type

LEMMA ReachableBySameTerms ==
  ASSUME NEW b, NEW o, NEW n, SameTerms(o, n)
  PROVE  Reachable(b, n) = Reachable(b, o)
BY DEF SameTerms, Reachable, Matches

(* Taking the first order off its queue leaves every other in reach.       *)
LEMMA QueueShorter ==
  ASSUME NEW q \in Seq(Order), q # << >>, NEW user, q[1].userId # user,
         NEW r, r = RemoveAt(q, 1)
  PROVE  /\ \A i \in ReachedIn(q, user) : i # 1 =>
              \E j \in ReachedIn(r, user) : r[j] = q[i]
         /\ ReachedIn(q, user) = DOMAIN q => ReachedIn(r, user) = DOMAIN r
<1>1. Len(q) \in Nat /\ DOMAIN q = 1..Len(q) /\ Len(q) > 0 /\ 1 \in 1..Len(q)
  BY QueueTypes
<1>2. /\ r \in Seq(Order) /\ Len(r) = Len(q) - 1
      /\ \A j \in 1..(Len(q) - 1) : r[j] = q[j + 1]
  <2>1. /\ RemoveAt(q, 1) \in Seq(Order) /\ Len(RemoveAt(q, 1)) = Len(q) - 1
        /\ \A j \in 1..(Len(q) - 1) :
             RemoveAt(q, 1)[j] = IF j < 1 THEN q[j] ELSE q[j + 1]
    BY <1>1, RemoveAtProperties
  <2>2. \A j \in 1..(Len(q) - 1) : ~(j < 1)
    BY <1>1
  <2> QED BY <2>1, <2>2
<1>3. DOMAIN r = 1..(Len(q) - 1)
  BY <1>2, LenProperties
<1>4. ASSUME NEW i \in ReachedIn(q, user), i # 1
      PROVE  \E j \in ReachedIn(r, user) : r[j] = q[i]
  <2>1. i \in 1..Len(q) /\ \A j \in 1..i : q[j].userId # user
    BY <1>1 DEF ReachedIn
  <2>2. i - 1 \in 1..(Len(q) - 1) /\ r[i - 1] = q[i]
    BY <1>1, <1>2, <1>4, <2>1
  <2>3. \A j \in 1..(i - 1) : j \in 1..(Len(q) - 1) /\ j + 1 \in 1..i
    BY <1>1, <2>1
  <2>4. \A j \in 1..(i - 1) : r[j].userId # user
    BY <1>2, <2>1, <2>3
  <2> QED BY <1>3, <2>2, <2>4 DEF ReachedIn
<1>5. ASSUME ReachedIn(q, user) = DOMAIN q, NEW i \in DOMAIN r
      PROVE  i \in ReachedIn(r, user)
  <2>1. i \in 1..(Len(q) - 1) /\ i + 1 \in DOMAIN q
    BY <1>1, <1>3
  <2>2. \A j \in 1..(i + 1) : q[j].userId # user
    BY <1>5, <2>1 DEF ReachedIn
  <2>3. \A j \in 1..i : r[j].userId # user
    BY <1>1, <1>2, <2>1, <2>2
  <2> QED BY <2>3 DEF ReachedIn
<1> QED BY <1>4, <1>5 DEF ReachedIn

(* When the order on top is filled completely, all that was in reach of    *)
(* the taker, that order apart, still is.                                  *)
LEMMA ReachKept ==
  ASSUME NEW b, BookWellFormed(b), NEW o \in Order,
         NEW p0, IsBest(b, Opposite(o.side), p0),
         NEW x, x = QueueAt(b, Opposite(o.side), p0)[1], x.userId # o.userId,
         NEW c, c = Unlink(b, Opposite(o.side), p0, 1),
         NEW r \in Reachable(b, o), r # x
  PROVE  r \in Reachable(c, o)
<1> DEFINE opp  == Opposite(o.side)
           user == o.userId
           q0   == QueueAt(b, opp, p0)
           r0   == RemoveAt(q0, 1)
<1>1. opp \in Sides /\ p0 \in PricesOn(b, opp) /\ BookTypeOK(b)
  BY DEF Opposite, Sides, Order, IsBest, BookWellFormed
<1>2. /\ q0 \in Seq(Order) /\ q0 # << >> /\ 1 \in DOMAIN q0 /\ q0[1] = x
      /\ r0 \in Seq(Order)
  <2>1. q0 \in Seq(Order) /\ q0 # << >> /\ InOrder(q0)
    BY <1>1, LevelTypes, LevelFacts DEF LevelOK, BookWellFormed
  <2>2. 1 \in DOMAIN q0
    <3> HIDE DEF q0
    <3> QED BY <2>1, QueueTypes
  <2> QED BY <2>1, <2>2, QueueRemoval
<1>3. /\ OnlyLevel(b, c, opp, p0)
      /\ LevelShrinks(b, c, opp, p0, r0, x.remaining)
  <2>1. opp \in Sides /\ 1 \in DOMAIN QueueAt(b, opp, p0)
    BY <1>1, <1>2
  <2>2. /\ OnlyLevel(b, Unlink(b, opp, p0, 1), opp, p0)
        /\ LevelShrinks(b, Unlink(b, opp, p0, 1), opp, p0,
                        RemoveAt(QueueAt(b, opp, p0), 1), QueueAt(b, opp, p0)[1].remaining)
    <3> HIDE DEF opp
    <3> QED BY <1>1, <2>1, UnlinkLevel
  <2> QED BY <2>2
<1>4. /\ \A i \in ReachedIn(q0, user) : i # 1 => \E j \in ReachedIn(r0, user) : r0[j] = q0[i]
      /\ ReachedIn(q0, user) = DOMAIN q0 => ReachedIn(r0, user) = DOMAIN r0
  <2> HIDE DEF q0
  <2> QED BY <1>2, QueueShorter
<1>5. PricesOn(c, opp) \subseteq PricesOn(b, opp) /\ PricesOn(b, opp) \subseteq Nat
  BY <1>1, <1>2, UnlinkWellFormed, LevelTypes
<1>6. PICK p : /\ OpenPrice(b, o, p)
               /\ \E i \in ReachedIn(QueueAt(b, opp, p), user) : r = QueueAt(b, opp, p)[i]
  BY ReachableOrders
<1>7. \A q : q # p0 =>
        /\ q \in PricesOn(c, opp) <=> q \in PricesOn(b, opp)
        /\ q \in PricesOn(b, opp) => QueueAt(c, opp, q) = QueueAt(b, opp, q)
  <2> HIDE DEF opp, r0
  <2> SUFFICES ASSUME NEW q, q # p0
               PROVE  /\ q \in PricesOn(c, opp) <=> q \in PricesOn(b, opp)
                      /\ q \in PricesOn(b, opp) => QueueAt(c, opp, q) = QueueAt(b, opp, q)
    OBVIOUS
  <2>1. At(opp, q) # At(opp, p0)
    BY AtProperties
  <2> QED BY <1>1, <1>3, <2>1 DEF OnlyLevel, QueueAt
<1>8. p0 \in PricesOn(c, opp) => QueueAt(c, opp, p0) = r0
  BY <1>3 DEF LevelShrinks
<1> SUFFICES /\ OpenPrice(c, o, p)
             /\ \E j \in ReachedIn(QueueAt(c, opp, p), user) : r = QueueAt(c, opp, p)[j]
  BY ReachableOrders
<1>9. /\ p \in PricesOn(b, opp) /\ Matches(o, p)
      /\ \A q \in PricesOn(b, opp) : Better(opp, q, p) => Passed(b, opp, user, q)
  BY <1>6 DEF OpenPrice
<1>10. ASSUME p \in PricesOn(c, opp)
       PROVE  OpenPrice(c, o, p)
  <2> SUFFICES ASSUME NEW q \in PricesOn(c, opp), Better(opp, q, p)
               PROVE  Passed(c, opp, user, q)
    BY <1>9, <1>10 DEF OpenPrice
  <2>1. Passed(b, opp, user, q)
    BY <1>5, <1>9
  <2>2. CASE q = p0
    BY <1>4, <1>8, <2>1, <2>2 DEF Passed
  <2>3. CASE q # p0
    BY <1>5, <1>7, <2>1, <2>3 DEF Passed
  <2> QED BY <2>2, <2>3
<1>11. CASE p = p0
  <2>1. PICK i \in ReachedIn(q0, user) : r = q0[i]
    BY <1>6, <1>11
  <2>2. i # 1
    BY <1>2, <2>1
  <2>3. PICK j \in ReachedIn(r0, user) : r0[j] = r
    BY <1>4, <2>1, <2>2
  <2>4. r0 # << >>
    <3> HIDE DEF r0
    <3>1. j \in DOMAIN r0
      BY <2>3 DEF ReachedIn
    <3> QED BY <1>2, <3>1, QueueSet
  <2>5. p0 \in PricesOn(c, opp)
    BY <1>3, <2>4 DEF LevelShrinks
  <2> QED BY <1>8, <1>10, <1>11, <2>3, <2>5
<1>12. CASE p # p0
  BY <1>6, <1>7, <1>9, <1>10, <1>12
<1> QED BY <1>11, <1>12

(* What is in reach after the top order was filled completely is worth at  *)
(* least what was in reach before, less that fill.                         *)
LEMMA ReachWorth ==
  ASSUME NEW b, BookWellFormed(b), NEW o \in Order,
         IsFiniteSet(PricesOn(b, Opposite(o.side))),
         NEW p0, IsBest(b, Opposite(o.side), p0),
         NEW x, x = QueueAt(b, Opposite(o.side), p0)[1], x.userId # o.userId,
         NEW c, c = Unlink(b, Opposite(o.side), p0, 1)
  PROVE  QtyOf(Reachable(c, o)) >= QtyOf(Reachable(b, o)) - x.remaining
<1> DEFINE opp == Opposite(o.side)
           B == Reachable(b, o)
           C == Reachable(c, o)
<1>1. /\ opp \in Sides /\ p0 \in PricesOn(b, opp) /\ 1 \in DOMAIN QueueAt(b, opp, p0)
      /\ x \in Order /\ x.remaining \in Nat
  <2> DEFINE q == QueueAt(b, opp, p0)
  <2>1. opp \in Sides /\ p0 \in PricesOn(b, opp)
    BY DEF Opposite, Sides, Order, IsBest
  <2>2. q \in Seq(Order) /\ q # << >> /\ x = q[1]
    BY <2>1, LevelTypes, LevelFacts DEF LevelOK, BookWellFormed
  <2> HIDE DEF q
  <2>3. 1 \in DOMAIN q /\ q[1] \in Order /\ q[1].remaining \in Nat
    BY <2>2, QueueTypes
  <2> QED BY <2>1, <2>2, <2>3 DEF q
<1>2. B \in SUBSET Order /\ IsFiniteSet(B)
  BY ReachableFinite
<1>3. C \in SUBSET Order /\ IsFiniteSet(C)
  <2>1. BookWellFormed(c) /\ PricesOn(c, opp) \subseteq PricesOn(b, opp)
    BY <1>1, UnlinkWellFormed
  <2>2. IsFiniteSet(PricesOn(c, opp))
    BY <2>1, FS_Subset
  <2> QED BY <2>1, <2>2, ReachableFinite
<1>4. B \ {x} \subseteq C
  BY ReachKept
<1> HIDE DEF B, C
<1>5. QtyOf(C) \in Nat /\ QtyOf(B \ {x}) <= QtyOf(C) /\ QtyOf(B) \in Nat
  BY <1>2, <1>3, <1>4, QtyLaws
<1>6. CASE x \in B
  <2>1. QtyOf(B) = x.remaining + QtyOf(B \ {x})
    BY <1>2, <1>6, QtyLaws
  <2>2. QtyOf(B \ {x}) \in Nat
    <3>1. B \ {x} \in SUBSET Order /\ IsFiniteSet(B \ {x})
      BY <1>2, FS_Subset
    <3> HIDE DEF B
    <3> QED BY <3>1, QtyLaws
  <2> QED BY <1>1, <1>5, <2>1, <2>2 DEF B, C
<1>7. CASE x \notin B
  <2>1. B \ {x} = B
    BY <1>7
  <2>2. QtyOf(C) \in Nat /\ QtyOf(B) \in Nat /\ QtyOf(B) <= QtyOf(C)
    BY <1>5, <2>1
  <2>3. x.remaining \in Nat
    BY <1>1
  <2> DEFINE m == x.remaining
             u == QtyOf(B)
             v == QtyOf(C)
  <2>4. v >= u - m
    <3> HIDE DEF m, u, v
    <3>1. m \in Nat /\ u \in Nat /\ v \in Nat /\ u <= v
      BY <2>2, <2>3 DEF m, u, v
    <3> QED BY <3>1
  <2> QED BY <2>4 DEF B, C
<1> QED BY <1>6, <1>7

(* A book has finitely many levels.                                        *)
BookFinite == \A s \in Sides : IsFiniteSet(PricesOn(book, s))

LEMMA FiniteInvariance == Spec => []BookFinite
<1>1. Init => BookFinite
  BY EmptyBookWellFormed, FS_EmptySet DEF Init, BookFinite
<1>2. IInv /\ BookFinite /\ [Next]_vars => BookFinite'
  <2> SUFFICES ASSUME IInv, BookFinite, [Next]_vars
               PROVE  BookFinite'
    OBVIOUS
  <2>1. CASE book' = book
    BY <2>1 DEF BookFinite
  <2>2. CASE \A s \in Sides : PricesOn(book', s) \subseteq PricesOn(book, s)
    BY <2>2, FS_Subset DEF BookFinite
  <2>3. CASE order # NoOrder /\ Match
    <3>1. PICK p, maker, fillQty : Traded(p, maker, fillQty)
      BY <2>3, TradeMade
    <3> DEFINE opp == Opposite(order.side)
    <3>2. /\ opp \in Sides /\ IsBest(book, opp, p)
          /\ maker = Head(QueueAt(book, opp, p))
          /\ fillQty \in Nat /\ fillQty <= maker.remaining
          /\ book' = ReduceTopOrder(book, opp, fillQty)
      BY <3>1 DEF Traded
    <3>3. BookWellFormed(book)
      BY DEF IInv
    <3> HIDE DEF opp
    <3> QED BY <2>2, <3>2, <3>3, ReduceTopWellFormed
  <2>4. CASE order # NoOrder /\ RestRemainder
    <3>1. /\ order \in Order /\ \A id : IsResting(book, id) => id < order.orderId
          /\ BookWellFormed(book) /\ order.remaining > 0 /\ book' = Rest(book, order)
      BY <2>4 DEF IInv, TypeOK, IdsOld, RestRemainder, NothingCrosses
    <3>2. /\ PricesOn(book', order.side) = PricesOn(book, order.side) \cup {order.price}
          /\ \A s \in Sides \ {order.side} : PricesOn(book', s) = PricesOn(book, s)
      BY <3>1, RestWellFormed
    <3>3. IsFiniteSet(PricesOn(book, order.side) \cup {order.price})
      BY <3>1, FS_AddElement DEF BookFinite, Order
    <3> QED BY <3>2, <3>3 DEF BookFinite
  <2>5. ASSUME NEW user, NEW id, CancelHit(user, id)
        PROVE  BookFinite'
    <3>1. BookWellFormed(book) /\ IsResting(book, id) /\ book' = CancelOrder(book, id)
      BY <2>5 DEF IInv, CancelHit
    <3> QED BY <2>2, <3>1, CancelWellFormed
  <2>6. CASE MatchLoop
    BY <2>1, <2>3, <2>4, <2>6
    DEF MatchLoop, StopOnSelfTrade, CancelRemainder, KillRemainder, Filled
  <2>7. ASSUME NEW cmd \in Command, Submit(cmd) PROVE book' = book
    BY <2>7 DEF Submit, RejectInvalid, RejectDuplicate, RejectPrecheck, Accept
  <2>8. ASSUME NEW user \in Users, NEW id \in 1..MaxOrders, Cancel(user, id)
        PROVE  BookFinite'
    BY <2>1, <2>5, <2>8 DEF Cancel, CancelMiss
  <2> QED BY <2>1, <2>6, <2>7, <2>8 DEF Next, vars
<1> QED BY <1>1, <1>2, Invariance, PTL DEF Spec

(* A trade of a FOK order leaves enough in reach for the rest of it.       *)
LEMMA PromiseAfterTrade ==
  ASSUME IInv, BookFinite, FOKPromiseKept, order # NoOrder, Match
  PROVE  FOKPromiseKept'
<1>1. PICK p, maker, fillQty : Traded(p, maker, fillQty)
  BY TradeMade
<1> DEFINE opp == Opposite(order.side)
<1>2. /\ order \in Order /\ opp \in Sides /\ IsBest(book, opp, p)
      /\ maker = Head(QueueAt(book, opp, p)) /\ maker.userId # order.userId
      /\ fillQty \in Nat /\ fillQty <= maker.remaining /\ fillQty <= order.remaining
      /\ fillQty = order.remaining \/ fillQty = maker.remaining
      /\ book' = ReduceTopOrder(book, opp, fillQty)
      /\ order' = [order EXCEPT !.remaining = order.remaining - fillQty]
      /\ maker \in Order
  BY <1>1 DEF Traded
<1>3. /\ order.remaining \in Nat /\ maker.remaining \in Nat
      /\ BookWellFormed(book) /\ IsFiniteSet(PricesOn(book, opp))
  BY <1>2 DEF Order, IInv, BookFinite
<1>4. /\ SameTerms(order, order') /\ order'.remaining = order.remaining - fillQty
      /\ order'.type = order.type /\ order' \in Order
  <2>1. order.remaining - fillQty \in Nat
    BY <1>2, <1>3
  <2> QED BY <1>2, <2>1 DEF Order, SameTerms
<1>5. Reachable(book', order') = Reachable(book', order)
  BY <1>4, ReachableBySameTerms
<1> SUFFICES ASSUME order.type = "FOK"
             PROVE  QtyOf(Reachable(book', order)) >= order.remaining - fillQty
  BY <1>4, <1>5 DEF FOKPromiseKept, FullyFillable
<1>6. BookWellFormed(book') /\ PricesOn(book', opp) \subseteq PricesOn(book, opp)
  <2> HIDE DEF opp
  <2> QED BY <1>2, <1>3, ReduceTopWellFormed
<1>7. QtyOf(Reachable(book', order)) \in Nat /\ QtyOf(Reachable(book, order)) \in Nat
  <2>1. IsFiniteSet(PricesOn(book', opp))
    BY <1>3, <1>6, FS_Subset
  <2>2. /\ Reachable(book', order) \in SUBSET Order /\ IsFiniteSet(Reachable(book', order))
        /\ Reachable(book, order) \in SUBSET Order /\ IsFiniteSet(Reachable(book, order))
    BY <1>2, <1>3, <1>6, <2>1, ReachableFinite
  <2> QED BY <2>2, QtyLaws
<1>8. CASE fillQty = order.remaining
  BY <1>3, <1>7, <1>8
<1>9. CASE fillQty = maker.remaining
  <2> DEFINE q == QueueAt(book, opp, p)
  <2>1. BestPrice(book, opp) = p /\ p \in PricesOn(book, opp)
    BY <1>2, <1>3, BestPriceUnique DEF BookWellFormed, IsBest
  <2>2. book' = Unlink(book, opp, p, 1)
    BY <1>2, <1>9, <2>1 DEF ReduceTopOrder, PeekTopOrder
  <2>3. maker = QueueAt(book, opp, p)[1]
    <3>1. q \in Seq(Order) /\ q # << >> /\ maker = Head(q)
      BY <1>2, <1>3, <2>1, LevelTypes, LevelFacts DEF LevelOK, BookWellFormed
    <3> HIDE DEF q
    <3>2. maker = q[1]
      BY <3>1, QueueTypes
    <3> QED BY <3>2 DEF q
  <2>4. QtyOf(Reachable(book', order)) >= QtyOf(Reachable(book, order)) - maker.remaining
    BY <1>2, <1>3, <2>2, <2>3, ReachWorth
  <2>5. QtyOf(Reachable(book, order)) >= order.remaining
    BY DEF FOKPromiseKept, FullyFillable
  <2> DEFINE m == maker.remaining
             t == order.remaining
             x == QtyOf(Reachable(book, order))
             y == QtyOf(Reachable(book', order))
  <2>6. m \in Nat /\ t \in Nat /\ x \in Nat /\ y \in Nat /\ y >= x - m /\ x >= t
    BY <1>3, <1>7, <2>4, <2>5
  <2>7. y >= t - m
    <3> HIDE DEF m, t, x, y
    <3> QED BY <2>6
  <2> QED BY <1>9, <2>7
<1> QED BY <1>2, <1>8, <1>9

LEMMA PromiseInvariance == Spec => [](IInv /\ BookFinite /\ FOKPromiseKept)
<1>1. Init => FOKPromiseKept
  BY DEF Init, FOKPromiseKept
<1>2. IInv /\ BookFinite /\ FOKPromiseKept /\ [Next]_vars => FOKPromiseKept'
  <2> SUFFICES ASSUME IInv, BookFinite, FOKPromiseKept, [Next]_vars
               PROVE  FOKPromiseKept'
    OBVIOUS
  <2>1. CASE order' = NoOrder
    BY <2>1 DEF FOKPromiseKept
  <2>2. CASE UNCHANGED <<book, order>>
    BY <2>2 DEF FOKPromiseKept
  <2>3. CASE MatchLoop
    BY <2>1, <2>3, PromiseAfterTrade
    DEF MatchLoop, StopOnSelfTrade, RestRemainder, CancelRemainder, KillRemainder, Filled
  <2>4. ASSUME NEW cmd \in Command, Submit(cmd) PROVE FOKPromiseKept'
    <3>1. CASE Accept(cmd)
      <4> DEFINE o == NewOrder(cmd)
      <4>1. order' = o /\ book' = book /\ Precheck(o) = "pass"
        BY <3>1 DEF Accept
      <4>2. o.remaining = o.qty
        BY DEF NewOrder
      <4> HIDE DEF o
      <4>3. o.type = "FOK" => FullyFillable(book, o, o.qty)
        BY <4>1 DEF Precheck
      <4> QED BY <4>1, <4>2, <4>3 DEF FOKPromiseKept
    <3> QED BY <2>2, <2>4, <3>1 DEF Submit, RejectInvalid, RejectDuplicate, RejectPrecheck
  <2>5. ASSUME NEW user \in Users, NEW id \in 1..MaxOrders, Cancel(user, id)
        PROVE  FOKPromiseKept'
    BY <2>1, <2>5 DEF Cancel, CancelHit, CancelMiss, Idle
  <2> QED BY <2>2, <2>3, <2>4, <2>5 DEF Next, vars
<1> QED BY <1>1, <1>2, Invariance, FiniteInvariance, PTL DEF Spec

(* What the pre-check of a FOK order found stays true through the loop:    *)
(* what it can still trade with covers what it still wants                 *)
(* (matcher.ts:98-133, 136-175).                                           *)
THEOREM FOKPromiseHolds == Spec => []FOKPromiseKept
<1>1. IInv /\ BookFinite /\ FOKPromiseKept => FOKPromiseKept
  OBVIOUS
<1> QED BY <1>1, PromiseInvariance, PTL

(* A FOK order is never left over: as long as it wants more there is an    *)
(* order to trade with, whose price it allows and which is not its own     *)
(* user's.  So neither the self-trade stop nor the throw behind the loop   *)
(* (matcher.ts:190-200), which would lose the trades made, is ever reached.*)
THEOREM FOKNeverLeftOver ==
  Spec => [](order # NoOrder /\ order.type = "FOK" /\ order.remaining > 0 =>
               /\ ~NothingCrosses
               /\ \A p : Matchable(p) => TopAt(p).userId # order.userId)
<1>1. ASSUME IInv, BookFinite, FOKPromiseKept,
             order # NoOrder, order.type = "FOK", order.remaining > 0
      PROVE  /\ ~NothingCrosses
             /\ \A p : Matchable(p) => TopAt(p).userId # order.userId
  <2> DEFINE opp == Opposite(order.side)
  <2>1. /\ order \in Order /\ order.remaining \in Nat /\ opp \in Sides /\ BookWellFormed(book)
        /\ PricesOn(book, opp) \subseteq Nat
    BY <1>1, LevelTypes DEF IInv, TypeOK, Order, Opposite, Sides, BookWellFormed
  <2>2. PICK r : r \in Reachable(book, order)
    <3>1. QtyOf(Reachable(book, order)) >= order.remaining
      BY <1>1 DEF FOKPromiseKept, FullyFillable
    <3>2. QtyOf({}) = 0
      <4>1. IsFiniteSet({}) /\ {} \in SUBSET Order
        BY FS_EmptySet
      <4> QED BY <4>1, QtyLaws
    <3>3. Reachable(book, order) # {}
      BY <1>1, <2>1, <3>1, <3>2
    <3> QED BY <3>3
  <2>3. PICK p1 : /\ OpenPrice(book, order, p1)
                  /\ \E i \in ReachedIn(QueueAt(book, opp, p1), order.userId) :
                       r = QueueAt(book, opp, p1)[i]
    BY <2>2, ReachableOrders
  <2>4. p1 \in PricesOn(book, opp) /\ Matches(order, p1)
    BY <2>3 DEF OpenPrice
  <2>5. ASSUME NEW p, IsBest(book, opp, p)
        PROVE  Matches(order, p) /\ TopAt(p).userId # order.userId
    <3> DEFINE q == QueueAt(book, opp, p)
    <3>1. p = p1 \/ Better(opp, p, p1)
      BY <2>4, <2>5 DEF IsBest
    <3>3. p \in PricesOn(book, opp)
      BY <2>5 DEF IsBest
    <3>2. Matches(order, p)
      <4>1. order.side \in Sides /\ order.price \in Nat /\ p \in Nat /\ p1 \in Nat
        BY <2>1, <2>4, <3>3 DEF Order
      <4>2. Crosses(order.side, order.price, p1)
        BY <1>1, <2>4 DEF Matches
      <4>3. Crosses(order.side, order.price, p)
        BY <3>1, <4>1, <4>2 DEF Crosses, Better, Opposite, Sides
      <4> QED BY <4>3 DEF Matches
    <3>4. q \in Seq(Order) /\ q # << >>
      BY <2>1, <3>3, LevelTypes, LevelFacts DEF BookWellFormed, LevelOK
    <3>5. \E i \in ReachedIn(q, order.userId) : TRUE
      <4>1. CASE p = p1
        BY <2>3, <4>1
      <4>2. CASE Better(opp, p, p1)
        <5>1. ReachedIn(q, order.userId) = DOMAIN q
          BY <2>3, <3>3, <4>2 DEF OpenPrice, Passed
        <5> HIDE DEF q
        <5>2. 1 \in DOMAIN q
          BY <3>4, QueueTypes
        <5> QED BY <5>1, <5>2
      <4> QED BY <3>1, <4>1, <4>2
    <3>6. TopAt(p) = Head(q)
      BY DEF TopAt
    <3> HIDE DEF q
    <3>7. PICK i \in DOMAIN q : \A j \in 1..i : q[j].userId # order.userId
      BY <3>5 DEF ReachedIn
    <3>8. Head(q) = q[1] /\ 1 \in 1..i
      <4>1. Len(q) \in Nat /\ DOMAIN q = 1..Len(q) /\ Head(q) = q[1]
        BY <3>4, QueueTypes
      <4> QED BY <3>7, <4>1
    <3> QED BY <3>2, <3>6, <3>7, <3>8
  <2>6. ~NothingCrosses
    BY <2>4, <2>5 DEF NothingCrosses, HasOrders
  <2> QED BY <2>5, <2>6 DEF Matchable
<1> QED BY <1>1, PromiseInvariance, PTL

-----------------------------------------------------------------------------
(* The steps of the engine, and the event each emits. *)

LEMMA LastEvent ==
  ASSUME NEW S, NEW evs \in Seq(S), NEW ev
  PROVE  Last(Append(evs, ev)) = ev /\ Last(<<ev>>) = ev
<1>1. Len(evs) \in Nat /\ DOMAIN evs = 1..Len(evs)
  BY LenProperties
<1>2. Len(Append(evs, ev)) = Len(evs) + 1 /\ Append(evs, ev)[Len(evs) + 1] = ev
  BY <1>1
<1>3. Len(<<ev>>) = 1 /\ <<ev>>[1] = ev
  OBVIOUS
<1> QED BY <1>2, <1>3 DEF Last

(* The list of the call begins with ev, or is continued by it.             *)
Emitted(ev) == events' = IF order = NoOrder THEN << ev >> ELSE Append(events, ev)

(* No sequence number is assigned: nothing changes, or the order in hand   *)
(* rests or is found to be filled.                                         *)
Silent ==
  /\ seq' = seq
  /\ \/ UNCHANGED <<book, order>>
     \/ /\ order # NoOrder /\ order' = NoOrder
        /\ \/ order.remaining = 0 /\ book' = book
           \/ /\ order.remaining > 0 /\ order.type \in {"LIMIT", "POST_ONLY"}
              /\ book' = Rest(book, order)

(* A command is rejected, before or after it was given an order.           *)
Refused(cmd, reason) ==
  /\ order = NoOrder /\ UNCHANGED <<book, order>>
  /\ seq' = seq + 1 /\ Last(events') = Rejected(seq + 1, cmd, reason)

(* A command is accepted and its order is the one in hand.                 *)
Opened(cmd) ==
  /\ order = NoOrder /\ order' = NewOrder(cmd) /\ book' = book
  /\ cmd.type # "MARKET" => cmd.price > 0
  /\ cmd.qty > 0
  /\ seq' = seq + 1 /\ Last(events') = Accepted(seq + 1, NewOrder(cmd))

(* One fill of the match loop.                                             *)
Sold(p, maker, fillQty) ==
  Traded(p, maker, fillQty) /\ Last(events') = Trade(seq + 1, order, maker, fillQty)

(* What the order in hand has left is canceled.                            *)
Killed(reason) ==
  /\ order # NoOrder /\ order.remaining > 0
  /\ order' = NoOrder /\ book' = book
  /\ seq' = seq + 1 /\ Last(events') = Canceled(seq + 1, order, reason)

(* A resting order is canceled by its user.                                *)
Withdrawn(id) ==
  /\ order = NoOrder /\ order' = NoOrder
  /\ IsResting(book, id) /\ book' = CancelOrder(book, id)
  /\ seq' = seq + 1 /\ Last(events') = Canceled(seq + 1, GetOrder(book, id), "USER")

LEMMA Emits ==
  ASSUME IInv, NEW ev, Emitted(ev)
  PROVE  Last(events') = ev
<1>1. events \in Seq(Event)
  BY DEF IInv, TypeOK
<1> QED BY <1>1, LastEvent DEF Emitted

LEMMA SubmitSteps ==
  ASSUME IInv, NEW cmd \in Command, Submit(cmd)
  PROVE  /\ order = NoOrder
         /\ \/ \E reason : /\ Refused(cmd, reason)
                           /\ Emitted(Rejected(seq + 1, cmd, reason))
            \/ Opened(cmd) /\ Emitted(Accepted(seq + 1, NewOrder(cmd)))
<1>1. ASSUME NEW reason, order = NoOrder, UNCHANGED <<book, order>>, seq' = seq + 1,
             events' = << Rejected(seq', cmd, reason) >>
      PROVE  Refused(cmd, reason) /\ Emitted(Rejected(seq + 1, cmd, reason))
  <2>1. Emitted(Rejected(seq + 1, cmd, reason))
    BY <1>1 DEF Emitted
  <2> QED BY <1>1, <2>1, Emits DEF Refused
<1>2. CASE RejectInvalid(cmd)
  BY <1>1, <1>2 DEF RejectInvalid, Idle
<1>3. CASE RejectDuplicate(cmd)
  BY <1>1, <1>3 DEF RejectDuplicate, Idle
<1>4. CASE RejectPrecheck(cmd)
  BY <1>1, <1>4 DEF RejectPrecheck, Idle
<1>5. CASE Accept(cmd)
  <2>1. cmd.qty \in Nat /\ cmd.price \in Nat /\ Invalid(cmd) = "valid"
    BY <1>5, ConstantsAssumption DEF Accept, Command
  <2>2. cmd.qty > 0 /\ (cmd.type # "MARKET" => cmd.price > 0)
    BY <2>1 DEF Invalid
  <2>3. Emitted(Accepted(seq + 1, NewOrder(cmd)))
    BY <1>5 DEF Accept, Idle, Emitted
  <2> QED BY <1>5, <2>2, <2>3, Emits DEF Accept, Opened, Idle
<1> QED BY <1>2, <1>3, <1>4, <1>5 DEF Submit

LEMMA LoopSteps ==
  ASSUME IInv, MatchLoop
  PROVE  /\ order # NoOrder
         /\ \/ Silent /\ order' = NoOrder /\ events' = events
            \/ \E p, maker, fillQty : /\ Sold(p, maker, fillQty)
                                      /\ Emitted(Trade(seq + 1, order, maker, fillQty))
            \/ \E reason \in CancelReasons : /\ Killed(reason)
                                             /\ Emitted(Canceled(seq + 1, order, reason))
<1>1. order # NoOrder
  BY DEF MatchLoop
<1>2. CASE Match
  <2>1. PICK p, maker, fillQty : Traded(p, maker, fillQty)
    BY <1>1, <1>2, TradeMade
  <2>2. Emitted(Trade(seq + 1, order, maker, fillQty))
    BY <1>1, <2>1 DEF Traded, Emitted
  <2>3. Sold(p, maker, fillQty)
    BY <2>1, <2>2, Emits DEF Sold
  <2> QED BY <1>1, <2>2, <2>3
<1>3. ASSUME NEW reason \in CancelReasons, KillRemainder(reason), order.remaining > 0
      PROVE  Killed(reason) /\ Emitted(Canceled(seq + 1, order, reason))
  <2>1. Emitted(Canceled(seq + 1, order, reason))
    BY <1>1, <1>3 DEF KillRemainder, Emitted
  <2> QED BY <1>1, <1>3, <2>1, Emits DEF KillRemainder, Killed
<1>4. CASE StopOnSelfTrade
  BY <1>1, <1>3, <1>4 DEF StopOnSelfTrade, Matchable, CancelReasons
<1>5. CASE RestRemainder
  BY <1>1, <1>5 DEF RestRemainder, NothingCrosses, Silent
<1>6. CASE CancelRemainder
  BY <1>1, <1>3, <1>6 DEF CancelRemainder, NothingCrosses, CancelReasons
<1>7. CASE Filled
  BY <1>1, <1>7 DEF Filled, Silent
<1> QED BY <1>2, <1>4, <1>5, <1>6, <1>7 DEF MatchLoop

LEMMA CancelSteps ==
  ASSUME IInv, NEW user, NEW id, Cancel(user, id)
  PROVE  /\ order = NoOrder /\ order' = NoOrder
         /\ \/ Silent /\ UNCHANGED book /\ events' = << >>
            \/ Withdrawn(id) /\ Emitted(Canceled(seq + 1, GetOrder(book, id), "USER"))
<1>1. CASE CancelHit(user, id)
  <2>1. Emitted(Canceled(seq + 1, GetOrder(book, id), "USER"))
    BY <1>1 DEF CancelHit, Idle, Emitted
  <2> QED BY <1>1, <2>1, Emits DEF CancelHit, Withdrawn, Idle
<1>2. CASE CancelMiss(user, id)
  BY <1>2 DEF CancelMiss, Silent, Idle
<1> QED BY <1>1, <1>2 DEF Cancel

LEMMA EngineSteps ==
  ASSUME IInv, [Next]_vars
  PROVE  \/ Silent
         \/ \E cmd \in Command : \E reason : Refused(cmd, reason)
         \/ \E cmd \in Command : Opened(cmd)
         \/ order # NoOrder /\ \E p, maker, fillQty : Sold(p, maker, fillQty)
         \/ \E reason \in CancelReasons : Killed(reason)
         \/ \E id : Withdrawn(id)
<1>1. CASE UNCHANGED vars
  BY <1>1 DEF vars, Silent
<1>2. ASSUME NEW cmd \in Command, Submit(cmd)
      PROVE  (\E reason : Refused(cmd, reason)) \/ Opened(cmd)
  BY <1>2, SubmitSteps
<1>3. CASE MatchLoop
  BY <1>3, LoopSteps
<1>4. ASSUME NEW user \in Users, NEW id \in 1..MaxOrders, Cancel(user, id)
      PROVE  Silent \/ Withdrawn(id)
  BY <1>4, CancelSteps
<1> QED BY <1>1, <1>2, <1>3, <1>4 DEF Next
==============================================================================
