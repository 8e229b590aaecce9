--------------------------- MODULE ExchangeProofs ----------------------------
(***************************************************************************)
(* Proofs about Exchange, for every set of users and requests, every price, *)
(* quantity, fee and endowment, and every length of the stream.            *)
(*                                                                         *)
(* The live ledger took its locks from the gateway and what it paid from the *)
(* stream, at a pace of its own.  The invariant compares it with the accounts *)
(* that the events it has applied add up to, when each acceptance locks for *)
(* its order instead: the live ledger has locked besides what is pending,  *)
(* which is what the orders accepted since will lock, what requests hold   *)
(* that the engine has not accepted, and what broken requests have lost.  As *)
(* those accounts have it free, each event the ledger applies next is      *)
(* payable in both, and the difference stays what is pending.              *)
(*                                                                         *)
(* The stream lags behind the engine too: the events of a call enter it one *)
(* by one, and a cancel enters it at once.  So the orders that are open    *)
(* where the stream ends are not those of the book.  The accounts owe to   *)
(* the former; the events that still wait in the append loops lead from    *)
(* these to the latter.  A cancel releases what the fills that wait have   *)
(* left of its order, and such a fill, when it comes, is paid for by what  *)
(* is still locked.                                                        *)
(*                                                                         *)
(* No order is of the type MARKET here: the gateway reserves for such an   *)
(* order at a price it does not trade at, and the run exchange_market shows *)
(* that the properties fail with it.                                       *)
(***************************************************************************)
EXTENDS Exchange, MatcherProofs, LedgerTheorems

-----------------------------------------------------------------------------
(* The open orders of the engine. *)

AllResting(b) == RestingOn(b, "buy") \cup RestingOn(b, "sell")

InHand(o) == IF o # NoOrder /\ o.remaining > 0 THEN {o} ELSE {}

Alive == AllResting(book) \cup InHand(order)

LEMMA RestingById ==
  ASSUME NEW b, BookWellFormed(b), NEW r
  PROVE  /\ r \in AllResting(b) <=> IsResting(b, r.orderId) /\ GetOrder(b, r.orderId) = r
         /\ \A s \in Sides : r \in RestingOn(b, s) <=> r \in AllResting(b) /\ r.side = s
<1>1. ASSUME NEW s \in Sides
      PROVE  r \in RestingOn(b, s) <=>
               \E p \in PricesOn(b, s) : \E i \in DOMAIN QueueAt(b, s, p) : r = QueueAt(b, s, p)[i]
  BY DEF RestingOn, ToSet
<1>2. ASSUME NEW s \in Sides, r \in RestingOn(b, s)
      PROVE  IsResting(b, r.orderId) /\ GetOrder(b, r.orderId) = r /\ r.side = s
  <2>1. PICK p \in PricesOn(b, s) : \E i \in DOMAIN QueueAt(b, s, p) : r = QueueAt(b, s, p)[i]
    BY <1>1, <1>2
  <2>2. PICK i \in DOMAIN QueueAt(b, s, p) : r = QueueAt(b, s, p)[i]
    BY <2>1
  <2>3. IsResting(b, r.orderId) /\ GetOrder(b, r.orderId) = r
    BY <2>2, OrderFound
  <2>4. r.side = s
    BY <1>2, RestingIndexed
  <2> QED BY <2>3, <2>4
<1>3. ASSUME IsResting(b, r.orderId), GetOrder(b, r.orderId) = r
      PROVE  r.side \in Sides /\ r \in RestingOn(b, r.side)
  <2>1. PICK s \in Sides : \E p \in PricesOn(b, s) : \E i \in DOMAIN QueueAt(b, s, p) :
          QueueAt(b, s, p)[i] = GetOrder(b, r.orderId) /\ GetOrder(b, r.orderId).side = s
    BY <1>3, OrderPlace
  <2>2. r.side = s /\ r \in RestingOn(b, s)
    BY <1>1, <1>3, <2>1
  <2> QED BY <2>2
<1>4. r \in AllResting(b) <=> \E s \in Sides : r \in RestingOn(b, s)
  BY DEF AllResting, Sides
<1> QED BY <1>2, <1>3, <1>4

LEMMA AliveFacts ==
  ASSUME IInv
  PROVE  /\ BookWellFormed(book) /\ seq \in Nat /\ nextId \in Nat
         /\ order # NoOrder => order \in Order /\ ~IsResting(book, order.orderId)
         /\ \A r \in AllResting(book) : r.orderId < nextId /\ r.remaining > 0
         /\ order # NoOrder => order \notin AllResting(book)
<1>1. /\ BookWellFormed(book) /\ seq \in Nat /\ nextId \in Nat
      /\ order \in Order \cup {NoOrder} /\ IdsOld
  BY DEF IInv, TypeOK
<1>2. ASSUME order # NoOrder
      PROVE  order \in Order /\ ~IsResting(book, order.orderId)
  <2>1. order \in Order /\ order.orderId \in Nat
    BY <1>1, <1>2, OrderTerms
  <2>2. IsResting(book, order.orderId) => order.orderId < order.orderId
    BY <1>1, <1>2 DEF IdsOld
  <2> QED BY <2>1, <2>2
<1>3. ASSUME NEW r \in AllResting(book)
      PROVE  r.orderId < nextId /\ r.remaining > 0
  <2>1. IsResting(book, r.orderId) /\ GetOrder(book, r.orderId) = r
    BY <1>1, RestingById
  <2>2. GetOrder(book, r.orderId).remaining > 0
    BY <1>1, <2>1, OrderPlace
  <2> QED BY <1>1, <2>1, <2>2 DEF IdsOld
<1>4. order # NoOrder => order \notin AllResting(book)
  BY <1>1, <1>2, RestingById
<1> QED BY <1>1, <1>2, <1>3, <1>4

LEMMA AliveRests ==
  ASSUME IInv, TotalsExact(book), order # NoOrder, order.remaining > 0
  PROVE  AllResting(Rest(book, order)) = AllResting(book) \cup {order}
<1> DEFINE c == Rest(book, order)
<1>1. BookWellFormed(book) /\ order \in Order /\ \A id : IsResting(book, id) => id < order.orderId
  BY AliveFacts DEF IInv, IdsOld
<1>2. /\ BookWellFormed(c)
      /\ \A id : IsResting(c, id) <=> IsResting(book, id) \/ id = order.orderId
  BY <1>1, RestWellFormed
<1>3. /\ GetOrder(c, order.orderId) = order
      /\ \A id : IsResting(book, id) => GetOrder(c, id) = GetOrder(book, id)
  BY <1>1, RestQuantities
<1> HIDE DEF c
<1>4. ASSUME NEW r
      PROVE  r \in AllResting(c) <=> r \in AllResting(book) \cup {order}
  <2>1. r \in AllResting(c) <=> IsResting(c, r.orderId) /\ GetOrder(c, r.orderId) = r
    BY <1>2, RestingById
  <2>2. r \in AllResting(book) <=> IsResting(book, r.orderId) /\ GetOrder(book, r.orderId) = r
    BY <1>1, RestingById
  <2>3. ~IsResting(book, order.orderId)
    BY AliveFacts
  <2> QED BY <1>2, <1>3, <2>1, <2>2, <2>3
<1>5. AllResting(c) = AllResting(book) \cup {order}
  BY <1>4
<1> QED BY <1>5 DEF c

LEMMA AliveSilent ==
  ASSUME IInv, TotalsExact(book), Silent
  PROVE  Alive' = Alive
<1>1. CASE UNCHANGED <<book, order>>
  BY <1>1 DEF Alive
<1>2. CASE order # NoOrder /\ order' = NoOrder /\ order.remaining = 0 /\ book' = book
  BY <1>2 DEF Alive, InHand
<1>3. CASE order # NoOrder /\ order' = NoOrder /\ order.remaining > 0 /\ book' = Rest(book, order)
  <2>1. AllResting(book') = AllResting(book) \cup {order}
    BY <1>3, AliveRests
  <2> QED BY <1>3, <2>1 DEF Alive, InHand
<1> QED BY <1>1, <1>2, <1>3 DEF Silent

LEMMA AliveOpened ==
  ASSUME IInv, "MARKET" \notin Types, NEW cmd \in Command, Opened(cmd)
  PROVE  Added(Alive, Accepted(seq + 1, NewOrder(cmd)), Alive')
<1> DEFINE o == NewOrder(cmd)  ev == Accepted(seq + 1, o)
<1>1. o \in Order /\ o.orderId = nextId
  BY AliveFacts, NewOrderType
<1>2. o.qty > 0 /\ o.remaining = o.qty /\ o.type # "MARKET"
  BY DEF NewOrder, Opened, Command
<1>3. ev.kind = "OrderAccepted" /\ ev.order = o
  BY DEF Accepted
<1>4. book' = book /\ order' = o /\ order = NoOrder
  BY DEF Opened
<1> HIDE DEF o, ev
<1>5. Alive = AllResting(book) /\ Alive' = AllResting(book) \cup {o}
  <2>1. o # NoOrder
    BY <1>1, NoOrderAssumption
  <2> QED BY <1>2, <1>4, <2>1 DEF Alive, InHand
<1>6. \A r \in Alive : r.orderId # o.orderId
  <2> SUFFICES ASSUME NEW r \in AllResting(book) PROVE r.orderId # nextId
    BY <1>1, <1>5
  <2>1. r.orderId < nextId /\ nextId \in Nat
    BY AliveFacts
  <2> QED BY <2>1
<1>7. Added(Alive, ev, Alive')
  BY <1>1, <1>2, <1>3, <1>5, <1>6 DEF Added
<1> QED BY <1>7 DEF o, ev

LEMMA AliveKilled ==
  ASSUME IInv, NEW reason, Killed(reason)
  PROVE  Removed(Alive, Canceled(seq + 1, order, reason), Alive', order)
<1>1. order # NoOrder /\ order.remaining > 0 /\ order' = NoOrder /\ book' = book
  BY DEF Killed
<1>2. order \notin AllResting(book)
  BY <1>1, AliveFacts
<1>3. Alive' = Alive \ {order} /\ order \in Alive
  BY <1>1, <1>2 DEF Alive, InHand
<1> QED BY <1>3 DEF Removed, Canceled

LEMMA AliveWithdrawn ==
  ASSUME IInv, TotalsExact(book), NEW id, Withdrawn(id)
  PROVE  Removed(Alive, Canceled(seq + 1, GetOrder(book, id), "USER"), Alive', GetOrder(book, id))
<1> DEFINE c == CancelOrder(book, id)  x == GetOrder(book, id)
<1>1. /\ order = NoOrder /\ order' = NoOrder /\ IsResting(book, id) /\ book' = c
      /\ BookWellFormed(book)
  BY AliveFacts DEF Withdrawn
<1>2. BookWellFormed(c) /\ \A y : IsResting(c, y) <=> IsResting(book, y) /\ y # id
  BY <1>1, CancelWellFormed
<1>3. \A y : IsResting(book, y) /\ y # id => GetOrder(c, y) = GetOrder(book, y)
  BY <1>1, CancelQuantities
<1>4. x.orderId = id
  BY <1>1, GetOrderProperties
<1> HIDE DEF c, x
<1>5. x \in AllResting(book)
  BY <1>1, <1>4, RestingById DEF x
<1>6. ASSUME NEW r
      PROVE  r \in AllResting(c) <=> r \in AllResting(book) /\ r # x
  <2>1. r \in AllResting(c) <=> IsResting(c, r.orderId) /\ GetOrder(c, r.orderId) = r
    BY <1>2, RestingById
  <2>2. r \in AllResting(book) <=> IsResting(book, r.orderId) /\ GetOrder(book, r.orderId) = r
    BY <1>1, RestingById
  <2> QED BY <1>2, <1>3, <1>4, <2>1, <2>2 DEF x
<1>7. Alive = AllResting(book) /\ Alive' = AllResting(c)
  BY <1>1 DEF Alive, InHand
<1>8. x \in Alive /\ Alive' = Alive \ {x}
  BY <1>5, <1>6, <1>7
<1> QED BY <1>8 DEF Removed, Canceled, x

LEMMA RestingReduced ==
  ASSUME NEW b, BookWellFormed(b), TotalsExact(b), NEW s \in Sides, NEW p, IsBest(b, s, p),
         NEW maker, maker = Head(QueueAt(b, s, p)), maker \in Order,
         NEW q \in Nat, q > 0, q <= maker.remaining,
         NEW c, c = ReduceTopOrder(b, s, q)
  PROVE  /\ maker \in AllResting(b)
         /\ AllResting(c) = Reduced(AllResting(b), maker, q)
<1> DEFINE rm == Remaining(maker, q)
<1>1. BookWellFormed(c)
  BY ReduceTopWellFormed
<1>2. /\ IsResting(c, maker.orderId) <=> q # maker.remaining
      /\ q # maker.remaining => GetOrder(c, maker.orderId) = rm
      /\ \A id : id # maker.orderId =>
           /\ IsResting(c, id) <=> IsResting(b, id)
           /\ IsResting(b, id) => GetOrder(c, id) = GetOrder(b, id)
  BY ReduceTopQuantities DEF Remaining
<1>3. IsResting(b, maker.orderId) /\ GetOrder(b, maker.orderId) = maker
  <2>1. p \in PricesOn(b, s) /\ QueueAt(b, s, p) \in Seq(Order)
    BY LevelTypes DEF IsBest, BookWellFormed
  <2>2. QueueAt(b, s, p) # << >>
    BY <2>1, LevelFacts DEF LevelOK
  <2>3. 1 \in DOMAIN QueueAt(b, s, p) /\ maker = QueueAt(b, s, p)[1]
    BY <2>1, <2>2, QueueTypes
  <2> QED BY <2>1, <2>3, OrderFound
<1>4. rm.orderId = maker.orderId /\ rm.remaining = maker.remaining - q
  <2>1. q \in 0..maker.remaining
    BY OrderTerms
  <2> QED BY <2>1, RemainingTerms
<1> HIDE DEF rm
<1>5. maker \in AllResting(b)
  BY <1>3, RestingById
<1>6. ASSUME NEW r
      PROVE  r \in AllResting(c) <=>
               \/ r \in AllResting(b) /\ r # maker
               \/ q # maker.remaining /\ r = rm
  <2>1. r \in AllResting(c) <=> IsResting(c, r.orderId) /\ GetOrder(c, r.orderId) = r
    BY <1>1, RestingById
  <2>2. r \in AllResting(b) <=> IsResting(b, r.orderId) /\ GetOrder(b, r.orderId) = r
    BY RestingById
  <2>3. CASE r.orderId = maker.orderId
    BY <1>2, <1>3, <1>4, <2>1, <2>2, <2>3
  <2>4. CASE r.orderId # maker.orderId
    BY <1>2, <1>3, <1>4, <2>1, <2>2, <2>4
  <2> QED BY <2>3, <2>4
<1>7. AllResting(c) = Reduced(AllResting(b), maker, q)
  <2>1. Reduced(AllResting(b), maker, q) =
          (AllResting(b) \ {maker}) \cup (IF q = maker.remaining THEN {} ELSE {rm})
    BY DEF Reduced, rm
  <2> QED BY <1>6, <2>1
<1> QED BY <1>5, <1>7

LEMMA AliveSold ==
  ASSUME IInv, TotalsExact(book), OpenSet(Alive), order # NoOrder,
         NEW p, NEW maker, NEW q, Sold(p, maker, q)
  PROVE  Exchanged(Alive, Trade(seq + 1, order, maker, q), Alive', order, maker, q)
<1> DEFINE R == AllResting(book)  left == Remaining(order, q)
           rm == Remaining(maker, q)
           H == IF q = order.remaining THEN {} ELSE {left}
           M == IF q = maker.remaining THEN {} ELSE {rm}
<1>1. /\ order \in Order /\ Opposite(order.side) \in Sides
      /\ IsBest(book, Opposite(order.side), p) /\ Matches(order, p)
      /\ maker = Head(QueueAt(book, Opposite(order.side), p)) /\ maker \in Order
      /\ maker.price = p /\ maker.side = Opposite(order.side)
      /\ q \in Nat /\ q > 0 /\ q <= maker.remaining /\ q <= order.remaining
      /\ book' = ReduceTopOrder(book, Opposite(order.side), q)
      /\ order' = left
  BY DEF Sold, Traded, Remaining
<1>2. /\ BookWellFormed(book) /\ ~IsResting(book, order.orderId) /\ order \notin R
  BY AliveFacts
<1>3. maker \in R /\ AllResting(book') = Reduced(R, maker, q)
  BY <1>1, <1>2, RestingReduced
<1>4. order.remaining \in Nat /\ order.remaining > 0
  BY <1>1, OrderTerms
<1>5. left \in Order /\ left # NoOrder /\ left.remaining = order.remaining - q
      /\ left.orderId = order.orderId
  <2>1. q \in 0..order.remaining
    BY <1>1, <1>4
  <2> QED BY <1>1, <2>1, RemainingTerms, NoOrderAssumption
<1>6. maker.orderId # order.orderId /\ maker # order
  BY <1>2, <1>3, RestingById
<1> HIDE DEF left, rm
<1>7. Alive = R \cup {order} /\ order \in Alive /\ maker \in Alive
  BY <1>3, <1>4 DEF Alive, InHand
<1>8. InHand(order') = H
  <2>1. order' = left /\ (left.remaining > 0 <=> q # order.remaining)
    BY <1>1, <1>4, <1>5
  <2> QED BY <1>5, <2>1 DEF InHand
<1>9. Alive' = Reduced(Reduced(Alive, order, q), maker, q)
  <2>1. Alive' = Reduced(R, maker, q) \cup H
    BY <1>3, <1>8 DEF Alive
  <2>2. Reduced(Alive, order, q) = R \cup H
    BY <1>2, <1>7 DEF Reduced, left
  <2>3. maker \notin H
    BY <1>5, <1>6
  <2>4. Reduced(R \cup H, maker, q) = Reduced(R, maker, q) \cup H
    BY <2>3 DEF Reduced
  <2> QED BY <2>1, <2>2, <2>4
<1>10. Crosses(order.side, order.price, maker.price)
  BY <1>1, <1>7 DEF OpenSet, Matches
<1> QED BY <1>1, <1>7, <1>9, <1>10 DEF Exchanged, Trade

(* The event a call has just emitted, and the list it is in.               *)
LEMMA EmittedEvent ==
  ASSUME IInv, IInv', NEW ev, Emitted(ev)
  PROVE  ev \in Event /\ events \in Seq(Event) /\ events' \in Seq(Event)
<1>1. events \in Seq(Event) /\ events' \in Seq(Event)
  BY DEF IInv, TypeOK
<1>2. CASE order = NoOrder
  <2>1. events' = << ev >>
    BY <1>2 DEF Emitted
  <2>2. ev = events'[1] /\ 1 \in 1..Len(events')
    BY <2>1
  <2> QED BY <1>1, <2>2
<1>3. CASE order # NoOrder
  <2>1. events' = Append(events, ev)
    BY <1>3 DEF Emitted
  <2>2. ev = events'[Len(events) + 1] /\ Len(events) + 1 \in 1..Len(events')
    BY <1>1, <2>1
  <2> QED BY <1>1, <2>2
<1> QED BY <1>1, <1>2, <1>3

-----------------------------------------------------------------------------
(* The events that the handlers have still to send. *)

(* One queue of events per request.                                        *)
Queues == [Requests -> Seq(Event)]

Queued(w) == {e \in Event : \E g \in Requests : \E i \in 1..Len(w[g]) : e = w[g][i]}

(* No event waits twice.                                                   *)
Apart(w) ==
  \A g, h \in Requests : \A i \in 1..Len(w[g]) : \A j \in 1..Len(w[h]) :
    w[g][i] = w[h][j] => g = h /\ i = j

LEMMA QueueMore ==
  ASSUME NEW w \in Queues, Apart(w), NEW g \in Requests, NEW ev \in Event, ev \notin Queued(w),
         NEW u, u = [w EXCEPT ![g] = Append(w[g], ev)]
  PROVE  u \in Queues /\ Apart(u) /\ Queued(u) = Queued(w) \cup {ev}
<1> DEFINE s == w[g]  t == Append(s, ev)  n == Len(s)
<1>1. s \in Seq(Event) /\ \A h \in Requests : w[h] \in Seq(Event)
  BY DEF Queues
<1>2. /\ t \in Seq(Event) /\ n \in Nat /\ Len(t) = n + 1 /\ t[n + 1] = ev
      /\ \A i \in 1..n : t[i] = s[i]
  BY <1>1
<1>3. u \in Queues /\ u[g] = t /\ \A h \in Requests \ {g} : u[h] = w[h]
  BY <1>2 DEF Queues
<1>4. ASSUME NEW h \in Requests, NEW i \in 1..Len(u[h])
      PROVE  \/ i \in 1..Len(w[h]) /\ u[h][i] = w[h][i] /\ w[h][i] \in Queued(w)
             \/ h = g /\ i = n + 1 /\ u[h][i] = ev
  <2>1. CASE h = g /\ i = n + 1
    BY <1>2, <1>3, <2>1
  <2>2. CASE ~(h = g /\ i = n + 1)
    <3>1. i \in 1..Len(w[h]) /\ u[h][i] = w[h][i]
      <4>1. CASE h = g
        <5>1. i \in 1..n
          BY <1>2, <1>3, <2>2, <4>1
        <5> QED BY <1>2, <1>3, <4>1, <5>1
      <4>2. CASE h # g
        BY <1>3, <4>2
      <4> QED BY <4>1, <4>2
    <3>2. w[h][i] \in Event
      BY <1>1, <3>1
    <3> QED BY <3>1, <3>2 DEF Queued
  <2> QED BY <2>1, <2>2
<1>5. ASSUME NEW h \in Requests, NEW i \in 1..Len(w[h])
      PROVE  i \in 1..Len(u[h]) /\ u[h][i] = w[h][i]
  <2>1. CASE h = g
    BY <1>2, <1>3, <2>1
  <2>2. CASE h # g
    BY <1>3, <2>2
  <2> QED BY <2>1, <2>2
<1>6. n + 1 \in 1..Len(u[g]) /\ u[g][n + 1] = ev
  BY <1>2, <1>3
<1> HIDE DEF s, t, n
<1>7. ASSUME NEW h \in Requests, NEW k \in Requests, NEW i \in 1..Len(u[h]), NEW j \in 1..Len(u[k]),
             u[h][i] = u[k][j]
      PROVE  h = k /\ i = j
  <2>1. CASE i \in 1..Len(w[h]) /\ u[h][i] = w[h][i] /\ w[h][i] \in Queued(w)
    <3>1. j \in 1..Len(w[k]) /\ u[k][j] = w[k][j]
      BY <1>4, <1>7, <2>1
    <3> QED BY <1>7, <2>1, <3>1 DEF Apart
  <2>2. CASE h = g /\ i = n + 1 /\ u[h][i] = ev
    BY <1>4, <1>7, <2>2
  <2> QED BY <1>4, <2>1, <2>2
<1>8. Apart(u)
  BY <1>7 DEF Apart
<1>9. ASSUME NEW e \in Event
      PROVE  e \in Queued(u) <=> e \in Queued(w) \cup {ev}
  <2>1. ASSUME NEW h \in Requests, NEW i \in 1..Len(u[h]), e = u[h][i]
        PROVE  e \in Queued(w) \cup {ev}
    BY <1>4, <2>1
  <2>2. ASSUME NEW h \in Requests, NEW i \in 1..Len(w[h]), e = w[h][i]
        PROVE  e \in Queued(u)
    BY <1>5, <2>2 DEF Queued
  <2>3. e = ev => e \in Queued(u)
    BY <1>6 DEF Queued
  <2> QED BY <2>1, <2>2, <2>3 DEF Queued
<1>10. Queued(u) = Queued(w) \cup {ev}
  BY <1>9 DEF Queued
<1> QED BY <1>3, <1>8, <1>10

LEMMA QueueLess ==
  ASSUME NEW w \in Queues, Apart(w), NEW g \in Requests, w[g] # << >>,
         NEW u, u = [w EXCEPT ![g] = Tail(w[g])]
  PROVE  /\ u \in Queues /\ Apart(u)
         /\ Head(w[g]) \in Queued(w) /\ Queued(u) = Queued(w) \ {Head(w[g])}
<1> DEFINE s == w[g]  t == Tail(s)  ev == Head(s)
<1>1. s \in Seq(Event) /\ s # << >> /\ \A h \in Requests : w[h] \in Seq(Event)
  BY DEF Queues
<1>2. /\ t \in Seq(Event) /\ Len(s) \in Nat /\ Len(s) > 0 /\ Len(t) = Len(s) - 1
      /\ ev = s[1] /\ ev \in Event
      /\ \A i \in 1..Len(t) : t[i] = s[i + 1]
  BY <1>1
<1>3. u \in Queues /\ u[g] = t /\ \A h \in Requests \ {g} : u[h] = w[h]
  BY <1>2 DEF Queues
<1>4. ev \in Queued(w) /\ 1 \in 1..Len(w[g]) /\ ev = w[g][1]
  <2>1. 1 \in 1..Len(w[g]) /\ ev = w[g][1]
    BY <1>2
  <2> QED BY <1>2, <2>1 DEF Queued
<1> DEFINE at(h, i) == IF h = g THEN i + 1 ELSE i
<1>5. ASSUME NEW h \in Requests, NEW i \in 1..Len(u[h])
      PROVE  at(h, i) \in 1..Len(w[h]) /\ u[h][i] = w[h][at(h, i)]
  <2>1. CASE h = g
    <3>1. i \in 1..Len(t)
      BY <1>3, <2>1
    <3>2. t[i] = s[i + 1]
      BY <1>2, <3>1
    <3>3. i + 1 \in 1..Len(s)
      <4> DEFINE k == Len(t)  n == Len(s)
      <4>1. n \in Nat /\ k = n - 1 /\ i \in 1..k
        BY <1>2, <3>1
      <4> HIDE DEF k, n
      <4>2. i + 1 \in 1..n
        BY <4>1
      <4> QED BY <4>2 DEF n
    <3> QED BY <1>3, <2>1, <3>2, <3>3
  <2>2. CASE h # g
    BY <1>3, <2>2
  <2> QED BY <2>1, <2>2
<1>6. ASSUME NEW h \in Requests, NEW i \in 1..Len(w[h]), w[h][i] # ev
      PROVE  \E j \in 1..Len(u[h]) : u[h][j] = w[h][i]
  <2>1. CASE h = g
    <3>1. i \in 1..Len(s) /\ i # 1
      BY <1>2, <1>6, <2>1
    <3>2. i - 1 \in 1..Len(t) /\ t[i - 1] = s[(i - 1) + 1] /\ (i - 1) + 1 = i
      BY <1>2, <3>1
    <3> QED BY <1>3, <2>1, <3>2
  <2>2. CASE h # g
    BY <1>3, <2>2
  <2> QED BY <2>1, <2>2
<1> HIDE DEF s, t, ev
<1>7. ASSUME NEW h \in Requests, NEW k \in Requests, NEW i \in 1..Len(u[h]), NEW j \in 1..Len(u[k]),
             u[h][i] = u[k][j]
      PROVE  h = k /\ i = j
  <2>1. /\ at(h, i) \in 1..Len(w[h]) /\ at(k, j) \in 1..Len(w[k])
        /\ w[h][at(h, i)] = w[k][at(k, j)]
    BY <1>5, <1>7
  <2>2. h = k /\ at(h, i) = at(k, j)
    <3> HIDE DEF at
    <3> QED BY <2>1 DEF Apart
  <2> QED BY <2>2
<1>8. ASSUME NEW h \in Requests, NEW i \in 1..Len(u[h])
      PROVE  u[h][i] # ev
  <2>1. at(h, i) \in 1..Len(w[h]) /\ u[h][i] = w[h][at(h, i)]
    BY <1>5
  <2>2. ~(h = g /\ at(h, i) = 1)
    OBVIOUS
  <2> HIDE DEF at
  <2> QED BY <1>4, <2>1, <2>2 DEF Apart
<1>9. ASSUME NEW e \in Event
      PROVE  e \in Queued(u) <=> e \in Queued(w) \ {ev}
  <2>1. ASSUME NEW h \in Requests, NEW i \in 1..Len(u[h]), e = u[h][i]
        PROVE  e \in Queued(w) \ {ev}
    <3>1. at(h, i) \in 1..Len(w[h]) /\ e = w[h][at(h, i)]
      BY <1>5, <2>1
    <3> HIDE DEF at
    <3> QED BY <1>8, <2>1, <3>1 DEF Queued
  <2>2. ASSUME NEW h \in Requests, NEW i \in 1..Len(w[h]), e = w[h][i], e # ev
        PROVE  e \in Queued(u)
    BY <1>6, <2>2 DEF Queued
  <2> HIDE DEF at
  <2> QED BY <2>1, <2>2 DEF Queued
<1>10. Apart(u)
  <2> HIDE DEF at
  <2> QED BY <1>7 DEF Apart
<1>11. Queued(u) = Queued(w) \ {ev}
  <2> HIDE DEF at
  <2> QED BY <1>9 DEF Queued
<1> QED BY <1>3, <1>4, <1>10, <1>11 DEF ev, s

-----------------------------------------------------------------------------
(* What holds of the requests and the stream whatever is lost. *)

IsRequest(r) ==
  \/ r = NotServing
  \/ \E cmd \in Command, stage \in {"reserved", "rejected"} :
       r = [stage |-> stage, cmd |-> cmd] /\ ReservationOf(cmd).amount > 0

Served ==
  /\ requests = [g \in Requests |-> requests[g]]
  /\ \A g \in Requests : IsRequest(requests[g])
  /\ Idle => caller = NoRequest
  /\ ~Idle => caller \in Requests /\ requests[caller].stage = "reserved"

Streamed ==
  /\ stream \in Seq(Event)
  /\ cursor \in Nat /\ cursor <= Len(stream)
  /\ known \in Nat /\ known <= Len(stream)

(* The queues of the handlers: that of the running call will hold all of    *)
(* its events but the first.                                               *)
Waiting == [g \in Requests |-> IF ~Idle /\ g = caller THEN Tail(events) ELSE todo[g]]

Unsent == Queued(Waiting)

(* A request that the gateway serves has nothing left to send.             *)
Told ==
  /\ todo \in Queues
  /\ \A g \in Requests : requests[g] # NotServing => todo[g] = << >>

Numbered == Apart(Waiting) /\ \A e \in Unsent : e.seq <= seq

Base ==
  /\ PInv /\ TotalsExact(book)
  /\ Served /\ Streamed /\ Told /\ Numbered
  /\ abandoned \in Seq(Users \X Assets \X Nat)

(* The stream with the event that the running call will send first.        *)
History == IF Idle THEN stream ELSE Append(stream, events[1])

LEMMA RequestTerms ==
  ASSUME NEW r, IsRequest(r), r # NotServing
  PROVE  /\ r.cmd \in Command /\ r.stage \in {"reserved", "rejected"}
         /\ ReservationOf(r.cmd).amount > 0
         /\ r = [stage |-> r.stage, cmd |-> r.cmd]
BY DEF IsRequest

LEMMA StageServed ==
  ASSUME NEW r, IsRequest(r), r.stage # "none"
  PROVE  r # NotServing
BY DEF NotServing

LEMMA CommandTerms ==
  ASSUME NEW cmd \in Command
  PROVE  /\ cmd.userId \in Users /\ cmd.userId \in Holders /\ cmd.side \in Sides
         /\ cmd.price \in Nat /\ cmd.qty \in Nat /\ cmd.type \in Types
         /\ ReservationOf(cmd).asset \in Assets /\ ReservationOf(cmd).amount \in Nat
<1>1. /\ cmd.userId \in Users /\ cmd.side \in Sides /\ cmd.price \in Nat /\ cmd.qty \in Nat
      /\ cmd.type \in Types
  BY ConstantsAssumption DEF Command
<1> QED BY <1>1, ReserveType DEF ReservationOf, Holders

LEMMA Joined ==
  ASSUME NEW S, NEW s \in Seq(S), NEW e \in S
  PROVE  /\ s \o << >> = s /\ s \o <<e>> = Append(s, e)
         /\ Append(s, e) \in Seq(S) /\ Len(s) \in Nat /\ Len(Append(s, e)) = Len(s) + 1
         /\ Tail(<<e>>) = << >> /\ Head(<<e>>) = e
         /\ s # << >> => /\ s[1] \in S /\ Head(s) = s[1] /\ Tail(s) \in Seq(S)
                         /\ Append(s, e)[1] = s[1] /\ Head(Append(s, e)) = s[1]
                         /\ Tail(Append(s, e)) = Append(Tail(s), e)
<1>1. s # << >> => /\ s[1] \in S /\ Head(s) = s[1] /\ Append(s, e)[1] = s[1]
  OBVIOUS
<1>2. s # << >> => Tail(s) \in Seq(S)
  BY HeadTailProperties
<1>3. s # << >> => Head(Append(s, e)) = s[1] /\ Tail(Append(s, e)) = Append(Tail(s), e)
  BY <1>1, HeadTailAppend
<1> QED BY <1>1, <1>2, <1>3

LEMMA WaitingTerms ==
  ASSUME Base
  PROVE  /\ todo \in Queues /\ Waiting \in Queues /\ Apart(Waiting) /\ seq \in Nat
         /\ Idle => Waiting = todo
         /\ ~Idle => /\ caller \in Requests /\ Waiting[caller] = Tail(events)
                     /\ events \in Seq(Event) /\ events # << >>
         /\ \A g \in Requests : Idle \/ g # caller => Waiting[g] = todo[g]
<1>1. /\ todo \in Queues /\ Apart(Waiting) /\ seq \in Nat
      /\ events \in Seq(Event) /\ (~Idle => events # << >>)
  BY DEF Base, Told, Numbered, PInv, IInv, TypeOK, CallOpened, Idle
<1>2. ~Idle => caller \in Requests
  BY DEF Base, Served
<1>3. ~Idle => Tail(events) \in Seq(Event)
  BY <1>1, HeadTailProperties
<1>4. /\ Waiting \in Queues
      /\ Idle => Waiting = todo
      /\ ~Idle => Waiting[caller] = Tail(events)
      /\ \A g \in Requests : Idle \/ g # caller => Waiting[g] = todo[g]
  BY <1>1, <1>2, <1>3 DEF Waiting, Queues
<1> QED BY <1>1, <1>2, <1>4

(* A step numbers its event, and puts at most that one into a queue, or     *)
(* takes one out.                                                          *)
Stays == Waiting' = Waiting /\ seq' >= seq

Joins(g, ev) ==
  /\ ev \in Event /\ ev.seq = seq' /\ seq' = seq + 1
  /\ Waiting' = [Waiting EXCEPT ![g] = Append(Waiting[g], ev)]

Leaves(g) ==
  /\ Waiting[g] # << >> /\ seq' = seq
  /\ Waiting' = [Waiting EXCEPT ![g] = Tail(Waiting[g])]

LEMMA NewUnsent ==
  ASSUME Base, NEW ev \in Event, ev.seq = seq + 1
  PROVE  ev \notin Unsent
<1>1. seq \in Nat /\ (ev \in Unsent => ev.seq <= seq)
  BY WaitingTerms DEF Base, Numbered
<1> QED BY <1>1

LEMMA StaysNumbered ==
  ASSUME Base, seq' \in Nat, Stays
  PROVE  Numbered' /\ Unsent' = Unsent
<1>1. /\ Apart(Waiting)' /\ Unsent' = Unsent /\ seq \in Nat /\ seq' >= seq
      /\ \A e \in Unsent : e.seq <= seq
  BY WaitingTerms DEF Base, Numbered, Stays, Unsent
<1>2. ASSUME NEW e \in Unsent
      PROVE  e.seq <= seq'
  <2>1. e \in Event /\ e.seq <= seq
    BY <1>1 DEF Unsent, Queued
  <2>2. e.seq \in Nat
    BY <2>1 DEF Event
  <2> QED BY <1>1, <2>1, <2>2
<1> QED BY <1>1, <1>2 DEF Numbered

LEMMA JoinsNumbered ==
  ASSUME Base, NEW g \in Requests, NEW ev, Joins(g, ev)
  PROVE  Numbered' /\ ev \in Event \ Unsent /\ Unsent' = Unsent \cup {ev}
<1>1. ev \in Event /\ ev.seq = seq' /\ seq' = seq + 1
  BY DEF Joins
<1>2. ev \notin Unsent
  BY <1>1, NewUnsent
<1>3. Apart(Waiting') /\ Queued(Waiting') = Queued(Waiting) \cup {ev}
  <2> DEFINE w == Waiting  u == Waiting'
  <2>1. /\ w \in Queues /\ Apart(w) /\ ev \notin Queued(w)
        /\ u = [w EXCEPT ![g] = Append(w[g], ev)]
    BY <1>2, WaitingTerms DEF Joins, Unsent
  <2> HIDE DEF w, u
  <2>2. Apart(u) /\ Queued(u) = Queued(w) \cup {ev}
    BY <1>1, <2>1, QueueMore
  <2> QED BY <2>2 DEF w, u
<1>4. Unsent' = Unsent \cup {ev}
  BY <1>3 DEF Unsent
<1>5. ASSUME NEW e \in Unsent'
      PROVE  e.seq <= seq'
  <2>1. CASE e = ev
    BY <1>1, <2>1, WaitingTerms
  <2>2. CASE e \in Unsent
    <3>1. e \in Event /\ e.seq <= seq /\ seq \in Nat
      BY <2>2, WaitingTerms DEF Unsent, Queued, Base, Numbered
    <3>2. e.seq \in Nat
      BY <3>1 DEF Event
    <3> QED BY <1>1, <3>1, <3>2
  <2> QED BY <1>4, <2>1, <2>2
<1> QED BY <1>1, <1>2, <1>3, <1>4, <1>5 DEF Numbered

LEMMA LeavesNumbered ==
  ASSUME Base, NEW g \in Requests, Leaves(g)
  PROVE  /\ Numbered'
         /\ Head(Waiting[g]) \in Unsent /\ Unsent' = Unsent \ {Head(Waiting[g])}
<1> DEFINE w == Waiting  u == Waiting'
<1>1. /\ w \in Queues /\ Apart(w) /\ w[g] # << >> /\ u = [w EXCEPT ![g] = Tail(w[g])]
  BY WaitingTerms DEF Leaves
<1> HIDE DEF w, u
<1>2. Apart(u) /\ Head(w[g]) \in Queued(w) /\ Queued(u) = Queued(w) \ {Head(w[g])}
  BY <1>1, QueueLess
<1>3. Head(Waiting[g]) \in Unsent /\ Unsent' = Unsent \ {Head(Waiting[g])} /\ Apart(Waiting')
  BY <1>2 DEF Unsent, w, u
<1>4. \A e \in Unsent' : e.seq <= seq'
  BY <1>3 DEF Leaves, Base, Numbered
<1> QED BY <1>3, <1>4 DEF Numbered

(* The stream grows by an event; it does, or it will as the call returns.   *)
Longer == stream' = stream \/ \E ev \in Event : stream' = Append(stream, ev)

Advanced(ev) ==
  ev \in Event /\ History \in Seq(Event) /\ Continues(History, History', ev)

LEMMA HistoryGrows ==
  ASSUME NEW ev \in Event, History \in Seq(Event), History' = Append(History, ev)
  PROVE  Advanced(ev)
BY StreamContinues DEF Advanced

LEMMA HistoryType ==
  ASSUME Base
  PROVE  /\ History \in Seq(Event) /\ stream \in Seq(Event)
         /\ Idle => History = stream
         /\ ~Idle => History = Append(stream, events[1]) /\ events[1] \in Event
<1>1. stream \in Seq(Event) /\ (~Idle => events \in Seq(Event) /\ events # << >>)
  BY WaitingTerms DEF Base, Streamed
<1>2. ~Idle => events[1] \in Event
  BY <1>1
<1>3. ~Idle => Append(stream, events[1]) \in Seq(Event)
  BY <1>1, <1>2
<1> QED BY <1>1, <1>2, <1>3 DEF History

LEMMA EngineMoves ==
  ASSUME Base,
         \/ \E g \in Requests : Place(g)
         \/ RunMatcher
         \/ \E user \in Users, id \in 1..MaxOrders : UserCancel(user, id)
  PROVE  PInv' /\ TotalsExact(book)' /\ IInv' /\ seq' \in Nat
<1>1. Next
  <2>1. CASE \E g \in Requests : Place(g)
    <3>1. PICK g \in Requests : requests[g].stage = "reserved" /\ Submit(requests[g].cmd)
      BY <2>1 DEF Place
    <3>2. requests[g].cmd \in Command
      <4>1. IsRequest(requests[g]) /\ requests[g].stage # "none"
        BY <3>1 DEF Base, Served
      <4> QED BY <4>1, StageServed, RequestTerms
    <3> QED BY <3>1, <3>2 DEF Next
  <2>2. CASE RunMatcher
    BY <2>2 DEF Next, RunMatcher
  <2>3. CASE \E user \in Users, id \in 1..MaxOrders : UserCancel(user, id)
    BY <2>3 DEF Next, UserCancel
  <2> QED BY <2>1, <2>2, <2>3
<1>2. PInv /\ IInv /\ TotalsExact(book)
  BY DEF Base, PInv
<1>3. PInv' /\ TotalsExact(book)'
  BY <1>1, <1>2, NextPInv, TotalsStep
<1> QED BY <1>3 DEF PInv, IInv, TypeOK

(* Only an accepted order and one the pre-check refuses take an order id.  *)
LEMMA SubmitIds ==
  ASSUME NEW cmd, Submit(cmd), nextId \in Nat, NewOrder(cmd) \in Order
  PROVE  /\ nextId' \in Nat /\ nextId' >= nextId
         /\ Opened(cmd) => nextId' = nextId + 1 /\ order' # NoOrder
<1>1. NewOrder(cmd) # NoOrder
  BY NoOrderAssumption
<1>2. nextId' = nextId \/ nextId' = nextId + 1
  BY DEF Submit, RejectInvalid, RejectDuplicate, RejectPrecheck, Accept
<1>3. Opened(cmd) => order' # NoOrder
  BY <1>1 DEF Opened
<1>4. order' # NoOrder => nextId' = nextId + 1
  BY DEF Submit, RejectInvalid, RejectDuplicate, RejectPrecheck, Accept, Idle
<1> QED BY <1>2, <1>3, <1>4

LEMMA PlaceMoves ==
  ASSUME Base, "MARKET" \notin Types, NEW g \in Requests, Place(g)
  PROVE  /\ Idle /\ requests[g].stage = "reserved" /\ requests[g] # NotServing
         /\ Stays /\ todo' = todo /\ nextId' \in Nat /\ nextId' >= nextId
         /\ Longer
         /\ \E ev :
              /\ Advanced(ev)
              /\ \/ /\ ev.kind = "OrderRejected" /\ Idle' /\ caller' = NoRequest
                    /\ Alive' = Alive
                    /\ requests' = [requests EXCEPT ![g] =
                                      [stage |-> "rejected", cmd |-> requests[g].cmd]]
                 \/ /\ ev = Accepted(seq + 1, NewOrder(requests[g].cmd)) /\ ~Idle'
                    /\ caller' = g /\ requests' = requests
                    /\ Added(Alive, ev, Alive')
                    /\ ev.order.orderId = nextId /\ nextId' = nextId + 1
<1> DEFINE cmd == requests[g].cmd
<1>1. requests[g].stage = "reserved" /\ Submit(cmd) /\ Return(g) /\ IInv
  BY DEF Place, Base, PInv
<1>2. requests[g] # NotServing /\ cmd \in Command /\ requests[g] = [stage |-> "reserved", cmd |-> cmd]
  <2>1. IsRequest(requests[g]) /\ requests[g].stage # "none"
    BY <1>1 DEF Base, Served
  <2> QED BY <1>1, <2>1, StageServed, RequestTerms
<1>3. IInv' /\ seq' \in Nat
  BY EngineMoves
<1>4. /\ order = NoOrder
      /\ \/ \E reason : /\ Refused(cmd, reason)
                        /\ Emitted(Rejected(seq + 1, cmd, reason))
         \/ Opened(cmd) /\ Emitted(Accepted(seq + 1, NewOrder(cmd)))
  BY <1>1, <1>2, SubmitSteps
<1>5. NewOrder(cmd) \in Order /\ nextId \in Nat /\ seq \in Nat
  BY <1>1, <1>2, AliveFacts, NewOrderType
<1>6. /\ nextId' \in Nat /\ nextId' >= nextId
      /\ Opened(cmd) => nextId' = nextId + 1 /\ order' # NoOrder
  BY <1>1, <1>5, SubmitIds
<1>7. todo \in Queues /\ todo[g] = << >> /\ Waiting = todo /\ History = stream
      /\ stream \in Seq(Event)
  BY <1>2, <1>4, WaitingTerms, HistoryType DEF Base, Told, Idle
<1> HIDE DEF cmd
<1>8. ASSUME NEW reason, Refused(cmd, reason), Emitted(Rejected(seq + 1, cmd, reason))
      PROVE  LET ev == Rejected(seq + 1, cmd, reason) IN
             /\ Advanced(ev) /\ ev.kind = "OrderRejected" /\ Idle' /\ caller' = NoRequest
             /\ Alive' = Alive /\ Stays /\ todo' = todo
             /\ Longer
             /\ requests' = [requests EXCEPT ![g] = [stage |-> "rejected", cmd |-> cmd]]
  <2> DEFINE ev == Rejected(seq + 1, cmd, reason)
  <2>1. ev.kind = "OrderRejected"
    BY DEF Rejected
  <2>2. order' = NoOrder /\ Alive' = Alive /\ events' = << ev >> /\ seq' = seq + 1
    BY <1>4, <1>8 DEF Refused, Alive, Emitted
  <2>3. ev \in Event
    BY <1>1, <1>3, <1>8, EmittedEvent
  <2> HIDE DEF ev
  <2>4. Head(events') = ev /\ Tail(events') = << >> /\ events'[1] = ev
    BY <2>2
  <2>5. /\ caller' = NoRequest /\ stream' = Append(stream, ev)
        /\ todo' = [todo EXCEPT ![g] = << >>]
        /\ requests' = [requests EXCEPT ![g] = [@ EXCEPT !.stage = "rejected"]]
    BY <1>1, <2>1, <2>2, <2>4 DEF Return
  <2>6. todo' = todo
    BY <1>7, <2>5 DEF Queues
  <2>7. Stays
    <3>1. Waiting' = todo'
      BY <1>7, <2>2, <2>6 DEF Waiting, Idle, Queues
    <3> QED BY <1>5, <1>7, <2>2, <2>6, <3>1 DEF Stays
  <2>8. Advanced(ev)
    <3>1. History' = Append(History, ev)
      BY <1>7, <2>2, <2>5 DEF History, Idle
    <3> QED BY <1>7, <2>3, <3>1, HistoryGrows
  <2>9. [requests[g] EXCEPT !.stage = "rejected"] = [stage |-> "rejected", cmd |-> cmd]
    BY <1>2
  <2> QED BY <2>1, <2>2, <2>3, <2>5, <2>6, <2>7, <2>8, <2>9 DEF Idle, Longer, ev
<1>9. ASSUME Opened(cmd), Emitted(Accepted(seq + 1, NewOrder(cmd)))
      PROVE  LET ev == Accepted(seq + 1, NewOrder(cmd)) IN
             /\ Advanced(ev) /\ ~Idle' /\ caller' = g /\ requests' = requests
             /\ Added(Alive, ev, Alive') /\ ev.order.orderId = nextId /\ nextId' = nextId + 1
             /\ Stays /\ todo' = todo /\ Longer
  <2> DEFINE ev == Accepted(seq + 1, NewOrder(cmd))
  <2>1. Added(Alive, ev, Alive')
    BY <1>1, <1>2, <1>9, AliveOpened
  <2>2. order' # NoOrder /\ nextId' = nextId + 1
    BY <1>6, <1>9
  <2>3. ev \in Event
    BY <1>1, <1>3, <1>9, EmittedEvent
  <2>4. ev.order.orderId = nextId
    BY DEF Accepted, NewOrder
  <2>5. events' = << ev >> /\ seq' = seq + 1
    BY <1>4, <1>9 DEF Opened, Emitted
  <2> HIDE DEF ev
  <2>6. Tail(events') = << >> /\ events'[1] = ev
    BY <2>5
  <2>7. caller' = g /\ stream' = stream /\ todo' = todo /\ requests' = requests
    BY <1>1, <2>2 DEF Return
  <2>8. Stays
    <3>1. Waiting' = [h \in Requests |-> IF h = g THEN << >> ELSE todo[h]]
      BY <2>2, <2>6, <2>7 DEF Waiting, Idle
    <3>2. Waiting' = todo
      BY <1>7, <3>1 DEF Queues
    <3> QED BY <1>5, <1>7, <2>5, <3>2 DEF Stays
  <2>9. Advanced(ev)
    <3>1. History' = Append(History, ev)
      BY <1>7, <2>2, <2>6, <2>7 DEF History, Idle
    <3> QED BY <1>7, <2>3, <3>1, HistoryGrows
  <2> QED BY <2>1, <2>2, <2>4, <2>7, <2>8, <2>9 DEF Idle, Longer, ev
<1>10. Idle /\ requests[g].stage = "reserved" /\ requests[g] # NotServing
  BY <1>1, <1>2, <1>4 DEF Idle
<1>11. CASE \E reason : Refused(cmd, reason) /\ Emitted(Rejected(seq + 1, cmd, reason))
  BY <1>6, <1>8, <1>10, <1>11 DEF cmd
<1>12. CASE Opened(cmd) /\ Emitted(Accepted(seq + 1, NewOrder(cmd)))
  BY <1>6, <1>9, <1>10, <1>12 DEF cmd
<1> QED BY <1>4, <1>11, <1>12

(* A step of the engine other than the start of a call, or of a handler's  *)
(* loop.  An event waits in the queue of its call until the loop sends it; *)
(* the cancel of a user does not wait.                                     *)
Trades(ev) == \E taker, maker, q : Exchanged(Alive, ev, Alive', taker, maker, q)

Cancels(ev) == \E o : Removed(Alive, ev, Alive', o)

Moved ==
  /\ nextId' = nextId /\ History \in Seq(Event)
  /\ \/ History' = History /\ Alive' = Alive /\ Unsent' = Unsent
     \/ \E ev \in Event \ Unsent : /\ Trades(ev) \/ Cancels(ev)
                                   /\ History' = History /\ Unsent' = Unsent \cup {ev}
     \/ \E ev \in Event \ Unsent : Cancels(ev) /\ Advanced(ev) /\ Unsent' = Unsent
     \/ \E ev \in Unsent : Advanced(ev) /\ Alive' = Alive /\ Unsent' = Unsent \ {ev}

LEMMA MatcherMoves ==
  ASSUME Base, OpenSet(Alive), RunMatcher
  PROVE  /\ ~Idle /\ caller \in Requests /\ requests[caller].stage = "reserved"
         /\ Moved /\ Numbered' /\ Told'
         /\ Longer
         /\ \/ ~Idle' /\ caller' = caller /\ requests' = requests
            \/ /\ Idle' /\ caller' = NoRequest
               /\ requests' = [requests EXCEPT ![caller] = NotServing]
<1>1. /\ MatchLoop /\ Return(caller) /\ IInv /\ CallOpened /\ TotalsExact(book)
  BY DEF RunMatcher, Base, PInv
<1>2. IInv' /\ seq' \in Nat
  BY EngineMoves
<1>3. /\ order # NoOrder
      /\ \/ Silent /\ order' = NoOrder /\ events' = events
         \/ \E p, maker, fillQty : /\ Sold(p, maker, fillQty)
                                   /\ Emitted(Trade(seq + 1, order, maker, fillQty))
         \/ \E reason \in CancelReasons : /\ Killed(reason)
                                          /\ Emitted(Canceled(seq + 1, order, reason))
  BY <1>1, LoopSteps
<1>4. /\ caller \in Requests /\ Waiting \in Queues /\ Waiting[caller] = Tail(events)
      /\ todo \in Queues /\ \A g \in Requests \ {caller} : Waiting[g] = todo[g]
      /\ events \in Seq(Event) /\ events # << >> /\ seq \in Nat
  BY <1>3, WaitingTerms DEF Idle
<1>5. /\ events[1].kind = "OrderAccepted" /\ events[1] \in Event
      /\ History = Append(stream, events[1]) /\ History \in Seq(Event)
  BY <1>1, <1>3, HistoryType DEF CallOpened, Idle
<1>6. nextId' = nextId
  BY <1>1 DEF MatchLoop, Match, StopOnSelfTrade, RestRemainder, CancelRemainder, KillRemainder,
              Filled
<1>7. ASSUME events' \in Seq(Event), events' # << >>, events'[1] = events[1],
             Tail(events') \in Seq(Event)
      PROVE  /\ History' = History
             /\ Waiting' = [Waiting EXCEPT ![caller] = Tail(events')]
             /\ Told' /\ Longer
             /\ \/ ~Idle' /\ caller' = caller /\ requests' = requests
                \/ /\ Idle' /\ caller' = NoRequest
                   /\ requests' = [requests EXCEPT ![caller] = NotServing]
  <2>1. \A g \in Requests : requests[g] # NotServing => todo[g] = << >>
    BY DEF Base, Told
  <2>2. requests = [g \in Requests |-> requests[g]]
    BY DEF Base, Served
  <2>3. CASE order' # NoOrder
    <3>1. caller' = caller /\ stream' = stream /\ todo' = todo /\ requests' = requests
      BY <1>1, <2>3 DEF Return
    <3>2. Waiting' = [g \in Requests |-> IF g = caller THEN Tail(events') ELSE todo[g]]
      BY <2>3, <3>1 DEF Waiting, Idle
    <3>3. Waiting' = [Waiting EXCEPT ![caller] = Tail(events')]
      BY <1>4, <3>2 DEF Queues
    <3>4. Told'
      BY <1>4, <2>1, <3>1 DEF Told
    <3>5. History' = History
      BY <1>5, <1>7, <2>3, <3>1 DEF History, Idle
    <3> QED BY <2>3, <3>1, <3>3, <3>4, <3>5 DEF Idle, Longer
  <2>4. CASE order' = NoOrder
    <3>1. Head(events') = events'[1] /\ events'[1].kind # "OrderRejected"
      BY <1>5, <1>7
    <3>2. /\ caller' = NoRequest /\ stream' = Append(stream, events'[1])
          /\ todo' = [todo EXCEPT ![caller] = Tail(events')]
          /\ requests' = [requests EXCEPT ![caller] = NotServing]
      BY <1>1, <2>4, <3>1 DEF Return
    <3>3. Waiting' = todo'
      <4>1. todo' = [g \in Requests |-> todo'[g]]
        BY <1>4, <3>2 DEF Queues
      <4> QED BY <2>4, <4>1 DEF Waiting, Idle
    <3>4. Waiting' = [Waiting EXCEPT ![caller] = Tail(events')]
      BY <1>4, <3>2, <3>3 DEF Queues
    <3>5. Told'
      <4>1. todo' \in Queues
        BY <1>4, <1>7, <3>2 DEF Queues
      <4>2. ASSUME NEW g \in Requests, requests'[g] # NotServing
            PROVE  todo'[g] = << >>
        <5>1. g # caller /\ requests'[g] = requests[g]
          BY <1>4, <2>2, <3>2, <4>2
        <5> QED BY <1>4, <2>1, <3>2, <4>2, <5>1 DEF Queues
      <4> QED BY <4>1, <4>2 DEF Told
    <3>6. History' = History
      BY <1>5, <1>7, <2>4, <3>2 DEF History, Idle
    <3> QED BY <1>5, <1>7, <2>4, <3>2, <3>4, <3>5, <3>6 DEF Idle, Longer
  <2> QED BY <2>3, <2>4
<1>8. ASSUME NEW ev, Emitted(ev), ev.seq = seq + 1, seq' = seq + 1, Trades(ev) \/ Cancels(ev)
      PROVE  /\ Moved /\ Numbered' /\ events' \in Seq(Event) /\ events' # << >>
             /\ events'[1] = events[1] /\ Tail(events') \in Seq(Event)
  <2>1. ev \in Event /\ events' = Append(events, ev)
    BY <1>1, <1>2, <1>3, <1>8, EmittedEvent DEF Emitted
  <2>2. /\ events' \in Seq(Event) /\ events'[1] = events[1] /\ events' # << >>
        /\ Tail(events') = Append(Tail(events), ev) /\ Tail(events) \in Seq(Event)
    BY <1>4, <2>1, Joined
  <2>3. Tail(events') \in Seq(Event)
    BY <2>1, <2>2
  <2>4. History' = History /\ Waiting' = [Waiting EXCEPT ![caller] = Tail(events')]
    BY <1>7, <2>2, <2>3
  <2>5. Joins(caller, ev)
    BY <1>4, <1>8, <2>1, <2>2, <2>4 DEF Joins
  <2>6. Numbered' /\ ev \in Event \ Unsent /\ Unsent' = Unsent \cup {ev}
    BY <1>4, <2>5, JoinsNumbered
  <2> QED BY <1>5, <1>6, <1>8, <2>2, <2>3, <2>4, <2>6 DEF Moved
<1>9. ASSUME NEW p, NEW maker, NEW fillQty, Sold(p, maker, fillQty),
             Emitted(Trade(seq + 1, order, maker, fillQty))
      PROVE  /\ Moved /\ Numbered' /\ events' \in Seq(Event) /\ events' # << >>
             /\ events'[1] = events[1] /\ Tail(events') \in Seq(Event)
  <2> DEFINE ev == Trade(seq + 1, order, maker, fillQty)
  <2>1. Exchanged(Alive, ev, Alive', order, maker, fillQty)
    BY <1>1, <1>3, <1>9, AliveSold
  <2>2. ev.seq = seq + 1 /\ seq' = seq + 1
    BY <1>9 DEF Trade, Sold, Traded
  <2> HIDE DEF ev
  <2>3. Emitted(ev)
    BY <1>9 DEF ev
  <2>4. Trades(ev)
    BY <2>1 DEF Trades
  <2> QED BY <1>8, <2>2, <2>3, <2>4
<1>10. ASSUME NEW reason \in CancelReasons, Killed(reason),
              Emitted(Canceled(seq + 1, order, reason))
       PROVE  /\ Moved /\ Numbered' /\ events' \in Seq(Event) /\ events' # << >>
              /\ events'[1] = events[1] /\ Tail(events') \in Seq(Event)
  <2> DEFINE ev == Canceled(seq + 1, order, reason)
  <2>1. Removed(Alive, ev, Alive', order)
    BY <1>1, <1>10, AliveKilled
  <2>2. ev.seq = seq + 1 /\ seq' = seq + 1
    BY <1>10 DEF Canceled, Killed
  <2> HIDE DEF ev
  <2>3. Emitted(ev)
    BY <1>10 DEF ev
  <2>4. Cancels(ev)
    BY <2>1 DEF Cancels
  <2> QED BY <1>8, <2>2, <2>3, <2>4
<1>11. /\ Moved /\ Numbered' /\ events' \in Seq(Event) /\ events' # << >>
       /\ events'[1] = events[1] /\ Tail(events') \in Seq(Event)
  <2>1. CASE Silent /\ order' = NoOrder /\ events' = events
    <3>1. events' \in Seq(Event) /\ events' # << >> /\ Tail(events') \in Seq(Event)
          /\ events'[1] = events[1]
      BY <1>4, <2>1, HeadTailProperties
    <3>2. History' = History /\ Waiting' = [Waiting EXCEPT ![caller] = Tail(events')]
      BY <1>7, <3>1
    <3>3. Stays
      BY <1>4, <2>1, <3>2 DEF Queues, Stays, Silent
    <3>4. Alive' = Alive
      BY <1>1, <2>1, AliveSilent
    <3> QED BY <1>2, <1>5, <1>6, <3>1, <3>2, <3>3, <3>4, StaysNumbered DEF Moved
  <2> QED BY <1>3, <1>9, <1>10, <2>1
<1>12. ~Idle /\ caller \in Requests /\ requests[caller].stage = "reserved"
  BY <1>3 DEF Base, Served, Idle
<1> QED BY <1>7, <1>11, <1>12

LEMMA CancelMoves ==
  ASSUME Base, NEW user \in Users, NEW id \in 1..MaxOrders, UserCancel(user, id)
  PROVE  /\ Idle /\ Idle' /\ Moved /\ Numbered'
         /\ Longer
<1>1. Cancel(user, id) /\ stream' = stream \o events' /\ todo' = todo /\ IInv /\ TotalsExact(book)
  BY DEF UserCancel, Base, PInv
<1>2. IInv' /\ seq' \in Nat
  BY EngineMoves
<1>3. /\ order = NoOrder /\ order' = NoOrder
      /\ \/ Silent /\ UNCHANGED book /\ events' = << >>
         \/ Withdrawn(id) /\ Emitted(Canceled(seq + 1, GetOrder(book, id), "USER"))
  BY <1>1, CancelSteps
<1>4. /\ History = stream /\ History' = stream' /\ stream \in Seq(Event)
      /\ Waiting = todo /\ Waiting' = todo /\ seq \in Nat
  <2>1. todo \in Queues /\ Waiting = todo /\ seq \in Nat
    BY <1>3, WaitingTerms DEF Idle
  <2>2. Waiting' = todo
    BY <1>1, <1>3, <2>1 DEF Waiting, Idle, Queues
  <2> QED BY <1>3, <2>1, <2>2, HistoryType DEF History, Idle
<1>5. nextId' = nextId
  BY <1>1 DEF Cancel, CancelHit, CancelMiss
<1>6. CASE Silent /\ UNCHANGED book /\ events' = << >>
  <2>1. stream' = stream /\ Alive' = Alive
    BY <1>1, <1>3, <1>4, <1>6 DEF Alive
  <2>2. Stays
    BY <1>4, <1>6 DEF Stays, Silent
  <2> QED BY <1>2, <1>3, <1>4, <1>5, <2>1, <2>2, StaysNumbered DEF Moved, Idle, Longer
<1>7. CASE Withdrawn(id) /\ Emitted(Canceled(seq + 1, GetOrder(book, id), "USER"))
  <2> DEFINE ev == Canceled(seq + 1, GetOrder(book, id), "USER")
  <2>1. Removed(Alive, ev, Alive', GetOrder(book, id))
    BY <1>1, <1>7, AliveWithdrawn
  <2>2. ev.seq = seq + 1 /\ seq' = seq + 1
    BY <1>7 DEF Canceled, Withdrawn
  <2> HIDE DEF ev
  <2>3. Emitted(ev)
    BY <1>7 DEF ev
  <2>4. ev \in Event /\ events' = << ev >>
    BY <1>1, <1>2, <1>3, <2>3, EmittedEvent DEF Emitted
  <2>5. stream' = Append(stream, ev)
    BY <1>1, <1>4, <2>4
  <2>6. Advanced(ev)
    BY <1>4, <2>4, <2>5, HistoryGrows
  <2>7. Numbered' /\ Unsent' = Unsent
    BY <1>2, <1>4, <2>2, StaysNumbered DEF Stays
  <2>8. ev \notin Unsent
    BY <2>2, <2>4, NewUnsent
  <2>9. Cancels(ev)
    BY <2>1 DEF Cancels
  <2>10. Moved
    BY <1>4, <1>5, <2>4, <2>6, <2>7, <2>8, <2>9 DEF Moved
  <2> QED BY <1>3, <2>4, <2>5, <2>7, <2>10 DEF Idle, Longer
<1> QED BY <1>3, <1>6, <1>7

LEMMA AppendMoves ==
  ASSUME Base, NEW g \in Requests, AppendNext(g)
  PROVE  /\ Idle /\ Idle' /\ Moved /\ Numbered' /\ Told'
         /\ Longer
<1>1. /\ Idle /\ todo[g] # << >> /\ stream' = Append(stream, Head(todo[g]))
      /\ todo' = [todo EXCEPT ![g] = Tail(todo[g])] /\ UNCHANGED vars /\ requests' = requests
  BY DEF AppendNext
<1>2. Idle' /\ book' = book /\ order' = order /\ seq' = seq /\ nextId' = nextId /\ events' = events
  BY <1>1 DEF vars, Idle
<1>3. /\ todo \in Queues /\ Waiting = todo /\ History = stream /\ stream \in Seq(Event)
  BY <1>1, WaitingTerms, HistoryType
<1>4. todo[g] \in Seq(Event) /\ Head(todo[g]) \in Event /\ Tail(todo[g]) \in Seq(Event)
  <2>1. todo[g] \in Seq(Event)
    BY <1>3 DEF Queues
  <2> QED BY <1>1, <2>1, HeadTailProperties
<1>5. todo' \in Queues /\ Waiting' = todo'
  <2>1. todo' \in Queues
    BY <1>1, <1>3, <1>4 DEF Queues
  <2> QED BY <1>2, <2>1 DEF Waiting, Queues
<1>6. Leaves(g)
  BY <1>1, <1>2, <1>3, <1>5 DEF Leaves
<1>7. Numbered' /\ Head(todo[g]) \in Unsent /\ Unsent' = Unsent \ {Head(todo[g])}
  BY <1>3, <1>6, LeavesNumbered
<1>8. Advanced(Head(todo[g]))
  <2>1. History' = Append(History, Head(todo[g]))
    BY <1>1, <1>2, <1>3 DEF History
  <2> QED BY <1>3, <1>4, <2>1, HistoryGrows
<1>9. Alive' = Alive
  BY <1>2 DEF Alive
<1>10. Told'
  <2>1. ASSUME NEW h \in Requests, requests'[h] # NotServing
        PROVE  todo'[h] = << >>
    <3>1. todo[h] = << >>
      BY <1>1, <2>1 DEF Base, Told
    <3>2. h # g
      BY <1>1, <3>1
    <3> QED BY <1>1, <1>3, <3>1, <3>2 DEF Queues
  <2> QED BY <1>5, <2>1 DEF Told
<1>11. Moved
  BY <1>2, <1>3, <1>7, <1>8, <1>9 DEF Moved
<1> QED BY <1>1, <1>2, <1>4, <1>7, <1>10, <1>11 DEF Longer

LEMMA ServedChange ==
  ASSUME Served, NEW g \in Requests, NEW r, IsRequest(r),
         requests' = [requests EXCEPT ![g] = r], order' = NoOrder, caller' = NoRequest
  PROVE  Served'
<1>1. /\ DOMAIN requests' = Requests /\ requests' = [h \in Requests |-> requests'[h]]
      /\ requests'[g] = r /\ \A h \in Requests \ {g} : requests'[h] = requests[h]
  BY DEF Served
<1> QED BY <1>1 DEF Served, Idle

LEMMA ServedSame ==
  ASSUME Served, requests' = requests, order' = order, caller' = caller
  PROVE  Served'
BY DEF Served, Idle

LEMMA EngineSame ==
  ASSUME Base, UNCHANGED vars
  PROVE  PInv' /\ TotalsExact(book)'
BY NextPInv, TotalsStep DEF Base, PInv

LEMMA StreamedLonger ==
  ASSUME Base, Longer, cursor' = cursor, known' = known
  PROVE  Streamed'
<1>1. /\ stream \in Seq(Event) /\ cursor \in Nat /\ cursor <= Len(stream)
      /\ known \in Nat /\ known <= Len(stream)
  BY DEF Base, Streamed
<1>2. CASE stream' = stream
  BY <1>1, <1>2 DEF Streamed
<1>3. CASE \E ev \in Event : stream' = Append(stream, ev)
  <2>1. stream' \in Seq(Event) /\ Len(stream) \in Nat /\ Len(stream') = Len(stream) + 1
    BY <1>1, <1>3
  <2>2. cursor <= Len(stream') /\ known <= Len(stream')
    BY <1>1, <2>1
  <2> QED BY <1>1, <2>1, <2>2 DEF Streamed
<1> QED BY <1>2, <1>3 DEF Longer

LEMMA BaseEngine ==
  ASSUME Base, "MARKET" \notin Types, OpenSet(Alive),
         \/ \E g \in Requests : Place(g)
         \/ RunMatcher
         \/ \E user \in Users, id \in 1..MaxOrders : UserCancel(user, id)
  PROVE  Base'
<1>1. PInv' /\ TotalsExact(book)' /\ seq' \in Nat
  BY EngineMoves
<1>2. /\ cursor' = cursor /\ known' = known
      /\ abandoned' \in Seq(Users \X Assets \X Nat)
  BY DEF Place, RunMatcher, UserCancel, ledgerVars, Base
<1>3. Served /\ Told
  BY DEF Base
<1>4. CASE \E g \in Requests : Place(g)
  <2>1. PICK g \in Requests : Place(g)
    BY <1>4
  <2>2. /\ Idle /\ requests[g].stage = "reserved" /\ requests[g] # NotServing
        /\ Stays /\ todo' = todo /\ Longer
        /\ \/ /\ Idle' /\ caller' = NoRequest
              /\ requests' = [requests EXCEPT ![g] =
                                [stage |-> "rejected", cmd |-> requests[g].cmd]]
           \/ ~Idle' /\ caller' = g /\ requests' = requests
    BY <2>1, PlaceMoves
  <2>3. IsRequest(requests[g])
    BY <1>3 DEF Served
  <2>4. IsRequest([stage |-> "rejected", cmd |-> requests[g].cmd])
    BY <2>2, <2>3, RequestTerms DEF IsRequest
  <2>5. ASSUME Idle', caller' = NoRequest,
               requests' = [requests EXCEPT ![g] =
                              [stage |-> "rejected", cmd |-> requests[g].cmd]]
        PROVE  Served' /\ Told'
    <3>1. Served'
      BY <1>3, <2>4, <2>5, ServedChange DEF Idle
    <3>2. \A h \in Requests : requests'[h] # NotServing => requests[h] # NotServing
      BY <1>3, <2>2, <2>5 DEF Served
    <3> QED BY <1>3, <2>2, <3>1, <3>2 DEF Told
  <2>6. ASSUME ~Idle', caller' = g, requests' = requests
        PROVE  Served' /\ Told'
    BY <1>3, <2>2, <2>6 DEF Served, Told
  <2>7. Streamed' /\ Numbered'
    BY <1>1, <1>2, <2>2, StreamedLonger, StaysNumbered
  <2> QED BY <1>1, <1>2, <2>2, <2>5, <2>6, <2>7 DEF Base
<1>5. CASE RunMatcher
  <2>1. /\ ~Idle /\ caller \in Requests /\ requests[caller].stage = "reserved"
        /\ Numbered' /\ Told' /\ Longer
        /\ \/ ~Idle' /\ caller' = caller /\ requests' = requests
           \/ /\ Idle' /\ caller' = NoRequest
              /\ requests' = [requests EXCEPT ![caller] = NotServing]
    BY <1>5, MatcherMoves
  <2>2. IsRequest(NotServing)
    BY DEF IsRequest
  <2>3. ASSUME ~Idle', caller' = caller, requests' = requests
        PROVE  Served'
    BY <1>3, <2>1, <2>3 DEF Served
  <2>4. ASSUME Idle', caller' = NoRequest,
               requests' = [requests EXCEPT ![caller] = NotServing]
        PROVE  Served'
    BY <1>3, <2>1, <2>2, <2>4, ServedChange DEF Idle
  <2>5. Streamed'
    BY <1>2, <2>1, StreamedLonger
  <2> QED BY <1>1, <1>2, <2>1, <2>3, <2>4, <2>5 DEF Base
<1>6. CASE \E user \in Users, id \in 1..MaxOrders : UserCancel(user, id)
  <2>1. /\ Idle /\ Idle' /\ Numbered' /\ Longer
        /\ requests' = requests /\ caller' = caller /\ todo' = todo
    BY <1>6, CancelMoves DEF UserCancel
  <2>2. Served' /\ Told' /\ Streamed'
    BY <1>2, <1>3, <2>1, StreamedLonger DEF Served, Told
  <2> QED BY <1>1, <1>2, <2>1, <2>2 DEF Base
<1> QED BY <1>4, <1>5, <1>6

LEMMA BaseAppend ==
  ASSUME Base, NEW g \in Requests, AppendNext(g)
  PROVE  Base'
<1>1. Idle /\ Idle' /\ Numbered' /\ Told' /\ Longer
  BY AppendMoves
<1>2. /\ UNCHANGED vars /\ requests' = requests /\ caller' = caller
      /\ cursor' = cursor /\ known' = known /\ abandoned' = abandoned
  BY DEF AppendNext, ledgerVars
<1>3. PInv' /\ TotalsExact(book)' /\ order' = order
  BY <1>2, EngineSame DEF vars
<1>4. Served' /\ Streamed'
  BY <1>1, <1>2, <1>3, ServedSame, StreamedLonger DEF Base
<1> QED BY <1>1, <1>2, <1>3, <1>4 DEF Base

(* Nobody touches the queues, and who starts to be served has an empty one. *)
LEMMA QueuesSame ==
  ASSUME Base, UNCHANGED vars, todo' = todo, caller' = caller,
         \A g \in Requests : requests'[g] # NotServing => todo[g] = << >>
  PROVE  Numbered' /\ Told' /\ Unsent' = Unsent
<1>1. order' = order /\ events' = events /\ seq' = seq /\ (Idle' <=> Idle) /\ seq \in Nat
  BY WaitingTerms DEF vars, Idle
<1>2. Waiting' = Waiting
  BY <1>1 DEF Waiting
<1>3. Numbered' /\ Unsent' = Unsent
  BY <1>1, <1>2, StaysNumbered DEF Stays
<1>4. Told'
  BY DEF Base, Told
<1> QED BY <1>3, <1>4

LEMMA BaseRequests ==
  ASSUME Base, NEW g \in Requests, ReserveFunds(g) \/ RollBack(g) \/ BreakOff(g)
  PROVE  Base' /\ Unsent' = Unsent
<1>1. Served /\ Streamed /\ Told /\ abandoned \in Seq(Users \X Assets \X Nat)
  BY DEF Base
<1>2. Idle /\ UNCHANGED vars /\ stream' = stream /\ cursor' = cursor /\ known' = known
      /\ caller' = caller /\ todo' = todo
  BY DEF ReserveFunds, RollBack, BreakOff, ledgerVars
<1>3. PInv' /\ TotalsExact(book)' /\ Streamed' /\ order' = NoOrder /\ caller' = NoRequest
  BY <1>1, <1>2, EngineSame DEF Streamed, vars, Idle, Served
<1>4. CASE ReserveFunds(g)
  <2>1. PICK cmd \in Command :
          /\ ReservationOf(cmd).amount > 0
          /\ requests' = [requests EXCEPT ![g] = [stage |-> "reserved", cmd |-> cmd]]
    BY <1>4 DEF ReserveFunds, CanReserve
  <2>2. IsRequest([stage |-> "reserved", cmd |-> cmd])
    BY <2>1 DEF IsRequest
  <2>3. Served'
    BY <1>1, <1>3, <2>1, <2>2, ServedChange
  <2>4. Numbered' /\ Told' /\ Unsent' = Unsent
    <3>1. todo[g] = << >>
      BY <1>4 DEF ReserveFunds
    <3>2. \A h \in Requests : requests'[h] # NotServing => todo[h] = << >>
      BY <1>1, <2>1, <3>1 DEF Told, Served
    <3> QED BY <1>2, <3>2, QueuesSame
  <2> QED BY <1>1, <1>3, <1>4, <2>3, <2>4 DEF Base, ReserveFunds
<1>5. CASE RollBack(g) \/ BreakOff(g)
  <2>1. requests' = [requests EXCEPT ![g] = NotServing]
    BY <1>5 DEF RollBack, BreakOff
  <2>2. Served'
    BY <1>1, <1>3, <2>1, ServedChange DEF IsRequest
  <2>3. requests[g] # NotServing
    <3>1. CASE RollBack(g)
      BY <3>1 DEF RollBack, NotServing
    <3>2. CASE BreakOff(g)
      BY <3>2 DEF BreakOff
    <3> QED BY <1>5, <3>1, <3>2
  <2>4. /\ requests[g].cmd.userId \in Users
        /\ ReservationOf(requests[g].cmd).asset \in Assets
        /\ ReservationOf(requests[g].cmd).amount \in Nat
    <3>1. requests[g].cmd \in Command
      BY <1>1, <2>3, RequestTerms DEF Served
    <3> QED BY <3>1, CommandTerms
  <2>5. abandoned' \in Seq(Users \X Assets \X Nat)
    <3>1. CASE abandoned' = abandoned
      BY <1>1, <3>1
    <3>2. CASE BreakOff(g)
      <4>1. abandoned' = Append(abandoned, <<requests[g].cmd.userId,
                                             ReservationOf(requests[g].cmd).asset,
                                             ReservationOf(requests[g].cmd).amount>>)
        BY <3>2 DEF BreakOff
      <4> QED BY <1>1, <2>4, <4>1
    <3> QED BY <1>5, <3>1, <3>2 DEF RollBack
  <2>6. Numbered' /\ Told' /\ Unsent' = Unsent
    <3>1. \A h \in Requests : requests'[h] # NotServing => todo[h] = << >>
      BY <1>1, <2>1 DEF Told, Served
    <3> QED BY <1>2, <3>1, QueuesSame
  <2> QED BY <1>1, <1>3, <2>2, <2>5, <2>6 DEF Base
<1> QED BY <1>4, <1>5

LEMMA BaseLedger ==
  ASSUME Base, Consume \/ Replay \/ LedgerRestart \/ FinishLedgerReset \/ StartLedgerReset
               \/ UNCHANGED allVars
  PROVE  Base' /\ Unsent' = Unsent
<1>1. Served /\ Streamed /\ Told /\ abandoned \in Seq(Users \X Assets \X Nat)
  BY DEF Base
<1>2. UNCHANGED vars /\ stream' = stream /\ requests' = requests /\ caller' = caller
      /\ todo' = todo
  BY DEF Consume, Replay, LedgerRestart, FinishLedgerReset, StartLedgerReset, allVars,
         exchangeVars
<1>3. PInv' /\ TotalsExact(book)' /\ Served' /\ Numbered' /\ Told' /\ Unsent' = Unsent
  <2>1. Numbered' /\ Told' /\ Unsent' = Unsent
    BY <1>1, <1>2, QueuesSame DEF Told
  <2> QED BY <1>1, <1>2, <2>1, EngineSame, ServedSame DEF vars
<1>4. abandoned' \in {abandoned, << >>}
  BY DEF Consume, Replay, LedgerRestart, FinishLedgerReset, StartLedgerReset, allVars,
         exchangeVars, StartOver
<1>5. abandoned' \in Seq(Users \X Assets \X Nat)
  <2> DEFINE X == Users \X Assets \X Nat
  <2> HIDE DEF X
  <2>1. << >> \in Seq(X)
    OBVIOUS
  <2>2. abandoned \in Seq(X)
    BY <1>1 DEF X
  <2>3. abandoned' \in Seq(X)
    BY <1>4, <2>1, <2>2
  <2> QED BY <2>3 DEF X
<1>6. Len(stream) \in Nat /\ stream \in Seq(Event) /\ cursor \in Nat /\ cursor <= Len(stream)
      /\ known \in Nat /\ known <= Len(stream)
  BY <1>1 DEF Streamed
<1>7. /\ cursor' \in Nat /\ cursor' <= Len(stream)
      /\ known' \in Nat /\ known' <= Len(stream)
  <2>1. CASE Consume
    BY <1>6, <2>1 DEF Consume
  <2>2. CASE Replay
    BY <1>6, <2>2 DEF Replay
  <2>3. CASE LedgerRestart \/ FinishLedgerReset
    BY <1>6, <2>3 DEF LedgerRestart, FinishLedgerReset, StartOver
  <2>4. CASE StartLedgerReset \/ UNCHANGED allVars
    BY <1>6, <2>4 DEF StartLedgerReset, allVars, exchangeVars, ledgerVars
  <2> QED BY <2>1, <2>2, <2>3, <2>4
<1> QED BY <1>2, <1>3, <1>5, <1>6, <1>7 DEF Base, Streamed

(* A reset that no append loop runs through.                               *)
LEMMA BaseReset ==
  ASSUME Base, ResetEngine, ~overlapped'
  PROVE  Base' /\ Unsent' = {}
<1>1. /\ Idle /\ book' = EmptyBook /\ seq' = 0 /\ seen' = {} /\ events' = << >>
      /\ nextId' = nextId /\ order' = order
      /\ stream' = << >> /\ cursor' = 0 /\ known' = 0
      /\ requests' = requests /\ caller' = caller /\ abandoned' = abandoned
      /\ todo' = todo /\ Appending = {}
  BY DEF ResetEngine
<1>2. Served /\ Told /\ IInv /\ abandoned \in Seq(Users \X Assets \X Nat)
  BY DEF Base, PInv
<1>3. PInv'
  <2>1. /\ BookWellFormed(EmptyBook)
        /\ \A s \in Sides : PricesOn(EmptyBook, s) = {}
        /\ \A id : ~IsResting(EmptyBook, id)
    BY EmptyBookWellFormed
  <2>2. order' = NoOrder /\ nextId \in Nat
    BY <1>1, <1>2 DEF Idle, IInv, TypeOK
  <2>3. TypeOK'
    BY <1>1, <2>1, <2>2 DEF TypeOK, BookWellFormed
  <2>4. BookUncrossed' /\ IdsOld'
    BY <1>1, <2>1, <2>2 DEF BookUncrossed, Uncrossed, IdsOld, Sides
  <2>5. CallOpened' /\ TradesFair'
    BY <1>1, <2>2 DEF CallOpened, TradesFair, TradesOf
  <2> QED BY <1>1, <2>1, <2>3, <2>4, <2>5 DEF PInv, IInv
<1>4. TotalsExact(book)'
  BY <1>1, EmptyBookWellFormed DEF TotalsExact
<1>5. Streamed'
  BY <1>1 DEF Streamed
<1>6. Served' /\ Told'
  BY <1>1, <1>2, ServedSame DEF Told
<1>7. Numbered' /\ Unsent' = {}
  <2>1. \A g \in Requests : todo'[g] = << >>
    BY <1>1 DEF Appending
  <2>2. Waiting' = todo'
    BY <1>1, <1>6 DEF Waiting, Idle, Told, Queues
  <2>3. \A g \in Requests : Len(Waiting'[g]) = 0
    BY <2>1, <2>2
  <2>4. \A g \in Requests : ~\E i : i \in 1..Len(Waiting'[g])
    BY <2>3
  <2>5. Unsent' = {} /\ Apart(Waiting)'
    BY <2>4 DEF Unsent, Queued, Apart
  <2> QED BY <2>5 DEF Numbered
<1> QED BY <1>1, <1>2, <1>3, <1>4, <1>5, <1>6, <1>7 DEF Base

-----------------------------------------------------------------------------
(* What requests hold that no event has accounted for: the reservations of *)
(* those the gateway is serving, but for the one whose order the running   *)
(* call has accepted, and what is lost.                                    *)

Claim(r, v, b) ==
  IF r = NotServing THEN 0 ELSE Share(r.cmd.userId, r.cmd.side, r.cmd.price, r.cmd.qty, v, b)

ClaimsAt(reqs, c, v, b) ==
  [g \in Requests |-> IF g = c THEN 0 ELSE Claim(reqs[g], v, b)]

Requested(reqs, c, v, b) == Sigma(ClaimsAt(reqs, c, v, b), Requests)

Forfeit(x, v, b) == For(x[1], x[2], x[3], v, b)

ForfeitsAt(lost, v, b) == [i \in 1..Len(lost) |-> Forfeit(lost[i], v, b)]

Forfeited(lost, v, b) == Sigma(ForfeitsAt(lost, v, b), 1..Len(lost))

AllRequests(reqs) == \A g \in Requests : IsRequest(reqs[g])

LEMMA ClaimType ==
  ASSUME NEW r, IsRequest(r), NEW v, NEW b
  PROVE  Claim(r, v, b) \in Nat
<1>1. CASE r = NotServing
  BY <1>1 DEF Claim
<1>2. CASE r # NotServing
  <2>1. r.cmd \in Command
    BY <1>2, RequestTerms
  <2>2. r.cmd.side \in Sides /\ r.cmd.price \in Nat /\ r.cmd.qty \in Nat
    BY <2>1, CommandTerms
  <2>3. Share(r.cmd.userId, r.cmd.side, r.cmd.price, r.cmd.qty, v, b) \in Nat
    BY <2>2, ReserveType
  <2> QED BY <1>2, <2>3 DEF Claim
<1> QED BY <1>1, <1>2

LEMMA ClaimIs ==
  ASSUME NEW r, r # NotServing, NEW v, NEW b
  PROVE  Claim(r, v, b) = For(r.cmd.userId, ReservationOf(r.cmd).asset,
                              ReservationOf(r.cmd).amount, v, b)
BY DEF Claim, Share, ReservationOf

LEMMA ClaimsWeigh ==
  ASSUME NEW reqs, AllRequests(reqs), NEW c, NEW v, NEW b
  PROVE  /\ Weighs(ClaimsAt(reqs, c, v, b), Requests)
         /\ Requested(reqs, c, v, b) \in Nat
         /\ \A g \in Requests : ClaimsAt(reqs, c, v, b)[g] \in Nat
         /\ \A g \in Requests : g # c => Claim(reqs[g], v, b) <= Requested(reqs, c, v, b)
<1> DEFINE w == ClaimsAt(reqs, c, v, b)
<1>1. IsFiniteSet(Requests)
  BY ExchangeAssumption
<1>2. \A g \in Requests : w[g] = IF g = c THEN 0 ELSE Claim(reqs[g], v, b)
  BY DEF ClaimsAt
<1>3. \A g \in Requests : w[g] \in Nat
  BY <1>2, ClaimType DEF AllRequests
<1> HIDE DEF w
<1>4. Weighs(w, Requests)
  BY <1>1, <1>3 DEF Weighs
<1>5. Sigma(w, Requests) \in Nat
  BY <1>1, <1>3, SigmaMonotonic
<1>6. ASSUME NEW g \in Requests
      PROVE  w[g] <= Sigma(w, Requests)
  <2>1. Sigma(w, Requests) = w[g] + Sigma(w, Requests \ {g})
    BY <1>4, SigmaLaws
  <2>2. IsFiniteSet(Requests \ {g}) /\ \A h \in Requests \ {g} : w[h] \in Nat
    BY <1>1, <1>3, FS_Subset
  <2>3. Sigma(w, Requests \ {g}) \in Nat
    BY <2>2, SigmaMonotonic
  <2> QED BY <1>3, <1>5, <2>1, <2>3
<1> QED BY <1>2, <1>3, <1>4, <1>5, <1>6 DEF Requested, w

(* One request changes, or the matcher turns to it.                        *)
LEMMA RequestedChange ==
  ASSUME NEW reqs, AllRequests(reqs), NEW later, AllRequests(later), NEW c, NEW d,
         NEW g \in Requests, \A h \in Requests \ {g} : later[h] = reqs[h] /\ (h = d <=> h = c),
         NEW v, NEW b
  PROVE  Requested(later, d, v, b) =
           Requested(reqs, c, v, b) - (IF g = c THEN 0 ELSE Claim(reqs[g], v, b))
                                    + (IF g = d THEN 0 ELSE Claim(later[g], v, b))
<1> DEFINE w == ClaimsAt(reqs, c, v, b)  u == ClaimsAt(later, d, v, b)
<1>1. /\ Weighs(w, Requests) /\ Weighs(u, Requests)
      /\ w[g] \in Nat /\ u[g] \in Nat /\ Requested(reqs, c, v, b) \in Nat
  BY ClaimsWeigh
<1>2. /\ w[g] = IF g = c THEN 0 ELSE Claim(reqs[g], v, b)
      /\ u[g] = IF g = d THEN 0 ELSE Claim(later[g], v, b)
      /\ \A h \in Requests \ {g} : u[h] = w[h]
  BY DEF ClaimsAt
<1> HIDE DEF w, u
<1>3. Sigma(u, Requests) = Sigma(w, Requests) + u[g] - w[g]
  BY <1>1, <1>2, SigmaChange
<1>4. Requested(later, d, v, b) = Sigma(u, Requests) /\ Requested(reqs, c, v, b) = Sigma(w, Requests)
  BY DEF Requested, w, u
<1>5. Requested(later, d, v, b) = Requested(reqs, c, v, b) + u[g] - w[g]
  BY <1>3, <1>4
<1>6. Requested(later, d, v, b) = Requested(reqs, c, v, b) - w[g] + u[g]
  BY <1>1, <1>5
<1> QED BY <1>2, <1>6

LEMMA NothingRequested ==
  ASSUME NEW reqs, \A g \in Requests : reqs[g] = NotServing, NEW c, NEW v, NEW b
  PROVE  Requested(reqs, c, v, b) = 0
<1> DEFINE w == ClaimsAt(reqs, c, v, b)
<1>1. \A g \in Requests : w[g] = 0
  BY DEF ClaimsAt, Claim
<1> HIDE DEF w
<1>2. IsFiniteSet(Requests) /\ Weighs(w, Requests) /\ Weighs(w, {})
  BY <1>1, ExchangeAssumption, FS_EmptySet DEF Weighs
<1>3. Sigma(w, {}) = Sigma(w, Requests) /\ Sigma(w, {}) = 0
  BY <1>1, <1>2, SigmaPart, SigmaLaws
<1> QED BY <1>3 DEF Requested, w

LEMMA ForfeitLaws ==
  ASSUME NEW lost \in Seq(Users \X Assets \X Nat), NEW v, NEW b
  PROVE  /\ Weighs(ForfeitsAt(lost, v, b), 1..Len(lost))
         /\ Forfeited(lost, v, b) \in Nat
         /\ Forfeited(<< >>, v, b) = 0
<1> DEFINE w == ForfeitsAt(lost, v, b)  n == Len(lost)
<1>1. n \in Nat /\ IsFiniteSet(1..n)
  BY FS_Interval
<1>2. \A i \in 1..n : w[i] \in Nat
  <2> SUFFICES ASSUME NEW i \in 1..n PROVE w[i] \in Nat
    OBVIOUS
  <2>1. lost[i] \in Users \X Assets \X Nat
    OBVIOUS
  <2>2. lost[i][3] \in Nat
    BY <2>1
  <2> QED BY <2>2 DEF ForfeitsAt, Forfeit, For
<1> HIDE DEF w, n
<1>3. Weighs(w, 1..n) /\ Sigma(w, 1..n) \in Nat
  BY <1>1, <1>2, SigmaMonotonic DEF Weighs
<1>4. Forfeited(<< >>, v, b) = 0
  <2>1. 1..Len(<< >>) = {}
    OBVIOUS
  <2>2. Weighs(ForfeitsAt(<< >>, v, b), {})
    BY FS_EmptySet DEF Weighs
  <2>3. Sigma(ForfeitsAt(<< >>, v, b), {}) = 0
    BY <2>2, SigmaLaws
  <2> QED BY <2>1, <2>3 DEF Forfeited
<1> QED BY <1>3, <1>4 DEF Forfeited, w, n

LEMMA ForfeitAppended ==
  ASSUME NEW lost \in Seq(Users \X Assets \X Nat), NEW x \in Users \X Assets \X Nat,
         NEW v, NEW b
  PROVE  /\ Forfeit(x, v, b) \in Nat
         /\ Forfeited(Append(lost, x), v, b) = Forfeited(lost, v, b) + Forfeit(x, v, b)
<1> DEFINE later == Append(lost, x)
<1> DEFINE w == ForfeitsAt(lost, v, b)  u == ForfeitsAt(later, v, b)  n == Len(lost)
<1>1. /\ later \in Seq(Users \X Assets \X Nat) /\ Len(later) = n + 1 /\ later[n + 1] = x
      /\ \A i \in 1..n : later[i] = lost[i]
      /\ n \in Nat
  OBVIOUS
<1> HIDE DEF later
<1>2. Weighs(w, 1..n) /\ Weighs(u, 1..(n + 1)) /\ Forfeited(lost, v, b) \in Nat
  BY <1>1, ForfeitLaws
<1>3. /\ \A i \in 1..n : u[i] = w[i]
      /\ u[n + 1] = Forfeit(x, v, b)
  BY <1>1 DEF ForfeitsAt
<1>4. x[3] \in Nat
  OBVIOUS
<1>5. Forfeit(x, v, b) \in Nat
  BY <1>4 DEF Forfeit, For
<1> HIDE DEF w, u, n
<1>6. (1..(n + 1)) \ {n + 1} = 1..n /\ n + 1 \in 1..(n + 1)
  BY <1>1
<1>7. Sigma(u, 1..(n + 1)) = u[n + 1] + Sigma(u, 1..n)
  <2>1. \A i \in 1..(n + 1) :
          Sigma(u, 1..(n + 1)) = u[i] + Sigma(u, (1..(n + 1)) \ {i})
    BY <1>2, SigmaLaws
  <2> QED BY <1>6, <2>1
<1>8. Sigma(u, 1..n) = Sigma(w, 1..n)
  BY <1>2, <1>3, SigmaSame
<1>9. Forfeited(later, v, b) = Sigma(u, 1..(n + 1)) /\ Forfeited(lost, v, b) = Sigma(w, 1..n)
  BY <1>1 DEF Forfeited, u, w, n
<1> QED BY <1>2, <1>3, <1>5, <1>7, <1>8, <1>9 DEF later

-----------------------------------------------------------------------------
(* The invariant. *)

(* What is accepted or reserved and not in the accounts of the first i     *)
(* events of s.                                                            *)
Pending(s, i, reqs, c, lost, v, b) ==
  Locks(s, i, v, b) + Requested(reqs, c, v, b) + Forfeited(lost, v, b)

(* Those accounts have it free.                                            *)
Funded(s, i, reqs, c, lost) ==
  \A v \in Holders : \A b \in Assets :
    FreeOf(Before(s, i), v, b) >= Pending(s, i, reqs, c, lost, v, b)

(* In the live ledger it is locked instead; there is no other difference.  *)
Tracks(l, s, i, reqs, c, lost) ==
  /\ l.openBuys = Before(s, i).openBuys
  /\ \A v \in Holders : \A b \in Assets :
       /\ FreeOf(l, v, b) = FreeOf(Before(s, i), v, b) - Pending(s, i, reqs, c, lost, v, b)
       /\ LockedOf(l, v, b) = LockedOf(Before(s, i), v, b) + Pending(s, i, reqs, c, lost, v, b)

Backed(s, S) == Accounted(s) /\ OpenSet(S) /\ Owes(Rebuild(s), S, s)

(* The accounts owe to the orders that are open where the stream ends; the  *)
(* events on the way lead from them to the orders that the engine has open. *)
Borne(s, A, P, n) == \E W : Backed(s, W) /\ Linked(W, A, P, s, n)

Whole(l) == LedgerOK(l) /\ \A a \in Assets : Held(l, a) = Endowed(a)

NoRequests(reqs) == \A g \in Requests : reqs[g] = NotServing

NoneAccepted(s, k) == \A i \in 1..Len(s) : i > k => s[i].kind # "OrderAccepted"

Sound ==
  /\ Whole(ledger) /\ errors = 0
  /\ Borne(History, Alive, Unsent, nextId)
  /\ outdated => /\ stream = << >> /\ Idle /\ NoRequests(requests) /\ reset # "no"
                 /\ Alive = {} /\ Unsent = {}
  /\ phase \in {"live", "replay"}
  /\ ~outdated /\ phase = "live" =>
       /\ Funded(History, cursor, requests, caller, abandoned)
       /\ reset # "ledger" => Tracks(ledger, History, cursor, requests, caller, abandoned)
  /\ phase = "replay" =>
       /\ ledger = FreshLedger /\ cursor = 0
       /\ NoRequests(requests) /\ abandoned = << >>
       /\ NoneAccepted(History, known)

XInv == ~overlapped => Base /\ Sound

LEMMA HistoryTerms ==
  ASSUME Base
  PROVE  /\ History \in Seq(Event) /\ Len(History) \in Nat
         /\ cursor \in 0..Len(History) /\ known \in 0..Len(History)
         /\ Len(stream) \in Nat /\ Len(stream) <= Len(History)
         /\ Idle => History = stream
<1>1. /\ stream \in Seq(Event) /\ cursor \in Nat /\ cursor <= Len(stream)
      /\ known \in Nat /\ known <= Len(stream)
  BY DEF Base, Streamed
<1>2. History \in Seq(Event) /\ Len(History) \in Nat /\ Len(stream) <= Len(History)
  <2>1. CASE Idle
    BY <1>1, <2>1, HistoryType
  <2>2. CASE ~Idle
    <3>1. History = Append(stream, events[1]) /\ events[1] \in Event
      BY <2>2, HistoryType
    <3>2. Len(Append(stream, events[1])) = Len(stream) + 1 /\ Len(stream) \in Nat
      BY <1>1, <3>1, Joined
    <3> QED BY <3>1, <3>2, HistoryType
  <2> QED BY <2>1, <2>2
<1> QED BY <1>1, <1>2, HistoryType

LEMMA PendingTerms ==
  ASSUME NEW s \in Seq(Event), NEW i \in 0..Len(s), NEW reqs, AllRequests(reqs), NEW c,
         NEW lost \in Seq(Users \X Assets \X Nat), NEW v, NEW b
  PROVE  /\ Pending(s, i, reqs, c, lost, v, b) \in Nat
         /\ Locks(s, i, v, b) \in Nat /\ Requested(reqs, c, v, b) \in Nat
         /\ Forfeited(lost, v, b) \in Nat
<1>1. Locks(s, i, v, b) \in Nat
  BY LocksLaws
<1>2. Requested(reqs, c, v, b) \in Nat
  BY ClaimsWeigh
<1>3. Forfeited(lost, v, b) \in Nat
  BY ForfeitLaws
<1> QED BY <1>1, <1>2, <1>3 DEF Pending

SamePending(s, i, reqs, c, lost, t, later, d, more) ==
  \A v \in Holders : \A b \in Assets :
    Pending(t, i, later, d, more, v, b) = Pending(s, i, reqs, c, lost, v, b)

LEMMA LiveKept ==
  ASSUME NEW l, NEW s, NEW t, NEW i, Before(t, i) = Before(s, i),
         NEW reqs, NEW c, NEW lost, NEW later, NEW d, NEW more,
         SamePending(s, i, reqs, c, lost, t, later, d, more)
  PROVE  /\ Funded(s, i, reqs, c, lost) => Funded(t, i, later, d, more)
         /\ Tracks(l, s, i, reqs, c, lost) => Tracks(l, t, i, later, d, more)
BY DEF Funded, Tracks, SamePending

LEMMA BackedGrows ==
  ASSUME NEW s, NEW S, Backed(s, S), NEW ev \in Event, NEW T, Settles(s, S, ev, T),
         Affordable(Rebuild(s), ev), NEW t, Continues(s, t, ev)
  PROVE  Backed(t, T)
<1>1. /\ Accounted(s) /\ OpenSet(S) /\ Owes(Rebuild(s), S, s)
      /\ s \in Seq(Event) /\ t \in Seq(Event) /\ Extends(s, t, ev)
  BY DEF Backed, Accounted, Continues
<1>2. Solvent(Rebuild(s))
  <2>1. Len(s) \in 0..Len(s) /\ Before(s, Len(s)) = Rebuild(s)
    BY <1>1, BeforeLaws
  <2>2. Solvent(Before(s, Len(s)))
    BY <1>1, <2>1 DEF Accounted
  <2> QED BY <2>1, <2>2
<1>3. OpenSet(T) /\ Balanced(Rebuild(s), S, ev, t, T) /\ Payable(Rebuild(s), ev, "replay")
  BY <1>1, <1>2, OwesPays
<1>4. Accounted(t) /\ Applied(Rebuild(s), Rebuild(t), ev, "replay")
  BY <1>1, <1>3, AccountedGrows
<1>5. Owes(Rebuild(t), T, t)
  BY <1>1, <1>2, <1>3, <1>4, OwesKept
<1> QED BY <1>3, <1>4, <1>5 DEF Backed

LEMMA BorneTerms ==
  ASSUME NEW s, NEW A, NEW P, NEW n, Borne(s, A, P, n)
  PROVE  /\ Accounted(s) /\ OpenSet(A) /\ n \in Nat
         /\ \A ev \in P : ev \in Event /\ ev.kind \in {"Trade", "OrderCanceled"}
<1>1. PICK W : Backed(s, W) /\ Linked(W, A, P, s, n)
  BY DEF Borne
<1>2. OpenSet(A)
  BY <1>1, LinkTerms
<1>3. n \in Nat /\ P \in SUBSET Event /\ \A ev \in P : Fits(W, ev)
  BY <1>1 DEF Linked
<1> QED BY <1>1, <1>2, <1>3 DEF Backed, Fits, Crossed, Withdraws

LEMMA BorneQueues ==
  ASSUME NEW s, NEW A, NEW P, NEW n, Borne(s, A, P, n), NEW ev \in Event, ev \notin P,
         NEW B, \/ \E taker, maker, q : Exchanged(A, ev, B, taker, maker, q)
                \/ \E o : Removed(A, ev, B, o)
  PROVE  Borne(s, B, P \cup {ev}, n)
<1>1. PICK W : Backed(s, W) /\ Linked(W, A, P, s, n)
  BY DEF Borne
<1>2. Linked(W, B, P \cup {ev}, s, n)
  BY <1>1, LinkQueues
<1> QED BY <1>1, <1>2 DEF Borne

LEMMA BorneSends ==
  ASSUME NEW s \in Seq(Event), NEW A, NEW P, NEW n, Borne(s, A, P, n), NEW ev \in P,
         NEW t, Continues(s, t, ev)
  PROVE  Borne(t, A, P \ {ev}, n)
<1>1. PICK W : Backed(s, W) /\ Linked(W, A, P, s, n)
  BY DEF Borne
<1>2. t \in Seq(Event) /\ Extends(s, t, ev)
  BY DEF Continues
<1>3. PICK T : Settles(s, W, ev, T) /\ Linked(T, A, P \ {ev}, t, n)
  BY <1>1, <1>2, LinkSends
<1>4. ev \in Event /\ Affordable(Rebuild(s), ev)
  BY BorneTerms DEF Affordable
<1>5. Backed(t, T)
  BY <1>1, <1>3, <1>4, BackedGrows
<1> QED BY <1>3, <1>5 DEF Borne

LEMMA BorneCancels ==
  ASSUME NEW s \in Seq(Event), NEW A, NEW P, NEW n, Borne(s, A, P, n),
         NEW ev \in Event, ev \notin P, NEW B, NEW o, Removed(A, ev, B, o),
         NEW t, Continues(s, t, ev)
  PROVE  Borne(t, B, P, n)
<1>1. PICK W : Backed(s, W) /\ Linked(W, A, P, s, n)
  BY DEF Borne
<1>2. t \in Seq(Event) /\ Extends(s, t, ev)
  BY DEF Continues
<1>3. PICK T : Settles(s, W, ev, T) /\ Linked(T, B, P, t, n)
  BY <1>1, <1>2, LinkCancels
<1>4. Affordable(Rebuild(s), ev)
  BY DEF Affordable, Removed
<1>5. Backed(t, T)
  BY <1>1, <1>3, <1>4, BackedGrows
<1> QED BY <1>3, <1>5 DEF Borne

LEMMA BorneAdds ==
  ASSUME NEW s \in Seq(Event), NEW A, NEW P, NEW n, Borne(s, A, P, n),
         NEW ev \in Event, NEW B, Added(A, ev, B), ev.order.orderId >= n,
         NEW m \in Nat, m > ev.order.orderId, Affordable(Rebuild(s), ev),
         NEW t, Continues(s, t, ev)
  PROVE  Borne(t, B, P, m)
<1>1. PICK W : Backed(s, W) /\ Linked(W, A, P, s, n)
  BY DEF Borne
<1>2. t \in Seq(Event) /\ Extends(s, t, ev)
  BY DEF Continues
<1>3. PICK T : Settles(s, W, ev, T) /\ Linked(T, B, P, t, m)
  BY <1>1, <1>2, LinkAdds
<1>4. Backed(t, T)
  BY <1>1, <1>3, BackedGrows
<1> QED BY <1>3, <1>4 DEF Borne

LEMMA BorneRejects ==
  ASSUME NEW s \in Seq(Event), NEW A, NEW P, NEW n, Borne(s, A, P, n),
         NEW ev \in Event, ev.kind = "OrderRejected", NEW m \in Nat, m >= n,
         NEW t, Continues(s, t, ev)
  PROVE  Borne(t, A, P, m)
<1>1. PICK W : Backed(s, W) /\ Linked(W, A, P, s, n)
  BY DEF Borne
<1>2. t \in Seq(Event) /\ Extends(s, t, ev)
  BY DEF Continues
<1>3. Settles(s, W, ev, W) /\ Linked(W, A, P, t, m)
  BY <1>1, <1>2, LinkRejects
<1>4. Affordable(Rebuild(s), ev)
  BY DEF Affordable
<1>5. Backed(t, W)
  BY <1>1, <1>3, <1>4, BackedGrows
<1> QED BY <1>3, <1>5 DEF Borne

LEMMA BorneNothing ==
  ASSUME NEW n \in Nat
  PROVE  Borne(<< >>, {}, {}, n)
<1>1. Rebuild(<< >>) = FreshLedger
  BY RebuildLaws
<1>2. Backed(<< >>, {})
  BY <1>1, AccountedEmpty, OwesNothing DEF Backed
<1> QED BY <1>2, LinkNothing DEF Borne

-----------------------------------------------------------------------------
(* The engine's steps. *)

LEMMA Serving ==
  ASSUME Sound, NEW g \in Requests, requests[g] # NotServing
  PROVE  ~outdated /\ phase = "live" /\ Funded(History, cursor, requests, caller, abandoned)
BY DEF Sound, NoRequests

(* An event leaves the accounts of the events before it, and adds to what  *)
(* is locked after them.                                                   *)
LEMMA AdvancedHistory ==
  ASSUME Base, NEW ev, Advanced(ev)
  PROVE  /\ Before(History', cursor) = Before(History, cursor)
         /\ \A v, b : Locks(History', cursor, v, b) = Locks(History, cursor, v, b) + Lock(ev, v, b)
         /\ NoneAccepted(History, known) /\ ev.kind # "OrderAccepted" => NoneAccepted(History', known)
<1>1. /\ History \in Seq(Event) /\ cursor \in 0..Len(History) /\ Len(History) \in Nat
      /\ known \in 0..Len(History)
  BY HistoryTerms
<1>2. ev \in Event /\ Continues(History, History', ev)
  BY DEF Advanced
<1>3. /\ History' \in Seq(Event) /\ Extends(History, History', ev)
      /\ \A i \in 0..Len(History) : Before(History', i) = Before(History, i)
  BY <1>2 DEF Continues
<1> DEFINE s == History  t == History'
<1>4. s \in Seq(Event) /\ t \in Seq(Event) /\ Extends(s, t, ev)
  BY <1>1, <1>3
<1> HIDE DEF s, t
<1>5. ASSUME NEW v, NEW b
      PROVE  \A i \in 0..Len(s) : Locks(t, i, v, b) = Locks(s, i, v, b) + Lock(ev, v, b)
  BY <1>2, <1>4, LocksAppend
<1>6. \A v, b : Locks(t, cursor, v, b) = Locks(s, cursor, v, b) + Lock(ev, v, b)
  BY <1>1, <1>5 DEF s
<1>7. ASSUME NoneAccepted(s, known), ev.kind # "OrderAccepted"
      PROVE  NoneAccepted(t, known)
  <2> SUFFICES ASSUME NEW i \in 1..Len(t), i > known PROVE t[i].kind # "OrderAccepted"
    BY DEF NoneAccepted
  <2>1. CASE i = Len(s) + 1
    BY <1>4, <1>7, <2>1 DEF Extends
  <2>2. CASE i # Len(s) + 1
    <3>1. i \in 1..Len(s) /\ t[i] = s[i]
      BY <1>1, <1>4, <2>2 DEF Extends, s
    <3> QED BY <1>7, <3>1 DEF NoneAccepted
  <2> QED BY <2>1, <2>2
<1> QED BY <1>1, <1>3, <1>6, <1>7 DEF s, t

LEMMA MovedHistory ==
  ASSUME Base, Sound, Moved
  PROVE  /\ Borne(History', Alive', Unsent', nextId')
         /\ Before(History', cursor) = Before(History, cursor)
         /\ \A v, b : Locks(History', cursor, v, b) = Locks(History, cursor, v, b)
         /\ NoneAccepted(History, known) => NoneAccepted(History', known)
<1> DEFINE s == History  t == History'  A == Alive  B == Alive'  P == Unsent  Q == Unsent'
           n == nextId  m == nextId'
<1>1. Borne(s, A, P, n) /\ s \in Seq(Event) /\ m = n
  BY HistoryTerms DEF Sound, Moved
<1>2. \/ t = s /\ B = A /\ Q = P
      \/ \E ev \in Event \ P : /\ \/ \E taker, maker, q : Exchanged(A, ev, B, taker, maker, q)
                                  \/ \E o : Removed(A, ev, B, o)
                               /\ t = s /\ Q = P \cup {ev}
      \/ \E ev \in Event \ P : (\E o : Removed(A, ev, B, o)) /\ Advanced(ev) /\ Q = P
      \/ \E ev \in P : Advanced(ev) /\ B = A /\ Q = P \ {ev}
  BY DEF Moved, Trades, Cancels
<1>3. ASSUME NEW ev, Advanced(ev), ev.kind # "OrderAccepted"
      PROVE  /\ ev \in Event /\ Continues(s, t, ev)
             /\ Before(t, cursor) = Before(s, cursor)
             /\ \A v, b : Locks(t, cursor, v, b) = Locks(s, cursor, v, b)
             /\ NoneAccepted(s, known) => NoneAccepted(t, known)
  <2>1. /\ Before(t, cursor) = Before(s, cursor)
        /\ \A v, b : Locks(t, cursor, v, b) = Locks(s, cursor, v, b) + Lock(ev, v, b)
        /\ NoneAccepted(s, known) => NoneAccepted(t, known)
    BY <1>3, AdvancedHistory
  <2>2. ASSUME NEW v, NEW b
        PROVE  Locks(t, cursor, v, b) = Locks(s, cursor, v, b)
    <3>1. Locks(s, cursor, v, b) \in Nat
      BY HistoryTerms, LocksLaws
    <3>2. Locks(t, cursor, v, b) = Locks(s, cursor, v, b) + 0
      BY <1>3, <2>1 DEF Lock
    <3> QED BY <3>1, <3>2
  <2> QED BY <1>3, <2>1, <2>2 DEF Advanced
<1> HIDE DEF s, t, A, B, P, Q, n, m
<1>4. ASSUME NEW ev \in Event \ P, t = s, Q = P \cup {ev},
             \/ \E taker, maker, q : Exchanged(A, ev, B, taker, maker, q)
             \/ \E o : Removed(A, ev, B, o)
      PROVE  Borne(t, B, Q, m) /\ t = s
  BY <1>1, <1>4, BorneQueues
<1>5. ASSUME NEW ev \in Event \ P, NEW o, Removed(A, ev, B, o), Advanced(ev), Q = P
      PROVE  /\ Borne(t, B, Q, m) /\ Before(t, cursor) = Before(s, cursor)
             /\ \A v, b : Locks(t, cursor, v, b) = Locks(s, cursor, v, b)
             /\ NoneAccepted(s, known) => NoneAccepted(t, known)
  <2>1. ev.kind # "OrderAccepted"
    BY <1>5 DEF Removed
  <2>2. Continues(s, t, ev)
    BY <1>3, <1>5, <2>1
  <2>3. Borne(t, B, Q, m)
    BY <1>1, <1>5, <2>2, BorneCancels
  <2> QED BY <1>3, <1>5, <2>1, <2>3
<1>6. ASSUME NEW ev \in P, Advanced(ev), B = A, Q = P \ {ev}
      PROVE  /\ Borne(t, B, Q, m) /\ Before(t, cursor) = Before(s, cursor)
             /\ \A v, b : Locks(t, cursor, v, b) = Locks(s, cursor, v, b)
             /\ NoneAccepted(s, known) => NoneAccepted(t, known)
  <2>1. ev.kind # "OrderAccepted"
    BY <1>1, BorneTerms
  <2>2. Continues(s, t, ev)
    BY <1>3, <1>6, <2>1
  <2>3. Borne(t, B, Q, m)
    BY <1>1, <1>6, <2>2, BorneSends
  <2> QED BY <1>3, <1>6, <2>1, <2>3
<1>7. /\ Borne(t, B, Q, m) /\ Before(t, cursor) = Before(s, cursor)
      /\ \A v, b : Locks(t, cursor, v, b) = Locks(s, cursor, v, b)
      /\ NoneAccepted(s, known) => NoneAccepted(t, known)
  <2>1. CASE t = s /\ B = A /\ Q = P
    BY <1>1, <2>1
  <2>2. CASE \E ev \in Event \ P : /\ \/ \E taker, maker, q : Exchanged(A, ev, B, taker, maker, q)
                                      \/ \E o : Removed(A, ev, B, o)
                                   /\ t = s /\ Q = P \cup {ev}
    <3>1. Borne(t, B, Q, m) /\ t = s
      BY <1>4, <2>2
    <3> QED BY <3>1
  <2>3. CASE \E ev \in Event \ P : (\E o : Removed(A, ev, B, o)) /\ Advanced(ev) /\ Q = P
    BY <1>5, <2>3
  <2>4. CASE \E ev \in P : Advanced(ev) /\ B = A /\ Q = P \ {ev}
    BY <1>6, <2>4
  <2> QED BY <1>2, <2>1, <2>2, <2>3, <2>4
<1> QED BY <1>7 DEF s, t, B, Q, m

LEMMA ServingSound ==
  ASSUME Sound, ~outdated, phase = "live",
         UNCHANGED <<ledger, cursor, phase, known, reset, errors, abandoned, outdated>>,
         Borne(History', Alive', Unsent', nextId'), Before(History', cursor) = Before(History, cursor),
         SamePending(History, cursor, requests, caller, abandoned,
                     History', requests', caller', abandoned)
  PROVE  Sound'
<1>1. /\ Funded(History', cursor, requests', caller', abandoned)
      /\ reset # "ledger" =>
           Tracks(ledger, History', cursor, requests', caller', abandoned)
  BY LiveKept DEF Sound
<1>2. Whole(ledger)' /\ errors' = 0
  BY DEF Sound
<1>3. ~outdated' /\ phase' = "live"
  OBVIOUS
<1> QED BY <1>1, <1>2, <1>3 DEF Sound

LEMMA PlaceSound ==
  ASSUME Base, Base', Sound, "MARKET" \notin Types, NEW g \in Requests, Place(g)
  PROVE  Sound'
<1> DEFINE cmd == requests[g].cmd  o == NewOrder(cmd)
<1>1. /\ UNCHANGED <<ledger, cursor, phase, known, reset, errors, abandoned, outdated>>
  BY DEF Place, ledgerVars
<1>2. PICK ev :
        /\ Advanced(ev)
        /\ \/ /\ ev.kind = "OrderRejected" /\ Idle' /\ caller' = NoRequest
              /\ Alive' = Alive
              /\ requests' = [requests EXCEPT ![g] = [stage |-> "rejected", cmd |-> cmd]]
           \/ /\ ev = Accepted(seq + 1, o) /\ ~Idle'
              /\ caller' = g /\ requests' = requests
              /\ Added(Alive, ev, Alive')
              /\ ev.order.orderId = nextId /\ nextId' = nextId + 1
  BY PlaceMoves
<1>3. Idle /\ requests[g] # NotServing /\ caller = NoRequest /\ g # NoRequest
  <2>1. Idle /\ requests[g] # NotServing
    BY PlaceMoves
  <2> QED BY <2>1, ExchangeAssumption DEF Base, Served
<1>4. /\ requests = [h \in Requests |-> requests[h]]
      /\ AllRequests(requests) /\ AllRequests(requests')
  BY DEF Base, Served, AllRequests
<1>5. cmd \in Command /\ ReservationOf(cmd).amount > 0
  BY <1>3, <1>4, RequestTerms DEF AllRequests
<1>6. /\ cmd.userId \in Holders /\ cmd.type # "MARKET"
      /\ ReservationOf(cmd).asset \in Assets /\ ReservationOf(cmd).amount \in Nat
  BY <1>5, CommandTerms
<1>7. o.userId = cmd.userId /\ o.side = cmd.side /\ o.price = cmd.price /\ o.qty = cmd.qty
  BY <1>6 DEF NewOrder
<1> HIDE DEF cmd, o
<1>8. ~outdated /\ phase = "live" /\ Funded(History, cursor, requests, caller, abandoned)
  BY <1>3, Serving
<1>9. /\ History \in Seq(Event) /\ cursor \in 0..Len(History)
      /\ abandoned \in Seq(Users \X Assets \X Nat)
  BY HistoryTerms DEF Base
<1>10. /\ Before(History', cursor) = Before(History, cursor)
       /\ \A v, b : Locks(History', cursor, v, b) = Locks(History, cursor, v, b) + Lock(ev, v, b)
  BY <1>2, AdvancedHistory
<1>11. ASSUME NEW v \in Holders, NEW b \in Assets
       PROVE  /\ Requested(requests', caller', v, b) + Lock(ev, v, b)
                   = Requested(requests, caller, v, b)
              /\ Lock(ev, v, b) \in Nat /\ Requested(requests', caller', v, b) \in Nat
  <2>1. /\ Requested(requests, caller, v, b) \in Nat
        /\ Requested(requests', caller', v, b) \in Nat
        /\ Claim(requests[g], v, b) \in Nat
    BY <1>4, ClaimsWeigh, ClaimType DEF AllRequests
  <2>2. Claim(requests[g], v, b) = Share(cmd.userId, cmd.side, cmd.price, cmd.qty, v, b)
    BY <1>3 DEF Claim, cmd
  <2>3. ASSUME ev.kind = "OrderRejected", caller' = NoRequest,
               requests' = [requests EXCEPT ![g] = [stage |-> "rejected", cmd |-> cmd]]
        PROVE  /\ Requested(requests', caller', v, b) = Requested(requests, caller, v, b)
               /\ Lock(ev, v, b) = 0
    <3>1. requests'[g] = [stage |-> "rejected", cmd |-> cmd]
          /\ \A h \in Requests \ {g} : requests'[h] = requests[h] /\ (h = caller' <=> h = caller)
      BY <1>3, <1>4, <2>3
    <3>2. requests'[g] # NotServing /\ requests'[g].cmd = cmd
      BY <3>1 DEF NotServing
    <3>3. Claim(requests'[g], v, b) = Claim(requests[g], v, b)
      BY <2>2, <3>2 DEF Claim
    <3>4. Requested(requests', caller', v, b) =
            Requested(requests, caller, v, b) - (IF g = caller THEN 0 ELSE Claim(requests[g], v, b))
                + (IF g = caller' THEN 0 ELSE Claim(requests'[g], v, b))
      BY <1>4, <3>1, RequestedChange
    <3>5. Requested(requests', caller', v, b) =
            Requested(requests, caller, v, b) - Claim(requests[g], v, b) + Claim(requests[g], v, b)
      BY <1>3, <2>3, <3>3, <3>4
    <3> QED BY <2>1, <2>3, <3>5 DEF Lock
  <2>4. ASSUME ev = Accepted(seq + 1, o), caller' = g, requests' = requests
        PROVE  /\ Requested(requests', caller', v, b)
                    = Requested(requests, caller, v, b) - Claim(requests[g], v, b)
               /\ Lock(ev, v, b) = Claim(requests[g], v, b)
    <3>1. \A h \in Requests \ {g} : requests'[h] = requests[h] /\ (h = caller' <=> h = caller)
      BY <1>3, <2>4, ExchangeAssumption
    <3>2. Requested(requests', caller', v, b) =
            Requested(requests, caller, v, b) - (IF g = caller THEN 0 ELSE Claim(requests[g], v, b))
                + (IF g = caller' THEN 0 ELSE Claim(requests'[g], v, b))
      BY <1>4, <3>1, RequestedChange
    <3>3. Requested(requests', caller', v, b) =
            Requested(requests, caller, v, b) - Claim(requests[g], v, b) + 0
      BY <1>3, <2>4, <3>2
    <3>4. Lock(ev, v, b) = Claim(requests[g], v, b)
      BY <1>7, <2>2, <2>4 DEF Lock, Accepted
    <3> QED BY <2>1, <3>3, <3>4
  <2> QED BY <1>2, <2>1, <2>3, <2>4
<1>12. SamePending(History, cursor, requests, caller, abandoned,
                   History', requests', caller', abandoned)
  <2> SUFFICES ASSUME NEW v \in Holders, NEW b \in Assets
               PROVE  Pending(History', cursor, requests', caller', abandoned, v, b)
                        = Pending(History, cursor, requests, caller, abandoned, v, b)
    BY DEF SamePending
  <2>1. /\ Locks(History, cursor, v, b) \in Nat /\ Forfeited(abandoned, v, b) \in Nat
        /\ Requested(requests, caller, v, b) \in Nat
    BY <1>4, <1>9, PendingTerms
  <2> QED BY <1>10, <1>11, <2>1 DEF Pending
<1>13. Affordable(Rebuild(History), ev)
  <2>1. CASE ev.kind = "OrderRejected"
    BY <2>1 DEF Affordable
  <2>2. CASE ev = Accepted(seq + 1, o)
    <3> DEFINE u == cmd.userId  a == ReservationOf(cmd).asset  x == ReservationOf(cmd).amount
    <3>1. /\ ev.order = o
          /\ ReserveForOrder(ev.order.side, ev.order.price, ev.order.qty) = ReservationOf(cmd)
          /\ ev.order.userId = u
      BY <1>7, <2>2 DEF Accepted, ReservationOf
    <3>2. u \in Holders /\ a \in Assets /\ x \in Nat /\ x > 0
      BY <1>5, <1>6
    <3> HIDE DEF u, a, x
    <3>3. Claim(requests[g], u, a) = x
      BY <1>3, ClaimIs DEF For, u, a, x, cmd
    <3>4. Claim(requests[g], u, a) <= Requested(requests, caller, u, a)
      BY <1>3, <1>4, ClaimsWeigh
    <3>5. FreeOf(Before(History, cursor), u, a) >= Pending(History, cursor, requests, caller, abandoned, u, a)
      BY <1>8, <3>2 DEF Funded
    <3>6. /\ Locks(History, cursor, u, a) \in Nat /\ Forfeited(abandoned, u, a) \in Nat
          /\ Requested(requests, caller, u, a) \in Nat
      BY <1>4, <1>9, PendingTerms
    <3>7. /\ FreeOf(Rebuild(History), u, a)
               >= FreeOf(Before(History, cursor), u, a) - Locks(History, cursor, u, a)
          /\ FreeOf(Before(History, cursor), u, a) \in Int
          /\ FreeOf(Rebuild(History), u, a) \in Int
      <4>1. /\ Enough(History, cursor) /\ LedgerOK(Before(History, cursor))
            /\ Len(History) \in 0..Len(History)
        BY <1>9, BorneTerms DEF Sound, Accounted, Solvent
      <4>2. LedgerOK(Rebuild(History))
        <5>1. LedgerOK(Before(History, Len(History)))
          BY <4>1, BorneTerms DEF Sound, Accounted, Solvent
        <5> QED BY <1>9, <5>1, BeforeLaws
      <4> QED BY <3>2, <4>1, <4>2, BalanceTypes DEF Enough
    <3>8. x <= FreeOf(Rebuild(History), u, a)
      BY <3>2, <3>3, <3>4, <3>5, <3>6, <3>7 DEF Pending
    <3> QED BY <3>1, <3>2, <3>8 DEF Affordable, u, a, x
  <2> QED BY <1>2, <2>1, <2>2
<1>14. Borne(History', Alive', Unsent', nextId')
  <2>1. /\ ev \in Event /\ Continues(History, History', ev)
        /\ Unsent' = Unsent /\ nextId' \in Nat /\ nextId' >= nextId
    BY <1>2, PlaceMoves, StaysNumbered DEF Advanced, Base, PInv, IInv, TypeOK
  <2>2. Borne(History, Alive, Unsent, nextId) /\ nextId \in Nat
    BY BorneTerms DEF Sound
  <2> DEFINE s == History  t == History'  A == Alive  B == Alive'
             P == Unsent  n == nextId  m == nextId'
  <2>3. /\ s \in Seq(Event) /\ ev \in Event /\ Continues(s, t, ev) /\ Borne(s, A, P, n)
        /\ n \in Nat /\ m \in Nat /\ m >= n
    BY <1>9, <2>1, <2>2
  <2>4. \/ ev.kind = "OrderRejected" /\ B = A
        \/ Added(A, ev, B) /\ ev.order.orderId = n /\ m = n + 1
    BY <1>2
  <2>5. Affordable(Rebuild(s), ev)
    BY <1>13
  <2> HIDE DEF s, t, A, B, P, n, m
  <2>6. Borne(t, B, P, m)
    <3>1. CASE ev.kind = "OrderRejected" /\ B = A
      BY <2>3, <3>1, BorneRejects
    <3>2. CASE Added(A, ev, B) /\ ev.order.orderId = n /\ m = n + 1
      <4>1. ev.order.orderId >= n /\ m > ev.order.orderId
        BY <2>3, <3>2
      <4> QED BY <2>3, <2>5, <3>2, <4>1, BorneAdds
    <3> QED BY <2>4, <3>1, <3>2
  <2>7. Borne(t, B, Unsent', m)
    BY <2>1, <2>6 DEF P
  <2> QED BY <2>7 DEF t, B, m
<1> QED BY <1>1, <1>8, <1>10, <1>12, <1>14, ServingSound

LEMMA MatcherSound ==
  ASSUME Base, Base', Sound, RunMatcher
  PROVE  Sound'
<1>1. UNCHANGED <<ledger, cursor, phase, known, reset, errors, abandoned, outdated>>
  BY DEF RunMatcher, ledgerVars
<1>2. OpenSet(Alive)
  BY BorneTerms DEF Sound
<1>3. /\ caller \in Requests /\ requests[caller].stage = "reserved" /\ Moved
      /\ \/ ~Idle' /\ caller' = caller /\ requests' = requests
         \/ /\ Idle' /\ caller' = NoRequest
            /\ requests' = [requests EXCEPT ![caller] = NotServing]
  BY <1>2, MatcherMoves
<1>4. /\ requests = [h \in Requests |-> requests[h]]
      /\ AllRequests(requests) /\ AllRequests(requests')
  BY DEF Base, Served, AllRequests
<1>5. ~outdated /\ phase = "live"
  <2>1. requests[caller] # NotServing
    BY <1>3 DEF NotServing
  <2> QED BY <1>3, <2>1, Serving
<1>6. /\ Borne(History', Alive', Unsent', nextId')
      /\ Before(History', cursor) = Before(History, cursor)
      /\ \A v, b : Locks(History', cursor, v, b) = Locks(History, cursor, v, b)
  BY <1>3, MovedHistory
<1>7. ASSUME NEW v \in Holders, NEW b \in Assets
      PROVE  Requested(requests', caller', v, b) = Requested(requests, caller, v, b)
  <2>1. CASE caller' = caller /\ requests' = requests
    BY <2>1
  <2>2. CASE caller' = NoRequest /\ requests' = [requests EXCEPT ![caller] = NotServing]
    <3> DEFINE g == caller
    <3>1. /\ requests'[g] = NotServing /\ g # caller' /\ g \in Requests
          /\ \A h \in Requests \ {g} : requests'[h] = requests[h] /\ (h = caller' <=> h = caller)
      BY <1>3, <1>4, <2>2, ExchangeAssumption
    <3> HIDE DEF g
    <3>2. Requested(requests', caller', v, b) =
            Requested(requests, caller, v, b) - (IF g = caller THEN 0 ELSE Claim(requests[g], v, b))
                + (IF g = caller' THEN 0 ELSE Claim(requests'[g], v, b))
      BY <1>4, <3>1, RequestedChange
    <3>3. Requested(requests', caller', v, b) = Requested(requests, caller, v, b) - 0 + 0
      BY <3>1, <3>2 DEF g, Claim
    <3>4. Requested(requests, caller, v, b) \in Nat
      BY <1>4, ClaimsWeigh
    <3> QED BY <3>3, <3>4
  <2> QED BY <1>3, <2>1, <2>2
<1>8. SamePending(History, cursor, requests, caller, abandoned,
                  History', requests', caller', abandoned)
  BY <1>6, <1>7 DEF SamePending, Pending
<1> QED BY <1>1, <1>5, <1>6, <1>8, ServingSound

(* A step between calls that the ledger and the gateway take no part in.   *)
LEMMA MovedSound ==
  ASSUME Base, Base', Sound, Moved, Idle, Idle',
         UNCHANGED <<ledger, cursor, phase, known, reset, errors, abandoned, outdated,
                     requests, caller>>
  PROVE  Sound'
<1>1. /\ Borne(History', Alive', Unsent', nextId')
      /\ Before(History', cursor) = Before(History, cursor)
      /\ \A v, b : Locks(History', cursor, v, b) = Locks(History, cursor, v, b)
      /\ NoneAccepted(History, known) => NoneAccepted(History', known)
  BY MovedHistory
<1>2. SamePending(History, cursor, requests, caller, abandoned,
                  History', requests', caller', abandoned)
  BY <1>1 DEF SamePending, Pending
<1>3. CASE ~outdated /\ phase = "live"
  BY <1>1, <1>2, <1>3, ServingSound
<1>4. CASE outdated
  <2>1. /\ stream = << >> /\ NoRequests(requests) /\ reset # "no"
        /\ Alive = {} /\ Unsent = {}
    BY <1>4 DEF Sound
  <2>2. History' = History /\ Alive' = Alive /\ Unsent' = Unsent
    <3>1. \A ev : ~Trades(ev) /\ ~Cancels(ev)
      BY <2>1 DEF Trades, Cancels, Exchanged, Removed
    <3> QED BY <2>1, <3>1 DEF Moved
  <2>3. stream' = << >> /\ Alive' = {} /\ Unsent' = {}
    BY <2>1, <2>2 DEF History
  <2>4. Whole(ledger)' /\ errors' = 0
    BY DEF Sound
  <2>5. NoRequests(requests') /\ reset' # "no" /\ phase' \in {"live", "replay"}
    BY <2>1 DEF Sound
  <2>6. phase' = "replay" =>
          /\ ledger' = FreshLedger /\ cursor' = 0
          /\ abandoned' = << >> /\ NoneAccepted(History', known')
    BY <1>1 DEF Sound
  <2> QED BY <1>1, <1>4, <2>3, <2>4, <2>5, <2>6 DEF Sound
<1>5. CASE phase = "replay" /\ ~outdated
  <2>1. NoneAccepted(History', known)
    BY <1>1, <1>5 DEF Sound
  <2>2. Whole(ledger)' /\ errors' = 0
    BY DEF Sound
  <2> QED BY <1>1, <1>5, <2>1, <2>2 DEF Sound
<1> QED BY <1>3, <1>4, <1>5 DEF Sound

LEMMA CancelSound ==
  ASSUME Base, Base', Sound, NEW user \in Users, NEW id \in 1..MaxOrders,
         UserCancel(user, id)
  PROVE  Sound'
<1>1. UNCHANGED <<ledger, cursor, phase, known, reset, errors, abandoned, outdated,
                  requests, caller>>
  BY DEF UserCancel, ledgerVars
<1>2. Idle /\ Idle' /\ Moved
  BY CancelMoves
<1> QED BY <1>1, <1>2, MovedSound

LEMMA AppendSound ==
  ASSUME Base, Base', Sound, NEW g \in Requests, AppendNext(g)
  PROVE  Sound'
<1>1. UNCHANGED <<ledger, cursor, phase, known, reset, errors, abandoned, outdated,
                  requests, caller>>
  BY DEF AppendNext, ledgerVars
<1>2. Idle /\ Idle' /\ Moved
  BY AppendMoves
<1> QED BY <1>1, <1>2, MovedSound

-----------------------------------------------------------------------------
(* The ledger's steps, its death and the resets. *)

LEMMA BorneSame ==
  ASSUME Borne(History, Alive, Unsent, nextId),
         History' = History, Alive' = Alive, Unsent' = Unsent, nextId' = nextId
  PROVE  Borne(History', Alive', Unsent', nextId')
<1> DEFINE s == History  t == History'  A == Alive  B == Alive'  P == Unsent  Q == Unsent'
<1>1. s = t /\ A = B /\ P = Q /\ Borne(s, A, P, nextId) /\ nextId' = nextId
  OBVIOUS
<1> HIDE DEF s, t, A, B, P, Q
<1>2. Borne(t, B, Q, nextId')
  BY <1>1
<1> QED BY <1>2 DEF t, B, Q

LEMMA QuietHistory ==
  ASSUME Sound, Idle, UNCHANGED vars, stream' = stream, todo' = todo
  PROVE  /\ History' = History /\ Alive' = Alive /\ Unsent' = Unsent /\ Idle'
         /\ Borne(History', Alive', Unsent', nextId')
<1>1. /\ order' = order /\ book' = book /\ nextId' = nextId /\ Idle'
      /\ History = stream /\ History' = stream'
  BY DEF vars, Idle, History
<1>2. Alive' = Alive
  BY <1>1 DEF Alive
<1>3. Waiting' = Waiting
  <2>1. Waiting = [g \in Requests |-> todo[g]] /\ Waiting' = [g \in Requests |-> todo'[g]]
    BY <1>1 DEF Waiting
  <2> QED BY <2>1
<1>4. Unsent' = Unsent
  BY <1>3 DEF Unsent
<1>5. History' = History /\ Borne(History, Alive, Unsent, nextId)
  BY <1>1 DEF Sound
<1>6. Borne(History', Alive', Unsent', nextId')
  BY <1>1, <1>2, <1>4, <1>5, BorneSame
<1> QED BY <1>1, <1>2, <1>4, <1>5, <1>6

LEMMA SolventTerms ==
  ASSUME NEW s, Accounted(s), NEW i \in 0..Len(s)
  PROVE  /\ Solvent(Before(s, i)) /\ LedgerOK(Before(s, i))
         /\ ~Before(s, i).thrown /\ Whole(Before(s, i))
         /\ \A v \in Holders : \A b \in Assets :
              /\ FreeOf(Before(s, i), v, b) \in Int /\ FreeOf(Before(s, i), v, b) >= 0
              /\ LockedOf(Before(s, i), v, b) \in Int /\ LockedOf(Before(s, i), v, b) >= 0
<1>1. Solvent(Before(s, i)) /\ LedgerOK(Before(s, i)) /\ Whole(Before(s, i))
  BY DEF Accounted, Solvent, Whole
<1>2. House \in Holders /\ "BTC" \in Assets
  BY DEF Holders, Assets
<1> QED BY <1>1, <1>2, BalanceTypes DEF Solvent

(* What an event costs depends on the table of open buys only.             *)
LEMMA SameTable ==
  ASSUME NEW l, NEW m, l.openBuys = m.openBuys, NEW ev
  PROVE  \A v, b : Cost(l, ev, v, b) = Cost(m, ev, v, b) /\ Gain(l, ev, v, b) = Gain(m, ev, v, b)
BY DEF Cost, Gain, TradeCost, TradeGain, Improved, Surplus

LEMMA ConsumeSound ==
  ASSUME Base, Base', Sound, Consume
  PROVE  Sound'
<1> DEFINE s == History  h == Before(s, cursor)  k == Before(s, cursor + 1)
           ev == stream[cursor + 1]  m == ledger'
<1>1. /\ Idle /\ phase = "live" /\ reset # "ledger" /\ cursor < Len(stream)
      /\ UNCHANGED vars /\ cursor' = cursor + 1
      /\ UNCHANGED <<stream, phase, known, reset, requests, todo, caller, abandoned, outdated>>
      /\ m = Apply(ledger, ev, "live") /\ Thrown(m)
  BY DEF Consume, Listening
<1>2. /\ s = stream /\ s \in Seq(Event) /\ Len(s) \in Nat /\ cursor \in 0..Len(s)
      /\ cursor + 1 \in 0..Len(s) /\ cursor < Len(s)
  BY <1>1, HistoryTerms
<1>3. History' = History /\ Borne(History', Alive', Unsent', nextId')
  BY <1>1, QuietHistory
<1>4. Len(stream) # 0 /\ stream # << >>
  BY <1>2
<1>5. /\ ~outdated /\ Accounted(s) /\ Whole(ledger) /\ errors = 0
      /\ Funded(s, cursor, requests, caller, abandoned)
      /\ Tracks(ledger, s, cursor, requests, caller, abandoned)
  <2>1. ~outdated /\ Borne(History, Alive, Unsent, nextId)
    BY <1>4 DEF Sound
  <2>2. Accounted(s)
    BY <2>1, BorneTerms
  <2> QED BY <1>1, <2>1, <2>2 DEF Sound
<1>6. /\ k = Apply(h, ev, "replay") /\ ev \in Event /\ ev = s[cursor + 1]
  BY <1>2, BeforeLaws
<1>7. /\ LedgerOK(h) /\ LedgerOK(k) /\ Payable(h, ev, "replay")
      /\ \A v \in Holders : \A b \in Assets :
           /\ FreeOf(h, v, b) \in Int /\ LockedOf(h, v, b) \in Int /\ LockedOf(h, v, b) >= 0
  <2>1. Payable(h, ev, "replay")
    BY <1>2, <1>5 DEF Accounted
  <2> QED BY <1>2, <1>5, <2>1, SolventTerms
<1>8. AllRequests(requests) /\ abandoned \in Seq(Users \X Assets \X Nat)
  BY DEF Base, Served, AllRequests
<1>9. ASSUME NEW v, NEW b
      PROVE  LET p == Pending(s, cursor, requests, caller, abandoned, v, b)
                 q == Pending(s, cursor + 1, requests, caller, abandoned, v, b)
             IN p \in Nat /\ q \in Nat /\ p = q + Lock(ev, v, b)
  <2>1. /\ Pending(s, cursor, requests, caller, abandoned, v, b) \in Nat
        /\ Pending(s, cursor + 1, requests, caller, abandoned, v, b) \in Nat
        /\ Locks(s, cursor + 1, v, b) \in Nat /\ Requested(requests, caller, v, b) \in Nat
        /\ Forfeited(abandoned, v, b) \in Nat
    BY <1>2, <1>8, PendingTerms
  <2>2. Locks(s, cursor, v, b) = Lock(ev, v, b) + Locks(s, cursor + 1, v, b)
    <3> HIDE DEF s, h, k, m, ev
    <3>1. s \in Seq(Event)
      BY <1>2
    <3>2. /\ Locks(s, Len(s), v, b) = 0
          /\ \A i \in 0..Len(s) : Locks(s, i, v, b) \in Nat
          /\ \A i \in 0..Len(s) : i < Len(s) =>
               Locks(s, i, v, b) = Lock(s[i + 1], v, b) + Locks(s, i + 1, v, b)
      BY <3>1, LocksLaws
    <3> QED BY <1>2, <1>6, <3>2
  <2>3. Lock(ev, v, b) \in Nat
    BY <1>6, LockType
  <2> QED BY <2>1, <2>2, <2>3 DEF Pending
<1> DEFINE p(v, b) == Pending(s, cursor, requests, caller, abandoned, v, b)
           q(v, b) == Pending(s, cursor + 1, requests, caller, abandoned, v, b)
<1>10. /\ ledger.openBuys = h.openBuys
       /\ \A v \in Holders : \A b \in Assets :
            /\ FreeOf(ledger, v, b) = FreeOf(h, v, b) - p(v, b)
            /\ LockedOf(ledger, v, b) = LockedOf(h, v, b) + p(v, b)
            /\ FreeOf(h, v, b) >= p(v, b)
  BY <1>5 DEF Tracks, Funded
<1>11. \A v, b : p(v, b) \in Nat /\ q(v, b) \in Nat /\ p(v, b) = q(v, b) + Lock(ev, v, b)
  BY <1>9
<1> HIDE DEF s, h, k, m, ev, p, q
<1>12. LedgerOK(ledger) /\ IsEvent(ev) /\ IsFiniteSet(Holders)
  BY <1>5, <1>6, EventIsEvent, FiniteHolders DEF Whole
<1>13. \A v, b : Cost(ledger, ev, v, b) = Cost(h, ev, v, b) /\ Gain(ledger, ev, v, b) = Gain(h, ev, v, b)
  BY <1>10, SameTable
<1>14. Payable(ledger, ev, "live")
  <2> SUFFICES ASSUME NEW v \in Holders, NEW b \in Assets
               PROVE  Cost(ledger, ev, v, b) <= LockedOf(ledger, v, b)
    BY DEF Payable
  <2>1. Cost(h, ev, v, b) <= LockedOf(h, v, b) /\ Cost(h, ev, v, b) \in Nat
    BY <1>7, <1>12, EventTerms DEF Payable
  <2> QED BY <1>7, <1>10, <1>11, <1>13, <2>1
<1>15. Applied(ledger, m, ev, "live") /\ Applied(h, k, ev, "replay")
  BY <1>1, <1>6, <1>7, <1>12, <1>14, ApplyEffect
<1>16. Whole(m) /\ ~m.thrown /\ m.openBuys = k.openBuys
  <2>1. LedgerOK(m) /\ m.openBuys = k.openBuys
    BY <1>10, <1>15 DEF Applied
  <2>2. \A a \in Assets : Held(m, a) = Endowed(a)
    BY <1>5, <1>15 DEF Applied, Whole
  <2>3. House \in Holders /\ "BTC" \in Assets
    BY DEF Holders, Assets
  <2> QED BY <2>1, <2>2, <2>3, BalanceTypes DEF Whole
<1>17. ASSUME NEW v \in Holders, NEW b \in Assets
       PROVE  /\ FreeOf(k, v, b) >= q(v, b)
              /\ FreeOf(m, v, b) = FreeOf(k, v, b) - q(v, b)
              /\ LockedOf(m, v, b) = LockedOf(k, v, b) + q(v, b)
  <2>1. /\ FreeOf(m, v, b) = FreeOf(ledger, v, b) + Gain(h, ev, v, b) - 0
        /\ LockedOf(m, v, b) = LockedOf(ledger, v, b) - Cost(h, ev, v, b) + 0
        /\ FreeOf(k, v, b) = FreeOf(h, v, b) + Gain(h, ev, v, b) - Lock(ev, v, b)
        /\ LockedOf(k, v, b) = LockedOf(h, v, b) - Cost(h, ev, v, b) + Lock(ev, v, b)
    <3>1. LockIn("live", ev, v, b) = 0 /\ LockIn("replay", ev, v, b) = Lock(ev, v, b)
      BY DEF LockIn
    <3> QED BY <1>13, <1>15, <3>1 DEF Applied
  <2>2. /\ Gain(h, ev, v, b) \in Nat /\ Cost(h, ev, v, b) \in Nat /\ Lock(ev, v, b) \in Nat
    BY <1>7, <1>12, EventTerms
  <2>3. p(v, b) \in Nat /\ q(v, b) \in Nat /\ p(v, b) = q(v, b) + Lock(ev, v, b)
    BY <1>11
  <2> QED BY <1>7, <1>10, <2>1, <2>2, <2>3
<1>18. /\ Funded(s, cursor + 1, requests, caller, abandoned)
       /\ Tracks(m, s, cursor + 1, requests, caller, abandoned)
  BY <1>16, <1>17 DEF Funded, Tracks, k, q
<1>19. errors' = 0
  BY <1>1, <1>5, <1>16 DEF Thrown
<1>20. /\ Funded(History', cursor', requests', caller', abandoned')
       /\ Tracks(ledger', History', cursor', requests', caller', abandoned')
  <2>1. s = History' /\ cursor + 1 = cursor' /\ requests' = requests /\ caller' = caller
        /\ abandoned' = abandoned
    BY <1>1, <1>3 DEF s
  <2> QED BY <1>18, <2>1 DEF m
<1>21. Whole(ledger)' /\ ~outdated' /\ phase' = "live"
  BY <1>1, <1>5, <1>16 DEF m
<1> QED BY <1>3, <1>19, <1>20, <1>21 DEF Sound

(* Nothing is pending when no request is served and nothing is lost.       *)
LEMMA NothingPending ==
  ASSUME NEW s \in Seq(Event), NEW i \in 0..Len(s), NoneAccepted(s, i),
         NEW reqs, NoRequests(reqs), NEW c, NEW v, NEW b
  PROVE  Locks(s, i, v, b) = 0 /\ Pending(s, i, reqs, c, << >>, v, b) = 0
<1> DEFINE n == Len(s)  w == LockAt(s, v, b)
<1>1. n \in Nat /\ i \in 0..n /\ \A j \in 1..n : j > i => w[j] = 0
  BY DEF NoneAccepted, LockAt, Lock
<1> HIDE DEF n, w
<1>2. /\ IsFiniteSet((i + 1)..n) /\ \A j \in (i + 1)..n : w[j] = 0
      /\ Weighs(w, {}) /\ {} \in SUBSET ((i + 1)..n)
  <2>1. IsFiniteSet((i + 1)..n)
    BY <1>1, FS_Interval
  <2>2. \A j \in (i + 1)..n : w[j] = 0
    BY <1>1
  <2>3. Weighs(w, {})
    BY FS_EmptySet DEF Weighs
  <2> QED BY <2>1, <2>2, <2>3
<1>3. Weighs(w, (i + 1)..n)
  BY <1>2 DEF Weighs
<1>4. Sigma(w, {}) = Sigma(w, (i + 1)..n)
  BY <1>2, <1>3, SigmaPart
<1>5. Sigma(w, {}) = 0
  BY <1>2, SigmaLaws
<1>6. Locks(s, i, v, b) = 0
  BY <1>4, <1>5 DEF Locks, n, w
<1>7. Requested(reqs, c, v, b) = 0
  BY NothingRequested DEF NoRequests
<1>8. Forfeited(<< >>, v, b) = 0
  <2>1. << >> \in Seq(Users \X Assets \X Nat)
    OBVIOUS
  <2> QED BY <2>1, ForfeitLaws
<1> QED BY <1>6, <1>7, <1>8 DEF Pending

LEMMA ReplaySound ==
  ASSUME Base, Base', Sound, Replay
  PROVE  Sound'
<1> DEFINE s == History
<1>1. /\ Idle /\ phase = "replay" /\ phase' = "live" /\ UNCHANGED vars
      /\ UNCHANGED <<stream, known, reset, requests, todo, caller, abandoned, outdated>>
  BY DEF Replay, Listening
<1>2. /\ s = stream /\ s \in Seq(Event) /\ Len(s) \in Nat /\ known \in 0..Len(s)
  BY <1>1, HistoryTerms
<1>3. /\ History' = History /\ Alive' = Alive /\ Unsent' = Unsent /\ Idle'
      /\ Borne(History', Alive', Unsent', nextId')
  BY <1>1, QuietHistory
<1>4. /\ ledger = FreshLedger /\ NoRequests(requests) /\ abandoned = << >>
      /\ NoneAccepted(s, known) /\ errors = 0 /\ Accounted(s)
  BY <1>1, BorneTerms DEF Sound
<1>5. PICK k \in known..Len(stream) :
        /\ ledger' = Replayed(ledger, SubSeq(stream, 1, k))
        /\ errors' = errors +
             Cardinality({i \in 1..k : Replayed(ledger, SubSeq(stream, 1, i)).thrown})
        /\ cursor' = k
  BY DEF Replay
<1>6. \A i \in 0..Len(s) : Replayed(ledger, SubSeq(stream, 1, i)) = Before(s, i)
  BY <1>2, <1>4 DEF Before, Rebuild
<1>7. k \in 0..Len(s) /\ k >= known
  BY <1>2, <1>5
<1>8. ledger' = Before(s, k)
  BY <1>5, <1>6, <1>7
<1>9. errors' = 0
  <2>1. ASSUME NEW i \in 1..k
        PROVE  ~Replayed(ledger, SubSeq(stream, 1, i)).thrown
    <3>1. i \in 0..Len(s)
      BY <1>2, <1>7
    <3> QED BY <1>4, <1>6, <3>1, SolventTerms
  <2>2. {i \in 1..k : Replayed(ledger, SubSeq(stream, 1, i)).thrown} = {}
    BY <2>1
  <2>3. Cardinality({i \in 1..k : Replayed(ledger, SubSeq(stream, 1, i)).thrown}) = 0
    BY <2>2, FS_EmptySet
  <2> QED BY <1>4, <1>5, <2>3
<1>10. Whole(Before(s, k))
  BY <1>4, <1>7, SolventTerms
<1>11. NoneAccepted(s, k)
  BY <1>2, <1>4, <1>7 DEF NoneAccepted
<1> HIDE DEF s
<1>12. ASSUME NEW v \in Holders, NEW b \in Assets
       PROVE  /\ Pending(s, k, requests, caller, abandoned, v, b) = 0
              /\ FreeOf(Before(s, k), v, b) \in Int /\ FreeOf(Before(s, k), v, b) >= 0
              /\ LockedOf(Before(s, k), v, b) \in Int
  BY <1>2, <1>4, <1>7, <1>11, NothingPending, SolventTerms
<1>13. /\ Funded(s, k, requests, caller, abandoned)
       /\ Tracks(Before(s, k), s, k, requests, caller, abandoned)
  BY <1>12 DEF Funded, Tracks
<1>14. /\ Funded(History', cursor', requests', caller', abandoned')
       /\ Tracks(ledger', History', cursor', requests', caller', abandoned')
  <2>1. s = History' /\ k = cursor' /\ requests' = requests /\ caller' = caller
        /\ abandoned' = abandoned
    BY <1>1, <1>3, <1>5 DEF s
  <2> QED BY <1>8, <1>13, <2>1
<1>15. Whole(ledger')
  BY <1>8, <1>10
<1>16. outdated' => /\ stream' = << >> /\ Idle' /\ NoRequests(requests') /\ reset' # "no"
                    /\ Alive' = {} /\ Unsent' = {}
  BY <1>1, <1>3 DEF Sound
<1> QED BY <1>1, <1>3, <1>9, <1>14, <1>15, <1>16 DEF Sound

LEMMA StartOverSound ==
  ASSUME Base, Base', Sound, LedgerRestart \/ FinishLedgerReset, ~overlapped'
  PROVE  Sound'
<1>1. /\ Idle /\ UNCHANGED vars /\ StartOver
      /\ UNCHANGED <<stream, requests, todo, caller, errors>>
  BY DEF LedgerRestart, FinishLedgerReset
<1>2. /\ ledger' = FreshLedger /\ cursor' = 0 /\ phase' = "replay" /\ known' = Len(stream)
      /\ abandoned' = << >> /\ ~outdated' /\ InFlightRequests = {}
  BY <1>1 DEF StartOver
<1>3. History' = History /\ History = stream /\ Borne(History', Alive', Unsent', nextId')
  BY <1>1, QuietHistory, HistoryTerms
<1>4. NoRequests(requests')
  BY <1>1, <1>2 DEF InFlightRequests, NoRequests
<1>5. Whole(FreshLedger)
  BY FreshSolvent DEF Solvent, Whole
<1>6. NoneAccepted(History', known')
  <2>1. Len(stream) \in Nat
    BY HistoryTerms
  <2> QED BY <1>2, <1>3, <2>1 DEF NoneAccepted
<1>7. errors' = 0
  BY <1>1 DEF Sound
<1> QED BY <1>2, <1>3, <1>4, <1>5, <1>6, <1>7 DEF Sound

LEMMA ResetSound ==
  ASSUME Base, Base', Sound, ResetEngine, ~overlapped'
  PROVE  Sound'
<1>1. /\ Idle /\ reset' = "engine" /\ stream' = << >> /\ book' = EmptyBook /\ order' = order
      /\ cursor' = 0 /\ known' = 0 /\ outdated' /\ InFlightRequests = {}
      /\ UNCHANGED <<nextId, ledger, phase, requests, caller, errors, abandoned>>
  BY DEF ResetEngine
<1>2. Idle' /\ History' = << >>
  BY <1>1 DEF Idle, History
<1>3. Alive' = {}
  <2>1. \A s \in Sides : PricesOn(EmptyBook, s) = {}
    BY EmptyBookWellFormed
  <2>2. RestingOn(EmptyBook, "buy") = {} /\ RestingOn(EmptyBook, "sell") = {}
    BY <2>1 DEF RestingOn, Sides
  <2> QED BY <1>1, <2>2 DEF Alive, AllResting, InHand, Idle
<1>4. Unsent' = {} /\ Borne(History', Alive', Unsent', nextId')
  <2>1. Unsent' = {}
    BY BaseReset
  <2>2. nextId' \in Nat
    BY <1>1, BorneTerms DEF Sound
  <2>3. Borne(<< >>, {}, {}, nextId')
    BY <2>2, BorneNothing
  <2> QED BY <1>2, <1>3, <2>1, <2>3
<1>5. NoRequests(requests')
  BY <1>1 DEF InFlightRequests, NoRequests
<1>6. Whole(ledger') /\ errors' = 0 /\ phase' \in {"live", "replay"}
  BY <1>1 DEF Sound
<1>7. phase' = "replay" => ledger' = FreshLedger /\ abandoned' = << >>
  BY <1>1 DEF Sound
<1>8. NoneAccepted(History', known')
  BY <1>2 DEF NoneAccepted
<1> QED BY <1>1, <1>2, <1>3, <1>4, <1>5, <1>6, <1>7, <1>8 DEF Sound

LEMMA IdleSound ==
  ASSUME Base, Base', Sound, StartLedgerReset \/ UNCHANGED allVars
  PROVE  Sound'
<1>1. /\ UNCHANGED vars
      /\ UNCHANGED <<ledger, stream, cursor, phase, known, requests, caller, errors,
                     abandoned, outdated>>
      /\ reset' = reset \/ (reset = "engine" /\ reset' = "ledger")
  BY DEF StartLedgerReset, allVars, exchangeVars, ledgerVars
<1>2. /\ History' = History /\ Alive' = Alive /\ Unsent' = Unsent /\ nextId' = nextId
      /\ (Idle <=> Idle')
  <2>1. order' = order /\ book' = book /\ events' = events /\ nextId' = nextId
    BY <1>1 DEF vars
  <2>2. Unsent' = Unsent
    BY BaseLedger
  <2> QED BY <1>1, <2>1, <2>2 DEF History, Alive, Idle
<1> DEFINE s == History  t == History'
<1>3. s = t
  BY <1>2
<1>4. Whole(ledger') /\ errors' = 0 /\ phase' \in {"live", "replay"}
  BY <1>1 DEF Sound
<1>5. Borne(History', Alive', Unsent', nextId')
  BY <1>2, BorneSame DEF Sound
<1>6. ~outdated /\ phase = "live" =>
        /\ Funded(s, cursor, requests, caller, abandoned)
        /\ reset # "ledger" => Tracks(ledger, s, cursor, requests, caller, abandoned)
  BY DEF Sound
<1>7. phase = "replay" =>
        /\ ledger = FreshLedger /\ cursor = 0
        /\ NoRequests(requests) /\ abandoned = << >>
        /\ NoneAccepted(s, known)
  BY DEF Sound
<1>8. outdated' => /\ stream' = << >> /\ Idle' /\ NoRequests(requests') /\ reset' # "no"
                   /\ Alive' = {} /\ Unsent' = {}
  BY <1>1, <1>2 DEF Sound
<1> HIDE DEF s, t
<1>10. ~outdated' /\ phase' = "live" =>
         /\ Funded(t, cursor', requests', caller', abandoned')
         /\ reset' # "ledger" => Tracks(ledger', t, cursor', requests', caller', abandoned')
  BY <1>1, <1>3, <1>6
<1>11. phase' = "replay" =>
         /\ ledger' = FreshLedger /\ cursor' = 0
         /\ NoRequests(requests') /\ abandoned' = << >>
         /\ NoneAccepted(t, known')
  BY <1>1, <1>3, <1>7
<1> QED BY <1>4, <1>5, <1>8, <1>10, <1>11 DEF Sound, t

-----------------------------------------------------------------------------
(* The gateway's steps between its calls. *)

LEMMA RequestTurns ==
  ASSUME Base, Base', NEW g \in Requests, NEW r, requests' = [requests EXCEPT ![g] = r],
         Idle, caller' = caller, NEW v, NEW b
  PROVE  /\ Requested(requests', caller', v, b) =
              Requested(requests, caller, v, b) - Claim(requests[g], v, b) + Claim(r, v, b)
         /\ Claim(requests[g], v, b) \in Nat /\ Claim(r, v, b) \in Nat
         /\ Claim(requests[g], v, b) <= Requested(requests, caller, v, b)
<1>1. /\ AllRequests(requests) /\ AllRequests(requests') /\ caller = NoRequest
      /\ requests = [h \in Requests |-> requests[h]]
  BY DEF Base, Served, AllRequests
<1>2. /\ requests'[g] = r /\ g # caller /\ g # caller'
      /\ \A h \in Requests \ {g} : requests'[h] = requests[h] /\ (h = caller' <=> h = caller)
  BY <1>1, ExchangeAssumption
<1>3. Requested(requests', caller', v, b) =
        Requested(requests, caller, v, b) - (IF g = caller THEN 0 ELSE Claim(requests[g], v, b))
            + (IF g = caller' THEN 0 ELSE Claim(requests'[g], v, b))
  BY <1>1, <1>2, RequestedChange
<1>4. Claim(requests[g], v, b) \in Nat /\ Claim(requests'[g], v, b) \in Nat
  BY <1>1, ClaimType DEF AllRequests
<1>5. Claim(requests[g], v, b) <= Requested(requests, caller, v, b)
  BY <1>1, <1>2, ClaimsWeigh
<1> QED BY <1>2, <1>3, <1>4, <1>5

LEMMA GatewaySound ==
  ASSUME Sound, Idle, ~outdated, phase = "live",
         UNCHANGED <<vars, stream, cursor, phase, known, reset, todo, outdated>>,
         Whole(ledger'), errors' = 0,
         Funded(History, cursor, requests', caller', abandoned'),
         reset # "ledger" => Tracks(ledger', History, cursor, requests', caller', abandoned')
  PROVE  Sound'
<1>1. History' = History /\ Borne(History', Alive', Unsent', nextId')
  BY QuietHistory
<1>2. /\ Funded(History', cursor', requests', caller', abandoned')
      /\ reset' # "ledger" =>
           Tracks(ledger', History', cursor', requests', caller', abandoned')
  <2> DEFINE s == History  t == History'
  <2>1. /\ s = t /\ Funded(s, cursor, requests', caller', abandoned')
        /\ reset # "ledger" => Tracks(ledger', s, cursor, requests', caller', abandoned')
    BY <1>1
  <2> HIDE DEF s, t
  <2>2. /\ Funded(t, cursor', requests', caller', abandoned')
        /\ reset' # "ledger" => Tracks(ledger', t, cursor', requests', caller', abandoned')
    BY <2>1
  <2> QED BY <2>2 DEF t
<1>3. ~outdated' /\ phase' = "live"
  OBVIOUS
<1> QED BY <1>1, <1>2, <1>3 DEF Sound

(* What is pending grows or shrinks by one claim.                          *)
LEMMA PendingTurns ==
  ASSUME NEW s \in Seq(Event), NEW i \in 0..Len(s), NEW reqs, AllRequests(reqs), NEW later,
         NEW c, NEW lost \in Seq(Users \X Assets \X Nat), NEW v, NEW b,
         NEW x \in Int, Requested(later, c, v, b) = Requested(reqs, c, v, b) + x
  PROVE  /\ Pending(s, i, later, c, lost, v, b) = Pending(s, i, reqs, c, lost, v, b) + x
         /\ Pending(s, i, reqs, c, lost, v, b) \in Nat
         /\ Requested(reqs, c, v, b) <= Pending(s, i, reqs, c, lost, v, b)
<1>1. /\ Pending(s, i, reqs, c, lost, v, b) \in Nat
      /\ Locks(s, i, v, b) \in Nat /\ Requested(reqs, c, v, b) \in Nat
      /\ Forfeited(lost, v, b) \in Nat
  BY PendingTerms
<1> QED BY <1>1 DEF Pending

LEMMA ReserveSound ==
  ASSUME Base, Base', Sound, NEW g \in Requests, ReserveFunds(g), ~overlapped'
  PROVE  Sound'
<1>1. /\ Idle /\ reset # "ledger" /\ requests[g] = NotServing
      /\ phase # "replay" /\ ~outdated
      /\ UNCHANGED <<vars, stream, cursor, phase, known, reset, todo, caller, errors, abandoned,
                     outdated>>
  BY DEF ReserveFunds, ledgerVars
<1>2. PICK cmd \in Command :
        /\ CanReserve(ledger, cmd.userId, ReservationOf(cmd).asset, ReservationOf(cmd).amount)
        /\ ledger' = Reserve(ledger, cmd.userId, ReservationOf(cmd).asset, ReservationOf(cmd).amount)
        /\ requests' = [requests EXCEPT ![g] = [stage |-> "reserved", cmd |-> cmd]]
  BY DEF ReserveFunds
<1> DEFINE s == History  h == Before(s, cursor)  u == cmd.userId
           a == ReservationOf(cmd).asset  x == ReservationOf(cmd).amount
           r == [stage |-> "reserved", cmd |-> cmd]
<1>3. u \in Holders /\ a \in Assets /\ x \in Nat
  BY CommandTerms
<1>4. /\ phase = "live" /\ Whole(ledger) /\ errors = 0
      /\ Funded(s, cursor, requests, caller, abandoned)
      /\ Tracks(ledger, s, cursor, requests, caller, abandoned)
  BY <1>1 DEF Sound
<1>5. /\ r # NotServing /\ r.cmd = cmd
  BY DEF NotServing
<1>6. \A v, b : Claim(r, v, b) = For(u, a, x, v, b) /\ Claim(requests[g], v, b) = 0
  <2>1. \A v, b : Claim(r, v, b) = For(r.cmd.userId, ReservationOf(r.cmd).asset,
                                       ReservationOf(r.cmd).amount, v, b)
    BY <1>5, ClaimIs
  <2> QED BY <1>1, <1>5, <2>1 DEF Claim
<1>7. requests' = [requests EXCEPT ![g] = r] /\ ledger' = Reserve(ledger, u, a, x)
      /\ x > 0 /\ FreeOf(ledger, u, a) >= x
  BY <1>2 DEF CanReserve
<1>8. /\ s \in Seq(Event) /\ cursor \in 0..Len(s) /\ Accounted(s)
      /\ AllRequests(requests) /\ abandoned \in Seq(Users \X Assets \X Nat)
  BY HistoryTerms, BorneTerms DEF Base, Served, AllRequests, Sound
<1> HIDE DEF s, h, u, a, x, r
<1>9. Shifted(ledger, ledger', u, a, -x, x)
  <2>1. LedgerOK(ledger) /\ IsFiniteSet(Holders) /\ x <= FreeOf(ledger, u, a)
    <3>1. FreeOf(ledger, u, a) \in Int
      BY <1>3, <1>4, BalanceTypes DEF Whole
    <3> QED BY <1>3, <1>4, <1>7, <3>1, FiniteHolders DEF Whole
  <2> QED BY <1>3, <1>7, <2>1, ReserveEffect
<1>10. Whole(ledger')
  <2> SUFFICES ASSUME NEW b \in Assets PROVE Held(ledger', b) = Endowed(b)
    BY <1>9 DEF Whole, Shifted
  <2>1. /\ Held(ledger', b) = Held(ledger, b) + (IF b = a THEN -x + x ELSE 0)
        /\ Held(ledger, b) = Endowed(b)
    BY <1>4, <1>9 DEF Shifted, Whole
  <2>2. Held(ledger, b) \in Int
    BY <1>4, FiniteHolders, HeldType DEF Whole
  <2> QED BY <1>3, <2>1, <2>2
<1>11. ASSUME NEW v \in Holders, NEW b \in Assets
       PROVE  LET p == Pending(s, cursor, requests', caller', abandoned', v, b)
              IN /\ FreeOf(h, v, b) >= p
                 /\ FreeOf(ledger', v, b) = FreeOf(h, v, b) - p
                 /\ LockedOf(ledger', v, b) = LockedOf(h, v, b) + p
  <2> DEFINE p == Pending(s, cursor, requests, caller, abandoned, v, b)
             q == Pending(s, cursor, requests', caller', abandoned', v, b)
             z == For(u, a, x, v, b)
  <2>1. z \in Nat
    BY <1>3 DEF For
  <2>2. Requested(requests', caller', v, b) = Requested(requests, caller, v, b) + z
    <3>1. /\ Requested(requests', caller', v, b) =
               Requested(requests, caller, v, b) - Claim(requests[g], v, b) + Claim(r, v, b)
      BY <1>1, <1>7, RequestTurns
    <3>2. Requested(requests, caller, v, b) \in Nat
      BY <1>8, ClaimsWeigh
    <3> QED BY <1>6, <2>1, <3>1, <3>2
  <2>3. q = p + z /\ p \in Nat
    <3>1. Requested(requests', caller, v, b) = Requested(requests, caller, v, b) + z /\ z \in Int
      BY <1>1, <2>1, <2>2
    <3> DEFINE L == Locks(s, cursor, v, b)  R == Requested(requests, caller, v, b)
               F == Forfeited(abandoned, v, b)
    <3>2. /\ Pending(s, cursor, requests, caller, abandoned, v, b) \in Nat
          /\ L \in Nat /\ R \in Nat /\ F \in Nat
      BY <1>8, PendingTerms
    <3>3. /\ Pending(s, cursor, requests', caller, abandoned, v, b) =
               L + Requested(requests', caller, v, b) + F
          /\ p = L + R + F
      BY DEF Pending
    <3>4. q = L + Requested(requests', caller, v, b) + F
      BY <1>1, <3>3
    <3>5. Requested(requests', caller, v, b) = R + z
      BY <3>1
    <3> HIDE DEF p, q, z, L, R, F
    <3>6. q = p + z /\ p \in Nat
      BY <3>1, <3>2, <3>3, <3>4, <3>5
    <3> QED BY <3>6
  <2>4. /\ FreeOf(ledger, v, b) = FreeOf(h, v, b) - p
        /\ LockedOf(ledger, v, b) = LockedOf(h, v, b) + p
        /\ FreeOf(h, v, b) >= p
    BY <1>4 DEF Tracks, Funded, h
  <2>5. /\ FreeOf(ledger', v, b) = FreeOf(ledger, v, b) + For(u, a, -x, v, b)
        /\ LockedOf(ledger', v, b) = LockedOf(ledger, v, b) + z
    BY <1>9 DEF Shifted
  <2>6. For(u, a, -x, v, b) = -z /\ z <= FreeOf(ledger, v, b)
    <3>1. FreeOf(ledger, v, b) \in Int /\ FreeOf(h, v, b) \in Int
      BY <1>4, <1>8, SolventTerms, BalanceTypes DEF Whole, h
    <3> QED BY <1>3, <1>7, <2>3, <2>4, <3>1 DEF For
  <2>7. FreeOf(h, v, b) \in Int /\ LockedOf(h, v, b) \in Int
    BY <1>8, SolventTerms DEF h
  <2> HIDE DEF p, q, z
  <2>8. /\ FreeOf(h, v, b) >= q
        /\ FreeOf(ledger', v, b) = FreeOf(h, v, b) - q
        /\ LockedOf(ledger', v, b) = LockedOf(h, v, b) + q
    BY <2>1, <2>3, <2>4, <2>5, <2>6, <2>7
  <2> QED BY <2>8 DEF q
<1>12. ledger'.openBuys = h.openBuys
  BY <1>4, <1>9 DEF Shifted, Tracks, h
<1>13. /\ Funded(s, cursor, requests', caller', abandoned')
       /\ Tracks(ledger', s, cursor, requests', caller', abandoned')
  BY <1>11, <1>12 DEF Funded, Tracks, h
<1>14. errors' = 0
  BY <1>1, <1>4
<1> QED BY <1>1, <1>4, <1>10, <1>13, <1>14, GatewaySound DEF s

(* A request the gateway serves and then no more.                          *)
LEMMA RequestEnds ==
  ASSUME Base, Base', NEW g \in Requests, requests[g] # NotServing, Idle, caller' = caller,
         requests' = [requests EXCEPT ![g] = NotServing]
  PROVE  LET cmd == requests[g].cmd
             funds == ReservationOf(cmd)
         IN /\ cmd \in Command /\ cmd.userId \in Users /\ cmd.userId \in Holders
            /\ funds.asset \in Assets /\ funds.amount \in Nat /\ funds.amount > 0
            /\ \A v, b :
                 /\ Requested(requests', caller', v, b) =
                      Requested(requests, caller, v, b)
                        - For(cmd.userId, funds.asset, funds.amount, v, b)
                 /\ For(cmd.userId, funds.asset, funds.amount, v, b)
                      <= Requested(requests, caller, v, b)
                 /\ Requested(requests, caller, v, b) \in Nat
                 /\ For(cmd.userId, funds.asset, funds.amount, v, b) \in Nat
<1> DEFINE cmd == requests[g].cmd  funds == ReservationOf(cmd)
           z(v, b) == For(cmd.userId, funds.asset, funds.amount, v, b)
<1>1. IsRequest(requests[g]) /\ AllRequests(requests)
  BY DEF Base, Served, AllRequests
<1>2. cmd \in Command /\ funds.amount > 0
  BY <1>1, RequestTerms
<1>3. /\ cmd.userId \in Users /\ cmd.userId \in Holders
      /\ funds.asset \in Assets /\ funds.amount \in Nat
  BY <1>2, CommandTerms
<1>4. ASSUME NEW v, NEW b
      PROVE  /\ Requested(requests', caller', v, b) = Requested(requests, caller, v, b) - z(v, b)
             /\ z(v, b) <= Requested(requests, caller, v, b)
             /\ Requested(requests, caller, v, b) \in Nat /\ z(v, b) \in Nat
  <2>1. Claim(requests[g], v, b) = z(v, b) /\ Claim(NotServing, v, b) = 0
    BY ClaimIs DEF Claim
  <2>2. /\ Requested(requests', caller', v, b) =
             Requested(requests, caller, v, b) - Claim(requests[g], v, b) + Claim(NotServing, v, b)
        /\ Claim(requests[g], v, b) \in Nat
        /\ Claim(requests[g], v, b) <= Requested(requests, caller, v, b)
    BY RequestTurns
  <2>3. Requested(requests, caller, v, b) \in Nat
    BY <1>1, ClaimsWeigh
  <2> HIDE DEF cmd, funds, z
  <2> QED BY <2>1, <2>2, <2>3
<1> QED BY <1>2, <1>3, <1>4

LEMMA RollBackSound ==
  ASSUME Base, Base', Sound, NEW g \in Requests, RollBack(g)
  PROVE  Sound'
<1> DEFINE s == History  h == Before(s, cursor)  cmd == requests[g].cmd
           u == cmd.userId  a == ReservationOf(cmd).asset  x == ReservationOf(cmd).amount
<1>1. /\ Idle /\ requests[g].stage = "rejected"
      /\ requests' = [requests EXCEPT ![g] = NotServing]
      /\ UNCHANGED <<vars, stream, cursor, phase, known, reset, todo, caller, abandoned, outdated>>
  BY DEF RollBack, ledgerVars
<1>2. requests[g] # NotServing
  BY <1>1 DEF NotServing
<1>3. /\ ~outdated /\ phase = "live" /\ Whole(ledger) /\ errors = 0
      /\ Funded(s, cursor, requests, caller, abandoned)
  BY <1>2, Serving DEF Sound
<1>4. reset # "ledger" => Tracks(ledger, s, cursor, requests, caller, abandoned)
  BY <1>3 DEF Sound
<1>5. /\ u \in Holders /\ a \in Assets /\ x \in Nat /\ x > 0
      /\ \A v, b : /\ Requested(requests', caller', v, b) =
                        Requested(requests, caller, v, b) - For(u, a, x, v, b)
                   /\ For(u, a, x, v, b) <= Requested(requests, caller, v, b)
                   /\ Requested(requests, caller, v, b) \in Nat
                   /\ For(u, a, x, v, b) \in Nat
  BY <1>1, <1>2, RequestEnds
<1>6. /\ s \in Seq(Event) /\ cursor \in 0..Len(s) /\ Accounted(s)
      /\ AllRequests(requests) /\ abandoned \in Seq(Users \X Assets \X Nat)
  BY HistoryTerms, BorneTerms DEF Base, Served, AllRequests, Sound
<1>7. /\ reset = "ledger" => ledger' = ledger /\ errors' = errors
      /\ reset # "ledger" =>
           /\ ledger' = Release([ledger EXCEPT !.thrown = FALSE], u, a, x)
           /\ Thrown(ledger')
  BY DEF RollBack
<1>8. caller' = caller /\ abandoned' = abandoned
  BY <1>1
<1> HIDE DEF s, h, u, a, x
<1> DEFINE p(v, b) == Pending(s, cursor, requests, caller, abandoned, v, b)
           q(v, b) == Pending(s, cursor, requests', caller', abandoned', v, b)
           z(v, b) == For(u, a, x, v, b)
<1>9. ASSUME NEW v, NEW b
      PROVE  p(v, b) \in Nat /\ z(v, b) \in Nat /\ z(v, b) <= p(v, b) /\ q(v, b) = p(v, b) - z(v, b)
  <2> DEFINE L == Locks(s, cursor, v, b)  R == Requested(requests, caller, v, b)
             F == Forfeited(abandoned, v, b)
  <2>1. L \in Nat /\ R \in Nat /\ F \in Nat
    BY <1>6, PendingTerms
  <2>2. p(v, b) = L + R + F /\ q(v, b) = L + (R - z(v, b)) + F
    BY <1>5, <1>8 DEF Pending
  <2>3. z(v, b) \in Nat /\ z(v, b) <= R
    BY <1>5
  <2> HIDE DEF L, R, F, p, q, z
  <2> QED BY <2>1, <2>2, <2>3
<1>10. ASSUME NEW v \in Holders, NEW b \in Assets
       PROVE  /\ FreeOf(h, v, b) \in Int /\ LockedOf(h, v, b) \in Int /\ LockedOf(h, v, b) >= 0
              /\ FreeOf(h, v, b) >= p(v, b)
              /\ reset # "ledger" =>
                   /\ FreeOf(ledger, v, b) = FreeOf(h, v, b) - p(v, b)
                   /\ LockedOf(ledger, v, b) = LockedOf(h, v, b) + p(v, b)
  BY <1>3, <1>4, <1>6, SolventTerms DEF Funded, Tracks, h
<1>11. Funded(s, cursor, requests', caller', abandoned')
  <2> SUFFICES ASSUME NEW v \in Holders, NEW b \in Assets PROVE FreeOf(h, v, b) >= q(v, b)
    BY DEF Funded, h
  <2> HIDE DEF p, q, z
  <2> QED BY <1>9, <1>10
<1>12. CASE reset = "ledger"
  <2>1. Whole(ledger') /\ errors' = 0
    BY <1>3, <1>7, <1>12
  <2> QED BY <1>1, <1>3, <1>11, <1>12, <2>1, GatewaySound DEF s
<1>13. CASE reset # "ledger"
  <2>1. Shifted(ledger, ledger', u, a, x, -x)
    <3>1. [ledger EXCEPT !.thrown = FALSE] = ledger
      BY <1>3 DEF Whole, LedgerOK
    <3>2. x <= LockedOf(ledger, u, a)
      <4>1. z(u, a) = x
        BY DEF For
      <4> HIDE DEF p, q, z
      <4> QED BY <1>5, <1>9, <1>10, <1>13, <4>1
    <3>3. LedgerOK(ledger) /\ IsFiniteSet(Holders)
      BY <1>3, FiniteHolders DEF Whole
    <3>4. ledger' = Release(ledger, u, a, x)
      BY <1>7, <1>13, <3>1
    <3> QED BY <1>5, <3>2, <3>3, <3>4, ReleaseEffect
  <2>2. Whole(ledger')
    <3> SUFFICES ASSUME NEW b \in Assets PROVE Held(ledger', b) = Endowed(b)
      BY <2>1 DEF Whole, Shifted
    <3>1. /\ Held(ledger', b) = Held(ledger, b) + (IF b = a THEN x + -x ELSE 0)
          /\ Held(ledger, b) = Endowed(b)
      BY <1>3, <2>1 DEF Shifted, Whole
    <3>2. Held(ledger, b) \in Int
      BY <1>3, FiniteHolders, HeldType DEF Whole
    <3> QED BY <1>5, <3>1, <3>2
  <2>3. errors' = 0
    <3>1. ~ledger'.thrown
      BY <1>5, <2>1, BalanceTypes DEF Shifted
    <3> QED BY <1>3, <1>7, <1>13, <3>1 DEF Thrown
  <2>4. Tracks(ledger', s, cursor, requests', caller', abandoned')
    <3>1. ledger'.openBuys = h.openBuys
      BY <1>4, <1>13, <2>1 DEF Shifted, Tracks, h
    <3>2. ASSUME NEW v \in Holders, NEW b \in Assets
          PROVE  /\ FreeOf(ledger', v, b) = FreeOf(h, v, b) - q(v, b)
                 /\ LockedOf(ledger', v, b) = LockedOf(h, v, b) + q(v, b)
      <4>1. /\ FreeOf(ledger', v, b) = FreeOf(ledger, v, b) + z(v, b)
            /\ LockedOf(ledger', v, b) = LockedOf(ledger, v, b) + For(u, a, -x, v, b)
        BY <2>1 DEF Shifted
      <4>2. For(u, a, -x, v, b) = -z(v, b)
        BY <1>5 DEF For
      <4> HIDE DEF p, q, z
      <4> QED BY <1>9, <1>10, <1>13, <4>1, <4>2
    <3> QED BY <3>1, <3>2 DEF Tracks, h
  <2> QED BY <1>1, <1>3, <1>11, <2>2, <2>3, <2>4, GatewaySound DEF s
<1> QED BY <1>12, <1>13

LEMMA BreakOffSound ==
  ASSUME Base, Base', Sound, NEW g \in Requests, BreakOff(g)
  PROVE  Sound'
<1> DEFINE s == History  cmd == requests[g].cmd
           u == cmd.userId  a == ReservationOf(cmd).asset  x == ReservationOf(cmd).amount
<1>1. /\ Idle /\ requests[g] # NotServing
      /\ requests' = [requests EXCEPT ![g] = NotServing]
      /\ abandoned' = Append(abandoned, <<u, a, x>>)
      /\ UNCHANGED <<vars, ledger, stream, cursor, phase, known, reset, todo, caller, errors,
                     outdated>>
  BY DEF BreakOff
<1>2. /\ ~outdated /\ phase = "live" /\ Whole(ledger) /\ errors = 0
      /\ Funded(s, cursor, requests, caller, abandoned)
  BY <1>1, Serving DEF Sound
<1>3. reset # "ledger" => Tracks(ledger, s, cursor, requests, caller, abandoned)
  BY <1>2 DEF Sound
<1>4. /\ u \in Users /\ a \in Assets /\ x \in Nat
      /\ \A v, b : /\ Requested(requests', caller', v, b) =
                        Requested(requests, caller, v, b) - For(u, a, x, v, b)
                   /\ Requested(requests, caller, v, b) \in Nat
                   /\ For(u, a, x, v, b) \in Nat
  BY <1>1, RequestEnds
<1>5. /\ s \in Seq(Event) /\ cursor \in 0..Len(s)
      /\ AllRequests(requests) /\ abandoned \in Seq(Users \X Assets \X Nat)
  BY HistoryTerms DEF Base, Served, AllRequests
<1> DEFINE y == <<u, a, x>>
<1>6. y \in Users \X Assets \X Nat /\ \A v, b : Forfeit(y, v, b) = For(u, a, x, v, b)
  BY <1>4 DEF Forfeit
<1>7. caller' = caller /\ abandoned' = Append(abandoned, y)
  BY <1>1
<1> HIDE DEF s, u, a, x, y
<1>8. SamePending(s, cursor, requests, caller, abandoned, s, requests', caller', abandoned')
  <2> SUFFICES ASSUME NEW v \in Holders, NEW b \in Assets
               PROVE  Pending(s, cursor, requests', caller', abandoned', v, b)
                        = Pending(s, cursor, requests, caller, abandoned, v, b)
    BY DEF SamePending
  <2> DEFINE L == Locks(s, cursor, v, b)  R == Requested(requests, caller, v, b)
             F == Forfeited(abandoned, v, b)  z == For(u, a, x, v, b)
  <2>1. L \in Nat /\ R \in Nat /\ F \in Nat
    BY <1>5, PendingTerms
  <2>2. z \in Nat /\ Requested(requests', caller', v, b) = R - z
    BY <1>4
  <2>3. Forfeited(abandoned', v, b) = F + z
    <3> DEFINE lost == abandoned  later == abandoned'
    <3>1. lost \in Seq(Users \X Assets \X Nat) /\ y \in Users \X Assets \X Nat
          /\ later = Append(lost, y)
      BY <1>5, <1>6, <1>7
    <3> HIDE DEF lost, later
    <3>2. Forfeited(Append(lost, y), v, b) = Forfeited(lost, v, b) + Forfeit(y, v, b)
      BY <3>1, ForfeitAppended
    <3> QED BY <1>6, <3>1, <3>2 DEF lost, later
  <2>4. /\ Pending(s, cursor, requests, caller, abandoned, v, b) = L + R + F
        /\ Pending(s, cursor, requests', caller', abandoned', v, b) =
             L + Requested(requests', caller', v, b) + Forfeited(abandoned', v, b)
    BY DEF Pending
  <2> HIDE DEF L, R, F, z
  <2> QED BY <2>1, <2>2, <2>3, <2>4
<1>9. /\ Funded(s, cursor, requests', caller', abandoned')
      /\ reset # "ledger" => Tracks(ledger, s, cursor, requests', caller', abandoned')
  BY <1>2, <1>3, <1>8, LiveKept
<1>10. Whole(ledger') /\ errors' = 0
       /\ reset # "ledger" => Tracks(ledger', s, cursor, requests', caller', abandoned')
  BY <1>1, <1>2, <1>9
<1> QED BY <1>1, <1>2, <1>9, <1>10, GatewaySound DEF s

-----------------------------------------------------------------------------
(* The invariant holds from the start and every step keeps it. *)

LEMMA EmptyEngine == book = EmptyBook /\ order = NoOrder => Alive = {}
<1> SUFFICES ASSUME book = EmptyBook, order = NoOrder PROVE Alive = {}
  OBVIOUS
<1>1. \A s \in Sides : PricesOn(EmptyBook, s) = {}
  BY EmptyBookWellFormed
<1>2. RestingOn(EmptyBook, "buy") = {} /\ RestingOn(EmptyBook, "sell") = {}
  BY <1>1 DEF RestingOn, Sides
<1> QED BY <1>2 DEF Alive, AllResting, InHand

LEMMA XInit == ExchangeInit => XInv
<1> SUFFICES ASSUME ExchangeInit PROVE Base /\ Sound
  BY DEF XInv
<1>1. /\ Init /\ ledger = FreshLedger /\ stream = << >> /\ cursor = 0 /\ phase = "live"
      /\ known = 0 /\ reset = "no" /\ requests = [g \in Requests |-> NotServing]
      /\ todo = [g \in Requests |-> << >>]
      /\ caller = NoRequest /\ errors = 0 /\ abandoned = << >> /\ ~outdated
  BY DEF ExchangeInit
<1>2. order = NoOrder /\ book = EmptyBook /\ Idle
  BY <1>1 DEF Init, Idle
<1>3. Base
  <2>1. PInv /\ TotalsExact(book)
    BY <1>1, InitPInv, InitTotals
  <2>2. Served
    BY <1>1, <1>2 DEF Served, IsRequest
  <2>3. Streamed
    BY <1>1 DEF Streamed
  <2>4. abandoned \in Seq(Users \X Assets \X Nat)
    BY <1>1
  <2>5. Told
    BY <1>1 DEF Told, Queues
  <2>6. Numbered
    <3>1. \A g \in Requests : Len(Waiting[g]) = 0
      BY <1>1, <1>2 DEF Waiting
    <3>2. \A g \in Requests : ~\E i : i \in 1..Len(Waiting[g])
      BY <3>1
    <3> QED BY <3>2 DEF Numbered, Unsent, Queued, Apart
  <2> QED BY <2>1, <2>2, <2>3, <2>4, <2>5, <2>6 DEF Base
<1>4. History = << >> /\ Alive = {} /\ Unsent = {} /\ nextId \in Nat
  <2>1. \A g \in Requests : Len(Waiting[g]) = 0
    BY <1>1, <1>2 DEF Waiting
  <2>2. \A g \in Requests : ~\E i : i \in 1..Len(Waiting[g])
    BY <2>1
  <2>3. Unsent = {}
    BY <2>2 DEF Unsent, Queued
  <2> QED BY <1>1, <1>2, <2>3, EmptyEngine DEF History, Init
<1>5. Borne(<< >>, {}, {}, nextId)
  BY <1>4, BorneNothing
<1>6. Whole(ledger)
  BY <1>1, FreshSolvent DEF Solvent, Whole
<1>7. NoRequests(requests)
  BY <1>1 DEF NoRequests
<1> DEFINE s == << >>
<1>8. /\ s \in Seq(Event) /\ 0 \in 0..Len(s) /\ NoneAccepted(s, 0)
      /\ Before(s, 0) = FreshLedger
  <2>1. s \in Seq(Event) /\ Len(s) = 0
    OBVIOUS
  <2> HIDE DEF s
  <2>2. Before(s, 0) = FreshLedger
    BY <2>1, BeforeLaws
  <2>3. NoneAccepted(s, 0)
    BY <2>1 DEF NoneAccepted
  <2> QED BY <2>1, <2>2, <2>3
<1> DEFINE lost == << >>
<1>9. ASSUME NEW v \in Holders, NEW b \in Assets
      PROVE  /\ Pending(s, 0, requests, caller, lost, v, b) = 0
             /\ FreeOf(FreshLedger, v, b) \in Int /\ FreeOf(FreshLedger, v, b) >= 0
             /\ LockedOf(FreshLedger, v, b) \in Int
  <2>1. Pending(s, 0, requests, caller, lost, v, b) = 0
    <3> HIDE DEF s
    <3> QED BY <1>7, <1>8, NothingPending
  <2>2. FreeOf(FreshLedger, v, b) \in Int /\ LockedOf(FreshLedger, v, b) \in Int
    BY FreshSolvent, BalanceTypes DEF Solvent
  <2>3. FreeOf(FreshLedger, v, b) >= 0
    BY FreshSolvent DEF Solvent
  <2> QED BY <2>1, <2>2, <2>3
<1> HIDE DEF s, lost
<1>10. Funded(s, 0, requests, caller, lost) /\ Tracks(ledger, s, 0, requests, caller, lost)
  BY <1>1, <1>8, <1>9 DEF Funded, Tracks
<1>11. s = History /\ lost = abandoned
  BY <1>1, <1>4 DEF s, lost
<1>12. /\ Funded(History, cursor, requests, caller, abandoned)
       /\ Tracks(ledger, History, cursor, requests, caller, abandoned)
  BY <1>1, <1>10, <1>11
<1>13. Borne(History, Alive, Unsent, nextId)
  BY <1>4, <1>5
<1> QED BY <1>1, <1>3, <1>6, <1>12, <1>13 DEF Sound

LEMMA XStep ==
  ASSUME "MARKET" \notin Types
  PROVE  XInv /\ [ExchangeNext]_allVars => XInv'
<1> SUFFICES ASSUME XInv, [ExchangeNext]_allVars, ~overlapped'
             PROVE  Base' /\ Sound'
  BY DEF XInv
<1>1. ~overlapped
  BY DEF ExchangeNext, ReserveFunds, Place, RollBack, BreakOff, AppendNext, AppendFails,
         RunMatcher, UserCancel, Consume, Replay,
         LedgerRestart, StartOver, ResetEngine, StartLedgerReset, FinishLedgerReset,
         allVars, exchangeVars
<1>2. Base /\ Sound
  BY <1>1 DEF XInv
<1>3. OpenSet(Alive)
  BY <1>2, BorneTerms DEF Sound
<1>4. ASSUME NEW g \in Requests, ReserveFunds(g) PROVE Base' /\ Sound'
  <2>1. Base'
    BY <1>2, <1>4, BaseRequests
  <2> QED BY <1>2, <1>4, <2>1, ReserveSound
<1>5. ASSUME NEW g \in Requests, Place(g) PROVE Base' /\ Sound'
  <2>1. Base'
    BY <1>2, <1>3, <1>5, BaseEngine
  <2> QED BY <1>2, <1>5, <2>1, PlaceSound
<1>6. ASSUME NEW g \in Requests, RollBack(g) PROVE Base' /\ Sound'
  <2>1. Base'
    BY <1>2, <1>6, BaseRequests
  <2> QED BY <1>2, <1>6, <2>1, RollBackSound
<1>7. ASSUME NEW g \in Requests, BreakOff(g) PROVE Base' /\ Sound'
  <2>1. Base'
    BY <1>2, <1>7, BaseRequests
  <2> QED BY <1>2, <1>7, <2>1, BreakOffSound
<1>8. CASE RunMatcher
  <2>1. Base'
    BY <1>2, <1>3, <1>8, BaseEngine
  <2> QED BY <1>2, <1>8, <2>1, MatcherSound
<1>9. ASSUME NEW user \in Users, NEW id \in 1..MaxOrders, UserCancel(user, id)
      PROVE  Base' /\ Sound'
  <2>1. Base'
    BY <1>2, <1>3, <1>9, BaseEngine
  <2> QED BY <1>2, <1>9, <2>1, CancelSound
<1>10. CASE Consume
  <2>1. Base'
    BY <1>2, <1>10, BaseLedger
  <2> QED BY <1>2, <1>10, <2>1, ConsumeSound
<1>11. CASE Replay
  <2>1. Base'
    BY <1>2, <1>11, BaseLedger
  <2> QED BY <1>2, <1>11, <2>1, ReplaySound
<1>12. CASE LedgerRestart \/ FinishLedgerReset
  <2>1. Base'
    BY <1>2, <1>12, BaseLedger
  <2> QED BY <1>2, <1>12, <2>1, StartOverSound
<1>13. CASE ResetEngine
  <2>1. Base'
    BY <1>2, <1>13, BaseReset
  <2> QED BY <1>2, <1>13, <2>1, ResetSound
<1>14. CASE StartLedgerReset \/ UNCHANGED allVars
  <2>1. Base'
    BY <1>2, <1>14, BaseLedger
  <2> QED BY <1>2, <1>14, <2>1, IdleSound
<1>15. ASSUME NEW g \in Requests, AppendNext(g) PROVE Base' /\ Sound'
  <2>1. Base'
    BY <1>2, <1>15, BaseAppend
  <2> QED BY <1>2, <1>15, <2>1, AppendSound
<1>16. \A g \in Requests : ~AppendFails(g)
  BY DEF AppendFails
<1> QED BY <1>4, <1>5, <1>6, <1>7, <1>8, <1>9, <1>10, <1>11, <1>12, <1>13, <1>14, <1>15, <1>16
        DEF ExchangeNext

LEMMA XInvariance ==
  ASSUME "MARKET" \notin Types
  PROVE  ExchangeSpec => []XInv
<1>1. XInv /\ [ExchangeNext]_allVars => XInv'
  BY XStep
<1> QED BY <1>1, XInit, PTL DEF ExchangeSpec

-----------------------------------------------------------------------------
(* The sums that the properties are stated with. *)

LEMMA PartSum ==
  ASSUME NEW S, NEW w, Weighs(w, S), NEW T \in SUBSET S, \A x \in S \ T : w[x] = 0,
         NEW f, f = [x \in T |-> f[x]], \A x \in T : f[x] = w[x]
  PROVE  SumFunction(f) = Sigma(w, S)
<1>1. IsFiniteSet(T)
  BY FS_Subset DEF Weighs
<1>2. Weighs(f, T) /\ Weighs(w, T)
  BY <1>1 DEF Weighs
<1>3. SumFunctionOnSet(f, T) = Sigma(f, T)
  BY <1>2, SumFunctionIsSigma
<1>4. Sigma(f, T) = Sigma(w, T)
  BY <1>2, SigmaSame
<1>5. Sigma(w, T) = Sigma(w, S)
  BY SigmaPart
<1>6. DOMAIN f = T
  OBVIOUS
<1> QED BY <1>3, <1>4, <1>5, <1>6 DEF SumFunction

(* No asset is created or destroyed, by the settler's roundings and fees,  *)
(* by releases and replays, or by deaths and resets of the ledger between  *)
(* requests (settler.ts:79).                                               *)
THEOREM MoneyIsConserved ==
  ASSUME "MARKET" \notin Types
  PROVE  ExchangeSpec => []MoneyConserved
<1>1. ASSUME XInv PROVE MoneyConserved
  <2> SUFFICES ASSUME ~overlapped, NEW a \in Assets
               PROVE  Total(Holders, a) = Cardinality(Holders) * InitialBalances[a]
    BY DEF MoneyConserved
  <2>1. LedgerOK(ledger) /\ Held(ledger, a) = Endowed(a)
    BY <1>1 DEF XInv, Sound, Whole
  <2> DEFINE f == [u \in Holders |-> FreeOf(ledger, u, a) + LockedOf(ledger, u, a)]
             w == [u \in Holders |-> Wealth(ledger, u, a)]
  <2>2. f = w /\ f = [u \in Holders |-> f[u]]
    BY DEF Wealth
  <2>3. Weighs(w, Holders)
    BY <2>1, FiniteHolders, BalanceTypes DEF Weighs
  <2>4. Total(Holders, a) = SumFunction(f) /\ Held(ledger, a) = Sigma(w, Holders)
    BY DEF Total, Held
  <2> HIDE DEF f, w
  <2>5. SumFunction(f) = Sigma(w, Holders)
    BY <2>2, <2>3, PartSum
  <2> QED BY <2>1, <2>4, <2>5 DEF Endowed
<1> QED BY <1>1, XInvariance, PTL

(* Nothing the settler or the gateway does to a balance is ever refused:   *)
(* whatever an order pays, and whatever is given back, was locked for it   *)
(* (accounts.ts, settler.ts:60-110, gateway server.ts).                    *)
THEOREM NothingEverThrows ==
  ASSUME "MARKET" \notin Types
  PROVE  ExchangeSpec => []NothingThrows
<1>1. XInv => NothingThrows
  BY DEF XInv, Sound, NothingThrows
<1> QED BY <1>1, XInvariance, PTL

-----------------------------------------------------------------------------
(* When the ledger has caught up. *)

LEMMA DrainedTerms ==
  ASSUME XInv, Drained
  PROVE  /\ Base /\ History = stream /\ stream \in Seq(Event) /\ caller = NoRequest
         /\ AllRequests(requests)
         /\ Accounted(stream) /\ OpenSet(Alive)
         /\ Owes(Rebuild(stream), Alive, stream) /\ Listed(Alive, stream) = Alive
         /\ LedgerOK(ledger) /\ LedgerOK(Rebuild(stream))
         /\ ledger.openBuys = Rebuild(stream).openBuys
         /\ Alive = AllResting(book) /\ BookWellFormed(book)
         /\ \A v \in Holders : \A b \in Assets :
              LET p == Requested(requests, caller, v, b) + Forfeited(abandoned, v, b)
              IN /\ p \in Nat
                 /\ FreeOf(ledger, v, b) = FreeOf(Rebuild(stream), v, b) - p
                 /\ LockedOf(ledger, v, b) = LockedOf(Rebuild(stream), v, b) + p
<1>1. /\ Base /\ Sound /\ Idle /\ phase = "live" /\ reset = "no" /\ cursor = Len(stream)
  BY DEF XInv, Drained, CaughtUp
<1>2. History = stream /\ stream \in Seq(Event) /\ cursor \in 0..Len(stream)
  BY <1>1, HistoryTerms DEF Base, Streamed
<1>3. /\ caller = NoRequest /\ AllRequests(requests) /\ abandoned \in Seq(Users \X Assets \X Nat)
      /\ BookWellFormed(book)
  BY <1>1 DEF Base, Served, AllRequests, PInv, IInv
<1>4. /\ ~outdated /\ Whole(ledger) /\ Borne(History, Alive, Unsent, nextId)
      /\ Tracks(ledger, History, cursor, requests, caller, abandoned)
  BY <1>1 DEF Sound
<1>11. Unsent = {}
  <2>1. Appending = {} /\ Waiting = todo /\ todo \in Queues
    BY <1>1, WaitingTerms DEF Drained, CaughtUp
  <2>2. \A g \in Requests : todo[g] = << >>
    BY <2>1 DEF Appending
  <2>3. \A g \in Requests : Len(Waiting[g]) = 0
    BY <2>1, <2>2
  <2>4. \A g \in Requests : ~\E i : i \in 1..Len(Waiting[g])
    BY <2>3
  <2> QED BY <2>4 DEF Unsent, Queued
<1>5. /\ Accounted(stream) /\ OpenSet(Alive)
      /\ Owes(Rebuild(stream), Alive, stream) /\ Listed(Alive, stream) = Alive
      /\ Tracks(ledger, stream, cursor, requests, caller, abandoned)
  <2>1. Borne(stream, Alive, {}, nextId)
    BY <1>2, <1>4, <1>11
  <2>2. PICK W : Backed(stream, W) /\ Linked(W, Alive, {}, stream, nextId)
    BY <2>1 DEF Borne
  <2>3. W = Alive /\ Listed(Alive, stream) = Alive
    BY <2>2, LinkSettled
  <2> QED BY <1>2, <1>4, <2>2, <2>3 DEF Backed
<1>6. Before(stream, cursor) = Rebuild(stream)
  BY <1>1, <1>2, BeforeLaws
<1>7. LedgerOK(Rebuild(stream))
  BY <1>2, <1>5, <1>6, SolventTerms
<1>8. ASSUME NEW v \in Holders, NEW b \in Assets
      PROVE  LET p == Requested(requests, caller, v, b) + Forfeited(abandoned, v, b)
             IN /\ p \in Nat
                /\ FreeOf(ledger, v, b) = FreeOf(Rebuild(stream), v, b) - p
                /\ LockedOf(ledger, v, b) = LockedOf(Rebuild(stream), v, b) + p
  <2> DEFINE R == Requested(requests, caller, v, b)  F == Forfeited(abandoned, v, b)
             q == Pending(stream, cursor, requests, caller, abandoned, v, b)
  <2>1. R \in Nat /\ F \in Nat
    BY <1>2, <1>3, PendingTerms
  <2>2. q = Locks(stream, cursor, v, b) + R + F
    BY DEF Pending
  <2>3. Locks(stream, cursor, v, b) = 0
    BY <1>1, <1>2, LocksLaws
  <2>4. /\ FreeOf(ledger, v, b) = FreeOf(Rebuild(stream), v, b) - q
        /\ LockedOf(ledger, v, b) = LockedOf(Rebuild(stream), v, b) + q
    BY <1>5, <1>6 DEF Tracks
  <2>5. q = R + F
    <3> HIDE DEF R, F, q
    <3> QED BY <2>1, <2>2, <2>3
  <2> HIDE DEF R, F, q
  <2>6. /\ R + F \in Nat
        /\ FreeOf(ledger, v, b) = FreeOf(Rebuild(stream), v, b) - (R + F)
        /\ LockedOf(ledger, v, b) = LockedOf(Rebuild(stream), v, b) + (R + F)
    BY <2>1, <2>4, <2>5
  <2> QED BY <2>6 DEF R, F
<1>9. Alive = AllResting(book)
  BY <1>1 DEF Alive, InHand, Idle
<1>10. ledger.openBuys = Rebuild(stream).openBuys
  BY <1>5, <1>6 DEF Tracks
<1> QED BY <1>1, <1>2, <1>3, <1>4, <1>5, <1>7, <1>8, <1>9, <1>10 DEF Whole

(* The settler's own table of open buys is the buy side of the book, once  *)
(* it has applied every event: it fills and forgets orders as the matcher  *)
(* does (settler.ts).                                                      *)
THEOREM OpenBuysRest ==
  ASSUME "MARKET" \notin Types
  PROVE  ExchangeSpec => []OpenBuysAreResting
<1>1. ASSUME XInv PROVE OpenBuysAreResting
  <2> SUFFICES ASSUME Drained
               PROVE  ledger.openBuys =
                        [id \in {o.orderId : o \in RestingOn(book, "buy")} |->
                           [price |-> GetOrder(book, id).price,
                            remaining |-> GetOrder(book, id).remaining]]
    BY DEF OpenBuysAreResting
  <2> DEFINE B == ledger.openBuys
  <2>1. /\ Tabled(B, AllResting(book)) /\ BookWellFormed(book)
        /\ B = [id \in DOMAIN B |-> B[id]]
    BY <1>1, DrainedTerms DEF Owes, LedgerOK
  <2>2. Buys(AllResting(book)) = RestingOn(book, "buy")
    <3>1. \A r : r \in RestingOn(book, "buy") <=> r \in AllResting(book) /\ r.side = "buy"
      BY <2>1, RestingById DEF Sides
    <3> QED BY <3>1 DEF Buys
  <2> HIDE DEF B
  <2>3. /\ DOMAIN B = {o.orderId : o \in RestingOn(book, "buy")}
        /\ \A o \in RestingOn(book, "buy") :
             B[o.orderId] = [price |-> o.price, remaining |-> o.remaining]
    BY <2>1, <2>2 DEF Tabled
  <2>4. \A o \in RestingOn(book, "buy") : GetOrder(book, o.orderId) = o
    BY <2>1, RestingById DEF Sides
  <2>5. \A id \in DOMAIN B : B[id] = [price |-> GetOrder(book, id).price,
                                      remaining |-> GetOrder(book, id).remaining]
    BY <2>3, <2>4
  <2>6. B = [id \in {o.orderId : o \in RestingOn(book, "buy")} |->
               [price |-> GetOrder(book, id).price, remaining |-> GetOrder(book, id).remaining]]
    BY <2>1, <2>3, <2>5
  <2> QED BY <2>6 DEF B
<1> QED BY <1>1, XInvariance, PTL

(* A ledger rebuilt from the stream alone has the balances of the live     *)
(* one, which took its locks from the gateway instead                      *)
(* (docs/ARCHITECTURE.md:7).                                               *)
THEOREM StreamRebuildsLedger ==
  ASSUME "MARKET" \notin Types
  PROVE  ExchangeSpec => []RebuiltFromStream
<1>1. ASSUME XInv PROVE RebuiltFromStream
  <2> SUFFICES ASSUME Quiet, ~overlapped, abandoned = << >> PROVE AgreesWithStream
    BY DEF RebuiltFromStream
  <2>1. Drained /\ \A g \in Requests : requests[g] = NotServing
    BY DEF Quiet, Drained, InFlightRequests
  <2> DEFINE l == ledger  m == Rebuild(stream)
  <2>2. /\ LedgerOK(l) /\ LedgerOK(m)
        /\ \A v \in Holders : \A b \in Assets :
             LET p == Requested(requests, caller, v, b) + Forfeited(abandoned, v, b)
             IN /\ FreeOf(l, v, b) = FreeOf(m, v, b) - p
                /\ LockedOf(l, v, b) = LockedOf(m, v, b) + p
    BY <1>1, <2>1, DrainedTerms
  <2> HIDE DEF l, m
  <2>3. ASSUME NEW v \in Holders, NEW b \in Assets
        PROVE  l.balances[v][b] = m.balances[v][b]
    <3>1. Requested(requests, caller, v, b) = 0
      BY <2>1, NothingRequested
    <3>2. Forfeited(abandoned, v, b) = 0
      <4>1. abandoned \in Seq(Users \X Assets \X Nat)
        OBVIOUS
      <4> QED BY <4>1, ForfeitLaws
    <3>3. /\ FreeOf(l, v, b) \in Int /\ LockedOf(l, v, b) \in Int
          /\ FreeOf(m, v, b) \in Int /\ LockedOf(m, v, b) \in Int
          /\ l.balances[v][b] = [free |-> FreeOf(l, v, b), locked |-> LockedOf(l, v, b)]
          /\ m.balances[v][b] = [free |-> FreeOf(m, v, b), locked |-> LockedOf(m, v, b)]
      BY <2>2, BalanceTypes
    <3>4. FreeOf(l, v, b) = FreeOf(m, v, b) - (0 + 0) /\ LockedOf(l, v, b) = LockedOf(m, v, b) + (0 + 0)
      BY <2>2, <3>1, <3>2
    <3>5. FreeOf(l, v, b) = FreeOf(m, v, b) /\ LockedOf(l, v, b) = LockedOf(m, v, b)
      BY <3>3, <3>4
    <3> QED BY <3>3, <3>5
  <2>4. /\ l.balances \in [Holders -> [Assets -> Balance]]
        /\ m.balances \in [Holders -> [Assets -> Balance]]
    BY <2>2 DEF LedgerOK
  <2>5. \A v \in Holders : l.balances[v] = m.balances[v]
    BY <2>3, <2>4
  <2>6. l.balances = m.balances
    BY <2>4, <2>5
  <2> QED BY <2>6 DEF AgreesWithStream, l, m
<1> QED BY <1>1, XInvariance, PTL

LEMMA DueIsCommitted ==
  ASSUME NEW u \in Users, NEW asset \in Assets, BookWellFormed(book), OpenSet(AllResting(book))
  PROVE  SumFunction([o \in OpenOrders(u, IF asset = "USDC" THEN "buy" ELSE "sell")
                        |-> ReserveForOrder(o.side, o.price, o.remaining).amount])
           = Due(AllResting(book), u, asset)
<1> DEFINE S == AllResting(book)  side == IF asset = "USDC" THEN "buy" ELSE "sell"
           T == OpenOrders(u, side)
           f == [o \in T |-> ReserveForOrder(o.side, o.price, o.remaining).amount]
           w == [o \in Order |-> DueOf(o, u, asset)]
<1>1. side \in Sides /\ S \in SUBSET Order /\ IsFiniteSet(S)
  BY DEF OpenSet, Sides
<1>2. \A o : o \in T <=> o \in S /\ o.side = side /\ o.userId = u
  BY <1>1, RestingById DEF OpenOrders
<1>3. ASSUME NEW o \in S
      PROVE  /\ o.side \in Sides /\ o.userId \in Users
             /\ w[o] \in Nat /\ w[o] = DueOf(o, u, asset)
             /\ ReserveForOrder(o.side, o.price, o.remaining).asset
                  = IF o.side = "buy" THEN "USDC" ELSE "BTC"
  <2>1. o \in Order
    BY <1>1
  <2> QED BY <2>1, OrderTerms, ReserveType
<1>4. ASSUME NEW o \in S \ T
      PROVE  w[o] = 0
  <2>1. ~(o.side = side /\ o.userId = u)
    BY <1>2
  <2>2. CASE o.userId # u
    BY <1>3, <2>2 DEF DueOf, Share, For
  <2>3. CASE o.side # side
    <3>1. ReserveForOrder(o.side, o.price, o.remaining).asset # asset
      BY <1>3, <2>3 DEF Sides, Assets
    <3> QED BY <1>3, <3>1 DEF DueOf, Share, For
  <2> QED BY <2>1, <2>2, <2>3
<1>5. ASSUME NEW o \in T
      PROVE  f[o] = w[o]
  <2>1. o \in S /\ o.side = side /\ o.userId = u
    BY <1>2
  <2>2. ReserveForOrder(o.side, o.price, o.remaining).asset = asset
    BY <1>3, <2>1 DEF Assets
  <2> QED BY <1>3, <2>1, <2>2 DEF DueOf, Share, For
<1>6. f = [o \in T |-> f[o]] /\ T \in SUBSET S
  BY <1>2
<1>7. Weighs(w, S)
  <2> HIDE DEF S, w
  <2> QED BY <1>1, <1>3 DEF Weighs
<1> HIDE DEF S, T, f, w
<1>8. SumFunction(f) = Sigma(w, S)
  BY <1>4, <1>5, <1>6, <1>7, PartSum
<1> QED BY <1>8 DEF S, T, f, w, Due

LEMMA RequestedIsInFlight ==
  ASSUME NEW u, NEW asset, AllRequests(requests), caller = NoRequest
  PROVE  InFlight(u, asset) = Requested(requests, caller, u, asset)
<1> DEFINE w == ClaimsAt(requests, caller, u, asset)
           T == {g \in InFlightRequests : /\ requests[g].cmd.userId = u
                                          /\ ReservationOf(requests[g].cmd).asset = asset}
           f == [g \in T |-> ReservationOf(requests[g].cmd).amount]
<1>1. Weighs(w, Requests) /\ Requested(requests, caller, u, asset) = Sigma(w, Requests)
  BY ClaimsWeigh DEF Requested
<1>2. \A g \in Requests : w[g] = Claim(requests[g], u, asset)
  BY ExchangeAssumption DEF ClaimsAt
<1>3. ASSUME NEW g \in Requests \ T
      PROVE  w[g] = 0
  <2>1. CASE requests[g] = NotServing
    BY <1>2, <2>1 DEF Claim
  <2>2. CASE requests[g] # NotServing
    <3>1. w[g] = For(requests[g].cmd.userId, ReservationOf(requests[g].cmd).asset,
                     ReservationOf(requests[g].cmd).amount, u, asset)
      BY <1>2, <2>2, ClaimIs
    <3> QED BY <2>2, <3>1 DEF InFlightRequests, For
  <2> QED BY <2>1, <2>2
<1>4. ASSUME NEW g \in T
      PROVE  f[g] = w[g]
  <2>1. g \in Requests /\ requests[g] # NotServing
    BY DEF InFlightRequests
  <2>2. w[g] = For(requests[g].cmd.userId, ReservationOf(requests[g].cmd).asset,
                   ReservationOf(requests[g].cmd).amount, u, asset)
    BY <1>2, <2>1, ClaimIs
  <2> QED BY <2>2 DEF For
<1>5. f = [g \in T |-> f[g]] /\ T \in SUBSET Requests
  BY DEF InFlightRequests
<1>6. InFlight(u, asset) = SumFunction(f)
  BY DEF InFlight
<1> HIDE DEF w, T, f
<1>7. SumFunction(f) = Sigma(w, Requests)
  BY <1>1, <1>3, <1>4, <1>5, PartSum
<1> QED BY <1>1, <1>6, <1>7

LEMMA ForfeitedIsAbandoned ==
  ASSUME NEW u, NEW asset, abandoned \in Seq(Users \X Assets \X Nat)
  PROVE  Abandoned(u, asset) = Forfeited(abandoned, u, asset)
<1> DEFINE n == Len(abandoned)  w == ForfeitsAt(abandoned, u, asset)
           T == {i \in DOMAIN abandoned : abandoned[i][1] = u /\ abandoned[i][2] = asset}
           f == [i \in T |-> abandoned[i][3]]
<1>1. Weighs(w, 1..n) /\ Forfeited(abandoned, u, asset) = Sigma(w, 1..n)
  BY ForfeitLaws DEF Forfeited
<1>2. DOMAIN abandoned = 1..n
  OBVIOUS
<1>3. \A i \in 1..n : w[i] = IF u = abandoned[i][1] /\ asset = abandoned[i][2]
                             THEN abandoned[i][3] ELSE 0
  BY DEF ForfeitsAt, Forfeit, For
<1>4. \A i \in (1..n) \ T : w[i] = 0
  BY <1>2, <1>3
<1>5. \A i \in T : f[i] = w[i]
  BY <1>2, <1>3
<1>6. f = [i \in T |-> f[i]] /\ T \in SUBSET (1..n)
  BY <1>2
<1>7. Abandoned(u, asset) = SumFunction(f)
  BY DEF Abandoned
<1> HIDE DEF n, w, T, f
<1>8. SumFunction(f) = Sigma(w, 1..n)
  BY <1>1, <1>4, <1>5, <1>6, PartSum
<1> QED BY <1>1, <1>7, <1>8

LEMMA StrandIsStranded ==
  ASSUME NEW u \in Users, stream \in Seq(Event), Counted(stream)
  PROVE  /\ Strand(stream, u, "USDC") = Stranded(u) /\ Stranded(u) \in Nat
         /\ Strand(stream, u, "BTC") = 0
<1> DEFINE s == stream  n == Len(s)  w == StrandAt(s, u, "USDC")  z == StrandAt(s, u, "BTC")
           T == {x \in FillsOf(u) : LateFill(s, x)}
           f == [i \in T |-> LostSurplus(s, i)]
<1>1. /\ Weighs(w, 1..n) /\ Strand(s, u, "USDC") = Sigma(w, 1..n) /\ Sigma(w, 1..n) \in Nat
      /\ Weighs(z, 1..n) /\ Strand(s, u, "BTC") = Sigma(z, 1..n)
  BY StrandType DEF Strand
<1>2. DOMAIN s = 1..n /\ n \in Nat
  OBVIOUS
<1>3. \A i : i \in T <=> i \in 1..n /\ s[i].kind = "Trade" /\ Buyer(s[i]) = u /\ LateFill(s, i)
  BY <1>2 DEF FillsOf
<1>4. ASSUME NEW i \in (1..n) \ T
      PROVE  w[i] = 0
  BY <1>3 DEF StrandAt, For, LateFill
<1>5. ASSUME NEW i \in T
      PROVE  f[i] = w[i]
  BY <1>3 DEF StrandAt, For
<1>6. f = [i \in T |-> f[i]] /\ T \in SUBSET (1..n)
  BY <1>3
<1>7. \A i \in 1..n : z[i] = 0
  BY DEF StrandAt, For
<1>8. Stranded(u) = SumFunction(f)
  BY DEF Stranded
<1>9. Weighs(z, {}) /\ {} \in SUBSET (1..n)
  BY FS_EmptySet DEF Weighs
<1> HIDE DEF s, n, w, z, T, f
<1>10. SumFunction(f) = Sigma(w, 1..n)
  BY <1>1, <1>4, <1>5, <1>6, PartSum
<1>11. Sigma(z, {}) = Sigma(z, 1..n) /\ Sigma(z, {}) = 0
  BY <1>1, <1>7, <1>9, SigmaPart, SigmaLaws
<1>12. /\ Strand(s, u, "USDC") = Stranded(u) /\ Stranded(u) \in Nat
       /\ Strand(s, u, "BTC") = 0
  BY <1>1, <1>8, <1>10, <1>11
<1> QED BY <1>12 DEF s

(* What a user has locked once the ledger has caught up is what its open   *)
(* orders and requests can still cost, and what the gateway has lost sight  *)
(* of: exactly so in BTC; in USDC with at most two units of rounding for   *)
(* each fill and one for each cancel, and with the surplus of the fills    *)
(* that the cancel of their order overtook (settler.ts:47-125), wherever   *)
(* the events of a call are parted in the stream.                          *)
THEOREM LocksAreCommitted ==
  ASSUME "MARKET" \notin Types
  PROVE  ExchangeSpec => []LocksAreCommitments
<1>1. ASSUME XInv PROVE LocksAreCommitments
  <2> SUFFICES ASSUME Drained, NEW u \in Users
               PROVE  /\ LockedOf(ledger, u, "BTC") = Committed(u, "BTC")
                      /\ LockedOf(ledger, u, "USDC") - Committed(u, "USDC") - Stranded(u)
                           \in 0..RoundingOf(u)
    BY DEF LocksAreCommitments
  <2>1. /\ AllRequests(requests) /\ caller = NoRequest
        /\ OpenSet(AllResting(book)) /\ BookWellFormed(book)
        /\ Owes(Rebuild(stream), AllResting(book), stream)
        /\ LedgerOK(Rebuild(stream))
        /\ abandoned \in Seq(Users \X Assets \X Nat)
        /\ \A v \in Holders : \A b \in Assets :
             LET p == Requested(requests, caller, v, b) + Forfeited(abandoned, v, b)
             IN /\ p \in Nat
                /\ LockedOf(ledger, v, b) = LockedOf(Rebuild(stream), v, b) + p
    BY <1>1, DrainedTerms DEF Base
  <2>6. /\ Strand(stream, u, "USDC") = Stranded(u) /\ Stranded(u) \in Nat
        /\ Strand(stream, u, "BTC") = 0
    BY <1>1, <2>1, DrainedTerms, StrandIsStranded DEF Owes
  <2>2. u \in Holders
    BY DEF Holders
  <2>3. ASSUME NEW asset \in Assets
        PROVE  LockedOf(ledger, u, asset) - Committed(u, asset) - Strand(stream, u, asset)
               \in 0..Slack(stream, u, asset)
    <3> DEFINE D == Due(AllResting(book), u, asset)
               R == Requested(requests, caller, u, asset)  F == Forfeited(abandoned, u, asset)
               L == LockedOf(Rebuild(stream), u, asset)  M == Slack(stream, u, asset)
               X == Strand(stream, u, asset)
    <3>1. Committed(u, asset) = D + R + F
      BY <2>1, DueIsCommitted, RequestedIsInFlight, ForfeitedIsAbandoned DEF Committed
    <3>2. L - D - X \in 0..M
      BY <2>1, <2>2 DEF Owes
    <3>3. LockedOf(ledger, u, asset) = L + (R + F)
      BY <2>1, <2>2
    <3>4. D \in Nat
      BY <2>1, DueLaws DEF OpenSet
    <3>5. R \in Nat /\ F \in Nat
      BY <2>1, ClaimsWeigh, ForfeitLaws
    <3>6. L \in Int
      BY <2>1, <2>2, BalanceTypes
    <3>7. (L + (R + F)) - (D + R + F) = L - D
      <4> HIDE DEF D, R, F, L
      <4> QED BY <3>4, <3>5, <3>6
    <3> HIDE DEF D, R, F, L, M, X
    <3>8. LockedOf(ledger, u, asset) - Committed(u, asset) = L - D
      BY <3>1, <3>3, <3>7
    <3>9. LockedOf(ledger, u, asset) - Committed(u, asset) - X \in 0..M
      BY <3>2, <3>8
    <3> QED BY <3>9 DEF M, X
  <2>4. LockedOf(ledger, u, "BTC") = Committed(u, "BTC")
    <3> DEFINE x == LockedOf(ledger, u, "BTC")  y == Committed(u, "BTC")
    <3>1. "BTC" \in Assets /\ Slack(stream, u, "BTC") = 0
      BY DEF Assets, Slack
    <3>2. x - y - 0 \in 0..0
      BY <2>3, <2>6, <3>1
    <3>3. x \in Int /\ y \in Int
      <4>1. /\ Requested(requests, caller, u, "BTC") \in Nat /\ Forfeited(abandoned, u, "BTC") \in Nat
            /\ Due(AllResting(book), u, "BTC") \in Nat
        BY <2>1, ClaimsWeigh, ForfeitLaws, DueLaws DEF OpenSet
      <4>2. y = Due(AllResting(book), u, "BTC") + Requested(requests, caller, u, "BTC")
                  + Forfeited(abandoned, u, "BTC")
        BY <2>1, <3>1, DueIsCommitted, RequestedIsInFlight, ForfeitedIsAbandoned DEF Committed
      <4>3. x = LockedOf(Rebuild(stream), u, "BTC")
                  + (Requested(requests, caller, u, "BTC") + Forfeited(abandoned, u, "BTC"))
        BY <2>1, <2>2, <3>1
      <4>4. LockedOf(Rebuild(stream), u, "BTC") \in Int
        BY <2>1, <2>2, <3>1, BalanceTypes
      <4> QED BY <4>1, <4>2, <4>3, <4>4
    <3> HIDE DEF x, y
    <3>4. x = y
      BY <3>2, <3>3
    <3> QED BY <3>4 DEF x, y
  <2>5. LockedOf(ledger, u, "USDC") - Committed(u, "USDC") - Stranded(u) \in 0..RoundingOf(u)
    <3>1. BoughtBy(stream, u) = FillsOf(u) /\ CanceledBy(stream, u) = BuyCancelsOf(u)
      BY DEF BoughtBy, FillsOf, CanceledBy, BuyCancelsOf
    <3>2. Slack(stream, u, "USDC") = RoundingOf(u) /\ "USDC" \in Assets
      BY <3>1 DEF Slack, RoundingOf, Assets
    <3> QED BY <2>3, <2>6, <3>2
  <2> QED BY <2>4, <2>5
<1> QED BY <1>1, XInvariance, PTL
==============================================================================
