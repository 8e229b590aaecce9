----------------------------- MODULE ReplayProofs -----------------------------
(***************************************************************************)
(* Proofs about MatcherReplay: what the two consumers that follow the      *)
(* events of the engine in lock-step hold, for every set of users, prices  *)
(* and quantities and for books and event streams of every length.         *)
(*                                                                         *)
(* The replica is the engine's book but for the last submission, which is  *)
(* only put on it when something else is replayed.  So a cancel can reach  *)
(* the engine's book before or after the order it is to be compared with,  *)
(* and the proof needs that the two commute: two books with the same       *)
(* queues are the same (SameQueuesSameBook), and the queues that resting   *)
(* and cancelling leave do not depend on their order.  The market data     *)
(* view is the book, level by level, plus what the order in hand has left. *)
(***************************************************************************)
EXTENDS MatcherReplay, MatcherProofs

-----------------------------------------------------------------------------
(* Books with the same queues are the same. *)

LEMMA LevelIsQueue ==
  ASSUME NEW b, BookWellFormed(b), TotalsExact(b), NEW s \in Sides, NEW p
  PROVE  /\ p \in PricesOn(b, s) <=> QueueOf(b, s, p) # << >>
         /\ p \in PricesOn(b, s) =>
              /\ QueueAt(b, s, p) = QueueOf(b, s, p)
              /\ b.levels[s][p] = [queue    |-> QueueOf(b, s, p),
                                   totalQty |-> QtyOf(ToSet(QueueOf(b, s, p)))]
<1>1. p \in PricesOn(b, s) => QueueAt(b, s, p) # << >>
  BY LevelFacts DEF LevelOK
<1>2. p \in PricesOn(b, s) => b.levels[s][p] =
        [queue |-> QueueAt(b, s, p), totalQty |-> QtyOf(ToSet(QueueAt(b, s, p)))]
  BY LevelPositive
<1> QED BY <1>1, <1>2 DEF QueueOf

LEMMA SameQueuesSameRefs ==
  ASSUME NEW b, BookWellFormed(b), NEW c, BookWellFormed(c),
         \A s \in Sides : \A p : QueueOf(b, s, p) = QueueOf(c, s, p),
         \A s \in Sides : PricesOn(b, s) = PricesOn(c, s),
         NEW id, IsResting(b, id)
  PROVE  IsResting(c, id) /\ RefOf(c, id) = RefOf(b, id)
<1>1. PICK s \in Sides : \E p \in PricesOn(b, s) : \E i \in DOMAIN QueueAt(b, s, p) :
        /\ RefOf(b, id) = At(s, p) /\ QueueAt(b, s, p)[i] = GetOrder(b, id)
        /\ GetOrder(b, id).orderId = id
  BY OrderPlace
<1>2. PICK p \in PricesOn(b, s) : \E i \in DOMAIN QueueAt(b, s, p) :
        /\ RefOf(b, id) = At(s, p) /\ QueueAt(b, s, p)[i] = GetOrder(b, id)
        /\ GetOrder(b, id).orderId = id
  BY <1>1
<1>3. p \in PricesOn(c, s) /\ QueueAt(c, s, p) = QueueAt(b, s, p)
  BY <1>2 DEF QueueOf
<1>4. PICK i \in DOMAIN QueueAt(c, s, p) :
        QueueAt(c, s, p)[i] = GetOrder(b, id) /\ GetOrder(b, id).orderId = id
  BY <1>2, <1>3
<1>5. IsResting(c, id) /\ RefOf(c, id) = At(s, p)
  BY <1>3, <1>4, OrderFound
<1> QED BY <1>2, <1>5

LEMMA SameQueuesSameBook ==
  ASSUME NEW b, BookWellFormed(b), TotalsExact(b), NEW c, BookWellFormed(c), TotalsExact(c),
         \A s \in Sides : \A p : QueueOf(b, s, p) = QueueOf(c, s, p)
  PROVE  b = c
<1>1. /\ b = [levels |-> b.levels, refs |-> b.refs]
      /\ c = [levels |-> c.levels, refs |-> c.refs]
      /\ b.levels = [s \in Sides |-> b.levels[s]]
      /\ c.levels = [s \in Sides |-> c.levels[s]]
      /\ \A s \in Sides : b.levels[s] = [p \in PricesOn(b, s) |-> b.levels[s][p]]
      /\ \A s \in Sides : c.levels[s] = [p \in PricesOn(c, s) |-> c.levels[s][p]]
      /\ b.refs = [id \in DOMAIN b.refs |-> b.refs[id]]
      /\ c.refs = [id \in DOMAIN c.refs |-> c.refs[id]]
  BY DEF BookWellFormed, BookTypeOK, PricesOn
<1>2. ASSUME NEW s \in Sides
      PROVE  PricesOn(b, s) = PricesOn(c, s) /\ b.levels[s] = c.levels[s]
  <2>1. ASSUME NEW p
        PROVE  /\ p \in PricesOn(b, s) <=> p \in PricesOn(c, s)
               /\ p \in PricesOn(b, s) => b.levels[s][p] = c.levels[s][p]
    <3> DEFINE q == QueueOf(b, s, p)
               L == [queue |-> q, totalQty |-> QtyOf(ToSet(q))]
    <3>1. /\ p \in PricesOn(b, s) <=> q # << >>
          /\ p \in PricesOn(b, s) => b.levels[s][p] = L
      BY LevelIsQueue
    <3>2. q = QueueOf(c, s, p)
      OBVIOUS
    <3>3. /\ p \in PricesOn(c, s) <=> QueueOf(c, s, p) # << >>
          /\ p \in PricesOn(c, s) =>
               c.levels[s][p] = [queue    |-> QueueOf(c, s, p),
                                 totalQty |-> QtyOf(ToSet(QueueOf(c, s, p)))]
      BY LevelIsQueue
    <3>4. /\ p \in PricesOn(c, s) <=> q # << >>
          /\ p \in PricesOn(c, s) => c.levels[s][p] = L
      BY Zenon, <3>2, <3>3
    <3> HIDE DEF q, L
    <3> QED BY <3>1, <3>4
  <2>2. PricesOn(b, s) = PricesOn(c, s)
    BY <2>1
  <2>3. [p \in PricesOn(b, s) |-> b.levels[s][p]] = [p \in PricesOn(c, s) |-> c.levels[s][p]]
    BY <2>1, <2>2
  <2>4. b.levels[s] = c.levels[s]
    <3> DEFINE F == [p \in PricesOn(b, s) |-> b.levels[s][p]]
               G == [p \in PricesOn(c, s) |-> c.levels[s][p]]
    <3>1. b.levels[s] = F /\ c.levels[s] = G
      BY <1>1
    <3> HIDE DEF F, G
    <3> QED BY Zenon, <2>3, <3>1 DEF F, G
  <2> QED BY <2>2, <2>4
<1>3. b.levels = c.levels
  BY <1>1, <1>2
<1>4. b.refs = c.refs
  <2>1. \A id : id \in DOMAIN b.refs <=> id \in DOMAIN c.refs
    BY <1>2, SameQueuesSameRefs DEF IsResting
  <2>2. \A id \in DOMAIN b.refs : b.refs[id] = c.refs[id]
    BY <1>2, SameQueuesSameRefs DEF IsResting, RefOf
  <2> DEFINE B == b.refs
             C == c.refs
  <2>3. B = [id \in DOMAIN B |-> B[id]] /\ C = [id \in DOMAIN C |-> C[id]]
    BY <1>1
  <2>4. /\ \A id : id \in DOMAIN B <=> id \in DOMAIN C
        /\ \A id \in DOMAIN B : B[id] = C[id]
    BY <2>1, <2>2
  <2> HIDE DEF B, C
  <2>5. DOMAIN B = DOMAIN C
    BY <2>4
  <2>6. B = C
    BY <2>3, <2>4, <2>5
  <2> QED BY <2>6 DEF B, C
<1> DEFINE lb == b.levels
           rb == b.refs
           lc == c.levels
           rc == c.refs
<1>5. b = [levels |-> lb, refs |-> rb] /\ c = [levels |-> lc, refs |-> rc]
  BY <1>1
<1>6. lb = lc /\ rb = rc
  BY <1>3, <1>4
<1> HIDE DEF lb, rb, lc, rc
<1> QED BY Zenon, <1>5, <1>6

-----------------------------------------------------------------------------
(* The queues that Rest and Unlink leave. *)

LEMMA RestQueues ==
  ASSUME NEW b, BookTypeOK(b), NEW o \in Order, NEW s \in Sides, NEW p
  PROVE  QueueOf(Rest(b, o), s, p) =
           IF At(s, p) = At(o.side, o.price) THEN Append(QueueOf(b, s, p), o)
           ELSE QueueOf(b, s, p)
<1> DEFINE c == Rest(b, o)
<1> DEFINE Q == Append(QueueOf(b, o.side, o.price), o)
           T == LevelQty(b, o.side, o.price) + o.remaining
<1>0. /\ OnlyLevel(b, c, o.side, o.price) /\ o.price \in PricesOn(c, o.side)
      /\ c.levels[o.side][o.price] = [queue |-> Q, totalQty |-> T]
  BY RestLevel
<1> HIDE DEF c, Q, T
<1>1. /\ OnlyLevel(b, c, o.side, o.price) /\ o.price \in PricesOn(c, o.side)
      /\ c.levels[o.side][o.price].queue = Q
  BY <1>0
<1>2. CASE At(s, p) = At(o.side, o.price)
  <2>1. s = o.side /\ p = o.price
    BY <1>2, AtProperties
  <2>2. QueueOf(c, o.side, o.price) = Q
    BY <1>1 DEF QueueOf, QueueAt
  <2> QED BY <1>2, <2>1, <2>2 DEF c, Q
<1>3. CASE At(s, p) # At(o.side, o.price)
  <2>1. QueueOf(c, s, p) = QueueOf(b, s, p)
    BY <1>1, <1>3 DEF OnlyLevel, QueueOf, QueueAt
  <2> QED BY <1>3, <2>1 DEF c
<1> QED BY <1>2, <1>3

LEMMA UnlinkQueues ==
  ASSUME NEW b, BookTypeOK(b), NEW s0 \in Sides, NEW p0 \in PricesOn(b, s0),
         NEW i0 \in DOMAIN QueueAt(b, s0, p0), NEW s \in Sides, NEW p
  PROVE  QueueOf(Unlink(b, s0, p0, i0), s, p) =
           IF At(s, p) = At(s0, p0) THEN RemoveAt(QueueOf(b, s, p), i0)
           ELSE QueueOf(b, s, p)
<1> DEFINE c == Unlink(b, s0, p0, i0)
           r == RemoveAt(QueueAt(b, s0, p0), i0)
           x == QueueAt(b, s0, p0)[i0].remaining
<1>1. OnlyLevel(b, c, s0, p0) /\ LevelShrinks(b, c, s0, p0, r, x)
  BY UnlinkLevel
<1> HIDE DEF c, r, x
<1>2. CASE At(s, p) = At(s0, p0)
  <2>1. s = s0 /\ p = p0
    BY <1>2, AtProperties
  <2>2. QueueOf(c, s0, p0) = r
    BY <1>1 DEF QueueOf, LevelShrinks
  <2>3. r = RemoveAt(QueueOf(b, s0, p0), i0)
    BY DEF r, QueueOf
  <2> QED BY <1>2, <2>1, <2>2, <2>3 DEF c
<1>3. CASE At(s, p) # At(s0, p0)
  <2>1. QueueOf(c, s, p) = QueueOf(b, s, p)
    BY <1>1, <1>3 DEF OnlyLevel, QueueOf, QueueAt
  <2> QED BY <1>3, <2>1 DEF c
<1> QED BY <1>2, <1>3

(* A cancel unlinks the order at any position that has its id.             *)
LEMMA CancelQueues ==
  ASSUME NEW b, BookWellFormed(b), NEW s0 \in Sides, NEW p0 \in PricesOn(b, s0),
         NEW i0 \in DOMAIN QueueAt(b, s0, p0), NEW id, QueueAt(b, s0, p0)[i0].orderId = id
  PROVE  /\ IsResting(b, id) /\ CancelOrder(b, id) = Unlink(b, s0, p0, i0)
         /\ \A s \in Sides : \A p :
              QueueOf(CancelOrder(b, id), s, p) =
                IF At(s, p) = At(s0, p0) THEN RemoveAt(QueueOf(b, s, p), i0)
                ELSE QueueOf(b, s, p)
<1> DEFINE q == QueueAt(b, s0, p0)
<1>1. IsResting(b, id) /\ RefOf(b, id) = At(s0, p0)
  BY OrderFound
<1>2. RefOf(b, id).side = s0 /\ RefOf(b, id).price = p0 /\ QueueOfRef(b, id) = q
  BY <1>1, AtProperties DEF QueueOfRef
<1>3. PositionOf(b, id) = i0
  <2>1. PositionOf(b, id) \in DOMAIN q /\ q[PositionOf(b, id)].orderId = id
    BY <1>1, <1>2, GetOrderProperties DEF GetOrder
  <2>2. q \in Seq(Order) /\ InOrder(q)
    BY LevelTypes, LevelFacts DEF BookWellFormed, LevelOK
  <2>3. \A k \in DOMAIN q : k # i0 => q[k].orderId # q[i0].orderId
    <3> HIDE DEF q
    <3>1. i0 \in DOMAIN q
      BY DEF q
    <3> QED BY <2>2, <3>1, QueueRemoval
  <2> QED BY <2>1, <2>3
<1>4. CancelOrder(b, id) = Unlink(b, s0, p0, i0)
  BY <1>2, <1>3 DEF CancelOrder
<1> QED BY <1>1, <1>4, UnlinkQueues DEF BookWellFormed

-----------------------------------------------------------------------------
(* Sequences: what was appended comes off again, and commutes with taking  *)
(* an earlier element off.                                                 *)
LEMMA AppendedThenRemoved ==
  ASSUME NEW q \in Seq(Order), NEW o \in Order
  PROVE  RemoveAt(Append(q, o), Len(q) + 1) = q
<1> DEFINE Q == Append(q, o)
           n == Len(q)
<1>1. n \in Nat /\ DOMAIN q = 1..n
  BY QueueTypes
<1>2. /\ Q \in Seq(Order) /\ Len(Q) = n + 1 /\ n + 1 \in 1..Len(Q)
      /\ \A i \in 1..n : Q[i] = q[i]
  BY <1>1
<1>3. /\ RemoveAt(Q, n + 1) \in Seq(Order) /\ Len(RemoveAt(Q, n + 1)) = n
      /\ \A j \in 1..n : RemoveAt(Q, n + 1)[j] = IF j < n + 1 THEN Q[j] ELSE Q[j + 1]
  <2> HIDE DEF Q, n
  <2>1. /\ RemoveAt(Q, n + 1) \in Seq(Order) /\ Len(RemoveAt(Q, n + 1)) = Len(Q) - 1
        /\ \A j \in 1..(Len(Q) - 1) :
             RemoveAt(Q, n + 1)[j] = IF j < n + 1 THEN Q[j] ELSE Q[j + 1]
    BY <1>2, RemoveAtProperties
  <2>2. Len(Q) - 1 = n
    BY <1>1, <1>2
  <2> QED BY <2>1, <2>2
<1> DEFINE R == RemoveAt(Q, n + 1)
<1>4. R \in Seq(Order) /\ Len(R) = n /\ \A j \in 1..n : R[j] = q[j]
  <2> HIDE DEF Q, n
  <2>1. \A j \in 1..n : j < n + 1
    BY <1>1
  <2> QED BY <1>2, <1>3, <2>1
<1>5. R = q
  <2> HIDE DEF R, Q
  <2>1. DOMAIN R = 1..n
    BY <1>4, QueueTypes
  <2>2. R = [i \in 1..n |-> R[i]] /\ q = [i \in 1..n |-> q[i]]
    BY <1>1, <1>4, <2>1
  <2> QED BY <1>4, <2>2
<1> QED BY <1>5

LEMMA AppendCommutes ==
  ASSUME NEW q \in Seq(Order), NEW o \in Order, NEW i \in DOMAIN q
  PROVE  /\ i \in DOMAIN Append(q, o) /\ Append(q, o)[i] = q[i]
         /\ RemoveAt(Append(q, o), i) = Append(RemoveAt(q, i), o)
<1> DEFINE Q == Append(q, o)
           n == Len(q)
           L == RemoveAt(Q, i)
           r == RemoveAt(q, i)
           R == Append(r, o)
<1>1. n \in Nat /\ DOMAIN q = 1..n /\ i \in 1..n
  BY QueueTypes
<1>2. /\ Q \in Seq(Order) /\ Len(Q) = n + 1 /\ DOMAIN Q = 1..(n + 1)
      /\ Q[n + 1] = o /\ \A j \in 1..n : Q[j] = q[j]
  BY <1>1
<1> HIDE DEF Q
<1>3. /\ r \in Seq(Order) /\ Len(r) = n - 1
      /\ \A j \in 1..(n - 1) : r[j] = IF j < i THEN q[j] ELSE q[j + 1]
  BY <1>1, RemoveAtProperties
<1>4. /\ L \in Seq(Order) /\ Len(L) = n
      /\ \A j \in 1..n : L[j] = IF j < i THEN Q[j] ELSE Q[j + 1]
  <2> HIDE DEF n
  <2>1. i \in 1..Len(Q)
    BY <1>1, <1>2
  <2>2. /\ RemoveAt(Q, i) \in Seq(Order) /\ Len(RemoveAt(Q, i)) = Len(Q) - 1
        /\ \A j \in 1..(Len(Q) - 1) :
             RemoveAt(Q, i)[j] = IF j < i THEN Q[j] ELSE Q[j + 1]
    BY <1>2, <2>1, RemoveAtProperties
  <2>3. Len(Q) - 1 = n
    BY <1>1, <1>2
  <2> QED BY <2>2, <2>3
<1> HIDE DEF L, r
<1>5. /\ R \in Seq(Order) /\ Len(R) = n /\ R[n] = o
      /\ \A j \in 1..(n - 1) : R[j] = r[j]
  <2>1. Len(r) \in Nat /\ DOMAIN r = 1..Len(r) /\ Len(r) + 1 = n
    BY <1>1, <1>3, LenProperties
  <2> HIDE DEF n
  <2> QED BY <1>3, <2>1
<1> HIDE DEF R, n
<1>6. \A j \in 1..n : L[j] = R[j]
  <2> SUFFICES ASSUME NEW j \in 1..n PROVE L[j] = R[j]
    OBVIOUS
  <2>1. CASE j = n
    <3>1. ~(j < i) /\ j + 1 = n + 1
      BY <1>1, <2>1
    <3> QED BY <1>2, <1>4, <1>5, <2>1, <3>1
  <2>2. CASE j # n
    <3>1. j \in 1..(n - 1) /\ j + 1 \in 1..n
      BY <1>1, <2>2
    <3> QED BY <1>2, <1>3, <1>4, <1>5, <3>1
  <2> QED BY <2>1, <2>2
<1>7. L = R
  <2>1. L = [j \in 1..n |-> L[j]] /\ R = [j \in 1..n |-> R[j]]
    BY <1>4, <1>5
  <2> QED BY <1>6, <2>1
<1>8. i \in 1..(n + 1)
  BY <1>1
<1> QED BY <1>1, <1>2, <1>7, <1>8 DEF Q, L, R, r

-----------------------------------------------------------------------------
(* An order that rested and was cancelled has left no trace, and resting   *)
(* an order commutes with cancelling another one.                          *)
LEMMA RestThenCancel ==
  ASSUME NEW b, BookWellFormed(b), TotalsExact(b), NEW o \in Order, o.remaining > 0,
         \A id : IsResting(b, id) => id < o.orderId
  PROVE  CancelOrder(Rest(b, o), o.orderId) = b
<1> DEFINE c == Rest(b, o)
           d == CancelOrder(c, o.orderId)
           s0 == o.side
           p0 == o.price
           q == QueueOf(b, s0, p0)
           i0 == Len(q) + 1
<1>1. BookWellFormed(c) /\ TotalsExact(c) /\ s0 \in Sides /\ p0 \in PricesOn(c, s0)
  BY RestWellFormed, RestQuantities DEF Order
<1>2. /\ QueueOf(c, s0, p0) = Append(q, o)
      /\ \A s \in Sides : \A p : At(s, p) # At(s0, p0) => QueueOf(c, s, p) = QueueOf(b, s, p)
  BY <1>1, RestQueues DEF BookWellFormed
<1>3. q \in Seq(Order)
  BY <1>1, LevelTypes DEF BookWellFormed, QueueOf
<1> HIDE DEF q, s0, p0, c
<1>4. /\ Append(q, o) \in Seq(Order) /\ i0 \in DOMAIN Append(q, o) /\ Append(q, o)[i0] = o
      /\ RemoveAt(Append(q, o), i0) = q
  BY <1>3, AppendedThenRemoved, LenProperties
<1>5. QueueAt(c, s0, p0) = Append(q, o)
  BY <1>1, <1>2 DEF QueueOf
<1> HIDE DEF i0
<1>6. i0 \in DOMAIN QueueAt(c, s0, p0) /\ QueueAt(c, s0, p0)[i0].orderId = o.orderId
  BY <1>4, <1>5
<1>7. /\ IsResting(c, o.orderId)
      /\ \A s \in Sides : \A p :
           QueueOf(d, s, p) = IF At(s, p) = At(s0, p0) THEN RemoveAt(QueueOf(c, s, p), i0)
                              ELSE QueueOf(c, s, p)
  BY <1>1, <1>6, CancelQueues
<1>8. BookWellFormed(d) /\ TotalsExact(d)
  BY <1>1, <1>7, CancelWellFormed, CancelQuantities
<1> HIDE DEF d
<1>9. ASSUME NEW s \in Sides, NEW p
      PROVE  QueueOf(d, s, p) = QueueOf(b, s, p)
  <2>1. CASE At(s, p) = At(s0, p0)
    <3>1. s = s0 /\ p = p0
      BY <2>1, AtProperties
    <3>2. QueueOf(d, s, p) = RemoveAt(QueueOf(c, s, p), i0)
      BY <1>7, <2>1
    <3> QED BY <1>2, <1>4, <3>1, <3>2 DEF q
  <2>2. CASE At(s, p) # At(s0, p0)
    BY <1>2, <1>7, <2>2
  <2> QED BY <2>1, <2>2
<1>10. d = b
  BY <1>8, <1>9, SameQueuesSameBook
<1> QED BY <1>10 DEF d, c

LEMMA CancelCommutes ==
  ASSUME NEW b, BookWellFormed(b), TotalsExact(b), NEW o \in Order, o.remaining > 0,
         \A x : IsResting(b, x) => x < o.orderId,
         NEW id, IsResting(b, id)
  PROVE  CancelOrder(Rest(b, o), id) = Rest(CancelOrder(b, id), o)
<1> DEFINE c == Rest(b, o)
           d == CancelOrder(c, id)
           e == CancelOrder(b, id)
           f == Rest(e, o)
<1>1. BookWellFormed(c) /\ TotalsExact(c) /\ IsResting(c, id) /\ BookTypeOK(b)
  BY RestWellFormed, RestQuantities DEF BookWellFormed
<1>2. /\ BookWellFormed(e) /\ TotalsExact(e) /\ BookTypeOK(e)
      /\ \A x : IsResting(e, x) => x < o.orderId
  BY CancelWellFormed, CancelQuantities DEF BookWellFormed
<1>3. BookWellFormed(f) /\ TotalsExact(f)
  <2> HIDE DEF e
  <2> QED BY <1>2, RestWellFormed, RestQuantities
<1>4. BookWellFormed(d) /\ TotalsExact(d)
  <2> HIDE DEF c
  <2> QED BY <1>1, CancelWellFormed, CancelQuantities
<1>5. PICK s0 \in Sides : \E p \in PricesOn(b, s0) : \E i \in DOMAIN QueueAt(b, s0, p) :
        QueueAt(b, s0, p)[i].orderId = id
  BY OrderPlace
<1>6. PICK p0 \in PricesOn(b, s0) : \E i \in DOMAIN QueueAt(b, s0, p0) :
        QueueAt(b, s0, p0)[i].orderId = id
  BY <1>5
<1>7. PICK i0 \in DOMAIN QueueAt(b, s0, p0) : QueueAt(b, s0, p0)[i0].orderId = id
  BY <1>6
<1> DEFINE q == QueueOf(b, s0, p0)
<1>8. q = QueueAt(b, s0, p0) /\ q \in Seq(Order) /\ i0 \in DOMAIN q /\ q[i0].orderId = id
  BY <1>1, <1>7, LevelTypes DEF QueueOf
<1>9. /\ i0 \in DOMAIN Append(q, o) /\ Append(q, o)[i0] = q[i0]
      /\ RemoveAt(Append(q, o), i0) = Append(RemoveAt(q, i0), o)
  <2> HIDE DEF q
  <2> QED BY <1>8, AppendCommutes
<1>10. \A s \in Sides : \A p : QueueOf(c, s, p) =
         IF At(s, p) = At(o.side, o.price) THEN Append(QueueOf(b, s, p), o) ELSE QueueOf(b, s, p)
  BY <1>1, RestQueues
<1>11. \A s \in Sides : \A p : QueueOf(f, s, p) =
         IF At(s, p) = At(o.side, o.price) THEN Append(QueueOf(e, s, p), o) ELSE QueueOf(e, s, p)
  <2> HIDE DEF e
  <2> QED BY <1>2, RestQueues
<1>12. \A s \in Sides : \A p : QueueOf(e, s, p) =
         IF At(s, p) = At(s0, p0) THEN RemoveAt(QueueOf(b, s, p), i0) ELSE QueueOf(b, s, p)
  BY <1>7, CancelQueues
<1> HIDE DEF c, e, f
<1>13. /\ p0 \in PricesOn(c, s0) /\ i0 \in DOMAIN QueueAt(c, s0, p0)
       /\ QueueAt(c, s0, p0)[i0].orderId = id
  <2>1. QueueOf(c, s0, p0) = Append(q, o) \/ QueueOf(c, s0, p0) = q
    BY <1>10
  <2> DEFINE r == QueueOf(c, s0, p0)
  <2>2. i0 \in DOMAIN r /\ r[i0].orderId = id
    <3> HIDE DEF q, r
    <3>1. r = Append(q, o) \/ r = q
      BY <2>1 DEF r
    <3> QED BY <1>8, <1>9, <3>1
  <2>3. r # << >>
    <3> HIDE DEF r
    <3> QED BY <2>2
  <2>4. p0 \in PricesOn(c, s0) /\ QueueAt(c, s0, p0) = r
    BY <2>3 DEF QueueOf
  <2> QED BY <2>2, <2>4
<1>14. \A s \in Sides : \A p : QueueOf(d, s, p) =
         IF At(s, p) = At(s0, p0) THEN RemoveAt(QueueOf(c, s, p), i0) ELSE QueueOf(c, s, p)
  BY <1>1, <1>13, CancelQueues
<1> HIDE DEF d
<1>15. ASSUME NEW s \in Sides, NEW p
       PROVE  QueueOf(d, s, p) = QueueOf(f, s, p)
  <2>1. CASE At(s, p) = At(s0, p0)
    <3>1. s = s0 /\ p = p0
      BY <2>1, AtProperties
    <3>2. QueueOf(d, s, p) = RemoveAt(QueueOf(c, s, p), i0)
      BY <1>14, <2>1
    <3>3. QueueOf(e, s, p) = RemoveAt(q, i0)
      BY <1>12, <2>1, <3>1
    <3>4. CASE At(s, p) = At(o.side, o.price)
      <4>1. QueueOf(c, s, p) = Append(q, o)
        BY <1>10, <3>1, <3>4
      <4>2. QueueOf(f, s, p) = Append(RemoveAt(q, i0), o)
        BY <1>11, <3>3, <3>4
      <4> QED BY <1>9, <3>2, <4>1, <4>2
    <3>5. CASE At(s, p) # At(o.side, o.price)
      BY <1>10, <1>11, <3>1, <3>2, <3>3, <3>5
    <3> QED BY <3>4, <3>5
  <2>2. CASE At(s, p) # At(s0, p0)
    <3>1. QueueOf(d, s, p) = QueueOf(c, s, p) /\ QueueOf(e, s, p) = QueueOf(b, s, p)
      BY <1>12, <1>14, <2>2
    <3>2. CASE At(s, p) = At(o.side, o.price)
      BY <1>10, <1>11, <3>1, <3>2
    <3>3. CASE At(s, p) # At(o.side, o.price)
      BY <1>10, <1>11, <3>1, <3>3
    <3> QED BY <3>2, <3>3
  <2> QED BY <2>1, <2>2
<1>16. d = f
  BY <1>3, <1>4, <1>15, SameQueuesSameBook
<1> QED BY <1>16 DEF c, d, e, f

-----------------------------------------------------------------------------
(* What an event does to a replica. *)

(* A replica that has not failed, with the fields replay keeps.            *)
Replica(r) ==
  r = [book |-> r.book, seen |-> r.seen, lastSeq |-> r.lastSeq, pending |-> r.pending,
       canceled |-> r.canceled, failed |-> FALSE]

(* r has the book b, has replayed up to the number n, and keeps the        *)
(* submission o, canceled or not.                                          *)
Became(r, b, n, o, c) ==
  Replica(r) /\ r.book = b /\ r.lastSeq = n /\ r.pending = o /\ r.canceled = c

LEMMA ReplicaFields ==
  ASSUME NEW b, NEW x, NEW n, NEW o, NEW c,
         NEW r, r = [book |-> b, seen |-> x, lastSeq |-> n, pending |-> o,
                     canceled |-> c, failed |-> FALSE]
  PROVE  Became(r, b, n, o, c)
BY DEF Became, Replica

(* Record updates, a field at a time. *)
LEMMA ReplicaUpdates ==
  ASSUME NEW a, NEW b, NEW n, NEW o, NEW c, NEW f,
         NEW r, r = [book |-> a, seen |-> b, lastSeq |-> n, pending |-> o,
                     canceled |-> c, failed |-> f],
         NEW x, NEW y
  PROVE  /\ [r EXCEPT !.lastSeq = x] = [book |-> a, seen |-> b, lastSeq |-> x, pending |-> o,
                                        canceled |-> c, failed |-> f]
         /\ [r EXCEPT !.pending = x, !.seen = y] =
              [book |-> a, seen |-> y, lastSeq |-> n, pending |-> x,
               canceled |-> c, failed |-> f]
<1>1. [r EXCEPT !.lastSeq = x] = [book |-> a, seen |-> b, lastSeq |-> x, pending |-> o,
                                  canceled |-> c, failed |-> f]
  OBVIOUS
<1>2. [r EXCEPT !.pending = x, !.seen = y] =
        [book |-> a, seen |-> y, lastSeq |-> n, pending |-> x, canceled |-> c, failed |-> f]
  <2> DEFINE r1 == [r EXCEPT !.pending = x]
             r2 == [r1 EXCEPT !.seen = y]
  <2>1. r1 = [book |-> a, seen |-> b, lastSeq |-> n, pending |-> x,
              canceled |-> c, failed |-> f]
    OBVIOUS
  <2>2. [r EXCEPT !.pending = x, !.seen = y] = r2
    OBVIOUS
  <2> HIDE DEF r1
  <2>3. r2 = [book |-> a, seen |-> y, lastSeq |-> n, pending |-> x,
              canceled |-> c, failed |-> f]
    BY <2>1
  <2> QED BY <2>2, <2>3
<1> QED BY <1>1, <1>2

LEMMA FlushedFields ==
  ASSUME NEW r, Replica(r), NEW b, b = FlushedBook(r)
  PROVE  FlushPending(r) = [book |-> b, seen |-> r.seen, lastSeq |-> r.lastSeq,
                            pending |-> NoOrder, canceled |-> FALSE, failed |-> FALSE]
<1> DEFINE no == FALSE
           x  == r.seen
           n  == r.lastSeq
           a  == r.book
           o  == r.pending
           c  == r.canceled
<1>1. FlushPending(r) = [r EXCEPT !.book = b, !.pending = NoOrder, !.canceled = no]
  BY DEF FlushPending
<1>2. r = [book |-> a, seen |-> x, lastSeq |-> n, pending |-> o, canceled |-> c, failed |-> no]
  BY DEF Replica
<1> HIDE DEF a, x, n, o, c, no
<1>3. [r EXCEPT !.book = b, !.pending = NoOrder, !.canceled = no] =
        [book |-> b, seen |-> x, lastSeq |-> n, pending |-> NoOrder,
         canceled |-> no, failed |-> no]
  <2> DEFINE r1 == [r EXCEPT !.book = b]
             r2 == [r1 EXCEPT !.pending = NoOrder]
             r3 == [r2 EXCEPT !.canceled = no]
  <2>1. r1 = [book |-> b, seen |-> x, lastSeq |-> n, pending |-> o,
              canceled |-> c, failed |-> no]
    BY <1>2
  <2>2. [r EXCEPT !.book = b, !.pending = NoOrder, !.canceled = no] = r3
    OBVIOUS
  <2> HIDE DEF r1
  <2>3. r2 = [book |-> b, seen |-> x, lastSeq |-> n, pending |-> NoOrder,
              canceled |-> c, failed |-> no]
    BY <2>1
  <2> HIDE DEF r2
  <2>4. r3 = [book |-> b, seen |-> x, lastSeq |-> n, pending |-> NoOrder,
              canceled |-> no, failed |-> no]
    BY <2>3
  <2> QED BY <2>2, <2>4
<1> QED BY <1>1, <1>3 DEF no, x, n

LEMMA ReplayFlushes ==
  ASSUME NEW r, Replica(r), NEW ev, ev.kind = "OrderRejected"
  PROVE  Became(ReplayEvent(r, ev), FlushedBook(r), ev.seq, NoOrder, FALSE)
<1> DEFINE b == FlushedBook(r)
           d == FlushPending(r)
<1>1. r.failed = FALSE /\ ReplayEvent(r, ev) = [d EXCEPT !.lastSeq = ev.seq]
  BY DEF Replica, ReplayEvent
<1>2. d = [book |-> b, seen |-> r.seen, lastSeq |-> r.lastSeq,
           pending |-> NoOrder, canceled |-> FALSE, failed |-> FALSE]
  BY FlushedFields
<1> HIDE DEF b, d
<1>3. ReplayEvent(r, ev) = [book |-> b, seen |-> r.seen, lastSeq |-> ev.seq,
                            pending |-> NoOrder, canceled |-> FALSE, failed |-> FALSE]
  BY Zenon, <1>1, <1>2, ReplicaUpdates
<1> QED BY <1>3, ReplicaFields DEF b

LEMMA ReplayOpens ==
  ASSUME NEW r, Replica(r), NEW ev, ev.kind = "OrderAccepted"
  PROVE  Became(ReplayEvent(r, ev), FlushedBook(r), ev.seq, ev.order, FALSE)
<1> DEFINE b == FlushedBook(r)
           d == FlushPending(r)
           e == ReplayAccepted(r, ev)
           x == r.seen \cup {<<ev.order.userId, ev.order.clientOrderId>>}
<1>1. r.failed = FALSE /\ ReplayEvent(r, ev) = [e EXCEPT !.lastSeq = ev.seq]
  BY DEF Replica, ReplayEvent
<1>2. d = [book |-> b, seen |-> r.seen, lastSeq |-> r.lastSeq,
           pending |-> NoOrder, canceled |-> FALSE, failed |-> FALSE]
  BY FlushedFields
<1>3. d.seen = r.seen
  <2> HIDE DEF b, d
  <2> QED BY <1>2
<1>4. e = [d EXCEPT !.pending = ev.order, !.seen = x]
  BY <1>3 DEF ReplayAccepted
<1> HIDE DEF b, d, e, x
<1>5. e = [book |-> b, seen |-> x, lastSeq |-> r.lastSeq,
           pending |-> ev.order, canceled |-> FALSE, failed |-> FALSE]
  BY Zenon, <1>2, <1>4, ReplicaUpdates
<1>6. ReplayEvent(r, ev) = [book |-> b, seen |-> x, lastSeq |-> ev.seq,
                            pending |-> ev.order, canceled |-> FALSE, failed |-> FALSE]
  BY Zenon, <1>1, <1>5, ReplicaUpdates
<1> QED BY <1>6, ReplicaFields DEF b

LEMMA ReplayFills ==
  ASSUME NEW r, Replica(r), NEW ev, ev.kind = "Trade",
         r.pending # NoOrder, r.pending.orderId = ev.takerOrderId,
         IsResting(r.book, ev.makerOrderId),
         NEW side, side = GetOrder(r.book, ev.makerOrderId).side,
         CanReduceTop(r.book, side, ev.qty),
         NEW o, o = [r.pending EXCEPT !.remaining = r.pending.remaining - ev.qty]
  PROVE  Became(ReplayEvent(r, ev), ReduceTopOrder(r.book, side, ev.qty), ev.seq, o, r.canceled)
<1> DEFINE b == ReduceTopOrder(r.book, side, ev.qty)
<1>1. r.failed = FALSE /\ ReplayEvent(r, ev) = [ReplayTrade(r, ev) EXCEPT !.lastSeq = ev.seq]
  BY DEF Replica, ReplayEvent
<1>2. ReplayTrade(r, ev) = [r EXCEPT !.book = b, !.pending = o]
  BY DEF ReplayTrade
<1> HIDE DEF b
<1>3. ReplayEvent(r, ev) = [book |-> b, seen |-> r.seen, lastSeq |-> ev.seq,
                            pending |-> o, canceled |-> r.canceled, failed |-> FALSE]
  BY <1>1, <1>2 DEF Replica
<1> QED BY <1>3, ReplicaFields DEF b

LEMMA ReplayMarks ==
  ASSUME NEW r, Replica(r), NEW ev, ev.kind = "OrderCanceled",
         r.pending # NoOrder, r.pending.orderId = ev.orderId
  PROVE  Became(ReplayEvent(r, ev), r.book, ev.seq, r.pending, TRUE)
<1>1. r.failed = FALSE /\ ReplayEvent(r, ev) = [ReplayCanceled(r, ev) EXCEPT !.lastSeq = ev.seq]
  BY DEF Replica, ReplayEvent
<1>2. ReplayCanceled(r, ev) = [r EXCEPT !.canceled = TRUE]
  BY DEF ReplayCanceled
<1>3. ReplayEvent(r, ev) = [book |-> r.book, seen |-> r.seen, lastSeq |-> ev.seq,
                            pending |-> r.pending, canceled |-> TRUE, failed |-> FALSE]
  BY <1>1, <1>2 DEF Replica
<1> QED BY <1>3, ReplicaFields

LEMMA ReplayUnlinks ==
  ASSUME NEW r, Replica(r), NEW ev, ev.kind = "OrderCanceled",
         r.pending = NoOrder \/ r.pending.orderId # ev.orderId,
         IsResting(r.book, ev.orderId)
  PROVE  Became(ReplayEvent(r, ev), CancelOrder(r.book, ev.orderId), ev.seq,
                r.pending, r.canceled)
<1> DEFINE b == CancelOrder(r.book, ev.orderId)
<1>1. r.failed = FALSE /\ ReplayEvent(r, ev) = [ReplayCanceled(r, ev) EXCEPT !.lastSeq = ev.seq]
  BY DEF Replica, ReplayEvent
<1>2. ReplayCanceled(r, ev) = [r EXCEPT !.book = b]
  BY DEF ReplayCanceled
<1> HIDE DEF b
<1>3. ReplayEvent(r, ev) = [book |-> b, seen |-> r.seen, lastSeq |-> ev.seq,
                            pending |-> r.pending, canceled |-> r.canceled, failed |-> FALSE]
  BY <1>1, <1>2 DEF Replica
<1> QED BY <1>3, ReplicaFields DEF b

-----------------------------------------------------------------------------
(* The replica holds the engine's book, but for the order in hand: between *)
(* calls that is the last submission, until something else is replayed.    *)
(* Here r is a replica of an engine with the book b, the counter n and the *)
(* order o in hand.                                                        *)
ReplicaOf(r, b, n, o) ==
  /\ Replica(r) /\ r.canceled \in BOOLEAN
  /\ r.lastSeq = n
  /\ BookWellFormed(r.book) /\ TotalsExact(r.book)
  /\ r.pending # NoOrder =>
       /\ r.pending \in Order
       /\ \A id : IsResting(r.book, id) => id < r.pending.orderId
  /\ o = NoOrder => FlushedBook(r) = b
  /\ o # NoOrder => r.book = b /\ r.pending = o /\ r.canceled = FALSE

LEMMA FreshReplica == ReplicaOf(FreshReplay, EmptyBook, 0, NoOrder)
<1> DEFINE r == FreshReplay
<1>1. r = [book |-> EmptyBook, seen |-> {}, lastSeq |-> 0,
           pending |-> NoOrder, canceled |-> FALSE, failed |-> FALSE]
  BY DEF FreshReplay
<1> HIDE DEF r
<1>2. Became(r, EmptyBook, 0, NoOrder, FALSE)
  BY <1>1, ReplicaFields
<1>3. BookWellFormed(EmptyBook) /\ TotalsExact(EmptyBook)
  BY EmptyBookWellFormed DEF TotalsExact
<1>4. FlushedBook(r) = EmptyBook
  BY <1>2 DEF Became, FlushedBook, RestsWhenDone
<1>5. ReplicaOf(r, EmptyBook, 0, NoOrder)
  BY <1>2, <1>3, <1>4 DEF ReplicaOf, Became
<1> QED BY <1>5 DEF r

(* A call has ended: the replica is what is flushed of it.           *)
LEMMA ReplicaEnds ==
  ASSUME NEW r, ReplicaOf(r, book, seq, order), ~Idle, seq' = seq, order' = NoOrder,
         FlushedBook(r) = book'
  PROVE  ReplicaOf(r, book', seq', order')
BY DEF ReplicaOf, Idle

LEMMA ReplicaQuiet ==
  ASSUME IInv, NEW r, ReplicaOf(r, book, seq, order), Silent
  PROVE  ReplicaOf(r, book', seq', order')
<1>1. CASE UNCHANGED <<book, order>>
  BY <1>1 DEF Silent, ReplicaOf, Idle
<1>2. CASE order # NoOrder /\ order' = NoOrder /\ order.remaining = 0 /\ book' = book
  <2>1. FlushedBook(r) = book'
    BY <1>2 DEF ReplicaOf, FlushedBook, RestsWhenDone, Idle
  <2> QED BY <1>2, <2>1, ReplicaEnds DEF Silent, Idle
<1>3. CASE /\ order # NoOrder /\ order' = NoOrder
           /\ order.remaining > 0 /\ order.type \in {"LIMIT", "POST_ONLY"}
           /\ book' = Rest(book, order)
  <2>1. FlushedBook(r) = book'
    BY <1>3 DEF ReplicaOf, FlushedBook, RestsWhenDone, Idle
  <2> QED BY <1>3, <2>1, ReplicaEnds DEF Silent, Idle
<1> QED BY <1>1, <1>2, <1>3 DEF Silent

(* What is left to show of an event that makes the replica another one.    *)
LEMMA ReplicaBecame ==
  ASSUME NEW w, NEW b, NEW o, NEW c \in BOOLEAN, Became(w, b, seq', o, c),
         BookWellFormed(b), TotalsExact(b),
         o # NoOrder => o \in Order /\ \A id : IsResting(b, id) => id < o.orderId,
         order' = NoOrder =>
           book' = IF o # NoOrder /\ c = FALSE /\ o.remaining > 0
                      /\ o.type \in {"LIMIT", "POST_ONLY"} THEN Rest(b, o) ELSE b,
         order' # NoOrder => b = book' /\ o = order' /\ c = FALSE
  PROVE  ReplicaOf(w, book', seq', order')
<1>1. /\ Replica(w) /\ w.book = b /\ w.lastSeq = seq'
      /\ w.pending = o /\ w.canceled = c
  BY DEF Became
<1>2. order' = NoOrder => FlushedBook(w) = book'
  BY <1>1 DEF FlushedBook, RestsWhenDone
<1> QED BY <1>1, <1>2 DEF ReplicaOf, Idle

LEMMA ReplicaRefused ==
  ASSUME IInv, TotalsExact(book), NEW r, ReplicaOf(r, book, seq, order),
         NEW cmd, NEW reason, Refused(cmd, reason),
         NEW w, w = ReplayEvent(r, Last(events'))
  PROVE  ReplicaOf(w, book', seq', order')
<1> DEFINE ev == Rejected(seq + 1, cmd, reason)
<1>1. ev.kind = "OrderRejected" /\ ev.seq = seq + 1
  BY DEF Rejected
<1>2. Last(events') = ev /\ seq' = seq + 1 /\ order' = NoOrder /\ book' = book
  BY DEF Refused
<1> HIDE DEF ev
<1>3. Replica(r) /\ FlushedBook(r) = book
  BY DEF Refused, ReplicaOf, Idle
<1>4. Became(w, book, seq', NoOrder, FALSE)
  BY <1>1, <1>2, <1>3, ReplayFlushes
<1> QED BY <1>2, <1>4, ReplicaBecame DEF IInv

LEMMA ReplicaOpened ==
  ASSUME IInv, TotalsExact(book), IInv', NEW r, ReplicaOf(r, book, seq, order),
         NEW cmd \in Command, Opened(cmd),
         NEW w, w = ReplayEvent(r, Last(events'))
  PROVE  ReplicaOf(w, book', seq', order')
<1> DEFINE o  == NewOrder(cmd)
           ev == Accepted(seq + 1, o)
<1>1. ev.kind = "OrderAccepted" /\ ev.seq = seq + 1 /\ ev.order = o
  BY DEF Accepted
<1>2. Last(events') = ev /\ seq' = seq + 1 /\ order' = o /\ book' = book
  BY DEF Opened
<1>6. o # NoOrder
  BY NewOrderType, NoOrderAssumption DEF IInv, TypeOK
<1> HIDE DEF ev, o
<1>3. Replica(r) /\ FlushedBook(r) = book
  BY DEF Opened, ReplicaOf, Idle
<1>4. Became(w, book, seq', o, FALSE)
  BY <1>1, <1>2, <1>3, ReplayOpens
<1>5. o # NoOrder => o \in Order /\ \A id : IsResting(book, id) => id < o.orderId
  BY <1>2 DEF IInv, TypeOK, IdsOld
<1> QED BY <1>2, <1>4, <1>5, <1>6, ReplicaBecame DEF IInv

LEMMA ReplicaKilled ==
  ASSUME IInv, TotalsExact(book), NEW r, ReplicaOf(r, book, seq, order),
         NEW reason, Killed(reason),
         NEW w, w = ReplayEvent(r, Last(events'))
  PROVE  ReplicaOf(w, book', seq', order')
<1> DEFINE ev == Canceled(seq + 1, order, reason)
<1>1. ev.kind = "OrderCanceled" /\ ev.seq = seq + 1 /\ ev.orderId = order.orderId
  BY DEF Canceled
<1>2. /\ Last(events') = ev /\ seq' = seq + 1
      /\ order # NoOrder /\ order' = NoOrder /\ book' = book
  BY DEF Killed
<1> HIDE DEF ev
<1>3. Replica(r) /\ r.book = book /\ r.pending = order
  BY <1>2 DEF ReplicaOf, Idle
<1>4. Became(w, book, seq', order, TRUE)
  BY <1>1, <1>2, <1>3, ReplayMarks
<1>5. order \in Order /\ \A id : IsResting(book, id) => id < order.orderId
  BY <1>2 DEF IInv, TypeOK, IdsOld
<1>6. BookWellFormed(book)
  BY DEF IInv
<1> QED BY <1>2, <1>4, <1>5, <1>6, ReplicaBecame

LEMMA ReplicaSold ==
  ASSUME IInv, TotalsExact(book), IInv', TotalsExact(book)',
         NEW r, ReplicaOf(r, book, seq, order),
         order # NoOrder, NEW p, NEW maker, NEW fillQty, Sold(p, maker, fillQty),
         NEW w, w = ReplayEvent(r, Last(events'))
  PROVE  ReplicaOf(w, book', seq', order')
<1> DEFINE ev  == Trade(seq + 1, order, maker, fillQty)
           opp == Opposite(order.side)
<1>1. /\ ev.kind = "Trade" /\ ev.seq = seq + 1 /\ ev.qty = fillQty
      /\ ev.takerOrderId = order.orderId /\ ev.makerOrderId = maker.orderId
  BY DEF Trade
<1>2. /\ Last(events') = ev /\ seq' = seq + 1
      /\ order \in Order /\ opp \in Sides /\ IsBest(book, opp, p)
      /\ maker = Head(QueueAt(book, opp, p)) /\ maker.side = opp
      /\ fillQty \in Nat /\ fillQty <= maker.remaining
      /\ book' = ReduceTopOrder(book, opp, fillQty)
      /\ order' = [order EXCEPT !.remaining = order.remaining - fillQty]
  BY DEF Sold, Traded
<1> HIDE DEF ev, opp
<1>3. /\ Replica(r) /\ r.book = book /\ r.pending = order
      /\ r.canceled = FALSE
  BY DEF ReplicaOf, Idle
<1>4. BookWellFormed(book) /\ BookWellFormed(book')
  BY DEF IInv
<1>5. IsResting(book, maker.orderId) /\ GetOrder(book, maker.orderId) = maker
  <2> DEFINE q == QueueAt(book, opp, p)
  <2>1. p \in PricesOn(book, opp)
    BY <1>2 DEF IsBest
  <2>2. q \in Seq(Order) /\ q # << >>
    BY <1>2, <1>4, <2>1, LevelTypes, LevelFacts DEF BookWellFormed, LevelOK
  <2>3. 1 \in DOMAIN q /\ maker = q[1]
    <3>1. maker = Head(q)
      BY <1>2
    <3> HIDE DEF q
    <3> QED BY <2>2, <3>1, QueueTypes
  <2> QED BY <1>2, <1>4, <2>1, <2>3, OrderFound
<1>6. CanReduceTop(book, opp, fillQty)
  <2>1. BestPrice(book, opp) = p
    BY <1>2, <1>4, BestPriceUnique DEF BookWellFormed
  <2>2. HasOrders(book, opp)
    BY <1>2 DEF IsBest, HasOrders
  <2> QED BY <1>2, <2>1, <2>2 DEF CanReduceTop, PeekTopOrder
<1>7. Became(w, ReduceTopOrder(book, opp, fillQty), ev.seq, order', r.canceled)
  BY <1>1, <1>2, <1>3, <1>5, <1>6, ReplayFills
<1>8. Became(w, book', seq', order', FALSE)
  BY <1>1, <1>2, <1>3, <1>7
<1>9. order' \in Order \cup {NoOrder} /\ order' # NoOrder
  <2>1. order' \in Order \cup {NoOrder}
    BY DEF IInv, TypeOK
  <2>2. order' # NoOrder
    <3>1. order.remaining - fillQty \in Nat
      BY DEF Sold, Traded, Order
    <3>2. order' \in Order
      BY <1>2, <3>1 DEF Order
    <3> QED BY <3>2, NoOrderAssumption
  <2> QED BY <2>1, <2>2
<1>10. order' \in Order /\ \A id : IsResting(book', id) => id < order'.orderId
  BY <1>9 DEF IInv, IdsOld
<1> QED BY <1>4, <1>8, <1>9, <1>10, ReplicaBecame

LEMMA ReplicaWithdrawn ==
  ASSUME IInv, TotalsExact(book), NEW r, ReplicaOf(r, book, seq, order),
         NEW id, Withdrawn(id),
         NEW w, w = ReplayEvent(r, Last(events'))
  PROVE  ReplicaOf(w, book', seq', order')
<1> DEFINE ev == Canceled(seq + 1, GetOrder(book, id), "USER")
           b  == r.book
           o  == r.pending
<1>1. ev.kind = "OrderCanceled" /\ ev.seq = seq + 1 /\ ev.orderId = id
  BY GetOrderProperties DEF Canceled, Withdrawn, IInv
<1>2. /\ Last(events') = ev /\ seq' = seq + 1 /\ order' = NoOrder
      /\ IsResting(book, id) /\ book' = CancelOrder(book, id)
  BY DEF Withdrawn
<1> HIDE DEF ev
<1>3. /\ Replica(r) /\ FlushedBook(r) = book /\ r.canceled \in BOOLEAN
      /\ BookWellFormed(b) /\ TotalsExact(b)
      /\ o # NoOrder => o \in Order /\ \A x : IsResting(b, x) => x < o.orderId
  BY DEF Withdrawn, ReplicaOf, Idle
<1>4. CASE o # NoOrder /\ o.orderId = id
  <2>1. ~IsResting(b, id)
    <3>1. id \in Nat
      BY <1>3, <1>4 DEF Order
    <3> QED BY <1>3, <1>4, <3>1
  <2>2. RestsWhenDone(r) /\ book = Rest(b, o)
    BY <1>2, <1>3, <2>1 DEF FlushedBook
  <2>3. CancelOrder(Rest(b, o), id) = b
    BY <1>3, <1>4, <2>2, RestThenCancel DEF RestsWhenDone
  <2>4. Became(w, b, seq', o, TRUE)
    BY <1>1, <1>2, <1>3, <1>4, ReplayMarks
  <2>5. book' = b
    BY <1>2, <2>2, <2>3
  <2> HIDE DEF b, o
  <2> QED BY <1>2, <1>3, <2>4, <2>5, ReplicaBecame
<1>5. CASE ~(o # NoOrder /\ o.orderId = id)
  <2> DEFINE c == CancelOrder(b, id)
  <2>1. IsResting(b, id)
    <3>1. CASE RestsWhenDone(r)
      <4>1. book = Rest(b, o) /\ o # NoOrder /\ o.remaining > 0
        BY <1>3, <3>1 DEF FlushedBook, RestsWhenDone
      <4>2. IsResting(b, id) \/ id = o.orderId
        BY <1>2, <1>3, <4>1, RestWellFormed
      <4> QED BY <1>5, <4>1, <4>2
    <3>2. CASE ~RestsWhenDone(r)
      BY <1>2, <1>3, <3>2 DEF FlushedBook
    <3> QED BY <3>1, <3>2
  <2>2. Became(w, c, seq', o, r.canceled)
    BY <1>1, <1>2, <1>3, <1>5, <2>1, ReplayUnlinks
  <2>3. /\ BookWellFormed(c) /\ TotalsExact(c)
        /\ \A x : IsResting(c, x) => IsResting(b, x)
    BY <1>3, <2>1, CancelWellFormed, CancelQuantities
  <2>4. book' = IF o # NoOrder /\ r.canceled = FALSE /\ o.remaining > 0
                   /\ o.type \in {"LIMIT", "POST_ONLY"} THEN Rest(c, o) ELSE c
    <3>1. CASE RestsWhenDone(r)
      <4>1. /\ book = Rest(b, o) /\ o # NoOrder /\ o.remaining > 0
            /\ r.canceled = FALSE /\ o.type \in {"LIMIT", "POST_ONLY"}
        BY <1>3, <3>1 DEF FlushedBook, RestsWhenDone
      <4>2. CancelOrder(Rest(b, o), id) = Rest(c, o)
        BY <1>3, <2>1, <4>1, CancelCommutes
      <4> QED BY <1>2, <4>1, <4>2
    <3>2. CASE ~RestsWhenDone(r)
      <4>1. book = b
        BY <1>3, <3>2 DEF FlushedBook
      <4>2. ~(o # NoOrder /\ r.canceled = FALSE /\ o.remaining > 0
              /\ o.type \in {"LIMIT", "POST_ONLY"})
        BY <3>2 DEF RestsWhenDone
      <4> QED BY <1>2, <4>1, <4>2
    <3> QED BY <3>1, <3>2
  <2> HIDE DEF b, c, o
  <2> QED BY <1>2, <1>3, <2>2, <2>3, <2>4, ReplicaBecame
<1> QED BY <1>4, <1>5

LEMMA ReplayIsEngine == ReplaySpec => Spec
<1>1. ReplayInit => Init
  BY DEF ReplayInit
<1>2. [ReplayNext]_replayVars => [Next]_vars
  BY DEF ReplayNext, replayVars, vars
<1> QED BY <1>1, <1>2, PTL DEF ReplaySpec, Spec

LEMMA EventNumbered ==
  ASSUME IInv, ReplayNext, seq' = seq + 1
  PROVE  /\ replica' = ReplayEvent(replica, Last(events'))
         /\ l2' = ApplyL2(l2, Last(events'))
<1>1. seq' # seq
  BY DEF IInv, TypeOK
<1> QED BY <1>1 DEF ReplayNext, Follow

(* Whatever the engine does, the event it emits, if any, takes a replica of *)
(* it to a replica of it.                                                  *)
LEMMA ReplicaStep ==
  ASSUME IInv, TotalsExact(book), IInv', TotalsExact(book)', [Next]_vars,
         NEW r, ReplicaOf(r, book, seq, order),
         NEW w, w = IF seq' = seq THEN r ELSE ReplayEvent(r, Last(events'))
  PROVE  ReplicaOf(w, book', seq', order')
<1>0. seq \in Nat /\ (seq' = seq + 1 => w = ReplayEvent(r, Last(events')))
  <2>1. seq \in Nat
    BY DEF IInv, TypeOK
  <2>2. seq' = seq + 1 => seq' # seq
    BY <2>1
  <2> QED BY <2>1, <2>2
<1>1. CASE Silent
  <2>1. w = r
    BY <1>1 DEF Silent
  <2> QED BY <1>1, <2>1, ReplicaQuiet
<1>2. ASSUME NEW cmd, NEW reason, Refused(cmd, reason) PROVE ReplicaOf(w, book', seq', order')
  BY <1>0, <1>2, ReplicaRefused DEF Refused
<1>3. ASSUME NEW cmd \in Command, Opened(cmd) PROVE ReplicaOf(w, book', seq', order')
  BY <1>0, <1>3, ReplicaOpened DEF Opened
<1>4. ASSUME order # NoOrder, NEW p, NEW maker, NEW fillQty, Sold(p, maker, fillQty)
      PROVE  ReplicaOf(w, book', seq', order')
  BY <1>0, <1>4, ReplicaSold DEF Sold, Traded
<1>5. ASSUME NEW reason, Killed(reason) PROVE ReplicaOf(w, book', seq', order')
  BY <1>0, <1>5, ReplicaKilled DEF Killed
<1>6. ASSUME NEW id, Withdrawn(id) PROVE ReplicaOf(w, book', seq', order')
  BY <1>0, <1>6, ReplicaWithdrawn DEF Withdrawn
<1> QED BY <1>1, <1>2, <1>3, <1>4, <1>5, <1>6, EngineSteps

ReplicaInv == ReplicaOf(replica, book, seq, order)

LEMMA ReplicaInvariance == ReplaySpec => []ReplicaInv
<1>1. /\ IInv /\ TotalsExact(book) /\ IInv' /\ TotalsExact(book)'
      /\ ReplicaInv /\ [ReplayNext]_replayVars
      => ReplicaInv'
  <2> SUFFICES ASSUME IInv, TotalsExact(book), IInv', TotalsExact(book)',
                      ReplicaInv, [ReplayNext]_replayVars
               PROVE  ReplicaInv'
    OBVIOUS
  <2>1. CASE UNCHANGED replayVars
    BY <2>1 DEF replayVars, ReplicaInv
  <2>2. CASE ReplayNext
    <3>1. [Next]_vars /\ replica' = IF seq' = seq THEN replica
                                    ELSE ReplayEvent(replica, Last(events'))
      BY <2>2 DEF ReplayNext, Follow
    <3> QED BY <3>1, ReplicaStep DEF ReplicaInv
  <2> QED BY <2>1, <2>2
<1>2. ReplayInit => ReplicaInv
  BY FreshReplica DEF ReplayInit, Init, ReplicaInv
<1> QED BY <1>1, <1>2, ReplayIsEngine, TotalsInvariance, PTL DEF ReplaySpec

(* Replaying the events emitted so far never throws, whatever the calls    *)
(* were, and between calls the flushed replica has the engine's own book   *)
(* and counter: the event list determines the engine's state, which is     *)
(* what a restart relies on (eventLog.ts:115-198, matcher.ts:17-22).       *)
THEOREM ReplayRebuildsEngine == ReplaySpec => []ReplayAgrees
<1>1. ReplicaInv => ReplayAgrees
  BY DEF ReplicaInv, ReplicaOf, Idle, ReplayAgrees, Replica
<1> QED BY <1>1, ReplicaInvariance, PTL

-----------------------------------------------------------------------------
(* Replay adds to the idempotency set what an accepted order spends, and   *)
(* nothing else.                                                           *)

Keeps(w, x) == "seen" \in DOMAIN w /\ w.seen = x

LEMMA OtherFieldSet ==
  ASSUME NEW x, NEW r, Keeps(r, x), NEW v
  PROVE  /\ Keeps([r EXCEPT !.book = v], x)
         /\ Keeps([r EXCEPT !.pending = v], x)
         /\ Keeps([r EXCEPT !.canceled = v], x)
         /\ Keeps([r EXCEPT !.failed = v], x)
         /\ Keeps([r EXCEPT !.lastSeq = v], x)
         /\ Keeps([r EXCEPT !.seen = v], v)
BY DEF Keeps

LEMMA TwoFieldsSet ==
  ASSUME NEW x, NEW r, Keeps(r, x), NEW u, NEW v
  PROVE  /\ Keeps([r EXCEPT !.book = u, !.pending = v], x)
         /\ Keeps([r EXCEPT !.pending = u, !.seen = v], v)
BY DEF Keeps

LEMMA FlushKeeps ==
  ASSUME NEW x, NEW r, Keeps(r, x)
  PROVE  Keeps(FlushPending(r), x)
<1> DEFINE b  == FlushedBook(r)
           no == FALSE
<1>1. FlushPending(r) = [r EXCEPT !.book = b, !.pending = NoOrder, !.canceled = no]
  BY DEF FlushPending
<1> HIDE DEF b, no
<1>2. Keeps([r EXCEPT !.book = b, !.pending = NoOrder, !.canceled = no], x)
  BY DEF Keeps
<1> QED BY <1>1, <1>2

LEMMA ReplaySeen ==
  ASSUME NEW r, Replica(r), r.seen \subseteq Users \X ClientOrderIds, NEW ev \in Event
  PROVE  ReplayEvent(r, ev).seen \subseteq Users \X ClientOrderIds
<1> DEFINE x == r.seen
<1>1. r.failed = FALSE /\ Keeps(r, x)
  BY DEF Replica, Keeps
<1>2. ASSUME NEW step, NEW y, Keeps(step, y), y \subseteq Users \X ClientOrderIds,
             ReplayEvent(r, ev) = [step EXCEPT !.lastSeq = ev.seq]
      PROVE  ReplayEvent(r, ev).seen \subseteq Users \X ClientOrderIds
  <2>1. Keeps([step EXCEPT !.lastSeq = ev.seq], y)
    BY <1>2, OtherFieldSet
  <2> QED BY <1>2, <2>1 DEF Keeps
<1>3. CASE ev.kind = "OrderAccepted"
  <2> DEFINE d == FlushPending(r)
             y == x \cup {<<ev.order.userId, ev.order.clientOrderId>>}
             step == [d EXCEPT !.pending = ev.order, !.seen = y]
  <2>1. ev.order \in Order
    BY <1>3 DEF Event
  <2>2. y \subseteq Users \X ClientOrderIds
    BY <2>1 DEF Order
  <2>3. Keeps(d, x)
    BY <1>1, FlushKeeps
  <2>4. ReplayEvent(r, ev) = [step EXCEPT !.lastSeq = ev.seq]
    <3>1. ReplayEvent(r, ev) = [ReplayAccepted(r, ev) EXCEPT !.lastSeq = ev.seq]
      BY <1>1, <1>3 DEF ReplayEvent
    <3>2. ReplayAccepted(r, ev) = step
      BY <2>3 DEF ReplayAccepted, Keeps
    <3> QED BY <3>1, <3>2
  <2> HIDE DEF d, y
  <2>5. Keeps(step, y)
    BY <2>3, TwoFieldsSet
  <2> HIDE DEF step
  <2> QED BY <1>2, <2>2, <2>4, <2>5
<1>4. CASE ev.kind = "OrderRejected"
  <2>1. ReplayEvent(r, ev) = [FlushPending(r) EXCEPT !.lastSeq = ev.seq]
    BY <1>1, <1>4 DEF ReplayEvent
  <2>2. Keeps(FlushPending(r), x)
    BY <1>1, FlushKeeps
  <2> QED BY <1>2, <2>1, <2>2
<1>5. CASE ev.kind = "Trade"
  <2> DEFINE step == ReplayTrade(r, ev)
  <2>1. ReplayEvent(r, ev) = [step EXCEPT !.lastSeq = ev.seq]
    BY <1>1, <1>5 DEF ReplayEvent
  <2>2. \E o, b : \/ step = [r EXCEPT !.pending = o]
                  \/ step = [r EXCEPT !.book = b, !.pending = o]
                  \/ step = [r EXCEPT !.failed = b]
    BY DEF ReplayTrade
  <2>3. Keeps(step, x)
    <3> HIDE DEF step, x
    <3>1. PICK o, b : \/ step = [r EXCEPT !.pending = o]
                      \/ step = [r EXCEPT !.book = b, !.pending = o]
                      \/ step = [r EXCEPT !.failed = b]
      BY <2>2
    <3>2. /\ Keeps([r EXCEPT !.pending = o], x)
          /\ Keeps([r EXCEPT !.book = b, !.pending = o], x)
          /\ Keeps([r EXCEPT !.failed = b], x)
      BY <1>1, OtherFieldSet, TwoFieldsSet
    <3> QED BY <3>1, <3>2
  <2> QED BY <1>2, <2>1, <2>3
<1>6. CASE ev.kind = "OrderCanceled"
  <2> DEFINE step == ReplayCanceled(r, ev)
  <2>1. ReplayEvent(r, ev) = [step EXCEPT !.lastSeq = ev.seq]
    BY <1>1, <1>6 DEF ReplayEvent
  <2>2. \E b : \/ step = [r EXCEPT !.canceled = b]
               \/ step = [r EXCEPT !.book = b]
               \/ step = r
    BY DEF ReplayCanceled
  <2>3. Keeps(step, x)
    <3> HIDE DEF step, x
    <3>1. PICK b : \/ step = [r EXCEPT !.canceled = b]
                   \/ step = [r EXCEPT !.book = b]
                   \/ step = r
      BY <2>2
    <3>2. Keeps([r EXCEPT !.canceled = b], x) /\ Keeps([r EXCEPT !.book = b], x)
      BY <1>1, OtherFieldSet
    <3> QED BY <1>1, <3>1, <3>2
  <2> QED BY <1>2, <2>1, <2>3
<1> QED BY <1>3, <1>4, <1>5, <1>6 DEF Event

-----------------------------------------------------------------------------
(* What a sequence of events rebuilds: ReplayEvent, folded over it.        *)

Rebuilt(evs) == FoldLeft(ReplayEvent, FreshReplay, evs)

(* The equation of the fold over the first n events of s.                  *)
ReplayFold(g, s, n) ==
  g = [T \in SUBSET (1..n) |->
         IF T = {} THEN FreshReplay ELSE ReplayEvent(g[T \ {Max(T)}], s[Max(T)])]

LEMMA ReplayFoldExists ==
  ASSUME NEW s, NEW n \in Nat
  PROVE  \E g : ReplayFold(g, s, n)
<1> DEFINE P == {m \in Nat : \E g : ReplayFold(g, s, m)}
<1>1. 0 \in P
  <2> DEFINE g == [T \in SUBSET (1..0) |-> FreshReplay]
  <2>1. ReplayFold(g, s, 0)
    BY DEF ReplayFold
  <2> QED BY <2>1
<1>2. ASSUME NEW m \in Nat, m \in P
      PROVE  m + 1 \in P
  <2>1. PICK g : ReplayFold(g, s, m)
    BY <1>2
  <2> DEFINE h == [T \in SUBSET (1..(m + 1)) |->
                     IF m + 1 \in T THEN ReplayEvent(g[T \ {m + 1}], s[m + 1]) ELSE g[T]]
  <2>2. ASSUME NEW T \in SUBSET (1..(m + 1))
        PROVE  h[T] = IF T = {} THEN FreshReplay ELSE ReplayEvent(h[T \ {Max(T)}], s[Max(T)])
    <3>1. CASE m + 1 \in T
      <4>0. T # {} /\ m + 1 \in Nat
        BY <3>1
      <4>1. Max(T) \in T /\ \A y \in T : y <= Max(T)
        BY <4>0, Greatest
      <4>2. Max(T) = m + 1
        <5>1. Max(T) \in 1..(m + 1) /\ m + 1 <= Max(T)
          BY <3>1, <4>1
        <5> QED BY <5>1
      <4>3. T \ {m + 1} \in SUBSET (1..(m + 1)) /\ m + 1 \notin T \ {m + 1}
        OBVIOUS
      <4>4. h[T \ {m + 1}] = g[T \ {m + 1}]
        BY <4>3
      <4>5. h[T] = ReplayEvent(g[T \ {m + 1}], s[m + 1])
        BY <3>1
      <4> QED BY <3>1, <4>2, <4>4, <4>5
    <3>2. CASE m + 1 \notin T
      <4>1. T \in SUBSET (1..m)
        BY <3>2
      <4>2. h[T] = g[T]
        BY <3>2
      <4>3. g[T] = IF T = {} THEN FreshReplay ELSE ReplayEvent(g[T \ {Max(T)}], s[Max(T)])
        BY <2>1, <4>1 DEF ReplayFold
      <4>4. T \ {Max(T)} \in SUBSET (1..(m + 1)) /\ m + 1 \notin T \ {Max(T)}
        BY <3>2
      <4>5. h[T \ {Max(T)}] = g[T \ {Max(T)}]
        BY <4>4
      <4> QED BY <4>2, <4>3, <4>5
    <3> QED BY <3>1, <3>2
  <2>3. h = [T \in SUBSET (1..(m + 1)) |-> h[T]]
    OBVIOUS
  <2> HIDE DEF h
  <2>4. ReplayFold(h, s, m + 1)
    BY <2>2, <2>3 DEF ReplayFold
  <2> QED BY <2>4
<1>3. n \in P
  <2> HIDE DEF P
  <2> QED BY <1>1, <1>2, Induction
<1> QED BY <1>3

(* The sequences begin with the same n events.                             *)
SameStart(s, t, n) == \A i \in 1..n : t[i] = s[i]

LEMMA ReplayFoldsAgree ==
  ASSUME NEW s, NEW t, NEW n \in Nat, NEW m \in Nat, n <= m, SameStart(s, t, n),
         NEW g, ReplayFold(g, s, n), NEW h, ReplayFold(h, t, m)
  PROVE  \A T \in SUBSET (1..n) : h[T] = g[T]
<1> DEFINE P == {j \in Nat : \A T \in SUBSET (1..n) : T \subseteq 1..j => h[T] = g[T]}
<1>1. \A T \in SUBSET (1..n) :
        /\ g[T] = IF T = {} THEN FreshReplay ELSE ReplayEvent(g[T \ {Max(T)}], s[Max(T)])
        /\ h[T] = IF T = {} THEN FreshReplay ELSE ReplayEvent(h[T \ {Max(T)}], t[Max(T)])
  <2>1. \A T \in SUBSET (1..n) : T \in SUBSET (1..m)
    OBVIOUS
  <2> QED BY <2>1 DEF ReplayFold
<1>2. 0 \in P
  <2>1. \A T : T \subseteq 1..0 => T = {}
    OBVIOUS
  <2> QED BY <1>1, <2>1
<1>3. ASSUME NEW j \in Nat, j \in P
      PROVE  j + 1 \in P
  <2>1. ASSUME NEW T \in SUBSET (1..n), T \subseteq 1..(j + 1), T # {}
        PROVE  h[T] = g[T]
    <3>1. Max(T) \in T /\ \A y \in T : y <= Max(T)
      BY <2>1, Greatest
    <3>2. T \ {Max(T)} \in SUBSET (1..n) /\ T \ {Max(T)} \subseteq 1..j
      <4>1. ASSUME NEW y \in T, y # Max(T)
            PROVE  y \in 1..j
        <5>1. Max(T) \in 1..(j + 1) /\ y \in 1..(j + 1) /\ y <= Max(T)
          BY <2>1, <3>1
        <5> QED BY <4>1, <5>1
      <4> QED BY <4>1
    <3>3. h[T \ {Max(T)}] = g[T \ {Max(T)}] /\ t[Max(T)] = s[Max(T)]
      BY <1>3, <3>1, <3>2 DEF SameStart
    <3> QED BY <1>1, <2>1, <3>3
  <2>2. \A T \in SUBSET (1..n) : T \subseteq 1..(j + 1) => h[T] = g[T]
    BY <1>1, <2>1
  <2> QED BY <2>2
<1>4. n \in P
  <2> HIDE DEF P
  <2> QED BY <1>2, <1>3, Induction
<1> QED BY <1>4

LEMMA RebuiltIsFold ==
  ASSUME NEW s, NEW n \in Nat, DOMAIN s = 1..n
  PROVE  \E g : ReplayFold(g, s, n) /\ Rebuilt(s) = g[1..n]
<1> DEFINE Eq(g) == g = [T \in SUBSET (1..n) |->
                           IF T = {} THEN FreshReplay ELSE ReplayEvent(g[T \ {Max(T)}], s[Max(T)])]
           g == CHOOSE h : Eq(h)
<1>1. Rebuilt(s) = g[1..n]
  BY Zenon DEF Rebuilt, FoldLeft, MapThenFoldSet
<1>2. PICK h : ReplayFold(h, s, n)
  BY ReplayFoldExists
<1>3. Eq(h)
  BY <1>2 DEF ReplayFold
<1>4. Eq(g)
  <2> HIDE DEF Eq
  <2> QED BY <1>3
<1>5. ReplayFold(g, s, n)
  <2> HIDE DEF g
  <2> QED BY <1>4 DEF ReplayFold
<1> QED BY <1>1, <1>5

LEMMA RebuiltLaws ==
  ASSUME NEW S
  PROVE  /\ Rebuilt(<< >>) = FreshReplay
         /\ \A s \in Seq(S) : \A e \in S :
              Rebuilt(Append(s, e)) = ReplayEvent(Rebuilt(s), e)
<1>1. Rebuilt(<< >>) = FreshReplay
  <2>1. DOMAIN << >> = 1..0
    OBVIOUS
  <2>2. PICK g : ReplayFold(g, << >>, 0) /\ Rebuilt(<< >>) = g[1..0]
    BY <2>1, RebuiltIsFold
  <2>3. 1..0 = {}
    OBVIOUS
  <2> QED BY <2>2, <2>3 DEF ReplayFold
<1>2. ASSUME NEW s \in Seq(S), NEW e \in S
      PROVE  Rebuilt(Append(s, e)) = ReplayEvent(Rebuilt(s), e)
  <2> DEFINE n == Len(s)  t == Append(s, e)  All == 1..(n + 1)
  <2>1. /\ n \in Nat /\ DOMAIN s = 1..n /\ DOMAIN t = 1..(n + 1)
        /\ t[n + 1] = e /\ \A i \in 1..n : t[i] = s[i]
    OBVIOUS
  <2> HIDE DEF n, t
  <2>2. PICK g : ReplayFold(g, s, n) /\ Rebuilt(s) = g[1..n]
    BY <2>1, RebuiltIsFold
  <2>3. PICK h : ReplayFold(h, t, n + 1) /\ Rebuilt(t) = h[All]
    BY <2>1, RebuiltIsFold
  <2>0. n \in Nat /\ n + 1 \in Nat /\ n <= n + 1 /\ 1..n \in SUBSET (1..n)
    BY <2>1
  <2>4. h[1..n] = g[1..n]
    <3>1. SameStart(s, t, n)
      BY <2>1 DEF SameStart
    <3>2. ReplayFold(g, s, n) /\ ReplayFold(h, t, n + 1)
      BY <2>2, <2>3
    <3> DEFINE m == n + 1
    <3>3. n \in Nat /\ m \in Nat /\ n <= m /\ ReplayFold(h, t, m)
      BY <2>0, <3>2
    <3> HIDE DEF m
    <3>4. \A T \in SUBSET (1..n) : h[T] = g[T]
      BY <3>1, <3>2, <3>3, ReplayFoldsAgree
    <3> QED BY <3>4
  <2>5. All # {} /\ n + 1 \in All /\ All \in SUBSET (1..(n + 1))
    <3>1. n \in Nat
      BY <2>0
    <3>2. n + 1 \in 1..(n + 1)
      BY <3>1
    <3> QED BY <3>2
  <2>6. Max(All) \in All /\ \A y \in All : y <= Max(All)
    BY <2>0, <2>5, Greatest
  <2>7. Max(All) = n + 1 /\ All \ {n + 1} = 1..n
    <3>1. Max(All) \in 1..(n + 1) /\ n + 1 <= Max(All)
      BY <2>5, <2>6
    <3> QED BY <2>0, <3>1
  <2>8. h[All] = ReplayEvent(h[All \ {Max(All)}], t[Max(All)])
    BY <2>3, <2>5 DEF ReplayFold
  <2> QED BY <2>1, <2>2, <2>3, <2>4, <2>7, <2>8 DEF t
<1> QED BY <1>1, <1>2

LEMMA RebuiltNone == Rebuilt(<< >>) = FreshReplay
BY RebuiltLaws

LEMMA RebuiltNext ==
  ASSUME NEW S, NEW s \in Seq(S), NEW e \in S
  PROVE  Rebuilt(Append(s, e)) = ReplayEvent(Rebuilt(s), e)
<1> QED BY RebuiltLaws

-----------------------------------------------------------------------------
(* What the operations of the market data view do to it. *)

(* A tree of levels, and one that differs in the level at p0.              *)
Tree(t) ==
  /\ t = [p \in DOMAIN t |-> t[p]]
  /\ \A p \in DOMAIN t : t[p] \in Nat /\ t[p] > 0

(* A tree whose level at p0 is set to n, or removed; and u differs from t  *)
(* in that way only.                                                       *)
DeltaTree(t, p0, n) == IF n <= 0 THEN Restrict(t, DOMAIN t \ {p0}) ELSE Put(t, p0, n)

OnlyPrice(t, u, p0, n) ==
  /\ \A p : p # p0 => /\ p \in DOMAIN u <=> p \in DOMAIN t
                      /\ p \in DOMAIN t => u[p] = t[p]
  /\ p0 \in DOMAIN u <=> n > 0
  /\ n > 0 => u[p0] = n

(* A view has a level exactly where it shows a quantity.                   *)
View(v) ==
  /\ v = [levels |-> v.levels, orders |-> v.orders]
  /\ v.levels = [s \in Sides |-> v.levels[s]]
  /\ v.orders = [id \in DOMAIN v.orders |-> v.orders[id]]
  /\ \A s \in Sides : Tree(v.levels[s])

LEMMA ViewQty ==
  ASSUME NEW v, View(v), NEW s \in Sides, NEW p
  PROVE  /\ QtyAt(v, s, p) \in Nat
         /\ p \in DOMAIN v.levels[s] <=> QtyAt(v, s, p) > 0
<1> DEFINE t == v.levels[s]
<1>1. \A q \in DOMAIN t : t[q] \in Nat /\ t[q] > 0
  BY DEF View, Tree
<1>2. QtyAt(v, s, p) = IF p \in DOMAIN t THEN t[p] ELSE 0
  BY DEF QtyAt
<1> HIDE DEF t
<1>3. /\ QtyAt(v, s, p) \in Nat
      /\ p \in DOMAIN t <=> QtyAt(v, s, p) > 0
  BY <1>1, <1>2
<1> QED BY <1>3 DEF t

(* w shows d less than v at s0 and p0.                                     *)
ShowsLess(v, w, s0, p0, d) ==
  \A s \in Sides : \A p :
    QtyAt(w, s, p) = QtyAt(v, s, p) - IF At(s, p) = At(s0, p0) THEN d ELSE 0

LEMMA TreeAfterDelta ==
  ASSUME NEW t, Tree(t), NEW p0, NEW n \in Nat, NEW u, u = DeltaTree(t, p0, n)
  PROVE  Tree(u) /\ OnlyPrice(t, u, p0, n)
<1>1. CASE n = 0
  <2>1. u = [p \in DOMAIN t \ {p0} |-> t[p]]
    BY <1>1 DEF DeltaTree, Restrict
  <2> QED BY <1>1, <2>1 DEF Tree, OnlyPrice
<1>2. CASE n # 0
  <2>1. u = [p \in DOMAIN t \cup {p0} |-> IF p = p0 THEN n ELSE t[p]]
    BY <1>2 DEF DeltaTree, Put
  <2> QED BY <1>2, <2>1 DEF Tree, OnlyPrice
<1> QED BY <1>1, <1>2

LEMMA DeltaEffect ==
  ASSUME NEW v, View(v), NEW s0 \in Sides, NEW p0, NEW d \in Int,
         QtyAt(v, s0, p0) + d >= 0, NEW w, w = ApplyLevelDelta(v, s0, p0, d)
  PROVE  View(w) /\ w.orders = v.orders /\ ShowsLess(v, w, s0, p0, -d)
<1> DEFINE n == QtyAt(v, s0, p0) + d
           t == v.levels[s0]
           u == DeltaTree(t, p0, n)
           L == v.levels
           O == v.orders
           M == [L EXCEPT ![s0] = u]
<1>1. n \in Nat
  BY ViewQty
<1>2. w = [v EXCEPT !.levels[s0] = u]
  BY DEF ApplyLevelDelta, DeltaTree
<1>3. /\ v = [levels |-> L, orders |-> O] /\ L = [s \in Sides |-> L[s]]
      /\ Tree(t)
  BY DEF View
<1> HIDE DEF n
<1>4. Tree(u) /\ OnlyPrice(t, u, p0, n)
  BY <1>1, <1>3, TreeAfterDelta
<1> HIDE DEF u
<1>5. w = [levels |-> M, orders |-> O]
  BY <1>2, <1>3
<1>6. M[s0] = u /\ M = [s \in Sides |-> M[s]] /\ \A s \in Sides \ {s0} : M[s] = L[s]
  BY <1>3
<1> HIDE DEF M
<1>7. w.levels = M /\ w.orders = O
  BY <1>5
<1>8. View(w)
  <2>1. ASSUME NEW s \in Sides
        PROVE  Tree(M[s])
    <3>1. CASE s = s0
      BY <1>4, <1>6, <3>1
    <3>2. CASE s # s0
      BY <1>6, <3>2 DEF View
    <3> QED BY <3>1, <3>2
  <2>2. O = [x \in DOMAIN O |-> O[x]]
    BY DEF View
  <2> QED BY <1>5, <1>6, <1>7, <2>1, <2>2 DEF View
<1>9. ASSUME NEW s \in Sides, NEW p
      PROVE  QtyAt(w, s, p) = QtyAt(v, s, p) - IF At(s, p) = At(s0, p0) THEN -d ELSE 0
  <2>1. QtyAt(v, s, p) \in Nat
    BY ViewQty
  <2>2. CASE s = s0 /\ p = p0
    <3>1. QtyAt(w, s, p) = n
      BY <1>1, <1>4, <1>6, <1>7, <2>2 DEF QtyAt, OnlyPrice
    <3> QED BY <2>1, <2>2, <3>1 DEF n
  <2>3. CASE s = s0 /\ p # p0
    <3>1. QtyAt(w, s, p) = QtyAt(v, s, p)
      BY <1>4, <1>6, <1>7, <2>3 DEF QtyAt, OnlyPrice
    <3> QED BY <2>1, <2>3, <3>1, AtProperties
  <2>4. CASE s # s0
    <3>1. QtyAt(w, s, p) = QtyAt(v, s, p)
      BY <1>6, <1>7, <2>4 DEF QtyAt
    <3> QED BY <2>1, <2>4, <3>1, AtProperties
  <2> QED BY <2>2, <2>3, <2>4
<1> QED BY <1>7, <1>8, <1>9 DEF ShowsLess

-----------------------------------------------------------------------------
(* What the view keeps of an order.                                        *)
Entry(side, price, remaining) == [side |-> side, price |-> price, remaining |-> remaining]

(* No entry but that of id is another one in w than in v.                  *)
OnlyEntry(v, w, id) ==
  \A x : x # id => /\ x \in DOMAIN w.orders <=> x \in DOMAIN v.orders
                   /\ x \in DOMAIN v.orders => w.orders[x] = v.orders[x]

(* w shows qty less than v at a price, unless it is that of an order       *)
(* without a limit.                                                        *)
Released(v, w, s, p, qty) ==
  IF p = 0 THEN w.levels = v.levels ELSE ShowsLess(v, w, s, p, qty)

LEMMA UntrackEffect ==
  ASSUME NEW v, View(v), NEW id, NEW w, w = Untrack(v, id)
  PROVE  View(w) /\ w.levels = v.levels /\ OnlyEntry(v, w, id) /\ id \notin DOMAIN w.orders
<1> DEFINE O == [x \in DOMAIN v.orders \ {id} |-> v.orders[x]]
           L == v.levels
<1>1. v = [levels |-> L, orders |-> v.orders]
  BY DEF View
<1>2. w = [v EXCEPT !.orders = O]
  BY DEF Untrack, Restrict
<1> HIDE DEF O, L
<1>3. w = [levels |-> L, orders |-> O]
  BY <1>1, <1>2
<1>4. w.levels = L /\ w.orders = O
  BY <1>3
<1>5. OnlyEntry(v, w, id) /\ id \notin DOMAIN w.orders
  BY <1>4 DEF OnlyEntry, O
<1>6. O = [x \in DOMAIN O |-> O[x]]
  BY DEF O
<1> QED BY <1>3, <1>4, <1>5, <1>6 DEF View, L

(* w is v with the entry e for the order id.                               *)
Tracks(v, w, id, e) == w = [v EXCEPT !.orders = Put(v.orders, id, e)]

LEMMA TrackEffect ==
  ASSUME NEW v, View(v), NEW id, NEW e, NEW w, Tracks(v, w, id, e)
  PROVE  /\ View(w) /\ w.levels = v.levels /\ OnlyEntry(v, w, id)
         /\ id \in DOMAIN w.orders /\ w.orders[id] = e
<1> DEFINE O == Put(v.orders, id, e)
           L == v.levels
<1>1. v = [levels |-> L, orders |-> v.orders]
  BY DEF View
<1>2. /\ id \in DOMAIN O /\ O[id] = e /\ O = [x \in DOMAIN O |-> O[x]]
      /\ \A x : x # id => /\ x \in DOMAIN O <=> x \in DOMAIN v.orders
                          /\ x \in DOMAIN v.orders => O[x] = v.orders[x]
  BY DEF Put
<1> HIDE DEF O, L
<1>3. w = [levels |-> L, orders |-> O]
  BY <1>1 DEF O, Tracks
<1>4. w.levels = L /\ w.orders = O
  BY <1>3
<1>5. OnlyEntry(v, w, id) /\ id \in DOMAIN w.orders /\ w.orders[id] = e
  BY <1>2, <1>4 DEF OnlyEntry
<1> QED BY <1>2, <1>3, <1>4, <1>5 DEF View, L

LEMMA ReleaseEffect ==
  ASSUME NEW v, View(v), NEW s \in Sides, NEW p, NEW qty \in Nat,
         p # 0 => qty <= QtyAt(v, s, p),
         NEW w, w = IF p = 0 THEN v ELSE ApplyLevelDelta(v, s, p, -qty)
  PROVE  View(w) /\ w.orders = v.orders /\ Released(v, w, s, p, qty)
<1>1. CASE p = 0
  BY <1>1 DEF Released
<1>2. CASE p # 0
  <2>1. -qty \in Int /\ QtyAt(v, s, p) \in Nat /\ QtyAt(v, s, p) + (-qty) >= 0 /\ -(-qty) = qty
    BY <1>2, ViewQty
  <2> DEFINE d == -qty
  <2>2. d \in Int /\ QtyAt(v, s, p) + d >= 0 /\ -d = qty /\ w = ApplyLevelDelta(v, s, p, d)
    BY <1>2, <2>1
  <2> HIDE DEF d
  <2>3. View(w) /\ w.orders = v.orders /\ ShowsLess(v, w, s, p, -d)
    BY <2>2, DeltaEffect
  <2> QED BY <1>2, <2>2, <2>3 DEF Released
<1> QED BY <1>1, <1>2

LEMMA FillEffect ==
  ASSUME NEW v, View(v), NEW s \in Sides, NEW p, NEW left \in Nat, NEW qty \in Nat,
         NEW id, id \in DOMAIN v.orders, v.orders[id] = Entry(s, p, left),
         qty <= left, p # 0 => qty <= QtyAt(v, s, p),
         NEW w, w = FillL2(v, id, qty)
  PROVE  /\ View(w) /\ Released(v, w, s, p, qty) /\ OnlyEntry(v, w, id)
         /\ id \in DOMAIN w.orders <=> qty # left
         /\ qty # left => w.orders[id] = Entry(s, p, left - qty)
<1> DEFINE e == v.orders[id]
           k == IF e.remaining <= qty THEN Untrack(v, id)
                ELSE [v EXCEPT !.orders[id].remaining = e.remaining - qty]
<1>1. e.side = s /\ e.price = p /\ e.remaining = left
  BY DEF Entry
<1>2. w = IF p = 0 THEN k ELSE ApplyLevelDelta(k, s, p, -qty)
  BY <1>1 DEF FillL2
<1>3. /\ View(k) /\ k.levels = v.levels /\ OnlyEntry(v, k, id)
      /\ id \in DOMAIN k.orders <=> qty # left
      /\ qty # left => k.orders[id] = Entry(s, p, left - qty)
  <2>1. CASE qty = left
    <3>1. k = Untrack(v, id)
      BY <1>1, <2>1
    <3> QED BY <2>1, <3>1, UntrackEffect
  <2>2. CASE qty # left
    <3> DEFINE f == Entry(s, p, left - qty)
               O == v.orders
               P == Put(O, id, f)
    <3>1. k = [v EXCEPT !.orders = [O EXCEPT ![id] = [e EXCEPT !.remaining = left - qty]]]
      BY <1>1, <2>2
    <3>2. [e EXCEPT !.remaining = left - qty] = f
      BY DEF Entry
    <3>3. O = [x \in DOMAIN O |-> O[x]] /\ id \in DOMAIN O
      BY DEF View
    <3> HIDE DEF f, O, k, e
    <3>4. [O EXCEPT ![id] = f] = P
      BY <3>3 DEF Put
    <3> HIDE DEF P
    <3>5. k = [v EXCEPT !.orders = P]
      BY <3>1, <3>2, <3>4
    <3>6. Tracks(v, k, id, f)
      BY <3>5 DEF P, O, Tracks
    <3>7. /\ View(k) /\ k.levels = v.levels /\ OnlyEntry(v, k, id)
          /\ id \in DOMAIN k.orders /\ k.orders[id] = f
      BY <3>6, TrackEffect
    <3> QED BY <2>2, <3>7 DEF f
  <2> QED BY <2>1, <2>2
<1> HIDE DEF k, e
<1>4. p # 0 => qty <= QtyAt(k, s, p)
  BY <1>3 DEF QtyAt
<1>5. View(w) /\ w.orders = k.orders /\ Released(k, w, s, p, qty)
  BY <1>2, <1>3, <1>4, ReleaseEffect
<1>6. Released(v, w, s, p, qty) /\ OnlyEntry(v, w, id)
  BY <1>3, <1>5 DEF Released, ShowsLess, QtyAt, OnlyEntry
<1> QED BY <1>3, <1>5, <1>6

-----------------------------------------------------------------------------
(* The view v shows the book b and what the order o, in hand, has left. *)

(* An order in hand the view knows of: a filled one it has dropped.        *)
OpenOrder(o) == o # NoOrder /\ o.remaining > 0

(* What the order in hand adds to the view's level: nothing if it has no   *)
(* limit, as the view keeps market orders out of its trees.                *)
OpenAt(o, s, p) ==
  IF OpenOrder(o) /\ p # 0 /\ At(s, p) = At(o.side, o.price) THEN o.remaining ELSE 0

(* What the view keeps of the order o.                                     *)
EntryOf(o) == Entry(o.side, o.price, o.remaining)

(* Level by level and order by order, v is the book and the order in hand. *)
Shows(v, b, o) ==
  /\ View(v)
  /\ \A s \in Sides : \A p : QtyAt(v, s, p) = LevelQty(b, s, p) + OpenAt(o, s, p)
  /\ \A id : id \in DOMAIN v.orders <=> IsResting(b, id) \/ (OpenOrder(o) /\ id = o.orderId)
  /\ \A id : IsResting(b, id) => v.orders[id] = EntryOf(GetOrder(b, id))
  /\ OpenOrder(o) => v.orders[o.orderId] = EntryOf(o)

LEMMA ShownFilled ==
  ASSUME NEW v, NEW b, NEW o, Shows(v, b, o), ~OpenOrder(o)
  PROVE  Shows(v, b, NoOrder)
BY DEF Shows, OpenOrder, OpenAt

LEMMA ShownRested ==
  ASSUME NEW b, BookWellFormed(b), TotalsExact(b),
         NEW o \in Order, o.remaining > 0, o.price # 0,
         \A id : IsResting(b, id) => id < o.orderId,
         NEW v, Shows(v, b, o)
  PROVE  Shows(v, Rest(b, o), NoOrder)
<1> DEFINE c == Rest(b, o)
<1>1. /\ \A id : IsResting(c, id) <=> IsResting(b, id) \/ id = o.orderId
      /\ \A s \in Sides : \A p :
           LevelQty(c, s, p) =
             LevelQty(b, s, p) + IF At(s, p) = At(o.side, o.price) THEN o.remaining ELSE 0
      /\ GetOrder(c, o.orderId) = o
      /\ \A id : IsResting(b, id) => GetOrder(c, id) = GetOrder(b, id)
  BY RestWellFormed, RestQuantities
<1> HIDE DEF c
<1>2. OpenOrder(o)
  BY NoOrderAssumption DEF OpenOrder
<1>3. ASSUME NEW s \in Sides, NEW p
      PROVE  QtyAt(v, s, p) = LevelQty(c, s, p) + OpenAt(NoOrder, s, p)
  <2>1. QtyAt(v, s, p) = LevelQty(b, s, p) + OpenAt(o, s, p)
    BY DEF Shows
  <2>2. OpenAt(o, s, p) = IF At(s, p) = At(o.side, o.price) THEN o.remaining ELSE 0
    BY <1>2, AtProperties DEF OpenAt
  <2>3. LevelQty(c, s, p) \in Int
    <3>1. LevelQty(b, s, p) \in Nat /\ o.remaining \in Nat
      BY LevelPositive DEF Order
    <3> QED BY <1>1, <3>1
  <2>4. OpenAt(NoOrder, s, p) = 0
    BY DEF OpenAt, OpenOrder
  <2> QED BY <1>1, <2>1, <2>2, <2>3, <2>4
<1>4. /\ View(v)
      /\ \A id : id \in DOMAIN v.orders <=> IsResting(c, id)
      /\ \A id : IsResting(c, id) => v.orders[id] = EntryOf(GetOrder(c, id))
  BY <1>1, <1>2 DEF Shows
<1> QED BY <1>3, <1>4 DEF Shows, OpenOrder, c

LEMMA ShownOpened ==
  ASSUME NEW b, BookWellFormed(b), TotalsExact(b),
         NEW o \in Order, o.remaining > 0, o.qty = o.remaining,
         o.type = "MARKET" <=> o.price = 0,
         \A id : IsResting(b, id) => id < o.orderId,
         NEW v, Shows(v, b, NoOrder)
  PROVE  Shows(AcceptL2(v, o), b, o)
<1> DEFINE t == [v EXCEPT !.orders = Put(v.orders, o.orderId, EntryOf(o))]
           w == AcceptL2(v, o)
           d == o.remaining
<1>1. o.orderId \in Nat /\ d \in Nat /\ o.side \in Sides /\ o.price \in Nat
  BY DEF Order
<1>2. OpenOrder(o)
  BY NoOrderAssumption DEF OpenOrder
<1>3. w = IF o.price = 0 THEN t ELSE ApplyLevelDelta(t, o.side, o.price, d)
  BY DEF AcceptL2, EntryOf, Entry
<1>4. /\ View(t) /\ t.levels = v.levels /\ OnlyEntry(v, t, o.orderId)
      /\ o.orderId \in DOMAIN t.orders /\ t.orders[o.orderId] = EntryOf(o)
  <2>1. Tracks(v, t, o.orderId, EntryOf(o)) /\ View(v)
    BY DEF Tracks, Shows
  <2> HIDE DEF t
  <2> QED BY <2>1, TrackEffect
<1> HIDE DEF t, w, d
<1>5. /\ View(w) /\ w.orders = t.orders
      /\ \A s \in Sides : \A p : QtyAt(w, s, p) = QtyAt(v, s, p) + OpenAt(o, s, p)
  <2>1. \A s, p : QtyAt(t, s, p) = QtyAt(v, s, p)
    BY <1>4 DEF QtyAt
  <2>2. \A s \in Sides : \A p : QtyAt(t, s, p) \in Nat
    BY <1>4, ViewQty
  <2>3. \A s, p : OpenAt(o, s, p) =
          IF o.price # 0 /\ At(s, p) = At(o.side, o.price) THEN d ELSE 0
    BY <1>2, AtProperties DEF OpenAt, d
  <2>4. CASE o.price = 0
    BY <1>3, <1>4, <2>1, <2>2, <2>3, <2>4
  <2>5. CASE o.price # 0
    <3>1. QtyAt(t, o.side, o.price) + d >= 0
      BY <1>1, <2>2
    <3>2. View(w) /\ w.orders = t.orders /\ ShowsLess(t, w, o.side, o.price, -d)
      BY <1>1, <1>3, <1>4, <2>5, <3>1, DeltaEffect
    <3>3. ASSUME NEW s \in Sides, NEW p
          PROVE  QtyAt(w, s, p) = QtyAt(v, s, p) + OpenAt(o, s, p)
      <4> DEFINE x == QtyAt(t, s, p)
      <4>1. /\ x \in Nat
            /\ QtyAt(w, s, p) = x - IF At(s, p) = At(o.side, o.price) THEN -d ELSE 0
        BY <2>2, <3>2 DEF ShowsLess
      <4>2. QtyAt(v, s, p) = x
        BY <2>1
      <4> HIDE DEF x
      <4> QED BY <1>1, <2>3, <2>5, <4>1, <4>2
    <3> QED BY <3>2, <3>3
  <2> QED BY <2>4, <2>5
<1>6. ~IsResting(b, o.orderId)
  BY <1>1
<1>7. ASSUME NEW s \in Sides, NEW p
      PROVE  QtyAt(w, s, p) = LevelQty(b, s, p) + OpenAt(o, s, p)
  <2>1. QtyAt(v, s, p) = LevelQty(b, s, p) + 0 /\ LevelQty(b, s, p) \in Nat
    BY LevelPositive DEF Shows, OpenAt, OpenOrder
  <2> QED BY <1>5, <2>1
<1>8. \A id : id \in DOMAIN w.orders <=> IsResting(b, id) \/ id = o.orderId
  BY <1>4, <1>5 DEF Shows, OnlyEntry, OpenOrder
<1>9. \A id : IsResting(b, id) => w.orders[id] = EntryOf(GetOrder(b, id))
  BY <1>4, <1>5, <1>6 DEF Shows, OnlyEntry
<1>10. w.orders[o.orderId] = EntryOf(o)
  BY <1>4, <1>5
<1> QED BY <1>2, <1>5, <1>7, <1>8, <1>9, <1>10 DEF Shows, w

(* The order in hand is filled by qty.                                     *)
LEMMA ShownTaken ==
  ASSUME NEW b, BookWellFormed(b), TotalsExact(b), NEW o \in Order, o.remaining > 0,
         \A id : IsResting(b, id) => id < o.orderId,
         NEW qty \in Nat, qty <= o.remaining,
         NEW n, n = [o EXCEPT !.remaining = o.remaining - qty],
         NEW v, Shows(v, b, o), NEW w, w = FillL2(v, o.orderId, qty)
  PROVE  Shows(w, b, n)
<1>1. /\ o.orderId \in Nat /\ o.remaining \in Nat /\ o.side \in Sides /\ o.price \in Nat
      /\ o.remaining - qty \in Nat
  BY DEF Order
<1>2. OpenOrder(o)
  BY NoOrderAssumption DEF OpenOrder
<1>3. /\ n \in Order /\ n.orderId = o.orderId /\ n.side = o.side /\ n.price = o.price
      /\ n.remaining = o.remaining - qty
  BY <1>1 DEF Order
<1>4. OpenOrder(n) <=> qty # o.remaining
  BY <1>1, <1>3, NoOrderAssumption DEF OpenOrder
<1>5. /\ View(v) /\ o.orderId \in DOMAIN v.orders
      /\ v.orders[o.orderId] = Entry(o.side, o.price, o.remaining)
  BY <1>2 DEF Shows, EntryOf
<1>6. \A s \in Sides : \A p : LevelQty(b, s, p) \in Nat
  BY LevelPositive
<1>7. \A s, p : OpenAt(o, s, p) =
        IF o.price # 0 /\ At(s, p) = At(o.side, o.price) THEN o.remaining ELSE 0
  BY <1>2, AtProperties DEF OpenAt
<1>8. \A s, p : OpenAt(n, s, p) =
        IF o.price # 0 /\ At(s, p) = At(o.side, o.price) THEN o.remaining - qty ELSE 0
  <2>1. n.remaining = 0 <=> ~OpenOrder(n)
    BY <1>1, <1>3, <1>4
  <2> QED BY <1>3, <2>1, AtProperties DEF OpenAt
<1>9. o.price # 0 => qty <= QtyAt(v, o.side, o.price)
  <2>1. QtyAt(v, o.side, o.price) = LevelQty(b, o.side, o.price) + OpenAt(o, o.side, o.price)
    BY <1>1 DEF Shows
  <2> QED BY <1>1, <1>6, <1>7, <2>1
<1>10. /\ View(w) /\ Released(v, w, o.side, o.price, qty) /\ OnlyEntry(v, w, o.orderId)
       /\ o.orderId \in DOMAIN w.orders <=> qty # o.remaining
       /\ qty # o.remaining => w.orders[o.orderId] = Entry(o.side, o.price, o.remaining - qty)
  BY <1>1, <1>5, <1>9, FillEffect
<1>11. ASSUME NEW s \in Sides, NEW p
       PROVE  QtyAt(w, s, p) = LevelQty(b, s, p) + OpenAt(n, s, p)
  <2>1. QtyAt(v, s, p) = LevelQty(b, s, p) + OpenAt(o, s, p)
    BY DEF Shows
  <2>2. CASE o.price = 0
    <3>1. QtyAt(w, s, p) = QtyAt(v, s, p)
      BY <1>10, <2>2 DEF Released, QtyAt
    <3> QED BY <1>7, <1>8, <2>1, <2>2, <3>1
  <2>3. CASE o.price # 0
    <3>1. QtyAt(w, s, p) =
            QtyAt(v, s, p) - IF At(s, p) = At(o.side, o.price) THEN qty ELSE 0
      BY <1>10, <2>3 DEF Released, ShowsLess
    <3> QED BY <1>1, <1>6, <1>7, <1>8, <2>1, <2>3, <3>1
  <2> QED BY <2>2, <2>3
<1>12. ~IsResting(b, o.orderId)
  BY <1>1
<1>13. \A id : id \in DOMAIN w.orders <=> IsResting(b, id) \/ (OpenOrder(n) /\ id = n.orderId)
  BY <1>3, <1>4, <1>10, <1>12 DEF Shows, OnlyEntry
<1>14. \A id : IsResting(b, id) => w.orders[id] = EntryOf(GetOrder(b, id))
  BY <1>10, <1>12 DEF Shows, OnlyEntry
<1>15. OpenOrder(n) => w.orders[n.orderId] = EntryOf(n)
  BY <1>3, <1>4, <1>10 DEF EntryOf
<1> QED BY <1>10, <1>11, <1>13, <1>14, <1>15 DEF Shows

(* The order x of the book b is filled by qty, which leaves the book c.    *)
LEMMA ShownReduced ==
  ASSUME NEW b, BookWellFormed(b), TotalsExact(b), NEW c, BookWellFormed(c), TotalsExact(c),
         NEW x \in Order, x.price # 0, IsResting(b, x.orderId), GetOrder(b, x.orderId) = x,
         NEW qty \in Nat, qty <= x.remaining,
         \A s \in Sides : \A p :
           LevelQty(c, s, p) =
             LevelQty(b, s, p) - IF At(s, p) = At(x.side, x.price) THEN qty ELSE 0,
         IsResting(c, x.orderId) <=> qty # x.remaining,
         qty # x.remaining =>
           GetOrder(c, x.orderId) = [x EXCEPT !.remaining = x.remaining - qty],
         \A id : id # x.orderId =>
           /\ IsResting(c, id) <=> IsResting(b, id)
           /\ IsResting(b, id) => GetOrder(c, id) = GetOrder(b, id),
         NEW o, OpenOrder(o) => o.orderId # x.orderId /\ o.remaining \in Nat,
         NEW v, Shows(v, b, o), NEW w, w = FillL2(v, x.orderId, qty)
  PROVE  Shows(w, c, o)
<1>1. x.remaining \in Nat /\ x.side \in Sides /\ x.price \in Nat /\ x.remaining - qty \in Nat
  BY DEF Order
<1>2. /\ View(v) /\ x.orderId \in DOMAIN v.orders
      /\ v.orders[x.orderId] = Entry(x.side, x.price, x.remaining)
  BY DEF Shows, EntryOf
<1>3. \A s \in Sides : \A p : LevelQty(b, s, p) \in Nat /\ LevelQty(c, s, p) \in Nat
  BY LevelPositive
<1>4. \A s, p : OpenAt(o, s, p) \in Nat
  BY DEF OpenAt
<1>5. qty <= QtyAt(v, x.side, x.price)
  <2>1. QtyAt(v, x.side, x.price) = LevelQty(b, x.side, x.price) + OpenAt(o, x.side, x.price)
    BY <1>1 DEF Shows
  <2>2. LevelQty(c, x.side, x.price) = LevelQty(b, x.side, x.price) - qty
    BY <1>1
  <2>3. /\ LevelQty(b, x.side, x.price) \in Nat /\ LevelQty(c, x.side, x.price) \in Nat
        /\ OpenAt(o, x.side, x.price) \in Nat
    BY <1>1, <1>3, <1>4
  <2> QED BY <2>1, <2>2, <2>3
<1>6. /\ View(w) /\ Released(v, w, x.side, x.price, qty) /\ OnlyEntry(v, w, x.orderId)
      /\ x.orderId \in DOMAIN w.orders <=> qty # x.remaining
      /\ qty # x.remaining => w.orders[x.orderId] = Entry(x.side, x.price, x.remaining - qty)
  BY <1>1, <1>2, <1>5, FillEffect
<1>7. ASSUME NEW s \in Sides, NEW p
      PROVE  QtyAt(w, s, p) = LevelQty(c, s, p) + OpenAt(o, s, p)
  <2>1. QtyAt(v, s, p) = LevelQty(b, s, p) + OpenAt(o, s, p)
    BY DEF Shows
  <2>2. QtyAt(w, s, p) = QtyAt(v, s, p) - IF At(s, p) = At(x.side, x.price) THEN qty ELSE 0
    BY <1>6 DEF Released, ShowsLess
  <2>3. /\ LevelQty(b, s, p) \in Nat /\ OpenAt(o, s, p) \in Nat
        /\ LevelQty(c, s, p) =
             LevelQty(b, s, p) - IF At(s, p) = At(x.side, x.price) THEN qty ELSE 0
    BY <1>3, <1>4
  <2> QED BY <2>1, <2>2, <2>3
<1>8. \A id : id \in DOMAIN w.orders <=> IsResting(c, id) \/ (OpenOrder(o) /\ id = o.orderId)
  BY <1>6 DEF Shows, OnlyEntry
<1>9. ASSUME NEW id, IsResting(c, id)
      PROVE  w.orders[id] = EntryOf(GetOrder(c, id))
  <2>1. CASE id = x.orderId
    <3>1. GetOrder(c, id) = [x EXCEPT !.remaining = x.remaining - qty] /\ qty # x.remaining
      BY <1>9, <2>1
    <3> DEFINE y == [x EXCEPT !.remaining = x.remaining - qty]
    <3>2. y.side = x.side /\ y.price = x.price /\ y.remaining = x.remaining - qty
      BY DEF Order
    <3> HIDE DEF y
    <3>3. EntryOf(y) = Entry(x.side, x.price, x.remaining - qty)
      BY <3>2 DEF EntryOf
    <3>4. GetOrder(c, id) = y
      BY <3>1 DEF y
    <3> QED BY <1>6, <2>1, <3>1, <3>3, <3>4
  <2>2. CASE id # x.orderId
    <3>1. IsResting(b, id) /\ GetOrder(c, id) = GetOrder(b, id)
      BY <1>9, <2>2
    <3> QED BY <1>6, <2>2, <3>1 DEF Shows, OnlyEntry
  <2> QED BY <2>1, <2>2
<1>10. OpenOrder(o) => w.orders[o.orderId] = EntryOf(o)
  BY <1>6 DEF Shows, OnlyEntry
<1> QED BY <1>6, <1>7, <1>8, <1>9, <1>10 DEF Shows

(* Cancelling an order takes from the view all it has left.                *)
LEMMA CancelIsFill ==
  ASSUME NEW v, NEW id, id \in DOMAIN v.orders, v.orders[id].remaining \in Nat
  PROVE  CancelL2(v, id) = FillL2(v, id, v.orders[id].remaining)
BY DEF CancelL2, FillL2

-----------------------------------------------------------------------------
(* Only market orders have the price zero, and they never rest.            *)
Priced ==
  /\ \A s \in Sides : 0 \notin PricesOn(book, s)
  /\ order # NoOrder => (order.type = "MARKET" <=> order.price = 0)

LEMMA PricedInvariance == Spec => []Priced
<1>1. Init => Priced
  BY EmptyBookWellFormed DEF Init, Priced
<1>2. IInv /\ Priced /\ [Next]_vars => Priced'
  <2> SUFFICES ASSUME IInv, Priced, [Next]_vars PROVE Priced'
    OBVIOUS
  <2>1. BookWellFormed(book)
    BY DEF IInv
  <2>2. CASE Silent
    <3>1. CASE UNCHANGED <<book, order>>
      BY <3>1 DEF Priced
    <3>2. CASE book' = book /\ order' = NoOrder
      BY <3>2 DEF Priced
    <3>3. CASE /\ order # NoOrder /\ order' = NoOrder /\ order.remaining > 0
               /\ order.type \in {"LIMIT", "POST_ONLY"} /\ book' = Rest(book, order)
      <4>1. order \in Order /\ \A id : IsResting(book, id) => id < order.orderId
        BY <3>3 DEF IInv, TypeOK, IdsOld
      <4>2. \A s \in Sides : PricesOn(book', s) \subseteq PricesOn(book, s) \cup {order.price}
        BY <2>1, <3>3, <4>1, RestWellFormed
      <4>3. order.price # 0
        BY <3>3 DEF Priced
      <4> QED BY <3>3, <4>2, <4>3 DEF Priced
    <3> QED BY <2>2, <3>1, <3>2, <3>3 DEF Silent
  <2>3. ASSUME NEW cmd, NEW reason, Refused(cmd, reason) PROVE Priced'
    BY <2>3 DEF Refused, Priced
  <2>4. ASSUME NEW cmd \in Command, Opened(cmd) PROVE Priced'
    <3>0. cmd.price \in Nat /\ (cmd.type # "MARKET" => cmd.price > 0)
      <4>1. cmd.price \in Nat
        BY ConstantsAssumption DEF Command
      <4>2. cmd.type # "MARKET" => cmd.price > 0
        BY <2>4 DEF Opened
      <4> QED BY <4>1, <4>2
    <3>1. cmd.price \in Nat /\ (cmd.type # "MARKET" => cmd.price # 0)
      BY <3>0
    <3>2. NewOrder(cmd).type = "MARKET" <=> NewOrder(cmd).price = 0
      BY <3>1 DEF NewOrder
    <3> QED BY <2>4, <3>2 DEF Opened, Priced
  <2>5. ASSUME order # NoOrder, NEW p, NEW maker, NEW fillQty, Sold(p, maker, fillQty)
        PROVE  Priced'
    <3> DEFINE opp == Opposite(order.side)
    <3>1. /\ opp \in Sides /\ IsBest(book, opp, p) /\ fillQty \in Nat
          /\ fillQty <= Head(QueueAt(book, opp, p)).remaining
          /\ book' = ReduceTopOrder(book, opp, fillQty)
      BY <2>5 DEF Sold, Traded
    <3> HIDE DEF opp
    <3>2. \A s \in Sides : PricesOn(book', s) \subseteq PricesOn(book, s)
      BY <2>1, <3>1, ReduceTopWellFormed
    <3>3. order'.type = order.type /\ order'.price = order.price
      BY <2>5 DEF Sold, Traded, Order
    <3> QED BY <2>5, <3>2, <3>3 DEF Priced
  <2>6. ASSUME NEW reason, Killed(reason) PROVE Priced'
    BY <2>6 DEF Killed, Priced
  <2>7. ASSUME NEW id, Withdrawn(id) PROVE Priced'
    BY <2>1, <2>7, CancelWellFormed DEF Withdrawn, Priced
  <2> QED BY <2>2, <2>3, <2>4, <2>5, <2>6, <2>7, EngineSteps
<1> QED BY <1>1, <1>2, Invariance, PTL DEF Spec

-----------------------------------------------------------------------------
(* The market data view shows the book and the order in hand. *)

L2Inv == Shows(l2, book, order)

LEMMA FreshShows == ReplayInit => L2Inv
<1> SUFFICES ASSUME ReplayInit PROVE L2Inv
  OBVIOUS
<1>1. l2 = FreshL2 /\ book = EmptyBook /\ order = NoOrder
  BY DEF ReplayInit, Init
<1>2. View(FreshL2)
  BY DEF View, FreshL2, Tree, EmptyMap
<1>3. \A s \in Sides : \A p : QtyAt(FreshL2, s, p) = 0
  BY DEF QtyAt, FreshL2, EmptyMap
<1>4. \A s \in Sides : \A p : LevelQty(EmptyBook, s, p) = 0
  BY EmptyBookWellFormed DEF LevelQty
<1>5. \A id : id \notin DOMAIN FreshL2.orders
  BY DEF FreshL2, EmptyMap
<1>6. \A id : ~IsResting(EmptyBook, id)
  BY EmptyBookWellFormed
<1> QED BY <1>1, <1>2, <1>3, <1>4, <1>5, <1>6 DEF L2Inv, Shows, OpenOrder, OpenAt

LEMMA ShownQuiet ==
  ASSUME IInv, TotalsExact(book), Priced, L2Inv, Silent, l2' = l2
  PROVE  L2Inv'
<1>1. CASE UNCHANGED <<book, order>>
  BY <1>1 DEF L2Inv
<1>2. CASE order # NoOrder /\ order' = NoOrder /\ order.remaining = 0 /\ book' = book
  <2>1. Shows(l2, book, NoOrder)
    BY <1>2, ShownFilled DEF L2Inv, OpenOrder
  <2> QED BY <1>2, <2>1 DEF L2Inv
<1>3. CASE /\ order # NoOrder /\ order' = NoOrder
           /\ order.remaining > 0 /\ order.type \in {"LIMIT", "POST_ONLY"}
           /\ book' = Rest(book, order)
  <2>1. order \in Order /\ \A id : IsResting(book, id) => id < order.orderId
    BY <1>3 DEF IInv, TypeOK, IdsOld
  <2>2. BookWellFormed(book) /\ order.price # 0
    BY <1>3 DEF IInv, Priced
  <2>3. Shows(l2, Rest(book, order), NoOrder)
    BY <1>3, <2>1, <2>2, ShownRested DEF L2Inv
  <2> QED BY <1>3, <2>3 DEF L2Inv
<1> QED BY <1>1, <1>2, <1>3 DEF Silent

LEMMA ShownOpen ==
  ASSUME IInv, TotalsExact(book), IInv', Priced', L2Inv, NEW cmd \in Command, Opened(cmd),
         l2' = ApplyL2(l2, Last(events'))
  PROVE  L2Inv'
<1> DEFINE o  == NewOrder(cmd)
           ev == Accepted(seq + 1, o)
<1>1. /\ Last(events') = ev /\ order' = o /\ book' = book /\ order = NoOrder
      /\ ev.kind = "OrderAccepted" /\ ev.order = o
      /\ o.qty = o.remaining /\ o.remaining > 0
  BY DEF Opened, Accepted, NewOrder
<1>2. o \in Order /\ o # NoOrder
  BY NewOrderType, NoOrderAssumption DEF IInv, TypeOK
<1> HIDE DEF ev, o
<1>3. l2' = AcceptL2(l2, o)
  BY <1>1 DEF ApplyL2
<1>4. o.type = "MARKET" <=> o.price = 0
  BY <1>1, <1>2 DEF Priced
<1>5. BookWellFormed(book) /\ \A id : IsResting(book, id) => id < o.orderId
  BY <1>1, <1>2 DEF IInv, IdsOld
<1>6. Shows(l2, book, NoOrder)
  BY <1>1 DEF L2Inv
<1>7. Shows(AcceptL2(l2, o), book, o)
  BY <1>1, <1>2, <1>4, <1>5, <1>6, ShownOpened
<1> QED BY <1>1, <1>3, <1>7 DEF L2Inv

LEMMA ShownSold ==
  ASSUME IInv, TotalsExact(book), IInv', TotalsExact(book)', Priced, L2Inv,
         order # NoOrder, NEW p, NEW maker, NEW fillQty, Sold(p, maker, fillQty),
         l2' = ApplyL2(l2, Last(events'))
  PROVE  L2Inv'
<1> DEFINE ev  == Trade(seq + 1, order, maker, fillQty)
           opp == Opposite(order.side)
           v   == FillL2(l2, maker.orderId, fillQty)
<1>1. /\ ev.kind = "Trade" /\ ev.qty = fillQty
      /\ ev.takerOrderId = order.orderId /\ ev.makerOrderId = maker.orderId
  BY DEF Trade
<1>2. /\ Last(events') = ev
      /\ order \in Order /\ opp \in Sides /\ IsBest(book, opp, p)
      /\ maker = Head(QueueAt(book, opp, p)) /\ maker \in Order
      /\ maker.side = opp /\ maker.price = p
      /\ fillQty \in Nat /\ fillQty > 0
      /\ fillQty <= maker.remaining /\ fillQty <= order.remaining
      /\ book' = ReduceTopOrder(book, opp, fillQty)
      /\ order' = [order EXCEPT !.remaining = order.remaining - fillQty]
  BY DEF Sold, Traded
<1> HIDE DEF ev, opp
<1>3. l2' = FillL2(v, order.orderId, fillQty)
  BY <1>1, <1>2 DEF ApplyL2
<1>4. BookWellFormed(book) /\ BookWellFormed(book')
  BY DEF IInv
<1>5. IsResting(book, maker.orderId) /\ GetOrder(book, maker.orderId) = maker
  <2> DEFINE q == QueueAt(book, opp, p)
  <2>1. p \in PricesOn(book, opp)
    BY <1>2 DEF IsBest
  <2>2. q \in Seq(Order) /\ q # << >>
    BY <1>2, <1>4, <2>1, LevelTypes, LevelFacts DEF BookWellFormed, LevelOK
  <2>3. 1 \in DOMAIN q /\ maker = q[1]
    <3>1. maker = Head(q)
      BY <1>2
    <3> HIDE DEF q
    <3> QED BY <2>2, <3>1, QueueTypes
  <2> QED BY <1>2, <1>4, <2>1, <2>3, OrderFound
<1>6. /\ \A s \in Sides : \A q :
           LevelQty(book', s, q) =
             LevelQty(book, s, q) - IF At(s, q) = At(maker.side, maker.price) THEN fillQty ELSE 0
      /\ IsResting(book', maker.orderId) <=> fillQty # maker.remaining
      /\ fillQty # maker.remaining => GetOrder(book', maker.orderId) =
           [maker EXCEPT !.remaining = maker.remaining - fillQty]
      /\ \A id : id # maker.orderId =>
           /\ IsResting(book', id) <=> IsResting(book, id)
           /\ IsResting(book, id) => GetOrder(book', id) = GetOrder(book, id)
  <2> DEFINE c == book'
  <2>1. c = ReduceTopOrder(book, opp, fillQty)
    BY <1>2
  <2> HIDE DEF c
  <2>2. /\ \A s \in Sides : \A q :
             LevelQty(c, s, q) =
               LevelQty(book, s, q) - IF At(s, q) = At(opp, p) THEN fillQty ELSE 0
        /\ IsResting(c, maker.orderId) <=> fillQty # maker.remaining
        /\ fillQty # maker.remaining => GetOrder(c, maker.orderId) =
             [maker EXCEPT !.remaining = maker.remaining - fillQty]
        /\ \A id : id # maker.orderId =>
             /\ IsResting(c, id) <=> IsResting(book, id)
             /\ IsResting(book, id) => GetOrder(c, id) = GetOrder(book, id)
    BY <1>2, <1>4, <2>1, ReduceTopQuantities
  <2> QED BY <1>2, <2>2 DEF c
<1>7. p # 0
  BY <1>2 DEF IsBest, Priced
<1>8. order.orderId # maker.orderId /\ order.remaining \in Nat
  <2>1. maker.orderId < order.orderId /\ maker.orderId \in Nat
    BY <1>2, <1>5 DEF IInv, IdsOld, Order
  <2> QED BY <1>2, <2>1 DEF Order
<1>9. Shows(v, book', order)
  <2> DEFINE c == book'
  <2>1. BookWellFormed(c) /\ TotalsExact(c)
    BY <1>4
  <2> HIDE DEF v
  <2>2. v = FillL2(l2, maker.orderId, fillQty) /\ Shows(l2, book, order)
    BY DEF v, L2Inv
  <2> HIDE DEF c
  <2>3. /\ \A s \in Sides : \A q :
           LevelQty(c, s, q) =
             LevelQty(book, s, q) - IF At(s, q) = At(maker.side, maker.price) THEN fillQty ELSE 0
        /\ IsResting(c, maker.orderId) <=> fillQty # maker.remaining
        /\ fillQty # maker.remaining => GetOrder(c, maker.orderId) =
             [maker EXCEPT !.remaining = maker.remaining - fillQty]
        /\ \A id : id # maker.orderId =>
             /\ IsResting(c, id) <=> IsResting(book, id)
             /\ IsResting(book, id) => GetOrder(c, id) = GetOrder(book, id)
    BY <1>6 DEF c
  <2>4. maker.price # 0
    BY <1>2, <1>7
  <2>5. Shows(v, c, order)
    BY <1>2, <1>4, <1>5, <1>8, <2>1, <2>2, <2>3, <2>4, ShownReduced
  <2> QED BY <2>5 DEF c
<1>10. \A id : IsResting(book', id) => id < order.orderId
  BY <1>5, <1>6 DEF IInv, IdsOld
<1> HIDE DEF v
<1>11. order.remaining > 0
  BY <1>2, <1>8
<1>12. Shows(l2', book', order')
  <2> DEFINE c == book'
             n == order'
             w == l2'
  <2>1. /\ BookWellFormed(c) /\ TotalsExact(c) /\ \A id : IsResting(c, id) => id < order.orderId
        /\ n = [order EXCEPT !.remaining = order.remaining - fillQty]
        /\ Shows(v, c, order) /\ w = FillL2(v, order.orderId, fillQty)
    BY <1>2, <1>3, <1>4, <1>9, <1>10
  <2> HIDE DEF c, n, w
  <2>2. Shows(w, c, n)
    BY <1>2, <1>11, <2>1, ShownTaken
  <2> QED BY <2>2 DEF c, n, w
<1> QED BY <1>12 DEF L2Inv

LEMMA ShownKilled ==
  ASSUME IInv, TotalsExact(book), L2Inv, NEW reason, Killed(reason),
         l2' = ApplyL2(l2, Last(events'))
  PROVE  L2Inv'
<1> DEFINE ev == Canceled(seq + 1, order, reason)
           d  == order.remaining
           n  == [order EXCEPT !.remaining = order.remaining - d]
<1>1. /\ Last(events') = ev /\ order # NoOrder /\ order.remaining > 0
      /\ order' = NoOrder /\ book' = book
      /\ ev.kind = "OrderCanceled" /\ ev.orderId = order.orderId
  BY DEF Killed, Canceled
<1> HIDE DEF ev
<1>2. /\ order \in Order /\ d \in Nat /\ BookWellFormed(book)
      /\ \A id : IsResting(book, id) => id < order.orderId
  BY <1>1 DEF IInv, TypeOK, IdsOld, Order
<1>3. order.orderId \in DOMAIN l2.orders /\ l2.orders[order.orderId].remaining = d
  BY <1>1 DEF L2Inv, Shows, OpenOrder, EntryOf, Entry
<1>4. l2' = FillL2(l2, order.orderId, d)
  <2>1. l2' = CancelL2(l2, order.orderId)
    BY <1>1 DEF ApplyL2
  <2> HIDE DEF d
  <2> QED BY <1>2, <1>3, <2>1, CancelIsFill
<1>5. Shows(l2', book, n)
  <2> DEFINE w == l2'
  <2>1. w = FillL2(l2, order.orderId, d) /\ Shows(l2, book, order) /\ d <= order.remaining
    BY <1>2, <1>4 DEF L2Inv
  <2> HIDE DEF w, d
  <2>2. Shows(w, book, n)
    BY <1>1, <1>2, <2>1, ShownTaken
  <2> QED BY <2>2 DEF w
<1>6. ~OpenOrder(n)
  BY <1>2 DEF OpenOrder, Order
<1>7. Shows(l2', book, NoOrder)
  <2> HIDE DEF n
  <2> QED BY <1>5, <1>6, ShownFilled
<1> QED BY <1>1, <1>7 DEF L2Inv

LEMMA ShownWithdrawn ==
  ASSUME IInv, TotalsExact(book), Priced, L2Inv, NEW id, Withdrawn(id),
         l2' = ApplyL2(l2, Last(events'))
  PROVE  L2Inv'
<1> DEFINE x  == GetOrder(book, id)
           ev == Canceled(seq + 1, x, "USER")
           d  == x.remaining
           c  == CancelOrder(book, id)
<1>1. /\ Last(events') = ev /\ order = NoOrder /\ order' = NoOrder
      /\ IsResting(book, id) /\ book' = c
      /\ ev.kind = "OrderCanceled" /\ ev.orderId = x.orderId
  BY DEF Withdrawn, Canceled
<1>2. BookWellFormed(book) /\ x \in Order /\ x.orderId = id
  BY <1>1, GetOrderProperties DEF IInv
<1>3. x.price # 0
  <2>1. \E s \in Sides : x.price \in PricesOn(book, s)
    BY <1>1, <1>2, OrderPlace
  <2> HIDE DEF x
  <2> QED BY <2>1 DEF Priced
<1>4. /\ BookWellFormed(c) /\ \A y : IsResting(c, y) <=> IsResting(book, y) /\ y # id
  BY <1>1, <1>2, CancelWellFormed
<1>5. /\ TotalsExact(c)
      /\ \A s \in Sides : \A p :
           LevelQty(c, s, p) =
             LevelQty(book, s, p) - IF At(s, p) = At(x.side, x.price) THEN x.remaining ELSE 0
      /\ \A y : IsResting(book, y) /\ y # id => GetOrder(c, y) = GetOrder(book, y)
  BY <1>1, <1>2, CancelQuantities
<1> HIDE DEF ev, c
<1>6. l2' = CancelL2(l2, id)
  BY <1>1, <1>2 DEF ApplyL2
<1>7. id \in DOMAIN l2.orders /\ l2.orders[id].remaining = d
  <2>1. id \in DOMAIN l2.orders /\ l2.orders[id] = EntryOf(x)
    BY <1>1 DEF L2Inv, Shows
  <2> HIDE DEF x
  <2> QED BY <2>1 DEF EntryOf, Entry
<1>8. d \in Nat /\ GetOrder(book, x.orderId) = x /\ IsResting(book, x.orderId)
  BY <1>1, <1>2 DEF Order
<1> HIDE DEF x, d
<1>9. l2' = FillL2(l2, x.orderId, d)
  BY <1>2, <1>6, <1>7, <1>8, CancelIsFill
<1>10. Shows(l2', c, NoOrder)
  <2> DEFINE w == l2'
  <2>1. /\ w = FillL2(l2, x.orderId, d) /\ Shows(l2, book, NoOrder)
        /\ d = x.remaining /\ d <= x.remaining
    BY <1>1, <1>8, <1>9 DEF L2Inv, d
  <2> HIDE DEF w
  <2>2. /\ IsResting(c, x.orderId) <=> d # x.remaining
        /\ d # x.remaining =>
             GetOrder(c, x.orderId) = [x EXCEPT !.remaining = x.remaining - d]
        /\ \A y : y # x.orderId =>
             /\ IsResting(c, y) <=> IsResting(book, y)
             /\ IsResting(book, y) => GetOrder(c, y) = GetOrder(book, y)
    BY <1>2, <1>4, <1>5, <2>1
  <2>3. \A s \in Sides : \A p :
          LevelQty(c, s, p) =
            LevelQty(book, s, p) - IF At(s, p) = At(x.side, x.price) THEN d ELSE 0
    BY <1>5, <2>1
  <2>4. OpenOrder(NoOrder) => NoOrder.orderId # x.orderId /\ NoOrder.remaining \in Nat
    BY DEF OpenOrder
  <2>5. /\ BookWellFormed(book) /\ BookWellFormed(c) /\ TotalsExact(c)
        /\ x \in Order /\ x.price # 0 /\ d \in Nat /\ d <= x.remaining
        /\ IsResting(book, x.orderId) /\ GetOrder(book, x.orderId) = x
        /\ w = FillL2(l2, x.orderId, d) /\ Shows(l2, book, NoOrder)
    BY <1>2, <1>3, <1>4, <1>5, <1>8, <2>1
  <2>6. Shows(w, c, NoOrder)
    BY <2>2, <2>3, <2>4, <2>5, ShownReduced
  <2> QED BY <2>6 DEF w
<1> QED BY <1>1, <1>10 DEF L2Inv

LEMMA L2Invariance == ReplaySpec => []L2Inv
<1>1. /\ IInv /\ TotalsExact(book) /\ IInv' /\ TotalsExact(book)' /\ Priced /\ Priced'
      /\ L2Inv /\ [ReplayNext]_replayVars
      => L2Inv'
  <2> SUFFICES ASSUME IInv, TotalsExact(book), IInv', TotalsExact(book)', Priced, Priced',
                      L2Inv, [ReplayNext]_replayVars
               PROVE  L2Inv'
    OBVIOUS
  <2>1. CASE UNCHANGED replayVars
    BY <2>1 DEF replayVars, L2Inv
  <2>2. CASE ReplayNext
    <3>1. [Next]_vars
      BY <2>2 DEF ReplayNext
    <3>2. CASE Silent
      <4>1. l2' = l2
        BY <2>2, <3>2 DEF Silent, ReplayNext, Follow
      <4> QED BY <3>2, <4>1, ShownQuiet
    <3>3. ASSUME NEW cmd, NEW reason, Refused(cmd, reason) PROVE L2Inv'
      <4>1. l2' = ApplyL2(l2, Rejected(seq + 1, cmd, reason))
        BY <2>2, <3>3, EventNumbered DEF Refused
      <4>2. l2' = l2
        BY <4>1 DEF ApplyL2, Rejected
      <4> QED BY <3>3, <4>2 DEF Refused, L2Inv
    <3>4. ASSUME NEW cmd \in Command, Opened(cmd) PROVE L2Inv'
      BY <2>2, <3>4, EventNumbered, ShownOpen DEF Opened
    <3>5. ASSUME order # NoOrder, NEW p, NEW maker, NEW fillQty, Sold(p, maker, fillQty)
          PROVE  L2Inv'
      BY <2>2, <3>5, EventNumbered, ShownSold DEF Sold, Traded
    <3>6. ASSUME NEW reason, Killed(reason) PROVE L2Inv'
      BY <2>2, <3>6, EventNumbered, ShownKilled DEF Killed
    <3>7. ASSUME NEW id, Withdrawn(id) PROVE L2Inv'
      BY <2>2, <3>7, EventNumbered, ShownWithdrawn DEF Withdrawn
    <3> QED BY <3>1, <3>2, <3>3, <3>4, <3>5, <3>6, <3>7, EngineSteps
  <2> QED BY <2>1, <2>2
<1> QED BY <1>1, FreshShows, ReplayIsEngine, TotalsInvariance, PricedInvariance, PTL
        DEF ReplaySpec

(* The market data view, which sees events and never the book, shows after *)
(* each of them exactly what the engine's levels hold plus what the order  *)
(* in hand has left at its limit, and between calls nothing else: neither  *)
(* a level nor a tracked order too many (l2book.ts:11-23).                 *)
THEOREM L2ShowsBook == ReplaySpec => []L2Agrees
<1>1. IInv /\ TotalsExact(book) /\ L2Inv => L2Agrees
  <2> SUFFICES ASSUME IInv, TotalsExact(book), L2Inv PROVE L2Agrees
    OBVIOUS
  <2> DEFINE incoming(s, p) ==
        IF ~Idle /\ order.side = s /\ order.price = p THEN order.remaining ELSE 0
      engineQty(s, p) ==
        incoming(s, p) + IF p \in PricesOn(book, s) THEN Depth(book, s)[p] ELSE 0
  <2>1. ASSUME NEW s \in Sides, NEW p
        PROVE  /\ LevelQty(book, s, p) \in Nat
               /\ p \in PricesOn(book, s) <=> LevelQty(book, s, p) > 0
               /\ LevelQty(book, s, p) =
                    IF p \in PricesOn(book, s) THEN Depth(book, s)[p] ELSE 0
    BY LevelPositive DEF IInv, LevelQty, Depth
  <2>2. ASSUME NEW s \in Sides, NEW p \in Prices \ {0}
        PROVE  QtyAt(l2, s, p) = engineQty(s, p)
    <3>1. QtyAt(l2, s, p) = LevelQty(book, s, p) + OpenAt(order, s, p)
      BY DEF L2Inv, Shows
    <3>2. order # NoOrder => order.remaining \in Nat
      BY DEF IInv, TypeOK, Order
    <3>3. OpenAt(order, s, p) = incoming(s, p)
      BY <3>2, AtProperties DEF OpenAt, OpenOrder, Idle
    <3>4. incoming(s, p) \in Nat
      BY <3>2 DEF Idle
    <3> HIDE DEF incoming
    <3> QED BY <2>1, <3>1, <3>3, <3>4
  <2>3. ASSUME Idle, NEW s \in Sides PROVE l2.levels[s] = Depth(book, s)
    <3> DEFINE t == l2.levels[s]
               D == Depth(book, s)
    <3>1. ASSUME NEW p
          PROVE  /\ p \in DOMAIN t <=> p \in DOMAIN D
                 /\ p \in DOMAIN t => t[p] = D[p]
      <4>1. QtyAt(l2, s, p) = LevelQty(book, s, p)
        BY <2>1, <2>3 DEF L2Inv, Shows, OpenAt, OpenOrder, Idle
      <4>2. p \in DOMAIN t <=> QtyAt(l2, s, p) > 0
        BY ViewQty DEF L2Inv, Shows
      <4>3. DOMAIN D = PricesOn(book, s)
        BY DEF Depth
      <4>4. p \in DOMAIN t => t[p] = QtyAt(l2, s, p)
        BY DEF QtyAt
      <4> HIDE DEF t, D
      <4>5. p \in DOMAIN D => D[p] = LevelQty(book, s, p)
        BY <2>1, <4>3 DEF D
      <4> QED BY <2>1, <4>1, <4>2, <4>3, <4>4, <4>5
    <3>2. t = [p \in DOMAIN t |-> t[p]] /\ D = [p \in DOMAIN D |-> D[p]]
      BY DEF L2Inv, Shows, View, Tree, Depth
    <3> HIDE DEF t, D
    <3>3. DOMAIN t = DOMAIN D
      BY <3>1
    <3>4. t = D
      BY <3>1, <3>2, <3>3
    <3> QED BY <3>4 DEF t, D
  <2>4. ASSUME Idle PROVE DOMAIN l2.orders = DOMAIN book.refs
    <3>1. \A id : id \in DOMAIN l2.orders <=> id \in DOMAIN book.refs
      BY <2>4 DEF L2Inv, Shows, OpenOrder, Idle, IsResting
    <3> QED BY <3>1
  <2> QED BY <2>2, <2>3, <2>4 DEF L2Agrees
<1> QED BY <1>1, L2Invariance, ReplayIsEngine, TotalsInvariance, PTL
===============================================================================
