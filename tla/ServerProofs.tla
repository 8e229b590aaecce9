----------------------------- MODULE ServerProofs -----------------------------
(***************************************************************************)
(* Proofs about EngineServer.  The first is that the stream opens the      *)
(* calls in the order the matcher ran them, for any number of requests in  *)
(* flight, any number of resets and refused appends, and every matcher, as *)
(* long as the process lives.                                              *)
(*                                                                         *)
(* What opens a call can be told from the event alone.  The openers that   *)
(* are in the stream and those on the way to it stand in one line, in the  *)
(* order of their sequence numbers, behind all of which the call that runs *)
(* will join: the handler sends its opener before it gives up the thread,  *)
(* and nothing joins behind a DEL, which is why openers of the engine that *)
(* a reset replaced never meet those of the new one.                       *)
(*                                                                         *)
(* The second is that a restart is exact, for one request at a time and a  *)
(* process that dies any number of times.  What has been issued is the     *)
(* stream and what is still to land of one call; replayed, it is a replica *)
(* of the engine (ReplayProofs).  The process may die after any part of it *)
(* has landed, so the invariant says of every beginning that an engine can *)
(* start from it: the book that is rebuilt, with a submission that may     *)
(* have been broken off resting on it, is well formed, and neither ids nor *)
(* sequence numbers meet those to come.  It may be crossed, which is why   *)
(* the matcher's invariant does without an uncrossed book.                 *)
(*                                                                         *)
(* The third is that calls are logged whole, for any number of handlers    *)
(* that append side by side, resets and refused appends: what a handler of *)
(* a replaced engine still appends differs from every event of the present *)
(* one, in spite of equal numbers, because ids are never given out again.  *)
(***************************************************************************)
EXTENDS EngineServer, ReplayProofs

(* Only the first event of a call is one of these. *)
Opening(ev) ==
  \/ ev.kind \in {"OrderAccepted", "OrderRejected"}
  \/ ev.kind = "OrderCanceled" /\ ev.reason = "USER"

(* The command at position j of a wire w adds an opener, with this number, *)
(* when the handlers have t still to append.                               *)
Opens(w, t, j) == w[j] # "DEL" /\ Opening(t[w[j]][1])
NumberOf(w, t, j) == t[w[j]][1].seq

(* The number of the event that opens the running call, or the next one. *)
CallStart == IF order = NoOrder THEN seq + 1 ELSE events[1].seq

Commands == Handlers \cup {"DEL"}

ServerTypes ==
  /\ todo \in [Handlers -> Seq(Event)]
  /\ wire \in Seq(Commands)
  /\ stream \in Seq(Event)
  /\ crashes \in Nat
  /\ running \in Handlers \cup {NoHandler}
  /\ blocks \in Seq(Seq(Event))

(* One handler is in the matcher exactly while an order is being matched,  *)
(* and it has nothing left of an earlier call.                             *)
OneThread ==
  /\ running = NoHandler <=> order = NoOrder
  /\ running # NoHandler => ~resetting /\ todo[running] = << >>

OneEach(w) == \A i, j \in DOMAIN w : w[i] = w[j] => i = j

NoneBehindDel(w, t) ==
  \A i, j \in DOMAIN w : i < j /\ w[i] = "DEL" => ~Opens(w, t, j)

WireOK ==
  /\ \A i \in DOMAIN wire :
       IF wire[i] = "DEL" THEN resetting ELSE todo[wire[i]] # << >>
  /\ OneEach(wire)
  /\ NoneBehindDel(wire, todo)

CallShape ==
  /\ events # << >> => Opening(events[1])
  /\ \A i \in DOMAIN events : i # 1 => ~Opening(events[i])
  /\ order # NoOrder => events # << >> /\ events[1].seq <= seq

TodoShape ==
  \A h \in Handlers : \A i \in DOMAIN todo[h] :
    Opening(todo[h][i]) => i = 1 /\ \E k \in DOMAIN wire : wire[k] = h

BlocksOpen == \A b \in DOMAIN blocks : Opening(blocks[b][1])

(* The openers in a stream and those on the wire to it, in their order.   *)
Line(str, w, t) ==
  /\ \A i, j \in DOMAIN str :
       i < j /\ Opening(str[i]) /\ Opening(str[j]) => str[i].seq < str[j].seq
  /\ \A i \in DOMAIN str, j \in DOMAIN w :
       Opening(str[i]) /\ Opens(w, t, j) => str[i].seq < NumberOf(w, t, j)
  /\ \A i, j \in DOMAIN w :
       i < j /\ Opens(w, t, i) /\ Opens(w, t, j) => NumberOf(w, t, i) < NumberOf(w, t, j)

(* All of them are before number n. *)
Behind(str, w, t, n) ==
  /\ \A i \in DOMAIN str : Opening(str[i]) => str[i].seq \in 0..(n - 1)
  /\ \A j \in DOMAIN w : Opens(w, t, j) => NumberOf(w, t, j) \in 0..(n - 1)

SInv ==
  /\ IInv /\ ServerTypes /\ OneThread /\ WireOK /\ CallShape /\ TodoShape /\ BlocksOpen
  /\ Line(stream, wire, todo)
  /\ Behind(stream, wire, todo, CallStart)

-----------------------------------------------------------------------------
(* The wire and the stream as sequences. *)

LEMMA AppendFacts ==
  ASSUME NEW S, NEW s \in Seq(S), NEW e \in S
  PROVE  /\ Append(s, e) \in Seq(S)
         /\ Len(s) \in Nat /\ DOMAIN s = 1..Len(s)
         /\ DOMAIN Append(s, e) = 1..(Len(s) + 1)
         /\ Append(s, e)[Len(s) + 1] = e
         /\ \A i \in DOMAIN s : Append(s, e)[i] = s[i]
         /\ Append(s, e) # << >>
<1>1. Len(s) \in Nat /\ DOMAIN s = 1..Len(s) /\ Len(Append(s, e)) = Len(s) + 1
  OBVIOUS
<1>2. Append(s, e) \in Seq(S) /\ DOMAIN Append(s, e) = 1..(Len(s) + 1)
  BY <1>1
<1>3. Append(s, e)[Len(s) + 1] = e /\ \A i \in DOMAIN s : Append(s, e)[i] = s[i]
  BY <1>1
<1>4. Append(s, e) # << >>
  BY <1>1, EmptySeq
<1> QED BY <1>1, <1>2, <1>3, <1>4

LEMMA TailFacts ==
  ASSUME NEW S, NEW s \in Seq(S), s # << >>
  PROVE  /\ Tail(s) \in Seq(S)
         /\ Len(s) \in Nat /\ DOMAIN s = 1..Len(s) /\ 1 \in DOMAIN s
         /\ Head(s) = s[1]
         /\ DOMAIN Tail(s) = 1..(Len(s) - 1)
         /\ \A i \in DOMAIN Tail(s) : i + 1 \in DOMAIN s /\ Tail(s)[i] = s[i + 1]
<1>1. Len(s) \in Nat /\ DOMAIN s = 1..Len(s) /\ Len(s) # 0
  BY EmptySeq, LenProperties
<1>2. Head(s) = s[1]
  OBVIOUS
<1>3. Tail(s) \in Seq(S) /\ Len(Tail(s)) = Len(s) - 1
  BY HeadTailProperties
<1>4. DOMAIN Tail(s) = 1..(Len(s) - 1)
  BY <1>3, LenProperties
<1>5. \A i \in 1..(Len(s) - 1) : Tail(s)[i] = s[i + 1]
  BY <1>3, HeadTailProperties
<1> QED BY <1>1, <1>2, <1>3, <1>4, <1>5

(* The wire v with u left to append is w with t, less its first command.   *)
Shifted(v, u, w, t) ==
  \A j \in DOMAIN v :
    /\ j \in Nat /\ j + 1 \in DOMAIN w
    /\ v[j] = w[j + 1] /\ v[j] # w[1]
    /\ Opens(v, u, j) <=> Opens(w, t, j + 1)
    /\ Opens(v, u, j) => NumberOf(v, u, j) = NumberOf(w, t, j + 1)

(* Redis takes the first command; the others keep what they will do.       *)
LEMMA WireShift ==
  ASSUME NEW w \in Seq(Commands), w # << >>, OneEach(w),
         NEW t, NEW u, \A g \in Handlers : g # Head(w) => u[g] = t[g]
  PROVE  /\ Tail(w) \in Seq(Commands)
         /\ 1 \in DOMAIN w /\ Head(w) = w[1]
         /\ Shifted(Tail(w), u, w, t)
         /\ \A j \in DOMAIN w : j # 1 => j - 1 \in DOMAIN Tail(w) /\ Tail(w)[j - 1] = w[j]
         /\ OneEach(Tail(w))
         /\ NoneBehindDel(w, t) => NoneBehindDel(Tail(w), u)
<1>1. /\ Tail(w) \in Seq(Commands)
      /\ Len(w) \in Nat /\ DOMAIN w = 1..Len(w) /\ 1 \in DOMAIN w
      /\ Head(w) = w[1]
      /\ DOMAIN Tail(w) = 1..(Len(w) - 1)
      /\ \A i \in DOMAIN Tail(w) : i + 1 \in DOMAIN w /\ Tail(w)[i] = w[i + 1]
  BY TailFacts
<1> DEFINE v == Tail(w)
           hd == Head(w)
<1> HIDE DEF v, hd
<1>2. /\ DOMAIN v = 1..(Len(w) - 1) /\ hd = w[1]
      /\ \A i \in DOMAIN v : i + 1 \in DOMAIN w /\ v[i] = w[i + 1]
  BY <1>1 DEF v, hd
<1>3. \A i \in DOMAIN w : w[i] \in Commands
  BY ElementOfSeq, <1>1
<1>4. ASSUME NEW j \in DOMAIN v
      PROVE  /\ j \in Nat /\ j + 1 \in DOMAIN w
             /\ v[j] = w[j + 1] /\ v[j] # w[1]
             /\ Opens(v, u, j) <=> Opens(w, t, j + 1)
             /\ Opens(v, u, j) => NumberOf(v, u, j) = NumberOf(w, t, j + 1)
  <2>1. j \in Nat /\ j + 1 \in DOMAIN w /\ v[j] = w[j + 1] /\ j + 1 # 1
    BY <1>1, <1>2
  <2>2. v[j] # w[1]
    BY <1>1, <1>2, <2>1 DEF OneEach
  <2>3. v[j] # "DEL" => u[v[j]] = t[w[j + 1]]
    BY <1>2, <1>3, <2>1, <2>2 DEF hd, Commands
  <2> QED BY <2>1, <2>2, <2>3 DEF Opens, NumberOf
<1>5. \A j \in DOMAIN w : j # 1 => j - 1 \in DOMAIN v /\ v[j - 1] = w[j]
  <2> SUFFICES ASSUME NEW j \in DOMAIN w, j # 1
               PROVE  j - 1 \in DOMAIN v /\ v[j - 1] = w[j]
    OBVIOUS
  <2>1. j - 1 \in DOMAIN v /\ (j - 1) + 1 = j
    BY <1>1, <1>2
  <2> QED BY <1>2, <2>1
<1>6. OneEach(v)
  <2> SUFFICES ASSUME NEW i \in DOMAIN v, NEW j \in DOMAIN v, v[i] = v[j] PROVE i = j
    BY DEF OneEach
  <2>1. i + 1 = j + 1
    BY <1>4 DEF OneEach
  <2> QED BY <1>4, <2>1
<1>7. ASSUME NoneBehindDel(w, t) PROVE NoneBehindDel(v, u)
  <2> SUFFICES ASSUME NEW i \in DOMAIN v, NEW j \in DOMAIN v, i < j, v[i] = "DEL"
               PROVE  ~Opens(v, u, j)
    BY DEF NoneBehindDel
  <2>1. i + 1 < j + 1 /\ w[i + 1] = "DEL"
    BY <1>4
  <2> QED BY <1>4, <1>7, <2>1 DEF NoneBehindDel
<1>8. Shifted(v, u, w, t)
  BY <1>4 DEF Shifted
<1> QED BY <1>1, <1>5, <1>6, <1>7, <1>8 DEF v, hd

(* A command is sent behind those under way. *)
LEMMA WireGrow ==
  ASSUME NEW w \in Seq(Commands), NEW c \in Commands, \A i \in DOMAIN w : w[i] # c,
         OneEach(w)
  PROVE  /\ Append(w, c) \in Seq(Commands)
         /\ Len(w) \in Nat /\ DOMAIN w = 1..Len(w)
         /\ DOMAIN Append(w, c) = 1..(Len(w) + 1)
         /\ Append(w, c)[Len(w) + 1] = c
         /\ \A j \in DOMAIN w : Append(w, c)[j] = w[j] /\ w[j] \in Commands
         /\ OneEach(Append(w, c))
<1> DEFINE v == Append(w, c)
           n == Len(w)
<1>1. /\ v \in Seq(Commands) /\ n \in Nat /\ DOMAIN w = 1..n /\ DOMAIN v = 1..(n + 1)
      /\ v[n + 1] = c /\ \A i \in DOMAIN w : v[i] = w[i]
  BY AppendFacts
<1>2. \A i \in DOMAIN w : w[i] \in Commands
  BY ElementOfSeq, <1>1
<1> HIDE DEF v, n
<1>3. OneEach(v)
  <2> SUFFICES ASSUME NEW i \in DOMAIN v, NEW j \in DOMAIN v, v[i] = v[j] PROVE i = j
    BY DEF OneEach
  <2>1. (i \in DOMAIN w \/ i = n + 1) /\ (j \in DOMAIN w \/ j = n + 1)
    BY <1>1
  <2> QED BY <1>1, <2>1 DEF OneEach
<1> QED BY <1>1, <1>2, <1>3 DEF v, n

-----------------------------------------------------------------------------
(* The line. *)

(* The first command is refused. *)
LEMMA LinePopped ==
  ASSUME NEW w \in Seq(Commands), w # << >>, OneEach(w),
         NEW t, NEW u, \A g \in Handlers : g # Head(w) => u[g] = t[g],
         NEW str, NEW n, Line(str, w, t), Behind(str, w, t, n)
  PROVE  Line(str, Tail(w), u) /\ Behind(str, Tail(w), u, n)
<1> DEFINE v == Tail(w)
<1>1. Shifted(v, u, w, t)
  BY WireShift
<1> HIDE DEF v
<1>0. \A j \in DOMAIN v :
        /\ j \in Nat /\ j + 1 \in DOMAIN w
        /\ Opens(v, u, j) <=> Opens(w, t, j + 1)
        /\ Opens(v, u, j) => NumberOf(v, u, j) = NumberOf(w, t, j + 1)
  BY <1>1 DEF Shifted
<1>2. Behind(str, v, u, n)
  BY <1>0 DEF Behind
<1>3. ASSUME NEW i \in DOMAIN v, NEW j \in DOMAIN v, i < j, Opens(v, u, i), Opens(v, u, j)
      PROVE  NumberOf(v, u, i) < NumberOf(v, u, j)
  <2>1. i + 1 < j + 1
    BY <1>0, <1>3
  <2> QED BY <1>0, <1>3, <2>1 DEF Line
<1>4. Line(str, v, u)
  BY <1>0, <1>3 DEF Line
<1> QED BY <1>2, <1>4 DEF v

(* The first command is executed: its opener goes to the end of the stream. *)
LEMMA LineLanded ==
  ASSUME NEW w \in Seq(Commands), w # << >>, OneEach(w), Head(w) # "DEL",
         NEW t, NEW u, \A g \in Handlers : g # Head(w) => u[g] = t[g],
         NEW str \in Seq(Event), t[Head(w)][1] \in Event,
         NEW n, Line(str, w, t), Behind(str, w, t, n)
  PROVE  LET new == Append(str, t[Head(w)][1])
         IN Line(new, Tail(w), u) /\ Behind(new, Tail(w), u, n)
<1> DEFINE v   == Tail(w)
           ev  == t[Head(w)][1]
           new == Append(str, ev)
           m   == Len(str)
<1>1. /\ 1 \in DOMAIN w
      /\ Opening(ev) <=> Opens(w, t, 1)
      /\ ev.seq = NumberOf(w, t, 1)
  BY WireShift DEF Opens, NumberOf
<1>2. \A j \in DOMAIN v :
        /\ j \in Nat /\ j + 1 \in DOMAIN w /\ 1 < j + 1
        /\ Opens(v, u, j) <=> Opens(w, t, j + 1)
        /\ Opens(v, u, j) => NumberOf(v, u, j) = NumberOf(w, t, j + 1)
  <2>1. \A j \in DOMAIN v :
          /\ j \in Nat /\ j + 1 \in DOMAIN w
          /\ Opens(v, u, j) <=> Opens(w, t, j + 1)
          /\ Opens(v, u, j) => NumberOf(v, u, j) = NumberOf(w, t, j + 1)
    <3>1. Shifted(v, u, w, t)
      BY WireShift
    <3> HIDE DEF v
    <3> QED BY <3>1 DEF Shifted
  <2>2. \A j \in DOMAIN v : 1 < j + 1
    <3>1. DOMAIN v = 1..(Len(w) - 1) /\ Len(w) \in Nat
      BY TailFacts
    <3> HIDE DEF v
    <3> QED BY <3>1
  <2> QED BY <2>1, <2>2
<1>3. /\ m \in Nat /\ DOMAIN str = 1..m /\ DOMAIN new = 1..(m + 1)
      /\ new[m + 1] = ev /\ \A i \in DOMAIN str : new[i] = str[i]
  BY AppendFacts
<1>4. Line(str, v, u) /\ Behind(str, v, u, n)
  BY LinePopped
<1> HIDE DEF v, ev, new, m
<1>5. Behind(new, v, u, n)
  <2>1. Opening(ev) => ev.seq \in 0..(n - 1)
    BY <1>1 DEF Behind
  <2> QED BY <1>3, <1>4, <2>1 DEF Behind
<1>6. ASSUME NEW i \in DOMAIN new, NEW j \in DOMAIN new, i < j,
             Opening(new[i]), Opening(new[j])
      PROVE  new[i].seq < new[j].seq
  <2>1. CASE j = m + 1
    <3>1. i \in DOMAIN str
      BY <1>3, <1>6, <2>1
    <3> QED BY <1>1, <1>3, <1>6, <2>1, <3>1 DEF Line
  <2>2. CASE j # m + 1
    <3>1. i \in DOMAIN str /\ j \in DOMAIN str
      BY <1>3, <1>6, <2>2
    <3> QED BY <1>3, <1>6, <3>1 DEF Line
  <2> QED BY <2>1, <2>2
<1>7. ASSUME NEW i \in DOMAIN new, NEW j \in DOMAIN v, Opening(new[i]), Opens(v, u, j)
      PROVE  new[i].seq < NumberOf(v, u, j)
  <2>1. CASE i = m + 1
    BY <1>1, <1>2, <1>3, <1>7, <2>1 DEF Line
  <2>2. CASE i # m + 1
    <3>1. i \in DOMAIN str
      BY <1>3, <1>7, <2>2
    <3> QED BY <1>3, <1>4, <1>7, <3>1 DEF Line
  <2> QED BY <2>1, <2>2
<1>8. Line(new, v, u)
  BY <1>4, <1>6, <1>7 DEF Line
<1> QED BY <1>5, <1>8 DEF v, ev, new

(* A command is sent: if it adds an opener, that is the next in line.      *)
LEMMA LineGrown ==
  ASSUME NEW w \in Seq(Commands), NEW c \in Commands, \A i \in DOMAIN w : w[i] # c,
         OneEach(w),
         NEW t, NEW u, \A g \in Handlers : g # c => u[g] = t[g],
         NEW str, NEW n \in Nat, NEW m \in Nat, n <= m,
         c # "DEL" /\ Opening(u[c][1]) => u[c][1].seq = n /\ n < m,
         Line(str, w, t), Behind(str, w, t, n)
  PROVE  Line(str, Append(w, c), u) /\ Behind(str, Append(w, c), u, m)
<1> DEFINE v == Append(w, c)
           k == Len(w) + 1
<1>0. /\ Len(w) \in Nat /\ DOMAIN w = 1..Len(w) /\ DOMAIN v = 1..k /\ v[k] = c
      /\ \A j \in DOMAIN w : v[j] = w[j] /\ w[j] \in Commands
  BY WireGrow
<1> HIDE DEF v
<1>1. /\ Len(w) \in Nat /\ DOMAIN w = 1..Len(w) /\ DOMAIN v = 1..k /\ v[k] = c
      /\ \A j \in DOMAIN w :
           /\ Opens(v, u, j) <=> Opens(w, t, j)
           /\ Opens(v, u, j) => NumberOf(v, u, j) = NumberOf(w, t, j)
  <2>1. \A j \in DOMAIN w : w[j] # "DEL" => u[v[j]] = t[w[j]]
    BY <1>0 DEF Commands
  <2> QED BY <1>0, <2>1 DEF Opens, NumberOf
<1>2. Opens(v, u, k) => NumberOf(v, u, k) = n /\ n < m
  BY <1>1 DEF Opens, NumberOf
<1>3. \A j \in DOMAIN v : j \in DOMAIN w \/ j = k
  BY <1>1
<1>4. /\ \A i \in DOMAIN str : Opening(str[i]) => str[i].seq \in 0..(n - 1)
      /\ \A j \in DOMAIN w : Opens(w, t, j) => NumberOf(w, t, j) \in 0..(n - 1)
  BY DEF Behind
<1>5. Behind(str, v, u, m)
  BY <1>1, <1>2, <1>3, <1>4 DEF Behind
<1>6. ASSUME NEW i \in DOMAIN v, NEW j \in DOMAIN v, i < j, Opens(v, u, i), Opens(v, u, j)
      PROVE  NumberOf(v, u, i) < NumberOf(v, u, j)
  <2>1. i \in DOMAIN w
    BY <1>1, <1>6
  <2>2. CASE j \in DOMAIN w
    BY <1>1, <1>6, <2>1, <2>2 DEF Line
  <2>3. CASE j = k
    BY <1>1, <1>2, <1>4, <1>6, <2>1, <2>3
  <2> QED BY <1>3, <2>2, <2>3
<1>7. ASSUME NEW i \in DOMAIN str, NEW j \in DOMAIN v, Opening(str[i]), Opens(v, u, j)
      PROVE  str[i].seq < NumberOf(v, u, j)
  <2>1. CASE j \in DOMAIN w
    BY <1>1, <1>7, <2>1 DEF Line
  <2>2. CASE j = k
    BY <1>2, <1>4, <1>7, <2>2
  <2> QED BY <1>3, <2>1, <2>2
<1>8. Line(str, v, u)
  BY <1>6, <1>7 DEF Line
<1> QED BY <1>5, <1>8 DEF v

-----------------------------------------------------------------------------
(* The steps. *)

LEMMA BehindMore ==
  ASSUME NEW str, NEW w, NEW t, NEW n \in Nat, NEW m \in Nat, n <= m, Behind(str, w, t, n)
  PROVE  Behind(str, w, t, m)
<1>1. 0..(n - 1) \subseteq 0..(m - 1)
  OBVIOUS
<1> QED BY <1>1 DEF Behind

LEMMA EventSeqs == \A ev \in Event : ev.seq \in Nat
BY DEF Event

(* What the matcher has in hand after one of its steps. *)
LEMMA MatcherShape ==
  ASSUME IInv, IInv', CallShape,
         \/ \E cmd \in Command : Submit(cmd)
         \/ \E user \in Users, id \in 1..MaxOrders : Cancel(user, id)
         \/ MatchLoop
  PROVE  /\ CallShape'
         /\ seq' \in Nat /\ CallStart \in Nat /\ CallStart <= seq' + 1
         /\ events' # << >> => events'[1].seq = CallStart /\ CallStart <= seq'
         /\ events' = << >> => order' = NoOrder
<1>1. /\ seq \in Nat /\ seq' \in Nat /\ events \in Seq(Event) /\ events' \in Seq(Event)
  BY DEF IInv, TypeOK
<1>2. ASSUME NEW e, events' = << e >>, Opening(e), e.seq = seq + 1, seq' = seq + 1,
             order = NoOrder
      PROVE  /\ CallShape'
             /\ seq' \in Nat /\ CallStart \in Nat /\ CallStart <= seq' + 1
             /\ events' # << >> => events'[1].seq = CallStart /\ CallStart <= seq'
             /\ events' = << >> => order' = NoOrder
  <2>1. /\ events' # << >> /\ events'[1] = e /\ \A i \in DOMAIN events' : i = 1
    BY <1>2
  <2>2. CallStart = seq + 1
    BY <1>2 DEF CallStart
  <2> QED BY <1>1, <1>2, <2>1, <2>2 DEF CallShape
<1>3. ASSUME NEW cmd \in Command, Submit(cmd)
      PROVE  \E e : /\ events' = << e >> /\ Opening(e) /\ e.seq = seq + 1
                    /\ seq' = seq + 1 /\ order = NoOrder
  <2>1. CASE RejectInvalid(cmd)
    BY <2>1 DEF RejectInvalid, Rejected, Opening, Idle
  <2>2. CASE RejectDuplicate(cmd)
    BY <2>2 DEF RejectDuplicate, Rejected, Opening, Idle
  <2>3. CASE RejectPrecheck(cmd)
    BY <2>3 DEF RejectPrecheck, Rejected, Opening, Idle
  <2>4. CASE Accept(cmd)
    BY <2>4 DEF Accept, Accepted, Opening, Idle
  <2> QED BY <1>3, <2>1, <2>2, <2>3, <2>4 DEF Submit
<1>4. ASSUME NEW user, NEW id, CancelHit(user, id)
      PROVE  \E e : /\ events' = << e >> /\ Opening(e) /\ e.seq = seq + 1
                    /\ seq' = seq + 1 /\ order = NoOrder
  BY <1>4 DEF CancelHit, Canceled, Opening, Idle
<1>5. ASSUME NEW user, NEW id, CancelMiss(user, id)
      PROVE  /\ CallShape'
             /\ seq' \in Nat /\ CallStart \in Nat /\ CallStart <= seq' + 1
             /\ events' # << >> => events'[1].seq = CallStart /\ CallStart <= seq'
             /\ events' = << >> => order' = NoOrder
  <2>1. events' = << >> /\ order = NoOrder /\ order' = NoOrder /\ seq' = seq
    BY <1>5 DEF CancelMiss, Idle
  <2>2. CallStart = seq + 1
    BY <2>1 DEF CallStart
  <2> QED BY <1>1, <2>1, <2>2 DEF CallShape
<1>6. ASSUME MatchLoop
      PROVE  /\ CallShape'
             /\ seq' \in Nat /\ CallStart \in Nat /\ CallStart <= seq' + 1
             /\ events' # << >> => events'[1].seq = CallStart /\ CallStart <= seq'
             /\ events' = << >> => order' = NoOrder
  <2>1. /\ order # NoOrder /\ events # << >> /\ events[1].seq <= seq
        /\ CallStart = events[1].seq
    BY <1>6 DEF MatchLoop, CallShape, CallStart
  <2>2. events[1].seq \in Nat
    <3>1. events[1] \in Event
      BY <1>1, <2>1, TailFacts, ElementOfSeq
    <3> QED BY <3>1, EventSeqs
  <2>3. ASSUME NEW e \in Event, events' = Append(events, e), ~Opening(e), seq' = seq + 1
        PROVE  CallShape' /\ seq <= seq' /\ events' # << >> /\ events'[1] = events[1]
    <3>1. /\ Len(events) \in Nat /\ DOMAIN events = 1..Len(events)
          /\ DOMAIN events' = 1..(Len(events) + 1) /\ events'[Len(events) + 1] = e
          /\ \A i \in DOMAIN events : events'[i] = events[i]
          /\ events' # << >>
      BY <1>1, <2>3, AppendFacts
    <3>2. 1 \in DOMAIN events /\ events'[1] = events[1]
      BY <1>1, <2>1, <3>1, TailFacts
    <3>3. \A i \in DOMAIN events' : i # 1 => ~Opening(events'[i])
      <4> SUFFICES ASSUME NEW i \in DOMAIN events', i # 1 PROVE ~Opening(events'[i])
        OBVIOUS
      <4>1. CASE i \in DOMAIN events
        BY <3>1, <4>1 DEF CallShape
      <4>2. CASE i \notin DOMAIN events
        <5>1. i = Len(events) + 1
          BY <3>1, <4>2
        <5> QED BY <2>3, <3>1, <5>1
      <4> QED BY <4>1, <4>2
    <3>4. events'[1].seq <= seq' /\ seq <= seq'
      BY <1>1, <2>1, <2>2, <2>3, <3>2
    <3> QED BY <2>1, <3>1, <3>2, <3>3, <3>4 DEF CallShape
  <2>4. CASE Match
    <3>1. PICK p \in PricesOn(book, Opposite(order.side)) : \E n :
            /\ Matchable(p)
            /\ n = (IF order.remaining < TopAt(p).remaining
                    THEN order.remaining ELSE TopAt(p).remaining)
            /\ seq' = seq + 1
            /\ events' = Append(events, Trade(seq', order, TopAt(p), n))
      BY <2>4 DEF Match
    <3>2. PICK n :
            /\ Matchable(p)
            /\ n = (IF order.remaining < TopAt(p).remaining
                    THEN order.remaining ELSE TopAt(p).remaining)
            /\ seq' = seq + 1
            /\ events' = Append(events, Trade(seq', order, TopAt(p), n))
      BY <3>1
    <3>3. /\ order \in Order /\ order.remaining \in Nat
          /\ TopAt(p) \in Order /\ TopAt(p).remaining \in Nat
      BY <2>1, <3>2, TopAtType
    <3>4. n \in Nat
      BY <3>3, <3>2
    <3>5. Trade(seq', order, TopAt(p), n) \in Event
      BY <1>1, <3>3, <3>4, TradeType
    <3>6. ~Opening(Trade(seq', order, TopAt(p), n))
      BY DEF Trade, Opening
    <3> QED BY <1>1, <2>1, <2>2, <2>3, <3>2, <3>5, <3>6
  <2>5. ASSUME NEW reason \in CancelReasons \ {"USER"}, KillRemainder(reason)
        PROVE  CallShape' /\ seq <= seq' /\ events' # << >> /\ events'[1] = events[1]
    <3>1. order \in Order
      BY <2>1 DEF IInv, TypeOK
    <3>2. seq' = seq + 1 /\ events' = Append(events, Canceled(seq', order, reason))
      BY <2>5 DEF KillRemainder
    <3>3. Canceled(seq', order, reason) \in Event
      BY <1>1, <3>1, CanceledType
    <3>4. ~Opening(Canceled(seq', order, reason))
      BY DEF Canceled, Opening
    <3> QED BY <2>3, <3>2, <3>3, <3>4
  <2>6. CASE StopOnSelfTrade
    BY <1>1, <2>1, <2>2, <2>5, <2>6 DEF StopOnSelfTrade, CancelReasons
  <2>7. CASE CancelRemainder
    <3>1. (IF order.type = "IOC" THEN "IOC_REMAINDER" ELSE "MARKET_NO_LIQUIDITY")
            \in CancelReasons \ {"USER"}
      BY DEF CancelReasons
    <3> QED BY <1>1, <2>1, <2>2, <2>5, <2>7, <3>1 DEF CancelRemainder
  <2>8. CASE RestRemainder \/ Filled
    <3>1. UNCHANGED <<seq, events>> /\ order' = NoOrder
      BY <2>8 DEF RestRemainder, Filled
    <3> QED BY <1>1, <2>1, <2>2, <3>1 DEF CallShape
  <2> QED BY <1>6, <2>4, <2>6, <2>7, <2>8 DEF MatchLoop
<1> QED BY <1>2, <1>3, <1>4, <1>5, <1>6 DEF Cancel

(* A step of the matcher, and the opener on its way when it returns.       *)
LEMMA HandOverStep ==
  ASSUME SInv, IInv', NEW h \in Handlers, todo[h] = << >>, ~resetting,
         \/ \E cmd \in Command : Submit(cmd)
         \/ \E user \in Users, id \in 1..MaxOrders : Cancel(user, id)
         \/ MatchLoop,
         HandOver(h), UNCHANGED <<stream, resetting, crashes>>
  PROVE  SInv'
<1>1. /\ CallShape'
      /\ seq' \in Nat /\ CallStart \in Nat /\ CallStart <= seq' + 1
      /\ events' # << >> => events'[1].seq = CallStart /\ CallStart <= seq'
      /\ events' = << >> => order' = NoOrder
  BY MatcherShape DEF SInv
<1>2. /\ todo \in [Handlers -> Seq(Event)] /\ wire \in Seq(Commands)
      /\ blocks \in Seq(Seq(Event)) /\ events' \in Seq(Event)
      /\ h \in Commands /\ h # NoHandler /\ h # "DEL"
  BY HandlersAssumption DEF SInv, ServerTypes, IInv, TypeOK, Commands
<1>3. \A i \in DOMAIN wire : wire[i] # h /\ wire[i] # "DEL"
  BY <1>2 DEF SInv, WireOK
<1>4. CASE order' # NoOrder
  <2>1. running' = h /\ UNCHANGED <<todo, wire, blocks>>
    BY <1>4 DEF HandOver
  <2>2. CallStart' = CallStart
    BY <1>1, <1>4 DEF CallStart
  <2>3. ServerTypes' /\ OneThread' /\ WireOK' /\ TodoShape' /\ BlocksOpen'
    BY <1>2, <1>4, <2>1
    DEF SInv, ServerTypes, OneThread, WireOK, TodoShape, BlocksOpen
  <2>4. Line(stream, wire, todo)' /\ Behind(stream, wire, todo, CallStart)'
    BY <2>1, <2>2 DEF SInv
  <2> QED BY <1>1, <2>3, <2>4 DEF SInv
<1>5. CASE order' = NoOrder /\ events' = << >>
  <2>1. running' = NoHandler /\ UNCHANGED <<wire, blocks>> /\ todo' = [todo EXCEPT ![h] = << >>]
    BY <1>5 DEF HandOver
  <2>2. todo' = todo
    BY <1>2, <2>1
  <2>3. CallStart' = seq' + 1
    BY <1>5 DEF CallStart
  <2>4. ServerTypes' /\ OneThread' /\ WireOK' /\ TodoShape' /\ BlocksOpen'
    BY <1>2, <1>5, <2>1, <2>2
    DEF SInv, ServerTypes, OneThread, WireOK, TodoShape, BlocksOpen
  <2>5. Behind(stream, wire, todo, seq' + 1)
    <3>1. Behind(stream, wire, todo, CallStart)
      BY DEF SInv
    <3>2. seq' + 1 \in Nat /\ CallStart \in Nat /\ CallStart <= seq' + 1
      <4>1. seq' \in Nat /\ CallStart \in Nat /\ CallStart <= seq' + 1
        BY <1>1, Zenon
      <4>2. \A x \in Nat : x + 1 \in Nat
        OBVIOUS
      <4> QED BY <4>1, <4>2, Zenon
    <3> DEFINE n == CallStart
               m == seq' + 1
    <3>3. n \in Nat /\ m \in Nat /\ n <= m /\ Behind(stream, wire, todo, n)
      BY <3>1, <3>2
    <3> HIDE DEF n, m
    <3>4. Behind(stream, wire, todo, m)
      BY <3>3, BehindMore
    <3> QED BY <3>4 DEF m
  <2>6. Line(stream, wire, todo)' /\ Behind(stream, wire, todo, CallStart)'
    BY <2>1, <2>2, <2>3, <2>5 DEF SInv
  <2> QED BY <1>1, <2>4, <2>6 DEF SInv
<1>6. CASE order' = NoOrder /\ events' # << >>
  <2>1. /\ running' = NoHandler /\ wire' = Append(wire, h)
        /\ todo' = [todo EXCEPT ![h] = events'] /\ blocks' = Append(blocks, events')
    BY <1>6 DEF HandOver
  <2>2. /\ todo' \in [Handlers -> Seq(Event)] /\ todo'[h] = events'
        /\ \A g \in Handlers : g # h => todo'[g] = todo[g]
    BY <1>2, <2>1
  <2>3. CallStart' = seq' + 1
    BY <1>6 DEF CallStart
  <2>4. OneEach(wire)
    BY DEF SInv, WireOK
  <2>5. /\ wire' \in Seq(Commands)
        /\ Len(wire) \in Nat /\ DOMAIN wire = 1..Len(wire)
        /\ DOMAIN wire' = 1..(Len(wire) + 1) /\ wire'[Len(wire) + 1] = h
        /\ \A j \in DOMAIN wire : wire'[j] = wire[j]
        /\ OneEach(wire')
    BY <1>2, <1>3, <2>1, <2>4, WireGrow
  <2>6. /\ blocks' \in Seq(Seq(Event)) /\ Len(blocks) \in Nat
        /\ DOMAIN blocks = 1..Len(blocks) /\ DOMAIN blocks' = 1..(Len(blocks) + 1)
        /\ blocks'[Len(blocks) + 1] = events'
        /\ \A b \in DOMAIN blocks : blocks'[b] = blocks[b]
    <3> DEFINE S == Seq(Event)
               e == events'
    <3>1. blocks \in Seq(S) /\ e \in S /\ blocks' = Append(blocks, e)
      BY <1>2, <2>1
    <3> HIDE DEF S, e
    <3>2. /\ Append(blocks, e) \in Seq(S) /\ Len(blocks) \in Nat
          /\ DOMAIN blocks = 1..Len(blocks)
          /\ DOMAIN Append(blocks, e) = 1..(Len(blocks) + 1)
          /\ Append(blocks, e)[Len(blocks) + 1] = e
          /\ \A b \in DOMAIN blocks : Append(blocks, e)[b] = blocks[b]
      BY <3>1, AppendFacts
    <3> QED BY <3>1, <3>2 DEF S, e
  <2>7. Line(stream, wire', todo') /\ Behind(stream, wire', todo', seq' + 1)
    <3>1. Line(stream, wire, todo) /\ Behind(stream, wire, todo, CallStart)
      BY DEF SInv
    <3>2. todo'[h][1].seq = CallStart /\ CallStart < seq' + 1 /\ seq' + 1 \in Nat
      <4>1. /\ seq' \in Nat /\ CallStart \in Nat /\ CallStart <= seq'
            /\ events'[1].seq = CallStart
        BY <1>1, <1>6, Zenon
      <4>2. \A x, y \in Nat : x <= y => x < y + 1 /\ y + 1 \in Nat
        OBVIOUS
      <4> QED BY <2>2, <4>1, <4>2, Zenon
    <3> HIDE DEF CallStart
    <3> QED BY <1>1, <1>2, <1>3, <2>1, <2>2, <2>4, <3>1, <3>2, LineGrown
  <2>8. ServerTypes' /\ OneThread'
    BY <1>2, <1>6, <2>1, <2>2, <2>5, <2>6 DEF SInv, ServerTypes, OneThread
  <2>9. WireOK'
    <3>1. \A j \in DOMAIN wire' : wire'[j] # "DEL" /\ todo'[wire'[j]] # << >>
      <4> SUFFICES ASSUME NEW j \in DOMAIN wire'
                   PROVE  wire'[j] # "DEL" /\ todo'[wire'[j]] # << >>
        OBVIOUS
      <4>1. CASE j \in DOMAIN wire
        <5>1. wire[j] \in Handlers /\ wire[j] # h /\ todo[wire[j]] # << >>
          BY <1>2, <1>3, <4>1, ElementOfSeq, <2>5 DEF Commands, SInv, WireOK
        <5> QED BY <1>3, <2>2, <2>5, <4>1, <5>1
      <4>2. CASE j \notin DOMAIN wire
        <5>1. j = Len(wire) + 1
          BY <2>5, <4>2
        <5> QED BY <1>2, <1>6, <2>2, <2>5, <5>1
      <4> QED BY <4>1, <4>2
    <3> QED BY <2>5, <3>1 DEF WireOK, NoneBehindDel
  <2>10. TodoShape'
    <3> SUFFICES ASSUME NEW g \in Handlers, NEW i \in DOMAIN todo'[g], Opening(todo'[g][i])
                 PROVE  i = 1 /\ \E k \in DOMAIN wire' : wire'[k] = g
      BY DEF TodoShape
    <3>1. CASE g = h
      BY <1>1, <2>2, <2>5, <3>1 DEF CallShape
    <3>2. CASE g # h
      <4>1. i = 1 /\ \E k \in DOMAIN wire : wire[k] = g
        BY <2>2, <3>2 DEF SInv, TodoShape
      <4> QED BY <2>5, <4>1
    <3> QED BY <3>1, <3>2
  <2>11. BlocksOpen'
    <3>1. Opening(events'[1])
      BY <1>1, <1>6, Zenon DEF CallShape
    <3>2. \A b \in DOMAIN blocks : Opening(blocks[b][1])
      BY DEF SInv, BlocksOpen
    <3>3. \A b \in DOMAIN blocks' : b \in DOMAIN blocks \/ b = Len(blocks) + 1
      BY <2>6
    <3>4. \A b \in DOMAIN blocks' : Opening(blocks'[b][1])
      BY <2>6, <3>1, <3>2, <3>3, Zenon
    <3> QED BY <3>4 DEF BlocksOpen
  <2>12. Line(stream, wire, todo)' /\ Behind(stream, wire, todo, CallStart)'
    BY <2>3, <2>7
  <2> QED BY <1>1, <2>8, <2>9, <2>10, <2>11, <2>12 DEF SInv
<1> QED BY <1>4, <1>5, <1>6

LEMMA RequestStep ==
  ASSUME SInv, NEW h \in Handlers, Request(h)
  PROVE  SInv'
<1>1. IInv'
  <2>1. \/ \E cmd \in Command : Submit(cmd)
        \/ \E user \in Users, id \in 1..MaxOrders : Cancel(user, id)
    BY DEF Request
  <2> QED BY <2>1, SubmitStep, CancelStep DEF SInv
<1> QED BY <1>1, HandOverStep DEF Request

LEMMA ComputeStep ==
  ASSUME SInv, Compute
  PROVE  SInv'
<1>1. IInv'
  BY MatchLoopStep DEF Compute, SInv
<1>2. running \in Handlers /\ ~resetting /\ todo[running] = << >>
  BY DEF Compute, SInv, ServerTypes, OneThread
<1> QED BY <1>1, <1>2, HandOverStep DEF Compute

(* What leaves the matcher alone leaves its share of the invariant.        *)
LEMMA MatcherAlone ==
  ASSUME SInv, UNCHANGED vars
  PROVE  IInv' /\ CallShape' /\ CallStart' = CallStart
BY DEF SInv, vars, IInv, TypeOK, IdsOld, CallShape, CallStart

(* Facts every step that takes the first command from the wire begins with. *)
LEMMA FirstTaken ==
  ASSUME SInv, wire # << >>, wire' = Tail(wire),
         \A g \in Handlers : g # Head(wire) => todo'[g] = todo[g]
  PROVE  /\ wire' \in Seq(Commands) /\ 1 \in DOMAIN wire /\ Head(wire) = wire[1]
         /\ wire[1] \in Commands
         /\ \A j \in DOMAIN wire' : /\ j + 1 \in DOMAIN wire
                                   /\ wire'[j] = wire[j + 1] /\ wire'[j] # Head(wire)
                                   /\ wire'[j] \in Commands
         /\ \A j \in DOMAIN wire : wire[j] # Head(wire) =>
              \E k \in DOMAIN wire' : wire'[k] = wire[j]
         /\ OneEach(wire') /\ NoneBehindDel(wire', todo')
         /\ Line(stream, wire', todo') /\ Behind(stream, wire', todo', CallStart)
<1>1. /\ wire \in Seq(Commands) /\ OneEach(wire) /\ NoneBehindDel(wire, todo)
      /\ Line(stream, wire, todo) /\ Behind(stream, wire, todo, CallStart)
  BY DEF SInv, ServerTypes, WireOK
<1>2. /\ Tail(wire) \in Seq(Commands) /\ 1 \in DOMAIN wire /\ Head(wire) = wire[1]
      /\ Shifted(Tail(wire), todo', wire, todo)
      /\ \A j \in DOMAIN wire : j # 1 =>
           j - 1 \in DOMAIN Tail(wire) /\ Tail(wire)[j - 1] = wire[j]
      /\ OneEach(Tail(wire)) /\ NoneBehindDel(Tail(wire), todo')
  BY <1>1, WireShift
<1>3. Line(stream, Tail(wire), todo') /\ Behind(stream, Tail(wire), todo', CallStart)
  BY <1>1, LinePopped
<1>4. \A j \in DOMAIN wire : wire[j] \in Commands
  BY <1>1, ElementOfSeq
<1>5. \A j \in DOMAIN wire' : /\ j + 1 \in DOMAIN wire
                            /\ wire'[j] = wire[j + 1] /\ wire'[j] # Head(wire)
                            /\ wire'[j] \in Commands
  BY <1>2, <1>4 DEF Shifted
<1>6. \A j \in DOMAIN wire : wire[j] # Head(wire) =>
        \E k \in DOMAIN wire' : wire'[k] = wire[j]
  <2> SUFFICES ASSUME NEW j \in DOMAIN wire, wire[j] # Head(wire)
               PROVE  \E k \in DOMAIN wire' : wire'[k] = wire[j]
    OBVIOUS
  <2>1. j # 1
    BY <1>2
  <2> QED BY <1>2, <2>1
<1> QED BY <1>2, <1>3, <1>4, <1>5, <1>6

LEMMA LandStep ==
  ASSUME SInv, Land
  PROVE  SInv'
<1> DEFINE h == Head(wire)
<1>1. /\ wire # << >> /\ h # "DEL" /\ wire' = Tail(wire)
      /\ stream' = Append(stream, Head(todo[h]))
      /\ todo' = [todo EXCEPT ![h] = Tail(@)]
      /\ UNCHANGED vars /\ UNCHANGED <<running, resetting, crashes, blocks>>
  BY DEF Land
<1>2. /\ todo \in [Handlers -> Seq(Event)] /\ stream \in Seq(Event) /\ wire \in Seq(Commands)
  BY DEF SInv, ServerTypes
<1>3. \A g \in Handlers : g # h => todo'[g] = todo[g]
  BY <1>1, <1>2
<1>4. /\ wire' \in Seq(Commands) /\ 1 \in DOMAIN wire /\ h = wire[1] /\ h \in Commands
      /\ \A j \in DOMAIN wire' : /\ j + 1 \in DOMAIN wire
                                /\ wire'[j] = wire[j + 1] /\ wire'[j] # h
                                /\ wire'[j] \in Commands
      /\ \A j \in DOMAIN wire : wire[j] # h => \E k \in DOMAIN wire' : wire'[k] = wire[j]
      /\ OneEach(wire') /\ NoneBehindDel(wire', todo')
  BY <1>1, <1>3, FirstTaken
<1>5. h \in Handlers /\ todo[h] \in Seq(Event) /\ todo[h] # << >>
  BY <1>1, <1>2, <1>4 DEF Commands, SInv, WireOK
<1> HIDE DEF h
<1>6. /\ Head(todo[h]) = todo[h][1] /\ todo[h][1] \in Event
      /\ Tail(todo[h]) \in Seq(Event)
      /\ \A i \in DOMAIN Tail(todo[h]) :
           i \in Nat /\ i + 1 \in DOMAIN todo[h] /\ i + 1 # 1 /\ Tail(todo[h])[i] = todo[h][i + 1]
  <2> DEFINE s == todo[h]
  <2>1. s \in Seq(Event) /\ s # << >>
    BY <1>5
  <2> HIDE DEF s
  <2>2. /\ Tail(s) \in Seq(Event) /\ Head(s) = s[1] /\ 1 \in DOMAIN s
        /\ Len(s) \in Nat /\ DOMAIN Tail(s) = 1..(Len(s) - 1)
        /\ \A i \in DOMAIN Tail(s) : i + 1 \in DOMAIN s /\ Tail(s)[i] = s[i + 1]
    BY <2>1, TailFacts
  <2>3. s[1] \in Event
    BY <2>1, <2>2, ElementOfSeq
  <2>4. \A i \in DOMAIN Tail(s) : i \in Nat /\ i + 1 # 1
    BY <2>2
  <2> QED BY <2>2, <2>3, <2>4 DEF s
<1>7. todo'[h] = Tail(todo[h]) /\ todo' \in [Handlers -> Seq(Event)]
  BY <1>1, <1>2, <1>5, <1>6
<1>8. Line(stream', wire', todo') /\ Behind(stream', wire', todo', CallStart)
  <2>1. OneEach(wire) /\ Line(stream, wire, todo) /\ Behind(stream, wire, todo, CallStart)
    BY DEF SInv, WireOK
  <2> DEFINE n == CallStart
  <2> HIDE DEF n
  <2>2. /\ Line(Append(stream, todo[Head(wire)][1]), Tail(wire), todo')
        /\ Behind(Append(stream, todo[Head(wire)][1]), Tail(wire), todo', n)
    BY <1>1, <1>2, <1>3, <1>6, <2>1, LineLanded DEF h, n
  <2> QED BY <1>1, <1>6, <2>2 DEF h, n
<1>9. IInv' /\ CallShape' /\ CallStart' = CallStart
  BY <1>1, MatcherAlone
<1>10. ServerTypes'
  <2> DEFINE e == todo[h][1]
  <2>1. e \in Event /\ stream' = Append(stream, e)
    BY <1>1, <1>6 DEF h
  <2> HIDE DEF e
  <2>2. stream' \in Seq(Event)
    BY <1>2, <2>1, AppendFacts
  <2> QED BY <1>1, <1>4, <1>7, <2>2 DEF SInv, ServerTypes
<1>11. OneThread'
  <2>1. order' = order /\ running' = running /\ resetting' = resetting
    BY <1>1 DEF vars
  <2>2. ASSUME running # NoHandler
        PROVE  ~resetting /\ todo[running] = << >> /\ running \in Handlers
    BY <2>2 DEF SInv, ServerTypes, OneThread
  <2>3. ASSUME running # NoHandler PROVE todo'[running] = << >>
    <3>1. running # h
      BY <1>5, <2>2, <2>3
    <3> QED BY <1>3, <2>2, <2>3, <3>1
  <2> QED BY <2>1, <2>2, <2>3 DEF SInv, OneThread
<1>12. WireOK'
  <2> SUFFICES ASSUME NEW j \in DOMAIN wire'
               PROVE  IF wire'[j] = "DEL" THEN resetting' ELSE todo'[wire'[j]] # << >>
    BY <1>4 DEF WireOK
  <2>1. /\ j + 1 \in DOMAIN wire /\ wire'[j] = wire[j + 1] /\ wire'[j] # h
        /\ wire'[j] \in Commands
    BY <1>4
  <2>2. IF wire[j + 1] = "DEL" THEN resetting ELSE todo[wire[j + 1]] # << >>
    BY <2>1 DEF SInv, WireOK
  <2>3. CASE wire'[j] = "DEL"
    BY <1>1, <2>1, <2>2, <2>3
  <2>4. CASE wire'[j] # "DEL"
    <3>1. wire'[j] \in Handlers
      BY <2>1, <2>4 DEF Commands
    <3> QED BY <1>3, <2>1, <2>2, <2>4, <3>1
  <2> QED BY <2>3, <2>4
<1>13. TodoShape'
  <2> SUFFICES ASSUME NEW g \in Handlers, NEW i \in DOMAIN todo'[g], Opening(todo'[g][i])
               PROVE  i = 1 /\ \E k \in DOMAIN wire' : wire'[k] = g
    BY DEF TodoShape
  <2>1. CASE g = h
    <3>1. i \in DOMAIN Tail(todo[h]) /\ Opening(Tail(todo[h])[i])
      BY <1>7, <2>1
    <3>2. i + 1 \in DOMAIN todo[h] /\ i + 1 # 1 /\ Opening(todo[h][i + 1])
      BY <1>6, <3>1
    <3> QED BY <1>5, <3>2 DEF SInv, TodoShape
  <2>2. CASE g # h
    <3>1. i = 1 /\ \E k \in DOMAIN wire : wire[k] = g
      BY <1>3, <2>2 DEF SInv, TodoShape
    <3> QED BY <1>4, <2>2, <3>1
  <2> QED BY <2>1, <2>2
<1>14. BlocksOpen'
  BY <1>1 DEF SInv, BlocksOpen
<1> QED BY <1>8, <1>9, <1>10, <1>11, <1>12, <1>13, <1>14 DEF SInv

(* A command that opens no call is sent. *)
LEMMA SentStep ==
  ASSUME SInv, NEW c \in Commands, \A i \in DOMAIN wire : wire[i] # c,
         wire' = Append(wire, c),
         IF c = "DEL" THEN resetting' = TRUE /\ running = NoHandler
         ELSE resetting' = resetting /\ todo[c] # << >> /\ ~Opening(todo[c][1]),
         UNCHANGED vars, UNCHANGED <<running, todo, stream, crashes, blocks>>
  PROVE  SInv'
<1>1. /\ wire \in Seq(Commands) /\ OneEach(wire) /\ NoneBehindDel(wire, todo)
      /\ Line(stream, wire, todo) /\ Behind(stream, wire, todo, CallStart)
      /\ \A i \in DOMAIN wire : IF wire[i] = "DEL" THEN resetting ELSE todo[wire[i]] # << >>
  BY DEF SInv, ServerTypes, WireOK
<1>2. /\ wire' \in Seq(Commands)
      /\ Len(wire) \in Nat /\ DOMAIN wire = 1..Len(wire)
      /\ DOMAIN wire' = 1..(Len(wire) + 1) /\ wire'[Len(wire) + 1] = c
      /\ \A j \in DOMAIN wire : wire'[j] = wire[j]
      /\ OneEach(wire')
  BY <1>1, WireGrow
<1>3. \A j \in DOMAIN wire' : j \in DOMAIN wire \/ (j = Len(wire) + 1 /\ wire'[j] = c)
  BY <1>2
<1>4. todo' = todo /\ stream' = stream
  OBVIOUS
<1>5. IInv' /\ CallShape' /\ CallStart' = CallStart
  BY MatcherAlone
<1>6. Line(stream', wire', todo') /\ Behind(stream', wire', todo', CallStart')
  <2> DEFINE n == CallStart
  <2>1. n \in Nat
    <3>1. order # NoOrder => events[1].seq \in Nat
      <4> SUFFICES ASSUME order # NoOrder PROVE events[1].seq \in Nat
        OBVIOUS
      <4>1. events \in Seq(Event) /\ events # << >>
        BY DEF SInv, IInv, TypeOK, CallShape
      <4>2. events[1] \in Event
        BY <4>1, TailFacts, ElementOfSeq
      <4> QED BY <4>2, EventSeqs
    <3> QED BY <3>1 DEF SInv, IInv, TypeOK, CallStart
  <2>2. c # "DEL" => ~Opening(todo[c][1])
    OBVIOUS
  <2> HIDE DEF n
  <2>3. Line(stream, wire, todo) /\ Behind(stream, wire, todo, n)
    BY <1>1 DEF n
  <2>4. Line(stream, Append(wire, c), todo) /\ Behind(stream, Append(wire, c), todo, n)
    BY <1>1, <2>1, <2>2, <2>3, LineGrown
  <2> QED BY <1>4, <1>5, <2>4 DEF n
<1>7. NoneBehindDel(wire', todo')
  <2> SUFFICES ASSUME NEW i \in DOMAIN wire', NEW j \in DOMAIN wire', i < j, wire'[i] = "DEL"
               PROVE  ~Opens(wire', todo', j)
    BY DEF NoneBehindDel
  <2>1. i \in DOMAIN wire
    BY <1>2
  <2>2. CASE j \in DOMAIN wire
    BY <1>1, <1>2, <1>4, <2>1, <2>2 DEF NoneBehindDel, Opens
  <2>3. CASE j \notin DOMAIN wire
    BY <1>3, <1>4, <2>3 DEF Opens
  <2> QED BY <2>2, <2>3
<1>8. WireOK'
  <2> SUFFICES ASSUME NEW j \in DOMAIN wire'
               PROVE  IF wire'[j] = "DEL" THEN resetting' ELSE todo'[wire'[j]] # << >>
    BY <1>2, <1>7 DEF WireOK
  <2>1. CASE j \in DOMAIN wire
    BY <1>1, <1>2, <1>4, <2>1
  <2>2. CASE j \notin DOMAIN wire
    BY <1>3, <1>4, <2>2
  <2> QED BY <2>1, <2>2
<1>9. ServerTypes' /\ BlocksOpen'
  BY <1>2 DEF SInv, ServerTypes, BlocksOpen
<1>10. OneThread'
  BY DEF SInv, OneThread, vars
<1>11. TodoShape'
  <2> SUFFICES ASSUME NEW g \in Handlers, NEW i \in DOMAIN todo[g], Opening(todo[g][i])
               PROVE  i = 1 /\ \E k \in DOMAIN wire' : wire'[k] = g
    BY <1>4 DEF TodoShape
  <2>1. i = 1 /\ \E k \in DOMAIN wire : wire[k] = g
    BY DEF SInv, TodoShape
  <2> QED BY <1>2, <2>1
<1> QED BY <1>5, <1>6, <1>8, <1>9, <1>10, <1>11 DEF SInv

LEMMA OnWireMeans == \A c : OnWire(c) <=> \E i \in DOMAIN wire : wire[i] = c
BY DEF OnWire, ToSet

LEMMA SendNextStep ==
  ASSUME SInv, NEW h \in Handlers, SendNext(h)
  PROVE  SInv'
<1>1. /\ todo[h] # << >> /\ ~OnWire(h) /\ wire' = Append(wire, h)
      /\ UNCHANGED vars /\ UNCHANGED <<running, todo, stream, resetting, crashes, blocks>>
  BY DEF SendNext
<1>2. \A i \in DOMAIN wire : wire[i] # h
  BY <1>1, OnWireMeans
<1>3. h \in Commands /\ h # "DEL"
  BY HandlersAssumption DEF Commands
<1>4. ~Opening(todo[h][1])
  <2>1. todo[h] \in Seq(Event)
    BY DEF SInv, ServerTypes
  <2>2. 1 \in DOMAIN todo[h]
    BY <1>1, <2>1, TailFacts
  <2> QED BY <1>2, <2>2 DEF SInv, TodoShape
<1> QED BY <1>1, <1>2, <1>3, <1>4, SentStep

LEMMA StartResetStep ==
  ASSUME SInv, StartReset
  PROVE  SInv'
<1>1. /\ ~resetting /\ running = NoHandler /\ resetting' = TRUE
      /\ wire' = Append(wire, "DEL")
      /\ UNCHANGED vars /\ UNCHANGED <<running, todo, stream, crashes, blocks>>
  BY DEF StartReset
<1>2. \A i \in DOMAIN wire : wire[i] # "DEL"
  BY <1>1 DEF SInv, WireOK
<1>3. "DEL" \in Commands
  BY DEF Commands
<1> QED BY <1>1, <1>2, <1>3, SentStep

(* A refused append takes its handler out of the line.                     *)
LEMMA AppendFailsStep ==
  ASSUME SInv, NEW h \in Handlers, AppendFails(h)
  PROVE  SInv'
<1>1. /\ todo' = [todo EXCEPT ![h] = << >>]
      /\ IF OnWire(h) THEN wire # << >> /\ Head(wire) = h /\ wire' = Tail(wire)
         ELSE wire' = wire
      /\ running = NoHandler
      /\ UNCHANGED vars /\ UNCHANGED <<running, stream, resetting, crashes, blocks>>
  <2>1. OnWire(h) => wire # << >>
    <3> SUFFICES ASSUME wire = << >>, OnWire(h) PROVE FALSE
      OBVIOUS
    <3>1. DOMAIN wire = {}
      BY EmptySeq
    <3> QED BY <3>1, OnWireMeans
  <2> QED BY <2>1 DEF AppendFails
<1>2. /\ todo \in [Handlers -> Seq(Event)] /\ wire \in Seq(Commands) /\ << >> \in Seq(Event)
  BY EmptySeq DEF SInv, ServerTypes
<1>3. /\ todo' \in [Handlers -> Seq(Event)] /\ todo'[h] = << >>
      /\ \A g \in Handlers : g # h => todo'[g] = todo[g]
  BY <1>1, <1>2
<1>4. IInv' /\ CallShape' /\ CallStart' = CallStart
  BY <1>1, MatcherAlone
<1>5. \A j \in DOMAIN wire : wire[j] \in Commands
  BY <1>2, ElementOfSeq
<1>6. /\ wire' \in Seq(Commands)
      /\ \A j \in DOMAIN wire' :
           wire'[j] # h /\ wire'[j] \in Commands /\ \E k \in DOMAIN wire : wire'[j] = wire[k]
      /\ \A j \in DOMAIN wire : wire[j] # h => \E k \in DOMAIN wire' : wire'[k] = wire[j]
      /\ OneEach(wire') /\ NoneBehindDel(wire', todo')
      /\ Line(stream, wire', todo') /\ Behind(stream, wire', todo', CallStart)
  <2>1. CASE OnWire(h)
    <3>1. wire # << >> /\ Head(wire) = h /\ wire' = Tail(wire)
      BY <1>1, <2>1
    <3>2. \A g \in Handlers : g # Head(wire) => todo'[g] = todo[g]
      BY <1>3, <3>1
    <3> QED BY <3>1, <3>2, FirstTaken
  <2>2. CASE ~OnWire(h)
    <3>1. wire' = wire /\ \A j \in DOMAIN wire : wire[j] # h
      BY <1>1, <2>2, OnWireMeans
    <3>2. \A j \in DOMAIN wire : wire[j] # "DEL" => todo'[wire[j]] = todo[wire[j]]
      BY <1>3, <1>5, <3>1 DEF Commands
    <3>3. \A j \in DOMAIN wire :
            /\ Opens(wire', todo', j) <=> Opens(wire, todo, j)
            /\ Opens(wire', todo', j) => NumberOf(wire', todo', j) = NumberOf(wire, todo, j)
      BY <3>1, <3>2 DEF Opens, NumberOf
    <3>4. /\ OneEach(wire) /\ NoneBehindDel(wire, todo)
          /\ Line(stream, wire, todo) /\ Behind(stream, wire, todo, CallStart)
      BY DEF SInv, WireOK
    <3>5. NoneBehindDel(wire', todo')
      BY <3>1, <3>3, <3>4 DEF NoneBehindDel
    <3>6. Line(stream, wire', todo')
      BY <3>1, <3>3, <3>4 DEF Line
    <3>7. Behind(stream, wire', todo', CallStart)
      BY <3>1, <3>3, <3>4 DEF Behind
    <3> QED BY <1>2, <1>5, <3>1, <3>4, <3>5, <3>6, <3>7
  <2> QED BY <2>1, <2>2
<1>7. ServerTypes' /\ BlocksOpen'
  BY <1>1, <1>3, <1>6 DEF SInv, ServerTypes, BlocksOpen
<1>8. OneThread'
  BY <1>1 DEF SInv, OneThread, vars
<1>9. WireOK'
  <2> SUFFICES ASSUME NEW j \in DOMAIN wire'
               PROVE  IF wire'[j] = "DEL" THEN resetting' ELSE todo'[wire'[j]] # << >>
    BY <1>6 DEF WireOK
  <2>1. PICK k \in DOMAIN wire : wire'[j] = wire[k]
    BY <1>6
  <2>2. IF wire[k] = "DEL" THEN resetting ELSE todo[wire[k]] # << >>
    BY DEF SInv, WireOK
  <2>3. wire'[j] # "DEL" => wire'[j] \in Handlers /\ wire'[j] # h
    BY <1>6 DEF Commands
  <2> QED BY <1>1, <1>3, <2>1, <2>2, <2>3
<1>10. TodoShape'
  <2> SUFFICES ASSUME NEW g \in Handlers, NEW i \in DOMAIN todo'[g], Opening(todo'[g][i])
               PROVE  i = 1 /\ \E k \in DOMAIN wire' : wire'[k] = g
    BY DEF TodoShape
  <2>1. g # h
    <3> SUFFICES ASSUME g = h PROVE FALSE
      OBVIOUS
    <3>1. DOMAIN todo'[g] = {}
      BY <1>3, EmptySeq
    <3> QED BY <3>1
  <2>2. i = 1 /\ \E k \in DOMAIN wire : wire[k] = g
    BY <1>3, <2>1 DEF SInv, TodoShape
  <2> QED BY <1>6, <2>1, <2>2
<1> QED BY <1>1, <1>4, <1>6, <1>7, <1>8, <1>9, <1>10 DEF SInv

(* The reset starts a new line: nothing behind the DEL opens a call.       *)
LEMMA FinishResetStep ==
  ASSUME SInv, FinishReset
  PROVE  SInv'
<1>1. /\ wire # << >> /\ Head(wire) = "DEL" /\ running = NoHandler /\ wire' = Tail(wire)
      /\ stream' = << >> /\ blocks' = << >>
      /\ book' = EmptyBook /\ seq' = 0 /\ seen' = {} /\ events' = << >>
      /\ UNCHANGED <<nextId, order, running, todo, crashes>>
  BY DEF FinishReset
<1>2. order = NoOrder /\ order' = NoOrder
  BY <1>1 DEF SInv, OneThread
<1>3. << >> \in Seq(Event) /\ << >> \in Seq(Seq(Event)) /\ DOMAIN << >> = {}
  BY EmptySeq
<1>4. IInv'
  <2>1. /\ BookWellFormed(EmptyBook)
        /\ \A s \in Sides : PricesOn(EmptyBook, s) = {}
        /\ \A id : ~IsResting(EmptyBook, id)
    BY EmptyBookWellFormed
  <2>2. BookUncrossed'
    BY <1>1, <2>1 DEF BookUncrossed, Uncrossed, Sides
  <2>3. TypeOK'
    BY <1>1, <1>2, <1>3, <2>1 DEF SInv, IInv, TypeOK, BookWellFormed
  <2>4. IdsOld'
    BY <1>1, <1>2, <2>1 DEF IdsOld
  <2> QED BY <1>1, <2>1, <2>2, <2>3, <2>4 DEF IInv
<1>5. /\ wire' \in Seq(Commands) /\ 1 \in DOMAIN wire /\ wire[1] = "DEL"
      /\ \A j \in DOMAIN wire' : /\ j + 1 \in DOMAIN wire
                                /\ wire'[j] = wire[j + 1] /\ wire'[j] # "DEL"
      /\ \A j \in DOMAIN wire : wire[j] # "DEL" => \E k \in DOMAIN wire' : wire'[k] = wire[j]
      /\ OneEach(wire') /\ NoneBehindDel(wire', todo')
  BY <1>1, FirstTaken
<1>6. \A j \in DOMAIN wire' : ~Opens(wire', todo', j)
  <2> SUFFICES ASSUME NEW j \in DOMAIN wire' PROVE ~Opens(wire', todo', j)
    OBVIOUS
  <2>1. 1 < j + 1
    <3>1. DOMAIN Tail(wire) = 1..(Len(wire) - 1) /\ Len(wire) \in Nat
      BY <1>1, TailFacts DEF SInv, ServerTypes
    <3>2. j \in 1..(Len(wire) - 1) /\ Len(wire) \in Nat
      BY <1>1, <3>1
    <3> QED BY <3>2
  <2>2. ~Opens(wire, todo, j + 1)
    BY <1>5, <2>1 DEF SInv, WireOK, NoneBehindDel
  <2>3. wire'[j] = wire[j + 1] /\ todo' = todo
    BY <1>1, <1>5
  <2> QED BY <2>2, <2>3 DEF Opens
<1>7. Line(stream', wire', todo') /\ Behind(stream', wire', todo', CallStart')
  BY <1>1, <1>3, <1>6 DEF Line, Behind
<1>8. CallShape' /\ BlocksOpen'
  BY <1>1, <1>2, <1>3 DEF CallShape, BlocksOpen
<1>9. ServerTypes' /\ OneThread'
  BY <1>1, <1>2, <1>3, <1>5 DEF SInv, ServerTypes, OneThread
<1>10. WireOK'
  <2> SUFFICES ASSUME NEW j \in DOMAIN wire' PROVE wire'[j] # "DEL" /\ todo'[wire'[j]] # << >>
    BY <1>5 DEF WireOK
  <2>1. j + 1 \in DOMAIN wire /\ wire'[j] = wire[j + 1] /\ wire'[j] # "DEL"
    BY <1>5
  <2>2. todo[wire[j + 1]] # << >>
    BY <2>1 DEF SInv, WireOK
  <2> QED BY <1>1, <2>1, <2>2
<1>11. TodoShape'
  <2> SUFFICES ASSUME NEW g \in Handlers, NEW i \in DOMAIN todo[g], Opening(todo[g][i])
               PROVE  i = 1 /\ \E k \in DOMAIN wire' : wire'[k] = g
    BY <1>1 DEF TodoShape
  <2>1. i = 1 /\ \E k \in DOMAIN wire : wire[k] = g
    BY DEF SInv, TodoShape
  <2>2. g # "DEL"
    BY HandlersAssumption
  <2> QED BY <1>5, <2>1, <2>2
<1> QED BY <1>4, <1>7, <1>8, <1>9, <1>10, <1>11 DEF SInv

-----------------------------------------------------------------------------
LEMMA ServerInitInv == ServerInit => SInv
<1> SUFFICES ASSUME ServerInit PROVE SInv
  OBVIOUS
<1>1. /\ Init /\ running = NoHandler /\ todo = [h \in Handlers |-> << >>]
      /\ wire = << >> /\ stream = << >> /\ crashes = 0 /\ blocks = << >>
      /\ order = NoOrder /\ events = << >>
  BY DEF ServerInit, Init
<1>2. /\ << >> \in Seq(Event) /\ << >> \in Seq(Seq(Event)) /\ << >> \in Seq(Commands)
      /\ DOMAIN << >> = {}
  BY EmptySeq
<1>3. IInv
  BY <1>1, InitIInv
<1>4. ServerTypes /\ OneThread /\ CallShape /\ BlocksOpen
  BY <1>1, <1>2 DEF ServerTypes, OneThread, CallShape, BlocksOpen
<1>5. WireOK /\ TodoShape
  BY <1>1, <1>2 DEF WireOK, OneEach, NoneBehindDel, TodoShape
<1>6. Line(stream, wire, todo) /\ Behind(stream, wire, todo, CallStart)
  BY <1>1, <1>2 DEF Line, Behind
<1> QED BY <1>3, <1>4, <1>5, <1>6 DEF SInv

LEMMA ServerNextInv ==
  ASSUME MaxCrashes = 0
  PROVE  SInv /\ [ServerNext]_allVars => SInv'
<1> SUFFICES ASSUME SInv, [ServerNext]_allVars PROVE SInv'
  OBVIOUS
<1>1. ASSUME NEW h \in Handlers, Request(h) \/ SendNext(h) \/ AppendFails(h) PROVE SInv'
  BY <1>1, RequestStep, SendNextStep, AppendFailsStep
<1>2. CASE Compute
  BY <1>2, ComputeStep
<1>3. CASE Land
  BY <1>3, LandStep
<1>4. CASE StartReset
  BY <1>4, StartResetStep
<1>5. CASE FinishReset
  BY <1>5, FinishResetStep
<1>6. CASE Restart
  <2>1. crashes \in Nat /\ crashes < 0
    BY <1>6 DEF Restart, SInv, ServerTypes
  <2> QED BY <2>1
<1>7. CASE UNCHANGED allVars
  <2>1. UNCHANGED vars /\ UNCHANGED <<running, todo, wire, stream, resetting, crashes, blocks>>
    BY <1>7 DEF allVars, serverVars
  <2>2. IInv' /\ CallShape' /\ CallStart' = CallStart
    BY <2>1, MatcherAlone
  <2> QED BY <2>1, <2>2
    DEF SInv, ServerTypes, OneThread, WireOK, TodoShape, BlocksOpen, vars
<1> QED BY <1>1, <1>2, <1>3, <1>4, <1>5, <1>6, <1>7 DEF ServerNext

(* While the process lives, the stream opens the calls in the order the    *)
(* matcher ran them, however many handlers are in their append loops, and  *)
(* whatever resets and refused appends come in between                     *)
(* (server.ts:134-147, 155-168).                                           *)
THEOREM CallsKeepTheirOrder ==
  ASSUME MaxCrashes = 0
  PROVE  ServerSpec => []CallsInOrder
<1>1. SInv => CallsInOrder
  <2> SUFFICES ASSUME SInv, NEW i \in DOMAIN stream, NEW j \in DOMAIN stream, i < j,
                      NEW b \in DOMAIN blocks, blocks[b][1] = stream[i],
                      NEW c \in DOMAIN blocks, blocks[c][1] = stream[j]
               PROVE  stream[i].seq < stream[j].seq
    BY DEF CallsInOrder
  <2>1. Opening(stream[i]) /\ Opening(stream[j])
    BY DEF SInv, BlocksOpen
  <2> QED BY <2>1 DEF SInv, Line
<1>2. ServerSpec => []SInv
  BY ServerInitInv, ServerNextInv, PTL DEF ServerSpec
<1> QED BY <1>1, <1>2, PTL
-----------------------------------------------------------------------------
(* One handler at a time, and a process that dies any number of times. *)

(* The numbers of s rise, up to n. *)
Numbered(s, n) ==
  /\ \A i, j \in DOMAIN s : i < j => s[i].seq < s[j].seq
  /\ \A i \in DOMAIN s : s[i].seq <= n

(* An engine that starts from the replica r, when the ids from m on are    *)
(* still to be given out, has what the matcher needs of its state.         *)
Restartable(r, m) ==
  /\ ReplicaOf(r, FlushedBook(r), r.lastSeq, NoOrder)
  /\ r.lastSeq \in Nat
  /\ r.seen \subseteq Users \X ClientOrderIds
  /\ BookWellFormed(FlushedBook(r)) /\ TotalsExact(FlushedBook(r))
  /\ \A id : IsResting(FlushedBook(r), id) => id < m

Recovers(s, m) == Restartable(Rebuilt(s), m) /\ Numbered(s, Rebuilt(s).lastSeq)

(* Wherever the stream breaks off. *)
RecoversAnywhere(s, m) == \A k \in 0..Len(s) : Recovers(SubSeq(s, 1, k), m)

LEMMA RecoversLater ==
  ASSUME NEW s, NEW m \in Nat, NEW n \in Nat, m <= n, Recovers(s, m)
  PROVE  Recovers(s, n)
<1> DEFINE r == Rebuilt(s)
<1>1. ASSUME NEW id, IsResting(FlushedBook(r), id)
      PROVE  id < n
  <2>1. id < m /\ id \in Nat
    BY <1>1 DEF Recovers, Restartable, BookWellFormed, BookTypeOK, IsResting
  <2> QED BY <2>1
<1> HIDE DEF r
<1>2. Restartable(r, m) => Restartable(r, n)
  BY <1>1 DEF Restartable
<1> QED BY <1>2 DEF Recovers, r

(* A replica of an engine: dying now, in the middle of a call or between   *)
(* two, it would start again from it.                                      *)
LEMMA RecoversNow ==
  ASSUME NEW b, BookWellFormed(b), TotalsExact(b),
         NEW n \in Nat, NEW m \in Nat, NEW o \in Order \cup {NoOrder},
         \A id : IsResting(b, id) => id < m,
         o # NoOrder => o.orderId < m /\ \A id : IsResting(b, id) => id < o.orderId,
         NEW s, Numbered(s, n), ReplicaOf(Rebuilt(s), b, n, o),
         Rebuilt(s).seen \subseteq Users \X ClientOrderIds
  PROVE  Recovers(s, m)
<1> DEFINE r == Rebuilt(s)
           f == FlushedBook(r)
<1>1. /\ ReplicaOf(r, f, r.lastSeq, NoOrder)
      /\ r.lastSeq = n
  BY DEF ReplicaOf
<1>2. CASE f = b
  BY <1>1, <1>2 DEF Recovers, Restartable
<1>3. CASE o # NoOrder /\ o.remaining > 0 /\ f = Rest(b, o)
  <2>1. /\ BookWellFormed(Rest(b, o)) /\ TotalsExact(Rest(b, o))
        /\ \A id : IsResting(Rest(b, o), id) <=> IsResting(b, id) \/ id = o.orderId
    BY <1>3, RestWellFormed, RestQuantities
  <2>2. BookWellFormed(f) /\ TotalsExact(f) /\ \A id : IsResting(f, id) => id < m
    BY <1>3, <2>1
  <2> HIDE DEF f
  <2>3. Restartable(r, m)
    BY <1>1, <2>2 DEF Restartable, f
  <2> QED BY <1>1, <2>3 DEF Recovers
<1>4. f = b \/ (o # NoOrder /\ o.remaining > 0 /\ f = Rest(b, o))
  <2>1. CASE o = NoOrder
    BY <2>1 DEF ReplicaOf
  <2>2. CASE o # NoOrder
    <3>1. r.book = b /\ r.pending = o
      BY <2>2 DEF ReplicaOf
    <3> HIDE DEF r
    <3> QED BY <2>2, <3>1 DEF FlushedBook, RestsWhenDone
  <2> QED BY <2>1, <2>2
<1> QED BY <1>2, <1>3, <1>4

(* Sequences that agree up to k begin with the same k elements.            *)
LEMMA SameBeginning ==
  ASSUME NEW S, NEW s \in Seq(S), NEW t \in Seq(S), NEW k \in 0..Len(s), Len(s) <= Len(t),
         \A i \in 1..Len(s) : t[i] = s[i]
  PROVE  SubSeq(t, 1, k) = SubSeq(s, 1, k)
<1>1. Len(s) \in Nat /\ Len(t) \in Nat /\ k \in Nat /\ k <= Len(s)
  BY LenProperties
<1>2. \A i \in 1..k : s[i] \in S /\ t[i] = s[i]
  <2>1. \A i \in 1..k : i \in 1..Len(s)
    BY <1>1
  <2> QED BY <2>1, ElementOfSeq
<1>3. /\ SubSeq(s, 1, k) \in Seq(S) /\ Len(SubSeq(s, 1, k)) = k
      /\ \A i \in 1..k : SubSeq(s, 1, k)[i] = s[i]
  <2>1. /\ SubSeq(s, 1, k) \in Seq(S)
        /\ Len(SubSeq(s, 1, k)) = IF 1 <= k THEN k - 1 + 1 ELSE 0
        /\ \A i \in 1..(k - 1 + 1) : SubSeq(s, 1, k)[i] = s[1 + i - 1]
    BY <1>1, <1>2, SubSeqProperties
  <2> QED BY <1>1, <2>1
<1>4. /\ SubSeq(t, 1, k) \in Seq(S) /\ Len(SubSeq(t, 1, k)) = k
      /\ \A i \in 1..k : SubSeq(t, 1, k)[i] = t[i]
  <2>1. /\ SubSeq(t, 1, k) \in Seq(S)
        /\ Len(SubSeq(t, 1, k)) = IF 1 <= k THEN k - 1 + 1 ELSE 0
        /\ \A i \in 1..(k - 1 + 1) : SubSeq(t, 1, k)[i] = t[1 + i - 1]
    BY <1>1, <1>2, SubSeqProperties
  <2> QED BY <1>1, <2>1
<1> DEFINE u == SubSeq(s, 1, k)
           v == SubSeq(t, 1, k)
<1>5. /\ u \in Seq(S) /\ v \in Seq(S) /\ Len(u) = Len(v)
      /\ \A i \in 1..Len(u) : u[i] = v[i]
  BY <1>2, <1>3, <1>4
<1> HIDE DEF u, v
<1>6. u = v
  BY <1>5, SeqEqual
<1> QED BY <1>6 DEF u, v

(* One more event. *)
LEMMA NumberedMore ==
  ASSUME NEW s \in Seq(Event), NEW n \in Nat, Numbered(s, n), NEW ev \in Event, ev.seq = n + 1
  PROVE  Numbered(Append(s, ev), n + 1)
<1> DEFINE t == Append(s, ev)
<1>1. /\ Len(s) \in Nat /\ DOMAIN s = 1..Len(s) /\ DOMAIN t = 1..(Len(s) + 1)
      /\ t[Len(s) + 1] = ev /\ \A i \in DOMAIN s : t[i] = s[i]
  BY AppendFacts
<1>2. \A i \in DOMAIN s : s[i].seq \in Nat /\ s[i].seq <= n
  BY EventSeqs, ElementOfSeq DEF Numbered
<1> HIDE DEF t
<1>3. \A i \in DOMAIN t : i \in DOMAIN s \/ i = Len(s) + 1
  BY <1>1
<1>4. \A i \in DOMAIN t : t[i].seq <= n + 1
  BY <1>1, <1>2, <1>3
<1>5. ASSUME NEW i \in DOMAIN t, NEW j \in DOMAIN t, i < j
      PROVE  t[i].seq < t[j].seq
  <2>1. i \in DOMAIN s
    BY <1>1, <1>5
  <2>2. CASE j \in DOMAIN s
    BY <1>1, <1>5, <2>1, <2>2 DEF Numbered
  <2>3. CASE j = Len(s) + 1
    BY <1>1, <1>2, <2>1, <2>3
  <2> QED BY <1>3, <2>2, <2>3
<1>6. Numbered(t, n + 1)
  BY <1>4, <1>5 DEF Numbered
<1> QED BY <1>6 DEF t

LEMMA RecoversMore ==
  ASSUME NEW s \in Seq(Event), NEW ev \in Event, NEW m \in Nat, NEW n \in Nat, m <= n,
         RecoversAnywhere(s, m), Recovers(Append(s, ev), n)
  PROVE  RecoversAnywhere(Append(s, ev), n)
<1> DEFINE t == Append(s, ev)
<1>1. /\ t \in Seq(Event) /\ Len(s) \in Nat /\ Len(t) = Len(s) + 1
      /\ \A i \in 1..Len(s) : t[i] = s[i]
  OBVIOUS
<1>2. SubSeq(t, 1, Len(t)) = t
  BY <1>1, SubSeqFull
<1> HIDE DEF t
<1>3. ASSUME NEW k \in 0..Len(s)
      PROVE  SubSeq(t, 1, k) = SubSeq(s, 1, k)
  BY <1>1, SameBeginning
<1>4. ASSUME NEW k \in 0..Len(t)
      PROVE  Recovers(SubSeq(t, 1, k), n)
  <2>1. CASE k = Len(t)
    BY <1>2, <2>1 DEF t
  <2>2. CASE k # Len(t)
    <3>1. k \in 0..Len(s)
      BY <1>1, <2>2
    <3>2. Recovers(SubSeq(s, 1, k), m)
      BY <3>1 DEF RecoversAnywhere
    <3> QED BY <1>3, <3>1, <3>2, RecoversLater
  <2> QED BY <2>1, <2>2
<1>5. RecoversAnywhere(t, n)
  BY <1>4 DEF RecoversAnywhere
<1> QED BY <1>5 DEF t

(* What a step of the matcher appends to the list of the call.             *)
LEMMA CallEmits ==
  ASSUME IInv, IInv',
         \/ \E cmd \in Command : Submit(cmd)
         \/ \E user \in Users, id \in 1..MaxOrders : Cancel(user, id)
         \/ MatchLoop
  PROVE  \/ seq' = seq /\ events' = IF order = NoOrder THEN << >> ELSE events
         \/ \E ev \in Event : /\ Emitted(ev) /\ Last(events') = ev
                              /\ ev.seq = seq + 1 /\ seq' = seq + 1
<1>1. ASSUME NEW ev, Emitted(ev), ev.seq = seq + 1, seq' = seq + 1
      PROVE  \E e \in Event : /\ Emitted(e) /\ Last(events') = e
                              /\ e.seq = seq + 1 /\ seq' = seq + 1
  <2>1. events \in Seq(Event) /\ events' \in Seq(Event)
    BY DEF IInv, TypeOK
  <2>2. ev \in Event
    <3>1. CASE events' = << ev >>
      <4>1. Len(<<ev>>) = 1 /\ <<ev>>[1] = ev
        OBVIOUS
      <4>2. 1 \in 1..Len(events') /\ events'[1] = ev
        BY <3>1, <4>1
      <4> QED BY <2>1, <4>2, ElementOfSeq
    <3>2. CASE events' = Append(events, ev)
      <4>1. Len(events) \in Nat /\ Len(events') = Len(events) + 1 /\ events'[Len(events) + 1] = ev
        BY <2>1, <3>2
      <4>2. Len(events) + 1 \in 1..Len(events')
        BY <4>1
      <4> QED BY <2>1, <4>1, <4>2, ElementOfSeq
    <3> QED BY <1>1, <3>1, <3>2 DEF Emitted
  <2> QED BY <1>1, <2>2, Emits
<1>2. ASSUME NEW cmd \in Command, Submit(cmd)
      PROVE  \E ev : Emitted(ev) /\ ev.seq = seq + 1 /\ seq' = seq + 1
  BY <1>2, SubmitSteps DEF Refused, Opened, Rejected, Accepted
<1>3. ASSUME NEW user \in Users, NEW id \in 1..MaxOrders, Cancel(user, id)
      PROVE  \/ seq' = seq /\ events' = IF order = NoOrder THEN << >> ELSE events
             \/ \E ev : Emitted(ev) /\ ev.seq = seq + 1 /\ seq' = seq + 1
  BY <1>3, CancelSteps DEF Silent, Withdrawn, Canceled
<1>4. CASE MatchLoop
  <2>1. CASE Silent /\ order # NoOrder /\ events' = events
    BY <2>1 DEF Silent
  <2>2. ASSUME NEW p, NEW maker, NEW fillQty, Sold(p, maker, fillQty),
               Emitted(Trade(seq + 1, order, maker, fillQty))
        PROVE  \E ev : Emitted(ev) /\ ev.seq = seq + 1 /\ seq' = seq + 1
    BY <2>2 DEF Sold, Traded, Trade
  <2>3. ASSUME NEW reason, Killed(reason), Emitted(Canceled(seq + 1, order, reason))
        PROVE  \E ev : Emitted(ev) /\ ev.seq = seq + 1 /\ seq' = seq + 1
    BY <2>3 DEF Killed, Canceled
  <2> QED BY <1>1, <1>4, <2>1, <2>2, <2>3, LoopSteps
<1> QED BY <1>1, <1>2, <1>3, <1>4

(* The events of the present engine's stream: what has landed, and what is *)
(* still to land of the call that runs or ran last.                        *)
Issued(h) == stream \o IF running = NoHandler THEN todo[h] ELSE events

RInv(h) ==
  /\ IInv /\ TotalsExact(book) /\ ServerTypes
  /\ up = TRUE /\ resetting = FALSE /\ resets \in Nat /\ failures \in Nat
  /\ running = NoHandler <=> order = NoOrder
  /\ running # NoHandler => todo[h] = << >>
  /\ wire = << >> \/ (wire = <<h>> /\ todo[h] # << >>)
  /\ ReplicaOf(Rebuilt(Issued(h)), book, seq, order)
  /\ RecoversAnywhere(Issued(h), nextId)

(* What follows of the last two for the whole of it.                       *)
LEMMA IssuedFacts ==
  ASSUME NEW h \in Handlers, RInv(h)
  PROVE  /\ Issued(h) \in Seq(Event)
         /\ Numbered(Issued(h), seq)
         /\ Rebuilt(Issued(h)).seen \subseteq Users \X ClientOrderIds
<1> DEFINE t == IF running = NoHandler THEN todo[h] ELSE events
           s == Issued(h)
<1>1. stream \in Seq(Event) /\ t \in Seq(Event)
  BY DEF RInv, ServerTypes, IInv, TypeOK
<1>2. s \in Seq(Event)
  <2> HIDE DEF t
  <2> QED BY <1>1 DEF Issued, t
<1> HIDE DEF s
<1>3. SubSeq(s, 1, Len(s)) = s /\ Len(s) \in 0..Len(s)
  BY <1>2, SubSeqFull, LenProperties
<1>4. Recovers(s, nextId)
  BY <1>3 DEF RInv, RecoversAnywhere, s
<1>5. Rebuilt(s).lastSeq = seq
  BY DEF RInv, ReplicaOf, s
<1> QED BY <1>2, <1>4, <1>5 DEF Recovers, Restartable, s

LEMMA IdsGrow ==
  ASSUME IInv, IInv', [Next]_vars
  PROVE  nextId \in Nat /\ nextId' \in Nat /\ nextId <= nextId'
<1>1. nextId \in Nat /\ nextId' \in Nat
  BY DEF IInv, TypeOK
<1>2. nextId' = nextId \/ nextId' = nextId + 1
  BY DEF Next, vars, Submit, RejectInvalid, RejectDuplicate, RejectPrecheck, Accept,
         MatchLoop, Match, StopOnSelfTrade, KillRemainder, RestRemainder, CancelRemainder, Filled,
         Cancel, CancelHit, CancelMiss
<1> QED BY <1>1, <1>2

(* Nothing is issued, or one event.                                        *)
LEMMA IssuesNothing ==
  ASSUME NEW h \in Handlers, RInv(h), IInv', TotalsExact(book)', [Next]_vars,
         seq' = seq, Issued(h)' = Issued(h)
  PROVE  /\ ReplicaOf(Rebuilt(Issued(h)'), book', seq', order')
         /\ RecoversAnywhere(Issued(h)', nextId')
<1> DEFINE s == Issued(h)
           t == Issued(h)'
<1>1. t = s /\ ReplicaOf(Rebuilt(s), book, seq, order) /\ RecoversAnywhere(s, nextId)
  BY DEF RInv
<1>2. nextId \in Nat /\ nextId' \in Nat /\ nextId <= nextId'
  BY IdsGrow DEF RInv
<1> HIDE DEF s, t
<1>3. ReplicaOf(Rebuilt(s), book', seq', order')
  BY <1>1, ReplicaStep DEF RInv
<1>4. RecoversAnywhere(s, nextId')
  BY <1>1, <1>2, RecoversLater DEF RecoversAnywhere
<1> QED BY <1>1, <1>3, <1>4 DEF t

LEMMA IssuesOne ==
  ASSUME NEW h \in Handlers, RInv(h), IInv', TotalsExact(book)', [Next]_vars,
         NEW ev \in Event, Last(events') = ev, ev.seq = seq + 1, seq' = seq + 1,
         Issued(h)' = Append(Issued(h), ev)
  PROVE  /\ ReplicaOf(Rebuilt(Issued(h)'), book', seq', order')
         /\ RecoversAnywhere(Issued(h)', nextId')
<1> DEFINE s == Issued(h)
           t == Issued(h)'
           r == Rebuilt(s)
           w == Rebuilt(t)
<1>1. /\ t = Append(s, ev) /\ ReplicaOf(r, book, seq, order) /\ RecoversAnywhere(s, nextId)
      /\ s \in Seq(Event) /\ Numbered(s, seq) /\ r.seen \subseteq Users \X ClientOrderIds
  BY IssuedFacts DEF RInv
<1>2. nextId \in Nat /\ nextId' \in Nat /\ nextId <= nextId'
  BY IdsGrow DEF RInv
<1>3. seq \in Nat /\ seq' # seq
  <2>1. seq \in Nat
    BY DEF RInv, IInv, TypeOK
  <2> QED BY <2>1
<1> HIDE DEF s, t
<1>4. w = ReplayEvent(r, ev)
  BY <1>1, RebuiltNext
<1> HIDE DEF r, w
<1>5. ReplicaOf(w, book', seq', order')
  BY <1>1, <1>3, <1>4, ReplicaStep DEF RInv
<1>6. w.seen \subseteq Users \X ClientOrderIds
  BY <1>1, <1>4, ReplaySeen DEF ReplicaOf
<1>7. Numbered(t, seq')
  BY <1>1, <1>3, NumberedMore
<1>8. Recovers(t, nextId')
  <2>1. /\ BookWellFormed(book') /\ seq' \in Nat /\ order' \in Order \cup {NoOrder}
        /\ \A id : IsResting(book', id) => id < nextId'
        /\ order' # NoOrder => /\ order'.orderId < nextId'
                               /\ \A id : IsResting(book', id) => id < order'.orderId
    BY DEF IInv, TypeOK, IdsOld
  <2> QED BY <1>2, <1>5, <1>6, <1>7, <2>1, RecoversNow DEF w
<1>9. RecoversAnywhere(t, nextId')
  BY <1>1, <1>2, <1>8, RecoversMore
<1> QED BY <1>5, <1>9 DEF w, t

LEMMA MatcherRecovers ==
  ASSUME NEW h \in Handlers, RInv(h), todo[h] = << >>, running \in {h, NoHandler},
         \/ \E cmd \in Command : Submit(cmd)
         \/ \E user \in Users, id \in 1..MaxOrders : Cancel(user, id)
         \/ MatchLoop,
         HandOver(h), UNCHANGED <<stream, resetting, up, crashes, resets, failures>>
  PROVE  RInv(h)'
<1>1. [Next]_vars /\ IInv' /\ TotalsExact(book)'
  <2>1. [Next]_vars
    BY DEF Next
  <2> QED BY <2>1, NextIInv, TotalsStep DEF RInv
<1>2. /\ todo \in [Handlers -> Seq(Event)] /\ wire \in Seq(Commands) /\ stream \in Seq(Event)
      /\ blocks \in Seq(Seq(Event)) /\ events \in Seq(Event) /\ events' \in Seq(Event)
      /\ wire = << >> /\ h # NoHandler /\ h \in Commands
  BY <1>1, HandlersAssumption DEF RInv, ServerTypes, IInv, TypeOK, Commands
<1>3. Issued(h) = stream \o IF order = NoOrder THEN << >> ELSE events
  BY DEF Issued, RInv
<1>4. /\ Issued(h)' = stream \o events'
      /\ running' \in {h, NoHandler} /\ (running' = NoHandler <=> order' = NoOrder)
      /\ running' # NoHandler => todo'[h] = << >>
      /\ wire' = << >> \/ (wire' = <<h>> /\ todo'[h] # << >>)
      /\ todo' \in [Handlers -> Seq(Event)] /\ wire' \in Seq(Commands)
      /\ blocks' \in Seq(Seq(Event))
  <2>1. CASE order' # NoOrder
    BY <1>2, <2>1 DEF HandOver, Issued
  <2>2. CASE order' = NoOrder
    <3>1. /\ running' = NoHandler /\ todo' = [todo EXCEPT ![h] = events']
          /\ wire' = IF events' = << >> THEN wire ELSE Append(wire, h)
          /\ blocks' = IF events' = << >> THEN blocks ELSE Append(blocks, events')
      BY <2>2 DEF HandOver
    <3>2. todo'[h] = events' /\ todo' \in [Handlers -> Seq(Event)]
      BY <1>2, <3>1
    <3>3. wire' = << >> \/ (wire' = <<h>> /\ todo'[h] # << >>)
      BY <1>2, <3>1, <3>2
    <3>4. wire' \in Seq(Commands)
      BY <1>2, <3>1
    <3>5. blocks' \in Seq(Seq(Event))
      <4> DEFINE T == Seq(Event)
      <4>1. events' \in T /\ blocks \in Seq(T)
        BY <1>2
      <4> HIDE DEF T
      <4>2. Append(blocks, events') \in Seq(T)
        BY <4>1
      <4> QED BY <3>1, <4>1, <4>2 DEF T
    <3>6. Issued(h)' = stream \o events'
      BY <3>1, <3>2 DEF Issued
    <3> QED BY <2>2, <3>1, <3>2, <3>3, <3>4, <3>5, <3>6
  <2> QED BY <2>1, <2>2
<1>5. ASSUME seq' = seq, events' = IF order = NoOrder THEN << >> ELSE events
      PROVE  /\ ReplicaOf(Rebuilt(Issued(h)'), book', seq', order')
             /\ RecoversAnywhere(Issued(h)', nextId')
  <2>1. Issued(h)' = Issued(h)
    BY <1>3, <1>4, <1>5
  <2> QED BY <1>1, <1>5, <2>1, IssuesNothing
<1>6. ASSUME NEW ev \in Event, Emitted(ev), Last(events') = ev, ev.seq = seq + 1, seq' = seq + 1
      PROVE  /\ ReplicaOf(Rebuilt(Issued(h)'), book', seq', order')
             /\ RecoversAnywhere(Issued(h)', nextId')
  <2>1. Issued(h)' = Append(Issued(h), ev)
    <3>1. CASE order = NoOrder
      <4>1. stream \o << >> = stream /\ stream \o <<ev>> = Append(stream, ev)
        BY <1>2
      <4> QED BY <1>3, <1>4, <1>6, <3>1, <4>1 DEF Emitted
    <3>2. CASE order # NoOrder
      <4>1. stream \o Append(events, ev) = Append(stream \o events, ev)
        BY <1>2, SequencesJoined
      <4>2. events' = Append(events, ev)
        BY <1>6, <3>2 DEF Emitted
      <4>3. Issued(h) = stream \o events /\ Issued(h)' = stream \o events'
        BY <1>3, <1>4, <3>2
      <4> QED BY <4>1, <4>2, <4>3
    <3> QED BY <3>1, <3>2
  <2> QED BY <1>1, <1>6, <2>1, IssuesOne
<1>7. /\ ReplicaOf(Rebuilt(Issued(h)'), book', seq', order')
      /\ RecoversAnywhere(Issued(h)', nextId')
  BY <1>1, <1>5, <1>6, CallEmits DEF RInv
<1>8. ServerTypes'
  BY <1>4 DEF RInv, ServerTypes
<1> QED BY <1>1, <1>4, <1>7, <1>8 DEF RInv

(* Events that only travel. *)
LEMMA MatcherRests ==
  ASSUME NEW h \in Handlers, RInv(h), UNCHANGED vars, Issued(h)' = Issued(h)
  PROVE  /\ IInv' /\ TotalsExact(book)'
         /\ ReplicaOf(Rebuilt(Issued(h)'), book', seq', order')
         /\ RecoversAnywhere(Issued(h)', nextId')
<1>1. UNCHANGED <<book, seq, seen, nextId, order, events>>
  BY DEF vars
<1>2. IInv' /\ TotalsExact(book)'
  BY <1>1 DEF RInv, IInv, TypeOK, IdsOld
<1> QED BY <1>1, <1>2 DEF RInv

LEMMA LandRecovers ==
  ASSUME NEW h \in Handlers, RInv(h), Land
  PROVE  RInv(h)'
<1>1. /\ wire = <<h>> /\ todo[h] # << >> /\ running = NoHandler
      /\ todo \in [Handlers -> Seq(Event)] /\ stream \in Seq(Event)
  BY DEF Land, RInv, ServerTypes
<1>2. Head(wire) = h /\ Tail(wire) = << >>
  BY <1>1
<1>3. /\ stream' = Append(stream, Head(todo[h])) /\ todo' = [todo EXCEPT ![h] = Tail(@)]
      /\ wire' = << >>
      /\ UNCHANGED <<vars, running, resetting, up, crashes, resets, failures, blocks>>
  BY <1>2 DEF Land
<1> DEFINE t == todo[h]
<1>4. /\ t \in Seq(Event) /\ t # << >> /\ Head(t) \in Event /\ Tail(t) \in Seq(Event)
      /\ stream' = Append(stream, Head(t)) /\ todo'[h] = Tail(t)
      /\ stream' \in Seq(Event) /\ todo' \in [Handlers -> Seq(Event)]
  <2>1. t \in Seq(Event) /\ t # << >>
    BY <1>1
  <2>2. Head(t) \in Event /\ Tail(t) \in Seq(Event)
    <3> HIDE DEF t
    <3> QED BY <2>1, HeadTailProperties
  <2>3. stream' \in Seq(Event)
    BY <1>1, <1>3, <2>2
  <2> QED BY <1>1, <1>3, <2>1, <2>2, <2>3
<1>5. Issued(h) = stream \o t /\ Issued(h)' = stream' \o Tail(t)
  BY <1>1, <1>3, <1>4 DEF Issued
<1> HIDE DEF t
<1>6. Issued(h)' = Issued(h)
  <2> DEFINE e == Head(t)
  <2>1. e \in Event /\ t \in Seq(Event) /\ t # << >>
    BY <1>4
  <2> HIDE DEF e
  <2>2. Append(stream, Head(t)) \o Tail(t) = stream \o t
    BY <1>1, <2>1, SequencesJoined
  <2> QED BY <1>4, <1>5, <2>2
<1>7. << >> \in Seq(Commands)
  BY EmptySeq
<1>8. ServerTypes'
  BY <1>3, <1>4, <1>7 DEF RInv, ServerTypes
<1>9. /\ IInv' /\ TotalsExact(book)'
      /\ ReplicaOf(Rebuilt(Issued(h)'), book', seq', order')
      /\ RecoversAnywhere(Issued(h)', nextId')
  BY <1>3, <1>6, MatcherRests
<1> QED BY <1>1, <1>3, <1>8, <1>9 DEF RInv, vars

LEMMA SendNextRecovers ==
  ASSUME NEW h \in Handlers, RInv(h), SendNext(h)
  PROVE  RInv(h)'
<1>1. /\ running = NoHandler /\ todo[h] # << >> /\ wire' = Append(wire, h)
      /\ UNCHANGED <<vars, running, todo, stream, resetting, up, crashes, resets, failures, blocks>>
  BY DEF SendNext
<1>2. wire = << >>
  <2>1. CASE wire = <<h>>
    <3>1. 1 \in DOMAIN wire /\ wire[1] = h
      BY <2>1
    <3> QED BY <3>1, OnWireMeans DEF SendNext
  <2> QED BY <2>1 DEF RInv
<1>3. wire' = <<h>> /\ wire' \in Seq(Commands)
  BY <1>1, <1>2 DEF Commands
<1>4. Issued(h)' = Issued(h)
  BY <1>1 DEF Issued, vars
<1>5. ServerTypes'
  BY <1>1, <1>3 DEF RInv, ServerTypes
<1>6. /\ IInv' /\ TotalsExact(book)'
      /\ ReplicaOf(Rebuilt(Issued(h)'), book', seq', order')
      /\ RecoversAnywhere(Issued(h)', nextId')
  BY <1>1, <1>4, MatcherRests
<1> QED BY <1>1, <1>3, <1>5, <1>6 DEF RInv, vars

(* The stream is where what was issued breaks off.                         *)
LEMMA StreamRecovers ==
  ASSUME NEW h \in Handlers, RInv(h)
  PROVE  Recovers(stream, nextId) /\ RecoversAnywhere(stream, nextId)
<1> DEFINE t == IF running = NoHandler THEN todo[h] ELSE events
           s == Issued(h)
<1>1. stream \in Seq(Event) /\ t \in Seq(Event) /\ s = stream \o t
  BY DEF RInv, ServerTypes, IInv, TypeOK, Issued
<1>2. RecoversAnywhere(s, nextId)
  BY DEF RInv
<1> HIDE DEF t, s
<1>3. /\ s \in Seq(Event) /\ Len(stream) \in Nat /\ Len(s) \in Nat /\ Len(stream) <= Len(s)
      /\ \A i \in 1..Len(stream) : s[i] = stream[i]
  BY <1>1
<1>4. ASSUME NEW k \in 0..Len(stream)
      PROVE  Recovers(SubSeq(stream, 1, k), nextId)
  <2>1. SubSeq(s, 1, k) = SubSeq(stream, 1, k)
    BY <1>1, <1>3, SameBeginning
  <2>2. k \in 0..Len(s)
    BY <1>3
  <2> QED BY <1>2, <2>1, <2>2 DEF RecoversAnywhere
<1>5. RecoversAnywhere(stream, nextId)
  BY <1>4 DEF RecoversAnywhere
<1>6. SubSeq(stream, 1, Len(stream)) = stream /\ Len(stream) \in 0..Len(stream)
  BY <1>1, <1>3, SubSeqFull
<1> QED BY <1>4, <1>5, <1>6

(* What a new process starts from. *)
LEMMA ReplayedInto ==
  ASSUME NEW s, Replica(Rebuilt(s))
  PROVE  /\ ReplayInto(s).failed = FALSE
         /\ ReplayInto(s).book = FlushedBook(Rebuilt(s))
         /\ ReplayInto(s).lastSeq = Rebuilt(s).lastSeq
         /\ ReplayInto(s).seen = Rebuilt(s).seen
<1> DEFINE r == Rebuilt(s)
           b == FlushedBook(r)
<1>1. ReplayInto(s) = FlushPending(r)
  BY DEF ReplayInto, Rebuilt
<1>2. FlushPending(r) = [book |-> b, seen |-> r.seen, lastSeq |-> r.lastSeq,
                         pending |-> NoOrder, canceled |-> FALSE, failed |-> FALSE]
  BY FlushedFields
<1> HIDE DEF r, b
<1> QED BY <1>1, <1>2 DEF r, b

LEMMA RestartRecovers ==
  ASSUME NEW h \in Handlers, RInv(h), Restart
  PROVE  RInv(h)'
<1> DEFINE r == Rebuilt(stream)
           f == FlushedBook(r)
<1>1. /\ ReplicaOf(r, f, r.lastSeq, NoOrder) /\ r.lastSeq \in Nat
      /\ r.seen \subseteq Users \X ClientOrderIds
      /\ BookWellFormed(f) /\ TotalsExact(f)
      /\ \A id : IsResting(f, id) => id < nextId
      /\ RecoversAnywhere(stream, nextId)
  BY StreamRecovers DEF Recovers, Restartable
<1>2. Replica(r)
  BY <1>1 DEF ReplicaOf
<1>3. /\ crashes' = crashes + 1 /\ up' = TRUE
      /\ book' = f /\ seq' = r.lastSeq /\ seen' = r.seen /\ events' = << >>
      /\ todo' = [g \in Handlers |-> << >>] /\ wire' = << >> /\ resetting' = FALSE
      /\ running = NoHandler
      /\ UNCHANGED <<nextId, order, running, stream, resets, failures, blocks>>
  BY <1>2, ReplayedInto DEF Restart
<1>4. order = NoOrder /\ nextId \in Nat /\ stream \in Seq(Event) /\ crashes \in Nat
  BY <1>3 DEF RInv, ServerTypes, IInv, TypeOK
<1>5. Issued(h)' = stream
  <2>1. Issued(h)' = stream \o << >>
    BY <1>3 DEF Issued
  <2> QED BY <1>4, <2>1
<1> HIDE DEF f, r
<1>6. << >> \in Seq(Event) /\ << >> \in Seq(Commands)
  BY EmptySeq
<1>7. TypeOK'
  BY <1>1, <1>3, <1>4, <1>6 DEF TypeOK, BookWellFormed
<1>8. IdsOld'
  BY <1>1, <1>3, <1>4 DEF IdsOld
<1>9. IInv' /\ TotalsExact(book)'
  BY <1>1, <1>3, <1>7, <1>8 DEF IInv
<1>10. ServerTypes'
  BY <1>3, <1>4, <1>6 DEF RInv, ServerTypes
<1>11. /\ ReplicaOf(Rebuilt(Issued(h)'), book', seq', order')
       /\ RecoversAnywhere(Issued(h)', nextId')
  BY <1>1, <1>3, <1>4, <1>5 DEF r
<1> QED BY <1>3, <1>4, <1>9, <1>10, <1>11 DEF RInv

LEMMA FreshRecovers ==
  ASSUME NEW h \in Handlers, ServerInit
  PROVE  RInv(h)
<1>1. /\ Init /\ running = NoHandler /\ todo = [g \in Handlers |-> << >>]
      /\ wire = << >> /\ stream = << >> /\ crashes = 0 /\ blocks = << >>
      /\ order = NoOrder /\ events = << >> /\ book = EmptyBook /\ seq = 0 /\ nextId = 1
      /\ up = TRUE /\ resetting = FALSE /\ resets = 0 /\ failures = 0
  BY DEF ServerInit, Init
<1>2. IInv /\ TotalsExact(book)
  BY <1>1, InitIInv, InitTotals
<1>3. << >> \in Seq(Event) /\ << >> \in Seq(Seq(Event)) /\ << >> \in Seq(Commands)
  BY EmptySeq
<1>4. ServerTypes
  BY <1>1, <1>3 DEF ServerTypes
<1>5. Issued(h) = << >>
  BY <1>1 DEF Issued
<1> DEFINE r == Rebuilt(<< >>)
<1>6. r = FreshReplay /\ ReplicaOf(r, book, seq, order)
  BY <1>1, RebuiltNone, FreshReplica
<1>7. r.seen = {}
  BY <1>6 DEF FreshReplay
<1>8. Numbered(<< >>, 0)
  BY DEF Numbered
<1> HIDE DEF r
<1>9. Recovers(<< >>, nextId)
  <2>1. /\ BookWellFormed(book) /\ nextId \in Nat /\ \A id : IsResting(book, id) => id < nextId
    BY <1>2 DEF IInv, TypeOK, IdsOld
  <2>2. r.seen \subseteq Users \X ClientOrderIds
    BY <1>7
  <2> QED BY <1>1, <1>2, <1>6, <1>8, <2>1, <2>2, RecoversNow DEF r
<1>10. RecoversAnywhere(<< >>, nextId)
  <2>1. \A k \in 0..Len(<< >>) : k = 0
    OBVIOUS
  <2>2. SubSeq(<< >>, 1, 0) = << >>
    BY SubSeqEmpty
  <2> QED BY <1>9, <2>1, <2>2 DEF RecoversAnywhere
<1> QED BY <1>1, <1>2, <1>4, <1>5, <1>6, <1>10 DEF RInv, r

LEMMA NextRecovers ==
  ASSUME NEW h, Handlers = {h}, MaxResets = 0, MaxFailures = 0
  PROVE  RInv(h) /\ [ServerNext]_allVars => RInv(h)'
<1> SUFFICES ASSUME RInv(h), [ServerNext]_allVars PROVE RInv(h)'
  OBVIOUS
<1>0. /\ h \in Handlers /\ h # "DEL" /\ h # NoHandler /\ running \in {h, NoHandler}
      /\ resets \in Nat /\ failures \in Nat
  BY HandlersAssumption DEF RInv, ServerTypes
<1>1. CASE Request(h)
  BY <1>0, <1>1, MatcherRecovers DEF Request
<1>2. CASE Compute
  <2>1. running = h /\ todo[h] = << >>
    BY <1>0, <1>2 DEF Compute, RInv
  <2> QED BY <1>0, <1>2, <2>1, MatcherRecovers DEF Compute
<1>3. CASE SendNext(h)
  BY <1>0, <1>3, SendNextRecovers
<1>4. CASE Land
  BY <1>0, <1>4, LandRecovers
<1>5. CASE Restart
  BY <1>0, <1>5, RestartRecovers
<1>6. CASE AppendFails(h)
  <2>1. failures < 0
    BY <1>6 DEF AppendFails
  <2> QED BY <1>0, <2>1
<1>7. CASE StartReset
  <2>1. resets < 0
    BY <1>7 DEF StartReset
  <2> QED BY <1>0, <2>1
<1>8. CASE FinishReset
  <2>1. wire = <<h>> /\ Head(wire) = "DEL"
    BY <1>8 DEF FinishReset, RInv
  <2> QED BY <1>0, <2>1
<1>9. CASE UNCHANGED allVars
  <2>1. /\ UNCHANGED vars
        /\ UNCHANGED <<running, todo, wire, stream, resetting, up, crashes, resets, failures, blocks>>
    BY <1>9 DEF allVars, serverVars
  <2>2. Issued(h)' = Issued(h)
    BY <2>1 DEF Issued, vars
  <2>3. /\ IInv' /\ TotalsExact(book)'
        /\ ReplicaOf(Rebuilt(Issued(h)'), book', seq', order')
        /\ RecoversAnywhere(Issued(h)', nextId')
    BY <1>0, <2>1, <2>2, MatcherRests
  <2> QED BY <2>1, <2>3 DEF RInv, ServerTypes, vars
<1> QED BY <1>1, <1>2, <1>3, <1>4, <1>5, <1>6, <1>7, <1>8, <1>9 DEF ServerNext

LEMMA RecoveryInvariance ==
  ASSUME NEW h, Handlers = {h}, MaxResets = 0, MaxFailures = 0
  PROVE  ServerSpec => []RInv(h)
<1>1. ServerInit => RInv(h)
  BY FreshRecovers
<1> QED BY <1>1, NextRecovers, PTL DEF ServerSpec

(* The process may die before and after every command that Redis executes, *)
(* any number of times, and so be rebuilt from a stream that ends in the   *)
(* middle of a call, once and again: replay never throws, and whenever     *)
(* nothing is in flight the stream rebuilds exactly the book and the       *)
(* counter the engine has.  Requests come one at a time, and there is no   *)
(* reset and no refused append (eventLog.ts:94-198, server.ts:130-147).    *)
THEOREM RestartsAreExact ==
  ASSUME NEW h, Handlers = {h}, MaxResets = 0, MaxFailures = 0
  PROVE  ServerSpec => []RecoveryExact
<1>1. RInv(h) => RecoveryExact
  <2> SUFFICES ASSUME RInv(h), Quiet
               PROVE  LET r == ReplayInto(stream)
                      IN ~r.failed /\ r.book = book /\ r.lastSeq = seq
    BY DEF RecoveryExact
  <2>1. running = NoHandler /\ todo[h] = << >> /\ order = NoOrder /\ stream \in Seq(Event)
    BY DEF Quiet, RInv, ServerTypes
  <2>2. Issued(h) = stream
    <3>1. Issued(h) = stream \o << >>
      BY <2>1 DEF Issued
    <3> QED BY <2>1, <3>1
  <2>3. ReplicaOf(Rebuilt(stream), book, seq, NoOrder)
    BY <2>1, <2>2 DEF RInv
  <2>4. /\ Replica(Rebuilt(stream)) /\ FlushedBook(Rebuilt(stream)) = book
        /\ Rebuilt(stream).lastSeq = seq
    BY <2>3 DEF ReplicaOf
  <2> QED BY <2>4, ReplayedInto
<1> QED BY <1>1, RecoveryInvariance, PTL

(* The stream stays in the order of the sequence numbers across restarts,  *)
(* since the counter is resumed from the last event that was logged.       *)
THEOREM StreamStaysInOrder ==
  ASSUME NEW h, Handlers = {h}, MaxResets = 0, MaxFailures = 0
  PROVE  ServerSpec => []StreamInSeqOrder
<1>1. RInv(h) => StreamInSeqOrder
  BY StreamRecovers DEF Recovers, Numbered, StreamInSeqOrder
<1> QED BY <1>1, RecoveryInvariance, PTL

(* A restarted engine has a state of the declared types again.             *)
THEOREM TypesAcrossRestarts ==
  ASSUME NEW h, Handlers = {h}, MaxResets = 0, MaxFailures = 0
  PROVE  ServerSpec => []ServerTypeOK
<1>1. RInv(h) => ServerTypeOK
  BY DEF RInv, IInv, ServerTypes, Commands, ServerTypeOK
<1> QED BY <1>1, RecoveryInvariance, PTL

LEMMA FlagsInvariance == ServerSpec => [](resetting \in BOOLEAN /\ up \in BOOLEAN)
<1> DEFINE Flags == resetting \in BOOLEAN /\ up \in BOOLEAN
<1>1. ServerInit => Flags
  BY DEF ServerInit
<1>2. Flags /\ [ServerNext]_allVars => Flags'
  BY DEF ServerNext, allVars, serverVars, Request, Compute, Land, SendNext, AppendFails,
         StartReset, FinishReset, Restart
<1> QED BY <1>1, <1>2, PTL DEF ServerSpec

(* While the process lives every variable of the service keeps its type,   *)
(* with any number of handlers, resets and refused appends.                *)
THEOREM TypesWhileAlive ==
  ASSUME MaxCrashes = 0
  PROVE  ServerSpec => []ServerTypeOK
<1>1. SInv /\ resetting \in BOOLEAN /\ up \in BOOLEAN => ServerTypeOK
  BY DEF SInv, IInv, ServerTypes, Commands, ServerTypeOK
<1> QED BY <1>1, FlagsInvariance, ServerInitInv, ServerNextInv, PTL DEF ServerSpec
-----------------------------------------------------------------------------
(* Calls are logged whole. *)

(* What is missing of a call whose first k events are in the stream.       *)
Missing(call, k) == SubSeq(call, k + 1, Len(call))

(* The order an event is about, unless it opens its call.                  *)
Subject(ev) == IF ev.kind = "Trade" THEN ev.takerOrderId ELSE ev.orderId

(* The present engine began when n was the next id.  An event of an earlier *)
(* one may have its number, but not its order.                             *)
Stale(ev, n) == ~Opening(ev) /\ Subject(ev) < n
Fresh(ev, n, m) == Opening(ev) \/ Subject(ev) \in n..(m - 1)

Ascending(s) == \A i, j \in DOMAIN s : i < j => s[i].seq < s[j].seq

EventsFresh(n) ==
  /\ n \in Nat /\ n <= nextId
  /\ order # NoOrder => order.orderId >= n
  /\ Ascending(events)
  /\ \A i \in DOMAIN events : events[i].seq <= seq /\ Fresh(events[i], n, nextId)

BlocksFresh(n) ==
  \A b \in DOMAIN blocks :
    /\ Ascending(blocks[b])
    /\ \A i \in DOMAIN blocks[b] :
         blocks[b][i].seq < CallStart /\ Fresh(blocks[b][i], n, nextId)
    /\ \A c \in DOMAIN blocks : b < c =>
         \A i \in DOMAIN blocks[b], j \in DOMAIN blocks[c] :
           blocks[b][i].seq < blocks[c][j].seq

StreamOld(n) == \A p \in DOMAIN stream : Stale(stream[p], n) \/ stream[p].seq < CallStart

(* A handler writes what is missing of its call, which is number own[h], or *)
(* of a call of an engine that is no more, if that is 0.                   *)
Owners(n, own, cut) ==
  /\ own \in [Handlers -> Nat] /\ cut \in [Nat -> Nat]
  /\ \A h \in Handlers :
       IF own[h] = 0 THEN \A i \in DOMAIN todo[h] : Stale(todo[h][i], n)
       ELSE own[h] \in DOMAIN blocks /\ todo[h] = Missing(blocks[own[h]], cut[own[h]])
  /\ \A g, h \in Handlers : own[g] = own[h] /\ own[h] # 0 => g = h

(* Of each call the first cut[b] events are in the stream.                 *)
Parts(own, cut) ==
  \A b \in DOMAIN blocks :
    /\ cut[b] <= Len(blocks[b])
    /\ LoggedUpTo(stream, blocks[b], cut[b])
    /\ \/ Missing(blocks[b], cut[b]) = << >>
       \/ \E h \in Handlers : own[h] = b
       \/ ToSet(Missing(blocks[b], cut[b])) \subseteq givenUp

LInv(n, own, cut) ==
  EventsFresh(n) /\ BlocksFresh(n) /\ StreamOld(n) /\ Owners(n, own, cut) /\ Parts(own, cut)

LoggingInv == SInv /\ \E n, own, cut : LInv(n, own, cut)

-----------------------------------------------------------------------------
LEMMA SubjectIsId == \A ev \in Event : ~Opening(ev) => Subject(ev) \in Nat
BY DEF Event, Opening, Subject

LEMMA MissingFacts ==
  ASSUME NEW S, NEW call \in Seq(S), NEW k \in Nat, k <= Len(call)
  PROVE  /\ Len(call) \in Nat /\ DOMAIN call = 1..Len(call)
         /\ Missing(call, k) # << >> =>
              /\ k < Len(call) /\ k + 1 \in DOMAIN call
              /\ Head(Missing(call, k)) = call[k + 1]
              /\ Tail(Missing(call, k)) = Missing(call, k + 1)
         /\ \A j \in DOMAIN Missing(call, k) :
              \E i \in DOMAIN call : Missing(call, k)[j] = call[i]
         /\ Missing(call, 0) = call
<1>1. Len(call) \in Nat /\ DOMAIN call = 1..Len(call)
  BY LenProperties
<1>2. ASSUME Missing(call, k) # << >>
      PROVE  k < Len(call) /\ k + 1 \in 1..Len(call) /\ Len(call) \in (k + 1)..Len(call)
  <2>1. k < Len(call)
    <3> SUFFICES ASSUME k >= Len(call) PROVE FALSE
      BY <1>1
    <3>1. k + 1 \in Int /\ Len(call) \in Int /\ Len(call) < k + 1
      BY <1>1
    <3> QED BY <1>2, <3>1, SubSeqEmpty DEF Missing
  <2> QED BY <1>1, <2>1
<1>3. ASSUME Missing(call, k) # << >>
      PROVE  /\ Head(Missing(call, k)) = call[k + 1]
             /\ Tail(Missing(call, k)) = Missing(call, k + 1)
  BY <1>2, <1>3, HeadTailOfSubSeq DEF Missing
<1>4. ASSUME NEW j \in DOMAIN Missing(call, k)
      PROVE  \E i \in DOMAIN call : Missing(call, k)[j] = call[i]
  <2> DEFINE m == Missing(call, k)
  <2>1. \A i \in (k + 1)..Len(call) : call[i] \in S
    BY <1>1, ElementOfSeq
  <2>2. /\ m \in Seq(S)
        /\ Len(m) = IF k + 1 <= Len(call) THEN Len(call) - (k + 1) + 1 ELSE 0
        /\ \A i \in 1..(Len(call) - (k + 1) + 1) : m[i] = call[(k + 1) + i - 1]
    BY <1>1, <2>1, SubSeqProperties DEF Missing
  <2> HIDE DEF m
  <2>3. j \in 1..Len(m)
    BY <1>4, <2>2, LenProperties DEF m
  <2>4. j \in 1..(Len(call) - (k + 1) + 1) /\ (k + 1) + j - 1 \in 1..Len(call)
    <3> DEFINE n == Len(call)
    <3>1. n \in Nat /\ j \in 1..(IF k + 1 <= n THEN n - (k + 1) + 1 ELSE 0)
      BY <1>1, <2>2, <2>3
    <3> HIDE DEF n
    <3>2. j \in 1..(n - (k + 1) + 1) /\ (k + 1) + j - 1 \in 1..n
      BY <3>1
    <3> QED BY <3>2 DEF n
  <2> QED BY <1>1, <2>2, <2>4 DEF m
<1>5. Missing(call, 0) = call
  BY SubSeqFull DEF Missing
<1> QED BY <1>1, <1>2, <1>3, <1>4, <1>5

(* An event that is not of the call is added.                              *)
LEMMA LoggedOther ==
  ASSUME NEW S, NEW s \in Seq(S), NEW e \in S, NEW call, NEW k, LoggedUpTo(s, call, k),
         \A i \in DOMAIN call : call[i] # e
  PROVE  LoggedUpTo(Append(s, e), call, k)
<1> DEFINE t == Append(s, e)
<1>1. /\ Len(s) \in Nat /\ DOMAIN s = 1..Len(s) /\ DOMAIN t = 1..(Len(s) + 1)
      /\ t[Len(s) + 1] = e /\ \A p \in DOMAIN s : t[p] = s[p]
  BY AppendFacts
<1> HIDE DEF t
<1>2. \A p \in DOMAIN t, i \in DOMAIN call : t[p] = call[i] => p \in DOMAIN s /\ s[p] = call[i]
  <2> SUFFICES ASSUME NEW p \in DOMAIN t, NEW i \in DOMAIN call, t[p] = call[i]
               PROVE  p \in DOMAIN s /\ s[p] = call[i]
    OBVIOUS
  <2>1. p # Len(s) + 1
    BY <1>1
  <2>2. p \in DOMAIN s
    BY <1>1, <2>1
  <2> QED BY <1>1, <2>2
<1>3. \A i \in DOMAIN call : call[i] \in ToSet(t) <=> call[i] \in ToSet(s)
  <2> SUFFICES ASSUME NEW i \in DOMAIN call
               PROVE  (\E p \in DOMAIN t : t[p] = call[i]) <=> (\E p \in DOMAIN s : s[p] = call[i])
    BY DEF ToSet
  <2>1. DOMAIN s \subseteq DOMAIN t
    BY <1>1
  <2> QED BY <1>1, <1>2, <2>1
<1>4. {i \in DOMAIN call : call[i] \in ToSet(t)} = 1..k
  BY <1>3 DEF LoggedUpTo
<1>5. ASSUME NEW p \in DOMAIN t, NEW q \in DOMAIN t, NEW i \in DOMAIN call, NEW j \in DOMAIN call,
             t[p] = call[i], t[q] = call[j]
      PROVE  p < q <=> i < j
  BY <1>2, <1>5 DEF LoggedUpTo
<1> QED BY <1>4, <1>5 DEF LoggedUpTo, t

(* The next event of the call is added.                                    *)
LEMMA LoggedNext ==
  ASSUME NEW S, NEW s \in Seq(S), NEW call \in Seq(S), NEW k \in Nat, k < Len(call),
         LoggedUpTo(s, call, k), \A i, j \in DOMAIN call : call[i] = call[j] => i = j
  PROVE  LoggedUpTo(Append(s, call[k + 1]), call, k + 1)
<1> DEFINE e == call[k + 1]
           t == Append(s, e)
<1>0. Len(call) \in Nat /\ DOMAIN call = 1..Len(call) /\ k + 1 \in DOMAIN call
  <2>1. Len(call) \in Nat /\ DOMAIN call = 1..Len(call)
    BY LenProperties
  <2> QED BY <2>1
<1>1. /\ Len(s) \in Nat /\ DOMAIN s = 1..Len(s) /\ DOMAIN t = 1..(Len(s) + 1)
      /\ t[Len(s) + 1] = e /\ \A p \in DOMAIN s : t[p] = s[p]
  <2>1. e \in S
    BY <1>0, ElementOfSeq
  <2> HIDE DEF e
  <2> QED BY <2>1, AppendFacts
<1>2. \A i \in DOMAIN call : call[i] \in ToSet(s) <=> i \in 1..k
  BY DEF LoggedUpTo
<1>3. \A p \in DOMAIN s, i \in DOMAIN call : s[p] = call[i] => i \in 1..k
  BY <1>2 DEF ToSet
<1>4. \A i \in 1..k : \E p \in DOMAIN s : s[p] = call[i]
  <2> SUFFICES ASSUME NEW i \in 1..k PROVE \E p \in DOMAIN s : s[p] = call[i]
    OBVIOUS
  <2>1. i \in DOMAIN call
    BY <1>0
  <2> QED BY <1>2, <2>1 DEF ToSet
<1>5. \A i \in DOMAIN call : e = call[i] => i = k + 1
  BY <1>0
<1> HIDE DEF t, e
<1>6. \A p \in DOMAIN t, i \in DOMAIN call : t[p] = call[i] =>
        \/ p \in DOMAIN s /\ s[p] = call[i] /\ i \in 1..k
        \/ p = Len(s) + 1 /\ i = k + 1
  <2> SUFFICES ASSUME NEW p \in DOMAIN t, NEW i \in DOMAIN call, t[p] = call[i]
               PROVE  \/ p \in DOMAIN s /\ s[p] = call[i] /\ i \in 1..k
                      \/ p = Len(s) + 1 /\ i = k + 1
    OBVIOUS
  <2>1. CASE p = Len(s) + 1
    BY <1>1, <1>5, <2>1
  <2>2. CASE p # Len(s) + 1
    <3>1. p \in DOMAIN s
      BY <1>1, <2>2
    <3> QED BY <1>1, <1>3, <3>1
  <2> QED BY <2>1, <2>2
<1>7. \A i \in DOMAIN call : (\E p \in DOMAIN t : t[p] = call[i]) <=> i \in 1..(k + 1)
  <2> SUFFICES ASSUME NEW i \in DOMAIN call
               PROVE  (\E p \in DOMAIN t : t[p] = call[i]) <=> i \in 1..(k + 1)
    OBVIOUS
  <2>1. (\E p \in DOMAIN t : t[p] = call[i]) => i \in 1..(k + 1)
    BY <1>6
  <2>2. ASSUME i \in 1..k PROVE \E p \in DOMAIN t : t[p] = call[i]
    <3>1. DOMAIN s \subseteq DOMAIN t
      BY <1>1
    <3> QED BY <1>1, <1>4, <2>2, <3>1
  <2>3. ASSUME i = k + 1 PROVE \E p \in DOMAIN t : t[p] = call[i]
    <3>1. Len(s) + 1 \in DOMAIN t
      BY <1>1
    <3> QED BY <1>1, <2>3, <3>1 DEF e
  <2>4. i \in 1..(k + 1) => i \in 1..k \/ i = k + 1
    OBVIOUS
  <2> QED BY <2>1, <2>2, <2>3, <2>4
<1>8. {i \in DOMAIN call : call[i] \in ToSet(t)} = 1..(k + 1)
  <2>1. \A i \in DOMAIN call : call[i] \in ToSet(t) <=> i \in 1..(k + 1)
    BY <1>7 DEF ToSet
  <2>2. 1..(k + 1) \subseteq DOMAIN call
    BY <1>0
  <2> QED BY <2>1, <2>2
<1>9. ASSUME NEW p \in DOMAIN t, NEW q \in DOMAIN t, NEW i \in DOMAIN call, NEW j \in DOMAIN call,
             t[p] = call[i], t[q] = call[j]
      PROVE  p < q <=> i < j
  <2>1. /\ \/ p \in DOMAIN s /\ s[p] = call[i] /\ i \in 1..k
           \/ p = Len(s) + 1 /\ i = k + 1
        /\ \/ q \in DOMAIN s /\ s[q] = call[j] /\ j \in 1..k
           \/ q = Len(s) + 1 /\ j = k + 1
    BY <1>6, <1>9
  <2>2. CASE p \in DOMAIN s /\ s[p] = call[i] /\ q \in DOMAIN s /\ s[q] = call[j]
    BY <2>2 DEF LoggedUpTo
  <2>3. CASE p \in DOMAIN s /\ i \in 1..k /\ q = Len(s) + 1 /\ j = k + 1
    BY <1>1, <2>3
  <2>4. CASE p = Len(s) + 1 /\ i = k + 1
    BY <1>1, <2>1, <2>4
  <2> QED BY <2>1, <2>2, <2>3, <2>4
<1> QED BY <1>8, <1>9 DEF LoggedUpTo, t, e

(* Nothing of the call is in the stream yet.                               *)
LEMMA LoggedNone ==
  ASSUME NEW s, NEW call, \A p \in DOMAIN s, i \in DOMAIN call : s[p] # call[i]
  PROVE  LoggedUpTo(s, call, 0)
<1>1. {i \in DOMAIN call : call[i] \in ToSet(s)} = {}
  BY DEF ToSet
<1> QED BY <1>1 DEF LoggedUpTo

(* A step of the matcher: what it adds to the list of its call is about    *)
(* the order in hand, which the present engine has accepted.               *)
LEMMA MatcherFresh ==
  ASSUME IInv, IInv', NEW n, EventsFresh(n),
         \/ \E cmd \in Command : Submit(cmd)
         \/ \E user \in Users, id \in 1..MaxOrders : Cancel(user, id)
         \/ MatchLoop
  PROVE  EventsFresh(n)' /\ nextId \in Nat /\ nextId' \in Nat /\ nextId <= nextId'
<1>1. nextId \in Nat /\ nextId' \in Nat /\ nextId <= nextId'
  <2>1. [Next]_vars
    BY DEF Next
  <2> QED BY <2>1, IdsGrow
<1>2. /\ seq \in Nat /\ seq' \in Nat /\ events \in Seq(Event) /\ n \in Nat /\ n <= nextId
      /\ \A i \in DOMAIN events : events[i].seq \in Nat
  <2>1. events \in Seq(Event)
    BY DEF IInv, TypeOK
  <2>2. \A i \in DOMAIN events : events[i] \in Event
    BY <2>1, ElementOfSeq, LenProperties
  <2> QED BY <2>1, <2>2, EventSeqs DEF IInv, TypeOK, EventsFresh
<1>3. \A ev : Fresh(ev, n, nextId) => Fresh(ev, n, nextId')
  BY <1>1, <1>2 DEF Fresh
<1>4. ASSUME NEW ev, Emitted(ev), ev.seq = seq + 1, seq' = seq + 1, Fresh(ev, n, nextId')
      PROVE  /\ Ascending(events')
             /\ \A i \in DOMAIN events' : events'[i].seq <= seq' /\ Fresh(events'[i], n, nextId')
  <2>1. CASE events' = << ev >>
    <3>1. DOMAIN events' = {1} /\ events'[1] = ev
      BY <2>1
    <3> QED BY <1>2, <1>4, <3>1 DEF Ascending
  <2>2. CASE events' = Append(events, ev)
    <3>1. /\ Len(events) \in Nat /\ DOMAIN events = 1..Len(events)
          /\ DOMAIN events' = 1..(Len(events) + 1)
          /\ events'[Len(events) + 1] = ev /\ \A i \in DOMAIN events : events'[i] = events[i]
      BY <1>2, <2>2
    <3>2. \A i \in DOMAIN events' : i \in DOMAIN events \/ i = Len(events) + 1
      BY <3>1
    <3>3. ASSUME NEW i \in DOMAIN events', NEW j \in DOMAIN events', i < j
          PROVE  events'[i].seq < events'[j].seq
      <4>1. i \in DOMAIN events
        BY <3>1, <3>3
      <4>2. CASE j \in DOMAIN events
        BY <3>1, <3>3, <4>1, <4>2 DEF EventsFresh, Ascending
      <4>3. CASE j = Len(events) + 1
        BY <1>2, <1>4, <3>1, <4>1, <4>3 DEF EventsFresh
      <4> QED BY <3>2, <4>2, <4>3
    <3>4. ASSUME NEW i \in DOMAIN events'
          PROVE  events'[i].seq <= seq' /\ Fresh(events'[i], n, nextId')
      <4>1. CASE i \in DOMAIN events
        <5>1. events'[i] = events[i] /\ events[i].seq <= seq /\ Fresh(events[i], n, nextId)
          BY <3>1, <4>1 DEF EventsFresh
        <5> QED BY <1>2, <1>3, <1>4, <4>1, <5>1
      <4>2. CASE i = Len(events) + 1
        BY <1>2, <1>4, <3>1, <4>2
      <4> QED BY <3>2, <4>1, <4>2
    <3> QED BY <3>3, <3>4 DEF Ascending
  <2> QED BY <1>4, <2>1, <2>2 DEF Emitted
<1>5. ASSUME NEW cmd \in Command, Submit(cmd)
      PROVE  EventsFresh(n)'
  <2>1. ASSUME NEW reason, Refused(cmd, reason), Emitted(Rejected(seq + 1, cmd, reason))
        PROVE  EventsFresh(n)'
    <3>1. Opening(Rejected(seq + 1, cmd, reason)) /\ Rejected(seq + 1, cmd, reason).seq = seq + 1
      BY DEF Opening, Rejected
    <3>2. order' = NoOrder /\ seq' = seq + 1
      BY <2>1 DEF Refused
    <3> QED BY <1>1, <1>2, <1>4, <2>1, <3>1, <3>2 DEF EventsFresh, Fresh
  <2>2. ASSUME Opened(cmd), Emitted(Accepted(seq + 1, NewOrder(cmd)))
        PROVE  EventsFresh(n)'
    <3>1. /\ Opening(Accepted(seq + 1, NewOrder(cmd)))
          /\ Accepted(seq + 1, NewOrder(cmd)).seq = seq + 1
      BY DEF Opening, Accepted
    <3>2. order'.orderId = nextId /\ seq' = seq + 1
      BY <2>2 DEF Opened, NewOrder
    <3> QED BY <1>1, <1>2, <1>4, <2>2, <3>1, <3>2 DEF EventsFresh, Fresh
  <2> QED BY <1>5, <2>1, <2>2, SubmitSteps
<1>6. ASSUME NEW user, NEW id, Cancel(user, id)
      PROVE  EventsFresh(n)'
  <2>1. order' = NoOrder
    BY <1>6, CancelSteps
  <2>2. CASE Silent /\ events' = << >>
    BY <1>1, <1>2, <2>1, <2>2 DEF EventsFresh, Ascending
  <2>3. CASE Withdrawn(id) /\ Emitted(Canceled(seq + 1, GetOrder(book, id), "USER"))
    <3>1. /\ Opening(Canceled(seq + 1, GetOrder(book, id), "USER"))
          /\ Canceled(seq + 1, GetOrder(book, id), "USER").seq = seq + 1
      BY DEF Opening, Canceled
    <3>2. seq' = seq + 1
      BY <2>3 DEF Withdrawn
    <3> QED BY <1>1, <1>2, <1>4, <2>1, <2>3, <3>1, <3>2 DEF EventsFresh, Fresh
  <2> QED BY <1>6, <2>2, <2>3, CancelSteps
<1>7. ASSUME MatchLoop
      PROVE  EventsFresh(n)'
  <2>1. order # NoOrder
    BY <1>7, LoopSteps
  <2>2. order.orderId \in n..(nextId' - 1)
    <3>1. order.orderId >= n /\ order.orderId < nextId /\ order \in Order
      BY <2>1 DEF EventsFresh, IInv, IdsOld, TypeOK
    <3>2. order.orderId \in Nat
      BY <3>1 DEF Order
    <3> QED BY <1>1, <1>2, <3>1, <3>2
  <2>3. CASE Silent /\ order' = NoOrder /\ events' = events
    <3>1. seq' = seq
      BY <2>3 DEF Silent
    <3>2. \A i \in DOMAIN events : events[i].seq <= seq /\ Fresh(events[i], n, nextId')
      BY <1>3 DEF EventsFresh
    <3> QED BY <1>1, <1>2, <2>3, <3>1, <3>2 DEF EventsFresh
  <2>4. ASSUME NEW p, NEW maker, NEW fillQty, Sold(p, maker, fillQty),
               Emitted(Trade(seq + 1, order, maker, fillQty))
        PROVE  EventsFresh(n)'
    <3> DEFINE ev == Trade(seq + 1, order, maker, fillQty)
    <3>1. ev.seq = seq + 1 /\ Fresh(ev, n, nextId')
      BY <2>2 DEF Trade, Subject, Fresh
    <3>2. seq' = seq + 1 /\ order' = [order EXCEPT !.remaining = @ - fillQty] /\ order \in Order
      BY <2>4 DEF Sold, Traded
    <3>3. order'.orderId = order.orderId
      BY <3>2 DEF Order
    <3>4. order'.orderId >= n
      BY <2>1, <3>3 DEF EventsFresh
    <3> HIDE DEF ev
    <3>5. Emitted(ev)
      BY <2>4 DEF ev
    <3> QED BY <1>1, <1>2, <1>4, <3>1, <3>2, <3>4, <3>5 DEF EventsFresh
  <2>5. ASSUME NEW reason, Killed(reason), Emitted(Canceled(seq + 1, order, reason))
        PROVE  EventsFresh(n)'
    <3> DEFINE ev == Canceled(seq + 1, order, reason)
    <3>1. ev.seq = seq + 1 /\ Fresh(ev, n, nextId')
      BY <2>2 DEF Canceled, Subject, Fresh
    <3>2. seq' = seq + 1 /\ order' = NoOrder
      BY <2>5 DEF Killed
    <3> HIDE DEF ev
    <3>3. Emitted(ev)
      BY <2>5 DEF ev
    <3> QED BY <1>1, <1>2, <1>4, <3>1, <3>2, <3>3 DEF EventsFresh
  <2> QED BY <1>7, <2>3, <2>4, <2>5, LoopSteps
<1> QED BY <1>1, <1>5, <1>6, <1>7

(* The numbers of events, and where a call's events stand.                 *)
LEMMA LogTypes ==
  ASSUME SInv
  PROVE  /\ todo \in [Handlers -> Seq(Event)] /\ stream \in Seq(Event)
         /\ blocks \in Seq(Seq(Event))
         /\ \A p \in DOMAIN stream : stream[p] \in Event /\ stream[p].seq \in Nat
         /\ \A b \in DOMAIN blocks :
              /\ b \in Nat /\ b # 0
              /\ blocks[b] \in Seq(Event)
              /\ \A i \in DOMAIN blocks[b] :
                   i \in Nat /\ blocks[b][i] \in Event /\ blocks[b][i].seq \in Nat
<1>1. /\ todo \in [Handlers -> Seq(Event)] /\ stream \in Seq(Event)
      /\ blocks \in Seq(Seq(Event))
  BY DEF SInv, ServerTypes
<1>2. \A p \in DOMAIN stream : stream[p] \in Event
  BY <1>1, ElementOfSeq, LenProperties
<1>3. \A b \in DOMAIN blocks : b \in Nat /\ b # 0 /\ blocks[b] \in Seq(Event)
  <2> DEFINE S == Seq(Event)
  <2>1. blocks \in Seq(S)
    BY <1>1
  <2> HIDE DEF S
  <2>2. DOMAIN blocks = 1..Len(blocks) /\ Len(blocks) \in Nat
    BY <2>1, LenProperties
  <2>3. \A b \in DOMAIN blocks : blocks[b] \in S
    BY <2>1, <2>2, ElementOfSeq
  <2> QED BY <2>2, <2>3 DEF S
<1>4. ASSUME NEW b \in DOMAIN blocks, NEW i \in DOMAIN blocks[b]
      PROVE  i \in Nat /\ blocks[b][i] \in Event
  <2> DEFINE s == blocks[b]
  <2>1. s \in Seq(Event) /\ i \in DOMAIN s
    BY <1>3, <1>4
  <2> HIDE DEF s
  <2>2. DOMAIN s = 1..Len(s) /\ Len(s) \in Nat
    BY <2>1, LenProperties
  <2> QED BY <2>1, <2>2, ElementOfSeq DEF s
<1> QED BY <1>1, <1>2, <1>3, <1>4, EventSeqs

(* Nothing moves, and numbers and ids are given out at most.               *)
LEMMA LogUnmoved ==
  ASSUME SInv, NEW n, NEW own, NEW cut, LInv(n, own, cut), EventsFresh(n)',
         nextId \in Nat, nextId' \in Nat, nextId <= nextId',
         CallStart \in Nat, CallStart' \in Nat, CallStart <= CallStart',
         UNCHANGED <<stream, blocks, todo, givenUp>>
  PROVE  LInv(n, own, cut)'
<1> HIDE DEF CallStart
<1>1. n \in Nat /\ \A ev : Fresh(ev, n, nextId) => Fresh(ev, n, nextId')
  BY DEF Fresh, LInv, EventsFresh
<1>2. BlocksFresh(n)'
  <2> SUFFICES ASSUME NEW b \in DOMAIN blocks, NEW i \in DOMAIN blocks[b]
               PROVE  blocks[b][i].seq < CallStart' /\ Fresh(blocks[b][i], n, nextId')
    BY DEF LInv, BlocksFresh
  <2>1. blocks[b][i].seq < CallStart /\ Fresh(blocks[b][i], n, nextId)
    BY DEF LInv, BlocksFresh
  <2>2. blocks[b][i].seq \in Nat
    BY LogTypes
  <2> QED BY <1>1, <2>1, <2>2
<1>3. StreamOld(n)'
  <2> SUFFICES ASSUME NEW p \in DOMAIN stream
               PROVE  Stale(stream[p], n) \/ stream[p].seq < CallStart'
    BY DEF StreamOld
  <2>1. Stale(stream[p], n) \/ stream[p].seq < CallStart
    BY DEF LInv, StreamOld
  <2>2. stream[p].seq \in Nat
    BY LogTypes
  <2> QED BY <2>1, <2>2
<1>4. Owners(n, own, cut)' /\ Parts(own, cut)'
  BY DEF LInv, Owners, Parts
<1> QED BY <1>2, <1>3, <1>4 DEF LInv

(* The events of two calls, and two events of one, are different.          *)
LEMMA EventsDiffer ==
  ASSUME SInv, NEW n, BlocksFresh(n),
         NEW b \in DOMAIN blocks, NEW c \in DOMAIN blocks,
         NEW i \in DOMAIN blocks[b], NEW j \in DOMAIN blocks[c], blocks[b][i] = blocks[c][j]
  PROVE  b = c /\ i = j
<1>1. /\ b \in Nat /\ c \in Nat /\ i \in Nat /\ j \in Nat
      /\ blocks[b][i].seq \in Nat /\ blocks[c][j].seq \in Nat
  BY LogTypes
<1>2. b = c
  <2>1. ~(b < c)
    BY <1>1 DEF BlocksFresh
  <2>2. ~(c < b)
    BY <1>1 DEF BlocksFresh
  <2> QED BY <1>1, <2>1, <2>2
<1>3. i = j
  <2>1. ~(i < j)
    BY <1>1, <1>2 DEF BlocksFresh, Ascending
  <2>2. ~(j < i)
    BY <1>1, <1>2 DEF BlocksFresh, Ascending
  <2> QED BY <1>1, <2>1, <2>2
<1> QED BY <1>2, <1>3

(* No event of an engine that is no more is one of a call of the present.  *)
LEMMA StaleDiffers ==
  ASSUME NEW n \in Nat, NEW m, NEW e, NEW f, Stale(e, n), Fresh(f, n, m)
  PROVE  e # f
BY DEF Stale, Fresh

(* A call has returned: its events are all still to be written.            *)
LEMMA CallReturned ==
  ASSUME SInv, IInv', NEW h \in Handlers, todo[h] = << >>,
         NEW n, NEW own, NEW cut, LInv(n, own, cut), EventsFresh(n)',
         nextId \in Nat, nextId' \in Nat, nextId <= nextId',
         seq' \in Nat, CallStart \in Nat, CallStart' = seq' + 1,
         events' # << >>, events'[1].seq = CallStart, CallStart <= seq',
         todo' = [todo EXCEPT ![h] = events'], blocks' = Append(blocks, events'),
         UNCHANGED <<stream, givenUp>>
  PROVE  \E mine, past : LInv(n, mine, past)'
<1> HIDE DEF CallStart
<1>0. PICK m \in Nat : m = Len(blocks) + 1
  BY LenProperties, LogTypes
<1> DEFINE mine == [own EXCEPT ![h] = m]
           past == [cut EXCEPT ![m] = 0]
<1>1. /\ todo \in [Handlers -> Seq(Event)] /\ stream \in Seq(Event)
      /\ blocks \in Seq(Seq(Event)) /\ events' \in Seq(Event) /\ n \in Nat
      /\ own \in [Handlers -> Nat] /\ cut \in [Nat -> Nat]
  BY LogTypes DEF IInv, TypeOK, LInv, EventsFresh, Owners
<1>2. /\ Len(blocks) \in Nat /\ DOMAIN blocks = 1..Len(blocks) /\ DOMAIN blocks' = 1..m
      /\ blocks'[m] = events' /\ \A b \in DOMAIN blocks : blocks'[b] = blocks[b]
  <2> DEFINE S == Seq(Event)
             e == events'
  <2>1. blocks \in Seq(S) /\ e \in S /\ blocks' = Append(blocks, e)
    BY <1>1
  <2> HIDE DEF S, e
  <2>2. /\ Len(blocks) \in Nat /\ DOMAIN blocks = 1..Len(blocks)
        /\ DOMAIN Append(blocks, e) = 1..(Len(blocks) + 1)
        /\ Append(blocks, e)[Len(blocks) + 1] = e
        /\ \A b \in DOMAIN blocks : Append(blocks, e)[b] = blocks[b]
    BY <2>1, AppendFacts
  <2> QED BY <1>0, <2>1, <2>2 DEF e
<1>3. /\ m \in Nat /\ m # 0 /\ m \notin DOMAIN blocks /\ m \in DOMAIN blocks'
      /\ \A b \in DOMAIN blocks' : b \in DOMAIN blocks \/ b = m
      /\ \A b \in DOMAIN blocks : b \in DOMAIN blocks' /\ b < m
  BY <1>0, <1>2
<1>4. /\ mine \in [Handlers -> Nat] /\ mine[h] = m
      /\ \A g \in Handlers : g # h => mine[g] = own[g]
      /\ past \in [Nat -> Nat] /\ past[m] = 0
      /\ \A b \in DOMAIN blocks : past[b] = cut[b]
  <2>1. \A b \in DOMAIN blocks : b \in Nat /\ b # m
    BY <1>3, LogTypes
  <2> QED BY <1>1, <1>3, <2>1
<1>5. todo'[h] = events' /\ \A g \in Handlers : g # h => todo'[g] = todo[g]
  BY <1>1
<1> HIDE DEF mine, past
<1>6. \A i \in DOMAIN events' : /\ events'[i].seq \in Nat
                               /\ events'[i].seq <= seq' /\ CallStart <= events'[i].seq
                               /\ Fresh(events'[i], n, nextId')
  <2> SUFFICES ASSUME NEW i \in DOMAIN events'
               PROVE  /\ events'[i].seq \in Nat
                      /\ events'[i].seq <= seq' /\ CallStart <= events'[i].seq
                      /\ Fresh(events'[i], n, nextId')
    OBVIOUS
  <2> DEFINE t == events'
  <2>1. t \in Seq(Event) /\ i \in DOMAIN t /\ t # << >>
    BY <1>1
  <2>2. Ascending(t) /\ t[i].seq <= seq' /\ Fresh(t[i], n, nextId') /\ t[1].seq = CallStart
    BY DEF EventsFresh
  <2> HIDE DEF t
  <2>3. DOMAIN t = 1..Len(t) /\ Len(t) \in Nat /\ 1 \in DOMAIN t /\ t[i] \in Event
    BY <2>1, TailFacts, ElementOfSeq, LenProperties
  <2>4. t[i].seq \in Nat
    BY <2>3, EventSeqs
  <2>5. i = 1 \/ 1 < i
    BY <2>1, <2>3
  <2>6. CallStart <= t[i].seq
    BY <2>1, <2>2, <2>3, <2>4, <2>5 DEF Ascending
  <2> QED BY <2>2, <2>4, <2>6 DEF t
<1>7. \A ev : Fresh(ev, n, nextId) => Fresh(ev, n, nextId')
  BY <1>1 DEF Fresh
<1>8. BlocksFresh(n)'
  <2>1. ASSUME NEW b \in DOMAIN blocks'
        PROVE  /\ Ascending(blocks'[b])
               /\ \A i \in DOMAIN blocks'[b] :
                    blocks'[b][i].seq < seq' + 1 /\ Fresh(blocks'[b][i], n, nextId')
    <3>1. CASE b = m
      <4>1. Ascending(events')
        BY DEF EventsFresh
      <4> QED BY <1>2, <1>6, <3>1, <4>1
    <3>2. CASE b \in DOMAIN blocks
      <4>1. Ascending(blocks[b]) /\ blocks'[b] = blocks[b]
        BY <1>2, <3>2 DEF LInv, BlocksFresh
      <4>2. ASSUME NEW i \in DOMAIN blocks[b]
            PROVE  blocks[b][i].seq < seq' + 1 /\ Fresh(blocks[b][i], n, nextId')
        <5>1. blocks[b][i].seq < CallStart /\ Fresh(blocks[b][i], n, nextId)
          BY <3>2 DEF LInv, BlocksFresh
        <5>2. blocks[b][i].seq \in Nat
          BY <3>2, LogTypes
        <5> QED BY <1>7, <5>1, <5>2
      <4> QED BY <4>1, <4>2
    <3> QED BY <1>3, <2>1, <3>1, <3>2
  <2>2. ASSUME NEW b \in DOMAIN blocks', NEW c \in DOMAIN blocks', b < c,
               NEW i \in DOMAIN blocks'[b], NEW j \in DOMAIN blocks'[c]
        PROVE  blocks'[b][i].seq < blocks'[c][j].seq
    <3>1. b \in DOMAIN blocks
      BY <1>2, <1>3, <2>2
    <3>2. blocks'[b] = blocks[b] /\ i \in DOMAIN blocks[b]
      BY <1>2, <2>2, <3>1
    <3>3. CASE c \in DOMAIN blocks
      <4>1. blocks'[c] = blocks[c] /\ j \in DOMAIN blocks[c]
        BY <1>2, <2>2, <3>3
      <4> QED BY <2>2, <3>1, <3>2, <3>3, <4>1 DEF LInv, BlocksFresh
    <3>4. CASE c = m
      <4>1. blocks'[c] = events' /\ j \in DOMAIN events'
        BY <1>2, <2>2, <3>4
      <4>2. blocks[b][i].seq < CallStart /\ blocks[b][i].seq \in Nat
        BY <3>1, <3>2, LogTypes DEF LInv, BlocksFresh
      <4>3. CallStart <= events'[j].seq /\ events'[j].seq \in Nat
        BY <1>6, <4>1
      <4> QED BY <3>2, <4>1, <4>2, <4>3
    <3> QED BY <1>3, <2>2, <3>3, <3>4
  <2> QED BY <2>1, <2>2 DEF BlocksFresh
<1>9. StreamOld(n)'
  <2> SUFFICES ASSUME NEW p \in DOMAIN stream
               PROVE  Stale(stream[p], n) \/ stream[p].seq < seq' + 1
    BY DEF StreamOld
  <2>1. Stale(stream[p], n) \/ stream[p].seq < CallStart
    BY DEF LInv, StreamOld
  <2>2. stream[p].seq \in Nat
    BY LogTypes
  <2> QED BY <2>1, <2>2
<1>10. Owners(n, mine, past)'
  <2>1. ASSUME NEW g \in Handlers
        PROVE  IF mine[g] = 0 THEN \A i \in DOMAIN todo'[g] : Stale(todo'[g][i], n)
               ELSE mine[g] \in DOMAIN blocks'
                    /\ todo'[g] = Missing(blocks'[mine[g]], past[mine[g]])
    <3>1. CASE g = h
      <4>1. Missing(events', 0) = events'
        <5>1. 0 \in Nat /\ 0 <= Len(events')
          BY <1>1, LenProperties
        <5> QED BY <1>1, <5>1, MissingFacts
      <4> QED BY <1>2, <1>3, <1>4, <1>5, <3>1, <4>1
    <3>2. CASE g # h
      <4>1. IF own[g] = 0 THEN \A i \in DOMAIN todo[g] : Stale(todo[g][i], n)
            ELSE own[g] \in DOMAIN blocks /\ todo[g] = Missing(blocks[own[g]], cut[own[g]])
        BY DEF LInv, Owners
      <4>2. mine[g] = own[g] /\ todo'[g] = todo[g]
        BY <1>4, <1>5, <3>2
      <4> QED BY <1>2, <1>3, <1>4, <4>1, <4>2
    <3> QED BY <3>1, <3>2
  <2>2. ASSUME NEW f \in Handlers, NEW g \in Handlers, mine[f] = mine[g], mine[g] # 0
        PROVE  f = g
    <3>1. \A k \in Handlers : k # h => mine[k] = own[k] /\ mine[k] # m
      <4>1. \A k \in Handlers : own[k] # m
        BY <1>3 DEF LInv, Owners
      <4> QED BY <1>4, <4>1
    <3>2. \A x, y \in Handlers : own[x] = own[y] /\ own[y] # 0 => x = y
      BY DEF LInv, Owners
    <3>3. CASE f # h /\ g # h
      BY <2>2, <3>1, <3>2, <3>3
    <3> QED BY <1>4, <2>2, <3>1, <3>3
  <2> QED BY <1>4, <2>1, <2>2 DEF Owners
<1>11. Parts(mine, past)'
  <2> SUFFICES ASSUME NEW b \in DOMAIN blocks'
               PROVE  /\ past[b] <= Len(blocks'[b])
                      /\ LoggedUpTo(stream, blocks'[b], past[b])
                      /\ \/ Missing(blocks'[b], past[b]) = << >>
                         \/ \E g \in Handlers : mine[g] = b
                         \/ ToSet(Missing(blocks'[b], past[b])) \subseteq givenUp
    BY DEF Parts
  <2>1. CASE b = m
    <3>1. blocks'[b] = events' /\ past[b] = 0 /\ mine[h] = b
      BY <1>2, <1>4, <2>1
    <3>2. 0 <= Len(events')
      BY <1>1, LenProperties
    <3>3. ASSUME NEW p \in DOMAIN stream, NEW i \in DOMAIN events' PROVE stream[p] # events'[i]
      <4>1. CASE Stale(stream[p], n)
        BY <1>1, <1>6, <4>1, StaleDiffers
      <4>2. CASE stream[p].seq < CallStart
        <5>1. stream[p].seq \in Nat /\ events'[i].seq \in Nat /\ CallStart <= events'[i].seq
          BY <1>6, LogTypes
        <5> QED BY <4>2, <5>1
      <4> QED BY <4>1, <4>2 DEF LInv, StreamOld
    <3>4. LoggedUpTo(stream, events', 0)
      BY <3>3, LoggedNone
    <3> QED BY <3>1, <3>2, <3>4
  <2>2. CASE b \in DOMAIN blocks
    <3>1. blocks'[b] = blocks[b] /\ past[b] = cut[b]
      BY <1>2, <1>4, <2>2
    <3>2. /\ cut[b] <= Len(blocks[b]) /\ LoggedUpTo(stream, blocks[b], cut[b])
          /\ \/ Missing(blocks[b], cut[b]) = << >>
             \/ \E g \in Handlers : own[g] = b
             \/ ToSet(Missing(blocks[b], cut[b])) \subseteq givenUp
      BY <2>2 DEF LInv, Parts
    <3>3. ASSUME NEW g \in Handlers, own[g] = b
          PROVE  Missing(blocks[b], cut[b]) = << >> \/ mine[g] = b
      <4>1. CASE g = h
        <5>1. b # 0
          BY <2>2, LogTypes
        <5>2. todo[h] = Missing(blocks[b], cut[b])
          BY <3>3, <4>1, <5>1 DEF LInv, Owners
        <5> QED BY <5>2
      <4>2. CASE g # h
        BY <1>4, <3>3, <4>2
      <4> QED BY <4>1, <4>2
    <3> QED BY <3>1, <3>2, <3>3
  <2> QED BY <1>3, <2>1, <2>2
<1>12. LInv(n, mine, past)'
  BY <1>8, <1>9, <1>10, <1>11 DEF LInv
<1> QED BY <1>12

(* A step of the matcher in a handler.                                     *)
LEMMA HandOverLogs ==
  ASSUME SInv, IInv', NEW h \in Handlers, todo[h] = << >>,
         \/ \E cmd \in Command : Submit(cmd)
         \/ \E user \in Users, id \in 1..MaxOrders : Cancel(user, id)
         \/ MatchLoop,
         HandOver(h), UNCHANGED <<stream, givenUp>>,
         NEW n, NEW own, NEW cut, LInv(n, own, cut)
  PROVE  \E mine, past : LInv(n, mine, past)'
<1>1. /\ seq' \in Nat /\ CallStart \in Nat /\ CallStart <= seq' + 1
      /\ events' # << >> => events'[1].seq = CallStart /\ CallStart <= seq'
      /\ events' = << >> => order' = NoOrder
  BY MatcherShape DEF SInv
<1>2. EventsFresh(n)' /\ nextId \in Nat /\ nextId' \in Nat /\ nextId <= nextId'
  BY MatcherFresh DEF SInv, LInv
<1>3. order' = NoOrder => CallStart' = seq' + 1
  BY DEF CallStart
<1>4. order' # NoOrder => CallStart' = CallStart
  <2> SUFFICES ASSUME order' # NoOrder PROVE CallStart' = CallStart
    OBVIOUS
  <2>1. events'[1].seq = CallStart
    BY <1>1
  <2> QED BY <2>1 DEF CallStart
<1> HIDE DEF CallStart
<1>5. CASE order' # NoOrder
  <2>1. UNCHANGED <<todo, blocks>>
    BY <1>5 DEF HandOver
  <2>2. CallStart' \in Nat /\ CallStart <= CallStart'
    BY <1>1, <1>4, <1>5
  <2>3. LInv(n, own, cut)'
    BY <1>1, <1>2, <2>1, <2>2, LogUnmoved
  <2> QED BY <2>3
<1>6. CASE order' = NoOrder /\ events' = << >>
  <2>1. blocks' = blocks /\ todo' = [todo EXCEPT ![h] = << >>]
    BY <1>6 DEF HandOver
  <2>2. todo' = todo
    BY <2>1, LogTypes
  <2>3. CallStart' \in Nat /\ CallStart <= CallStart'
    <3>1. seq' \in Nat /\ CallStart \in Nat /\ CallStart <= seq' + 1
      BY <1>1
    <3>2. CallStart' = seq' + 1
      BY <1>3, <1>6
    <3>3. \A i, j, k : i \in Nat /\ j \in Nat /\ j <= i + 1 /\ k = i + 1 => k \in Nat /\ j <= k
      OBVIOUS
    <3> QED BY <3>1, <3>2, <3>3
  <2>4. LInv(n, own, cut)'
    BY <1>1, <1>2, <2>1, <2>2, <2>3, LogUnmoved
  <2> QED BY <2>4
<1>7. CASE order' = NoOrder /\ events' # << >>
  <2>1. todo' = [todo EXCEPT ![h] = events'] /\ blocks' = Append(blocks, events')
    BY <1>7 DEF HandOver
  <2> QED BY <1>1, <1>2, <1>3, <1>7, <2>1, CallReturned
<1> QED BY <1>5, <1>6, <1>7

(* Redis executes an XADD.                                                 *)
LEMMA LandLogs ==
  ASSUME SInv, Land, NEW n, NEW own, NEW cut, LInv(n, own, cut)
  PROVE  \E past : LInv(n, own, past)'
<1>1. PICK h \in Handlers :
        /\ todo[h] # << >> /\ stream' = Append(stream, Head(todo[h]))
        /\ todo' = [todo EXCEPT ![h] = Tail(todo[h])]
  <2> DEFINE g == Head(wire)
  <2>1. /\ wire # << >> /\ g # "DEL"
        /\ stream' = Append(stream, Head(todo[g])) /\ todo' = [todo EXCEPT ![g] = Tail(todo[g])]
    BY DEF Land
  <2>2. 1 \in DOMAIN wire /\ g = wire[1] /\ wire[1] \in Commands
    <3>1. wire \in Seq(Commands)
      BY DEF SInv, ServerTypes
    <3> QED BY <2>1, <3>1, TailFacts, ElementOfSeq
  <2>3. g \in Handlers /\ todo[g] # << >>
    BY <2>1, <2>2 DEF SInv, WireOK, Commands
  <2> QED BY <2>1, <2>3
<1>2. UNCHANGED <<blocks, givenUp>> /\ UNCHANGED vars /\ CallStart' = CallStart
  BY MatcherAlone DEF Land
<1>3. /\ n \in Nat /\ todo \in [Handlers -> Seq(Event)] /\ stream \in Seq(Event)
      /\ own \in [Handlers -> Nat] /\ cut \in [Nat -> Nat]
  BY LogTypes DEF LInv, EventsFresh, Owners
<1>4. /\ todo'[h] = Tail(todo[h]) /\ \A g \in Handlers : g # h => todo'[g] = todo[g]
  BY <1>1, <1>3
<1>5. EventsFresh(n)' /\ BlocksFresh(n)'
  BY <1>2 DEF LInv, EventsFresh, BlocksFresh, vars
<1>6. PICK e \in Event : /\ e = todo[h][1] /\ e = Head(todo[h]) /\ 1 \in DOMAIN todo[h]
                         /\ stream' = Append(stream, e)
  <2> DEFINE s == todo[h]
  <2>1. s \in Seq(Event) /\ s # << >>
    BY <1>1, <1>3
  <2> HIDE DEF s
  <2>2. Head(s) = s[1] /\ 1 \in DOMAIN s /\ s[1] \in Event
    BY <2>1, TailFacts, ElementOfSeq
  <2> QED BY <1>1, <2>2 DEF s
<1>7. ASSUME NEW past, Stale(e, n) \/ e.seq < CallStart, Owners(n, own, past)', Parts(own, past)'
      PROVE  LInv(n, own, past)'
  <2>1. \A p \in DOMAIN stream' : \/ p \in DOMAIN stream /\ stream'[p] = stream[p]
                                 \/ stream'[p] = e
    <3> DEFINE longer == Append(stream, e)
    <3>0. /\ Len(stream) \in Nat /\ DOMAIN stream = 1..Len(stream)
          /\ DOMAIN longer = 1..(Len(stream) + 1) /\ longer[Len(stream) + 1] = e
          /\ \A p \in DOMAIN stream : longer[p] = stream[p]
      <4>1. stream \in Seq(Event)
        BY <1>3
      <4> QED BY <4>1, AppendFacts
    <3> HIDE DEF longer
    <3>1. /\ Len(stream) \in Nat /\ DOMAIN stream = 1..Len(stream)
          /\ DOMAIN stream' = 1..(Len(stream) + 1) /\ stream'[Len(stream) + 1] = e
          /\ \A p \in DOMAIN stream : stream'[p] = stream[p]
      BY <1>6, <3>0 DEF longer
    <3>2. \A p \in DOMAIN stream' : p \in DOMAIN stream \/ p = Len(stream) + 1
      BY <3>1
    <3> QED BY <3>1, <3>2
  <2>2. StreamOld(n)'
    BY <1>2, <1>7, <2>1 DEF LInv, StreamOld
  <2> QED BY <1>5, <1>7, <2>2 DEF LInv
<1>8. CASE own[h] = 0
  <2>1. Stale(e, n) /\ \A i \in DOMAIN todo'[h] : Stale(todo'[h][i], n)
    <3>1. \A i \in DOMAIN todo[h] : Stale(todo[h][i], n)
      BY <1>8 DEF LInv, Owners
    <3> DEFINE s == todo[h]
    <3>2. s \in Seq(Event) /\ s # << >>
      BY <1>1, <1>3
    <3> HIDE DEF s
    <3>3. \A i \in DOMAIN Tail(s) : i + 1 \in DOMAIN s /\ Tail(s)[i] = s[i + 1]
      BY <3>2, TailFacts
    <3>4. \A i \in DOMAIN Tail(s) : Stale(Tail(s)[i], n)
      BY <3>1, <3>3 DEF s
    <3> QED BY <1>4, <1>6, <3>1, <3>4 DEF s
  <2>2. Owners(n, own, cut)'
    <3> SUFFICES ASSUME NEW g \in Handlers
                 PROVE  IF own[g] = 0 THEN \A i \in DOMAIN todo'[g] : Stale(todo'[g][i], n)
                        ELSE /\ own[g] \in DOMAIN blocks
                             /\ todo'[g] = Missing(blocks[own[g]], cut[own[g]])
      BY <1>2 DEF LInv, Owners
    <3>1. IF own[g] = 0 THEN \A i \in DOMAIN todo[g] : Stale(todo[g][i], n)
          ELSE own[g] \in DOMAIN blocks /\ todo[g] = Missing(blocks[own[g]], cut[own[g]])
      BY DEF LInv, Owners
    <3> QED BY <1>4, <1>8, <2>1, <3>1
  <2>3. Parts(own, cut)'
    <3> SUFFICES ASSUME NEW b \in DOMAIN blocks
                 PROVE  LoggedUpTo(stream', blocks[b], cut[b])
      BY <1>2 DEF LInv, Parts
    <3>1. \A i \in DOMAIN blocks[b] : blocks[b][i] # e
      <4> SUFFICES ASSUME NEW i \in DOMAIN blocks[b] PROVE blocks[b][i] # e
        OBVIOUS
      <4>1. Fresh(blocks[b][i], n, nextId)
        BY DEF LInv, BlocksFresh
      <4> QED BY <1>3, <2>1, <4>1, StaleDiffers
    <3>2. LoggedUpTo(stream, blocks[b], cut[b])
      BY DEF LInv, Parts
    <3> QED BY <1>3, <1>6, <3>1, <3>2, LoggedOther
  <2>4. LInv(n, own, cut)'
    BY <1>7, <2>1, <2>2, <2>3
  <2> QED BY <2>4
<1>9. CASE own[h] # 0
  <2>1. PICK b \in Nat : b = own[h] /\ b \in DOMAIN blocks /\ todo[h] = Missing(blocks[b], cut[b])
    BY <1>3, <1>9 DEF LInv, Owners
  <2>2. PICK k \in Nat : k = cut[b]
    BY <1>3
  <2> DEFINE past == [cut EXCEPT ![b] = k + 1]
  <2>3. /\ past[b] = k + 1 /\ \A c \in Nat : c # b => past[c] = cut[c]
        /\ past \in [Nat -> Nat]
    <3>1. k + 1 \in Nat
      OBVIOUS
    <3>2. cut \in [Nat -> Nat]
      BY <1>3
    <3> QED BY <3>1, <3>2
  <2> HIDE DEF past
  <2>4. /\ blocks[b] \in Seq(Event) /\ k <= Len(blocks[b]) /\ LoggedUpTo(stream, blocks[b], k)
        /\ todo[h] = Missing(blocks[b], k)
    BY <2>1, <2>2, LogTypes DEF LInv, Parts
  <2>5. /\ k < Len(blocks[b]) /\ k + 1 \in DOMAIN blocks[b] /\ e = blocks[b][k + 1]
        /\ todo'[h] = Missing(blocks[b], k + 1) /\ Len(blocks[b]) \in Nat
    <3> DEFINE call == blocks[b]
    <3>1. call \in Seq(Event) /\ k <= Len(call) /\ Missing(call, k) # << >>
      BY <1>1, <2>4
    <3> HIDE DEF call
    <3>2. /\ k < Len(call) /\ k + 1 \in DOMAIN call /\ Len(call) \in Nat
          /\ Head(Missing(call, k)) = call[k + 1]
          /\ Tail(Missing(call, k)) = Missing(call, k + 1)
      BY <3>1, MissingFacts
    <3> QED BY <1>4, <1>6, <2>4, <3>2 DEF call
  <2>6. \A c \in DOMAIN blocks :
          \A i \in DOMAIN blocks[c] : blocks[c][i] = e => c = b /\ i = k + 1
    BY <2>1, <2>5, EventsDiffer DEF LInv
  <2>7. e.seq < CallStart
    BY <2>1, <2>5 DEF LInv, BlocksFresh
  <2>8. Owners(n, own, past)'
    <3> SUFFICES ASSUME NEW g \in Handlers
                 PROVE  IF own[g] = 0 THEN \A i \in DOMAIN todo'[g] : Stale(todo'[g][i], n)
                        ELSE /\ own[g] \in DOMAIN blocks
                             /\ todo'[g] = Missing(blocks[own[g]], past[own[g]])
      BY <1>2, <2>3 DEF LInv, Owners
    <3>1. CASE g = h
      BY <1>9, <2>1, <2>3, <2>5, <3>1
    <3>2. CASE g # h
      <4>1. IF own[g] = 0 THEN \A i \in DOMAIN todo[g] : Stale(todo[g][i], n)
            ELSE own[g] \in DOMAIN blocks /\ todo[g] = Missing(blocks[own[g]], cut[own[g]])
        BY DEF LInv, Owners
      <4>2. own[g] # 0 => own[g] # b
        BY <2>1, <3>2 DEF LInv, Owners
      <4> QED BY <1>3, <1>4, <2>3, <3>2, <4>1, <4>2
    <3> QED BY <3>1, <3>2
  <2>9. Parts(own, past)'
    <3> SUFFICES ASSUME NEW c \in DOMAIN blocks
                 PROVE  /\ past[c] <= Len(blocks[c])
                        /\ LoggedUpTo(stream', blocks[c], past[c])
                        /\ \/ Missing(blocks[c], past[c]) = << >>
                           \/ \E g \in Handlers : own[g] = c
                           \/ ToSet(Missing(blocks[c], past[c])) \subseteq givenUp
      BY <1>2 DEF Parts
    <3>1. CASE c = b
      <4>1. \A i, j \in DOMAIN blocks[b] : blocks[b][i] = blocks[b][j] => i = j
        BY <2>1, EventsDiffer DEF LInv
      <4>2. LoggedUpTo(Append(stream, e), blocks[b], k + 1)
        BY <1>3, <2>4, <2>5, <4>1, LoggedNext
      <4>3. past[c] = k + 1 /\ k + 1 <= Len(blocks[b]) /\ own[h] = c
        BY <2>1, <2>3, <2>5, <3>1
      <4> QED BY <1>6, <3>1, <4>2, <4>3
    <3>2. CASE c # b
      <4>1. c \in Nat /\ past[c] = cut[c]
        BY <2>3, <3>2, LogTypes
      <4>2. /\ cut[c] <= Len(blocks[c]) /\ LoggedUpTo(stream, blocks[c], cut[c])
            /\ \/ Missing(blocks[c], cut[c]) = << >>
               \/ \E g \in Handlers : own[g] = c
               \/ ToSet(Missing(blocks[c], cut[c])) \subseteq givenUp
        BY DEF LInv, Parts
      <4>3. LoggedUpTo(Append(stream, e), blocks[c], cut[c])
        BY <1>3, <2>6, <3>2, <4>2, LoggedOther
      <4> QED BY <1>6, <4>1, <4>2, <4>3
    <3> QED BY <3>1, <3>2
  <2>10. LInv(n, own, past)'
    BY <1>7, <2>7, <2>8, <2>9
  <2> QED BY <2>10
<1> QED BY <1>8, <1>9

(* A refused append: the handler gives up what is missing of its call.     *)
LEMMA AppendFailsLogs ==
  ASSUME SInv, NEW h \in Handlers, AppendFails(h), NEW n, NEW own, NEW cut, LInv(n, own, cut)
  PROVE  \E mine : LInv(n, mine, cut)'
<1> DEFINE mine == [own EXCEPT ![h] = 0]
<1>1. /\ todo' = [todo EXCEPT ![h] = << >>] /\ givenUp' = givenUp \cup ToSet(todo[h])
      /\ UNCHANGED vars /\ UNCHANGED <<stream, blocks>> /\ CallStart' = CallStart
  BY MatcherAlone DEF AppendFails
<1>2. todo \in [Handlers -> Seq(Event)] /\ own \in [Handlers -> Nat]
  BY LogTypes DEF LInv, Owners
<1>3. /\ todo'[h] = << >> /\ \A g \in Handlers : g # h => todo'[g] = todo[g]
      /\ mine \in [Handlers -> Nat]
      /\ mine[h] = 0 /\ \A g \in Handlers : g # h => mine[g] = own[g]
  BY <1>1, <1>2
<1> HIDE DEF mine
<1>4. EventsFresh(n)' /\ BlocksFresh(n)' /\ StreamOld(n)'
  BY <1>1 DEF LInv, EventsFresh, BlocksFresh, StreamOld, vars
<1>5. Owners(n, mine, cut)'
  <2>1. ASSUME NEW g \in Handlers
        PROVE  IF mine[g] = 0 THEN \A i \in DOMAIN todo'[g] : Stale(todo'[g][i], n)
               ELSE mine[g] \in DOMAIN blocks /\ todo'[g] = Missing(blocks[mine[g]], cut[mine[g]])
    <3>1. CASE g = h
      <4>1. DOMAIN todo'[g] = {}
        BY <1>3, <3>1, EmptySeq
      <4> QED BY <1>3, <3>1, <4>1
    <3>2. CASE g # h
      BY <1>3, <3>2 DEF LInv, Owners
    <3> QED BY <3>1, <3>2
  <2>2. ASSUME NEW f \in Handlers, NEW g \in Handlers, mine[f] = mine[g], mine[g] # 0
        PROVE  f = g
    <3>1. f # h /\ g # h
      BY <1>3, <2>2
    <3>2. own[f] = own[g] /\ own[g] # 0
      BY <1>3, <2>2, <3>1
    <3> QED BY <3>2 DEF LInv, Owners
  <2>3. cut \in [Nat -> Nat]
    BY DEF LInv, Owners
  <2> QED BY <1>1, <1>3, <2>1, <2>2, <2>3 DEF Owners
<1>6. Parts(mine, cut)'
  <2> SUFFICES ASSUME NEW b \in DOMAIN blocks
               PROVE  \/ Missing(blocks[b], cut[b]) = << >>
                      \/ \E g \in Handlers : mine[g] = b
                      \/ ToSet(Missing(blocks[b], cut[b])) \subseteq givenUp'
    BY <1>1 DEF LInv, Parts
  <2>1. \/ Missing(blocks[b], cut[b]) = << >>
        \/ \E g \in Handlers : own[g] = b
        \/ ToSet(Missing(blocks[b], cut[b])) \subseteq givenUp
    BY DEF LInv, Parts
  <2>2. ASSUME own[h] = b
        PROVE  ToSet(Missing(blocks[b], cut[b])) \subseteq givenUp'
    <3>1. b # 0
      BY LogTypes
    <3>2. todo[h] = Missing(blocks[b], cut[b])
      BY <2>2, <3>1 DEF LInv, Owners
    <3> QED BY <1>1, <3>2
  <2> QED BY <1>1, <1>3, <2>1, <2>2
<1>7. LInv(n, mine, cut)'
  BY <1>4, <1>5, <1>6 DEF LInv
<1> QED BY <1>7

(* The reset: what handlers still have to write is about orders of the     *)
(* engine that is no more.  No opener is among it, as none is behind a DEL. *)
LEMMA FinishResetLogs ==
  ASSUME SInv, SInv', FinishReset, NEW n, NEW own, NEW cut, LInv(n, own, cut)
  PROVE  \E m, mine : LInv(m, mine, cut)'
<1>1. /\ wire # << >> /\ Head(wire) = "DEL" /\ running = NoHandler
      /\ stream' = << >> /\ blocks' = << >> /\ seq' = 0 /\ events' = << >>
      /\ UNCHANGED <<nextId, order, todo>>
  BY DEF FinishReset
<1>2. order' = NoOrder
  BY <1>1 DEF SInv, OneThread
<1>3. PICK m \in Nat : m = nextId
  BY DEF SInv, IInv, TypeOK
<1>4. DOMAIN << >> = {}
  BY EmptySeq
<1> DEFINE mine == [h \in Handlers |-> 0]
<1>5. mine \in [Handlers -> Nat] /\ \A h \in Handlers : mine[h] = 0
  OBVIOUS
<1> HIDE DEF mine
<1>6. EventsFresh(m)' /\ BlocksFresh(m)' /\ StreamOld(m)' /\ Parts(mine, cut)'
  BY <1>1, <1>2, <1>3, <1>4 DEF EventsFresh, Ascending, BlocksFresh, StreamOld, Parts
<1>7. ASSUME NEW h \in Handlers, NEW i \in DOMAIN todo[h]
      PROVE  ~Opening(todo[h][i])
  <2> SUFFICES ASSUME Opening(todo[h][i]) PROVE FALSE
    OBVIOUS
  <2>1. PICK k \in DOMAIN wire : wire[k] = h /\ i = 1
    BY DEF SInv, TodoShape
  <2>2. wire \in Seq(Commands)
    BY DEF SInv, ServerTypes
  <2>3. 1 \in DOMAIN wire /\ Head(wire) = wire[1] /\ DOMAIN wire = 1..Len(wire) /\ Len(wire) \in Nat
    BY <1>1, <2>2, TailFacts
  <2>4. h # "DEL"
    BY HandlersAssumption
  <2>5. k # 1 /\ 1 < k
    BY <1>1, <2>1, <2>3, <2>4
  <2>6. ~Opens(wire, todo, k)
    BY <1>1, <2>3, <2>5 DEF SInv, WireOK, NoneBehindDel
  <2> QED BY <2>1, <2>4, <2>6 DEF Opens
<1>8. ASSUME NEW h \in Handlers, NEW i \in DOMAIN todo[h]
      PROVE  Subject(todo[h][i]) < m
  <2>1. n \in Nat /\ n <= m
    BY <1>3 DEF LInv, EventsFresh
  <2>2. CASE own[h] = 0
    <3>1. Subject(todo[h][i]) < n
      BY <1>8, <2>2 DEF LInv, Owners, Stale
    <3> DEFINE s == todo[h]
    <3>2. s \in Seq(Event)
      BY LogTypes
    <3> HIDE DEF s
    <3>3. \A j \in DOMAIN s : s[j] \in Event
      BY <3>2, ElementOfSeq, LenProperties
    <3>4. Subject(todo[h][i]) \in Nat
      BY <1>7, <3>3, SubjectIsId DEF s
    <3> QED BY <2>1, <3>1, <3>4
  <2>3. CASE own[h] # 0
    <3>1. PICK b \in DOMAIN blocks : b = own[h] /\ todo[h] = Missing(blocks[b], cut[b])
      BY <2>3 DEF LInv, Owners
    <3>2. blocks[b] \in Seq(Event) /\ cut[b] \in Nat /\ cut[b] <= Len(blocks[b])
      BY LogTypes DEF LInv, Owners, Parts
    <3>3. PICK j \in DOMAIN blocks[b] : todo[h][i] = blocks[b][j]
      BY <1>8, <3>1, <3>2, MissingFacts
    <3>4. Fresh(todo[h][i], n, m)
      BY <1>3, <3>3 DEF LInv, BlocksFresh
    <3> QED BY <1>7, <1>8, <2>1, <3>4 DEF Fresh
  <2> QED BY <2>2, <2>3
<1>9. Owners(m, mine, cut)'
  BY <1>1, <1>5, <1>7, <1>8 DEF LInv, Owners, Stale
<1>10. LInv(m, mine, cut)'
  BY <1>6, <1>9 DEF LInv
<1> QED BY <1>10

LEMMA LoggingInit == ServerInit => LoggingInv
<1> SUFFICES ASSUME ServerInit PROVE LoggingInv
  OBVIOUS
<1>1. SInv
  BY ServerInitInv
<1>2. /\ todo = [h \in Handlers |-> << >>] /\ stream = << >> /\ blocks = << >>
      /\ order = NoOrder /\ events = << >> /\ nextId = 1
  BY DEF ServerInit, Init
<1>3. DOMAIN << >> = {}
  BY EmptySeq
<1> DEFINE own == [h \in Handlers |-> 0]
           cut == [b \in Nat |-> 0]
<1>4. own \in [Handlers -> Nat] /\ cut \in [Nat -> Nat] /\ \A h \in Handlers : own[h] = 0
  OBVIOUS
<1> HIDE DEF own, cut
<1>5. EventsFresh(0) /\ BlocksFresh(0) /\ StreamOld(0) /\ Parts(own, cut)
  BY <1>2, <1>3 DEF EventsFresh, Ascending, BlocksFresh, StreamOld, Parts
<1>6. Owners(0, own, cut)
  BY <1>2, <1>3, <1>4 DEF Owners
<1>7. LInv(0, own, cut)
  BY <1>5, <1>6 DEF LInv
<1> QED BY <1>1, <1>7 DEF LoggingInv

LEMMA LoggingNext ==
  ASSUME MaxCrashes = 0
  PROVE  LoggingInv /\ [ServerNext]_allVars => LoggingInv'
<1> SUFFICES ASSUME SInv, [ServerNext]_allVars, NEW n, NEW own, NEW cut, LInv(n, own, cut)
             PROVE  LoggingInv'
  BY DEF LoggingInv
<1>1. SInv'
  BY ServerNextInv
<1> SUFFICES \E m, mine, past : LInv(m, mine, past)'
  BY <1>1 DEF LoggingInv
<1>2. IInv'
  BY <1>1 DEF SInv
<1>3. ASSUME NEW h \in Handlers, Request(h)
      PROVE  \E m, mine, past : LInv(m, mine, past)'
  <2>1. \E mine, past : LInv(n, mine, past)'
    BY <1>2, <1>3, HandOverLogs DEF Request
  <2> QED BY <2>1
<1>4. CASE Compute
  <2>1. running \in Handlers /\ todo[running] = << >>
    BY <1>4 DEF Compute, SInv, ServerTypes, OneThread
  <2>2. \E mine, past : LInv(n, mine, past)'
    BY <1>2, <1>4, <2>1, HandOverLogs DEF Compute
  <2> QED BY <2>2
<1>5. CASE Land
  <2>1. \E past : LInv(n, own, past)'
    BY <1>5, LandLogs
  <2> QED BY <2>1
<1>6. ASSUME NEW h \in Handlers, AppendFails(h)
      PROVE  \E m, mine, past : LInv(m, mine, past)'
  <2>1. \E mine : LInv(n, mine, cut)'
    BY <1>6, AppendFailsLogs
  <2> QED BY <2>1
<1>7. CASE FinishReset
  <2>1. \E m, mine : LInv(m, mine, cut)'
    BY <1>1, <1>7, FinishResetLogs
  <2> QED BY <2>1
<1>8. CASE \/ \E h \in Handlers : SendNext(h)
           \/ StartReset
           \/ UNCHANGED allVars
  <2>1. UNCHANGED vars /\ UNCHANGED <<stream, blocks, todo, givenUp>>
    BY <1>8 DEF SendNext, StartReset, allVars, serverVars
  <2>2. CallStart' = CallStart
    BY <2>1, MatcherAlone
  <2>3. EventsFresh(n)' /\ BlocksFresh(n)' /\ StreamOld(n)'
    BY <2>1, <2>2 DEF LInv, EventsFresh, BlocksFresh, StreamOld, vars
  <2>4. Owners(n, own, cut)'
    BY <2>1, <2>2 DEF LInv, Owners, vars
  <2>5. Parts(own, cut)'
    BY <2>1 DEF LInv, Parts
  <2>6. LInv(n, own, cut)'
    BY <2>3, <2>4, <2>5 DEF LInv
  <2> QED BY <2>6
<1>9. CASE Restart
  <2>1. crashes \in Nat /\ crashes < 0
    BY <1>9 DEF Restart, SInv, ServerTypes
  <2> QED BY <2>1
<1> QED BY <1>3, <1>4, <1>5, <1>6, <1>7, <1>8, <1>9 DEF ServerNext

(* While the process lives, the append loops of any number of handlers,    *)
(* with failures in the middle of some and resets in between, neither lose *)
(* nor repeat nor reorder anything within a call: of each call of the      *)
(* present engine the stream has a beginning, and the rest is in the hands *)
(* of one handler or was given up when an append failed                    *)
(* (server.ts:134-147, 155-168).                                           *)
THEOREM CallsAreLoggedWhole ==
  ASSUME MaxCrashes = 0
  PROVE  ServerSpec => []CallsLoggedWhole
<1>1. LoggingInv => CallsLoggedWhole
  <2> SUFFICES ASSUME SInv, NEW n, NEW own, NEW cut, LInv(n, own, cut), NEW b \in DOMAIN blocks
               PROVE  \E k \in 0..Len(blocks[b]) :
                        /\ LoggedUpTo(stream, blocks[b], k)
                        /\ \/ Missing(blocks[b], k) = << >>
                           \/ \E h \in Handlers : todo[h] = Missing(blocks[b], k)
                           \/ ToSet(Missing(blocks[b], k)) \subseteq givenUp
    BY DEF LoggingInv, CallsLoggedWhole, Missing
  <2>1. /\ cut[b] <= Len(blocks[b]) /\ LoggedUpTo(stream, blocks[b], cut[b])
        /\ \/ Missing(blocks[b], cut[b]) = << >>
           \/ \E h \in Handlers : own[h] = b
           \/ ToSet(Missing(blocks[b], cut[b])) \subseteq givenUp
    BY DEF LInv, Parts
  <2>2. cut[b] \in 0..Len(blocks[b])
    <3>1. cut[b] \in Nat /\ blocks[b] \in Seq(Event)
      BY LogTypes DEF LInv, Owners
    <3>2. Len(blocks[b]) \in Nat
      BY <3>1, LenProperties
    <3> QED BY <2>1, <3>1, <3>2
  <2>3. \A h \in Handlers : own[h] = b => todo[h] = Missing(blocks[b], cut[b])
    <3>1. b # 0
      BY LogTypes
    <3> QED BY <3>1 DEF LInv, Owners
  <2> QED BY <2>1, <2>2, <2>3
<1> QED BY <1>1, LoggingInit, LoggingNext, PTL DEF ServerSpec
=============================================================================
