----------------------------- MODULE MarketProofs -----------------------------
(***************************************************************************)
(* The consumer of streamConsumer.ts delivers the stream as Delivery       *)
(* promises, for every page size, every length of the stream and any       *)
(* number of deletions and restarts at any moment; and so does the market  *)
(* data service, whatever its timers, its publications, /admin/reset and   *)
(* deaths of the process come in between.  What the service keeps and      *)
(* publishes of the stream: its types, the ticker, the depth on a screen   *)
(* and the candles, for all events an engine may log.                      *)
(***************************************************************************)
EXTENDS MarketData, BookTheorems

ConsumerTypeOK ==
  /\ added \in Nat /\ purged \in Nat /\ known \in Nat /\ cursor \in Nat
  /\ page \in [from : Nat, to : Nat, mode : Modes]
  /\ phase \in Modes /\ mode \in Modes
  /\ purged <= added /\ known <= added

(* What is left of the page comes next: between the cursor and it there is *)
(* nothing that is still in the stream.                                    *)
PageFollowsCursor ==
  /\ page.to <= added
  /\ ~Drained => /\ cursor < page.from
                 /\ \A j \in (cursor + 1)..(page.from - 1) : j <= purged

(* In the live loop the history has been read, as far as it still exists.  *)
HistoryRead ==
  phase = "live" => known <= purged \/ known <= cursor \/ (~Drained /\ known <= page.to)

LivePagesAreNew ==
  /\ ~Drained /\ page.mode = "live" => page.from > known
  /\ phase = "replay" => page.mode = "replay" /\ mode = "replay"
  /\ mode = "live" /\ ~Drained => page.mode = "live"

ConsumerInv == ConsumerTypeOK /\ PageFollowsCursor /\ HistoryRead /\ LivePagesAreNew

(* The invariant holds of a generator that has just been created.          *)
LEMMA InitInv == Init => ConsumerInv
BY DEF Init, Start, NoPage, ConsumerInv, ConsumerTypeOK, PageFollowsCursor, HistoryRead,
       LivePagesAreNew, Drained, Modes

(* A page read from the cursor on starts behind it, at the first entry     *)
(* that still exists; if it is short it ends with the stream.              *)
LEMMA PageBounds ==
  ASSUME ConsumerTypeOK
  PROVE  /\ NextEntry \in Nat /\ NextEntry > cursor /\ NextEntry > purged
         /\ LastEntry \in Nat /\ LastEntry <= added
         /\ \A j \in (cursor + 1)..(NextEntry - 1) : j <= purged
         /\ PageIsShort => LastEntry = added
         /\ NextEntry > LastEntry => NextEntry = cursor + 1 \/ NextEntry = purged + 1
         /\ NextEntry = cursor + 1 \/ NextEntry = purged + 1
BY PageAssumption DEF ConsumerTypeOK, NextEntry, LastEntry, PageIsShort

(* XRANGE keeps the invariant.                                             *)
LEMMA FetchReplayInv == ConsumerInv /\ FetchReplay => ConsumerInv'
<1> SUFFICES ASSUME ConsumerInv, FetchReplay PROVE ConsumerInv'
  OBVIOUS
<1> USE DEF ConsumerInv, FetchReplay, stream
<1>1. page' = [from |-> NextEntry, to |-> LastEntry, mode |-> "replay"]
  BY DEF Read
<1>2. page'.from = NextEntry /\ page'.to = LastEntry /\ page'.mode = "replay"
  BY <1>1
<1>3. ConsumerTypeOK'
  BY <1>1, PageBounds DEF ConsumerTypeOK, Modes
<1>4. PageFollowsCursor'
  BY <1>2, PageBounds DEF PageFollowsCursor, Drained
<1>5. HistoryRead'
  BY <1>2, PageBounds DEF HistoryRead, Drained, ConsumerTypeOK
<1>6. LivePagesAreNew'
  BY <1>2 DEF LivePagesAreNew, Drained
<1> QED BY <1>3, <1>4, <1>5, <1>6

(* XREAD keeps the invariant: what it returns is newer than the history.   *)
LEMMA FetchLiveInv == ConsumerInv /\ FetchLive => ConsumerInv'
<1> SUFFICES ASSUME ConsumerInv, FetchLive PROVE ConsumerInv'
  OBVIOUS
<1> USE DEF ConsumerInv, FetchLive, stream
<1>1. page' = [from |-> NextEntry, to |-> LastEntry, mode |-> "live"]
  BY DEF Read
<1>2. page'.from = NextEntry /\ page'.to = LastEntry /\ page'.mode = "live"
  BY <1>1
<1>3. ConsumerTypeOK'
  BY <1>1, PageBounds DEF ConsumerTypeOK, Modes
<1>4. PageFollowsCursor'
  BY <1>2, PageBounds DEF PageFollowsCursor, Drained
<1>5. known < NextEntry
  BY PageBounds DEF HistoryRead, ConsumerTypeOK
<1>6. HistoryRead'
  BY <1>5, PageBounds DEF HistoryRead, ConsumerTypeOK
<1>7. LivePagesAreNew'
  BY <1>2, <1>5 DEF LivePagesAreNew, Drained
<1> QED BY <1>3, <1>4, <1>6, <1>7

(* Yielding an item keeps the invariant.                                   *)
LEMMA YieldInv == ConsumerInv /\ Yield => ConsumerInv'
<1> SUFFICES ASSUME ConsumerInv, Yield PROVE ConsumerInv'
  OBVIOUS
<1> USE DEF ConsumerInv, Yield, stream, Drained
<1>1. page.from \in Nat /\ page.to \in Nat /\ page.mode \in Modes /\ page.from <= page.to
  BY DEF ConsumerTypeOK
<1>2. page' = [from |-> page.from + 1, to |-> page.to, mode |-> page.mode]
  BY DEF ConsumerTypeOK
<1>3. page'.from = page.from + 1 /\ page'.to = page.to /\ page'.mode = page.mode
  BY <1>2
<1>4. ConsumerTypeOK'
  BY <1>1, <1>2 DEF ConsumerTypeOK
<1>5. PageFollowsCursor'
  BY <1>1, <1>3 DEF PageFollowsCursor, ConsumerTypeOK
<1>6. HistoryRead'
  BY <1>1, <1>3 DEF HistoryRead, ConsumerTypeOK, PageFollowsCursor
<1>7. LivePagesAreNew'
  BY <1>1, <1>3 DEF LivePagesAreNew, ConsumerTypeOK
<1> QED BY <1>4, <1>5, <1>6, <1>7

(* Every step keeps the invariant.                                         *)
LEMMA ConsumerInvariance == ConsumerInv /\ [Next]_vars => ConsumerInv'
<1> SUFFICES ASSUME ConsumerInv, [Next]_vars PROVE ConsumerInv'
  OBVIOUS
<1>1. CASE Fetch
  BY <1>1, FetchReplayInv, FetchLiveInv DEF Fetch
<1>2. CASE Yield
  BY <1>2, YieldInv
<1>3. CASE Restart
  BY <1>3 DEF Restart, stream, NoPage, ConsumerInv, ConsumerTypeOK, PageFollowsCursor,
     HistoryRead, LivePagesAreNew, Drained, Modes
<1>4. CASE Add
  BY <1>4 DEF Add, consumer, ConsumerInv, ConsumerTypeOK, PageFollowsCursor,
     HistoryRead, LivePagesAreNew, Drained
<1>5. CASE Purge
  BY <1>5 DEF Purge, consumer, ConsumerInv, ConsumerTypeOK, PageFollowsCursor,
     HistoryRead, LivePagesAreNew, Drained
<1>6. CASE UNCHANGED vars
  BY <1>6 DEF vars, stream, consumer, ConsumerInv, ConsumerTypeOK, PageFollowsCursor,
     HistoryRead, LivePagesAreNew, Drained
<1> QED BY <1>1, <1>2, <1>3, <1>4, <1>5, <1>6 DEF Next

(* A step of the consumer or of the stream is a step of Delivery, or none. *)
LEMMA StepRefines == ConsumerInv /\ [Next]_vars => [Abstract!Next]_(Abstract!vars)
<1> SUFFICES ASSUME ConsumerInv, [Next]_vars PROVE [Abstract!Next]_(Abstract!vars)
  OBVIOUS
<1> USE DEF Abstract!Next, Abstract!vars
<1>1. CASE Fetch
  BY <1>1 DEF Fetch, FetchReplay, FetchLive, stream
<1>2. CASE Yield
  <2>1. page.from \in Nat /\ page.to \in Nat /\ page.from <= page.to /\ cursor \in Nat
    BY <1>2 DEF Yield, Drained, ConsumerInv, ConsumerTypeOK
  <2>2. page.from \in (cursor + 1)..added
    BY <1>2, <2>1 DEF Yield, ConsumerInv, PageFollowsCursor, ConsumerTypeOK
  <2>3. \A skipped \in (cursor + 1)..(page.from - 1) : skipped <= purged
    BY <1>2 DEF Yield, ConsumerInv, PageFollowsCursor
  <2>4. mode' = "live" => mode = "live" \/ page.from > known
    BY <1>2, <2>1 DEF Yield, Drained, ConsumerInv, LivePagesAreNew
  <2>5. mode = "live" => mode' = "live"
    BY <1>2, <2>1 DEF Yield, Drained, ConsumerInv, LivePagesAreNew
  <2>6. (mode' = "live") \in {mode = "live", page.from > known}
    BY <1>2, <2>1, <2>4, <2>5 DEF Yield, Drained, ConsumerInv, LivePagesAreNew
  <2>7. Abstract!Deliver(page.from)
    BY <1>2, <2>3, <2>5, <2>6 DEF Yield, stream, Abstract!Deliver
  <2> QED BY <2>2, <2>7
<1>3. CASE Restart
  BY <1>3 DEF Restart, stream, Abstract!Restart
<1>4. CASE Add
  BY <1>4 DEF Add, consumer, Abstract!Add
<1>5. CASE Purge
  BY <1>5 DEF Purge, consumer, Abstract!Purge
<1>6. CASE UNCHANGED vars
  BY <1>6 DEF vars, stream, consumer
<1> QED BY <1>1, <1>2, <1>3, <1>4, <1>5, <1>6 DEF Next

(* The consumer implements Delivery (streamConsumer.ts:12-14, "we never    *)
(* miss an event nor see one twice in the same run").                      *)
THEOREM ConsumerDelivers == Spec => Abstract!Spec
<1>1. Init => Abstract!Init
  BY DEF Init, Start, Abstract!Init
<1> QED
  BY <1>1, InitInv, ConsumerInvariance, StepRefines, PTL DEF Spec, Abstract!Spec

-----------------------------------------------------------------------------
(* The consumer inside the market data service. *)

(* The consumer of a service that starts is one that starts.               *)
LEMMA ServiceStarts == MDInit => Init
BY LoggedAssumption DEF MDInit, Init, Start

(* What the service does besides reading does not touch its consumer.      *)
LEMMA ServiceStep == [MDNext]_mdVars => [Next]_vars
<1> SUFFICES ASSUME [MDNext]_mdVars PROVE [Next]_vars
  OBVIOUS
<1>1. CASE Land
  BY <1>1 DEF Land
<1>2. CASE FetchPage
  BY <1>2 DEF FetchPage, Next
<1>3. CASE Consume
  BY <1>3 DEF Consume, Next
<1>4. CASE CandleTimer
  BY <1>4 DEF CandleTimer
<1>5. CASE SnapshotTimer
  BY <1>5 DEF SnapshotTimer
<1>6. CASE StartReset
  BY <1>6 DEF StartReset
<1>7. CASE Clear
  BY <1>7 DEF Clear, Next
<1>8. CASE EndReset
  BY <1>8 DEF EndReset
<1>9. CASE Die
  BY <1>9 DEF Die, Next
<1>10. CASE EngineLogs
  BY <1>10 DEF EngineLogs, Next
<1>11. CASE EngineResets
  BY <1>11 DEF EngineResets, Next
<1>12. CASE Advance
  BY <1>12 DEF Advance
<1>13. CASE UNCHANGED mdVars
  BY <1>13 DEF mdVars
<1> QED
  BY <1>1, <1>2, <1>3, <1>4, <1>5, <1>6, <1>7, <1>8, <1>9, <1>10, <1>11, <1>12, <1>13
  DEF MDNext

(* Every run of the service is a run of its consumer.                      *)
THEOREM ServiceConsumes == MDSpec => Spec
BY ServiceStarts, ServiceStep, PTL DEF MDSpec, Spec

(* The projections get each event that stays in the stream once and in     *)
(* order, the history first (packages/marketdata/src/server.ts:69-97).     *)
THEOREM MarketDelivers == MDSpec => Delivers
BY ServiceConsumes, ConsumerDelivers DEF Delivers

-----------------------------------------------------------------------------
(* What items under way make of a screen: Arrive, folded over them. *)

Shown(w, msgs) == FoldLeft(Arrive, w, msgs)

(* The equation of the fold over the first n items of s.                *)
ShowFold(g, w, s, n) ==
  g = [T \in SUBSET (1..n) |->
         IF T = {} THEN w ELSE Arrive(g[T \ {Max(T)}], s[Max(T)])]

LEMMA ShowFoldExists ==
  ASSUME NEW w, NEW s, NEW n \in Nat
  PROVE  \E g : ShowFold(g, w, s, n)
<1> DEFINE P == {m \in Nat : \E g : ShowFold(g, w, s, m)}
<1>1. 0 \in P
  <2> DEFINE g == [T \in SUBSET (1..0) |-> w]
  <2>1. ShowFold(g, w, s, 0)
    BY DEF ShowFold
  <2> QED BY <2>1
<1>2. ASSUME NEW m \in Nat, m \in P
      PROVE  m + 1 \in P
  <2>1. PICK g : ShowFold(g, w, s, m)
    BY <1>2
  <2> DEFINE h == [T \in SUBSET (1..(m + 1)) |->
                     IF m + 1 \in T THEN Arrive(g[T \ {m + 1}], s[m + 1]) ELSE g[T]]
  <2>2. ASSUME NEW T \in SUBSET (1..(m + 1))
        PROVE  h[T] = IF T = {} THEN w ELSE Arrive(h[T \ {Max(T)}], s[Max(T)])
    <3>1. CASE m + 1 \in T
      <4>0. T # {} /\ m + 1 \in Nat
        BY <3>1
      <4>1. Max(T) \in T /\ \A y \in T : y <= Max(T)
        BY <4>0, Greatest
      <4>2. Max(T) = m + 1
        <5>1. Max(T) \in 1..(m + 1) /\ m + 1 <= Max(T)
          BY <3>1, <4>1
        <5> QED BY <5>1
      <4>3. T \ {m + 1} \in SUBSET (1..(m + 1)) /\ m + 1 \notin T \ {m + 1}
        OBVIOUS
      <4>4. h[T \ {m + 1}] = g[T \ {m + 1}]
        BY <4>3
      <4>5. h[T] = Arrive(g[T \ {m + 1}], s[m + 1])
        BY <3>1
      <4> QED BY <3>1, <4>2, <4>4, <4>5
    <3>2. CASE m + 1 \notin T
      <4>1. T \in SUBSET (1..m)
        BY <3>2
      <4>2. h[T] = g[T]
        BY <3>2
      <4>3. g[T] = IF T = {} THEN w ELSE Arrive(g[T \ {Max(T)}], s[Max(T)])
        BY <2>1, <4>1 DEF ShowFold
      <4>4. T \ {Max(T)} \in SUBSET (1..(m + 1)) /\ m + 1 \notin T \ {Max(T)}
        BY <3>2
      <4>5. h[T \ {Max(T)}] = g[T \ {Max(T)}]
        BY <4>4
      <4> QED BY <4>2, <4>3, <4>5
    <3> QED BY <3>1, <3>2
  <2>3. h = [T \in SUBSET (1..(m + 1)) |-> h[T]]
    OBVIOUS
  <2> HIDE DEF h
  <2>4. ShowFold(h, w, s, m + 1)
    BY <2>2, <2>3 DEF ShowFold
  <2> QED BY <2>4
<1>3. n \in P
  <2> HIDE DEF P
  <2> QED BY <1>1, <1>2, Induction
<1> QED BY <1>3

(* The sequences begin with the same n items.                             *)
SameStart(s, t, n) == \A i \in 1..n : t[i] = s[i]

LEMMA ShowFoldsAgree ==
  ASSUME NEW w, NEW s, NEW t, NEW n \in Nat, NEW m \in Nat, n <= m, SameStart(s, t, n),
         NEW g, ShowFold(g, w, s, n), NEW h, ShowFold(h, w, t, m)
  PROVE  \A T \in SUBSET (1..n) : h[T] = g[T]
<1> DEFINE P == {j \in Nat : \A T \in SUBSET (1..n) : T \subseteq 1..j => h[T] = g[T]}
<1>1. \A T \in SUBSET (1..n) :
        /\ g[T] = IF T = {} THEN w ELSE Arrive(g[T \ {Max(T)}], s[Max(T)])
        /\ h[T] = IF T = {} THEN w ELSE Arrive(h[T \ {Max(T)}], t[Max(T)])
  <2>1. \A T \in SUBSET (1..n) : T \in SUBSET (1..m)
    OBVIOUS
  <2> QED BY <2>1 DEF ShowFold
<1>2. 0 \in P
  <2>1. \A T : T \subseteq 1..0 => T = {}
    OBVIOUS
  <2> QED BY <1>1, <2>1
<1>3. ASSUME NEW j \in Nat, j \in P
      PROVE  j + 1 \in P
  <2>1. ASSUME NEW T \in SUBSET (1..n), T \subseteq 1..(j + 1), T # {}
        PROVE  h[T] = g[T]
    <3>1. Max(T) \in T /\ \A y \in T : y <= Max(T)
      BY <2>1, Greatest
    <3>2. T \ {Max(T)} \in SUBSET (1..n) /\ T \ {Max(T)} \subseteq 1..j
      <4>1. ASSUME NEW y \in T, y # Max(T)
            PROVE  y \in 1..j
        <5>1. Max(T) \in 1..(j + 1) /\ y \in 1..(j + 1) /\ y <= Max(T)
          BY <2>1, <3>1
        <5> QED BY <4>1, <5>1
      <4> QED BY <4>1
    <3>3. h[T \ {Max(T)}] = g[T \ {Max(T)}] /\ t[Max(T)] = s[Max(T)]
      BY <1>3, <3>1, <3>2 DEF SameStart
    <3> QED BY <1>1, <2>1, <3>3
  <2>2. \A T \in SUBSET (1..n) : T \subseteq 1..(j + 1) => h[T] = g[T]
    BY <1>1, <2>1
  <2> QED BY <2>2
<1>4. n \in P
  <2> HIDE DEF P
  <2> QED BY <1>2, <1>3, Induction
<1> QED BY <1>4

LEMMA ShownIsFold ==
  ASSUME NEW w, NEW s, NEW n \in Nat, DOMAIN s = 1..n
  PROVE  \E g : ShowFold(g, w, s, n) /\ Shown(w, s) = g[1..n]
<1> DEFINE Eq(g) == g = [T \in SUBSET (1..n) |->
                           IF T = {} THEN w ELSE Arrive(g[T \ {Max(T)}], s[Max(T)])]
           g == CHOOSE h : Eq(h)
<1>1. Shown(w, s) = g[1..n]
  BY Zenon DEF Shown, FoldLeft, MapThenFoldSet
<1>2. PICK h : ShowFold(h, w, s, n)
  BY ShowFoldExists
<1>3. Eq(h)
  BY <1>2 DEF ShowFold
<1>4. Eq(g)
  <2> HIDE DEF Eq
  <2> QED BY <1>3
<1>5. ShowFold(g, w, s, n)
  <2> HIDE DEF g
  <2> QED BY <1>4 DEF ShowFold
<1> QED BY <1>1, <1>5

LEMMA ShownLaws ==
  ASSUME NEW S, NEW w
  PROVE  /\ Shown(w, << >>) = w
         /\ \A s \in Seq(S) : \A e \in S :
              Shown(w, Append(s, e)) = Arrive(Shown(w, s), e)
<1>1. Shown(w, << >>) = w
  <2>1. DOMAIN << >> = 1..0
    OBVIOUS
  <2>2. PICK g : ShowFold(g, w, << >>, 0) /\ Shown(w, << >>) = g[1..0]
    BY <2>1, ShownIsFold
  <2>3. 1..0 = {}
    OBVIOUS
  <2> QED BY <2>2, <2>3 DEF ShowFold
<1>2. ASSUME NEW s \in Seq(S), NEW e \in S
      PROVE  Shown(w, Append(s, e)) = Arrive(Shown(w, s), e)
  <2> DEFINE n == Len(s)  t == Append(s, e)  All == 1..(n + 1)
  <2>1. /\ n \in Nat /\ DOMAIN s = 1..n /\ DOMAIN t = 1..(n + 1)
        /\ t[n + 1] = e /\ \A i \in 1..n : t[i] = s[i]
    OBVIOUS
  <2> HIDE DEF n, t
  <2>2. PICK g : ShowFold(g, w, s, n) /\ Shown(w, s) = g[1..n]
    BY <2>1, ShownIsFold
  <2>3. PICK h : ShowFold(h, w, t, n + 1) /\ Shown(w, t) = h[All]
    BY <2>1, ShownIsFold
  <2>0. n \in Nat /\ n + 1 \in Nat /\ n <= n + 1 /\ 1..n \in SUBSET (1..n)
    BY <2>1
  <2>4. h[1..n] = g[1..n]
    <3>1. SameStart(s, t, n)
      BY <2>1 DEF SameStart
    <3>2. ShowFold(g, w, s, n) /\ ShowFold(h, w, t, n + 1)
      BY <2>2, <2>3
    <3> DEFINE m == n + 1
    <3>3. n \in Nat /\ m \in Nat /\ n <= m /\ ShowFold(h, w, t, m)
      BY <2>0, <3>2
    <3> HIDE DEF m
    <3>4. \A T \in SUBSET (1..n) : h[T] = g[T]
      BY <3>1, <3>2, <3>3, ShowFoldsAgree
    <3> QED BY <3>4
  <2>5. All # {} /\ n + 1 \in All /\ All \in SUBSET (1..(n + 1))
    <3>1. n \in Nat
      BY <2>0
    <3>2. n + 1 \in 1..(n + 1)
      BY <3>1
    <3> QED BY <3>2
  <2>6. Max(All) \in All /\ \A y \in All : y <= Max(All)
    BY <2>0, <2>5, Greatest
  <2>7. Max(All) = n + 1 /\ All \ {n + 1} = 1..n
    <3>1. Max(All) \in 1..(n + 1) /\ n + 1 <= Max(All)
      BY <2>5, <2>6
    <3> QED BY <2>0, <3>1
  <2>8. h[All] = Arrive(h[All \ {Max(All)}], t[Max(All)])
    BY <2>3, <2>5 DEF ShowFold
  <2> QED BY <2>1, <2>2, <2>3, <2>4, <2>7, <2>8 DEF t
<1> QED BY <1>1, <1>2

LEMMA ShownNone ==
  ASSUME NEW w
  PROVE  Shown(w, << >>) = w
<1> QED BY ShownLaws

LEMMA ShownNext ==
  ASSUME NEW S, NEW w, NEW s \in Seq(S), NEW e \in S
  PROVE  Shown(w, Append(s, e)) = Arrive(Shown(w, s), e)
<1> QED BY ShownLaws

(* A message that is received first.                                       *)
LEMMA ShownFirst ==
  ASSUME NEW S, NEW w, NEW m \in S, NEW s \in Seq(S)
  PROVE  Shown(w, <<m>> \o s) = Shown(Arrive(w, m), s)
<1> DEFINE v == Arrive(w, m)
<1>a. /\ Shown(w, << >>) = w
      /\ \A t \in Seq(S) : \A e \in S : Shown(w, Append(t, e)) = Arrive(Shown(w, t), e)
  BY ShownNone, ShownNext
<1>b. /\ Shown(v, << >>) = v
      /\ \A t \in Seq(S) : \A e \in S : Shown(v, Append(t, e)) = Arrive(Shown(v, t), e)
  <2> HIDE DEF v
  <2> QED BY ShownNone, ShownNext
<1>0. /\ Shown(w, << >>) = w /\ Shown(Arrive(w, m), << >>) = Arrive(w, m)
      /\ \A t \in Seq(S) : \A e \in S :
           /\ Shown(w, Append(t, e)) = Arrive(Shown(w, t), e)
           /\ Shown(Arrive(w, m), Append(t, e)) = Arrive(Shown(Arrive(w, m), t), e)
  BY <1>a, <1>b DEF v
<1> DEFINE P == {n \in Nat : \A t \in Seq(S) : Len(t) = n =>
                   Shown(w, <<m>> \o t) = Shown(Arrive(w, m), t)}
<1>1. 0 \in P
  <2> SUFFICES ASSUME NEW t \in Seq(S), Len(t) = 0
               PROVE  Shown(w, <<m>> \o t) = Shown(Arrive(w, m), t)
    OBVIOUS
  <2>1. t = << >>
    BY EmptySeq
  <2>2. <<m>> \o t = Append(<< >>, m) /\ << >> \in Seq(S)
    BY <2>1
  <2>3. Shown(w, Append(<< >>, m)) = Arrive(Shown(w, << >>), m)
    BY <1>0, <2>2
  <2> QED BY <1>0, <2>1, <2>2, <2>3
<1>2. ASSUME NEW n \in Nat, n \in P
      PROVE  n + 1 \in P
  <2> SUFFICES ASSUME NEW t \in Seq(S), Len(t) = n + 1
               PROVE  Shown(w, <<m>> \o t) = Shown(Arrive(w, m), t)
    OBVIOUS
  <2>1. PICK x \in S, r \in Seq(S) : t = Append(r, x) /\ Len(r) = n
    <3>1. PICK r \in Seq(S), x \in S : t = Append(r, x)
      BY EmptySeq, SequenceEmptyOrAppend
    <3> QED BY <3>1
  <2>2. <<m>> \o r \in Seq(S) /\ <<m>> \o t = Append(<<m>> \o r, x)
    BY <2>1
  <2>3. Shown(w, <<m>> \o r) = Shown(Arrive(w, m), r)
    BY <1>2, <2>1
  <2>4. Shown(w, Append(<<m>> \o r, x)) = Arrive(Shown(w, <<m>> \o r), x)
    BY <1>0, <2>2
  <2>5. Shown(Arrive(w, m), Append(r, x)) = Arrive(Shown(Arrive(w, m), r), x)
    BY <1>0, <2>1
  <2> QED BY <2>1, <2>2, <2>3, <2>4, <2>5
<1>3. Nat \subseteq P
  <2> HIDE DEF P
  <2> QED BY <1>1, <1>2, Induction
<1>4. Len(s) \in P
  BY <1>3
<1> QED BY <1>4

-----------------------------------------------------------------------------
(* The types of the projections and of what is published of them. *)

FinitePrices == {P \in SUBSET Nat : IsFiniteSet(P)}

LevelMaps == UNION {[P -> Nat \ {0}] : P \in FinitePrices}

Depths == [Sides -> LevelMaps]

Tracked == UNION {[D -> [side : Sides, price : Nat, remaining : Nat]] : D \in SUBSET Nat}

Views == [levels : Depths, orders : Tracked]

Histories == {h \in Seq(Bar) : Len(h) <= HistoryCapacity}

Aggregators == [current : Bar \cup {NoBar}, history : Histories]

BookDeltas == [channel : {"book"}, side : Sides, price : Nat, qty : Nat]
BookSnapshots == [channel : {"book:snapshot"}, levels : Depths]
TradeMessages == [channel : {"trades"}, trade : Nat]
CandleMessages == [channel : {"candles"}, kind : {"close", "update"}, interval : Spans, bar : Bar]
TickerOf(g) == [channel |-> "ticker", ticker |-> ComputeTicker(g)]
TickerMessages == {TickerOf(g) : g \in Aggregators}

Messages == BookDeltas \cup BookSnapshots \cup TradeMessages \cup CandleMessages \cup TickerMessages

IsScreen(w) ==
  w = [book |-> w.book, trades |-> w.trades, candles |-> w.candles,
       ticker |-> w.ticker, openOrders |-> w.openOrders, log |-> w.log]

(* A depth after one of its levels has got another quantity.               *)
After(levels, d) ==
  [levels EXCEPT ![d.side] =
     IF d.qty = 0 THEN Restrict(@, DOMAIN @ \ {d.price}) ELSE Put(@, d.price, d.qty)]

LEMMA MessageChannels ==
  ASSUME NEW m \in Messages
  PROVE  /\ m.channel \in {"book", "book:snapshot", "trades", "candles", "ticker"}
         /\ m.channel = "book" => m \in BookDeltas
         /\ m.channel = "book:snapshot" => m \in BookSnapshots
         /\ m.channel = "trades" => m \in TradeMessages
         /\ m.channel = "candles" => m \in CandleMessages
         /\ m.channel = "ticker" => m \in TickerMessages
<1>1. m \in BookDeltas => m.channel = "book"
  BY DEF BookDeltas
<1>2. m \in BookSnapshots => m.channel = "book:snapshot"
  BY DEF BookSnapshots
<1>3. m \in TradeMessages => m.channel = "trades"
  BY DEF TradeMessages
<1>4. m \in CandleMessages => m.channel = "candles"
  BY DEF CandleMessages
<1>5. m \in TickerMessages => m.channel = "ticker"
  BY DEF TickerMessages, TickerOf
<1> QED BY <1>1, <1>2, <1>3, <1>4, <1>5 DEF Messages

(* What a message changes of a screen.                                     *)
LEMMA ReceiveLaws ==
  ASSUME NEW w, IsScreen(w), NEW m \in Messages
  PROVE  /\ IsScreen(Receive(w, m))
         /\ Receive(w, m).ticker = IF m.channel = "ticker" THEN m.ticker ELSE w.ticker
         /\ Receive(w, m).book = IF m.channel = "book" THEN After(w.book, m)
                                 ELSE IF m.channel = "book:snapshot" THEN m.levels ELSE w.book
<1>1. CASE m.channel = "book"
  <2>1. Receive(w, m) = [w EXCEPT !.book = After(w.book, m)]
    BY <1>1 DEF Receive, L2Delta, After, IsScreen
  <2> HIDE DEF After
  <2> QED BY <1>1, <2>1 DEF IsScreen
<1>2. CASE m.channel = "book:snapshot"
  BY <1>2 DEF Receive, SetSnapshot, IsScreen
<1>3. CASE m.channel = "trades"
  BY <1>3 DEF Receive, PushTrade, IsScreen
<1>4. CASE m.channel = "candles"
  <2>1. \E c : Receive(w, m) = [w EXCEPT !.candles = c]
    BY <1>4 DEF Receive, CandleShown, IsScreen
  <2> QED BY <1>4, <2>1 DEF IsScreen
<1>5. CASE m.channel = "ticker"
  BY <1>5 DEF Receive, SetTicker, IsScreen
<1> QED BY <1>1, <1>2, <1>3, <1>4, <1>5, MessageChannels

LEMMA EmptyIsScreen == IsScreen(EmptyScreen)
BY DEF IsScreen, EmptyScreen

-----------------------------------------------------------------------------
(* The view of the depth. *)

LEMMA DepthTypes ==
  ASSUME NEW f \in LevelMaps, NEW p \in Nat, NEW q \in Nat \ {0}
  PROVE  /\ Put(f, p, q) \in LevelMaps /\ Restrict(f, DOMAIN f \ {p}) \in LevelMaps
         /\ DOMAIN f \in FinitePrices /\ \A x \in DOMAIN f : f[x] \in Nat \ {0}
<1>1. PICK P \in FinitePrices : f \in [P -> Nat \ {0}]
  BY DEF LevelMaps
<1>2. P \ {p} \in FinitePrices /\ P \cup {p} \in FinitePrices
  BY FS_Subset, FS_AddElement DEF FinitePrices
<1>3. Restrict(f, DOMAIN f \ {p}) \in [P \ {p} -> Nat \ {0}]
  BY <1>1 DEF Restrict
<1>4. Put(f, p, q) \in [P \cup {p} -> Nat \ {0}]
  BY <1>1 DEF Put
<1>5. Put(f, p, q) \in LevelMaps
  BY <1>2, <1>4 DEF LevelMaps
<1>6. Restrict(f, DOMAIN f \ {p}) \in LevelMaps
  BY <1>2, <1>3 DEF LevelMaps
<1> QED BY <1>1, <1>5, <1>6

LEMMA AfterType ==
  ASSUME NEW levels \in Depths, NEW d, d.side \in Sides, d.price \in Nat, d.qty \in Nat
  PROVE  After(levels, d) \in Depths
<1> DEFINE f == levels[d.side]
           g == IF d.qty = 0 THEN Restrict(f, DOMAIN f \ {d.price}) ELSE Put(f, d.price, d.qty)
<1>1. f \in LevelMaps
  BY DEF Depths
<1>2. g \in LevelMaps
  <2>1. CASE d.qty = 0
    <3>1. 1 \in Nat \ {0}
      OBVIOUS
    <3> HIDE DEF f
    <3>2. Restrict(f, DOMAIN f \ {d.price}) \in LevelMaps
      BY <1>1, <3>1, DepthTypes
    <3> QED BY <2>1, <3>2
  <2>2. CASE d.qty # 0
    <3> HIDE DEF f
    <3> QED BY <1>1, <2>2, DepthTypes
  <2> QED BY <2>1, <2>2
<1>3. After(levels, d) = [levels EXCEPT ![d.side] = g]
  BY DEF After
<1> HIDE DEF g
<1> QED BY <1>2, <1>3 DEF Depths

(* The quantity of a level in a depth.                                     *)
QtyIn(levels, side, price) ==
  IF price \in DOMAIN levels[side] THEN levels[side][price] ELSE 0

LEMMA QtyTypes ==
  ASSUME NEW levels \in Depths, NEW side \in Sides, NEW price
  PROVE  QtyIn(levels, side, price) \in Nat
<1>1. levels[side] \in LevelMaps
  BY DEF Depths
<1>2. \A x \in DOMAIN levels[side] : levels[side][x] \in Nat \ {0}
  BY <1>1, DepthTypes DEF LevelMaps
<1> QED BY <1>2 DEF QtyIn

(* One level gets the quantity, the others keep theirs.                    *)
LEMMA AfterQty ==
  ASSUME NEW levels \in Depths, NEW d, d.side \in Sides, d.price \in Nat, d.qty \in Nat,
         NEW side \in Sides, NEW price
  PROVE  QtyIn(After(levels, d), side, price) =
           IF side = d.side /\ price = d.price THEN d.qty ELSE QtyIn(levels, side, price)
<1> DEFINE f == levels[d.side]
           g == IF d.qty = 0 THEN Restrict(f, DOMAIN f \ {d.price}) ELSE Put(f, d.price, d.qty)
<1>1. After(levels, d) = [levels EXCEPT ![d.side] = g]
  BY DEF After
<1>2. After(levels, d)[side] = IF side = d.side THEN g ELSE levels[side]
  BY <1>1 DEF Depths
<1>3. CASE d.qty = 0
  <2>1. DOMAIN g = DOMAIN f \ {d.price} /\ \A x \in DOMAIN g : g[x] = f[x]
    BY <1>3 DEF Restrict
  <2> HIDE DEF g
  <2> QED BY <1>2, <1>3, <2>1 DEF QtyIn
<1>4. CASE d.qty # 0
  <2>1. /\ DOMAIN g = DOMAIN f \cup {d.price}
        /\ \A x \in DOMAIN g : g[x] = IF x = d.price THEN d.qty ELSE f[x]
    BY <1>4 DEF Put
  <2> HIDE DEF g
  <2> QED BY <1>2, <1>4, <2>1 DEF QtyIn
<1> QED BY <1>3, <1>4

(* A depth is its quantities.                                              *)
LEMMA SameDepth ==
  ASSUME NEW a \in Depths, NEW b \in Depths,
         \A side \in Sides : \A price \in Nat : QtyIn(a, side, price) = QtyIn(b, side, price)
  PROVE  a = b
<1>1. ASSUME NEW side \in Sides PROVE a[side] = b[side]
  <2>1. a[side] \in LevelMaps /\ b[side] \in LevelMaps
    BY DEF Depths
  <2>2. PICK P \in FinitePrices : a[side] \in [P -> Nat \ {0}]
    BY <2>1 DEF LevelMaps
  <2>3. PICK Q \in FinitePrices : b[side] \in [Q -> Nat \ {0}]
    BY <2>1 DEF LevelMaps
  <2>4. P \subseteq Nat /\ Q \subseteq Nat
    BY DEF FinitePrices
  <2>5. ASSUME NEW p \in Nat
        PROVE  (p \in P <=> p \in Q) /\ (p \in P => a[side][p] = b[side][p])
    <3>1. QtyIn(a, side, p) = QtyIn(b, side, p)
      OBVIOUS
    <3> QED BY <2>2, <2>3, <3>1 DEF QtyIn
  <2>6. P = Q
    BY <2>4, <2>5
  <2>7. \A p \in P : a[side][p] = b[side][p]
    BY <2>4, <2>5
  <2>8. b[side] \in [P -> Nat \ {0}]
    BY <2>3, <2>6
  <2> QED BY <2>2, <2>7, <2>8
<1> QED BY <1>1 DEF Depths

(* The view differs at no level but those.                                 *)
DiffersAt(v, w, places) ==
  \A side \in Sides : \A price \in Nat :
    At(side, price) \notin places => QtyIn(w.levels, side, price) = QtyIn(v.levels, side, price)

LEMMA LevelDeltaType ==
  ASSUME NEW v \in Views, NEW side \in Sides, NEW price \in Nat, NEW change \in Int
  PROVE  /\ ApplyLevelDelta(v, side, price, change) \in Views
         /\ ApplyLevelDelta(v, side, price, change).orders = v.orders
         /\ DiffersAt(v, ApplyLevelDelta(v, side, price, change), {At(side, price)})
<1> DEFINE next == QtyAt(v, side, price) + change
           d    == [side |-> side, price |-> price, qty |-> IF next <= 0 THEN 0 ELSE next]
           w    == ApplyLevelDelta(v, side, price, change)
<1>1. v = [levels |-> v.levels, orders |-> v.orders] /\ v.levels \in Depths /\ v.orders \in Tracked
  BY DEF Views
<1>2. QtyAt(v, side, price) = QtyIn(v.levels, side, price)
  BY DEF QtyAt, QtyIn
<1>3. next \in Int
  BY <1>1, <1>2, QtyTypes
<1>4. d.side = side /\ d.price = price /\ d.qty \in Nat /\ (d.qty = 0 <=> next <= 0)
      /\ (~(next <= 0) => d.qty = next)
  BY <1>3
<1>5. w = [v EXCEPT !.levels = After(v.levels, d)]
  <2> HIDE DEF d
  <2>1. CASE next <= 0
    BY <1>1, <1>4, <2>1 DEF ApplyLevelDelta, After
  <2>2. CASE ~(next <= 0)
    BY <1>1, <1>4, <2>2 DEF ApplyLevelDelta, After
  <2> QED BY <2>1, <2>2
<1> HIDE DEF d, next, w
<1>6. After(v.levels, d) \in Depths
  BY <1>1, <1>4, AfterType
<1>7. w = [levels |-> After(v.levels, d), orders |-> v.orders]
  BY <1>1, <1>5
<1>8. ASSUME NEW s \in Sides, NEW p \in Nat, At(s, p) \notin {At(side, price)}
      PROVE  QtyIn(w.levels, s, p) = QtyIn(v.levels, s, p)
  <2>1. ~(s = side /\ p = price)
    BY <1>8
  <2> QED BY <1>1, <1>4, <1>7, <2>1, AfterQty
<1> QED BY <1>1, <1>6, <1>7, <1>8 DEF w, Views, DiffersAt

LEMMA UntrackType ==
  ASSUME NEW v \in Views, NEW id
  PROVE  /\ Untrack(v, id) \in Views /\ Untrack(v, id).levels = v.levels
         /\ DOMAIN Untrack(v, id).orders \subseteq DOMAIN v.orders
         /\ \A x \in DOMAIN Untrack(v, id).orders : Untrack(v, id).orders[x] = v.orders[x]
<1>1. v = [levels |-> v.levels, orders |-> v.orders] /\ v.levels \in Depths /\ v.orders \in Tracked
  BY DEF Views
<1>2. PICK D \in SUBSET Nat : v.orders \in [D -> [side : Sides, price : Nat, remaining : Nat]]
  BY <1>1 DEF Tracked
<1> DEFINE f == Restrict(v.orders, DOMAIN v.orders \ {id})
<1>3. f \in [D \ {id} -> [side : Sides, price : Nat, remaining : Nat]]
  BY <1>2 DEF Restrict
<1>4. D \ {id} \in SUBSET Nat
  OBVIOUS
<1>5. f \in Tracked
  BY <1>3, <1>4 DEF Tracked
<1>6. Untrack(v, id) = [levels |-> v.levels, orders |-> f]
  BY <1>1 DEF Untrack
<1>7. \A x \in D \ {id} : f[x] = v.orders[x]
  BY <1>2 DEF Restrict
<1> HIDE DEF f
<1>8. Untrack(v, id).levels = v.levels /\ Untrack(v, id).orders = f
  BY <1>6
<1>9. Untrack(v, id) \in Views
  BY <1>1, <1>5, <1>6 DEF Views
<1>10. DOMAIN f = D \ {id} /\ DOMAIN v.orders = D
  BY <1>2, <1>3
<1> QED BY <1>7, <1>8, <1>9, <1>10

LEMMA TrackedTypes ==
  ASSUME NEW v \in Views, NEW id \in DOMAIN v.orders
  PROVE  /\ v.orders[id].side \in Sides /\ v.orders[id].price \in Nat
         /\ v.orders[id].remaining \in Nat
<1>1. PICK D \in SUBSET Nat : v.orders \in [D -> [side : Sides, price : Nat, remaining : Nat]]
  BY DEF Views, Tracked
<1> QED BY <1>1

(* The level of a tracked order that is shown.                             *)
PlacesOf(v, id) ==
  IF id \in DOMAIN v.orders /\ v.orders[id].price # 0
  THEN {At(v.orders[id].side, v.orders[id].price)} ELSE {}

LEMMA FillType ==
  ASSUME NEW v \in Views, NEW id, NEW qty \in Nat
  PROVE  /\ FillL2(v, id, qty) \in Views
         /\ DiffersAt(v, FillL2(v, id, qty), PlacesOf(v, id))
         /\ \A x : PlacesOf(FillL2(v, id, qty), x) \subseteq PlacesOf(v, x)
<1>1. v = [levels |-> v.levels, orders |-> v.orders] /\ v.levels \in Depths /\ v.orders \in Tracked
  BY DEF Views
<1>2. CASE id \notin DOMAIN v.orders
  BY <1>2 DEF FillL2, DiffersAt
<1>3. CASE id \in DOMAIN v.orders
  <2> DEFINE o    == v.orders[id]
             kept == IF o.remaining <= qty THEN Untrack(v, id)
                     ELSE [v EXCEPT !.orders[id].remaining = o.remaining - qty]
  <2>1. o.side \in Sides /\ o.price \in Nat /\ o.remaining \in Nat
    BY <1>3, TrackedTypes
  <2>2. /\ kept \in Views /\ kept.levels = v.levels
        /\ \A x \in DOMAIN kept.orders : x \in DOMAIN v.orders
             /\ kept.orders[x].side = v.orders[x].side /\ kept.orders[x].price = v.orders[x].price
    <3>1. CASE o.remaining <= qty
      BY <3>1, UntrackType
    <3>2. CASE ~(o.remaining <= qty)
      <4>1. PICK D \in SUBSET Nat :
              v.orders \in [D -> [side : Sides, price : Nat, remaining : Nat]]
        BY <1>1 DEF Tracked
      <4> DEFINE e == [o EXCEPT !.remaining = o.remaining - qty]
                 f == [v.orders EXCEPT ![id] = e]
      <4>2. o.remaining - qty \in Nat
        BY <2>1, <3>2
      <4>3. id \in D /\ o \in [side : Sides, price : Nat, remaining : Nat]
        BY <1>3, <4>1
      <4>4. e \in [side : Sides, price : Nat, remaining : Nat] /\ e.side = o.side
            /\ e.price = o.price
        BY <4>2, <4>3
      <4>5. kept = [levels |-> v.levels, orders |-> f]
        BY <1>1, <3>2
      <4> HIDE DEF e
      <4>6. f \in [D -> [side : Sides, price : Nat, remaining : Nat]]
        BY <4>1, <4>4
      <4>7. \A x \in D : f[x] = IF x = id THEN e ELSE v.orders[x]
        BY <4>1
      <4> HIDE DEF f, kept
      <4>8. f \in Tracked
        BY <4>6 DEF Tracked
      <4>9. kept \in Views /\ kept.levels = v.levels
        BY <1>1, <4>5, <4>8 DEF Views
      <4>10. \A x \in DOMAIN kept.orders : x \in DOMAIN v.orders
             /\ kept.orders[x].side = v.orders[x].side /\ kept.orders[x].price = v.orders[x].price
        BY <4>1, <4>4, <4>5, <4>6, <4>7
      <4> QED BY <4>9, <4>10
    <3> QED BY <3>1, <3>2
  <2>3. FillL2(v, id, qty) =
          IF o.price = 0 THEN kept ELSE ApplyLevelDelta(kept, o.side, o.price, -qty)
    BY <1>3 DEF FillL2
  <2>4. o.price # 0 => PlacesOf(v, id) = {At(o.side, o.price)}
    BY <1>3 DEF PlacesOf
  <2> HIDE DEF o, kept
  <2>5. CASE o.price = 0
    <3>1. FillL2(v, id, qty) = kept
      BY <2>3, <2>5
    <3>2. DiffersAt(v, kept, PlacesOf(v, id))
      BY <2>2 DEF DiffersAt
    <3>3. \A x : PlacesOf(kept, x) \subseteq PlacesOf(v, x)
      BY <2>2 DEF PlacesOf
    <3> QED BY <2>2, <3>1, <3>2, <3>3
  <2>6. CASE o.price # 0
    <3> DEFINE w == ApplyLevelDelta(kept, o.side, o.price, -qty)
    <3>1. -qty \in Int
      OBVIOUS
    <3>2. w \in Views /\ w.orders = kept.orders /\ DiffersAt(kept, w, {At(o.side, o.price)})
      BY <2>1, <2>2, <3>1, LevelDeltaType
    <3> HIDE DEF w
    <3>3. DiffersAt(v, w, PlacesOf(v, id))
      BY <2>2, <2>4, <2>6, <3>2 DEF DiffersAt
    <3>4. \A x : PlacesOf(w, x) \subseteq PlacesOf(v, x)
      BY <2>2, <3>2 DEF PlacesOf
    <3>5. FillL2(v, id, qty) = w
      BY <2>3, <2>6 DEF w
    <3> QED BY <3>2, <3>3, <3>4, <3>5
  <2> QED BY <2>5, <2>6
<1> QED BY <1>2, <1>3

Places == [side : Sides, price : Nat]

LEMMA OnePlace ==
  ASSUME NEW p \in Places
  PROVE  <<p>> \in Seq(Places) /\ Range(<<p>>) = {p}
BY DEF Range

(* An event changes no level that it does not return a delta for.          *)
LEMMA ApplyType ==
  ASSUME NEW v \in Views, NEW ev \in Events
  PROVE  /\ ApplyL2(v, ev) \in Views
         /\ ChangedBy(v, ev) \in Seq(Places)
         /\ DiffersAt(v, ApplyL2(v, ev), Range(ChangedBy(v, ev)))
<1> DEFINE level(id) == IF id \in DOMAIN v.orders /\ v.orders[id].price # 0
                        THEN <<At(v.orders[id].side, v.orders[id].price)>> ELSE << >>
<1>1. ASSUME NEW id PROVE level(id) \in Seq(Places) /\ Range(level(id)) = PlacesOf(v, id)
  <2>1. CASE id \in DOMAIN v.orders /\ v.orders[id].price # 0
    <3>1. At(v.orders[id].side, v.orders[id].price) \in Places
      BY <2>1, TrackedTypes DEF At, Places
    <3> QED BY <2>1, <3>1, OnePlace DEF PlacesOf
  <2>2. CASE ~(id \in DOMAIN v.orders /\ v.orders[id].price # 0)
    <3>1. << >> \in Seq(Places) /\ Range(<< >>) = {}
      BY DEF Range
    <3> QED BY <2>2, <3>1 DEF PlacesOf
  <2> QED BY <2>1, <2>2
<1>2. CASE ev.kind = "OrderAccepted"
  <2> DEFINE o == ev.order
             t == [side |-> o.side, price |-> o.price, remaining |-> o.qty]
             f == Put(v.orders, o.orderId, t)
             w == [v EXCEPT !.orders = f]
  <2>1. o \in [orderId : Nat, side : Sides, type : {"LIMIT", "MARKET"}, price : Nat, qty : Nat]
    BY <1>2 DEF Events
  <2>2. o.orderId \in Nat /\ o.side \in Sides /\ o.price \in Nat /\ o.qty \in Nat /\ o.qty \in Int
    BY <2>1
  <2>3. w \in Views /\ w.levels = v.levels
    <3>1. PICK D \in SUBSET Nat : v.orders \in [D -> [side : Sides, price : Nat, remaining : Nat]]
      BY DEF Views, Tracked
    <3>2. t \in [side : Sides, price : Nat, remaining : Nat]
      BY <2>2
    <3> HIDE DEF t, o
    <3>3. f \in [D \cup {o.orderId} -> [side : Sides, price : Nat, remaining : Nat]]
      BY <3>1, <3>2 DEF Put
    <3>4. D \cup {o.orderId} \in SUBSET Nat
      BY <2>2
    <3>5. f \in Tracked
      BY <3>3, <3>4 DEF Tracked
    <3>6. v = [levels |-> v.levels, orders |-> v.orders] /\ v.levels \in Depths
      BY DEF Views
    <3> HIDE DEF f
    <3>7. w = [levels |-> v.levels, orders |-> f]
      BY <3>6
    <3> QED BY <3>5, <3>6, <3>7 DEF Views
  <2>4. ApplyL2(v, ev) = IF o.type = "MARKET" \/ o.price = 0 THEN w
                         ELSE ApplyLevelDelta(w, o.side, o.price, o.qty)
    BY <1>2 DEF ApplyL2, AcceptL2
  <2>5. ChangedBy(v, ev) = IF o.type = "MARKET" \/ o.price = 0 THEN << >>
                           ELSE <<At(o.side, o.price)>>
    BY <1>2 DEF ChangedBy
  <2> HIDE DEF o, w
  <2>6. CASE o.type = "MARKET" \/ o.price = 0
    <3>1. DiffersAt(v, w, Range(<< >>))
      BY <2>3 DEF DiffersAt
    <3> QED BY <2>3, <2>4, <2>5, <2>6, <3>1
  <2>7. CASE ~(o.type = "MARKET" \/ o.price = 0)
    <3> DEFINE u == ApplyLevelDelta(w, o.side, o.price, o.qty)
    <3>1. u \in Views /\ DiffersAt(w, u, {At(o.side, o.price)})
      BY <2>2, <2>3, LevelDeltaType
    <3>2. At(o.side, o.price) \in Places
      BY <2>2 DEF At, Places
    <3>3. <<At(o.side, o.price)>> \in Seq(Places) /\ Range(<<At(o.side, o.price)>>) = {At(o.side, o.price)}
      BY <3>2, OnePlace
    <3> HIDE DEF u
    <3>4. DiffersAt(v, u, {At(o.side, o.price)})
      BY <2>3, <3>1 DEF DiffersAt
    <3>5. ApplyL2(v, ev) = u /\ ChangedBy(v, ev) = <<At(o.side, o.price)>>
      BY <2>4, <2>5, <2>7 DEF u
    <3> QED BY <3>1, <3>3, <3>4, <3>5
  <2> QED BY <2>6, <2>7
<1>3. CASE ev.kind = "OrderRejected"
  BY <1>3 DEF ApplyL2, ChangedBy, DiffersAt
<1>4. CASE ev.kind = "Trade"
  <2> DEFINE m == ev.makerOrderId  t == ev.takerOrderId
             w == FillL2(v, m, ev.qty)  u == FillL2(w, t, ev.qty)
  <2>1. ev.qty \in Nat
    BY <1>4 DEF Events
  <2>2. w \in Views /\ DiffersAt(v, w, PlacesOf(v, m)) /\ PlacesOf(w, t) \subseteq PlacesOf(v, t)
    BY <2>1, FillType
  <2>3. u \in Views /\ DiffersAt(w, u, PlacesOf(w, t))
    <3> HIDE DEF w
    <3> QED BY <2>1, <2>2, FillType
  <2>4. ApplyL2(v, ev) = u /\ ChangedBy(v, ev) = level(m) \o level(t)
    BY <1>4 DEF ApplyL2, ChangedBy
  <2>5. level(m) \o level(t) \in Seq(Places)
        /\ Range(level(m) \o level(t)) = PlacesOf(v, m) \cup PlacesOf(v, t)
    <3> HIDE DEF level
    <3> QED BY <1>1, ConcatProperties, RangeConcatenation
  <2> HIDE DEF w, u, level, m, t
  <2>6. DiffersAt(v, u, PlacesOf(v, m) \cup PlacesOf(v, t))
    BY <2>2, <2>3 DEF DiffersAt
  <2> QED BY <2>3, <2>4, <2>5, <2>6
<1>5. CASE ev.kind = "OrderCanceled"
  <2> DEFINE id == ev.orderId  w == CancelL2(v, id)
  <2>1. w \in Views /\ DiffersAt(v, w, PlacesOf(v, id))
    <3>1. CASE id \notin DOMAIN v.orders
      BY <3>1 DEF CancelL2, DiffersAt
    <3>2. CASE id \in DOMAIN v.orders
      <4> DEFINE o == v.orders[id]  k == Untrack(v, id)
      <4>1. o.side \in Sides /\ o.price \in Nat /\ -o.remaining \in Int
        BY <3>2, TrackedTypes
      <4>2. k \in Views /\ k.levels = v.levels
        BY UntrackType
      <4>3. w = IF o.price = 0 THEN k ELSE ApplyLevelDelta(k, o.side, o.price, -o.remaining)
        BY <3>2 DEF CancelL2
      <4>4. o.price # 0 => PlacesOf(v, id) = {At(o.side, o.price)}
        BY <3>2 DEF PlacesOf
      <4> DEFINE u == ApplyLevelDelta(k, o.side, o.price, -o.remaining)
      <4> HIDE DEF o, k, w
      <4>5. u \in Views /\ DiffersAt(k, u, {At(o.side, o.price)})
        BY <4>1, <4>2, LevelDeltaType
      <4>6. CASE o.price = 0
        BY <4>2, <4>3, <4>6 DEF DiffersAt
      <4>7. CASE o.price # 0
        <5> HIDE DEF u
        <5>1. DiffersAt(v, u, PlacesOf(v, id))
          BY <4>2, <4>4, <4>5, <4>7 DEF DiffersAt
        <5> QED BY <4>3, <4>5, <4>7, <5>1 DEF u
      <4> QED BY <4>6, <4>7
    <3> QED BY <3>1, <3>2
  <2>2. ApplyL2(v, ev) = w /\ ChangedBy(v, ev) = level(id)
    BY <1>5 DEF ApplyL2, ChangedBy
  <2> HIDE DEF w, level
  <2> QED BY <1>1, <2>1, <2>2
<1>6. ev.kind \in {"OrderAccepted", "OrderRejected", "Trade", "OrderCanceled"}
  BY DEF Events
<1> QED BY <1>2, <1>3, <1>4, <1>5, <1>6

(* The deltas an event returns say what the levels hold afterwards.        *)
LEMMA DeltaTypes ==
  ASSUME NEW v \in Views, NEW ev \in Events
  PROVE  LET changed == ChangedBy(v, ev)
             deltas  == DeltasOf(v, ev)
             after   == ApplyL2(v, ev)
         IN /\ DOMAIN deltas = 1..Len(changed) /\ Len(changed) \in Nat
            /\ \A i \in 1..Len(changed) :
                 /\ changed[i] \in Places
                 /\ deltas[i].side = changed[i].side /\ deltas[i].price = changed[i].price
                 /\ deltas[i].qty = QtyIn(after.levels, changed[i].side, changed[i].price)
<1> DEFINE changed == ChangedBy(v, ev)  after == ApplyL2(v, ev)
<1>1. changed \in Seq(Places)
  BY ApplyType
<1>2. DeltasOf(v, ev) = [i \in DOMAIN changed |->
        [side |-> changed[i].side, price |-> changed[i].price,
         qty  |-> QtyAt(after, changed[i].side, changed[i].price)]]
  BY DEF DeltasOf
<1> HIDE DEF changed, after
<1>3. DOMAIN changed = 1..Len(changed) /\ Len(changed) \in Nat
  BY <1>1, LenProperties
<1>4. \A i \in 1..Len(changed) : changed[i] \in Places
  BY <1>1, <1>3, ElementOfSeq
<1>5. ASSUME NEW side, NEW price PROVE QtyAt(after, side, price) = QtyIn(after.levels, side, price)
  BY DEF QtyAt, QtyIn
<1> QED BY <1>2, <1>3, <1>4, <1>5 DEF changed, after

-----------------------------------------------------------------------------
(* Tape and candles. *)

LEMMA TwoNumbers ==
  ASSUME NEW a \in Int, NEW b \in Int
  PROVE  /\ Min({a, b}) = IF a <= b THEN a ELSE b
         /\ Max({a, b}) = IF a <= b THEN b ELSE a
BY DEF Min, Max

LEMMA LastOfType ==
  ASSUME NEW S, NEW s \in Seq(S), NEW n \in Nat
  PROVE  /\ LastOf(n, s) \in Seq(S)
         /\ Len(LastOf(n, s)) = IF n <= Len(s) THEN n ELSE Len(s)
         /\ \A k \in 1..Len(LastOf(n, s)) :
              LastOf(n, s)[k] = s[Len(s) - Len(LastOf(n, s)) + k]
<1> DEFINE l == Len(s)  m == IF n <= l THEN n ELSE l  t == SubSeq(s, l - m + 1, l)
<1>1. l \in Nat /\ m \in 0..l
  BY LenProperties
<1>2. LastOf(n, s) = t
  <2>1. Min({n, l}) = m
    BY <1>1, TwoNumbers
  <2> QED BY <2>1 DEF LastOf
<1>3. \A i \in (l - m + 1)..l : s[i] \in S
  <2>1. \A i \in (l - m + 1)..l : i \in 1..l
    BY <1>1
  <2> QED BY <2>1, ElementOfSeq
<1>4. l - m + 1 \in Int /\ l \in Int
  BY <1>1
<1>5. /\ t \in Seq(S)
      /\ Len(t) = IF l - m + 1 <= l THEN l - (l - m + 1) + 1 ELSE 0
      /\ \A i \in 1..(l - (l - m + 1) + 1) : t[i] = s[(l - m + 1) + i - 1]
  <2> HIDE DEF l, m
  <2> QED BY <1>3, <1>4, SubSeqProperties
<1> HIDE DEF t
<1>6. Len(t) = m /\ \A i \in 1..m : t[i] = s[l - m + i]
  <2> HIDE DEF m, l
  <2>1. Len(t) = m
    BY <1>1, <1>5
  <2>2. ASSUME NEW i \in 1..m PROVE t[i] = s[l - m + i]
    <3>1. i \in 1..(l - (l - m + 1) + 1) /\ (l - m + 1) + i - 1 = l - m + i
      BY <1>1
    <3> QED BY <1>5, <3>1
  <2> QED BY <2>1, <2>2
<1> QED BY <1>2, <1>5, <1>6

LEMMA PushTapeType ==
  ASSUME NEW S, NEW tape \in Seq(S), NEW trade \in S
  PROVE  PushTape(tape, trade) \in Seq(S) /\ Len(PushTape(tape, trade)) <= TapeCapacity
<1> DEFINE t == Append(tape, trade)
<1>1. t \in Seq(S) /\ TapeCapacity \in Nat
  BY CapacityAssumption
<1> HIDE DEF t
<1>2. Len(t) \in Nat
  BY <1>1, LenProperties
<1>3. /\ LastOf(TapeCapacity, t) \in Seq(S)
      /\ Len(LastOf(TapeCapacity, t)) = IF TapeCapacity <= Len(t) THEN TapeCapacity ELSE Len(t)
  BY <1>1, LastOfType
<1> QED BY <1>1, <1>2, <1>3 DEF PushTape, t

LEMMA SpanTypes ==
  /\ Shortest \in Spans /\ Longest \in Spans /\ Spans = {Shortest, Longest}
  /\ Shortest # Longest /\ Spans \subseteq Nat \ {0}
<1>1. PICK m \in Spans, n \in Spans : m < n /\ Spans = {m, n} /\ Spans \subseteq Nat \ {0}
  BY SpansAssumption
<1>2. Shortest = m /\ Longest = n
  BY <1>1, TwoNumbers DEF Shortest, Longest
<1> QED BY <1>1, <1>2

LEMMA BucketType ==
  ASSUME NEW ts \in Nat, NEW n \in Nat \ {0}
  PROVE  BucketOf(ts, n) \in Nat
<1>1. ts \div n \in Nat
  OBVIOUS
<1> QED BY <1>1 DEF BucketOf

LEMMA BarTypes ==
  ASSUME NEW bar \in Bar, NEW bucket \in Nat, NEW price \in Nat, NEW qty \in Nat
  PROVE  /\ OpenBar(bucket, price, qty) \in Bar /\ OpenBar(bucket, price, qty).bucketStart = bucket
         /\ OpenBar(bucket, price, qty).volume = qty
         /\ FlatBar(bucket, price) \in Bar /\ FlatBar(bucket, price).bucketStart = bucket
         /\ FlatBar(bucket, price).volume = 0
         /\ GrowBar(bar, price, qty) \in Bar
         /\ GrowBar(bar, price, qty).bucketStart = bar.bucketStart
         /\ GrowBar(bar, price, qty).volume = bar.volume + qty
<1> DEFINE high == Max({bar.high, price})  low == Min({bar.low, price})
<1>0. bar.high \in Nat /\ bar.low \in Nat /\ bar.volume \in Nat /\ bar.trades \in Nat
  BY DEF Bar
<1>1. high \in Nat /\ low \in Nat
  <2>1. bar.high \in Int /\ bar.low \in Int /\ price \in Int
    BY <1>0
  <2> QED BY <1>0, <2>1, TwoNumbers
<1>3. GrowBar(bar, price, qty) =
        [bar EXCEPT !.high = high, !.low = low, !.close = price, !.volume = bar.volume + qty,
                    !.trades = bar.trades + 1]
  BY DEF GrowBar
<1> HIDE DEF high, low
<1>4. GrowBar(bar, price, qty) =
        [bucketStart |-> bar.bucketStart, open |-> bar.open, high |-> high, low |-> low,
         close |-> price, volume |-> bar.volume + qty, trades |-> bar.trades + 1]
  BY <1>3 DEF Bar
<1>2. /\ GrowBar(bar, price, qty) \in Bar
      /\ GrowBar(bar, price, qty).bucketStart = bar.bucketStart
      /\ GrowBar(bar, price, qty).volume = bar.volume + qty
  <2>1. bar.volume + qty \in Nat /\ bar.trades + 1 \in Nat /\ bar.bucketStart \in Nat
        /\ bar.open \in Nat
    BY <1>0 DEF Bar
  <2> QED BY <1>1, <1>4, <2>1 DEF Bar
<1> QED BY <1>2 DEF OpenBar, FlatBar, Bar

(* The bars that a trade closes: the live one, then flat ones.             *)
LEMMA ClosedBarsType ==
  ASSUME NEW bar \in Bar, NEW bucket \in Nat, NEW n \in Nat \ {0}, bucket > bar.bucketStart
  PROVE  LET flat   == (bucket - bar.bucketStart) \div n - 1
             closed == ClosedBars(bar, bucket, n)
         IN /\ closed \in Seq(Bar) /\ closed # << >>
            /\ flat \in Int
            /\ flat >= 0 =>
                 /\ Len(closed) = flat + 1 /\ closed[1] = bar
                 /\ \A i \in 1..flat :
                      closed[i + 1] = FlatBar(bar.bucketStart + i * n, bar.close)
<1> DEFINE flat == (bucket - bar.bucketStart) \div n - 1
           fs   == [i \in 1..flat |-> FlatBar(bar.bucketStart + i * n, bar.close)]
<1>0. bar.bucketStart \in Nat /\ bar.close \in Nat
  BY DEF Bar
<1>1. flat \in Int
  <2>1. bucket - bar.bucketStart \in Int
    BY <1>0
  <2> QED BY <2>1
<1>2. \A i \in 1..flat : FlatBar(bar.bucketStart + i * n, bar.close) \in Bar
  <2> SUFFICES ASSUME NEW i \in 1..flat PROVE FlatBar(bar.bucketStart + i * n, bar.close) \in Bar
    OBVIOUS
  <2>1. i \in Nat /\ i * n \in Nat
    BY <1>1
  <2>2. bar.bucketStart + i * n \in Nat
    BY <1>0, <2>1
  <2> QED BY <1>0, <2>2, BarTypes
<1> HIDE DEF flat
<1>3. fs \in Seq(Bar) /\ (flat >= 0 => Len(fs) = flat)
  <2>1. CASE flat >= 0
    <3>1. flat \in Nat
      BY <1>1, <2>1
    <3>2. fs \in [1..flat -> Bar]
      BY <1>2
    <3> QED BY <3>1, <3>2
  <2>2. CASE ~(flat >= 0)
    <3>1. 1..flat = 1..0
      BY <1>1, <2>2
    <3>2. fs \in [1..0 -> Bar] /\ 0 \in Nat
      BY <1>2, <3>1
    <3> HIDE DEF fs
    <3>3. fs \in Seq(Bar)
      BY <3>2, SeqDef
    <3> QED BY <2>2, <3>3
  <2> QED BY <2>1, <2>2
<1>4. \A i \in 1..flat : fs[i] = FlatBar(bar.bucketStart + i * n, bar.close)
  OBVIOUS
<1>5. ClosedBars(bar, bucket, n) = <<bar>> \o fs
  BY DEF ClosedBars, flat
<1> HIDE DEF fs
<1>6. <<bar>> \in Seq(Bar) /\ Len(<<bar>>) = 1 /\ <<bar>>[1] = bar
  OBVIOUS
<1>7. /\ <<bar>> \o fs \in Seq(Bar) /\ Len(<<bar>> \o fs) = 1 + Len(fs)
      /\ \A i \in 1..(1 + Len(fs)) :
           (<<bar>> \o fs)[i] = IF i <= 1 THEN <<bar>>[i] ELSE fs[i - 1]
  BY <1>3, <1>6, ConcatProperties
<1>8. Len(fs) \in Nat
  BY <1>3, LenProperties
<1> DEFINE closed == <<bar>> \o fs
<1> HIDE DEF closed
<1>9. closed # << >>
  BY <1>7, <1>8, EmptySeq DEF closed
<1>10. ASSUME flat >= 0
       PROVE  /\ Len(closed) = flat + 1 /\ closed[1] = bar
              /\ \A i \in 1..flat : closed[i + 1] = FlatBar(bar.bucketStart + i * n, bar.close)
  <2>1. Len(fs) = flat
    BY <1>3, <1>10
  <2>2. 1 \in 1..(1 + flat) /\ \A i \in 1..flat : i + 1 \in 1..(1 + flat) /\ ~(i + 1 <= 1) /\ (i + 1) - 1 = i
    BY <1>1, <1>10
  <2>3. closed[1] = bar
    BY <1>6, <1>7, <2>1, <2>2 DEF closed
  <2>4. \A i \in 1..flat : closed[i + 1] = fs[i]
    BY <1>7, <2>1, <2>2 DEF closed
  <2>5. Len(closed) = flat + 1
    BY <1>1, <1>7, <2>1 DEF closed
  <2> QED BY <1>4, <2>3, <2>4, <2>5
<1> QED BY <1>1, <1>5, <1>7, <1>9, <1>10 DEF flat, closed

LEMMA AggregatorTypes ==
  ASSUME NEW g \in Aggregators
  PROVE  /\ g = [current |-> g.current, history |-> g.history]
         /\ g.history \in Seq(Bar) /\ g.current \in Bar \cup {NoBar}
         /\ g.current # NoBar => g.current \in Bar /\ g.current.bucketStart \in Nat
                                 /\ g.current.close \in Nat
BY DEF Aggregators, Histories, Bar

LEMMA ClosesType ==
  ASSUME NEW g \in Aggregators, NEW n \in Nat \ {0}, NEW ts \in Nat
  PROVE  Closes(g, n, ts) \in Seq(Bar)
<1>1. CASE g.current # NoBar /\ BucketOf(ts, n) > g.current.bucketStart
  <2>1. g.current \in Bar /\ BucketOf(ts, n) \in Nat
    BY <1>1, AggregatorTypes, BucketType
  <2>2. ClosedBars(g.current, BucketOf(ts, n), n) \in Seq(Bar)
    BY <1>1, <2>1, ClosedBarsType
  <2> QED BY <1>1, <2>2 DEF Closes
<1>2. CASE ~(g.current # NoBar /\ BucketOf(ts, n) > g.current.bucketStart)
  BY <1>2 DEF Closes
<1> QED BY <1>1, <1>2

LEMMA ArchiveType ==
  ASSUME NEW history \in Seq(Bar), NEW bars \in Seq(Bar)
  PROVE  Archive(history, bars) \in Seq(Bar) /\ Len(Archive(history, bars)) <= HistoryCapacity
<1> DEFINE t == history \o bars
<1>1. t \in Seq(Bar) /\ HistoryCapacity \in Nat
  BY CapacityAssumption
<1> HIDE DEF t
<1>2. Len(t) \in Nat
  BY <1>1, LenProperties
<1>3. /\ LastOf(HistoryCapacity, t) \in Seq(Bar)
      /\ Len(LastOf(HistoryCapacity, t)) =
           IF HistoryCapacity <= Len(t) THEN HistoryCapacity ELSE Len(t)
  BY <1>1, LastOfType
<1> QED BY <1>1, <1>2, <1>3 DEF Archive, t

(* A trade, and what onTrade returns: nothing if it is dropped.            *)
LEMMA OnTradeType ==
  ASSUME NEW g \in Aggregators, NEW n \in Spans, NEW price \in Nat, NEW qty \in Nat,
         NEW ts \in Nat
  PROVE  /\ OnTrade(g, n, price, qty, ts) \in Aggregators
         /\ OnTradeEvents(g, n, price, qty, ts) \in Seq(CandleMessages)
         /\ OnTradeEvents(g, n, price, qty, ts) = << >> => OnTrade(g, n, price, qty, ts) = g
<1> DEFINE h == OnTrade(g, n, price, qty, ts)  b == BucketOf(ts, n)
           closed == Closes(g, n, ts)
<1>1. CASE TooLate(g, n, ts)
  BY <1>1 DEF OnTrade, OnTradeEvents
<1>2. CASE ~TooLate(g, n, ts)
  <2> DEFINE c == IF g.current # NoBar /\ g.current.bucketStart = b
                  THEN GrowBar(g.current, price, qty) ELSE OpenBar(b, price, qty)
             old == Archive(g.history, closed)
  <2>0. n \in Nat \ {0}
    BY SpanTypes
  <2>1. h = [current |-> c, history |-> old]
    BY <1>2 DEF OnTrade
  <2>2. c \in Bar
    <3>1. CASE g.current # NoBar /\ g.current.bucketStart = b
      BY <3>1, BarTypes, AggregatorTypes
    <3>2. CASE ~(g.current # NoBar /\ g.current.bucketStart = b)
      <4>1. b \in Nat
        BY <2>0, BucketType
      <4> HIDE DEF b
      <4>2. OpenBar(b, price, qty) \in Bar
        BY <4>1 DEF OpenBar, Bar
      <4> QED BY <3>2, <4>2
    <3> QED BY <3>1, <3>2
  <2>3. closed \in Seq(Bar)
    BY <2>0, ClosesType
  <2>4. old \in Seq(Bar) /\ Len(old) <= HistoryCapacity
    <3> HIDE DEF closed
    <3> QED BY <2>3, AggregatorTypes, ArchiveType
  <2>5. h \in Aggregators /\ h.history = old /\ h.current = c
    <3> HIDE DEF c, old, h
    <3> QED BY <2>1, <2>2, <2>4 DEF Aggregators, Histories
  <2> DEFINE evs == [i \in DOMAIN closed |-> CandleEvent("close", n, closed[i])]
             e   == CandleEvent("update", n, c)
  <2>6. OnTradeEvents(g, n, price, qty, ts) = evs \o <<e>>
    BY <1>2, <2>5 DEF OnTradeEvents
  <2> HIDE DEF c, old, h, closed
  <2>7. evs \in Seq(CandleMessages)
    <3>1. DOMAIN closed = 1..Len(closed) /\ Len(closed) \in Nat
          /\ \A i \in 1..Len(closed) : closed[i] \in Bar
      BY <2>3, LenProperties, ElementOfSeq
    <3>2. \A i \in 1..Len(closed) : CandleEvent("close", n, closed[i]) \in CandleMessages
      BY <3>1 DEF CandleEvent, CandleMessages
    <3>3. evs \in [1..Len(closed) -> CandleMessages]
      BY <3>1, <3>2
    <3> QED BY <3>1, <3>3
  <2>8. e \in CandleMessages
    BY <2>2 DEF CandleEvent, CandleMessages
  <2> HIDE DEF evs, e
  <2>9. evs \o <<e>> \in Seq(CandleMessages) /\ evs \o <<e>> # << >>
    <3>1. evs \o <<e>> = Append(evs, e)
      BY <2>7, <2>8, AppendIsConcat
    <3> QED BY <2>7, <2>8, <3>1, AppendProperties
  <2> QED BY <2>4, <2>5, <2>6, <2>9 DEF h
<1> QED BY <1>1, <1>2

LEMMA TickType ==
  ASSUME NEW g \in Aggregators, NEW n \in Spans, NEW now \in Nat
  PROVE  /\ Tick(g, n, now) \in Aggregators
         /\ TickEvents(g, n, now) \in Seq(CandleMessages)
         /\ TickEvents(g, n, now) = << >> => Tick(g, n, now) = g
<1>1. CASE Behind(g, n, now)
  <2>1. g.current.close \in Nat /\ 0 \in Nat
    BY <1>1, AggregatorTypes DEF Behind
  <2> QED BY <1>1, <2>1, OnTradeType DEF Tick, TickEvents
<1>2. CASE ~Behind(g, n, now)
  BY <1>2 DEF Tick, TickEvents
<1> QED BY <1>1, <1>2

-----------------------------------------------------------------------------
(* Jobs. *)

Traded == {i \in 1..Len(log) : log[i].event.kind = "Trade"}

Tapes == {t \in Seq(Traded) : Len(t) <= TapeCapacity}

Projections == [l2 : Views, tape : Tapes, aggs : [Spans -> Aggregators]]

Publications(msgs) == [do : {"publish"}, msg : msgs]

AllJobs ==
  Publications(Messages) \cup [do : {"apply", "trade", "candles"}, at : Nat]
  \cup {Job("ticker"), Job("snapshot")}

(* The trades that each aggregator has dropped.                            *)
LateSets == [Spans -> SUBSET Nat]

States == [proj : Projections, jobs : Seq(AllJobs), late : LateSets]

ChartJobs(i) == <<JobOn("candles", i)>> \o <<Job("ticker")>>
TradeJobs(i) == <<JobOn("trade", i)>> \o ChartJobs(i)

(* What a coroutine has still to publish of what it has computed, and what *)
(* it has to do after that; i is the event the consumer is at.             *)
Own(c) == IF c = Consumer THEN BookDeltas \cup CandleMessages ELSE CandleMessages

Rests(c, i) ==
  {<< >>, <<Job("ticker")>>}
  \cup {r \in {<<JobOn("apply", i)>>} : c = Consumer /\ i \in 1..Len(log)}
  \cup {r \in {TradeJobs(i), ChartJobs(i)} : c = Consumer /\ i \in Traded}

Due(c, i, jobs) ==
  \E ps \in Seq(Publications(Own(c))) : \E r \in Rests(c, i) : jobs = ps \o r

(* The lists that a coroutine starts to compute with.                      *)
Forms(c, i, jobs) ==
  \/ jobs = << >>
  \/ \E m \in Messages : \E r \in Seq(AllJobs) : jobs = <<Publish(m)>> \o r /\ Due(c, i, r)
  \/ jobs = <<JobOn("apply", i)>> /\ c = Consumer /\ i \in 1..Len(log)
  \/ jobs \in {TradeJobs(i), ChartJobs(i)} /\ c = Consumer /\ i \in Traded
  \/ jobs = <<Job("ticker")>>
  \/ \E r \in Seq(AllJobs) : jobs = <<Job("snapshot")>> \o r /\ Due(c, i, r)

LEMMA JobTypes ==
  /\ \A m \in Messages : Publish(m) \in AllJobs
  /\ \A i \in Nat : JobOn("apply", i) \in AllJobs /\ JobOn("trade", i) \in AllJobs
                    /\ JobOn("candles", i) \in AllJobs
  /\ Job("ticker") \in AllJobs /\ Job("snapshot") \in AllJobs
  /\ \A c : Publications(Own(c)) \subseteq AllJobs
BY DEF Publish, JobOn, Job, AllJobs, Publications, Own, Messages

LEMMA First ==
  ASSUME NEW S, NEW x \in S, NEW r \in Seq(S)
  PROVE  /\ <<x>> \o r \in Seq(S) /\ <<x>> \o r # << >>
         /\ (<<x>> \o r)[1] = x /\ Tail(<<x>> \o r) = r
<1> DEFINE q == <<x>> \o r
<1>1. <<x>> \in Seq(S) /\ Len(<<x>>) = 1 /\ <<x>>[1] = x
  OBVIOUS
<1>2. /\ q \in Seq(S) /\ Len(q) = 1 + Len(r) /\ Len(r) \in Nat
      /\ \A i \in 1..(1 + Len(r)) : q[i] = IF i <= 1 THEN <<x>>[i] ELSE r[i - 1]
  BY <1>1, ConcatProperties, LenProperties
<1> HIDE DEF q
<1>3. q # << >> /\ 1 \in 1..(1 + Len(r))
  BY <1>2, EmptySeq
<1>4. q[1] = x
  BY <1>1, <1>2, <1>3
<1>5. Tail(q) \in Seq(S) /\ Len(Tail(q)) = Len(r) /\ \A i \in 1..Len(r) : Tail(q)[i] = q[i + 1]
  <2>1. /\ Tail(q) \in Seq(S) /\ Len(Tail(q)) = Len(q) - 1
        /\ \A i \in 1..Len(Tail(q)) : Tail(q)[i] = q[i + 1]
    BY <1>2, <1>3, HeadTailProperties
  <2>2. Len(Tail(q)) = Len(r)
    BY <1>2, <2>1
  <2> QED BY <2>1, <2>2
<1>6. \A i \in 1..Len(r) : q[i + 1] = r[i]
  <2>1. \A i \in 1..Len(r) : i + 1 \in 1..(1 + Len(r)) /\ ~(i + 1 <= 1) /\ (i + 1) - 1 = i
    BY <1>2
  <2> QED BY <1>2, <2>1
<1>7. Tail(q) = r
  BY <1>5, <1>6, SeqEqual
<1> QED BY <1>2, <1>3, <1>4, <1>7 DEF q

LEMMA Singles ==
  ASSUME NEW S, NEW x \in S
  PROVE  <<x>> \in Seq(S) /\ << >> \in Seq(S) /\ <<x>> \o << >> = <<x>>
BY ConcatEmptySeq

LEMMA Two ==
  ASSUME NEW S, NEW a \in S, NEW b \in S
  PROVE  <<a, b>> = <<a>> \o <<b>> /\ <<a>> \o <<b>> \in Seq(S)
<1> DEFINE p == <<a>> \o <<b>>
<1>1. /\ <<a>> \in Seq(S) /\ <<b>> \in Seq(S) /\ Len(<<a>>) = 1 /\ Len(<<b>>) = 1
      /\ <<a>>[1] = a /\ <<b>>[1] = b
  OBVIOUS
<1>2. /\ p \in Seq(S) /\ Len(p) = 2
      /\ \A i \in 1..2 : p[i] = IF i <= 1 THEN <<a>>[i] ELSE <<b>>[i - 1]
  BY <1>1, ConcatProperties
<1> HIDE DEF p
<1>3. p[1] = a /\ p[2] = b
  BY <1>1, <1>2
<1>4. <<a, b>> \in Seq(S) /\ Len(<<a, b>>) = 2
  OBVIOUS
<1>5. \A i \in 1..2 : <<a, b>>[i] = p[i]
  <2>1. \A i \in 1..2 : i = 1 \/ i = 2
    OBVIOUS
  <2> QED BY <1>3, <2>1
<1>6. <<a, b>> = p
  BY <1>2, <1>4, <1>5, SeqEqual
<1> QED BY <1>2, <1>6 DEF p

LEMMA Three ==
  ASSUME NEW S, NEW a \in S, NEW b \in S, NEW c \in S
  PROVE  <<a, b, c>> = <<a>> \o (<<b>> \o <<c>>)
<1> DEFINE q == <<b>> \o <<c>>  p == <<a>> \o q
<1>1. /\ <<a>> \in Seq(S) /\ <<b>> \in Seq(S) /\ <<c>> \in Seq(S)
      /\ Len(<<a>>) = 1 /\ Len(<<b>>) = 1 /\ Len(<<c>>) = 1
      /\ <<a>>[1] = a /\ <<b>>[1] = b /\ <<c>>[1] = c
  OBVIOUS
<1>2. /\ q \in Seq(S) /\ Len(q) = 2
      /\ \A i \in 1..2 : q[i] = IF i <= 1 THEN <<b>>[i] ELSE <<c>>[i - 1]
  BY <1>1, ConcatProperties
<1>3. q[1] = b /\ q[2] = c
  BY <1>1, <1>2
<1> HIDE DEF q
<1>4. /\ p \in Seq(S) /\ Len(p) = 3
      /\ \A i \in 1..3 : p[i] = IF i <= 1 THEN <<a>>[i] ELSE q[i - 1]
  <2>1. /\ p \in Seq(S) /\ Len(p) = Len(<<a>>) + Len(q)
        /\ \A i \in 1..(Len(<<a>>) + Len(q)) :
             p[i] = IF i <= Len(<<a>>) THEN <<a>>[i] ELSE q[i - Len(<<a>>)]
    BY <1>1, <1>2, ConcatProperties
  <2>2. Len(<<a>>) + Len(q) = 3 /\ Len(<<a>>) = 1
    BY <1>1, <1>2
  <2> HIDE DEF p
  <2> QED BY <2>1, <2>2
<1>5. p[1] = a /\ p[2] = b /\ p[3] = c
  BY <1>1, <1>3, <1>4
<1> HIDE DEF p
<1>6. <<a, b, c>> \in Seq(S) /\ Len(<<a, b, c>>) = 3
  OBVIOUS
<1>7. \A i \in 1..3 : <<a, b, c>>[i] = p[i]
  <2>1. \A i \in 1..3 : i = 1 \/ i = 2 \/ i = 3
    OBVIOUS
  <2> QED BY <1>5, <2>1
<1>8. <<a, b, c>> = p
  BY <1>4, <1>6, <1>7, SeqEqual
<1> QED BY <1>8 DEF p, q

LEMMA RestTypes ==
  ASSUME NEW c, NEW i \in Nat, NEW jobs, Due(c, i, jobs)
  PROVE  jobs \in Seq(AllJobs)
<1>1. PICK ps \in Seq(Publications(Own(c))), r \in Rests(c, i) : jobs = ps \o r
  BY DEF Due
<1>2. ps \in Seq(AllJobs)
  BY JobTypes, SeqMonotonic
<1>3. ChartJobs(i) \in Seq(AllJobs)
  <2>1. <<JobOn("candles", i)>> \in Seq(AllJobs) /\ <<Job("ticker")>> \in Seq(AllJobs)
    BY JobTypes, Singles
  <2> QED BY <2>1, ConcatProperties DEF ChartJobs
<1>4. TradeJobs(i) \in Seq(AllJobs)
  <2>1. <<JobOn("trade", i)>> \in Seq(AllJobs)
    BY JobTypes, Singles
  <2> QED BY <1>3, <2>1, ConcatProperties DEF TradeJobs
<1>5. r \in Seq(AllJobs)
  <2>1. /\ << >> \in Seq(AllJobs) /\ <<Job("ticker")>> \in Seq(AllJobs)
        /\ <<JobOn("apply", i)>> \in Seq(AllJobs)
    BY JobTypes, Singles
  <2> QED BY <1>3, <1>4, <2>1 DEF Rests
<1> QED BY <1>1, <1>2, <1>5, ConcatProperties

(* Joined lists, and what is left after the first of them.                 *)
LEMMA LeftLaws ==
  ASSUME NEW c, NEW i \in Nat
  PROVE  /\ \A r \in Rests(c, i) : Due(c, i, r)
         /\ \A ps \in Seq(Publications(Own(c))) : \A r \in Rests(c, i) : Due(c, i, ps \o r)
         /\ \A jobs : Due(c, i, jobs) => Forms(c, i, jobs)
<1>0. \A r \in Rests(c, i) : << >> \o r = r /\ r \in Seq(AllJobs)
  <2> SUFFICES ASSUME NEW r \in Rests(c, i) PROVE << >> \o r = r /\ r \in Seq(AllJobs)
    OBVIOUS
  <2>1. \A s \in Seq(AllJobs) : << >> \o s = s
    BY ConcatEmptySeq
  <2>2. /\ << >> \in Seq(AllJobs) /\ <<Job("ticker")>> \in Seq(AllJobs)
        /\ <<JobOn("apply", i)>> \in Seq(AllJobs) /\ <<JobOn("trade", i)>> \in Seq(AllJobs)
        /\ <<JobOn("candles", i)>> \in Seq(AllJobs)
    BY JobTypes, Singles
  <2>3. ChartJobs(i) \in Seq(AllJobs)
    BY <2>2, ConcatProperties DEF ChartJobs
  <2>4. TradeJobs(i) \in Seq(AllJobs)
    BY <2>2, <2>3, ConcatProperties DEF TradeJobs
  <2>5. r \in Seq(AllJobs)
    BY <2>2, <2>3, <2>4 DEF Rests
  <2> QED BY <2>1, <2>5
<1>1. \A r \in Rests(c, i) : Due(c, i, r)
  <2>1. << >> \in Seq(Publications(Own(c)))
    BY EmptySeq
  <2> QED BY <1>0, <2>1 DEF Due
<1>2. \A ps \in Seq(Publications(Own(c))) : \A r \in Rests(c, i) : Due(c, i, ps \o r)
  BY DEF Due
<1>3. ASSUME NEW jobs, Due(c, i, jobs) PROVE Forms(c, i, jobs)
  <2>1. PICK ps \in Seq(Publications(Own(c))), r \in Rests(c, i) : jobs = ps \o r
    BY <1>3 DEF Due
  <2>2. CASE ps = << >>
    <3>1. jobs = r
      BY <1>0, <2>1, <2>2
    <3>2. r \in {<< >>, <<Job("ticker")>>, <<JobOn("apply", i)>>, TradeJobs(i), ChartJobs(i)}
          /\ (r = << >> \/ r = <<Job("ticker")>>
              \/ (r = <<JobOn("apply", i)>> /\ c = Consumer /\ i \in 1..Len(log))
              \/ (r \in {TradeJobs(i), ChartJobs(i)} /\ c = Consumer /\ i \in Traded))
      BY DEF Rests
    <3> QED BY <3>1, <3>2 DEF Forms
  <2>3. CASE ps # << >>
    <3> DEFINE h == Head(ps)  t == Tail(ps)
    <3>1. h \in Publications(Own(c)) /\ t \in Seq(Publications(Own(c))) /\ t \in Seq(AllJobs)
          /\ h \in AllJobs
      BY <2>3, HeadTailProperties, JobTypes, SeqMonotonic
    <3>2. ps \o r = <<h>> \o (t \o r)
      <4>1. ps \in Seq(AllJobs) /\ r \in Seq(AllJobs) /\ h \in AllJobs
        BY <1>0, <3>1, JobTypes, SeqMonotonic
      <4> QED BY <2>3, <4>1, SequencesJoined
    <3>3. h = Publish(h.msg) /\ h.msg \in Messages
      BY <3>1 DEF Publications, Publish, Own, Messages
    <3> HIDE DEF h, t
    <3>4. t \o r \in Seq(AllJobs) /\ Due(c, i, t \o r)
      BY <1>0, <3>1, ConcatProperties DEF Due
    <3>5. jobs = <<Publish(h.msg)>> \o (t \o r)
      BY <2>1, <3>2, <3>3
    <3> QED BY <3>3, <3>4, <3>5 DEF Forms
  <2> QED BY <2>2, <2>3
<1> QED BY <1>1, <1>2, <1>3

-----------------------------------------------------------------------------
(* What is computed of each job. *)

Entries == [event : Events, ts : Nat]

LogOK == log \in Seq(Entries)

SnapshotOf(v) == [channel |-> "book:snapshot", levels |-> Snapshot(v, SnapshotLevels)]
TradeOf(i) == [channel |-> "trades", trade |-> i]

LEMMA PublishAllType ==
  ASSUME NEW M, NEW msgs \in Seq(M)
  PROVE  /\ PublishAll(msgs) \in Seq(Publications(M)) /\ Len(PublishAll(msgs)) = Len(msgs)
         /\ \A k \in 1..Len(msgs) : PublishAll(msgs)[k] = Publish(msgs[k])
         /\ PublishAll(msgs) = << >> => msgs = << >>
<1>1. Len(msgs) \in Nat /\ DOMAIN msgs = 1..Len(msgs) /\ \A k \in 1..Len(msgs) : msgs[k] \in M
  BY LenProperties, ElementOfSeq
<1> DEFINE n == Len(msgs)  ps == [k \in 1..n |-> Publish(msgs[k])]
<1>2. PublishAll(msgs) = ps
  BY <1>1 DEF PublishAll
<1>3. \A k \in 1..n : Publish(msgs[k]) \in Publications(M)
  BY <1>1 DEF Publish, Publications
<1>4. n \in Nat /\ ps \in [1..n -> Publications(M)]
  BY <1>1, <1>3
<1>5. \A k \in 1..n : ps[k] = Publish(msgs[k])
  OBVIOUS
<1> HIDE DEF ps, n
<1>6. ps \in Seq(Publications(M)) /\ Len(ps) = n
  BY <1>4
<1>7. PublishAll(msgs) = << >> => msgs = << >>
  BY <1>2, <1>6, EmptySeq DEF n
<1> QED BY <1>2, <1>5, <1>6, <1>7 DEF n

LEMMA StateTypes ==
  ASSUME NEW s \in States
  PROVE  /\ s = [proj |-> s.proj, jobs |-> s.jobs, late |-> s.late]
         /\ s.proj = [l2 |-> s.proj.l2, tape |-> s.proj.tape, aggs |-> s.proj.aggs]
         /\ s.proj.l2 \in Views /\ s.proj.tape \in Tapes
         /\ s.proj.aggs \in [Spans -> Aggregators] /\ s.proj.aggs[Shortest] \in Aggregators
         /\ s.jobs \in Seq(AllJobs) /\ s.late \in LateSets
<1>1. s.proj \in Projections
  BY DEF States
<1>2. s.proj.aggs \in [Spans -> Aggregators]
  BY <1>1 DEF Projections
<1> QED BY <1>1, <1>2, SpanTypes DEF States, Projections

LEMMA ComputeNone ==
  ASSUME NEW s \in States, s.jobs = << >>
  PROVE  Compute(s) = s
BY DEF Compute

LEMMA ComputePublish ==
  ASSUME NEW s \in States, NEW m \in Messages, NEW r \in Seq(AllJobs),
         s.jobs = <<Publish(m)>> \o r
  PROVE  Compute(s) = s
<1>1. s.jobs # << >> /\ s.jobs[1] = Publish(m)
  BY First, JobTypes
<1>2. s.jobs[1].do = "publish"
  BY <1>1 DEF Publish
<1> QED BY <1>1, <1>2 DEF Compute

LEMMA ComputeQuote ==
  ASSUME NEW s \in States, NEW r \in Seq(AllJobs), s.jobs = <<Job("ticker")>> \o r
  PROVE  LET m == TickerOf(s.proj.aggs[Shortest])
         IN /\ m \in Messages
            /\ Compute(s) = [proj |-> s.proj, jobs |-> <<Publish(m)>> \o r, late |-> s.late]
<1> DEFINE m == TickerOf(s.proj.aggs[Shortest])
           jobs == <<Publish(m)>> \o r
<1>1. s.jobs # << >> /\ s.jobs[1] = Job("ticker") /\ Tail(s.jobs) = r
  BY First, JobTypes
<1>2. s.jobs[1].do = "ticker"
  BY <1>1 DEF Job
<1>3. Compute(s) = PublishTicker(s)
  BY <1>1, <1>2 DEF Compute
<1>4. m \in Messages
  <2> DEFINE g == s.proj.aggs[Shortest]
  <2>1. g \in Aggregators
    BY StateTypes
  <2> HIDE DEF g
  <2>2. TickerOf(g) \in Messages
    BY <2>1 DEF Messages, TickerMessages
  <2> QED BY <2>2 DEF g
<1>5. PublishTicker(s) = [s EXCEPT !.jobs = jobs]
  BY <1>1 DEF PublishTicker, TickerOf
<1> HIDE DEF jobs
<1>6. PublishTicker(s) = [proj |-> s.proj, jobs |-> jobs, late |-> s.late]
  BY <1>5, StateTypes
<1> QED BY <1>3, <1>4, <1>6 DEF jobs

LEMMA SnapshotType ==
  ASSUME NEW v \in Views
  PROVE  Snapshot(v, SnapshotLevels) \in Depths /\ SnapshotOf(v) \in Messages
<1>1. ASSUME NEW side \in Sides PROVE Snapshot(v, SnapshotLevels)[side] \in LevelMaps
  <2> DEFINE f == v.levels[side]
             shown == {p \in DOMAIN f : Cardinality({q \in DOMAIN f : Better(side, q, p)}) < SnapshotLevels}
  <2>1. f \in LevelMaps
    BY DEF Views, Depths
  <2> HIDE DEF f
  <2>2. PICK P \in FinitePrices : f \in [P -> Nat \ {0}]
    BY <2>1 DEF LevelMaps
  <2>3. shown \in SUBSET P
    BY <2>2
  <2> HIDE DEF shown
  <2>4. shown \in FinitePrices
    BY <2>3, FS_Subset DEF FinitePrices
  <2>5. Restrict(f, shown) \in [shown -> Nat \ {0}]
    BY <2>2, <2>3 DEF Restrict
  <2>6. Snapshot(v, SnapshotLevels)[side] = Restrict(f, shown)
    BY DEF Snapshot, f, shown
  <2> QED BY <2>4, <2>5, <2>6 DEF LevelMaps
<1>2. Snapshot(v, SnapshotLevels) \in Depths
  BY <1>1 DEF Snapshot, Depths
<1> QED BY <1>2 DEF SnapshotOf, Messages, BookSnapshots

LEMMA ComputeSnapshot ==
  ASSUME NEW s \in States, NEW r \in Seq(AllJobs), s.jobs = <<Job("snapshot")>> \o r
  PROVE  LET m == SnapshotOf(s.proj.l2)
         IN /\ m \in Messages
            /\ Compute(s) = [proj |-> s.proj, jobs |-> <<Publish(m)>> \o r, late |-> s.late]
<1>1. s.jobs # << >> /\ s.jobs[1] = Job("snapshot") /\ Tail(s.jobs) = r
  BY First, JobTypes
<1>2. s.jobs[1].do = "snapshot"
  BY <1>1 DEF Job
<1>3. Compute(s) = PublishL2Snapshot(s)
  BY <1>1, <1>2 DEF Compute
<1>4. SnapshotOf(s.proj.l2) \in Messages
  BY StateTypes, SnapshotType
<1>5. PublishL2Snapshot(s) = [s EXCEPT !.jobs = <<Publish(SnapshotOf(s.proj.l2))>> \o r]
  BY <1>1, StateTypes DEF PublishL2Snapshot, SnapshotOf
<1> QED BY <1>3, <1>4, <1>5, StateTypes

LEMMA TradedTypes ==
  ASSUME LogOK, NEW i \in Traded
  PROVE  /\ i \in Nat /\ i \in 1..Len(log) /\ log[i].event.kind = "Trade"
         /\ log[i].event.price \in Nat /\ log[i].event.qty \in Nat /\ log[i].ts \in Nat
<1>1. i \in 1..Len(log) /\ log[i].event.kind = "Trade"
  BY DEF Traded
<1>2. log[i] \in Entries
  BY <1>1, ElementOfSeq DEF LogOK
<1>3. log[i].event \in Events /\ log[i].ts \in Nat
  BY <1>2 DEF Entries
<1> QED BY <1>1, <1>3 DEF Events

LEMMA ListTypes ==
  ASSUME NEW i \in Nat
  PROVE  ChartJobs(i) \in Seq(AllJobs) /\ TradeJobs(i) \in Seq(AllJobs)
         /\ TradeJobs(i) = <<JobOn("trade", i), JobOn("candles", i), Job("ticker")>>
<1>1. ChartJobs(i) \in Seq(AllJobs)
  <2>1. <<JobOn("candles", i)>> \in Seq(AllJobs) /\ <<Job("ticker")>> \in Seq(AllJobs)
    BY JobTypes, Singles
  <2> QED BY <2>1, ConcatProperties DEF ChartJobs
<1>2. TradeJobs(i) \in Seq(AllJobs)
  <2>1. <<JobOn("trade", i)>> \in Seq(AllJobs)
    BY JobTypes, Singles
  <2> QED BY <1>1, <2>1, ConcatProperties DEF TradeJobs
<1>3. TradeJobs(i) = <<JobOn("trade", i), JobOn("candles", i), Job("ticker")>>
  <2> DEFINE a == JobOn("trade", i)  b == JobOn("candles", i)  d == Job("ticker")
  <2>1. a \in AllJobs /\ b \in AllJobs /\ d \in AllJobs
    BY JobTypes
  <2>2. TradeJobs(i) = <<a>> \o (<<b>> \o <<d>>)
    BY DEF TradeJobs, ChartJobs
  <2> HIDE DEF a, b, d
  <2>3. TradeJobs(i) = <<a, b, d>>
    BY <2>1, <2>2, Three
  <2> QED BY <2>3 DEF a, b, d
<1> QED BY <1>1, <1>2, <1>3

LEMMA ComputeTrade ==
  ASSUME LogOK, NEW s \in States, NEW i \in Traded, s.jobs = TradeJobs(i)
  PROVE  LET tape == PushTape(s.proj.tape, i)
         IN /\ TradeOf(i) \in Messages
            /\ tape \in Tapes
            /\ Compute(s) =
                 [proj |-> [l2 |-> s.proj.l2, tape |-> tape, aggs |-> s.proj.aggs],
                  jobs |-> <<Publish(TradeOf(i))>> \o ChartJobs(i), late |-> s.late]
<1> DEFINE tape == PushTape(s.proj.tape, i)
<1>0. i \in Nat
  BY TradedTypes
<1>1. s.jobs # << >> /\ s.jobs[1] = JobOn("trade", i) /\ Tail(s.jobs) = ChartJobs(i)
  <2> DEFINE j == JobOn("trade", i)  r == ChartJobs(i)
  <2>1. j \in AllJobs /\ r \in Seq(AllJobs) /\ s.jobs = <<j>> \o r
    BY <1>0, JobTypes, ListTypes DEF TradeJobs
  <2> HIDE DEF j, r
  <2>2. s.jobs # << >> /\ s.jobs[1] = j /\ Tail(s.jobs) = r
    BY <2>1, First
  <2> QED BY <2>2 DEF j, r
<1>2. s.jobs[1].do = "trade" /\ s.jobs[1].at = i
  BY <1>1 DEF JobOn
<1>3. Compute(s) = PublishTrade(s, i)
  BY <1>1, <1>2 DEF Compute
<1>4. tape \in Tapes
  <2>1. s.proj.tape \in Seq(Traded)
    BY StateTypes DEF Tapes
  <2> QED BY <2>1, PushTapeType DEF Tapes
<1>5. TradeOf(i) \in Messages
  BY <1>0 DEF TradeOf, Messages, TradeMessages
<1>6. PublishTrade(s, i) =
        [s EXCEPT !.proj.tape = tape, !.jobs = <<Publish(TradeOf(i))>> \o ChartJobs(i)]
  BY <1>1, StateTypes DEF PublishTrade, TradeOf
<1> HIDE DEF tape
<1>7. PublishTrade(s, i) =
        [proj |-> [l2 |-> s.proj.l2, tape |-> tape, aggs |-> s.proj.aggs],
         jobs |-> <<Publish(TradeOf(i))>> \o ChartJobs(i), late |-> s.late]
  BY <1>6, StateTypes
<1> QED BY <1>3, <1>4, <1>5, <1>7 DEF tape

(* The aggregators after a trade, what both of them return, and what each  *)
(* has dropped then.                                                       *)
ChartedBy(aggs, i) ==
  [n \in Spans |-> OnTrade(aggs[n], n, log[i].event.price, log[i].event.qty, log[i].ts)]
ChartEvents(aggs, i) ==
  ByInterval([n \in Spans |->
    OnTradeEvents(aggs[n], n, log[i].event.price, log[i].event.qty, log[i].ts)])
Dropped(l, aggs, i) ==
  [n \in Spans |-> l[n] \cup {k \in {i} : TooLate(aggs[n], n, log[i].ts)}]

LEMMA ByIntervalType ==
  ASSUME NEW evs, \A n \in Spans : evs[n] \in Seq(CandleMessages)
  PROVE  /\ ByInterval(evs) \in Seq(CandleMessages)
         /\ ByInterval(evs) = << >> => \A n \in Spans : evs[n] = << >>
<1> DEFINE a == evs[Shortest]  b == evs[Longest]
<1>1. a \in Seq(CandleMessages) /\ b \in Seq(CandleMessages)
  BY SpanTypes
<1>2. a = << >> /\ b = << >> => \A n \in Spans : evs[n] = << >>
  BY SpanTypes
<1> HIDE DEF a, b
<1>3. a \o b \in Seq(CandleMessages) /\ (a \o b = << >> => a = << >> /\ b = << >>)
  <2>1. a \o b \in Seq(CandleMessages) /\ Len(a \o b) = Len(a) + Len(b)
        /\ Len(a) \in Nat /\ Len(b) \in Nat
    BY <1>1, ConcatProperties, LenProperties
  <2>2. Len(a \o b) = 0 => Len(a) = 0 /\ Len(b) = 0
    BY <2>1
  <2> QED BY <1>1, <2>1, <2>2, EmptySeq
<1>4. ByInterval(evs) = a \o b
  BY DEF ByInterval, a, b
<1> QED BY <1>2, <1>3, <1>4

LEMMA ChartTypes ==
  ASSUME LogOK, NEW aggs \in [Spans -> Aggregators], NEW i \in Traded
  PROVE  /\ ChartedBy(aggs, i) \in [Spans -> Aggregators]
         /\ ChartEvents(aggs, i) \in Seq(CandleMessages)
         /\ ChartEvents(aggs, i) = << >> => ChartedBy(aggs, i) = aggs
         /\ \A l \in LateSets : Dropped(l, aggs, i) \in LateSets
<1> DEFINE price == log[i].event.price  qty == log[i].event.qty  ts == log[i].ts
           evs == [n \in Spans |-> OnTradeEvents(aggs[n], n, price, qty, ts)]
<1>1. price \in Nat /\ qty \in Nat /\ ts \in Nat /\ i \in Nat
  BY TradedTypes
<1>2. ChartEvents(aggs, i) = ByInterval(evs)
  BY DEF ChartEvents
<1>3. ChartedBy(aggs, i) = [n \in Spans |-> OnTrade(aggs[n], n, price, qty, ts)]
  BY DEF ChartedBy
<1> HIDE DEF price, qty, ts
<1>4. \A n \in Spans :
        /\ OnTrade(aggs[n], n, price, qty, ts) \in Aggregators
        /\ evs[n] \in Seq(CandleMessages)
        /\ evs[n] = << >> => OnTrade(aggs[n], n, price, qty, ts) = aggs[n]
  <2> SUFFICES ASSUME NEW n \in Spans
               PROVE  /\ OnTrade(aggs[n], n, price, qty, ts) \in Aggregators
                      /\ OnTradeEvents(aggs[n], n, price, qty, ts) \in Seq(CandleMessages)
                      /\ OnTradeEvents(aggs[n], n, price, qty, ts) = << >> =>
                           OnTrade(aggs[n], n, price, qty, ts) = aggs[n]
    OBVIOUS
  <2> DEFINE g == aggs[n]
  <2>1. g \in Aggregators
    OBVIOUS
  <2> HIDE DEF g
  <2>2. /\ OnTrade(g, n, price, qty, ts) \in Aggregators
        /\ OnTradeEvents(g, n, price, qty, ts) \in Seq(CandleMessages)
        /\ OnTradeEvents(g, n, price, qty, ts) = << >> => OnTrade(g, n, price, qty, ts) = g
    BY <1>1, <2>1, OnTradeType
  <2> QED BY <2>2 DEF g
<1> HIDE DEF evs
<1>5. /\ ByInterval(evs) \in Seq(CandleMessages)
      /\ ByInterval(evs) = << >> => \A n \in Spans : evs[n] = << >>
  BY <1>4, ByIntervalType
<1>6. \A l \in LateSets : Dropped(l, aggs, i) \in LateSets
  BY <1>1 DEF Dropped, LateSets
<1> QED BY <1>2, <1>3, <1>4, <1>5, <1>6

LEMMA ComputeChart ==
  ASSUME LogOK, NEW s \in States, NEW i \in Traded, s.jobs = ChartJobs(i)
  PROVE  Compute(s) =
           [proj |-> [l2 |-> s.proj.l2, tape |-> s.proj.tape, aggs |-> ChartedBy(s.proj.aggs, i)],
            jobs |-> PublishAll(ChartEvents(s.proj.aggs, i)) \o <<Job("ticker")>>,
            late |-> Dropped(s.late, s.proj.aggs, i)]
<1> DEFINE jobs == PublishAll(ChartEvents(s.proj.aggs, i)) \o <<Job("ticker")>>
           aggs == ChartedBy(s.proj.aggs, i)
           l    == Dropped(s.late, s.proj.aggs, i)
<1>0. i \in Nat
  BY TradedTypes
<1>1. s.jobs # << >> /\ s.jobs[1] = JobOn("candles", i) /\ Tail(s.jobs) = <<Job("ticker")>>
  <2> DEFINE j == JobOn("candles", i)  r == <<Job("ticker")>>
  <2>1. j \in AllJobs /\ r \in Seq(AllJobs) /\ s.jobs = <<j>> \o r
    BY <1>0, JobTypes, Singles DEF ChartJobs
  <2> HIDE DEF j, r
  <2>2. s.jobs # << >> /\ s.jobs[1] = j /\ Tail(s.jobs) = r
    BY <2>1, First
  <2> QED BY <2>2 DEF j, r
<1>2. s.jobs[1].do = "candles" /\ s.jobs[1].at = i
  BY <1>1 DEF JobOn
<1>3. Compute(s) = ChartTrade(s, i)
  BY <1>1, <1>2 DEF Compute
<1>4. ChartTrade(s, i) = [s EXCEPT !.proj.aggs = aggs, !.late = l, !.jobs = jobs]
  <2>1. ChartTrade(s, i) =
          [s EXCEPT
            !.proj.aggs = [n \in Spans |->
              OnTrade(s.proj.aggs[n], n, log[i].event.price, log[i].event.qty, log[i].ts)],
            !.late = [n \in Spans |->
              s.late[n] \cup {k \in {i} : TooLate(s.proj.aggs[n], n, log[i].ts)}],
            !.jobs = PublishAll(ByInterval([n \in Spans |->
              OnTradeEvents(s.proj.aggs[n], n, log[i].event.price, log[i].event.qty, log[i].ts)]))
              \o Tail(s.jobs)]
    BY StateTypes DEF ChartTrade
  <2> QED BY <1>1, <2>1 DEF ChartedBy, ChartEvents, Dropped
<1> HIDE DEF aggs, jobs, l
<1>5. ChartTrade(s, i) =
        [proj |-> [l2 |-> s.proj.l2, tape |-> s.proj.tape, aggs |-> aggs],
         jobs |-> jobs, late |-> l]
  BY <1>4, StateTypes
<1> QED BY <1>3, <1>5 DEF aggs, jobs, l

(* The deltas of an event, and what is to be done after them.              *)
DeltaJobs(v, i) ==
  PublishAll([k \in DOMAIN DeltasOf(v, log[i].event) |-> DepthMessage(DeltasOf(v, log[i].event)[k])])
Further(i) == IF log[i].event.kind = "Trade" THEN TradeJobs(i) ELSE << >>

LEMMA ComputeApply ==
  ASSUME LogOK, NEW s \in States, NEW i \in 1..Len(log), s.jobs = <<JobOn("apply", i)>>
  PROVE  Compute(s) =
           [proj |-> [l2 |-> ApplyL2(s.proj.l2, log[i].event), tape |-> s.proj.tape,
                      aggs |-> s.proj.aggs],
            jobs |-> DeltaJobs(s.proj.l2, i) \o Further(i), late |-> s.late]
<1> DEFINE jobs == DeltaJobs(s.proj.l2, i) \o Further(i)
           view == ApplyL2(s.proj.l2, log[i].event)
<1>1. s.jobs # << >> /\ s.jobs[1] = JobOn("apply", i)
  OBVIOUS
<1>2. s.jobs[1].do = "apply" /\ s.jobs[1].at = i
  BY <1>1 DEF JobOn
<1>3. Compute(s) = ApplyEvent(s, i)
  BY <1>1, <1>2 DEF Compute
<1>0. i \in Nat
  BY LenProperties DEF LogOK
<1>4. ApplyEvent(s, i) = [s EXCEPT !.proj.l2 = view, !.jobs = jobs]
  BY <1>0, ListTypes, StateTypes DEF ApplyEvent, DeltaJobs, Further
<1> HIDE DEF view, jobs
<1>5. ApplyEvent(s, i) =
        [proj |-> [l2 |-> view, tape |-> s.proj.tape, aggs |-> s.proj.aggs],
         jobs |-> jobs, late |-> s.late]
  BY <1>4, StateTypes
<1> QED BY <1>3, <1>5 DEF view, jobs

(* The deltas say what the levels hold afterwards, and no other changes.   *)
LEMMA DeltaJobTypes ==
  ASSUME LogOK, NEW v \in Views, NEW i \in 1..Len(log)
  PROVE  LET after == ApplyL2(v, log[i].event).levels
             jobs  == DeltaJobs(v, i)
         IN /\ jobs \in Seq(Publications(BookDeltas))
            /\ \A x \in Range(jobs) : x.msg.qty = QtyIn(after, x.msg.side, x.msg.price)
            /\ \A side \in Sides : \A price \in Nat :
                 \/ QtyIn(after, side, price) = QtyIn(v.levels, side, price)
                 \/ \E x \in Range(jobs) : x.msg.side = side /\ x.msg.price = price
<1> DEFINE ev == log[i].event  after == ApplyL2(v, ev)  changed == ChangedBy(v, ev)
           deltas == DeltasOf(v, ev)
           msgs == [k \in DOMAIN deltas |-> DepthMessage(deltas[k])]
           jobs == PublishAll(msgs)
<1>1. ev \in Events
  <2>1. log[i] \in Entries
    BY ElementOfSeq DEF LogOK
  <2> QED BY <2>1 DEF Entries
<1> HIDE DEF ev
<1>2. after \in Views /\ changed \in Seq(Places) /\ DiffersAt(v, after, Range(changed))
  BY <1>1, ApplyType
<1>3. /\ DOMAIN deltas = 1..Len(changed) /\ Len(changed) \in Nat
      /\ \A k \in 1..Len(changed) :
           /\ changed[k] \in Places
           /\ deltas[k].side = changed[k].side /\ deltas[k].price = changed[k].price
           /\ deltas[k].qty = QtyIn(after.levels, changed[k].side, changed[k].price)
  BY <1>1, DeltaTypes
<1> HIDE DEF after, changed, deltas
<1> DEFINE n == Len(changed)
<1>4. ASSUME NEW k \in 1..n
      PROVE  /\ msgs[k] \in BookDeltas
             /\ msgs[k].side = changed[k].side /\ msgs[k].price = changed[k].price
             /\ msgs[k].qty = QtyIn(after.levels, msgs[k].side, msgs[k].price)
  <2>1. msgs[k] = DepthMessage(deltas[k])
    BY <1>3
  <2>2. changed[k].side \in Sides /\ changed[k].price \in Nat
    BY <1>3 DEF Places
  <2>3. after.levels \in Depths
    BY <1>2 DEF Views
  <2>4. QtyIn(after.levels, changed[k].side, changed[k].price) \in Nat
    BY <2>2, <2>3, QtyTypes
  <2> QED BY <1>3, <2>1, <2>2, <2>4 DEF DepthMessage, BookDeltas
<1>5. DOMAIN msgs = 1..n /\ msgs \in [1..n -> BookDeltas]
  BY <1>3, <1>4
<1> HIDE DEF msgs
<1>6. msgs \in Seq(BookDeltas) /\ Len(msgs) = n
  BY <1>3, <1>5
<1>7. /\ jobs \in Seq(Publications(BookDeltas)) /\ Len(jobs) = n
      /\ \A k \in 1..n : jobs[k] = Publish(msgs[k])
  BY <1>6, PublishAllType
<1> HIDE DEF jobs
<1>8. Range(jobs) = {jobs[k] : k \in 1..n}
  <2>1. DOMAIN jobs = 1..n
    BY <1>7, LenProperties
  <2> QED BY <2>1 DEF Range
<1>9. \A k \in 1..n : jobs[k].msg = msgs[k]
  <2>1. \A m : Publish(m).msg = m
    BY DEF Publish
  <2> HIDE DEF n
  <2> QED BY <1>7, <2>1
<1>10. \A x \in Range(jobs) : x.msg.qty = QtyIn(after.levels, x.msg.side, x.msg.price)
  BY <1>4, <1>8, <1>9
<1>11. ASSUME NEW side \in Sides, NEW price \in Nat
       PROVE  \/ QtyIn(after.levels, side, price) = QtyIn(v.levels, side, price)
              \/ \E x \in Range(jobs) : x.msg.side = side /\ x.msg.price = price
  <2>1. CASE At(side, price) \notin Range(changed)
    BY <1>2, <2>1 DEF DiffersAt
  <2>2. CASE At(side, price) \in Range(changed)
    <3>1. PICK k \in 1..n : changed[k] = At(side, price)
      <4>1. DOMAIN changed = 1..n
        BY <1>2, LenProperties
      <4> QED BY <2>2, <4>1 DEF Range
    <3>2. jobs[k].msg.side = side /\ jobs[k].msg.price = price
      BY <1>4, <1>9, <3>1 DEF At
    <3> QED BY <1>8, <3>2
  <2> QED BY <2>1, <2>2
<1>12. DeltaJobs(v, i) = jobs
  BY DEF DeltaJobs, jobs, msgs, deltas, ev
<1> QED BY <1>7, <1>10, <1>11, <1>12 DEF after, ev

(* Lists that begin with what is sent, and lists of which one computation  *)
(* makes such a list.                                                      *)
Ready(c, i, jobs) ==
  \/ jobs = << >>
  \/ \E m \in Messages : \E r \in Seq(AllJobs) : jobs = <<Publish(m)>> \o r /\ Due(c, i, r)

Soon(c, i, jobs) ==
  \/ Ready(c, i, jobs)
  \/ jobs = TradeJobs(i) /\ c = Consumer /\ i \in Traded
  \/ jobs = <<Job("ticker")>>
  \/ \E r \in Seq(AllJobs) : jobs = <<Job("snapshot")>> \o r /\ Due(c, i, r)

(* What one computation does.                                              *)
Step(c, i, s, t) ==
  \/ Ready(c, i, s.jobs) /\ t = s
  \/ /\ s.jobs = <<Job("ticker")>>
     /\ t = [proj |-> s.proj, jobs |-> <<Publish(TickerOf(s.proj.aggs[Shortest]))>>,
             late |-> s.late]
  \/ \E r \in Seq(AllJobs) :
       /\ s.jobs = <<Job("snapshot")>> \o r /\ Due(c, i, r)
       /\ t = [proj |-> s.proj, jobs |-> <<Publish(SnapshotOf(s.proj.l2))>> \o r,
               late |-> s.late]
  \/ /\ s.jobs = TradeJobs(i) /\ c = Consumer /\ i \in Traded
     /\ t = [proj |-> [l2 |-> s.proj.l2, tape |-> PushTape(s.proj.tape, i), aggs |-> s.proj.aggs],
             jobs |-> <<Publish(TradeOf(i))>> \o ChartJobs(i), late |-> s.late]
  \/ /\ s.jobs = ChartJobs(i) /\ c = Consumer /\ i \in Traded
     /\ t = [proj |-> [l2 |-> s.proj.l2, tape |-> s.proj.tape,
                       aggs |-> ChartedBy(s.proj.aggs, i)],
             jobs |-> PublishAll(ChartEvents(s.proj.aggs, i)) \o <<Job("ticker")>>,
             late |-> Dropped(s.late, s.proj.aggs, i)]
  \/ /\ s.jobs = <<JobOn("apply", i)>> /\ c = Consumer /\ i \in 1..Len(log)
     /\ t = [proj |-> [l2 |-> ApplyL2(s.proj.l2, log[i].event), tape |-> s.proj.tape,
                       aggs |-> s.proj.aggs],
             jobs |-> DeltaJobs(s.proj.l2, i) \o Further(i), late |-> s.late]

LEMMA ReadyLists ==
  ASSUME NEW c, NEW i \in Nat, NEW m \in Messages, NEW r, Due(c, i, r)
  PROVE  Ready(c, i, <<Publish(m)>> \o r) /\ <<Publish(m)>> \o r \in Seq(AllJobs)
<1>1. r \in Seq(AllJobs) /\ Publish(m) \in AllJobs
  BY RestTypes, JobTypes
<1> QED BY <1>1, First DEF Ready

LEMMA LeftIsSoon ==
  ASSUME NEW c, NEW i \in Nat, NEW ps \in Seq(Publications(Own(c))),
         NEW r \in {<< >>, <<Job("ticker")>>, Further(i)}, r = Further(i) => c = Consumer,
         i \in 1..Len(log)
  PROVE  Soon(c, i, ps \o r) /\ Due(c, i, ps \o r) /\ ps \o r \in Seq(AllJobs)
<1>1. r \in {<< >>, <<Job("ticker")>>} \/ (r = TradeJobs(i) /\ c = Consumer /\ i \in Traded)
  BY DEF Further, Traded
<1>2. r \in Rests(c, i)
  BY <1>1 DEF Rests
<1>3. Due(c, i, ps \o r) /\ Due(c, i, r)
  BY <1>2, LeftLaws
<1>4. ps \o r \in Seq(AllJobs) /\ r \in Seq(AllJobs)
  BY <1>3, RestTypes
<1>5. CASE ps = << >>
  <2>1. ps \o r = r
    BY <1>4, <1>5, ConcatEmptySeq
  <2> QED BY <1>1, <1>3, <1>4, <2>1 DEF Soon, Ready
<1>6. CASE ps # << >>
  <2> DEFINE h == Head(ps)  t == Tail(ps)
  <2>1. h \in Publications(Own(c)) /\ t \in Seq(Publications(Own(c)))
    BY <1>6, HeadTailProperties
  <2>2. ps \in Seq(AllJobs) /\ t \in Seq(AllJobs) /\ h \in AllJobs
    BY <2>1, JobTypes, SeqMonotonic
  <2>3. ps \o r = <<h>> \o (t \o r)
    BY <1>4, <1>6, <2>2, SequencesJoined
  <2> HIDE DEF h, t
  <2>4. h = Publish(h.msg) /\ h.msg \in Messages
    BY <2>1 DEF Publications, Publish, Own, Messages
  <2>5. Due(c, i, t \o r)
    BY <1>2, <2>1, LeftLaws
  <2>6. Ready(c, i, <<Publish(h.msg)>> \o (t \o r))
    BY <2>4, <2>5, ReadyLists
  <2> QED BY <1>3, <1>4, <2>3, <2>4, <2>6 DEF Soon
<1> QED BY <1>5, <1>6

LEMMA Compute1 ==
  ASSUME LogOK, NEW s \in States, NEW c, NEW i \in Nat, Forms(c, i, s.jobs)
  PROVE  Step(c, i, s, Compute(s))
<1>1. CASE s.jobs = << >>
  BY <1>1, ComputeNone DEF Step, Ready
<1>2. ASSUME NEW m \in Messages, NEW r \in Seq(AllJobs), s.jobs = <<Publish(m)>> \o r,
             Due(c, i, r)
      PROVE  Step(c, i, s, Compute(s))
  <2>1. Compute(s) = s
    BY <1>2, ComputePublish
  <2>2. Ready(c, i, s.jobs)
    BY <1>2 DEF Ready
  <2> QED BY <2>1, <2>2 DEF Step
<1>3. CASE s.jobs = <<JobOn("apply", i)>> /\ c = Consumer /\ i \in 1..Len(log)
  BY <1>3, ComputeApply DEF Step
<1>4. CASE s.jobs = TradeJobs(i) /\ c = Consumer /\ i \in Traded
  BY <1>4, ComputeTrade DEF Step
<1>5. CASE s.jobs = ChartJobs(i) /\ c = Consumer /\ i \in Traded
  BY <1>5, ComputeChart DEF Step
<1>6. CASE s.jobs = <<Job("ticker")>>
  <2> DEFINE m == TickerOf(s.proj.aggs[Shortest])
  <2>1. << >> \in Seq(AllJobs) /\ s.jobs = <<Job("ticker")>> \o << >>
    BY <1>6, JobTypes, Singles
  <2>2. m \in Messages
        /\ Compute(s) = [proj |-> s.proj, jobs |-> <<Publish(m)>> \o << >>, late |-> s.late]
    BY <2>1, ComputeQuote
  <2>3. <<Publish(m)>> \o << >> = <<Publish(m)>>
    <3> HIDE DEF m
    <3> QED BY <2>2, JobTypes, Singles
  <2> QED BY <1>6, <2>2, <2>3 DEF Step
<1>7. ASSUME NEW r \in Seq(AllJobs), s.jobs = <<Job("snapshot")>> \o r, Due(c, i, r)
      PROVE  Step(c, i, s, Compute(s))
  BY <1>7, ComputeSnapshot DEF Step
<1> QED BY <1>1, <1>2, <1>3, <1>4, <1>5, <1>6, <1>7 DEF Forms

(* The projections after a computation, and how near its list is to be     *)
(* sent.                                                                   *)
LEMMA StepTypes ==
  ASSUME LogOK, NEW s \in States, NEW c, NEW i \in Nat, NEW t, Step(c, i, s, t)
  PROVE  /\ t \in States /\ Soon(c, i, t.jobs)
         /\ Soon(c, i, s.jobs) => Ready(c, i, t.jobs)
<1> USE DEF States
<1>0. /\ s = [proj |-> s.proj, jobs |-> s.jobs, late |-> s.late]
      /\ s.proj.l2 \in Views /\ s.proj.tape \in Tapes
      /\ s.proj.aggs \in [Spans -> Aggregators] /\ s.proj.aggs[Shortest] \in Aggregators
      /\ s.jobs \in Seq(AllJobs) /\ s.late \in LateSets /\ s.proj \in Projections
  BY StateTypes
<1>1. CASE Ready(c, i, s.jobs) /\ t = s
  BY <1>1 DEF Soon
<1>2. CASE /\ s.jobs = <<Job("ticker")>>
           /\ t = [proj |-> s.proj, jobs |-> <<Publish(TickerOf(s.proj.aggs[Shortest]))>>,
                   late |-> s.late]
  <2> DEFINE g == s.proj.aggs[Shortest]  m == TickerOf(g)
  <2>1. m \in Messages
    <3>1. g \in Aggregators
      BY <1>0
    <3> QED BY <3>1 DEF Messages, TickerMessages
  <2>2. Due(c, i, << >>)
    BY LeftLaws DEF Rests
  <2> HIDE DEF m
  <2>3. <<Publish(m)>> \o << >> = <<Publish(m)>>
    BY <2>1, JobTypes, Singles
  <2>4. Ready(c, i, <<Publish(m)>>) /\ <<Publish(m)>> \in Seq(AllJobs)
    BY <2>1, <2>2, <2>3, ReadyLists
  <2>5. t = [proj |-> s.proj, jobs |-> <<Publish(m)>>, late |-> s.late]
    BY <1>2 DEF m
  <2> QED BY <1>0, <2>4, <2>5 DEF Soon
<1>3. ASSUME NEW r \in Seq(AllJobs), Due(c, i, r),
             t = [proj |-> s.proj, jobs |-> <<Publish(SnapshotOf(s.proj.l2))>> \o r,
                  late |-> s.late]
      PROVE  t \in States /\ Ready(c, i, t.jobs)
  <2> DEFINE m == SnapshotOf(s.proj.l2)
  <2>1. m \in Messages
    BY <1>0, SnapshotType
  <2>5. t = [proj |-> s.proj, jobs |-> <<Publish(m)>> \o r, late |-> s.late]
    BY <1>3
  <2> HIDE DEF m
  <2>4. Ready(c, i, <<Publish(m)>> \o r) /\ <<Publish(m)>> \o r \in Seq(AllJobs)
    BY <1>3, <2>1, ReadyLists
  <2> QED BY <1>0, <2>4, <2>5
<1>4. CASE /\ s.jobs = TradeJobs(i) /\ c = Consumer /\ i \in Traded
           /\ t = [proj |-> [l2 |-> s.proj.l2, tape |-> PushTape(s.proj.tape, i), aggs |-> s.proj.aggs],
                   jobs |-> <<Publish(TradeOf(i))>> \o ChartJobs(i), late |-> s.late]
  <2> DEFINE m == TradeOf(i)  tape == PushTape(s.proj.tape, i)
  <2>1. m \in Messages
    BY DEF TradeOf, Messages, TradeMessages
  <2>2. tape \in Tapes
    <3>1. s.proj.tape \in Seq(Traded)
      BY <1>0 DEF Tapes
    <3> QED BY <1>4, <3>1, PushTapeType DEF Tapes
  <2>3. Due(c, i, ChartJobs(i))
    BY <1>4, LeftLaws DEF Rests
  <2>5. t = [proj |-> [l2 |-> s.proj.l2, tape |-> tape, aggs |-> s.proj.aggs],
             jobs |-> <<Publish(m)>> \o ChartJobs(i), late |-> s.late]
    BY <1>4
  <2> HIDE DEF m, tape
  <2>4. Ready(c, i, <<Publish(m)>> \o ChartJobs(i)) /\ <<Publish(m)>> \o ChartJobs(i) \in Seq(AllJobs)
    BY <2>1, <2>3, ReadyLists
  <2> QED BY <1>0, <2>2, <2>4, <2>5 DEF Projections, Soon
<1>5. CASE /\ s.jobs = ChartJobs(i) /\ c = Consumer /\ i \in Traded
           /\ t = [proj |-> [l2 |-> s.proj.l2, tape |-> s.proj.tape,
                             aggs |-> ChartedBy(s.proj.aggs, i)],
                   jobs |-> PublishAll(ChartEvents(s.proj.aggs, i)) \o <<Job("ticker")>>,
                   late |-> Dropped(s.late, s.proj.aggs, i)]
  <2> DEFINE ps == PublishAll(ChartEvents(s.proj.aggs, i))  r == <<Job("ticker")>>
             aggs == ChartedBy(s.proj.aggs, i)  l == Dropped(s.late, s.proj.aggs, i)
  <2>1. /\ aggs \in [Spans -> Aggregators] /\ ChartEvents(s.proj.aggs, i) \in Seq(CandleMessages)
        /\ l \in LateSets
    BY <1>0, <1>5, ChartTypes
  <2>2. ps \in Seq(Publications(CandleMessages))
    BY <2>1, PublishAllType
  <2>3. ps \in Seq(Publications(Own(c)))
    <3>1. Publications(CandleMessages) \subseteq Publications(Own(c))
      BY DEF Publications, Own
    <3> HIDE DEF ps
    <3> QED BY <2>2, <3>1, SeqMonotonic
  <2>4. l \in LateSets
    BY <1>0, <2>1
  <2>5. t = [proj |-> [l2 |-> s.proj.l2, tape |-> s.proj.tape, aggs |-> aggs],
             jobs |-> ps \o r, late |-> l]
    BY <1>5
  <2>7. i \in 1..Len(log)
    BY <1>5 DEF Traded
  <2>8. r \in {<< >>, <<Job("ticker")>>, Further(i)} /\ (r = Further(i) => c = Consumer)
    BY <1>5
  <2> HIDE DEF ps, r, aggs, l
  <2>6. Soon(c, i, ps \o r) /\ ps \o r \in Seq(AllJobs)
    BY <2>3, <2>7, <2>8, LeftIsSoon
  <2>9. ~Soon(c, i, s.jobs)
    <3>1. JobOn("candles", i) \in AllJobs /\ r \in Seq(AllJobs)
      BY JobTypes, Singles DEF r
    <3>2. s.jobs = <<JobOn("candles", i)>> \o r
      BY <1>5 DEF ChartJobs, r
    <3>3. s.jobs # << >> /\ s.jobs[1] = JobOn("candles", i)
      <4> DEFINE j == JobOn("candles", i)
      <4> HIDE DEF j
      <4> QED BY <3>1, <3>2, First DEF j
    <3>4. \A x \in AllJobs : \A q \in Seq(AllJobs) : s.jobs = <<x>> \o q => s.jobs[1] = x
      BY First
    <3>5. /\ \A m \in Messages : Publish(m) \in AllJobs /\ Publish(m).do = "publish"
          /\ Job("snapshot") \in AllJobs /\ Job("snapshot").do = "snapshot"
          /\ Job("ticker") \in AllJobs /\ Job("ticker").do = "ticker"
          /\ JobOn("trade", i) \in AllJobs /\ JobOn("trade", i).do = "trade"
          /\ JobOn("candles", i).do = "candles"
      BY JobTypes DEF Publish, Job, JobOn
    <3>6. ~Ready(c, i, s.jobs)
      BY <3>3, <3>4, <3>5 DEF Ready
    <3>7. s.jobs # TradeJobs(i)
      <4>1. ChartJobs(i) \in Seq(AllJobs)
        BY ListTypes
      <4> QED BY <3>3, <3>4, <3>5, <4>1 DEF TradeJobs
    <3>8. s.jobs # <<Job("ticker")>>
      <4>1. <<Job("ticker")>>[1] = Job("ticker")
        OBVIOUS
      <4> QED BY <3>3, <3>5, <4>1
    <3> QED BY <3>3, <3>4, <3>5, <3>6, <3>7, <3>8 DEF Soon
  <2> QED BY <1>0, <2>1, <2>4, <2>5, <2>6, <2>9 DEF Projections
<1>6. CASE /\ s.jobs = <<JobOn("apply", i)>> /\ c = Consumer /\ i \in 1..Len(log)
           /\ t = [proj |-> [l2 |-> ApplyL2(s.proj.l2, log[i].event), tape |-> s.proj.tape,
                             aggs |-> s.proj.aggs],
                   jobs |-> DeltaJobs(s.proj.l2, i) \o Further(i), late |-> s.late]
  <2> DEFINE ps == DeltaJobs(s.proj.l2, i)  r == Further(i)
             view == ApplyL2(s.proj.l2, log[i].event)
  <2>1. ps \in Seq(Publications(BookDeltas))
    BY <1>0, <1>6, DeltaJobTypes
  <2>2. ps \in Seq(Publications(Own(c)))
    <3>1. Publications(BookDeltas) \subseteq Publications(Own(c))
      BY <1>6 DEF Publications, Own
    <3> HIDE DEF ps
    <3> QED BY <2>1, <3>1, SeqMonotonic
  <2>3. view \in Views
    <3>1. log[i] \in Entries
      BY <1>6, ElementOfSeq DEF LogOK
    <3>2. log[i].event \in Events
      BY <3>1 DEF Entries
    <3> QED BY <1>0, <3>2, ApplyType
  <2>5. t = [proj |-> [l2 |-> view, tape |-> s.proj.tape, aggs |-> s.proj.aggs],
             jobs |-> ps \o r, late |-> s.late]
    BY <1>6
  <2>8. r \in {<< >>, <<Job("ticker")>>, Further(i)} /\ (r = Further(i) => c = Consumer)
        /\ i \in 1..Len(log)
    BY <1>6
  <2>9. ~Soon(c, i, s.jobs)
    <3>3. s.jobs # << >> /\ s.jobs[1] = JobOn("apply", i)
      BY <1>6
    <3>4. \A x \in AllJobs : \A q \in Seq(AllJobs) : s.jobs = <<x>> \o q => s.jobs[1] = x
      BY First
    <3>5. /\ \A m \in Messages : Publish(m) \in AllJobs /\ Publish(m).do = "publish"
          /\ Job("snapshot") \in AllJobs /\ Job("snapshot").do = "snapshot"
          /\ Job("ticker") \in AllJobs /\ Job("ticker").do = "ticker"
          /\ JobOn("trade", i) \in AllJobs /\ JobOn("trade", i).do = "trade"
          /\ JobOn("apply", i).do = "apply"
      BY JobTypes DEF Publish, Job, JobOn
    <3>6. ~Ready(c, i, s.jobs)
      BY <3>3, <3>4, <3>5 DEF Ready
    <3>7. s.jobs # TradeJobs(i)
      <4>1. ChartJobs(i) \in Seq(AllJobs)
        BY ListTypes
      <4> QED BY <3>3, <3>4, <3>5, <4>1 DEF TradeJobs
    <3>8. s.jobs # <<Job("ticker")>>
      <4>1. <<Job("ticker")>>[1] = Job("ticker")
        OBVIOUS
      <4> QED BY <3>3, <3>5, <4>1
    <3> QED BY <3>3, <3>4, <3>5, <3>6, <3>7, <3>8 DEF Soon
  <2> HIDE DEF ps, r, view
  <2>6. Soon(c, i, ps \o r) /\ ps \o r \in Seq(AllJobs)
    BY <2>2, <2>8, LeftIsSoon
  <2> QED BY <1>0, <2>3, <2>5, <2>6, <2>9 DEF Projections
<1> QED BY <1>1, <1>2, <1>3, <1>4, <1>5, <1>6 DEF Step, Soon

-----------------------------------------------------------------------------
(* What a coroutine does from one await to the next. *)

Wires == [from : Coroutines, msg : Messages]

Started(p, jobs) == [proj |-> p, jobs |-> jobs, late |-> late]

(* The list is empty and nothing is sent, or its first item is.            *)
Sent(c, i, s, before) ==
  \/ /\ s.jobs = << >>
     /\ todo' = [todo EXCEPT ![c] = << >>] /\ wire' = before /\ primed' = primed
  \/ \E m \in Messages : \E r \in Seq(AllJobs) :
       /\ s.jobs = <<Publish(m)>> \o r /\ Due(c, i, r)
       /\ todo' = [todo EXCEPT ![c] = r]
       /\ wire' = Append(before, [from |-> c, msg |-> m])
       /\ primed' = (primed \/ m.channel = "book:snapshot")

Ran(c, i, p, jobs, before) ==
  \E half, s \in States :
    /\ Step(c, i, Started(p, jobs), half) /\ Step(c, i, half, s)
    /\ proj' = s.proj /\ late' = s.late
    /\ Sent(c, i, s, before)

LEMMA RunOutcome ==
  ASSUME LogOK, late \in LateSets, primed \in BOOLEAN,
         NEW c, NEW i \in Nat, NEW p \in Projections, NEW jobs \in Seq(AllJobs),
         Forms(c, i, jobs), NEW before, Run(c, p, jobs, before)
  PROVE  Started(p, jobs) \in States /\ Ran(c, i, p, jobs, before)
<1> DEFINE start == Started(p, jobs)  half == Compute(start)  s == Compute(half)
<1>1. start \in States /\ start.jobs = jobs
  BY DEF States, Started
<1>2. /\ proj' = s.proj /\ late' = s.late
      /\ IF s.jobs = << >> THEN todo' = [todo EXCEPT ![c] = << >>] /\ wire' = before
         ELSE /\ todo' = [todo EXCEPT ![c] = Tail(s.jobs)]
              /\ wire' = Append(before, [from |-> c, msg |-> s.jobs[1].msg])
      /\ primed' = (primed \/ (s.jobs # << >> /\ s.jobs[1].msg.channel = "book:snapshot"))
  BY DEF Run, Started
<1> HIDE DEF start
<1>3. Step(c, i, start, half)
  BY <1>1, Compute1
<1> HIDE DEF half
<1>4. half \in States /\ Soon(c, i, half.jobs)
  BY <1>1, <1>3, StepTypes
<1>5. Forms(c, i, half.jobs)
  BY <1>4 DEF Soon, Ready, Forms
<1>6. Step(c, i, half, s)
  BY <1>4, <1>5, Compute1
<1> HIDE DEF s
<1>7. s \in States /\ Ready(c, i, s.jobs)
  BY <1>4, <1>6, StepTypes
<1>8. Sent(c, i, s, before)
  <2>1. CASE s.jobs = << >>
    BY <1>2, <2>1 DEF Sent
  <2>2. ASSUME NEW m \in Messages, NEW r \in Seq(AllJobs), s.jobs = <<Publish(m)>> \o r,
               Due(c, i, r)
        PROVE  Sent(c, i, s, before)
    <3>1. s.jobs # << >> /\ s.jobs[1] = Publish(m) /\ Tail(s.jobs) = r
      BY <2>2, JobTypes, First
    <3>2. s.jobs[1].msg = m
      BY <3>1 DEF Publish
    <3>3. /\ todo' = [todo EXCEPT ![c] = r] /\ wire' = Append(before, [from |-> c, msg |-> m])
          /\ primed' = (primed \/ m.channel = "book:snapshot")
      BY <1>2, <3>1, <3>2
    <3> QED BY <2>2, <3>3 DEF Sent
  <2> QED BY <1>7, <2>1, <2>2 DEF Ready
<1> QED BY <1>1, <1>2, <1>3, <1>4, <1>6, <1>7, <1>8 DEF Ran, start

JobsOK ==
  /\ todo \in [Coroutines -> Seq(AllJobs)]
  /\ \A c \in Coroutines : Due(c, cursor, todo[c])

LEMMA RunTypes ==
  ASSUME LogOK, late \in LateSets, primed \in BOOLEAN,
         todo \in [Coroutines -> Seq(AllJobs)],
         NEW c \in Coroutines, NEW i \in Nat, NEW p \in Projections, NEW jobs \in Seq(AllJobs),
         Forms(c, i, jobs), NEW before \in Seq(Wires), Run(c, p, jobs, before)
  PROVE  /\ proj' \in Projections /\ late' \in LateSets /\ primed' \in BOOLEAN
         /\ todo' \in [Coroutines -> Seq(AllJobs)] /\ Due(c, i, todo'[c])
         /\ \A d \in Coroutines \ {c} : todo'[d] = todo[d]
         /\ wire' \in Seq(Wires)
<1>1. Ran(c, i, p, jobs, before)
  BY RunOutcome
<1>2. PICK s \in States : proj' = s.proj /\ late' = s.late /\ Sent(c, i, s, before)
  BY <1>1 DEF Ran
<1>3. proj' \in Projections /\ late' \in LateSets
  BY <1>2 DEF States
<1>4. CASE s.jobs = << >> /\ todo' = [todo EXCEPT ![c] = << >>] /\ wire' = before
           /\ primed' = primed
  <2>1. Due(c, i, << >>) /\ << >> \in Seq(AllJobs)
    BY LeftLaws, RestTypes DEF Rests
  <2> QED BY <1>3, <1>4, <2>1
<1>5. ASSUME NEW m \in Messages, NEW r \in Seq(AllJobs), Due(c, i, r),
             todo' = [todo EXCEPT ![c] = r],
             wire' = Append(before, [from |-> c, msg |-> m]),
             primed' = (primed \/ m.channel = "book:snapshot")
      PROVE  /\ primed' \in BOOLEAN
             /\ todo' \in [Coroutines -> Seq(AllJobs)] /\ Due(c, i, todo'[c])
             /\ \A d \in Coroutines \ {c} : todo'[d] = todo[d]
             /\ wire' \in Seq(Wires)
  <2>1. [from |-> c, msg |-> m] \in Wires
    BY DEF Wires
  <2>2. wire' \in Seq(Wires)
    BY <1>5, <2>1, AppendProperties
  <2>3. todo' \in [Coroutines -> Seq(AllJobs)] /\ todo'[c] = r
        /\ \A d \in Coroutines \ {c} : todo'[d] = todo[d]
    BY <1>5
  <2>4. primed' \in BOOLEAN
    BY <1>5
  <2> QED BY <1>5, <2>2, <2>3, <2>4
<1> QED BY <1>2, <1>3, <1>4, <1>5 DEF Sent

-----------------------------------------------------------------------------
(* The types of the service. *)

MTypes ==
  /\ ConsumerInv /\ cursor <= added
  /\ LogOK /\ Len(log) = added
  /\ clock \in 0..MaxTime /\ ticked \in 0..clock
  /\ reset \in {"no", "disconnected", "cleared"}
  /\ proj \in Projections
  /\ JobsOK
  /\ wire \in Seq(Wires) /\ IsScreen(screen)
  /\ late \in LateSets /\ primed \in BOOLEAN

(* The log only grows.                                                     *)
LogGrows == Len(log) <= Len(log)' /\ \A k \in 1..Len(log) : log'[k] = log[k]

LEMMA TradedGrows ==
  ASSUME LogOK, LogOK', LogGrows
  PROVE  Traded \subseteq Traded' /\ Projections \subseteq Projections'
<1>1. Len(log) \in Nat /\ Len(log)' \in Nat
  BY LenProperties DEF LogOK
<1>2. Traded \subseteq Traded'
  BY <1>1 DEF Traded, LogGrows
<1>3. ASSUME NEW t \in Tapes PROVE t \in Tapes'
  BY <1>2, <1>3, SeqMonotonic DEF Tapes
<1> QED BY <1>2, <1>3 DEF Projections

LEMMA LeftKept ==
  ASSUME LogOK, LogOK', LogGrows,
         NEW d, NEW i \in Nat, NEW j \in Nat, NEW jobs, Due(d, i, jobs),
         i = j \/ d # Consumer \/ jobs = << >>
  PROVE  Due(d, j, jobs)'
<1>1. Len(log) \in Nat /\ Len(log)' \in Nat /\ Traded \subseteq Traded'
  BY TradedGrows, LenProperties DEF LogOK
<1>2. CASE jobs = << >>
  <2>1. << >> \in Seq(Publications(Own(d))) /\ << >> \in Rests(d, j)'
    BY DEF Rests
  <2>2. << >> \o << >> = << >>
    OBVIOUS
  <2> QED BY <1>2, <2>1, <2>2 DEF Due
<1>3. CASE i = j \/ d # Consumer
  <2>1. PICK ps \in Seq(Publications(Own(d))), r \in Rests(d, i) : jobs = ps \o r
    BY DEF Due
  <2>2. r \in Rests(d, j)'
    BY <1>1, <1>3 DEF Rests, LogGrows
  <2> QED BY <2>1, <2>2 DEF Due
<1> QED BY <1>2, <1>3

LEMMA FreshTypes ==
  FreshProjections \in Projections
<1>1. EmptyMap \in LevelMaps
  <2>1. {} \in FinitePrices
    BY FS_EmptySet DEF FinitePrices
  <2>2. EmptyMap \in [{} -> Nat \ {0}]
    BY DEF EmptyMap
  <2> QED BY <2>1, <2>2 DEF LevelMaps
<1>2. EmptyMap \in Tracked
  <2>1. {} \in SUBSET Nat
    OBVIOUS
  <2>2. EmptyMap \in [{} -> [side : Sides, price : Nat, remaining : Nat]]
    BY DEF EmptyMap
  <2> QED BY <2>1, <2>2 DEF Tracked
<1>3. FreshL2 \in Views
  BY <1>1, <1>2 DEF FreshL2, Views, Depths
<1>4. FreshAggregator \in Aggregators
  BY CapacityAssumption DEF FreshAggregator, Aggregators, Histories
<1>5. << >> \in Tapes
  BY CapacityAssumption DEF Tapes
<1> QED BY <1>3, <1>4, <1>5 DEF FreshProjections, Projections

(* Each action of the service that computes runs a list of jobs.           *)
Runs(c, i, p, jobs, before) ==
  /\ c \in Coroutines /\ i \in Nat /\ p \in Projections /\ jobs \in Seq(AllJobs)
  /\ Forms(c, i, jobs) /\ before \in Seq(Wires)
  /\ Run(c, p, jobs, before)

LEMMA LandRuns ==
  ASSUME MTypes, Land
  PROVE  /\ wire # << >> /\ wire[1] \in Wires
         /\ Runs(wire[1].from, cursor, proj, todo[wire[1].from], Tail(wire))
<1>1. wire # << >> /\ wire \in Seq(Wires) /\ Run(wire[1].from, proj, todo[wire[1].from], Tail(wire))
  BY DEF Land, MTypes
<1>2. wire[1] \in Wires /\ Tail(wire) \in Seq(Wires)
  BY <1>1, HeadTailProperties, ElementOfSeq
<1> DEFINE c == wire[1].from
<1>3. c \in Coroutines
  BY <1>2 DEF Wires
<1>4. cursor \in Nat
  BY DEF MTypes, ConsumerInv, ConsumerTypeOK
<1> HIDE DEF c
<1>5. todo[c] \in Seq(AllJobs) /\ Forms(c, cursor, todo[c])
  BY <1>3, <1>4, LeftLaws DEF MTypes, JobsOK
<1>6. proj \in Projections
  BY DEF MTypes
<1> QED BY <1>1, <1>2, <1>3, <1>4, <1>5, <1>6 DEF Runs, c

(* An event is at its turn when the one before it is done with.            *)
ConsumeJobs ==
  IF mode = "replay" /\ mode' = "live"
  THEN <<Job("snapshot"), JobOn("apply", cursor')>> ELSE <<JobOn("apply", cursor')>>

LEMMA ConsumeRuns ==
  ASSUME MTypes, Consume
  PROVE  /\ todo[Consumer] = << >> /\ cursor' \in 1..Len(log)
         /\ cursor' = page.from /\ ~Drained
         /\ Due(Consumer, cursor', <<JobOn("apply", cursor')>>)
         /\ ConsumeJobs = <<JobOn("apply", cursor')>>
            \/ ConsumeJobs = <<Job("snapshot")>> \o <<JobOn("apply", cursor')>>
         /\ Runs(Consumer, cursor', proj, ConsumeJobs, wire)
<1>1. todo[Consumer] = << >> /\ Yield /\ Run(Consumer, proj, ConsumeJobs, wire)
  BY DEF Consume, Done, ConsumeJobs
<1>2. cursor' \in 1..Len(log) /\ cursor' = page.from /\ ~Drained
  BY <1>1 DEF Yield, Drained, MTypes, ConsumerInv, ConsumerTypeOK, PageFollowsCursor
<1> DEFINE i == cursor'
<1>3. i \in 1..Len(log) /\ i \in Nat
  BY <1>2 DEF MTypes, ConsumerInv, ConsumerTypeOK
<1>4. Consumer \in Coroutines /\ proj \in Projections /\ wire \in Seq(Wires)
  BY DEF Coroutines, MTypes
<1> DEFINE a == <<JobOn("apply", i)>>
<1>5. Due(Consumer, i, a) /\ Forms(Consumer, i, a) /\ a \in Seq(AllJobs)
  <2> HIDE DEF i
  <2>1. a \in Rests(Consumer, i)
    BY <1>3 DEF Rests
  <2> QED BY <1>3, <2>1, LeftLaws, RestTypes
<1>6. <<Job("snapshot"), JobOn("apply", i)>> = <<Job("snapshot")>> \o a
      /\ <<Job("snapshot")>> \o a \in Seq(AllJobs)
  <2> DEFINE x == Job("snapshot")  y == JobOn("apply", i)
  <2>1. x \in AllJobs /\ y \in AllJobs
    BY <1>3, JobTypes
  <2> HIDE DEF i, x, y
  <2>2. <<x, y>> = <<x>> \o <<y>> /\ <<x>> \o <<y>> \in Seq(AllJobs)
    BY <2>1, Two
  <2> QED BY <2>2 DEF x, y
<1>7. Forms(Consumer, i, <<Job("snapshot")>> \o a)
  <2> HIDE DEF i, a
  <2> QED BY <1>5 DEF Forms
<1>8. ConsumeJobs = a \/ ConsumeJobs = <<Job("snapshot")>> \o a
  BY <1>6 DEF ConsumeJobs
<1> HIDE DEF i, a
<1>9. Runs(Consumer, i, proj, ConsumeJobs, wire)
  BY <1>1, <1>3, <1>4, <1>5, <1>6, <1>7, <1>8 DEF Runs
<1> QED BY <1>1, <1>2, <1>5, <1>8, <1>9 DEF i, a

TickedBy(aggs) == [n \in Spans |-> Tick(aggs[n], n, clock)]
EventsOfTick == ByInterval([n \in Spans |-> TickEvents(proj.aggs[n], n, clock)])
TickedProj == [l2 |-> proj.l2, tape |-> proj.tape, aggs |-> TickedBy(proj.aggs)]
TickJobs == PublishAll(EventsOfTick) \o <<Job("ticker")>>

LEMMA CandleTimerRuns ==
  ASSUME MTypes, CandleTimer
  PROVE  /\ clock \in Nat /\ clock \in 1..MaxTime /\ EventsOfTick \in Seq(CandleMessages)
         /\ EventsOfTick = << >> => TickedProj = proj
         /\ Runs(<<"timer", clock>>, cursor, TickedProj,
                 IF EventsOfTick = << >> THEN << >> ELSE TickJobs, wire)
<1> DEFINE c == <<"timer", clock>>
           jobs == IF EventsOfTick = << >> THEN << >> ELSE TickJobs
           evs == [n \in Spans |-> TickEvents(proj.aggs[n], n, clock)]
           aggs == [n \in Spans |-> Tick(proj.aggs[n], n, clock)]
<1>1. clock \in Nat /\ clock \in 1..MaxTime
  BY LoggedAssumption DEF MTypes, CandleTimer, Fires
<1>2. c \in Coroutines
  BY <1>1 DEF Coroutines, Timers
<1>3. proj.aggs \in [Spans -> Aggregators] /\ proj \in Projections
  BY DEF MTypes, Projections
<1>4. \A n \in Spans :
        /\ aggs[n] \in Aggregators /\ evs[n] \in Seq(CandleMessages)
        /\ evs[n] = << >> => aggs[n] = proj.aggs[n]
  <2> SUFFICES ASSUME NEW n \in Spans
               PROVE  /\ Tick(proj.aggs[n], n, clock) \in Aggregators
                      /\ TickEvents(proj.aggs[n], n, clock) \in Seq(CandleMessages)
                      /\ TickEvents(proj.aggs[n], n, clock) = << >> =>
                           Tick(proj.aggs[n], n, clock) = proj.aggs[n]
    OBVIOUS
  <2> DEFINE g == proj.aggs[n]
  <2>1. g \in Aggregators
    BY <1>3
  <2> HIDE DEF g
  <2>2. /\ Tick(g, n, clock) \in Aggregators
        /\ TickEvents(g, n, clock) \in Seq(CandleMessages)
        /\ TickEvents(g, n, clock) = << >> => Tick(g, n, clock) = g
    BY <1>1, <2>1, TickType
  <2> QED BY <2>2 DEF g
<1>5. TickedBy(proj.aggs) = aggs /\ EventsOfTick = ByInterval(evs)
  BY DEF TickedBy, EventsOfTick
<1>6. aggs \in [Spans -> Aggregators]
  BY <1>4
<1>7. (\A n \in Spans : evs[n] = << >>) => aggs = proj.aggs
  <2>1. (\A n \in Spans : evs[n] = << >>) => \A n \in Spans : aggs[n] = proj.aggs[n]
    BY <1>4
  <2> HIDE DEF evs
  <2> QED BY <1>3, <1>6, <2>1
<1> HIDE DEF evs, aggs
<1>8. /\ EventsOfTick \in Seq(CandleMessages)
      /\ EventsOfTick = << >> => aggs = proj.aggs
  BY <1>4, <1>5, <1>7, ByIntervalType
<1>9. TickedProj = [proj EXCEPT !.aggs = aggs] /\ TickedProj \in Projections
      /\ (aggs = proj.aggs => TickedProj = proj)
  BY <1>3, <1>5, <1>6 DEF TickedProj, Projections
<1>10. PublishAll(EventsOfTick) \in Seq(Publications(Own(c)))
  <2>1. PublishAll(EventsOfTick) \in Seq(Publications(CandleMessages))
    BY <1>8, PublishAllType
  <2>2. Publications(CandleMessages) \subseteq Publications(Own(c))
    BY DEF Publications, Own
  <2> QED BY <2>1, <2>2, SeqMonotonic
<1>11. cursor \in Nat
  BY DEF MTypes, ConsumerInv, ConsumerTypeOK
<1> HIDE DEF c
<1>12. Due(c, cursor, jobs)
  <2>1. << >> \in Rests(c, cursor) /\ <<Job("ticker")>> \in Rests(c, cursor)
    BY DEF Rests
  <2> QED BY <1>10, <1>11, <2>1, LeftLaws DEF TickJobs
<1>13. jobs \in Seq(AllJobs) /\ Forms(c, cursor, jobs)
  <2> HIDE DEF jobs
  <2> QED BY <1>11, <1>12, LeftLaws, RestTypes
<1>14. Run(c, TickedProj, jobs, wire)
  <2>1. Append(PublishAll(EventsOfTick), Job("ticker")) = TickJobs
    <3> DEFINE ps == PublishAll(EventsOfTick)
    <3>1. ps \in Seq(AllJobs) /\ Job("ticker") \in AllJobs
      BY <1>10, JobTypes, SeqMonotonic
    <3> HIDE DEF ps
    <3>2. ps \o <<Job("ticker")>> = Append(ps, Job("ticker"))
      BY <3>1, AppendIsConcat
    <3> QED BY <3>2 DEF ps, TickJobs
  <2>2. Run(c, [proj EXCEPT !.aggs = aggs],
            IF EventsOfTick = << >> THEN << >>
            ELSE Append(PublishAll(EventsOfTick), Job("ticker")), wire)
    BY <1>3 DEF CandleTimer, EventsOfTick, aggs, c
  <2> QED BY <1>9, <2>1, <2>2
<1>15. wire \in Seq(Wires)
  BY DEF MTypes
<1> HIDE DEF jobs
<1>16. Runs(c, cursor, TickedProj, jobs, wire)
  BY <1>2, <1>9, <1>11, <1>13, <1>14, <1>15 DEF Runs
<1> QED BY <1>1, <1>8, <1>9, <1>16 DEF c, jobs

LEMMA SnapshotTimerRuns ==
  ASSUME MTypes, SnapshotTimer
  PROVE  Runs(Snapshots, cursor, proj, <<Job("snapshot")>>, wire)
<1> DEFINE c == Snapshots  x == Job("snapshot")
<1>1. c \in Coroutines /\ cursor \in Nat /\ proj \in Projections /\ wire \in Seq(Wires)
  BY DEF Coroutines, MTypes, ConsumerInv, ConsumerTypeOK
<1>2. Run(c, proj, <<x>>, wire)
  BY DEF SnapshotTimer
<1> HIDE DEF c
<1>3. Due(c, cursor, << >>)
  BY <1>1, LeftLaws DEF Rests
<1>4. x \in AllJobs
  BY JobTypes
<1>5. <<x>> \in Seq(AllJobs) /\ << >> \in Seq(AllJobs) /\ <<x>> = <<x>> \o << >>
  <2> HIDE DEF x
  <2> QED BY <1>4, Singles
<1>6. Forms(c, cursor, <<x>>)
  BY <1>3, <1>5 DEF Forms
<1>7. Runs(c, cursor, proj, <<x>>, wire)
  <2> HIDE DEF x
  <2> QED BY <1>1, <1>2, <1>5, <1>6 DEF Runs
<1> QED BY <1>7 DEF c

LEMMA ClearRuns ==
  ASSUME MTypes, Clear
  PROVE  /\ todo[Consumer] = << >> /\ cursor' = 0
         /\ Due(Resetter, 0, <<Job("ticker")>>)
         /\ <<Job("snapshot"), Job("ticker")>> = <<Job("snapshot")>> \o <<Job("ticker")>>
         /\ Runs(Resetter, 0, FreshProjections, <<Job("snapshot"), Job("ticker")>>, wire)
<1> DEFINE c == Resetter  x == Job("snapshot")  y == Job("ticker")
<1>1. c \in Coroutines /\ 0 \in Nat /\ FreshProjections \in Projections /\ wire \in Seq(Wires)
  BY FreshTypes DEF Coroutines, MTypes
<1>2. /\ Run(c, FreshProjections, <<x, y>>, wire)
      /\ todo[Consumer] = << >> /\ cursor' = 0
  BY DEF Clear, Done, Restart
<1> HIDE DEF c
<1>3. Due(c, 0, <<y>>)
  BY <1>1, LeftLaws DEF Rests
<1>4. x \in AllJobs /\ y \in AllJobs
  BY JobTypes
<1>5. /\ <<y>> \in Seq(AllJobs) /\ <<x, y>> = <<x>> \o <<y>> /\ <<x>> \o <<y>> \in Seq(AllJobs)
  <2> HIDE DEF x, y
  <2> QED BY <1>4, Singles, Two
<1>6. Forms(c, 0, <<x>> \o <<y>>)
  BY <1>3, <1>5 DEF Forms
<1>7. Runs(c, 0, FreshProjections, <<x, y>>, wire)
  <2> HIDE DEF x, y
  <2> QED BY <1>1, <1>2, <1>5, <1>6 DEF Runs
<1> QED BY <1>2, <1>3, <1>5, <1>7 DEF c

(* A run of jobs keeps the types.                                          *)
LEMMA RunKeeps ==
  ASSUME MTypes, log' = log,
         NEW c, NEW p, NEW jobs, NEW before, Runs(c, cursor', p, jobs, before),
         cursor' = cursor \/ todo[Consumer] = << >>
  PROVE  /\ proj' \in Projections' /\ JobsOK' /\ wire' \in Seq(Wires)
         /\ late' \in LateSets /\ primed' \in BOOLEAN
<1> DEFINE i == cursor'
<1>0. /\ LogOK /\ late \in LateSets /\ primed \in BOOLEAN
      /\ todo \in [Coroutines -> Seq(AllJobs)] /\ cursor \in Nat
      /\ \A d \in Coroutines : Due(d, cursor, todo[d])
  BY DEF MTypes, JobsOK, ConsumerInv, ConsumerTypeOK
<1>1. /\ c \in Coroutines /\ i \in Nat /\ p \in Projections /\ jobs \in Seq(AllJobs)
      /\ Forms(c, i, jobs) /\ before \in Seq(Wires) /\ Run(c, p, jobs, before)
  BY DEF Runs
<1>2. LogOK' /\ LogGrows
  <2>1. Len(log) \in Nat
    BY <1>0, LenProperties DEF LogOK
  <2> QED BY <1>0, <2>1 DEF LogOK, LogGrows
<1>3. i = cursor \/ todo[Consumer] = << >>
  OBVIOUS
<1>4. i = cursor'
  OBVIOUS
<1> HIDE DEF i
<1>5. /\ proj' \in Projections /\ late' \in LateSets /\ primed' \in BOOLEAN
      /\ todo' \in [Coroutines -> Seq(AllJobs)] /\ Due(c, i, todo'[c])
      /\ \A d \in Coroutines \ {c} : todo'[d] = todo[d]
      /\ wire' \in Seq(Wires)
  BY <1>0, <1>1, RunTypes
<1>6. proj' \in Projections'
  BY <1>0, <1>2, <1>5, TradedGrows
<1>7. ASSUME NEW d \in Coroutines PROVE Due(d, cursor, todo[d])'
  <2>1. CASE d = c
    <3>1. PICK x : x = todo'[c]
      OBVIOUS
    <3>2. PICK j : j = i
      OBVIOUS
    <3>3. Due(d, j, x) /\ j \in Nat
      BY <1>1, <1>5, <2>1, <3>1, <3>2
    <3>4. Due(d, j, x)'
      BY <1>0, <1>2, <3>3, LeftKept
    <3>5. todo'[d] = x /\ cursor' = j
      BY <1>4, <2>1, <3>1, <3>2
    <3> QED BY <3>4, <3>5 DEF Due, Rests
  <2>2. CASE d # c
    <3>1. PICK x : x = todo[d]
      OBVIOUS
    <3>2. PICK j : j = i
      OBVIOUS
    <3>3. PICK k : k = cursor
      OBVIOUS
    <3>4. Due(d, k, x) /\ k \in Nat /\ j \in Nat /\ (k = j \/ d # Consumer \/ x = << >>)
      BY <1>0, <1>1, <1>3, <3>1, <3>2, <3>3
    <3>5. Due(d, j, x)'
      BY <1>0, <1>2, <3>4, LeftKept
    <3>6. todo'[d] = x /\ cursor' = j
      BY <1>4, <1>5, <2>2, <3>1, <3>2
    <3> QED BY <3>5, <3>6 DEF Due, Rests
  <2> QED BY <2>1, <2>2
<1>8. AllJobs' = AllJobs
  OBVIOUS
<1>9. JobsOK'
  BY <1>5, <1>7 DEF JobsOK
<1> QED BY <1>5, <1>6, <1>9

LEMMA MTypesInit == MDInit => MTypes
<1> SUFFICES ASSUME MDInit PROVE MTypes
  OBVIOUS
<1>1. ConsumerInv /\ cursor <= added
  BY ServiceStarts, InitInv DEF MDInit, Start, ConsumerInv, ConsumerTypeOK
<1>2. Logged \in Nat /\ Scripts[1] \in Seq(Events) /\ Logged <= Len(Scripts[1])
  BY LoggedAssumption
<1>3. LogOK /\ Len(log) = added
  <2>1. \A i \in 1..Logged : Scripts[1][i] \in Events
    <3>1. Len(Scripts[1]) \in Nat
      BY <1>2, LenProperties
    <3>2. \A i \in 1..Logged : i \in 1..Len(Scripts[1])
      BY <1>2, <3>1
    <3> QED BY <1>2, <3>2, ElementOfSeq
  <2>2. log = [i \in 1..Logged |-> [event |-> Scripts[1][i], ts |-> 0]] /\ added = Logged
    BY DEF MDInit
  <2>3. \A i \in 1..Logged : [event |-> Scripts[1][i], ts |-> 0] \in Entries
    BY <2>1 DEF Entries
  <2>4. log \in [1..Logged -> Entries]
    BY <2>2, <2>3
  <2> QED BY <1>2, <2>2, <2>4 DEF LogOK
<1>4. clock \in 0..MaxTime /\ ticked \in 0..clock
  BY LoggedAssumption DEF MDInit
<1>5. JobsOK
  <2>1. cursor \in Nat /\ << >> \in Seq(AllJobs) /\ todo = [c \in Coroutines |-> << >>]
    BY <1>1 DEF MDInit, ConsumerInv, ConsumerTypeOK
  <2>2. \A c : Due(c, cursor, << >>)
    BY <2>1, LeftLaws DEF Rests
  <2> QED BY <2>1, <2>2 DEF JobsOK
<1>6. primed \in BOOLEAN
  <2>1. primed = FALSE
    BY DEF MDInit
  <2> QED BY <2>1
<1>9. wire \in Seq(Wires) /\ late \in LateSets /\ reset \in {"no", "disconnected", "cleared"}
  <2>1. wire = << >> /\ late = [n \in Spans |-> {}] /\ reset = "no"
    BY DEF MDInit
  <2> QED BY <2>1 DEF LateSets
<1>7. proj \in Projections
  BY FreshTypes DEF MDInit
<1>8. IsScreen(screen)
  BY EmptyIsScreen DEF MDInit
<1> QED BY <1>1, <1>3, <1>4, <1>5, <1>6, <1>7, <1>8, <1>9 DEF MTypes

(* Steps that compute nothing, and leave the projections and jobs.         *)
LEMMA MTypesKept ==
  ASSUME MTypes, ConsumerInv', LogOK', LogGrows, Len(log)' = added', cursor' <= added',
         cursor' = cursor \/ todo[Consumer] = << >>,
         UNCHANGED <<proj, todo, wire, screen, late, primed>>,
         clock' \in 0..MaxTime, ticked' \in 0..clock',
         reset' \in {"no", "disconnected", "cleared"}
  PROVE  MTypes'
<1>1. proj' \in Projections'
  BY TradedGrows DEF MTypes
<1>2. JobsOK'
  <2>1. ASSUME NEW d \in Coroutines PROVE Due(d, cursor, todo[d])'
    <3>1. PICK x : x = todo[d]
      OBVIOUS
    <3>2. PICK k : k = cursor
      OBVIOUS
    <3>3. PICK j : j = cursor'
      OBVIOUS
    <3>4. LogOK /\ Due(d, k, x) /\ k \in Nat /\ j \in Nat /\ (k = j \/ d # Consumer \/ x = << >>)
      BY <3>1, <3>2, <3>3 DEF MTypes, JobsOK, ConsumerInv, ConsumerTypeOK
    <3>5. Due(d, j, x)'
      BY <3>4, LeftKept
    <3> QED BY <3>1, <3>3, <3>5 DEF Due, Rests
  <2> QED BY <2>1 DEF JobsOK, MTypes
<1> QED BY <1>1, <1>2 DEF MTypes

LEMMA ReceiveKeeps ==
  ASSUME MTypes, wire # << >>
  PROVE  IsScreen(Receive(screen, wire[1].msg))
<1>1. wire[1] \in Wires
  BY ElementOfSeq, HeadTailProperties DEF MTypes
<1>2. wire[1].msg \in Messages
  BY <1>1 DEF Wires
<1> QED BY <1>2, ReceiveLaws DEF MTypes

LEMMA MTypesStep == MTypes /\ [MDNext]_mdVars => MTypes'
<1> SUFFICES ASSUME MTypes, [MDNext]_mdVars PROVE MTypes'
  OBVIOUS
<1>0. ConsumerInv'
  BY ServiceStep, ConsumerInvariance DEF MTypes
<1> DEFINE Others == /\ LogOK' /\ Len(log)' = added' /\ cursor' <= added'
                   /\ clock' \in 0..MaxTime /\ ticked' \in 0..clock'
                   /\ reset' \in {"no", "disconnected", "cleared"} /\ IsScreen(screen)'
<1>a. ASSUME log' = log, Others, NEW c, NEW p, NEW jobs, NEW before,
             Runs(c, cursor', p, jobs, before), cursor' = cursor \/ todo[Consumer] = << >>
      PROVE  MTypes'
  BY <1>0, <1>a, RunKeeps DEF MTypes
<1>b. LogOK /\ Len(log) = added /\ added \in Nat /\ cursor <= added /\ cursor \in Nat
      /\ clock \in 0..MaxTime /\ ticked \in 0..clock /\ MaxTime \in Nat
      /\ reset \in {"no", "disconnected", "cleared"} /\ IsScreen(screen)
  BY LoggedAssumption DEF MTypes, ConsumerInv, ConsumerTypeOK
<1>c. log' = log => LogOK' /\ LogGrows
  <2>1. Len(log) \in Nat
    BY <1>b
  <2> QED BY <1>b, <2>1 DEF LogOK, LogGrows
<1>1. CASE Land
  <2>1. Others /\ log' = log /\ cursor' = cursor
    BY <1>1, <1>b, <1>c, ReceiveKeeps DEF Land, vars, consumer, stream
  <2>2. Runs(wire[1].from, cursor', proj, todo[wire[1].from], Tail(wire))
    BY <1>1, <2>1, LandRuns
  <2> HIDE DEF Others
  <2> QED BY <1>a, <2>1, <2>2
<1>2. CASE FetchPage
  BY <1>0, <1>2, <1>b, <1>c, MTypesKept DEF FetchPage, Fetch, FetchReplay, FetchLive, stream, serviceVars
<1>3. CASE Consume
  <2>1. Others /\ log' = log
    BY <1>3, <1>b, <1>c, ConsumeRuns DEF Consume, Yield, stream
  <2>2. todo[Consumer] = << >> /\ Runs(Consumer, cursor', proj, ConsumeJobs, wire)
    BY <1>3, ConsumeRuns
  <2> HIDE DEF Others
  <2> QED BY <1>a, <2>1, <2>2
<1>4. CASE CandleTimer
  <2>1. Others /\ log' = log /\ cursor' = cursor
    BY <1>4, <1>b, <1>c DEF CandleTimer, vars, consumer, stream
  <2>2. Runs(<<"timer", clock>>, cursor', TickedProj,
             IF EventsOfTick = << >> THEN << >> ELSE TickJobs, wire)
    BY <1>4, <2>1, CandleTimerRuns
  <2> HIDE DEF Others
  <2> QED BY <1>a, <2>1, <2>2
<1>5. CASE SnapshotTimer
  <2>1. Others /\ log' = log /\ cursor' = cursor
    BY <1>5, <1>b, <1>c DEF SnapshotTimer, vars, consumer, stream
  <2>2. Runs(Snapshots, cursor', proj, <<Job("snapshot")>>, wire)
    BY <1>5, <2>1, SnapshotTimerRuns
  <2> HIDE DEF Others
  <2> QED BY <1>a, <2>1, <2>2
<1>6. CASE StartReset
  BY <1>0, <1>6, <1>b, <1>c, MTypesKept DEF StartReset, vars, consumer, stream
<1>7. CASE Clear
  <2>1. Others /\ log' = log
    BY <1>7, <1>b, <1>c DEF Clear, Restart, stream
  <2>2. todo[Consumer] = << >>
        /\ Runs(Resetter, cursor', FreshProjections, <<Job("snapshot"), Job("ticker")>>, wire)
    BY <1>7, ClearRuns
  <2> HIDE DEF Others
  <2> QED BY <1>a, <2>1, <2>2
<1>8. CASE EndReset
  BY <1>0, <1>8, <1>b, <1>c, MTypesKept DEF EndReset, vars, consumer, stream
<1>9. CASE Die
  <2>1. Others /\ log' = log /\ cursor' = 0
    BY <1>9, <1>b, <1>c DEF Die, Restart, stream
  <2>2. /\ proj' = FreshProjections /\ todo' = [c \in Coroutines |-> << >>]
        /\ wire' = << >> /\ late' = [n \in Spans |-> {}] /\ primed' = FALSE
    BY <1>9 DEF Die
  <2>3. Projections' = Projections
    BY <2>1 DEF Projections, Tapes, Traded
  <2>4. JobsOK'
    <3>1. \A c : Due(c, 0, << >>)
      BY LeftLaws DEF Rests
    <3>2. \A c : Due(c, 0, << >>)'
      BY <2>1, <3>1 DEF Due, Rests, Traded
    <3>3. ASSUME NEW c \in Coroutines PROVE Due(c, cursor, todo[c])'
      <4>1. Due(c, 0, << >>)' /\ todo'[c] = << >>
        BY <2>2, <3>2
      <4> QED BY <2>1, <4>1 DEF Due, Rests
    <3> QED BY <2>2, <3>3 DEF JobsOK
  <2>5. proj' \in Projections'
    BY <2>2, <2>3, FreshTypes
  <2>6. primed' \in BOOLEAN
    <3>1. primed' = FALSE
      BY <2>2
    <3> QED BY <3>1
  <2>7. wire' \in Seq(Wires) /\ late' \in LateSets
    <3>1. wire' = << >> /\ late' = [n \in Spans |-> {}]
      BY <2>2
    <3> QED BY <3>1 DEF LateSets
  <2> QED BY <1>0, <2>1, <2>4, <2>5, <2>6, <2>7 DEF MTypes
<1>10. CASE EngineLogs
  <2> DEFINE script == Scripts[IF purged = 0 THEN 1 ELSE 2]
             e == [event |-> script[added - purged + 1], ts |-> clock]
  <2>1. /\ added - purged < Len(script) /\ log' = Append(log, e) /\ added' = added + 1
        /\ UNCHANGED serviceVars /\ cursor' = cursor
    BY <1>10 DEF EngineLogs, Add, consumer
  <2>2. script \in Seq(Events) /\ purged \in Nat /\ purged <= added /\ clock \in Nat
    BY <1>b, LoggedAssumption DEF MTypes, ConsumerInv, ConsumerTypeOK
  <2> HIDE DEF script
  <2>3. e \in Entries
    <3>1. added - purged + 1 \in 1..Len(script)
      BY <1>b, <2>1, <2>2, LenProperties
    <3>2. script[added - purged + 1] \in Events
      BY <2>2, <3>1, ElementOfSeq
    <3> QED BY <2>2, <3>2 DEF Entries
  <2> HIDE DEF e
  <2>4. LogOK' /\ LogGrows /\ Len(log)' = added + 1
    <3>1. /\ Append(log, e) \in Seq(Entries) /\ Len(Append(log, e)) = Len(log) + 1
          /\ \A k \in 1..Len(log) : Append(log, e)[k] = log[k]
      BY <1>b, <2>3, AppendProperties DEF LogOK
    <3> QED BY <1>b, <2>1, <3>1 DEF LogOK, LogGrows
  <2> QED BY <1>0, <1>b, <2>1, <2>4, MTypesKept DEF serviceVars
<1>11. CASE EngineResets
  BY <1>0, <1>11, <1>b, <1>c, MTypesKept DEF EngineResets, Purge, consumer, serviceVars
<1>12. CASE Advance
  BY <1>0, <1>12, <1>b, <1>c, MTypesKept DEF Advance, vars, consumer, stream
<1>13. CASE UNCHANGED mdVars
  BY <1>0, <1>13, <1>b, <1>c, MTypesKept DEF mdVars, vars, consumer, stream, serviceVars
<1> QED BY <1>1, <1>2, <1>3, <1>4, <1>5, <1>6, <1>7, <1>8, <1>9, <1>10, <1>11, <1>12, <1>13
    DEF MDNext

LEMMA MTypesInvariant == MDSpec => []MTypes
BY MTypesInit, MTypesStep, PTL DEF MDSpec

(* Every state of the service is one that it can be in: the tape holds     *)
(* trades, and neither it nor a history grows beyond its capacity.         *)
THEOREM MarketTypes == MDSpec => []MDTypeOK
<1>1. MTypes => MDTypeOK
  <2> SUFFICES ASSUME MTypes PROVE MDTypeOK
    OBVIOUS
  <2>1. /\ added \in Nat /\ purged \in 0..added /\ cursor \in 0..added /\ Len(log) = added
        /\ clock \in 0..MaxTime /\ ticked \in 0..clock
        /\ reset \in {"no", "disconnected", "cleared"}
    BY DEF MTypes, ConsumerInv, ConsumerTypeOK
  <2>2. proj.tape \in Seq(Traded) /\ Len(proj.tape) <= TapeCapacity
        /\ proj.aggs \in [Spans -> Aggregators]
    BY DEF MTypes, Projections, Tapes
  <2>3. \A i \in DOMAIN proj.tape : log[proj.tape[i]].event.kind = "Trade"
    <3>1. \A i \in DOMAIN proj.tape : proj.tape[i] \in Traded
      BY <2>2, LenProperties, ElementOfSeq
    <3> QED BY <3>1 DEF Traded
  <2>4. \A i \in DOMAIN wire : wire[i].from \in Coroutines
    <3>1. \A i \in DOMAIN wire : wire[i] \in Wires
      BY LenProperties, ElementOfSeq DEF MTypes
    <3> QED BY <3>1 DEF Wires
  <2>5. \A n \in Spans : Len(proj.aggs[n].history) <= HistoryCapacity
    BY <2>2 DEF Aggregators, Histories
  <2> QED BY <2>1, <2>2, <2>3, <2>4, <2>5 DEF MDTypeOK
<1> QED BY <1>1, MTypesInvariant, PTL

-----------------------------------------------------------------------------
(* The screen when the wire has emptied, and the lists by their items. *)

LEMMA WireArrives ==
  ASSUME NEW w, NEW x \in Wires
  PROVE  Arrive(w, x) = Receive(w, x.msg) /\ x.msg \in Messages
BY DEF Wires, Arrive

LEMMA ShownIsScreen ==
  ASSUME NEW w, IsScreen(w), NEW s \in Seq(Wires)
  PROVE  IsScreen(Shown(w, s))
<1> DEFINE P == {n \in Nat : \A t \in Seq(Wires) : Len(t) = n => IsScreen(Shown(w, t))}
<1>1. 0 \in P
  <2> SUFFICES ASSUME NEW t \in Seq(Wires), Len(t) = 0 PROVE IsScreen(Shown(w, t))
    OBVIOUS
  <2>1. t = << >>
    BY EmptySeq
  <2> QED BY <2>1, ShownNone
<1>2. ASSUME NEW n \in Nat, n \in P PROVE n + 1 \in P
  <2> SUFFICES ASSUME NEW t \in Seq(Wires), Len(t) = n + 1 PROVE IsScreen(Shown(w, t))
    OBVIOUS
  <2>1. PICK x \in Wires, r \in Seq(Wires) : t = Append(r, x) /\ Len(r) = n
    <3>1. PICK r \in Seq(Wires), x \in Wires : t = Append(r, x)
      BY EmptySeq, SequenceEmptyOrAppend
    <3> QED BY <3>1
  <2>2. IsScreen(Shown(w, r))
    BY <1>2, <2>1
  <2>3. Shown(w, t) = Receive(Shown(w, r), x.msg) /\ x.msg \in Messages
    BY <2>1, ShownNext, WireArrives
  <2> QED BY <2>2, <2>3, ReceiveLaws
<1>3. Nat \subseteq P
  <2> HIDE DEF P
  <2> QED BY <1>1, <1>2, Induction
<1>4. Len(s) \in P
  BY <1>3, LenProperties
<1> QED BY <1>4

(* A message sent is the last to arrive.                                   *)
LEMMA ShownSent ==
  ASSUME NEW w, IsScreen(w), NEW before \in Seq(Wires), NEW c \in Coroutines, NEW m \in Messages
  PROVE  LET next == Shown(w, Append(before, [from |-> c, msg |-> m]))
             now  == Shown(w, before)
         IN /\ next.ticker = IF m.channel = "ticker" THEN m.ticker ELSE now.ticker
            /\ next.book = IF m.channel = "book" THEN After(now.book, m)
                           ELSE IF m.channel = "book:snapshot" THEN m.levels ELSE now.book
<1> DEFINE x == [from |-> c, msg |-> m]
<1>1. x \in Wires /\ x.msg = m
  BY DEF Wires
<1> HIDE DEF x
<1>2. Shown(w, Append(before, x)) = Receive(Shown(w, before), m)
  BY <1>1, ShownNext, WireArrives
<1>3. IsScreen(Shown(w, before))
  BY ShownIsScreen
<1> QED BY <1>2, <1>3, ReceiveLaws DEF x

(* A message that lands was the first on the wire.                         *)
LEMMA ShownLanded ==
  ASSUME MTypes, wire # << >>
  PROVE  /\ IsScreen(Receive(screen, wire[1].msg))
         /\ Shown(Receive(screen, wire[1].msg), Tail(wire)) = Shown(screen, wire)
<1> DEFINE x == wire[1]  r == Tail(wire)
<1>1. wire \in Seq(Wires)
  BY DEF MTypes
<1>2. x \in Wires /\ r \in Seq(Wires) /\ x = Head(wire)
  BY <1>1, HeadTailProperties
<1>3. wire = <<x>> \o r
  <2>1. << >> \in Seq(Wires)
    OBVIOUS
  <2>2. wire \o << >> = <<Head(wire)>> \o (Tail(wire) \o << >>)
    BY <1>1, <1>2, <2>1, SequencesJoined
  <2>3. wire \o << >> = wire /\ r \o << >> = r
    BY <1>1, <1>2, ConcatEmptySeq
  <2> QED BY <1>2, <2>2, <2>3
<1> HIDE DEF x, r
<1>4. Shown(screen, <<x>> \o r) = Shown(Arrive(screen, x), r)
  BY <1>2, ShownFirst
<1>5. Arrive(screen, x) = Receive(screen, x.msg)
  BY <1>2, WireArrives
<1> QED BY <1>3, <1>4, <1>5, ReceiveKeeps DEF x, r

LEMMA ItemsOne ==
  ASSUME NEW x
  PROVE  Range(<<x>>) = {x} /\ Range(<< >>) = {}
BY DEF Range

LEMMA ItemsFirst ==
  ASSUME NEW S, NEW x \in S, NEW r \in Seq(S)
  PROVE  <<x>> \o r \in Seq(S) /\ Range(<<x>> \o r) = {x} \cup Range(r)
<1> DEFINE h == <<x>>
<1>1. h \in Seq(S) /\ Range(h) = {x}
  BY ItemsOne
<1> HIDE DEF h
<1>2. h \o r \in Seq(S) /\ Range(h \o r) = Range(h) \cup Range(r)
  BY <1>1, ConcatProperties, RangeConcatenation
<1> QED BY <1>1, <1>2 DEF h

LEMMA ItemsIn ==
  ASSUME NEW S, NEW r \in Seq(S)
  PROVE  Range(r) \subseteq S
BY LenProperties, ElementOfSeq DEF Range

(* What is left to do publishes deltas and candles only.                   *)
LEMMA LeftItems ==
  ASSUME NEW c, NEW i \in Nat, NEW jobs, Due(c, i, jobs)
  PROVE  \A x \in Range(jobs) :
           \/ x \in Publications(Own(c))
           \/ x.do # "publish" /\ x \in AllJobs
<1>1. PICK ps \in Seq(Publications(Own(c))), r \in Rests(c, i) : jobs = ps \o r
  BY DEF Due
<1>2. ps \in Seq(AllJobs) /\ Publications(Own(c)) \subseteq AllJobs
  BY JobTypes, SeqMonotonic
<1>3. Range(ps) \subseteq Publications(Own(c))
  BY LenProperties, ElementOfSeq DEF Range
<1>4. r \in Seq(AllJobs) /\ \A x \in Range(r) : x.do # "publish"
  <2> DEFINE a == JobOn("trade", i)  b == JobOn("candles", i)  d == Job("ticker")
             e == JobOn("apply", i)
  <2>1. a \in AllJobs /\ b \in AllJobs /\ d \in AllJobs /\ e \in AllJobs
    BY JobTypes
  <2>2. a.do = "trade" /\ b.do = "candles" /\ d.do = "ticker" /\ e.do = "apply"
    BY DEF JobOn, Job
  <2>3. r \in {<< >>, <<d>>, <<e>>, <<a>> \o (<<b>> \o <<d>>), <<b>> \o <<d>>}
    BY DEF Rests, TradeJobs, ChartJobs
  <2> HIDE DEF a, b, d, e
  <2>4. /\ << >> \in Seq(AllJobs) /\ Range(<< >>) = {}
        /\ <<d>> \in Seq(AllJobs) /\ Range(<<d>>) = {d}
        /\ <<e>> \in Seq(AllJobs) /\ Range(<<e>>) = {e}
    BY <2>1, Singles, ItemsOne
  <2>5. <<b>> \o <<d>> \in Seq(AllJobs) /\ Range(<<b>> \o <<d>>) = {b, d}
    <3> DEFINE q == <<d>>
    <3>1. q \in Seq(AllJobs) /\ Range(q) = {d}
      BY <2>4
    <3> HIDE DEF q
    <3>2. <<b>> \o q \in Seq(AllJobs) /\ Range(<<b>> \o q) = {b} \cup Range(q)
      BY <2>1, <3>1, ItemsFirst
    <3> QED BY <3>1, <3>2 DEF q
  <2>6. <<a>> \o (<<b>> \o <<d>>) \in Seq(AllJobs) /\ Range(<<a>> \o (<<b>> \o <<d>>)) = {a, b, d}
    <3> DEFINE q == <<b>> \o <<d>>
    <3>1. q \in Seq(AllJobs) /\ Range(q) = {b, d}
      BY <2>5
    <3> HIDE DEF q
    <3>2. <<a>> \o q \in Seq(AllJobs) /\ Range(<<a>> \o q) = {a} \cup Range(q)
      BY <2>1, <3>1, ItemsFirst
    <3> QED BY <3>1, <3>2 DEF q
  <2> QED BY <2>2, <2>3, <2>4, <2>5, <2>6
<1>5. Range(jobs) = Range(ps) \cup Range(r) /\ Range(r) \subseteq AllJobs
  BY <1>1, <1>2, <1>4, RangeConcatenation, ItemsIn
<1> QED BY <1>3, <1>4, <1>5

-----------------------------------------------------------------------------
(* The ticker. *)

(* The ticker of the aggregator is going to be published, and no other.    *)
Announced(g, jobs) == Job("ticker") \in Range(jobs) \/ Publish(TickerOf(g)) \in Range(jobs)

Honest(g, jobs) ==
  \A m : Publish(m) \in Range(jobs) /\ m.channel = "ticker" => m = TickerOf(g)

LEMMA PublishLaws ==
  /\ \A m, k : Publish(m) = Publish(k) => m = k
  /\ \A m : /\ Publish(m).do = "publish" /\ Publish(m).msg = m
            /\ Publish(m) # Job("ticker") /\ Publish(m) # Job("snapshot")
            /\ \A i : Publish(m) # JobOn("apply", i) /\ Publish(m) # JobOn("trade", i)
                      /\ Publish(m) # JobOn("candles", i)
  /\ \A i : JobOn("apply", i) # Job("ticker")
  /\ Job("ticker") # Job("snapshot") /\ Job("ticker").do # "publish"
<1>1. \A m : Publish(m).do = "publish" /\ Publish(m).msg = m
  BY DEF Publish
<1>2. Job("ticker").do = "ticker" /\ Job("snapshot").do = "snapshot"
  BY DEF Job
<1>3. \A i : /\ JobOn("apply", i).do = "apply" /\ JobOn("trade", i).do = "trade"
             /\ JobOn("candles", i).do = "candles"
  BY DEF JobOn
<1>4. \A m, k : Publish(m) = Publish(k) => m = k
  <2> SUFFICES ASSUME NEW m, NEW k, Publish(m) = Publish(k) PROVE m = k
    OBVIOUS
  <2>1. Publish(m).msg = m /\ Publish(k).msg = k
    BY <1>1
  <2> QED BY <2>1
<1> QED BY <1>1, <1>2, <1>3, <1>4

(* The lists of a trade announce the ticker, and publish nothing yet.      *)
LEMMA ListItems ==
  ASSUME NEW i \in Nat
  PROVE  /\ Range(ChartJobs(i)) = {JobOn("candles", i), Job("ticker")}
         /\ Range(TradeJobs(i)) = {JobOn("trade", i), JobOn("candles", i), Job("ticker")}
<1> DEFINE a == JobOn("trade", i)  b == JobOn("candles", i)  d == Job("ticker")
           q == <<d>>
<1>1. a \in AllJobs /\ b \in AllJobs /\ d \in AllJobs
  BY JobTypes
<1>2. ChartJobs(i) = <<b>> \o q /\ TradeJobs(i) = <<a>> \o ChartJobs(i)
  BY DEF ChartJobs, TradeJobs
<1> HIDE DEF a, b, d
<1>3. q \in Seq(AllJobs) /\ Range(q) = {d}
  BY <1>1, ItemsOne
<1> HIDE DEF q
<1>4. ChartJobs(i) \in Seq(AllJobs) /\ Range(ChartJobs(i)) = {b} \cup Range(q)
  BY <1>1, <1>2, <1>3, ItemsFirst
<1>5. Range(TradeJobs(i)) = {a} \cup Range(ChartJobs(i))
  <2> DEFINE r == ChartJobs(i)
  <2>1. r \in Seq(AllJobs) /\ TradeJobs(i) = <<a>> \o r
    BY <1>2, <1>4
  <2> HIDE DEF r
  <2>2. Range(<<a>> \o r) = {a} \cup Range(r)
    BY <1>1, <2>1, ItemsFirst
  <2> QED BY <2>1, <2>2 DEF r
<1> QED BY <1>3, <1>4, <1>5 DEF a, b, d

(* A computation that changes the candles announces the ticker, and none   *)
(* takes an announcement back.                                             *)
LEMMA StepAnnounces ==
  ASSUME LogOK, NEW s \in States, NEW c, NEW i \in Nat, NEW t, Step(c, i, s, t),
         Honest(s.proj.aggs[Shortest], s.jobs)
  PROVE  LET g == s.proj.aggs[Shortest]
             h == t.proj.aggs[Shortest]
         IN /\ Honest(h, t.jobs)
            /\ Announced(g, s.jobs) => Announced(h, t.jobs)
            /\ h = g \/ Announced(h, t.jobs)
<1> DEFINE g == s.proj.aggs[Shortest]  h == t.proj.aggs[Shortest]
           Goal == /\ Honest(h, t.jobs)
                   /\ Announced(g, s.jobs) => Announced(h, t.jobs)
                   /\ h = g \/ Announced(h, t.jobs)
<1>1. CASE Ready(c, i, s.jobs) /\ t = s
  BY <1>1
<1>2. CASE /\ s.jobs = <<Job("ticker")>>
           /\ t = [proj |-> s.proj, jobs |-> <<Publish(TickerOf(s.proj.aggs[Shortest]))>>,
                   late |-> s.late]
  <2>1. h = g
    BY <1>2
  <2>2. Range(t.jobs) = {Publish(TickerOf(h))}
    BY <1>2, ItemsOne
  <2> HIDE DEF g, h
  <2>3. Honest(h, t.jobs) /\ Announced(h, t.jobs)
    BY <2>2, PublishLaws DEF Honest, Announced
  <2> QED BY <2>1, <2>3 DEF g, h
<1>3. ASSUME NEW r \in Seq(AllJobs), s.jobs = <<Job("snapshot")>> \o r,
             t = [proj |-> s.proj, jobs |-> <<Publish(SnapshotOf(s.proj.l2))>> \o r,
                  late |-> s.late]
      PROVE  Goal
  <2> DEFINE m == SnapshotOf(s.proj.l2)
  <2>1. h = g
    BY <1>3
  <2>2. m \in Messages /\ m.channel = "book:snapshot"
    BY StateTypes, SnapshotType DEF SnapshotOf
  <2> HIDE DEF m
  <2>3. Publish(m) \in AllJobs /\ Job("snapshot") \in AllJobs
    BY <2>2, JobTypes
  <2>4. Range(s.jobs) = {Job("snapshot")} \cup Range(r)
    BY <1>3, <2>3, ItemsFirst
  <2>5. t.jobs = <<Publish(m)>> \o r
    BY <1>3 DEF m
  <2>6. Range(t.jobs) = {Publish(m)} \cup Range(r)
    BY <2>3, <2>5, ItemsFirst
  <2> HIDE DEF g, h
  <2>7. Honest(g, s.jobs)
    BY DEF g
  <2>8. Honest(g, t.jobs)
    BY <2>2, <2>4, <2>6, <2>7, PublishLaws DEF Honest
  <2>9. Announced(g, s.jobs) => Announced(g, t.jobs)
    BY <2>4, <2>6, PublishLaws DEF Announced
  <2> QED BY <2>1, <2>8, <2>9 DEF g, h
<1>4. CASE /\ s.jobs = TradeJobs(i) /\ c = Consumer /\ i \in Traded
           /\ t = [proj |-> [l2 |-> s.proj.l2, tape |-> PushTape(s.proj.tape, i), aggs |-> s.proj.aggs],
                   jobs |-> <<Publish(TradeOf(i))>> \o ChartJobs(i), late |-> s.late]
  <2> DEFINE m == TradeOf(i)
  <2>1. h = g /\ t.jobs = <<Publish(m)>> \o ChartJobs(i)
    BY <1>4
  <2>2. m \in Messages /\ m.channel = "trades"
    BY DEF TradeOf, Messages, TradeMessages
  <2> HIDE DEF m, g, h
  <2>3. Publish(m) \in AllJobs
    BY <2>2, JobTypes
  <2>4. Range(t.jobs) = {Publish(m), JobOn("candles", i), Job("ticker")}
    <3>1. Range(t.jobs) = {Publish(m)} \cup Range(ChartJobs(i))
      BY <2>1, <2>3, ListTypes, ItemsFirst
    <3> QED BY <3>1, ListItems
  <2>5. Honest(h, t.jobs) /\ Announced(h, t.jobs)
    BY <2>2, <2>4, PublishLaws DEF Honest, Announced
  <2> QED BY <2>5 DEF g, h
<1>5. CASE /\ s.jobs = ChartJobs(i) /\ c = Consumer /\ i \in Traded
           /\ t = [proj |-> [l2 |-> s.proj.l2, tape |-> s.proj.tape,
                             aggs |-> ChartedBy(s.proj.aggs, i)],
                   jobs |-> PublishAll(ChartEvents(s.proj.aggs, i)) \o <<Job("ticker")>>,
                   late |-> Dropped(s.late, s.proj.aggs, i)]
  <2> DEFINE ps == PublishAll(ChartEvents(s.proj.aggs, i))  q == <<Job("ticker")>>
  <2>1. ps \in Seq(Publications(CandleMessages))
    <3>1. s.proj.aggs \in [Spans -> Aggregators]
      BY StateTypes
    <3>2. ChartEvents(s.proj.aggs, i) \in Seq(CandleMessages)
      BY <1>5, <3>1, ChartTypes
    <3> QED BY <3>2, PublishAllType
  <2>2. t.jobs = ps \o q
    BY <1>5
  <2> HIDE DEF ps, g, h
  <2>3. q \in Seq(AllJobs) /\ Range(q) = {Job("ticker")}
    BY JobTypes, Singles, ItemsOne
  <2> HIDE DEF q
  <2>4. ps \in Seq(AllJobs) /\ Range(ps) \subseteq Publications(CandleMessages)
    <3>1. Publications(CandleMessages) \subseteq AllJobs
      BY DEF Publications, AllJobs, Messages
    <3> QED BY <2>1, <3>1, SeqMonotonic, ItemsIn
  <2>5. Range(t.jobs) = Range(ps) \cup {Job("ticker")}
    BY <2>2, <2>3, <2>4, RangeConcatenation
  <2>6. \A m : Publish(m) \in Range(t.jobs) => m.channel = "candles"
    <3>1. \A x \in Publications(CandleMessages) : x.msg.channel = "candles"
      BY DEF Publications, CandleMessages
    <3> QED BY <2>4, <2>5, <3>1, PublishLaws
  <2>7. Honest(h, t.jobs) /\ Announced(h, t.jobs)
    BY <2>5, <2>6, PublishLaws DEF Honest, Announced
  <2> QED BY <2>7 DEF g, h
<1>6. CASE /\ s.jobs = <<JobOn("apply", i)>> /\ c = Consumer /\ i \in 1..Len(log)
           /\ t = [proj |-> [l2 |-> ApplyL2(s.proj.l2, log[i].event), tape |-> s.proj.tape,
                             aggs |-> s.proj.aggs],
                   jobs |-> DeltaJobs(s.proj.l2, i) \o Further(i), late |-> s.late]
  <2> DEFINE ps == DeltaJobs(s.proj.l2, i)  q == Further(i)
  <2>1. ps \in Seq(Publications(BookDeltas))
    BY <1>6, StateTypes, DeltaJobTypes
  <2>2. t.jobs = ps \o q /\ h = g
    BY <1>6
  <2>3. q \in Seq(AllJobs) /\ \A m : Publish(m) \notin Range(q)
    <3>1. q = TradeJobs(i) \/ q = << >>
      BY DEF Further
    <3> HIDE DEF q
    <3>2. CASE q = TradeJobs(i)
      <4>1. q \in Seq(AllJobs)
        BY <3>2, ListTypes
      <4>2. Range(q) = {JobOn("trade", i), JobOn("candles", i), Job("ticker")}
        BY <3>2, ListItems
      <4>3. \A m : Publish(m) \notin Range(q)
        BY <4>2, PublishLaws
      <4> QED BY <4>1, <4>3
    <3>3. CASE q = << >>
      <4>1. << >> \in Seq(AllJobs) /\ Range(<< >>) = {}
        BY DEF Range
      <4> QED BY <3>3, <4>1
    <3> QED BY <3>1, <3>2, <3>3
  <2>9. ~Announced(g, s.jobs)
    <3>1. Range(s.jobs) = {JobOn("apply", i)}
      BY <1>6, ItemsOne
    <3> HIDE DEF g
    <3> QED BY <3>1, PublishLaws DEF Announced
  <2> HIDE DEF ps, g, h, q
  <2>4. ps \in Seq(AllJobs) /\ Range(ps) \subseteq Publications(BookDeltas)
    <3>1. Publications(BookDeltas) \subseteq AllJobs
      BY DEF Publications, AllJobs, Messages
    <3> QED BY <2>1, <3>1, SeqMonotonic, ItemsIn
  <2>5. Range(t.jobs) = Range(ps) \cup Range(q)
    BY <2>2, <2>3, <2>4, RangeConcatenation
  <2>6. \A m : Publish(m) \in Range(t.jobs) => m.channel = "book"
    <3>1. \A x \in Publications(BookDeltas) : x.msg.channel = "book"
      BY DEF Publications, BookDeltas
    <3> QED BY <2>3, <2>4, <2>5, <3>1, PublishLaws
  <2>7. Honest(h, t.jobs)
    BY <2>6 DEF Honest
  <2> QED BY <2>2, <2>7, <2>9 DEF g, h
<1> HIDE DEF Goal
<1>7. Goal
  BY <1>1, <1>2, <1>3, <1>4, <1>5, <1>6 DEF Step, Goal
<1> QED BY <1>7 DEF Goal

LEMMA NotPublished ==
  ASSUME NEW g, NEW c, NEW i \in Nat, NEW jobs, Due(c, i, jobs)
  PROVE  \A m : Publish(m) \in Range(jobs) => m \in Own(c) /\ m.channel # "ticker"
<1> SUFFICES ASSUME NEW m, Publish(m) \in Range(jobs)
             PROVE  m \in Own(c) /\ m.channel # "ticker"
  OBVIOUS
<1>1. Publish(m).do = "publish" /\ Publish(m).msg = m
  BY PublishLaws
<1>2. Publish(m) \in Publications(Own(c))
  BY <1>1, LeftItems
<1>3. m \in Own(c)
  BY <1>1, <1>2 DEF Publications
<1> QED BY <1>3 DEF Own, BookDeltas, CandleMessages

(* A run of jobs either shows the ticker of the candles it leaves, or has  *)
(* it still to compute, or has changed neither.                            *)
LEMMA RunAnnounces ==
  ASSUME MTypes, NEW w, IsScreen(w), NEW c, NEW i, NEW p, NEW jobs, NEW before,
         Runs(c, i, p, jobs, before), Honest(p.aggs[Shortest], jobs)
  PROVE  LET g == p.aggs[Shortest]
             h == proj'.aggs[Shortest]
         IN /\ \/ Shown(w, wire').ticker = ComputeTicker(h)
               \/ Job("ticker") \in Range(todo'[c])
               \/ /\ h = g /\ ~Announced(g, jobs)
                  /\ Shown(w, wire').ticker = Shown(w, before).ticker
            /\ \A d \in Coroutines \ {c} : todo'[d] = todo[d]
<1> DEFINE g == p.aggs[Shortest]  h == proj'.aggs[Shortest]
<1>0. /\ LogOK /\ late \in LateSets /\ primed \in BOOLEAN
      /\ todo \in [Coroutines -> Seq(AllJobs)]
  BY DEF MTypes, JobsOK
<1>1. /\ c \in Coroutines /\ i \in Nat /\ p \in Projections /\ jobs \in Seq(AllJobs)
      /\ Forms(c, i, jobs) /\ before \in Seq(Wires) /\ Run(c, p, jobs, before)
  BY DEF Runs
<1>2. Started(p, jobs) \in States /\ Ran(c, i, p, jobs, before)
  BY <1>0, <1>1, RunOutcome
<1>3. PICK half \in States, s \in States :
        /\ Step(c, i, Started(p, jobs), half) /\ Step(c, i, half, s)
        /\ proj' = s.proj /\ Sent(c, i, s, before)
  BY <1>2 DEF Ran
<1> DEFINE k == half.proj.aggs[Shortest]  l == s.proj.aggs[Shortest]
<1>4. Started(p, jobs).proj = p /\ Started(p, jobs).jobs = jobs
  BY DEF Started
<1>5. /\ Honest(k, half.jobs) /\ (Announced(g, jobs) => Announced(k, half.jobs))
      /\ (k = g \/ Announced(k, half.jobs))
  <2> DEFINE z == Started(p, jobs)
  <2>1. /\ Honest(k, half.jobs)
        /\ Announced(z.proj.aggs[Shortest], z.jobs) => Announced(k, half.jobs)
        /\ k = z.proj.aggs[Shortest] \/ Announced(k, half.jobs)
    <3>1. z \in States /\ Step(c, i, z, half) /\ Honest(z.proj.aggs[Shortest], z.jobs)
      BY <1>2, <1>3, <1>4
    <3> HIDE DEF z
    <3> QED BY <1>0, <1>1, <3>1, StepAnnounces
  <2> QED BY <1>4, <2>1
<1>6. /\ Honest(l, s.jobs) /\ (Announced(k, half.jobs) => Announced(l, s.jobs))
      /\ (l = k \/ Announced(l, s.jobs))
  BY <1>0, <1>1, <1>3, <1>5, StepAnnounces
<1>7. h = l
  BY <1>3
<1>8. \A d \in Coroutines \ {c} : todo'[d] = todo[d]
  BY <1>0, <1>3 DEF Sent
<1> HIDE DEF g, h, k, l
<1>9. CASE s.jobs = << >> /\ wire' = before
  <2>1. ~Announced(l, s.jobs)
    <3>1. Range(s.jobs) = {}
      BY <1>9, ItemsOne
    <3> QED BY <3>1 DEF Announced
  <2>2. h = g /\ ~Announced(g, jobs)
    BY <1>5, <1>6, <1>7, <2>1
  <2> QED BY <1>8, <1>9, <2>2 DEF g, h
<1>10. ASSUME NEW m \in Messages, NEW r \in Seq(AllJobs), s.jobs = <<Publish(m)>> \o r,
              Due(c, i, r), todo' = [todo EXCEPT ![c] = r],
              wire' = Append(before, [from |-> c, msg |-> m])
       PROVE  \/ Shown(w, wire').ticker = ComputeTicker(h)
              \/ Job("ticker") \in Range(todo'[c])
              \/ /\ h = g /\ ~Announced(g, jobs)
                 /\ Shown(w, wire').ticker = Shown(w, before).ticker
  <2>1. Range(s.jobs) = {Publish(m)} \cup Range(r)
    BY <1>10, JobTypes, ItemsFirst
  <2>2. todo'[c] = r
    BY <1>0, <1>1, <1>10
  <2>3. \A x : Publish(x) \in Range(r) => x.channel # "ticker"
    BY <1>1, <1>10, NotPublished
  <2>4. TickerOf(l).channel = "ticker" /\ TickerOf(l).ticker = ComputeTicker(l)
    BY DEF TickerOf
  <2>5. m.channel = "ticker" => m = TickerOf(l)
    BY <1>6, <2>1 DEF Honest
  <2>6. Shown(w, wire').ticker = IF m.channel = "ticker" THEN m.ticker ELSE Shown(w, before).ticker
    BY <1>1, <1>10, ShownSent
  <2>7. CASE m.channel = "ticker"
    BY <1>7, <2>4, <2>5, <2>6, <2>7
  <2>8. CASE m.channel # "ticker" /\ Announced(l, s.jobs)
    <3>1. Publish(TickerOf(l)) \notin Range(s.jobs)
      BY <2>1, <2>3, <2>4, <2>8, PublishLaws
    <3>2. Job("ticker") \in Range(r)
      BY <2>1, <2>8, <3>1, PublishLaws DEF Announced
    <3> QED BY <2>2, <3>2
  <2>9. CASE m.channel # "ticker" /\ ~Announced(l, s.jobs)
    BY <1>5, <1>6, <1>7, <2>6, <2>9
  <2> QED BY <2>7, <2>8, <2>9
<1> QED BY <1>3, <1>8, <1>9, <1>10 DEF Sent, g, h

(* Nothing to compute, and a snapshot to begin with: what is left to do.   *)
LEMMA RunShort ==
  ASSUME MTypes, NEW c, NEW i, NEW p, NEW jobs, NEW before, Runs(c, i, p, jobs, before)
  PROVE  /\ \A d \in Coroutines \ {c} : todo'[d] = todo[d]
         /\ jobs = << >> => /\ todo'[c] = << >> /\ wire' = before /\ proj' = p
                            /\ late' = late /\ primed' = primed
         /\ \A r \in Seq(AllJobs) : jobs = <<Job("snapshot")>> \o r =>
              /\ todo'[c] = r /\ proj' = p /\ late' = late
              /\ primed' = (primed \/ TRUE)
              /\ wire' = Append(before, [from |-> c, msg |-> SnapshotOf(p.l2)])
              /\ SnapshotOf(p.l2) \in Messages
<1> DEFINE start == Started(p, jobs)  half == Compute(start)  s == Compute(half)
<1>0. /\ LogOK /\ late \in LateSets /\ primed \in BOOLEAN
      /\ todo \in [Coroutines -> Seq(AllJobs)]
  BY DEF MTypes, JobsOK
<1>1. /\ c \in Coroutines /\ i \in Nat /\ p \in Projections /\ jobs \in Seq(AllJobs)
      /\ Forms(c, i, jobs) /\ before \in Seq(Wires) /\ Run(c, p, jobs, before)
  BY DEF Runs
<1>2. start \in States /\ start.jobs = jobs /\ start.proj = p /\ start.late = late
  BY <1>0, <1>1 DEF States, Started
<1>3. /\ proj' = s.proj /\ late' = s.late
      /\ IF s.jobs = << >> THEN todo' = [todo EXCEPT ![c] = << >>] /\ wire' = before
         ELSE /\ todo' = [todo EXCEPT ![c] = Tail(s.jobs)]
              /\ wire' = Append(before, [from |-> c, msg |-> s.jobs[1].msg])
      /\ primed' = (primed \/ (s.jobs # << >> /\ s.jobs[1].msg.channel = "book:snapshot"))
  BY <1>1 DEF Run, Started
<1> HIDE DEF start, half, s
<1>4. \A d \in Coroutines \ {c} : todo'[d] = todo[d]
  BY <1>0, <1>3
<1>5. ASSUME jobs = << >>
      PROVE  /\ todo'[c] = << >> /\ wire' = before /\ proj' = p
             /\ late' = late /\ primed' = primed
  <2>1. half = start
    BY <1>2, <1>5, ComputeNone DEF half
  <2>2. s = start
    BY <1>2, <1>5, <2>1, ComputeNone DEF s
  <2> QED BY <1>0, <1>1, <1>2, <1>3, <1>5, <2>2
<1>6. ASSUME NEW r \in Seq(AllJobs), jobs = <<Job("snapshot")>> \o r
      PROVE  /\ todo'[c] = r /\ proj' = p /\ late' = late
             /\ primed' = (primed \/ TRUE)
             /\ wire' = Append(before, [from |-> c, msg |-> SnapshotOf(p.l2)])
             /\ SnapshotOf(p.l2) \in Messages
  <2> DEFINE m == SnapshotOf(p.l2)
  <2>1. m \in Messages /\ half = [proj |-> p, jobs |-> <<Publish(m)>> \o r, late |-> late]
    <3>1. start.jobs = <<Job("snapshot")>> \o r
      BY <1>2, <1>6
    <3> QED BY <1>2, <3>1, ComputeSnapshot DEF half
  <2>2. m.channel = "book:snapshot"
    BY DEF SnapshotOf
  <2> HIDE DEF m
  <2>3. /\ <<Publish(m)>> \o r \in Seq(AllJobs) /\ <<Publish(m)>> \o r # << >>
        /\ (<<Publish(m)>> \o r)[1] = Publish(m) /\ Tail(<<Publish(m)>> \o r) = r
    BY <2>1, JobTypes, First
  <2>4. half \in States /\ half.jobs = <<Publish(m)>> \o r /\ half.proj = p /\ half.late = late
    BY <1>0, <1>1, <2>1, <2>3 DEF States
  <2>5. s = half
    BY <2>1, <2>4, ComputePublish DEF s
  <2>6. s.jobs # << >> /\ s.jobs[1].msg = m /\ Tail(s.jobs) = r
    BY <2>3, <2>4, <2>5, PublishLaws
  <2> QED BY <1>0, <1>1, <1>3, <2>1, <2>2, <2>4, <2>5, <2>6 DEF m
<1> QED BY <1>4, <1>5, <1>6

(* The snapshot timer has nothing left to do once it has published, and a  *)
(* candle timer nothing before it has fired.                               *)
QuietInv ==
  /\ todo[Snapshots] = << >>
  /\ \A k \in 1..MaxTime : k > ticked => todo[<<"timer", k>>] = << >>

LEMMA QuietRun ==
  ASSUME MTypes, QuietInv, NEW c, NEW i, NEW p, NEW jobs, NEW before,
         Runs(c, i, p, jobs, before),
         c \in {Consumer, Resetter} \/ jobs = todo[c], ticked' = ticked
  PROVE  QuietInv'
<1>1. /\ \A d \in Coroutines \ {c} : todo'[d] = todo[d]
      /\ jobs = << >> => todo'[c] = << >>
  BY RunShort
<1>2. Snapshots \in Coroutines /\ \A k \in 1..MaxTime : <<"timer", k>> \in Coroutines
  BY DEF Coroutines, Timers
<1>3. ASSUME NEW d \in Coroutines, d \notin {Consumer, Resetter}, todo[d] = << >>
      PROVE  todo'[d] = << >>
  BY <1>1, <1>3
<1>4. /\ Snapshots \notin {Consumer, Resetter}
      /\ \A k \in 1..MaxTime : <<"timer", k>> \notin {Consumer, Resetter}
  BY DEF Snapshots, Consumer, Resetter
<1> QED BY <1>2, <1>3, <1>4 DEF QuietInv

LEMMA QuietStep == MTypes /\ QuietInv /\ [MDNext]_mdVars => QuietInv'
<1> SUFFICES ASSUME MTypes, QuietInv, [MDNext]_mdVars PROVE QuietInv'
  OBVIOUS
<1>a. UNCHANGED <<ticked, todo>> => QuietInv'
  BY DEF QuietInv
<1>1. CASE Land
  <2>1. Runs(wire[1].from, cursor, proj, todo[wire[1].from], Tail(wire)) /\ ticked' = ticked
    BY <1>1, LandRuns DEF Land
  <2> QED BY <2>1, QuietRun
<1>2. CASE FetchPage
  BY <1>2, <1>a DEF FetchPage, serviceVars
<1>3. CASE Consume
  <2>1. Runs(Consumer, cursor', proj, ConsumeJobs, wire) /\ ticked' = ticked
    BY <1>3, ConsumeRuns DEF Consume
  <2> QED BY <2>1, QuietRun
<1>4. CASE CandleTimer
  <2>1. ticked' = clock /\ ticked \in 0..clock /\ clock \in Nat
    BY <1>4, CandleTimerRuns DEF CandleTimer, MTypes
  <2>2. \A d \in Coroutines \ {<<"timer", clock>>} : todo'[d] = todo[d]
    BY <1>4, CandleTimerRuns, RunShort
  <2>3. Snapshots \in Coroutines /\ \A k \in 1..MaxTime : <<"timer", k>> \in Coroutines
    BY DEF Coroutines, Timers
  <2>4. Snapshots # <<"timer", clock>>
    BY DEF Snapshots
  <2>5. ASSUME NEW k \in 1..MaxTime, k > clock PROVE todo'[<<"timer", k>>] = << >>
    <3>1. k > ticked /\ k # clock /\ <<"timer", k>> # <<"timer", clock>>
      BY <2>1, <2>5
    <3>2. todo[<<"timer", k>>] = << >>
      BY <3>1 DEF QuietInv
    <3> QED BY <2>2, <2>3, <3>1, <3>2
  <2> QED BY <2>1, <2>2, <2>3, <2>4, <2>5 DEF QuietInv
<1>5. CASE SnapshotTimer
  <2> DEFINE c == Snapshots  x == Job("snapshot")
  <2>1. Runs(c, cursor, proj, <<x>>, wire) /\ ticked' = ticked
    BY <1>5, SnapshotTimerRuns DEF SnapshotTimer
  <2>2. << >> \in Seq(AllJobs) /\ <<x>> = <<x>> \o << >>
    <3>1. x \in AllJobs
      BY JobTypes
    <3> HIDE DEF x
    <3> QED BY <3>1, Singles
  <2>3. todo'[c] = << >> /\ \A d \in Coroutines \ {c} : todo'[d] = todo[d]
    BY <2>1, <2>2, RunShort
  <2>4. \A k \in 1..MaxTime : <<"timer", k>> \in Coroutines \ {c}
    BY DEF Coroutines, Timers, Snapshots
  <2> QED BY <2>1, <2>3, <2>4 DEF QuietInv
<1>6. CASE StartReset
  BY <1>6, <1>a DEF StartReset
<1>7. CASE Clear
  <2>1. Runs(Resetter, 0, FreshProjections, <<Job("snapshot"), Job("ticker")>>, wire)
        /\ ticked' = ticked
    BY <1>7, ClearRuns DEF Clear
  <2> QED BY <2>1, QuietRun
<1>8. CASE EndReset
  BY <1>8, <1>a DEF EndReset
<1>9. CASE Die
  <2>1. todo' = [c \in Coroutines |-> << >>]
    BY <1>9 DEF Die
  <2>2. Snapshots \in Coroutines /\ \A k \in 1..MaxTime : <<"timer", k>> \in Coroutines
    BY DEF Coroutines, Timers
  <2> QED BY <2>1, <2>2 DEF QuietInv
<1>10. CASE EngineLogs
  BY <1>10, <1>a DEF EngineLogs, serviceVars
<1>11. CASE EngineResets
  BY <1>11, <1>a DEF EngineResets, serviceVars
<1>12. CASE Advance
  BY <1>12, <1>a DEF Advance
<1>13. CASE UNCHANGED mdVars
  BY <1>13, <1>a DEF mdVars, serviceVars
<1> QED BY <1>1, <1>2, <1>3, <1>4, <1>5, <1>6, <1>7, <1>8, <1>9, <1>10, <1>11, <1>12, <1>13
    DEF MDNext

Quoted ==
  \/ Bars(proj.aggs[Shortest]) # << >>
  \/ resets > 0 /\ reset # "disconnected" /\ restarts = 0

(* Where there are candles, or have been, their ticker is the last on its  *)
(* way to the screen, or somebody has still to compute it.                 *)
TickerInv ==
  /\ restarts \in Nat
  /\ Quoted =>
       \/ Shown(screen, wire).ticker = ComputeTicker(proj.aggs[Shortest])
       \/ \E c \in Coroutines : Job("ticker") \in Range(todo[c])

LEMMA TickerRun ==
  ASSUME MTypes, TickerInv, NEW c, NEW i, NEW p, NEW jobs, NEW before,
         Runs(c, i, p, jobs, before), Honest(p.aggs[Shortest], jobs),
         IsScreen(screen'), restarts' \in Nat,
         Announced(p.aggs[Shortest], jobs)
           \/ /\ p.aggs = proj.aggs /\ UNCHANGED <<resets, reset, restarts>>
              /\ Shown(screen', before) = Shown(screen, wire)
              /\ Job("ticker") \notin Range(todo[c])
  PROVE  TickerInv'
<1> DEFINE w == screen'  g == p.aggs[Shortest]  h == proj'.aggs[Shortest]
<1>1. /\ \/ Shown(w, wire').ticker = ComputeTicker(h)
         \/ Job("ticker") \in Range(todo'[c])
         \/ /\ h = g /\ ~Announced(g, jobs)
            /\ Shown(w, wire').ticker = Shown(w, before).ticker
      /\ \A d \in Coroutines \ {c} : todo'[d] = todo[d]
  <2> HIDE DEF w
  <2>1. IsScreen(w)
    BY DEF w
  <2> QED BY <2>1, RunAnnounces
<1>2. c \in Coroutines
  BY DEF Runs
<1>3. CASE Shown(w, wire').ticker = ComputeTicker(h)
  BY <1>3 DEF TickerInv
<1>4. CASE Job("ticker") \in Range(todo'[c])
  BY <1>2, <1>4 DEF TickerInv
<1>5. CASE /\ h = g /\ ~Announced(g, jobs)
           /\ Shown(w, wire').ticker = Shown(w, before).ticker
  <2>1. /\ p.aggs = proj.aggs /\ UNCHANGED <<resets, reset, restarts>>
        /\ Shown(w, before) = Shown(screen, wire) /\ Job("ticker") \notin Range(todo[c])
    BY <1>5
  <2>2. h = proj.aggs[Shortest]
    BY <1>5, <2>1
  <2>3. Quoted' => Quoted
    BY <2>1, <2>2 DEF Quoted
  <2>4. CASE Shown(screen, wire).ticker = ComputeTicker(proj.aggs[Shortest])
    <3>1. Shown(w, wire').ticker = ComputeTicker(h)
      BY <1>5, <2>1, <2>2, <2>4
    <3> QED BY <3>1 DEF TickerInv
  <2>5. CASE \E d \in Coroutines : Job("ticker") \in Range(todo[d])
    <3>1. PICK d \in Coroutines : Job("ticker") \in Range(todo[d])
      BY <2>5
    <3>2. todo'[d] = todo[d]
      BY <1>1, <2>1, <3>1
    <3>3. Job("ticker") \in Range(todo[d])'
      BY <3>1, <3>2
    <3> QED BY <3>3 DEF TickerInv
  <2>6. CASE ~Quoted'
    BY <2>6 DEF TickerInv
  <2> QED BY <2>3, <2>4, <2>5, <2>6 DEF TickerInv
<1> QED BY <1>1, <1>3, <1>4, <1>5

LEMMA TickerKept ==
  ASSUME TickerInv, UNCHANGED <<proj, todo, wire, screen>>, restarts' \in Nat, Quoted' => Quoted
  PROVE  TickerInv'
BY DEF TickerInv

LEMMA TickerStep == MTypes /\ QuietInv /\ TickerInv /\ [MDNext]_mdVars => TickerInv'
<1> SUFFICES ASSUME MTypes, QuietInv, TickerInv, [MDNext]_mdVars PROVE TickerInv'
  OBVIOUS
<1>0. MTypes'
  BY MTypesStep
<1>a. IsScreen(screen') /\ restarts \in Nat
  BY <1>0 DEF MTypes, TickerInv
<1>b. \A x : Range(<<x>>) = {x} /\ Range(<< >>) = {}
  BY ItemsOne
<1>c. \A j \in Nat : \A g : Honest(g, <<JobOn("apply", j)>>)
  BY <1>b, PublishLaws DEF Honest
<1>1. CASE Land
  <2> DEFINE c == wire[1].from  jobs == todo[c]  g == proj.aggs[Shortest]
  <2>1. wire # << >> /\ Runs(c, cursor, proj, jobs, Tail(wire))
    BY <1>1, LandRuns
  <2>2. UNCHANGED <<resets, reset, restarts>> /\ screen' = Receive(screen, wire[1].msg)
    BY <1>1 DEF Land
  <2>3. Shown(screen', Tail(wire)) = Shown(screen, wire)
    BY <2>1, <2>2, ShownLanded
  <2>4. Due(c, cursor, jobs) /\ cursor \in Nat
    BY <2>1 DEF Runs, MTypes, JobsOK
  <2> HIDE DEF c, jobs, g
  <2>5. Honest(g, jobs)
    BY <2>4, NotPublished DEF Honest
  <2>6. Announced(g, jobs) \/ Job("ticker") \notin Range(jobs)
    BY DEF Announced
  <2> QED BY <1>a, <2>1, <2>2, <2>3, <2>5, <2>6, TickerRun DEF g, jobs
<1>2. CASE FetchPage
  BY <1>2, <1>a, TickerKept DEF FetchPage, serviceVars, Quoted
<1>3. CASE Consume
  <2> DEFINE g == proj.aggs[Shortest]
  <2>1. UNCHANGED <<resets, reset, restarts, screen>>
    BY <1>3 DEF Consume
  <2>2. todo[Consumer] = << >> /\ Runs(Consumer, cursor', proj, ConsumeJobs, wire)
        /\ cursor' \in Nat
    BY <1>3, ConsumeRuns DEF Runs
  <2>3. Job("ticker") \notin Range(todo[Consumer])
    BY <1>b, <2>2
  <2> HIDE DEF g
  <2>4. Honest(g, ConsumeJobs)
    <3> DEFINE j == cursor'  a == <<JobOn("apply", j)>>
    <3>1. ConsumeJobs = a \/ ConsumeJobs = <<Job("snapshot")>> \o a
      BY <1>3, ConsumeRuns
    <3>2. a \in Seq(AllJobs) /\ Range(a) = {JobOn("apply", j)} /\ Job("snapshot") \in AllJobs
      BY <1>b, <2>2, JobTypes, Singles
    <3> HIDE DEF a
    <3>3. Range(<<Job("snapshot")>> \o a) = {Job("snapshot"), JobOn("apply", j)}
      BY <3>2, ItemsFirst
    <3>4. Range(ConsumeJobs) \subseteq {Job("snapshot"), JobOn("apply", j)}
      BY <3>1, <3>2, <3>3
    <3>5. \A m : Publish(m) \notin {Job("snapshot"), JobOn("apply", j)}
      BY PublishLaws
    <3>6. \A m : Publish(m) \notin Range(ConsumeJobs)
      BY <3>4, <3>5
    <3> QED BY <3>6 DEF Honest
  <2> QED BY <1>a, <2>1, <2>2, <2>3, <2>4, TickerRun DEF g
<1>4. CASE CandleTimer
  <2> DEFINE c == <<"timer", clock>>  jobs == IF EventsOfTick = << >> THEN << >> ELSE TickJobs
             g == TickedProj.aggs[Shortest]
  <2>1. UNCHANGED <<resets, reset, restarts, screen>>
    BY <1>4 DEF CandleTimer
  <2>2. /\ EventsOfTick \in Seq(CandleMessages)
        /\ EventsOfTick = << >> => TickedProj = proj
        /\ Runs(c, cursor, TickedProj, jobs, wire)
    BY <1>4, CandleTimerRuns
  <2>3. c \in Coroutines
    BY <2>2 DEF Runs
  <2>4. CASE EventsOfTick = << >>
    <3>1. Honest(g, << >>) /\ jobs = << >> /\ TickedProj.aggs = proj.aggs
      BY <1>b, <2>2, <2>4 DEF Honest
    <3>2. todo[c] = << >>
      <4>1. ticked < clock /\ clock \in 1..MaxTime
        BY <1>4, <2>4, CandleTimerRuns DEF CandleTimer, Fires, EventsOfTick
      <4> QED BY <4>1 DEF QuietInv
    <3>3. Job("ticker") \notin Range(todo[c])
      BY <1>b, <3>2
    <3> HIDE DEF c, jobs, g
    <3> QED BY <1>a, <2>1, <2>2, <3>1, <3>3, TickerRun DEF g
  <2>5. CASE EventsOfTick # << >>
    <3> DEFINE ps == PublishAll(EventsOfTick)  q == <<Job("ticker")>>
    <3>1. ps \in Seq(Publications(CandleMessages)) /\ jobs = ps \o q
      BY <2>2, <2>5, PublishAllType DEF TickJobs
    <3> HIDE DEF ps, c, jobs, g
    <3>2. q \in Seq(AllJobs) /\ Range(q) = {Job("ticker")}
      BY <1>b, JobTypes, Singles
    <3> HIDE DEF q
    <3>3. ps \in Seq(AllJobs) /\ Range(ps) \subseteq Publications(CandleMessages)
      <4>1. Publications(CandleMessages) \subseteq AllJobs
        BY DEF Publications, AllJobs, Messages
      <4> QED BY <3>1, <4>1, SeqMonotonic, ItemsIn
    <3>4. Range(jobs) = Range(ps) \cup {Job("ticker")}
      BY <3>1, <3>2, <3>3, RangeConcatenation
    <3>5. \A m : Publish(m) \in Range(jobs) => m.channel = "candles"
      <4>1. \A x \in Publications(CandleMessages) : x.msg.channel = "candles"
        BY DEF Publications, CandleMessages
      <4> QED BY <3>3, <3>4, <4>1, PublishLaws
    <3>6. Honest(g, jobs) /\ Announced(g, jobs)
      BY <3>4, <3>5 DEF Honest, Announced
    <3> QED BY <1>a, <2>1, <2>2, <3>6, TickerRun DEF g
  <2> QED BY <2>4, <2>5
<1>5. CASE SnapshotTimer
  <2> DEFINE c == Snapshots  x == Job("snapshot")  g == proj.aggs[Shortest]
  <2>1. UNCHANGED <<resets, reset, restarts, screen>>
    BY <1>5 DEF SnapshotTimer
  <2>2. Runs(c, cursor, proj, <<x>>, wire)
    BY <1>5, SnapshotTimerRuns
  <2>3. Job("ticker") \notin Range(todo[c])
    BY <1>b DEF QuietInv
  <2> HIDE DEF c, g
  <2>4. Honest(g, <<x>>)
    BY <1>b, PublishLaws DEF Honest
  <2> QED BY <1>a, <2>1, <2>2, <2>3, <2>4, TickerRun DEF g
<1>6. CASE StartReset
  <2>1. Quoted' => Quoted
    BY <1>6 DEF StartReset, Quoted
  <2> QED BY <1>6, <1>a, <2>1, TickerKept DEF StartReset
<1>7. CASE Clear
  <2> DEFINE c == Resetter  x == Job("snapshot")  y == Job("ticker")
             g == FreshProjections.aggs[Shortest]
  <2>1. restarts' = restarts
    BY <1>7 DEF Clear
  <2>2. Runs(c, 0, FreshProjections, <<x, y>>, wire) /\ <<x, y>> = <<x>> \o <<y>>
    BY <1>7, ClearRuns
  <2>3. Range(<<x, y>>) = {x, y}
    <3>1. x \in AllJobs /\ y \in AllJobs
      BY JobTypes
    <3> HIDE DEF x, y
    <3> DEFINE q == <<y>>
    <3>2. q \in Seq(AllJobs) /\ Range(q) = {y} /\ <<x, y>> = <<x>> \o q
      BY <1>b, <2>2, <3>1
    <3> HIDE DEF q
    <3>3. Range(<<x>> \o q) = {x} \cup Range(q)
      BY <3>1, <3>2, ItemsFirst
    <3> QED BY <3>2, <3>3
  <2> DEFINE jobs == <<x, y>>
  <2> HIDE DEF c, g, jobs
  <2>4. Honest(g, jobs) /\ Announced(g, jobs)
    BY <2>3, PublishLaws DEF Honest, Announced, jobs
  <2>5. Runs(c, 0, FreshProjections, jobs, wire)
    BY <2>2 DEF jobs
  <2> QED BY <1>a, <2>1, <2>4, <2>5, TickerRun DEF g
<1>8. CASE EndReset
  <2>1. Quoted' => Quoted
    BY <1>8 DEF EndReset, Quoted
  <2> QED BY <1>8, <1>a, <2>1, TickerKept DEF EndReset
<1>9. CASE Die
  <2>1. restarts' = restarts + 1 /\ proj' = FreshProjections
    BY <1>9 DEF Die
  <2>2. Bars(proj'.aggs[Shortest]) = << >>
    BY <2>1, SpanTypes DEF FreshProjections, FreshAggregator, Bars
  <2>3. restarts' \in Nat /\ restarts' # 0
    BY <1>a, <2>1
  <2> QED BY <2>2, <2>3 DEF TickerInv, Quoted
<1>10. CASE EngineLogs
  BY <1>10, <1>a, TickerKept DEF EngineLogs, serviceVars, Quoted
<1>11. CASE EngineResets
  BY <1>11, <1>a, TickerKept DEF EngineResets, serviceVars, Quoted
<1>12. CASE Advance
  BY <1>12, <1>a, TickerKept DEF Advance, Quoted
<1>13. CASE UNCHANGED mdVars
  BY <1>13, <1>a, TickerKept DEF mdVars, serviceVars, Quoted
<1> QED BY <1>1, <1>2, <1>3, <1>4, <1>5, <1>6, <1>7, <1>8, <1>9, <1>10, <1>11, <1>12, <1>13
    DEF MDNext

LEMMA QuietInit == MDInit => QuietInv /\ TickerInv
<1> SUFFICES ASSUME MDInit PROVE QuietInv /\ TickerInv
  OBVIOUS
<1>1. todo = [c \in Coroutines |-> << >>] /\ proj = FreshProjections /\ resets = 0 /\ restarts = 0
  BY DEF MDInit
<1>2. Snapshots \in Coroutines /\ \A k \in 1..MaxTime : <<"timer", k>> \in Coroutines
  BY DEF Coroutines, Timers
<1>3. Bars(proj.aggs[Shortest]) = << >>
  BY <1>1, SpanTypes DEF FreshProjections, FreshAggregator, Bars
<1> QED BY <1>1, <1>2, <1>3 DEF QuietInv, TickerInv, Quoted

(* When all is published, the ticker on the screen is that of the candles  *)
(* the service has: the timer's, the consumer's and the reset's tickers    *)
(* never overtake each other with an older one (server.ts:46-49, 65, 106,  *)
(* 158).                                                                   *)
THEOREM TickerIsLast == MDSpec => []TickerIsCurrent
<1>1. MTypes /\ TickerInv => TickerIsCurrent
  <2> SUFFICES ASSUME MTypes, TickerInv, Idle,
                      Bars(proj.aggs[Shortest]) # << >>
                        \/ (resets > 0 /\ reset = "no" /\ restarts = 0)
               PROVE  screen.ticker = ComputeTicker(proj.aggs[Shortest])
    BY DEF TickerIsCurrent
  <2>1. Quoted
    BY DEF Quoted
  <2>2. ASSUME NEW c \in Coroutines PROVE Job("ticker") \notin Range(todo[c])
    BY ItemsOne DEF Idle
  <2>3. Shown(screen, wire) = screen
    BY ShownNone DEF Idle
  <2> QED BY <2>1, <2>2, <2>3 DEF TickerInv
<1>2. MDInit => MTypes /\ QuietInv /\ TickerInv
  BY MTypesInit, QuietInit
<1>3. MTypes /\ QuietInv /\ TickerInv /\ [MDNext]_mdVars => (MTypes /\ QuietInv /\ TickerInv)'
  BY MTypesStep, QuietStep, TickerStep
<1> QED BY <1>1, <1>2, <1>3, PTL DEF MDSpec
-----------------------------------------------------------------------------
(* The depth on the screen. *)

(* No side has more levels than a snapshot publishes.                      *)
Shallow == \A s \in Sides : Cardinality(DOMAIN proj.l2.levels[s]) <= SnapshotLevels

LEMMA WholeSnapshot ==
  ASSUME NEW v \in Views, NEW n \in Nat, \A s \in Sides : Cardinality(DOMAIN v.levels[s]) <= n
  PROVE  Snapshot(v, n) = v.levels
<1>1. v.levels \in [Sides -> LevelMaps]
  BY DEF Views, Depths
<1>2. ASSUME NEW s \in Sides
      PROVE  Restrict(v.levels[s],
               {p \in DOMAIN v.levels[s] :
                  Cardinality({q \in DOMAIN v.levels[s] : Better(s, q, p)}) < n}) = v.levels[s]
  <2> DEFINE f == v.levels[s]  D == DOMAIN f
  <2>1. f \in LevelMaps
    BY <1>1
  <2>2. D \in SUBSET Nat /\ IsFiniteSet(D) /\ f = [x \in D |-> f[x]]
    BY <2>1 DEF LevelMaps, FinitePrices
  <2>3. Cardinality(D) <= n
    OBVIOUS
  <2> HIDE DEF f, D
  <2>4. ASSUME NEW p \in D PROVE Cardinality({q \in D : Better(s, q, p)}) < n
    <3> DEFINE T == {q \in D : Better(s, q, p)}
    <3>1. T \subseteq D \ {p}
      BY <2>2 DEF Better
    <3>2. IsFiniteSet(D \ {p}) /\ Cardinality(D \ {p}) = Cardinality(D) - 1
      BY <2>2, FS_RemoveElement
    <3> HIDE DEF T
    <3>3. IsFiniteSet(T) /\ Cardinality(T) <= Cardinality(D \ {p})
      BY <3>1, <3>2, FS_Subset
    <3>4. Cardinality(T) \in Nat /\ Cardinality(D) \in Nat
      BY <2>2, <3>3, FS_CardinalityType
    <3>5. Cardinality(T) < n
      BY <2>3, <3>2, <3>3, <3>4
    <3> QED BY <3>5 DEF T
  <2>5. {p \in D : Cardinality({q \in D : Better(s, q, p)}) < n} = D
    BY <2>4
  <2>6. Restrict(f, D) = f
    BY <2>2 DEF Restrict
  <2> QED BY <2>5, <2>6 DEF f, D
<1>3. Snapshot(v, n) = [s \in Sides |-> v.levels[s]]
  BY <1>2 DEF Snapshot
<1> QED BY <1>1, <1>3

(* What is going to be published of the view tells the truth about it.     *)
Truthful(v, jobs) ==
  \A m : Publish(m) \in Range(jobs) =>
    /\ m.channel = "book" => m.qty = QtyIn(v.levels, m.side, m.price)
    /\ m.channel = "book:snapshot" => m = SnapshotOf(v)

(* A book shows the levels but for those that deltas among the items are   *)
(* about.                                                                  *)
Shows(book, levels, items) ==
  /\ book \in Depths
  /\ \A side \in Sides : \A price \in Nat :
       \/ QtyIn(book, side, price) = QtyIn(levels, side, price)
       \/ \E m \in BookDeltas : Publish(m) \in items /\ m.side = side /\ m.price = price

LEMMA ShowsMore ==
  ASSUME NEW book, NEW levels, NEW X, NEW Y, Shows(book, levels, X),
         \A m \in BookDeltas : Publish(m) \in X => Publish(m) \in Y
  PROVE  Shows(book, levels, Y)
BY DEF Shows

LEMMA ShowsAll ==
  ASSUME NEW levels \in Depths, NEW X
  PROVE  Shows(levels, levels, X)
BY DEF Shows

(* No publication among the items, and what is said of it holds.           *)
LEMMA SilentList ==
  ASSUME NEW v, NEW jobs, \A m : Publish(m) \in Range(jobs) => m.channel \notin {"book", "book:snapshot"}
  PROVE  Truthful(v, jobs)
BY DEF Truthful

(* A computation that changes the view has the deltas in its list.         *)
LEMMA StepTells ==
  ASSUME LogOK, NEW s \in States, NEW c, NEW i \in Nat, NEW t, Step(c, i, s, t),
         Truthful(s.proj.l2, s.jobs), NEW book, NEW X
  PROVE  /\ Truthful(t.proj.l2, t.jobs)
         /\ Shows(book, s.proj.l2.levels, Range(s.jobs) \cup X) =>
              Shows(book, t.proj.l2.levels, Range(t.jobs) \cup X)
         /\ c # Consumer => t.proj.l2 = s.proj.l2
<1> DEFINE v == s.proj.l2  u == t.proj.l2
           Goal == /\ Truthful(u, t.jobs)
                   /\ Shows(book, v.levels, Range(s.jobs) \cup X) =>
                        Shows(book, u.levels, Range(t.jobs) \cup X)
                   /\ c # Consumer => u = v
<1>1. CASE Ready(c, i, s.jobs) /\ t = s
  BY <1>1
<1>2. CASE /\ s.jobs = <<Job("ticker")>>
           /\ t = [proj |-> s.proj, jobs |-> <<Publish(TickerOf(s.proj.aggs[Shortest]))>>,
                   late |-> s.late]
  <2> DEFINE m == TickerOf(s.proj.aggs[Shortest])
  <2>1. u = v /\ t.jobs = <<Publish(m)>> /\ m.channel = "ticker"
    BY <1>2 DEF TickerOf
  <2> HIDE DEF m, u, v
  <2>2. Range(t.jobs) = {Publish(m)} /\ Range(s.jobs) = {Job("ticker")}
    BY <1>2, <2>1, ItemsOne
  <2>3. Truthful(u, t.jobs)
    BY <2>1, <2>2, PublishLaws, SilentList
  <2>4. \A k \in BookDeltas : Publish(k) \in Range(s.jobs) \cup X => Publish(k) \in Range(t.jobs) \cup X
    BY <2>2, PublishLaws
  <2> QED BY <2>1, <2>3, <2>4, ShowsMore DEF u, v
<1>3. ASSUME NEW r \in Seq(AllJobs), s.jobs = <<Job("snapshot")>> \o r,
             t = [proj |-> s.proj, jobs |-> <<Publish(SnapshotOf(s.proj.l2))>> \o r,
                  late |-> s.late]
      PROVE  Goal
  <2> DEFINE m == SnapshotOf(v)
  <2>1. u = v
    BY <1>3
  <2>2. m \in Messages /\ m.channel = "book:snapshot"
    BY StateTypes, SnapshotType DEF SnapshotOf
  <2>5. t.jobs = <<Publish(m)>> \o r
    BY <1>3
  <2>0. m = SnapshotOf(v) /\ Truthful(v, s.jobs)
    OBVIOUS
  <2> HIDE DEF m, u, v
  <2>3. Publish(m) \in AllJobs /\ Job("snapshot") \in AllJobs
    BY <2>2, JobTypes
  <2>4. Range(s.jobs) = {Job("snapshot")} \cup Range(r)
    BY <1>3, <2>3, ItemsFirst
  <2>6. Range(t.jobs) = {Publish(m)} \cup Range(r)
    BY <2>3, <2>5, ItemsFirst
  <2>7. Truthful(v, t.jobs)
    BY <2>0, <2>2, <2>4, <2>6, PublishLaws DEF Truthful
  <2>8. \A k \in BookDeltas : Publish(k) \in Range(s.jobs) \cup X => Publish(k) \in Range(t.jobs) \cup X
    BY <2>4, <2>6, PublishLaws
  <2> QED BY <2>1, <2>7, <2>8, ShowsMore DEF u, v
<1>4. CASE /\ s.jobs = TradeJobs(i) /\ c = Consumer /\ i \in Traded
           /\ t = [proj |-> [l2 |-> s.proj.l2, tape |-> PushTape(s.proj.tape, i), aggs |-> s.proj.aggs],
                   jobs |-> <<Publish(TradeOf(i))>> \o ChartJobs(i), late |-> s.late]
  <2> DEFINE m == TradeOf(i)
  <2>1. u = v /\ t.jobs = <<Publish(m)>> \o ChartJobs(i)
    BY <1>4
  <2>2. m \in Messages /\ m.channel = "trades"
    BY DEF TradeOf, Messages, TradeMessages
  <2> HIDE DEF m, u, v
  <2>3. Publish(m) \in AllJobs
    BY <2>2, JobTypes
  <2>4. Range(t.jobs) = {Publish(m), JobOn("candles", i), Job("ticker")}
    <3>1. Range(t.jobs) = {Publish(m)} \cup Range(ChartJobs(i))
      BY <2>1, <2>3, ListTypes, ItemsFirst
    <3> QED BY <3>1, ListItems
  <2>5. Range(s.jobs) = {JobOn("trade", i), JobOn("candles", i), Job("ticker")}
    BY <1>4, ListItems
  <2>6. Truthful(u, t.jobs)
    BY <2>2, <2>4, PublishLaws, SilentList
  <2>7. \A k \in BookDeltas : Publish(k) \in Range(s.jobs) \cup X => Publish(k) \in Range(t.jobs) \cup X
    BY <2>5, PublishLaws
  <2> QED BY <2>1, <2>6, <2>7, ShowsMore DEF u, v
<1>5. CASE /\ s.jobs = ChartJobs(i) /\ c = Consumer /\ i \in Traded
           /\ t = [proj |-> [l2 |-> s.proj.l2, tape |-> s.proj.tape,
                             aggs |-> ChartedBy(s.proj.aggs, i)],
                   jobs |-> PublishAll(ChartEvents(s.proj.aggs, i)) \o <<Job("ticker")>>,
                   late |-> Dropped(s.late, s.proj.aggs, i)]
  <2> DEFINE ps == PublishAll(ChartEvents(s.proj.aggs, i))  q == <<Job("ticker")>>
  <2>1. ps \in Seq(Publications(CandleMessages))
    <3>1. s.proj.aggs \in [Spans -> Aggregators]
      BY StateTypes
    <3>2. ChartEvents(s.proj.aggs, i) \in Seq(CandleMessages)
      BY <1>5, <3>1, ChartTypes
    <3> QED BY <3>2, PublishAllType
  <2>2. t.jobs = ps \o q /\ u = v
    BY <1>5
  <2> HIDE DEF ps, u, v
  <2>3. q \in Seq(AllJobs) /\ Range(q) = {Job("ticker")}
    BY JobTypes, Singles, ItemsOne
  <2> HIDE DEF q
  <2>4. ps \in Seq(AllJobs) /\ Range(ps) \subseteq Publications(CandleMessages)
    <3>1. Publications(CandleMessages) \subseteq AllJobs
      BY DEF Publications, AllJobs, Messages
    <3> QED BY <2>1, <3>1, SeqMonotonic, ItemsIn
  <2>5. Range(t.jobs) = Range(ps) \cup {Job("ticker")}
    BY <2>2, <2>3, <2>4, RangeConcatenation
  <2>6. \A m : Publish(m) \in Range(t.jobs) => m.channel = "candles"
    <3>1. \A x \in Publications(CandleMessages) : x.msg.channel = "candles"
      BY DEF Publications, CandleMessages
    <3> QED BY <2>4, <2>5, <3>1, PublishLaws
  <2>7. Truthful(u, t.jobs)
    BY <2>6, SilentList
  <2>8. Range(s.jobs) = {JobOn("candles", i), Job("ticker")}
    BY <1>5, ListItems
  <2>9. \A k \in BookDeltas : Publish(k) \in Range(s.jobs) \cup X => Publish(k) \in Range(t.jobs) \cup X
    BY <2>8, PublishLaws
  <2> QED BY <2>2, <2>7, <2>9, ShowsMore DEF u, v
<1>6. CASE /\ s.jobs = <<JobOn("apply", i)>> /\ c = Consumer /\ i \in 1..Len(log)
           /\ t = [proj |-> [l2 |-> ApplyL2(s.proj.l2, log[i].event), tape |-> s.proj.tape,
                             aggs |-> s.proj.aggs],
                   jobs |-> DeltaJobs(s.proj.l2, i) \o Further(i), late |-> s.late]
  <2> DEFINE ps == DeltaJobs(s.proj.l2, i)  q == Further(i)
  <2>1. /\ ps \in Seq(Publications(BookDeltas))
        /\ \A x \in Range(ps) : x.msg.qty = QtyIn(u.levels, x.msg.side, x.msg.price)
        /\ \A side \in Sides : \A price \in Nat :
             \/ QtyIn(u.levels, side, price) = QtyIn(v.levels, side, price)
             \/ \E x \in Range(ps) : x.msg.side = side /\ x.msg.price = price
    <3>1. v \in Views /\ i \in 1..Len(log) /\ u = ApplyL2(v, log[i].event)
      BY <1>6, StateTypes
    <3>2. ps = DeltaJobs(v, i)
      OBVIOUS
    <3> HIDE DEF ps, u, v
    <3> QED BY <3>1, <3>2, DeltaJobTypes
  <2>2. t.jobs = ps \o q
    BY <1>6
  <2>3. q \in Seq(AllJobs) /\ \A m : Publish(m) \notin Range(q)
    <3>1. q = TradeJobs(i) \/ q = << >>
      BY DEF Further
    <3> HIDE DEF q
    <3>2. CASE q = TradeJobs(i)
      <4>1. q \in Seq(AllJobs)
        BY <3>2, ListTypes
      <4>2. Range(q) = {JobOn("trade", i), JobOn("candles", i), Job("ticker")}
        BY <3>2, ListItems
      <4>3. \A m : Publish(m) \notin Range(q)
        BY <4>2, PublishLaws
      <4> QED BY <4>1, <4>3
    <3>3. CASE q = << >>
      <4>1. << >> \in Seq(AllJobs) /\ Range(<< >>) = {}
        BY DEF Range
      <4> QED BY <3>3, <4>1
    <3> QED BY <3>1, <3>2, <3>3
  <2>4. \A m \in BookDeltas : Publish(m) \notin Range(s.jobs)
    <3>1. Range(s.jobs) = {JobOn("apply", i)}
      BY <1>6, ItemsOne
    <3> QED BY <3>1, PublishLaws
  <2> HIDE DEF ps, u, v, q
  <2>5. ps \in Seq(AllJobs) /\ Range(ps) \subseteq Publications(BookDeltas)
    <3>1. Publications(BookDeltas) \subseteq AllJobs
      BY DEF Publications, AllJobs, Messages
    <3> QED BY <2>1, <3>1, SeqMonotonic, ItemsIn
  <2>6. Range(t.jobs) = Range(ps) \cup Range(q)
    BY <2>2, <2>3, <2>5, RangeConcatenation
  <2>7. \A x \in Publications(BookDeltas) : x = Publish(x.msg) /\ x.msg \in BookDeltas
                                           /\ x.msg.channel = "book"
    BY DEF Publications, BookDeltas, Publish
  <2>8. Truthful(u, t.jobs)
    <3> SUFFICES ASSUME NEW m, Publish(m) \in Range(t.jobs)
                 PROVE  m.channel = "book" /\ m.qty = QtyIn(u.levels, m.side, m.price)
      BY DEF Truthful
    <3>1. Publish(m) \in Range(ps) /\ Publish(m).msg = m
      BY <2>3, <2>6, PublishLaws
    <3> QED BY <2>1, <2>5, <2>7, <3>1
  <2>9. ASSUME Shows(book, v.levels, Range(s.jobs) \cup X)
        PROVE  Shows(book, u.levels, Range(t.jobs) \cup X)
    <3> SUFFICES ASSUME NEW side \in Sides, NEW price \in Nat
                 PROVE  \/ QtyIn(book, side, price) = QtyIn(u.levels, side, price)
                        \/ \E m \in BookDeltas : Publish(m) \in Range(t.jobs) \cup X
                                                 /\ m.side = side /\ m.price = price
      BY <2>9 DEF Shows
    <3>1. \/ QtyIn(book, side, price) = QtyIn(v.levels, side, price)
          \/ \E m \in BookDeltas : Publish(m) \in X /\ m.side = side /\ m.price = price
      BY <2>4, <2>9 DEF Shows
    <3>2. CASE \E x \in Range(ps) : x.msg.side = side /\ x.msg.price = price
      <4>1. PICK x \in Range(ps) : x.msg.side = side /\ x.msg.price = price
        BY <3>2
      <4>2. x = Publish(x.msg) /\ x.msg \in BookDeltas
        BY <2>5, <2>7, <4>1
      <4>3. Publish(x.msg) \in Range(t.jobs) \cup X
        BY <2>6, <4>1, <4>2
      <4> QED BY <4>1, <4>2, <4>3
    <3>3. CASE QtyIn(u.levels, side, price) = QtyIn(v.levels, side, price)
      BY <3>1, <3>3
    <3> QED BY <2>1, <3>2, <3>3
  <2> QED BY <1>6, <2>8, <2>9 DEF u, v
<1> HIDE DEF Goal
<1>7. Goal
  BY <1>1, <1>2, <1>3, <1>4, <1>5, <1>6 DEF Step, Goal
<1> QED BY <1>7 DEF Goal
(* A delta that arrives corrects its level.                                *)
LEMMA DeltaShown ==
  ASSUME NEW book, NEW levels, NEW m \in BookDeltas, NEW Y,
         m.qty = QtyIn(levels, m.side, m.price), Shows(book, levels, {Publish(m)} \cup Y)
  PROVE  Shows(After(book, m), levels, Y)
<1>1. book \in Depths /\ m.side \in Sides /\ m.price \in Nat /\ m.qty \in Nat
  BY DEF Shows, BookDeltas
<1>2. After(book, m) \in Depths
  BY <1>1, AfterType
<1>3. ASSUME NEW side \in Sides, NEW price \in Nat
      PROVE  \/ QtyIn(After(book, m), side, price) = QtyIn(levels, side, price)
             \/ \E k \in BookDeltas : Publish(k) \in Y /\ k.side = side /\ k.price = price
  <2>1. QtyIn(After(book, m), side, price) =
          IF side = m.side /\ price = m.price THEN m.qty ELSE QtyIn(book, side, price)
    BY <1>1, AfterQty
  <2>2. CASE side = m.side /\ price = m.price
    BY <2>1, <2>2
  <2>3. CASE ~(side = m.side /\ price = m.price)
    <3>1. \/ QtyIn(book, side, price) = QtyIn(levels, side, price)
          \/ \E k \in BookDeltas : Publish(k) \in {Publish(m)} \cup Y
                                   /\ k.side = side /\ k.price = price
      BY DEF Shows
    <3>2. \A k \in BookDeltas : Publish(k) = Publish(m) => k = m
      BY PublishLaws
    <3> QED BY <2>1, <2>3, <3>1, <3>2
  <2> QED BY <2>2, <2>3
<1> QED BY <1>2, <1>3 DEF Shows

(* A run of jobs keeps what the screen will show true.                     *)
LEMMA RunTells ==
  ASSUME MTypes, NEW w, IsScreen(w), NEW c, NEW i, NEW p, NEW jobs, NEW before,
         Runs(c, i, p, jobs, before), Truthful(p.l2, jobs), Shallow', NEW X,
         primed => Shows(Shown(w, before).book, p.l2.levels, Range(jobs) \cup X)
  PROVE  /\ Truthful(proj'.l2, todo'[c])
         /\ primed' => Shows(Shown(w, wire').book, proj'.l2.levels, Range(todo'[c]) \cup X)
         /\ c # Consumer => proj'.l2 = p.l2
         /\ \A d \in Coroutines \ {c} : todo'[d] = todo[d]
<1> DEFINE b == Shown(w, before).book
<1>0. /\ LogOK /\ late \in LateSets /\ primed \in BOOLEAN
      /\ todo \in [Coroutines -> Seq(AllJobs)]
  BY DEF MTypes, JobsOK
<1>1. /\ c \in Coroutines /\ i \in Nat /\ p \in Projections /\ jobs \in Seq(AllJobs)
      /\ Forms(c, i, jobs) /\ before \in Seq(Wires) /\ Run(c, p, jobs, before)
  BY DEF Runs
<1>2. Started(p, jobs) \in States /\ Ran(c, i, p, jobs, before)
  BY <1>0, <1>1, RunOutcome
<1>3. PICK half \in States, s \in States :
        /\ Step(c, i, Started(p, jobs), half) /\ Step(c, i, half, s)
        /\ proj' = s.proj /\ Sent(c, i, s, before)
  BY <1>2 DEF Ran
<1> DEFINE v == s.proj.l2
<1>4. Started(p, jobs).proj = p /\ Started(p, jobs).jobs = jobs
  BY DEF Started
<1>5. /\ Truthful(half.proj.l2, half.jobs)
      /\ Shows(b, p.l2.levels, Range(jobs) \cup X) =>
           Shows(b, half.proj.l2.levels, Range(half.jobs) \cup X)
      /\ c # Consumer => half.proj.l2 = p.l2
  <2> DEFINE z == Started(p, jobs)
  <2>1. /\ Truthful(half.proj.l2, half.jobs)
        /\ Shows(b, z.proj.l2.levels, Range(z.jobs) \cup X) =>
             Shows(b, half.proj.l2.levels, Range(half.jobs) \cup X)
        /\ c # Consumer => half.proj.l2 = z.proj.l2
    <3>1. z \in States /\ Step(c, i, z, half) /\ Truthful(z.proj.l2, z.jobs)
      BY <1>2, <1>3, <1>4
    <3> HIDE DEF z, b
    <3> QED BY <1>0, <1>1, <3>1, StepTells
  <2> QED BY <1>4, <2>1
<1> HIDE DEF b
<1>6. /\ Truthful(v, s.jobs)
      /\ Shows(b, half.proj.l2.levels, Range(half.jobs) \cup X) =>
           Shows(b, v.levels, Range(s.jobs) \cup X)
      /\ c # Consumer => v = half.proj.l2
  BY <1>0, <1>1, <1>3, <1>5, StepTells
<1>7. proj'.l2 = v /\ v \in Views
  BY <1>3, StateTypes
<1>8. \A d \in Coroutines \ {c} : todo'[d] = todo[d]
  BY <1>0, <1>3 DEF Sent
<1>9. c # Consumer => proj'.l2 = p.l2
  BY <1>5, <1>6, <1>7
<1>a. primed => Shows(b, v.levels, Range(s.jobs) \cup X)
  BY <1>5, <1>6 DEF b
<1> DEFINE a == proj'.l2
<1>b. a = v
  BY <1>7
<1> HIDE DEF v, a
<1>10. ASSUME NEW m \in Messages, NEW r \in Seq(AllJobs), s.jobs = <<Publish(m)>> \o r,
              todo' = [todo EXCEPT ![c] = r],
              wire' = Append(before, [from |-> c, msg |-> m]),
              primed' = (primed \/ m.channel = "book:snapshot")
       PROVE  /\ Truthful(a, todo'[c])
              /\ primed' => Shows(Shown(w, wire').book, a.levels, Range(todo'[c]) \cup X)
  <2>1. Range(s.jobs) = {Publish(m)} \cup Range(r)
    BY <1>10, JobTypes, ItemsFirst
  <2>2. todo'[c] = r
    BY <1>0, <1>1, <1>10
  <2>3. Truthful(v, r)
    BY <1>6, <2>1 DEF Truthful
  <2>4. Shown(w, wire').book = IF m.channel = "book" THEN After(b, m)
                               ELSE IF m.channel = "book:snapshot" THEN m.levels ELSE b
    BY <1>1, <1>10, ShownSent DEF b
  <2>5. primed => Shows(b, v.levels, {Publish(m)} \cup (Range(r) \cup X))
    <3>1. Range(s.jobs) \cup X = {Publish(m)} \cup (Range(r) \cup X)
      BY <2>1
    <3> QED BY <1>a, <3>1
  <2>6. ASSUME primed' PROVE Shows(Shown(w, wire').book, v.levels, Range(r) \cup X)
    <3>1. CASE m.channel = "book"
      <4>1. m \in BookDeltas /\ m.qty = QtyIn(v.levels, m.side, m.price) /\ primed
        BY <1>6, <1>10, <2>1, <2>6, <3>1, MessageChannels DEF Truthful
      <4>2. Shows(After(b, m), v.levels, Range(r) \cup X)
        BY <2>5, <4>1, DeltaShown
      <4> QED BY <2>4, <3>1, <4>2
    <3>2. CASE m.channel = "book:snapshot"
      <4>1. m = SnapshotOf(v)
        BY <1>6, <2>1, <3>2 DEF Truthful
      <4>2. m.levels = Snapshot(v, SnapshotLevels)
        BY <4>1 DEF SnapshotOf
      <4>3. \A s1 \in Sides : Cardinality(DOMAIN v.levels[s1]) <= SnapshotLevels
        BY <1>7 DEF Shallow, v
      <4>4. v \in Views /\ v.levels \in Depths
        BY <1>7 DEF v, Views
      <4>5. m.levels = v.levels
        BY <4>2, <4>3, <4>4, WholeSnapshot, LoggedAssumption
      <4>6. Shows(v.levels, v.levels, Range(r) \cup X)
        BY <4>4, ShowsAll
      <4> QED BY <2>4, <3>2, <4>5, <4>6
    <3>3. CASE m.channel \notin {"book", "book:snapshot"}
      <4>1. primed /\ Shown(w, wire').book = b
        BY <1>10, <2>4, <2>6, <3>3
      <4>2. \A k \in BookDeltas : Publish(k) \in {Publish(m)} \cup (Range(r) \cup X) =>
                                    Publish(k) \in Range(r) \cup X
        <5>1. \A k \in BookDeltas : k.channel = "book"
          BY DEF BookDeltas
        <5>2. \A k \in BookDeltas : Publish(k) # Publish(m)
          BY <3>3, <5>1, PublishLaws
        <5> QED BY <5>2
      <4>3. Shows(b, v.levels, Range(r) \cup X)
        BY <2>5, <4>1, <4>2, ShowsMore
      <4> QED BY <4>1, <4>3
    <3> QED BY <3>1, <3>2, <3>3
  <2> QED BY <1>b, <2>2, <2>3, <2>6
<1>11. /\ Truthful(a, todo'[c])
       /\ primed' => Shows(Shown(w, wire').book, a.levels, Range(todo'[c]) \cup X)
  <2>1. CASE s.jobs = << >> /\ todo' = [todo EXCEPT ![c] = << >>] /\ wire' = before /\ primed' = primed
    <3>1. todo'[c] = s.jobs
      BY <1>0, <1>1, <2>1
    <3>2. primed' => Shows(Shown(w, wire').book, a.levels, Range(todo'[c]) \cup X)
      BY <1>a, <1>b, <2>1, <3>1 DEF b
    <3>3. Truthful(a, todo'[c])
      BY <1>6, <1>b, <3>1
    <3> QED BY <3>2, <3>3
  <2> QED BY <1>3, <1>10, <2>1 DEF Sent
<1> QED BY <1>8, <1>9, <1>11 DEF a

(* What the consumer has still to publish is true, and what the screen is  *)
(* going to show differs from the view only where a delta is to come.      *)
DepthInv ==
  /\ Truthful(proj.l2, todo[Consumer])
  /\ primed => Shows(Shown(screen, wire).book, proj.l2.levels, Range(todo[Consumer]))

LEMMA DepthRun ==
  ASSUME MTypes, DepthInv, Shallow', NEW c, NEW i, NEW p, NEW jobs, NEW before,
         Runs(c, i, p, jobs, before), Truthful(p.l2, jobs), p.l2 = proj.l2,
         IsScreen(screen'), Shown(screen', before) = Shown(screen, wire),
         c # Consumer \/ jobs = todo[c] \/ todo[Consumer] = << >>
  PROVE  DepthInv'
<1> DEFINE w == screen'  X == IF c = Consumer THEN {} ELSE Range(todo[Consumer])
           b == Shown(screen, wire).book
<1>1. primed => Shows(b, p.l2.levels, Range(jobs) \cup X)
  <2>1. Range(todo[Consumer]) \subseteq Range(jobs) \cup X
    <3>1. todo[Consumer] = << >> => Range(todo[Consumer]) = {}
      BY ItemsOne
    <3> QED BY <3>1
  <2>2. primed => Shows(b, p.l2.levels, Range(todo[Consumer]))
    BY DEF DepthInv
  <2> HIDE DEF X, b
  <2> QED BY <2>1, <2>2, ShowsMore
<1>2. primed => Shows(Shown(w, before).book, p.l2.levels, Range(jobs) \cup X)
  BY <1>1
<1>3. IsScreen(w)
  OBVIOUS
<1> DEFINE n == Shown(w, wire').book  v == proj'.l2  left == todo'[Consumer]
<1>4. /\ Truthful(v, todo'[c])
      /\ primed' => Shows(n, v.levels, Range(todo'[c]) \cup X)
      /\ c # Consumer => v = p.l2
      /\ \A d \in Coroutines \ {c} : todo'[d] = todo[d]
  <2> HIDE DEF w, X
  <2> QED BY <1>2, <1>3, RunTells
<1>5. c \in Coroutines /\ Consumer \in Coroutines /\ i \in Nat
  BY DEF Runs, Coroutines
<1>6. CASE c = Consumer
  <2>1. X = {} /\ todo'[c] = left
    BY <1>6
  <2>2. Truthful(v, left) /\ (primed' => Shows(n, v.levels, Range(left)))
    BY <1>4, <2>1
  <2> QED BY <2>2 DEF DepthInv
<1>7. CASE c # Consumer
  <2>1. left = todo[Consumer] /\ X = Range(left) /\ v = proj.l2
    BY <1>4, <1>5, <1>7
  <2>2. Due(c, i, todo'[c])
    BY RunTypes DEF MTypes, JobsOK, Runs
  <2>3. \A m \in BookDeltas : Publish(m) \notin Range(todo'[c])
    <3>1. \A m : Publish(m) \in Range(todo'[c]) => m \in Own(c)
      BY <1>5, <2>2, NotPublished
    <3>2. \A m \in BookDeltas : m \notin Own(c)
      BY <1>7 DEF BookDeltas, Own, CandleMessages
    <3> QED BY <3>1, <3>2
  <2>4. Truthful(v, left)
    BY <2>1 DEF DepthInv
  <2>5. primed' => Shows(n, v.levels, Range(left))
    <3> HIDE DEF n, v, left
    <3>1. \A m \in BookDeltas : Publish(m) \in Range(todo'[c]) \cup X => Publish(m) \in Range(left)
      BY <2>1, <2>3
    <3> QED BY <1>4, <3>1, ShowsMore
  <2> QED BY <2>4, <2>5 DEF DepthInv
<1> QED BY <1>6, <1>7

LEMMA DepthKept ==
  ASSUME DepthInv, UNCHANGED <<proj, todo, wire, screen, primed>>
  PROVE  DepthInv'
BY DEF DepthInv

LEMMA DepthStep == MTypes /\ DepthInv /\ Shallow' /\ [MDNext]_mdVars => DepthInv'
<1> SUFFICES ASSUME MTypes, DepthInv, Shallow', [MDNext]_mdVars PROVE DepthInv'
  OBVIOUS
<1>0. MTypes'
  BY MTypesStep
<1>a. IsScreen(screen') /\ IsScreen(screen)
  BY <1>0 DEF MTypes
<1>b. \A x : Range(<<x>>) = {x} /\ Range(<< >>) = {}
  BY ItemsOne
<1>c. \A d \in Coroutines \ {Consumer} : \A v : Truthful(v, todo[d])
  <2> SUFFICES ASSUME NEW d \in Coroutines \ {Consumer}, NEW v PROVE Truthful(v, todo[d])
    OBVIOUS
  <2>1. Due(d, cursor, todo[d]) /\ cursor \in Nat
    BY DEF MTypes, JobsOK, ConsumerInv, ConsumerTypeOK
  <2>2. \A m : Publish(m) \in Range(todo[d]) => m \in CandleMessages
    BY <2>1, NotPublished DEF Own
  <2>3. \A m : Publish(m) \in Range(todo[d]) => m.channel \notin {"book", "book:snapshot"}
    BY <2>2 DEF CandleMessages
  <2> QED BY <2>3, SilentList
<1>1. CASE Land
  <2> DEFINE c == wire[1].from  jobs == todo[c]
  <2>1. wire # << >> /\ Runs(c, cursor, proj, jobs, Tail(wire))
    BY <1>1, LandRuns
  <2>2. screen' = Receive(screen, wire[1].msg)
    BY <1>1 DEF Land
  <2>3. Shown(screen', Tail(wire)) = Shown(screen, wire)
    BY <2>1, <2>2, ShownLanded
  <2>4. c \in Coroutines /\ jobs = todo[c]
    BY <2>1 DEF Runs
  <2> HIDE DEF c, jobs
  <2>5. Truthful(proj.l2, jobs)
    BY <1>c, <2>4 DEF DepthInv
  <2> QED BY <1>a, <2>1, <2>3, <2>4, <2>5, DepthRun
<1>2. CASE FetchPage
  BY <1>2, DepthKept DEF FetchPage, serviceVars
<1>3. CASE Consume
  <2>1. screen' = screen
    BY <1>3 DEF Consume
  <2>2. todo[Consumer] = << >> /\ Runs(Consumer, cursor', proj, ConsumeJobs, wire)
        /\ cursor' \in Nat
    BY <1>3, ConsumeRuns DEF Runs
  <2>3. Truthful(proj.l2, ConsumeJobs)
    <3> DEFINE j == cursor'  a == <<JobOn("apply", j)>>
    <3>1. ConsumeJobs = a \/ ConsumeJobs = <<Job("snapshot")>> \o a
      BY <1>3, ConsumeRuns
    <3>2. a \in Seq(AllJobs) /\ Range(a) = {JobOn("apply", j)} /\ Job("snapshot") \in AllJobs
      BY <1>b, <2>2, JobTypes, Singles
    <3> HIDE DEF a
    <3>3. Range(<<Job("snapshot")>> \o a) = {Job("snapshot"), JobOn("apply", j)}
      BY <3>2, ItemsFirst
    <3>4. Range(ConsumeJobs) \subseteq {Job("snapshot"), JobOn("apply", j)}
      BY <3>1, <3>2, <3>3
    <3>5. \A m : Publish(m) \notin {Job("snapshot"), JobOn("apply", j)}
      BY PublishLaws
    <3> QED BY <3>4, <3>5, SilentList
  <2> QED BY <1>a, <2>1, <2>2, <2>3, DepthRun
<1>4. CASE CandleTimer
  <2> DEFINE c == <<"timer", clock>>  jobs == IF EventsOfTick = << >> THEN << >> ELSE TickJobs
             p == TickedProj
  <2>1. screen' = screen
    BY <1>4 DEF CandleTimer
  <2>2. EventsOfTick \in Seq(CandleMessages) /\ Runs(c, cursor, p, jobs, wire)
    BY <1>4, CandleTimerRuns
  <2>3. p.l2 = proj.l2 /\ c # Consumer
    BY DEF TickedProj, Consumer
  <2>4. \A m : Publish(m) \in Range(jobs) => m.channel = "candles"
    <3>1. CASE EventsOfTick = << >>
      BY <1>b, <3>1
    <3>2. CASE EventsOfTick # << >>
      <4> DEFINE ps == PublishAll(EventsOfTick)  q == <<Job("ticker")>>
      <4>1. ps \in Seq(Publications(CandleMessages)) /\ jobs = ps \o q
        BY <2>2, <3>2, PublishAllType DEF TickJobs
      <4> HIDE DEF ps, c, jobs
      <4>2. q \in Seq(AllJobs) /\ Range(q) = {Job("ticker")}
        BY <1>b, JobTypes, Singles
      <4> HIDE DEF q
      <4>3. ps \in Seq(AllJobs) /\ Range(ps) \subseteq Publications(CandleMessages)
        <5>1. Publications(CandleMessages) \subseteq AllJobs
          BY DEF Publications, AllJobs, Messages
        <5> QED BY <4>1, <5>1, SeqMonotonic, ItemsIn
      <4>4. Range(jobs) = Range(ps) \cup {Job("ticker")}
        BY <4>1, <4>2, <4>3, RangeConcatenation
      <4>5. \A x \in Publications(CandleMessages) : x.msg.channel = "candles"
        BY DEF Publications, CandleMessages
      <4> QED BY <4>3, <4>4, <4>5, PublishLaws
    <3> QED BY <3>1, <3>2
  <2> HIDE DEF c, jobs, p
  <2>5. Truthful(p.l2, jobs)
    BY <2>4, SilentList
  <2> QED BY <1>a, <2>1, <2>2, <2>3, <2>5, DepthRun
<1>5. CASE SnapshotTimer
  <2> DEFINE c == Snapshots  x == Job("snapshot")
  <2>1. screen' = screen
    BY <1>5 DEF SnapshotTimer
  <2>2. Runs(c, cursor, proj, <<x>>, wire) /\ c # Consumer
    BY <1>5, SnapshotTimerRuns DEF Snapshots, Consumer
  <2> HIDE DEF c
  <2>3. Truthful(proj.l2, <<x>>)
    BY <1>b, PublishLaws, SilentList
  <2> QED BY <1>a, <2>1, <2>2, <2>3, DepthRun
<1>6. CASE StartReset
  BY <1>6, DepthKept DEF StartReset
<1>7. CASE Clear
  <2> DEFINE c == Resetter  x == Job("snapshot")  r == <<Job("ticker")>>  p == FreshProjections
             m == SnapshotOf(p.l2)
  <2>1. Runs(c, 0, p, <<x>> \o r, wire) /\ todo[Consumer] = << >> /\ screen' = screen
    BY <1>7, ClearRuns DEF Clear
  <2>2. r \in Seq(AllJobs)
    BY JobTypes, Singles
  <2>3. c # Consumer /\ Consumer \in Coroutines /\ c \in Coroutines
    BY DEF Resetter, Consumer, Coroutines
  <2> HIDE DEF c, p, r
  <2>4. /\ \A d \in Coroutines \ {c} : todo'[d] = todo[d]
        /\ proj' = p /\ wire' = Append(wire, [from |-> c, msg |-> m]) /\ m \in Messages
    <3> DEFINE jobs == <<x>> \o r
    <3>1. Runs(c, 0, p, jobs, wire) /\ jobs = <<Job("snapshot")>> \o r
      BY <2>1
    <3> HIDE DEF jobs
    <3>2. \A d \in Coroutines \ {c} : todo'[d] = todo[d]
      BY <3>1, RunShort
    <3>3. \A q \in Seq(AllJobs) : jobs = <<Job("snapshot")>> \o q =>
            /\ todo'[c] = q /\ proj' = p /\ late' = late
            /\ primed' = (primed \/ TRUE)
            /\ wire' = Append(wire, [from |-> c, msg |-> SnapshotOf(p.l2)])
            /\ SnapshotOf(p.l2) \in Messages
      BY <3>1, RunShort
    <3> QED BY <2>2, <3>1, <3>2, <3>3
  <2>5. todo'[Consumer] = << >>
    BY <2>1, <2>3, <2>4
  <2>6. \A v : Truthful(v, << >>)
    BY <1>b, SilentList
  <2>7. wire \in Seq(Wires) /\ m.channel = "book:snapshot" /\ m.levels = Snapshot(p.l2, SnapshotLevels)
    BY DEF MTypes, SnapshotOf
  <2> HIDE DEF m
  <2>8. Shown(screen, wire').book = m.levels
    BY <1>a, <2>3, <2>4, <2>7, ShownSent
  <2>9. m.levels = p.l2.levels /\ p.l2.levels \in Depths
    <3>1. \A s \in Sides : Cardinality(DOMAIN p.l2.levels[s]) <= SnapshotLevels
      BY <2>4 DEF Shallow
    <3>2. p.l2 \in Views /\ p.l2.levels \in Depths
      BY FreshTypes DEF p, Projections, Views
    <3> QED BY <2>7, <3>1, <3>2, WholeSnapshot, LoggedAssumption
  <2>10. Shows(Shown(screen', wire').book, proj'.l2.levels, Range(todo'[Consumer]))
    <3>1. Shows(p.l2.levels, p.l2.levels, Range(todo'[Consumer]))
      BY <2>9, ShowsAll
    <3> QED BY <2>1, <2>4, <2>8, <2>9, <3>1
  <2>11. Truthful(proj'.l2, todo'[Consumer])
    BY <2>5, <2>6
  <2> QED BY <2>10, <2>11 DEF DepthInv
<1>8. CASE EndReset
  BY <1>8, DepthKept DEF EndReset
<1>9. CASE Die
  <2>1. primed' = FALSE /\ todo'[Consumer] = << >>
    BY <1>9 DEF Die, Coroutines
  <2>2. Truthful(proj'.l2, << >>)
    BY <1>b, SilentList
  <2> QED BY <2>1, <2>2 DEF DepthInv
<1>10. CASE EngineLogs
  BY <1>10, DepthKept DEF EngineLogs, serviceVars
<1>11. CASE EngineResets
  BY <1>11, DepthKept DEF EngineResets, serviceVars
<1>12. CASE Advance
  BY <1>12, DepthKept DEF Advance
<1>13. CASE UNCHANGED mdVars
  BY <1>13, DepthKept DEF mdVars, serviceVars
<1> QED BY <1>1, <1>2, <1>3, <1>4, <1>5, <1>6, <1>7, <1>8, <1>9, <1>10, <1>11, <1>12, <1>13
    DEF MDNext

LEMMA ShownJoined ==
  ASSUME NEW S, NEW w, NEW s \in Seq(S), NEW u \in Seq(S)
  PROVE  Shown(w, s \o u) = Shown(Shown(w, s), u)
<1> DEFINE v == Shown(w, s)
           P == {n \in Nat : \A t \in Seq(S) : Len(t) = n => Shown(w, s \o t) = Shown(v, t)}
<1>a. \A t \in Seq(S) : \A e \in S : Shown(w, Append(t, e)) = Arrive(Shown(w, t), e)
  BY ShownNext
<1>b. /\ Shown(v, << >>) = v
      /\ \A t \in Seq(S) : \A e \in S : Shown(v, Append(t, e)) = Arrive(Shown(v, t), e)
  <2> HIDE DEF v
  <2> QED BY ShownNone, ShownNext
<1>c. v = Shown(w, s)
  OBVIOUS
<1> HIDE DEF v
<1>1. 0 \in P
  <2> SUFFICES ASSUME NEW t \in Seq(S), Len(t) = 0 PROVE Shown(w, s \o t) = Shown(v, t)
    OBVIOUS
  <2>1. t = << >> /\ s \o << >> = s
    BY EmptySeq, ConcatEmptySeq
  <2> QED BY <1>b, <1>c, <2>1
<1>2. ASSUME NEW n \in Nat, n \in P PROVE n + 1 \in P
  <2> SUFFICES ASSUME NEW t \in Seq(S), Len(t) = n + 1 PROVE Shown(w, s \o t) = Shown(v, t)
    OBVIOUS
  <2>1. PICK x \in S, r \in Seq(S) : t = Append(r, x) /\ Len(r) = n
    <3>1. t # << >>
      BY EmptySeq
    <3>2. \E r \in Seq(S), x \in S : t = Append(r, x)
      BY <3>1, SequenceEmptyOrAppend
    <3> QED BY <3>2
  <2>2. s \o r \in Seq(S) /\ s \o t = Append(s \o r, x)
    BY <2>1
  <2>3. Shown(w, s \o r) = Shown(v, r)
    BY <1>2, <2>1
  <2>4. Shown(w, Append(s \o r, x)) = Arrive(Shown(w, s \o r), x)
    BY <1>a, <2>1, <2>2
  <2>5. Shown(v, Append(r, x)) = Arrive(Shown(v, r), x)
    BY <1>b, <2>1
  <2> QED BY <2>1, <2>2, <2>3, <2>4, <2>5
<1>3. Nat \subseteq P
  <2> HIDE DEF P
  <2> QED BY <1>1, <1>2, Induction
<1>4. Len(u) \in P
  BY <1>3, LenProperties
<1> QED BY <1>4, <1>c

(* What the consumer can have left to do. *)
Leftovers == Publications(BookDeltas \cup CandleMessages) \cup {x \in AllJobs : x.do # "publish"}

LEMMA LeftoverArrives ==
  ASSUME NEW x \in Leftovers, NEW w
  PROVE  \/ Arrive(w, x) = w /\ \A m : Publish(m) # x
         \/ \E m \in BookDeltas \cup CandleMessages : x = Publish(m) /\ Arrive(w, x) = Receive(w, m)
<1>1. CASE x \in Publications(BookDeltas \cup CandleMessages)
  <2>1. x.msg \in BookDeltas \cup CandleMessages /\ x = Publish(x.msg) /\ "msg" \in DOMAIN x
    BY <1>1 DEF Publications, Publish
  <2>2. Arrive(w, x) = Receive(w, x.msg)
    BY <2>1 DEF Arrive
  <2> QED BY <2>1, <2>2
<1>2. CASE x \in AllJobs /\ x.do # "publish"
  <2>1. x \in [do : {"apply", "trade", "candles"}, at : Nat] \/ x = Job("ticker") \/ x = Job("snapshot")
    BY <1>2 DEF AllJobs, Publications
  <2>2. "msg" \notin DOMAIN x
    <3>1. CASE x \in [do : {"apply", "trade", "candles"}, at : Nat]
      BY <3>1
    <3>2. CASE x = Job("ticker") \/ x = Job("snapshot")
      BY <3>2 DEF Job
    <3> QED BY <2>1, <3>1, <3>2
  <2>3. \A m : Publish(m) # x
    BY <1>2, PublishLaws
  <2> QED BY <2>2, <2>3 DEF Arrive
<1> QED BY <1>1, <1>2 DEF Leftovers

(* When what is left has been published and has arrived, the book on the   *)
(* screen is the view.                                                     *)
LEMMA LeftoversShown ==
  ASSUME NEW v \in Views, NEW u \in Seq(AllJobs), Range(u) \subseteq Leftovers, Truthful(v, u),
         NEW w, IsScreen(w), Shows(w.book, v.levels, Range(u))
  PROVE  Shown(w, u).book = v.levels
<1> DEFINE Good(y, t) ==
             /\ Range(t) \subseteq Leftovers /\ Truthful(v, t)
             /\ IsScreen(y) /\ Shows(y.book, v.levels, Range(t))
           P == {n \in Nat : \A t \in Seq(AllJobs) : \A y :
                   Len(t) = n /\ Good(y, t) => Shown(y, t).book = v.levels}
<1>1. 0 \in P
  <2> SUFFICES ASSUME NEW t \in Seq(AllJobs), NEW y, Len(t) = 0, Good(y, t)
               PROVE  Shown(y, t).book = v.levels
    OBVIOUS
  <2>1. t = << >> /\ Range(t) = {}
    BY EmptySeq, ItemsOne
  <2>2. y.book \in Depths /\ v.levels \in Depths
    BY DEF Shows, Views
  <2>3. \A side \in Sides : \A price \in Nat : QtyIn(y.book, side, price) = QtyIn(v.levels, side, price)
    BY <2>1 DEF Shows
  <2>4. y.book = v.levels
    BY <2>2, <2>3, SameDepth
  <2> QED BY <2>1, <2>4, ShownNone
<1>2. ASSUME NEW n \in Nat, n \in P PROVE n + 1 \in P
  <2> SUFFICES ASSUME NEW t \in Seq(AllJobs), NEW y, Len(t) = n + 1, Good(y, t)
               PROVE  Shown(y, t).book = v.levels
    OBVIOUS
  <2>1. PICK x \in AllJobs, r \in Seq(AllJobs) : t = <<x>> \o r /\ Len(r) = n
    <3> DEFINE x == Head(t)  r == Tail(t)
    <3>1. x \in AllJobs /\ r \in Seq(AllJobs) /\ Len(r) = n /\ t # << >>
      BY EmptySeq, HeadTailProperties
    <3>2. t = <<x>> \o r
      <4>1. << >> \in Seq(AllJobs)
        OBVIOUS
      <4>2. t \o << >> = <<Head(t)>> \o (Tail(t) \o << >>)
        BY <3>1, <4>1, SequencesJoined
      <4>3. t \o << >> = t /\ r \o << >> = r
        BY <3>1, ConcatEmptySeq
      <4> QED BY <4>2, <4>3
    <3> QED BY <3>1, <3>2
  <2>2. Range(t) = {x} \cup Range(r)
    BY <2>1, ItemsFirst
  <2>3. x \in Leftovers /\ Range(r) \subseteq Leftovers
    BY <2>2
  <2>4. Truthful(v, r) /\ Truthful(v, t) /\ IsScreen(y) /\ Shows(y.book, v.levels, {x} \cup Range(r))
    BY <2>2 DEF Truthful
  <2>5. Shown(y, t) = Shown(Arrive(y, x), r)
    BY <2>1, ShownFirst
  <2>6. IsScreen(Arrive(y, x)) /\ Shows(Arrive(y, x).book, v.levels, Range(r))
    <3>1. CASE Arrive(y, x) = y /\ \A m : Publish(m) # x
      <4>1. \A m \in BookDeltas : Publish(m) \in {x} \cup Range(r) => Publish(m) \in Range(r)
        BY <3>1
      <4>2. Shows(y.book, v.levels, Range(r))
        BY <2>4, <4>1, ShowsMore
      <4> QED BY <2>4, <3>1, <4>2
    <3>2. ASSUME NEW m \in BookDeltas \cup CandleMessages, x = Publish(m), Arrive(y, x) = Receive(y, m)
          PROVE  IsScreen(Arrive(y, x)) /\ Shows(Arrive(y, x).book, v.levels, Range(r))
      <4>1. m \in Messages /\ m.channel \in {"book", "candles"}
        BY DEF Messages, BookDeltas, CandleMessages
      <4>2. /\ IsScreen(Receive(y, m))
            /\ Receive(y, m).book = IF m.channel = "book" THEN After(y.book, m) ELSE y.book
        BY <2>4, <4>1, ReceiveLaws
      <4>3. CASE m.channel = "book"
        <5>1. m \in BookDeltas /\ m.qty = QtyIn(v.levels, m.side, m.price)
          BY <2>2, <2>4, <3>2, <4>1, <4>3, MessageChannels DEF Truthful
        <5>2. Shows(After(y.book, m), v.levels, Range(r))
          BY <2>4, <3>2, <5>1, DeltaShown
        <5> QED BY <3>2, <4>2, <4>3, <5>2
      <4>4. CASE m.channel # "book"
        <5>1. \A k \in BookDeltas : k.channel = "book"
          BY DEF BookDeltas
        <5>2. \A k \in BookDeltas : Publish(k) \in {x} \cup Range(r) => Publish(k) \in Range(r)
          BY <3>2, <4>4, <5>1, PublishLaws
        <5>3. Shows(y.book, v.levels, Range(r))
          BY <2>4, <5>2, ShowsMore
        <5> QED BY <3>2, <4>2, <4>4, <5>3
      <4> QED BY <4>3, <4>4
    <3> QED BY <2>3, <3>1, <3>2, LeftoverArrives
  <2>7. Good(Arrive(y, x), r)
    BY <2>3, <2>4, <2>6
  <2> HIDE DEF Good
  <2> QED BY <1>2, <2>1, <2>5, <2>7
<1>3. Nat \subseteq P
  <2> HIDE DEF P
  <2> QED BY <1>1, <1>2, Induction
<1>4. Len(u) \in P
  BY <1>3, LenProperties
<1> QED BY <1>4

LEMMA DepthInit == MDInit => DepthInv
<1> SUFFICES ASSUME MDInit PROVE DepthInv
  OBVIOUS
<1>1. primed = FALSE /\ todo[Consumer] = << >>
  BY DEF MDInit, Coroutines
<1>2. Truthful(proj.l2, << >>)
  BY ItemsOne, SilentList
<1> QED BY <1>1, <1>2 DEF DepthInv

(* From the first snapshot a process sends, a browser that applies what is *)
(* still under way shows the view the service has, as long as no side has  *)
(* more levels than a snapshot: whatever timers, deltas and resets         *)
(* interleave on the connection (server.ts:32-52, 110-112).                *)
THEOREM FeedIsBook == MDSpec /\ []Shallow => []FeedFollowsBook
<1>1. MTypes /\ DepthInv => FeedFollowsBook
  <2> SUFFICES ASSUME MTypes, DepthInv, primed
               PROVE  Shown(screen, wire \o todo[Consumer]).book = proj.l2.levels
    BY DEF FeedFollowsBook, Shown
  <2> DEFINE S == Wires \cup AllJobs  u == todo[Consumer]  v == proj.l2
  <2>1. wire \in Seq(Wires) /\ IsScreen(screen) /\ proj.l2 \in Views
    BY DEF MTypes, Projections
  <2>2. u \in Seq(AllJobs) /\ Due(Consumer, cursor, u) /\ cursor \in Nat
    BY DEF MTypes, JobsOK, ConsumerInv, ConsumerTypeOK, Coroutines
  <2>3. Truthful(v, u) /\ Shows(Shown(screen, wire).book, v.levels, Range(u))
    BY DEF DepthInv
  <2> HIDE DEF S, u, v
  <2>4. wire \in Seq(S) /\ u \in Seq(S)
    <3>1. Wires \subseteq S /\ AllJobs \subseteq S
      BY DEF S
    <3> QED BY <2>1, <2>2, <3>1, SeqMonotonic
  <2>5. Shown(screen, wire \o u) = Shown(Shown(screen, wire), u)
    BY <2>4, ShownJoined
  <2>6. IsScreen(Shown(screen, wire))
    BY <2>1, ShownIsScreen
  <2>7. Range(u) \subseteq Leftovers
    <3>1. \A x \in Range(u) : x \in Publications(Own(Consumer)) \/ (x.do # "publish" /\ x \in AllJobs)
      BY <2>2, LeftItems
    <3> QED BY <3>1 DEF Leftovers, Own
  <2> DEFINE w == Shown(screen, wire)
  <2>8. v \in Views /\ IsScreen(w) /\ Shows(w.book, v.levels, Range(u))
    BY <2>1, <2>3, <2>6 DEF v
  <2> HIDE DEF w
  <2>9. Shown(w, u).book = v.levels
    BY <2>2, <2>3, <2>7, <2>8, LeftoversShown
  <2> QED BY <2>5, <2>9 DEF u, v, w
<1>2. MDInit => MTypes /\ DepthInv
  BY MTypesInit, DepthInit
<1>3. MTypes /\ DepthInv /\ Shallow' /\ [MDNext]_mdVars => (MTypes /\ DepthInv)'
  BY MTypesStep, DepthStep
<1> QED BY <1>1, <1>2, <1>3, PTL DEF MDSpec
-----------------------------------------------------------------------------
(* The candles. *)

(* Each bar ends where the next begins, and the last of them at end.       *)
Chained(bars, n, end) ==
  \A k \in 1..Len(bars) :
    /\ bars[k].bucketStart < end
    /\ bars[k].bucketStart + n = IF k = Len(bars) THEN end ELSE bars[k + 1].bucketStart

BarsInOrder(g, n) ==
  /\ g.current = NoBar => g.history = << >>
  /\ g.current # NoBar => /\ \E q \in Nat : g.current.bucketStart = q * n
                          /\ Chained(g.history, n, g.current.bucketStart)

LEMMA Multiples ==
  ASSUME NEW n \in Nat \ {0}, NEW q \in Nat, NEW r \in Nat, q * n < r * n
  PROVE  LET flat == (r * n - q * n) \div n - 1
         IN /\ flat \in Nat
            /\ \A i \in 0..flat :
                 /\ q * n + i * n \in Nat /\ q * n + i * n < r * n
                 /\ q * n + i * n + n = IF i = flat THEN r * n ELSE q * n + (i + 1) * n
<1> DEFINE d == r - q  x == r * n - q * n  e == x \div n
<1>1. d \in Nat \ {0} /\ x = n * d
  <2>1. n * q < n * r
    OBVIOUS
  <2>2. q < r
    BY <2>1
  <2>3. n * (r - q) = n * r - n * q
    OBVIOUS
  <2> QED BY <2>2, <2>3
<1> HIDE DEF d
<1>2. x \in Nat
  BY <1>1
<1> HIDE DEF x
<1>3. e \in Nat /\ n * e <= n * d /\ n * d < n * e + n
  BY <1>1, <1>2
<1> HIDE DEF e
<1>4. e = d
  <2>1. n * d < n * (e + 1)
    BY <1>1, <1>3
  <2>2. d < e + 1
    BY <1>1, <1>3, <2>1
  <2>3. n * e < n * (d + 1)
    BY <1>1, <1>3
  <2>4. e < d + 1
    BY <1>1, <1>3, <2>3
  <2> QED BY <1>1, <1>3, <2>2, <2>4
<1> DEFINE flat == e - 1
<1>5. flat = d - 1
  BY <1>4
<1>6. ASSUME NEW i \in 0..flat
      PROVE  /\ q * n + i * n \in Nat /\ q * n + i * n < r * n
             /\ q * n + i * n + n = IF i = flat THEN r * n ELSE q * n + (i + 1) * n
  <2>1. i \in Nat /\ i <= d - 1
    BY <1>1, <1>5
  <2>2. i * n \in Nat /\ q * n \in Nat
    BY <2>1
  <2>3. (i + 1) * n = i * n + n
    BY <2>1
  <2>4. n * d = n * r - n * q
    BY <1>1 DEF x
  <2>5. n * (i + 1) <= n * d
    <3>1. i + 1 <= d
      BY <1>1, <2>1
    <3> QED BY <1>1, <2>1, <3>1
  <2>6. i = flat => i + 1 = d
    BY <1>1, <1>5, <2>1
  <2>7. n * r = r * n /\ n * q = q * n /\ n * (i + 1) = (i + 1) * n /\ n * d = d * n
    BY <1>1, <2>1
  <2>8. q * n + i * n < r * n
    BY <2>2, <2>3, <2>4, <2>5, <2>7
  <2>9. CASE i = flat
    <3>1. (i + 1) * n = d * n
      BY <2>6, <2>9
    <3> QED BY <2>2, <2>3, <2>4, <2>7, <2>8, <2>9, <3>1
  <2>10. CASE i # flat
    BY <2>2, <2>3, <2>8, <2>10
  <2> QED BY <2>9, <2>10
<1> QED BY <1>1, <1>5, <1>6 DEF flat, e, x

LEMMA ChainJoined ==
  ASSUME NEW B \in Seq(Bar), NEW C \in Seq(Bar), NEW n \in Nat, NEW mid \in Nat, NEW end \in Nat,
         C # << >>, C[1].bucketStart = mid, Chained(B, n, mid), Chained(C, n, end)
  PROVE  Chained(B \o C, n, end)
<1> DEFINE b == Len(B)  c == Len(C)  D == B \o C
<1>1. b \in Nat /\ c \in Nat /\ c # 0
  BY LenProperties, EmptySeq
<1>2. Len(D) = b + c /\ \A k \in 1..(b + c) : D[k] = IF k <= b THEN B[k] ELSE C[k - b]
  BY ConcatProperties
<1>3. mid < end
  BY <1>1 DEF Chained
<1>4. \A k \in 1..b : B[k].bucketStart \in Nat
  <2>1. \A k \in 1..b : B[k] \in Bar
    BY ElementOfSeq
  <2>2. \A x \in Bar : x.bucketStart \in Nat
    BY DEF Bar
  <2> QED BY <2>1, <2>2
<1> SUFFICES ASSUME NEW k \in 1..(b + c)
             PROVE  /\ D[k].bucketStart < end
                    /\ D[k].bucketStart + n = IF k = b + c THEN end ELSE D[k + 1].bucketStart
  BY <1>2 DEF Chained
<1>5. CASE k <= b
  <2>1. k \in 1..b /\ D[k] = B[k] /\ k # b + c /\ k + 1 \in 1..(b + c)
    BY <1>1, <1>2, <1>5
  <2>2. /\ B[k].bucketStart < mid
        /\ B[k].bucketStart + n = IF k = b THEN mid ELSE B[k + 1].bucketStart
    BY <2>1 DEF Chained
  <2>3. D[k + 1] = IF k = b THEN C[1] ELSE B[k + 1]
    BY <1>1, <1>2, <2>1
  <2> QED BY <1>3, <1>4, <2>1, <2>2, <2>3
<1>6. CASE ~(k <= b)
  <2> DEFINE j == k - b
  <2>0. k \in Int /\ k > b /\ k <= b + c /\ b \in Nat /\ c \in Nat
    BY <1>1, <1>6
  <2>1. j \in 1..c /\ D[k] = C[j] /\ (k = b + c <=> j = c)
    <3>1. D[k] = C[j]
      BY <1>2, <1>6
    <3> HIDE DEF b, c, D
    <3>2. j \in 1..c /\ (k = b + c <=> j = c)
      BY <2>0
    <3> QED BY <3>1, <3>2
  <2>2. /\ C[j].bucketStart < end
        /\ C[j].bucketStart + n = IF j = c THEN end ELSE C[j + 1].bucketStart
    BY <2>1 DEF Chained
  <2>3. k # b + c => D[k + 1] = C[j + 1]
    <3>1. k # b + c => k + 1 \in 1..(b + c) /\ ~(k + 1 <= b) /\ (k + 1) - b = j + 1
      BY <1>1, <1>6
    <3> QED BY <1>2, <3>1
  <2> HIDE DEF j, D
  <2> QED BY <2>1, <2>2, <2>3
<1> QED BY <1>5, <1>6

(* The last bars of a chain are one, and among its bars.                   *)
LEMMA ChainLast ==
  ASSUME NEW B \in Seq(Bar), NEW n, NEW end, NEW m \in Nat, Chained(B, n, end)
  PROVE  Chained(LastOf(m, B), n, end) /\ Range(LastOf(m, B)) \subseteq Range(B)
<1> DEFINE L == LastOf(m, B)  b == Len(B)  l == Len(L)
<1>1. L \in Seq(Bar) /\ b \in Nat
  BY LastOfType, LenProperties
<1>2. l \in Nat /\ l <= b /\ \A k \in 1..l : L[k] = B[b - l + k]
  BY <1>1, LastOfType, LenProperties
<1> HIDE DEF L
<1>3. ASSUME NEW k \in 1..l
      PROVE  /\ L[k].bucketStart < end
             /\ L[k].bucketStart + n = IF k = l THEN end ELSE L[k + 1].bucketStart
  <2> DEFINE j == b - l + k
  <2>1. j \in 1..b /\ L[k] = B[j] /\ (j = b <=> k = l)
    BY <1>1, <1>2
  <2>2. k # l => L[k + 1] = B[j + 1]
    <3>1. k # l => k + 1 \in 1..l /\ b - l + (k + 1) = j + 1
      BY <1>1, <1>2
    <3> QED BY <1>2, <3>1
  <2>3. /\ B[j].bucketStart < end
        /\ B[j].bucketStart + n = IF j = b THEN end ELSE B[j + 1].bucketStart
    BY <2>1 DEF Chained
  <2> HIDE DEF j
  <2> QED BY <2>1, <2>2, <2>3
<1>4. Chained(L, n, end)
  BY <1>3 DEF Chained
<1>5. ASSUME NEW k \in 1..l PROVE L[k] \in Range(B)
  <2>1. b - l + k \in 1..b
    BY <1>1, <1>2
  <2>2. DOMAIN B = 1..b
    BY LenProperties
  <2>3. B[b - l + k] \in Range(B)
    BY <2>1, <2>2 DEF Range
  <2> QED BY <1>2, <2>3
<1>6. DOMAIN L = 1..l
  BY <1>1, LenProperties
<1>7. Range(L) \subseteq Range(B)
  BY <1>5, <1>6 DEF Range
<1> QED BY <1>4, <1>7 DEF L

(* What is archived when a trade comes: the bars kept, the live one if its *)
(* time is over, and flat ones up to the bucket of the trade.              *)
LEMMA ArchivedChain ==
  ASSUME NEW g \in Aggregators, NEW n \in Nat \ {0}, NEW ts \in Nat, BarsInOrder(g, n),
         ~TooLate(g, n, ts)
  PROVE  LET all == g.history \o Closes(g, n, ts)
         IN /\ all \in Seq(Bar) /\ Chained(all, n, BucketOf(ts, n))
            /\ \A b \in Range(all) :
                 \/ b \in Range(g.history)
                 \/ b = g.current /\ g.current # NoBar
                 \/ b.volume = 0 /\ b.bucketStart > g.current.bucketStart
            /\ all # << >> => g.current # NoBar
<1> DEFINE bucket == BucketOf(ts, n)  closed == Closes(g, n, ts)  all == g.history \o closed
           cur == g.current.bucketStart
<1>1. g.history \in Seq(Bar) /\ closed \in Seq(Bar) /\ bucket \in Nat
  BY AggregatorTypes, ClosesType, BucketType
<1>2. all \in Seq(Bar) /\ Range(all) = Range(g.history) \cup Range(closed)
  <2> HIDE DEF closed
  <2> QED BY <1>1, ConcatProperties, RangeConcatenation
<1>3. CASE closed = << >>
  <2>1. all = g.history
    BY <1>1, <1>3, ConcatEmptySeq
  <2>2. g.current = NoBar => g.history = << >>
    BY DEF BarsInOrder
  <2>3. g.current # NoBar => cur = bucket
    <3> SUFFICES ASSUME g.current # NoBar PROVE cur = bucket
      OBVIOUS
    <3>1. cur \in Nat /\ g.current \in Bar
      BY AggregatorTypes
    <3>2. ~(bucket < cur)
      BY DEF TooLate
    <3>3. ~(bucket > cur)
      <4> SUFFICES ASSUME bucket > cur PROVE closed # << >>
        BY <1>3
      <4>1. closed = ClosedBars(g.current, bucket, n)
        BY DEF Closes
      <4> HIDE DEF closed, bucket
      <4> QED BY <1>1, <3>1, <4>1, ClosedBarsType
    <3> QED BY <1>1, <3>1, <3>2, <3>3
  <2>4. Chained(all, n, bucket)
    <3>1. CASE g.current = NoBar
      <4>1. all = << >> /\ Len(all) = 0
        BY <2>1, <2>2, <3>1
      <4> HIDE DEF all
      <4> QED BY <4>1 DEF Chained
    <3>2. CASE g.current # NoBar
      <4>1. Chained(g.history, n, cur)
        BY <3>2 DEF BarsInOrder
      <4> QED BY <2>1, <2>3, <3>2, <4>1
    <3> QED BY <3>1, <3>2
  <2> QED BY <1>2, <2>1, <2>2, <2>4
<1>4. CASE closed # << >>
  <2>1. g.current # NoBar /\ bucket > cur /\ closed = ClosedBars(g.current, bucket, n)
    BY <1>4 DEF Closes
  <2>2. g.current \in Bar /\ cur \in Nat /\ g.current.close \in Nat
    BY <2>1, AggregatorTypes
  <2>3. PICK q \in Nat : cur = q * n
    BY <2>1 DEF BarsInOrder
  <2>4. PICK r \in Nat : bucket = r * n
    <3>1. ts \div n \in Nat
      OBVIOUS
    <3> QED BY <3>1 DEF BucketOf
  <2> DEFINE flat == (bucket - cur) \div n - 1
  <2>5. /\ flat \in Nat
        /\ \A i \in 0..flat :
             /\ cur + i * n \in Nat /\ cur + i * n < bucket
             /\ cur + i * n + n = IF i = flat THEN bucket ELSE cur + (i + 1) * n
    <3> HIDE DEF cur, bucket
    <3>1. q * n < r * n
      BY <2>1, <2>3, <2>4
    <3> QED BY <2>3, <2>4, <3>1, Multiples
  <2>6. /\ Len(closed) = flat + 1 /\ closed[1] = g.current
        /\ \A i \in 1..flat : closed[i + 1] = FlatBar(cur + i * n, g.current.close)
    <3>1. flat >= 0
      BY <2>5
    <3>2. bucket > g.current.bucketStart
      BY <2>1
    <3> HIDE DEF closed, bucket
    <3>3. flat >= 0 =>
            /\ Len(ClosedBars(g.current, bucket, n)) = flat + 1
            /\ ClosedBars(g.current, bucket, n)[1] = g.current
            /\ \A i \in 1..flat : ClosedBars(g.current, bucket, n)[i + 1] =
                                   FlatBar(cur + i * n, g.current.close)
      <4>1. ASSUME NEW z \in Bar, bucket > z.bucketStart
            PROVE  LET f == (bucket - z.bucketStart) \div n - 1
                   IN f >= 0 =>
                        /\ Len(ClosedBars(z, bucket, n)) = f + 1
                        /\ ClosedBars(z, bucket, n)[1] = z
                        /\ \A i \in 1..f : ClosedBars(z, bucket, n)[i + 1] =
                                            FlatBar(z.bucketStart + i * n, z.close)
        BY <1>1, <4>1, ClosedBarsType
      <4> QED BY <2>2, <3>2, <4>1, Zenon
    <3> HIDE DEF flat
    <3> QED BY <2>1, <3>1, <3>3
  <2> HIDE DEF flat, closed, bucket
  <2>7. \A i \in 0..flat : closed[i + 1].bucketStart = cur + i * n
    <3> SUFFICES ASSUME NEW i \in 0..flat PROVE closed[i + 1].bucketStart = cur + i * n
      OBVIOUS
    <3>1. CASE i = 0
      BY <2>2, <2>6, <3>1
    <3>2. CASE i # 0
      <4>1. i \in 1..flat
        BY <2>5, <3>2
      <4> DEFINE x == cur + i * n
      <4>2. closed[i + 1] = FlatBar(x, g.current.close) /\ x \in Nat
        BY <2>5, <2>6, <4>1
      <4> HIDE DEF cur, x
      <4>3. FlatBar(x, g.current.close).bucketStart = x
        BY <2>2, <4>2, BarTypes
      <4>4. closed[i + 1].bucketStart = x
        BY <4>2, <4>3
      <4> QED BY <4>4 DEF x
    <3> QED BY <3>1, <3>2
  <2> HIDE DEF cur
  <2>8. Chained(closed, n, bucket)
    <3> SUFFICES ASSUME NEW k \in 1..(flat + 1)
                 PROVE  /\ closed[k].bucketStart < bucket
                        /\ closed[k].bucketStart + n =
                             IF k = flat + 1 THEN bucket ELSE closed[k + 1].bucketStart
      BY <2>6 DEF Chained
    <3> DEFINE i == k - 1
    <3>1. i \in 0..flat /\ i + 1 = k /\ (i = flat <=> k = flat + 1) /\ (i # flat => i + 1 \in 0..flat)
      BY <2>5
    <3> HIDE DEF i
    <3>2. closed[k].bucketStart = cur + i * n
      BY <2>7, <3>1
    <3>3. i # flat => closed[k + 1].bucketStart = cur + (i + 1) * n
      BY <2>7, <3>1
    <3>4. /\ cur + i * n < bucket
          /\ cur + i * n + n = IF i = flat THEN bucket ELSE cur + (i + 1) * n
      BY <2>5, <3>1
    <3> QED BY <3>1, <3>2, <3>3, <3>4
  <2>9. Chained(all, n, bucket)
    <3>1. Chained(g.history, n, cur)
      BY <2>1 DEF BarsInOrder, cur
    <3>2. closed[1].bucketStart = cur /\ n \in Nat
      BY <2>6 DEF cur
    <3> QED BY <1>1, <1>4, <2>2, <2>8, <3>1, <3>2, ChainJoined
  <2>10. \A b \in Range(closed) : b = g.current \/ (b.volume = 0 /\ b.bucketStart > cur)
    <3>1. DOMAIN closed = 1..(flat + 1)
      BY <1>1, <2>6, LenProperties
    <3> SUFFICES ASSUME NEW k \in 1..(flat + 1)
                 PROVE  closed[k] = g.current \/ (closed[k].volume = 0 /\ closed[k].bucketStart > cur)
      BY <3>1 DEF Range
    <3>2. CASE k = 1
      BY <2>6, <3>2
    <3>3. CASE k # 1
      <4> DEFINE i == k - 1
      <4>1. i \in 1..flat /\ i + 1 = k /\ i \in 0..flat
        BY <2>5, <3>3
      <4> HIDE DEF i
      <4>2. closed[k] = FlatBar(cur + i * n, g.current.close) /\ cur + i * n \in Nat
        BY <2>5, <2>6, <4>1
      <4>3. closed[k].volume = 0 /\ closed[k].bucketStart = cur + i * n
        <5>1. \A x, p : FlatBar(x, p).volume = 0 /\ FlatBar(x, p).bucketStart = x
          BY DEF FlatBar, OpenBar
        <5> DEFINE x == cur + i * n  p == g.current.close  e == closed[k]
        <5>2. e = FlatBar(x, p)
          BY <4>2
        <5> HIDE DEF x, p, e
        <5>3. e.volume = 0 /\ e.bucketStart = x
          BY <5>1, <5>2
        <5> QED BY <5>3 DEF x, e
      <4>4. i * n > 0
        BY <4>1
      <4>5. i * n \in Nat
        BY <4>1
      <4>6. cur + i * n > cur
        BY <2>2, <4>4, <4>5
      <4> QED BY <4>3, <4>6
    <3> QED BY <3>2, <3>3
  <2> QED BY <1>2, <2>1, <2>9, <2>10 DEF cur, bucket, closed
<1> QED BY <1>3, <1>4

(* What a trade that is not dropped makes of the live bar and the history. *)
LEMMA OnTradeShape ==
  ASSUME NEW g \in Aggregators, NEW n \in Nat \ {0}, NEW price \in Nat, NEW qty \in Nat,
         NEW ts \in Nat, ~TooLate(g, n, ts)
  PROVE  LET h == OnTrade(g, n, price, qty, ts)
             bucket == BucketOf(ts, n)
         IN /\ h.current \in Bar /\ h.current.bucketStart = bucket
            /\ h.current.volume =
                 IF g.current # NoBar /\ g.current.bucketStart = bucket
                 THEN g.current.volume + qty ELSE qty
            /\ h.history = LastOf(HistoryCapacity, g.history \o Closes(g, n, ts))
<1> DEFINE bucket == BucketOf(ts, n)
           same == g.current # NoBar /\ g.current.bucketStart = bucket
           cur == IF same THEN GrowBar(g.current, price, qty) ELSE OpenBar(bucket, price, qty)
           old == LastOf(HistoryCapacity, g.history \o Closes(g, n, ts))
           h == OnTrade(g, n, price, qty, ts)
<1>1. h.current = cur /\ h.history = old
  <2>1. h = [current |-> cur, history |-> old]
    BY DEF OnTrade, Archive
  <2> HIDE DEF h, cur, old
  <2> QED BY <2>1
<1>2. bucket \in Nat
  BY BucketType
<1>3. CASE same
  <2>1. g.current \in Bar /\ g.current.bucketStart = bucket
    BY <1>3, AggregatorTypes
  <2>2. cur = GrowBar(g.current, price, qty)
    BY <1>3
  <2>3. /\ GrowBar(g.current, price, qty) \in Bar
        /\ GrowBar(g.current, price, qty).bucketStart = g.current.bucketStart
        /\ GrowBar(g.current, price, qty).volume = g.current.volume + qty
    <3>1. ASSUME NEW z \in Bar
          PROVE  /\ GrowBar(z, price, qty) \in Bar
                 /\ GrowBar(z, price, qty).bucketStart = z.bucketStart
                 /\ GrowBar(z, price, qty).volume = z.volume + qty
      BY BarTypes
    <3> QED BY <2>1, <3>1, Zenon
  <2>4. h.current \in Bar /\ h.current.bucketStart = bucket
        /\ h.current.volume = g.current.volume + qty
    <3> HIDE DEF cur, old, h, bucket
    <3> QED BY <1>1, <2>1, <2>2, <2>3
  <2> HIDE DEF h, bucket
  <2> QED BY <1>1, <1>3, <2>4 DEF h, bucket
<1>4. CASE ~same
  <2>1. cur = OpenBar(bucket, price, qty)
    BY <1>4
  <2> HIDE DEF bucket
  <2>2. /\ OpenBar(bucket, price, qty) \in Bar
        /\ OpenBar(bucket, price, qty).bucketStart = bucket
        /\ OpenBar(bucket, price, qty).volume = qty
    BY <1>2 DEF OpenBar, Bar
  <2>3. h.current \in Bar /\ h.current.bucketStart = bucket /\ h.current.volume = qty
    <3> HIDE DEF cur, old, h
    <3> QED BY <1>1, <2>1, <2>2
  <2> HIDE DEF h
  <2> QED BY <1>1, <1>4, <2>3 DEF h, bucket
<1> QED BY <1>3, <1>4

(* The bars stay in order whatever is traded when.                         *)
LEMMA OnTradeOrder ==
  ASSUME NEW g \in Aggregators, NEW n \in Nat \ {0}, NEW price \in Nat, NEW qty \in Nat,
         NEW ts \in Nat, BarsInOrder(g, n)
  PROVE  BarsInOrder(OnTrade(g, n, price, qty, ts), n)
<1> DEFINE h == OnTrade(g, n, price, qty, ts)  all == g.history \o Closes(g, n, ts)
           bucket == BucketOf(ts, n)
<1>1. CASE TooLate(g, n, ts)
  BY <1>1 DEF OnTrade
<1>2. CASE ~TooLate(g, n, ts)
  <2>1. h.current \in Bar /\ h.current.bucketStart = bucket /\ h.history = LastOf(HistoryCapacity, all)
    BY <1>2, OnTradeShape
  <2>2. all \in Seq(Bar) /\ Chained(all, n, bucket)
    BY <1>2, ArchivedChain
  <2>3. \E q \in Nat : bucket = q * n
    <3>1. ts \div n \in Nat
      OBVIOUS
    <3> QED BY <3>1 DEF BucketOf
  <2> HIDE DEF h, all, bucket
  <2>4. Chained(h.history, n, bucket)
    BY <2>1, <2>2, ChainLast, CapacityAssumption
  <2>5. BarsInOrder(h, n)
    BY <2>1, <2>3, <2>4, BarAssumption DEF BarsInOrder
  <2> QED BY <2>5 DEF h
<1> QED BY <1>1, <1>2

(* What was traded, in some entries of a log. *)
Volume(lg, T) == MapThenSumSet(LAMBDA i : lg[i].event.qty, T)

Counts(lg, T) == IsFiniteSet(T) /\ \A i \in T : lg[i].event.qty \in Nat /\ lg[i].ts \in Nat

InBucket(lg, n, T, b) == {i \in T : BucketOf(lg[i].ts, n) = b}

LEMMA VolumeIsSigma ==
  ASSUME NEW lg, NEW S, Counts(lg, S)
  PROVE  Volume(lg, S) = Sigma([i \in S |-> lg[i].event.qty], S)
<1> DEFINE w == [i \in S |-> lg[i].event.qty]
           pick == [T \in SUBSET S |-> CHOOSE x \in T : TRUE]
           Eq(g) == g = [T \in SUBSET S |-> IF T = {} THEN 0
                      ELSE lg[CHOOSE x \in T : TRUE].event.qty + g[T \ {CHOOSE x \in T : TRUE}]]
           g == CHOOSE h : Eq(h)
<1>1. Weighs(w, S) /\ \A i \in S : w[i] = lg[i].event.qty
  BY DEF Weighs, Counts
<1> HIDE DEF w
<1>2. Picks(pick, S) /\ \A T \in SUBSET S : pick[T] = CHOOSE x \in T : TRUE
  BY DEF Picks
<1>3. Volume(lg, S) = g[S]
  BY Zenon DEF Volume, MapThenSumSet, MapThenFoldSet
<1>4. ASSUME NEW h
      PROVE  Eq(h) <=> Recursion(h, w, pick, S)
  <2>1. \A T \in SUBSET S :
          (IF T = {} THEN 0
           ELSE lg[CHOOSE x \in T : TRUE].event.qty + h[T \ {CHOOSE x \in T : TRUE}])
        = IF T = {} THEN 0 ELSE w[pick[T]] + h[T \ {pick[T]}]
    <3> SUFFICES ASSUME NEW T \in SUBSET S, T # {}
                 PROVE  lg[CHOOSE x \in T : TRUE].event.qty + h[T \ {CHOOSE x \in T : TRUE}]
                        = w[pick[T]] + h[T \ {pick[T]}]
      OBVIOUS
    <3>1. pick[T] \in S /\ pick[T] = CHOOSE x \in T : TRUE
      BY <1>2 DEF Picks
    <3>2. w[pick[T]] = lg[CHOOSE x \in T : TRUE].event.qty
      BY <1>1, <3>1
    <3> QED BY <3>1, <3>2
  <2> HIDE DEF pick
  <2> QED BY <2>1 DEF Recursion
<1> HIDE DEF pick
<1>5. Eq(g)
  <2>1. PICK h : Recursion(h, w, pick, S)
    BY <1>1, <1>2, FoldExists
  <2>2. Eq(h)
    BY <1>4, <2>1
  <2> HIDE DEF Eq
  <2> QED BY <2>2
<1>6. Recursion(g, w, pick, S)
  <2> HIDE DEF g, Eq
  <2> QED BY <1>4, <1>5
<1> HIDE DEF g
<1>7. g[S] = Sigma(w, S)
  BY <1>1, <1>2, <1>6, FoldIsSigma
<1> QED BY <1>3, <1>7 DEF w

(* One more trade adds its quantity, and a log that goes on changes none.  *)
LEMMA VolumeLaws ==
  ASSUME NEW lg, NEW S, Counts(lg, S)
  PROVE  /\ Volume(lg, S) \in Nat /\ Volume(lg, {}) = 0
         /\ \A x : x \notin S /\ lg[x].event.qty \in Nat /\ lg[x].ts \in Nat =>
              Volume(lg, S \cup {x}) = Volume(lg, S) + lg[x].event.qty
         /\ \A later : (\A i \in S : later[i] = lg[i]) => Volume(later, S) = Volume(lg, S)
<1> DEFINE w == [i \in S |-> lg[i].event.qty]
<1>1. Weighs(w, S) /\ \A i \in S : w[i] = lg[i].event.qty /\ w[i] \in Nat
  BY DEF Weighs, Counts
<1>2. Volume(lg, S) = Sigma(w, S)
  BY VolumeIsSigma
<1> HIDE DEF w
<1>3. Volume(lg, S) \in Nat
  <2>1. IsFiniteSet(S)
    BY DEF Counts
  <2> QED BY <1>1, <1>2, <2>1, SigmaMonotonic
<1>4. Volume(lg, {}) = 0
  <2> DEFINE v == [i \in {} |-> lg[i].event.qty]
  <2>1. Counts(lg, {}) /\ Weighs(v, {})
    BY FS_EmptySet DEF Counts, Weighs
  <2>2. Volume(lg, {}) = Sigma(v, {})
    BY <2>1, VolumeIsSigma
  <2> HIDE DEF v
  <2> QED BY <2>1, <2>2, SigmaLaws
<1>5. ASSUME NEW x, x \notin S, lg[x].event.qty \in Nat, lg[x].ts \in Nat
      PROVE  Volume(lg, S \cup {x}) = Volume(lg, S) + lg[x].event.qty
  <2> DEFINE U == S \cup {x}  v == [i \in U |-> lg[i].event.qty]
  <2>1. Counts(lg, U)
    BY <1>5, FS_AddElement DEF Counts
  <2>2. Volume(lg, U) = Sigma(v, U)
    BY <2>1, VolumeIsSigma
  <2>3. /\ \A i \in S : v[i] = w[i]
        /\ v[x] = lg[x].event.qty /\ v[x] \in Int
    BY <1>1, <1>5
  <2>4. Weighs(v, S)
    BY <1>1, <2>3 DEF Weighs
  <2> HIDE DEF v
  <2>5. Sigma(v, S) = Sigma(w, S)
    BY <1>1, <2>3, SigmaSame
  <2>6. Sigma(v, S \cup {x}) = v[x] + Sigma(v, S)
    BY <1>5, <2>3, <2>4, SigmaAdd
  <2> QED BY <1>2, <1>3, <1>5, <2>2, <2>3, <2>5, <2>6
<1>6. ASSUME NEW later, \A i \in S : later[i] = lg[i]
      PROVE  Volume(later, S) = Volume(lg, S)
  <2> DEFINE v == [i \in S |-> later[i].event.qty]
  <2>1. Counts(later, S)
    BY <1>6 DEF Counts
  <2>2. Volume(later, S) = Sigma(v, S)
    BY <2>1, VolumeIsSigma
  <2>3. \A i \in S : v[i] = w[i]
    BY <1>1, <1>6
  <2> HIDE DEF v
  <2> QED BY <1>1, <1>2, <2>2, <2>3, SigmaSame
<1> QED BY <1>3, <1>4, <1>5, <1>6

(* The bars count the trades of their time, and no trade is of a later one. *)
Counted(lg, n, g, T) ==
  /\ \A b \in Range(g.history) : b.volume = Volume(lg, InBucket(lg, n, T, b.bucketStart))
  /\ g.current # NoBar => g.current.volume = Volume(lg, InBucket(lg, n, T, g.current.bucketStart))
  /\ \A i \in T : g.current # NoBar /\ BucketOf(lg[i].ts, n) <= g.current.bucketStart

(* U has trades of the bucket that T has not, of this quantity together.   *)
Adds(lg, n, T, U, bucket, qty) ==
  /\ \A b \in Nat : Volume(lg, InBucket(lg, n, U, b)) =
                      Volume(lg, InBucket(lg, n, T, b)) + (IF b = bucket THEN qty ELSE 0)
  /\ \A i \in U : i \in T \/ BucketOf(lg[i].ts, n) = bucket

LEMMA OnTradeCounts ==
  ASSUME NEW g \in Aggregators, NEW n \in Nat \ {0}, NEW price \in Nat, NEW qty \in Nat,
         NEW ts \in Nat, BarsInOrder(g, n), ~TooLate(g, n, ts),
         NEW lg, NEW T, NEW U, Counts(lg, T), Counted(lg, n, g, T),
         Adds(lg, n, T, U, BucketOf(ts, n), qty)
  PROVE  Counted(lg, n, OnTrade(g, n, price, qty, ts), U)
<1> DEFINE h == OnTrade(g, n, price, qty, ts)  all == g.history \o Closes(g, n, ts)
           bucket == BucketOf(ts, n)  V(S, b) == Volume(lg, InBucket(lg, n, S, b))
<1>0. n \in Nat \ {0}
  OBVIOUS
<1>1. /\ h.current \in Bar /\ h.current.bucketStart = bucket
      /\ h.current.volume = IF g.current # NoBar /\ g.current.bucketStart = bucket
                            THEN g.current.volume + qty ELSE qty
      /\ h.history = LastOf(HistoryCapacity, all)
  BY <1>0, OnTradeShape
<1>2. /\ all \in Seq(Bar) /\ Chained(all, n, bucket)
      /\ \A b \in Range(all) :
           \/ b \in Range(g.history)
           \/ b = g.current /\ g.current # NoBar
           \/ b.volume = 0 /\ b.bucketStart > g.current.bucketStart
      /\ all # << >> => g.current # NoBar
  BY <1>0, ArchivedChain
<1>3. bucket \in Nat /\ \A i \in T : BucketOf(lg[i].ts, n) \in Nat
  BY <1>0, BucketType DEF Counts
<1>4. g.current # NoBar => g.current.bucketStart \in Nat /\ g.current.bucketStart <= bucket
                           /\ g.current.volume \in Nat
  <2>1. g.current # NoBar => g.current \in Bar
    BY AggregatorTypes
  <2>2. g.current # NoBar => g.current.bucketStart \in Nat /\ g.current.volume \in Nat
    BY <2>1 DEF Bar
  <2> QED BY <1>3, <2>2 DEF TooLate
<1>5. \A b \in Nat : V(T, b) \in Nat
                     /\ (b # bucket => V(U, b) = V(T, b)) /\ V(U, bucket) = V(T, bucket) + qty
  <2> SUFFICES ASSUME NEW b \in Nat
               PROVE  V(T, b) \in Nat /\ (b # bucket => V(U, b) = V(T, b))
                      /\ V(U, bucket) = V(T, bucket) + qty
    OBVIOUS
  <2>1. Counts(lg, InBucket(lg, n, T, b))
    BY FS_Subset DEF Counts, InBucket
  <2>2. V(T, b) \in Nat
    BY <2>1, VolumeLaws
  <2>3. /\ V(U, b) = V(T, b) + (IF b = bucket THEN qty ELSE 0)
        /\ V(U, bucket) = V(T, bucket) + (IF bucket = bucket THEN qty ELSE 0)
    BY <1>3 DEF Adds
  <2> HIDE DEF V, bucket
  <2> QED BY <2>2, <2>3
<1>6. ASSUME NEW b \in Nat, g.current # NoBar => b > g.current.bucketStart
      PROVE  V(T, b) = 0
  <2>1. \A i \in T : BucketOf(lg[i].ts, n) # b
    BY <1>3, <1>4, <1>6 DEF Counted
  <2>2. InBucket(lg, n, T, b) = {}
    BY <2>1 DEF InBucket
  <2>3. Volume(lg, {}) = 0
    BY VolumeLaws
  <2> QED BY <2>2, <2>3
<1>7. /\ \A b \in Range(g.history) : b.volume = V(T, b.bucketStart)
      /\ g.current # NoBar => g.current.volume = V(T, g.current.bucketStart)
  BY DEF Counted
<1>a. \A i \in U : BucketOf(lg[i].ts, n) <= bucket
  <2> SUFFICES ASSUME NEW i \in U PROVE BucketOf(lg[i].ts, n) <= bucket
    OBVIOUS
  <2>1. CASE i \in T
    <3>1. g.current # NoBar /\ BucketOf(lg[i].ts, n) <= g.current.bucketStart
      BY <2>1 DEF Counted
    <3> QED BY <1>3, <1>4, <2>1, <3>1
  <2>2. CASE BucketOf(lg[i].ts, n) = bucket
    BY <1>3, <2>2
  <2> QED BY <2>1, <2>2 DEF Adds
<1> HIDE DEF h, all, bucket, V
<1>8. ASSUME NEW b \in Range(h.history) PROVE b.volume = V(U, b.bucketStart)
  <2>1. b \in Range(all)
    BY <1>1, <1>2, ChainLast, CapacityAssumption
  <2>2. PICK k \in 1..Len(all) : b = all[k]
    <3>1. DOMAIN all = 1..Len(all)
      BY <1>2, LenProperties
    <3> QED BY <2>1, <3>1 DEF Range
  <2>3. b \in Bar /\ b.bucketStart < bucket
    BY <1>2, <2>2, ElementOfSeq DEF Chained
  <2>4. b.bucketStart \in Nat
    BY <2>3 DEF Bar
  <2>5. V(U, b.bucketStart) = V(T, b.bucketStart)
    <3>1. b.bucketStart # bucket
      BY <1>3, <2>3, <2>4
    <3> QED BY <1>5, <2>4, <3>1
  <2>6. CASE b \in Range(g.history) \/ (b = g.current /\ g.current # NoBar)
    BY <1>7, <2>5, <2>6
  <2>7. CASE b.volume = 0 /\ b.bucketStart > g.current.bucketStart
    <3>1. V(T, b.bucketStart) = 0
      BY <1>6, <2>4, <2>7
    <3> QED BY <2>5, <2>7, <3>1
  <2> QED BY <1>2, <2>1, <2>6, <2>7
<1>9. h.current.volume = V(U, h.current.bucketStart)
  <2>1. CASE g.current # NoBar /\ g.current.bucketStart = bucket
    <3>1. h.current.volume = g.current.volume + qty
      BY <1>1, <2>1
    <3>2. V(U, bucket) = V(T, bucket) + qty
      BY <1>3, <1>5
    <3>3. g.current.volume = V(T, bucket)
      BY <1>7, <2>1
    <3> QED BY <1>1, <3>1, <3>2, <3>3
  <2>2. CASE ~(g.current # NoBar /\ g.current.bucketStart = bucket)
    <3>1. h.current.volume = qty
      BY <1>1, <2>2
    <3>2. g.current # NoBar => bucket > g.current.bucketStart
      BY <1>3, <1>4, <2>2
    <3>3. V(T, bucket) = 0
      BY <1>3, <1>6, <3>2
    <3>4. V(U, bucket) = qty
      BY <1>3, <1>5, <3>3
    <3> QED BY <1>1, <3>1, <3>4
  <2> QED BY <2>1, <2>2
<1>10. h.current # NoBar
  BY <1>1, BarAssumption
<1>11. Counted(lg, n, h, U)
  BY <1>1, <1>8, <1>9, <1>10, <1>a DEF Counted, V
<1> QED BY <1>11 DEF h

(* The bars of every aggregator follow each other, there are some once a   *)
(* trade has been charted, and they count what has been charted in time.   *)
ChartTrue(lg, aggs, charted, missed) ==
  \A n \in Spans :
    /\ BarsInOrder(aggs[n], n) /\ (charted # {} => aggs[n].current # NoBar)
    /\ missed[n] \subseteq charted
    /\ Counted(lg, n, aggs[n], charted \ missed[n])

(* The trades read of the log, and those that wait for their chart.        *)
TradesTo(lg, j) == {k \in 1..j : lg[k].event.kind = "Trade"}

Pending(items) ==
  {k \in Nat : \E kind \in {"apply", "trade", "candles"} : JobOn(kind, k) \in items}

Charted(lg, j, items) == TradesTo(lg, j) \ Pending(items)

(* As long as nothing has been deleted of the stream, the candles are      *)
(* those of all the log that has been read.                                *)
ChartInv ==
  /\ reset # "no" => purged # 0
  /\ purged = 0 =>
       ChartTrue(log, proj.aggs, Charted(log, cursor, Range(todo[Consumer])), late)

LEMMA TradeCounts ==
  ASSUME LogOK, NEW T, T \subseteq Traded
  PROVE  Counts(log, T)
<1>1. Len(log) \in Nat /\ IsFiniteSet(1..Len(log))
  BY LenProperties, FS_Interval DEF LogOK
<1>2. IsFiniteSet(T)
  BY <1>1, FS_Subset DEF Traded
<1> QED BY <1>2, TradedTypes DEF Counts

(* An aggregator that has a bar keeps one, and a trade leaves one.         *)
LEMMA BarKept ==
  ASSUME NEW g \in Aggregators, NEW n \in Nat \ {0}, NEW price \in Nat, NEW qty \in Nat,
         NEW ts \in Nat
  PROVE  OnTrade(g, n, price, qty, ts).current # NoBar
<1>1. CASE TooLate(g, n, ts)
  BY <1>1 DEF OnTrade, TooLate
<1>2. CASE ~TooLate(g, n, ts)
  <2>1. OnTrade(g, n, price, qty, ts).current \in Bar
    BY <1>2, OnTradeShape
  <2> QED BY <2>1, BarAssumption
<1> QED BY <1>1, <1>2

(* A tick closes bars, and counts nothing.                                 *)
LEMMA TickTrue ==
  ASSUME LogOK, NEW aggs \in [Spans -> Aggregators], clock \in Nat,
         NEW D, D \subseteq Traded, NEW l, ChartTrue(log, aggs, D, l)
  PROVE  ChartTrue(log, TickedBy(aggs), D, l)
<1> SUFFICES ASSUME NEW n \in Spans
             PROVE  /\ BarsInOrder(TickedBy(aggs)[n], n)
                    /\ D # {} => TickedBy(aggs)[n].current # NoBar
                    /\ l[n] \subseteq D /\ Counted(log, n, TickedBy(aggs)[n], D \ l[n])
  BY DEF ChartTrue
<1> DEFINE g == aggs[n]  T == D \ l[n]
<1>1. /\ g \in Aggregators /\ BarsInOrder(g, n) /\ (D # {} => g.current # NoBar)
      /\ l[n] \subseteq D /\ Counted(log, n, g, T) /\ n \in Nat \ {0}
  BY SpanTypes DEF ChartTrue
<1>2. TickedBy(aggs)[n] = Tick(g, n, clock)
  BY DEF TickedBy
<1>3. Counts(log, T)
  BY TradeCounts
<1> HIDE DEF g, T
<1>4. CASE Behind(g, n, clock)
  <2>1. /\ Tick(g, n, clock) = OnTrade(g, n, g.current.close, 0, clock)
        /\ g.current.close \in Nat /\ g.current \in Bar
    BY <1>1, <1>4, AggregatorTypes DEF Behind, Tick
  <2>2. ~TooLate(g, n, clock)
    <3>1. BucketOf(clock, n) \in Nat /\ g.current.bucketStart \in Nat
          /\ BucketOf(clock, n) > g.current.bucketStart
      BY <1>1, <1>4, <2>1, BucketType DEF Behind, Bar
    <3> QED BY <3>1 DEF TooLate
  <2>3. Adds(log, n, T, T, BucketOf(clock, n), 0)
    <3>1. \A b \in Nat : Volume(log, InBucket(log, n, T, b)) \in Nat
      <4> SUFFICES ASSUME NEW b \in Nat PROVE Volume(log, InBucket(log, n, T, b)) \in Nat
        OBVIOUS
      <4>1. Counts(log, InBucket(log, n, T, b))
        BY <1>3, FS_Subset DEF Counts, InBucket
      <4> QED BY <4>1, VolumeLaws
    <3> QED BY <3>1 DEF Adds
  <2>4. Counted(log, n, OnTrade(g, n, g.current.close, 0, clock), T)
    BY <1>1, <1>3, <2>1, <2>2, <2>3, OnTradeCounts
  <2>5. /\ BarsInOrder(OnTrade(g, n, g.current.close, 0, clock), n)
        /\ OnTrade(g, n, g.current.close, 0, clock).current # NoBar
    BY <1>1, <2>1, OnTradeOrder, BarKept
  <2> QED BY <1>1, <1>2, <2>1, <2>4, <2>5 DEF T
<1>5. CASE ~Behind(g, n, clock)
  BY <1>1, <1>2, <1>5 DEF Tick, T
<1> QED BY <1>4, <1>5

(* A trade is counted, or missed when its bar is closed.                   *)
LEMMA TradeTrue ==
  ASSUME LogOK, NEW aggs \in [Spans -> Aggregators], NEW i \in Traded,
         NEW D, D \subseteq Traded, i \notin D, NEW l, ChartTrue(log, aggs, D, l)
  PROVE  ChartTrue(log, ChartedBy(aggs, i), D \cup {i}, Dropped(l, aggs, i))
<1> DEFINE E == D \cup {i}  missed == Dropped(l, aggs, i)
<1> SUFFICES ASSUME NEW n \in Spans
             PROVE  /\ BarsInOrder(ChartedBy(aggs, i)[n], n)
                    /\ ChartedBy(aggs, i)[n].current # NoBar
                    /\ missed[n] \subseteq E /\ Counted(log, n, ChartedBy(aggs, i)[n], E \ missed[n])
  BY DEF ChartTrue
<1> DEFINE price == log[i].event.price  qty == log[i].event.qty  ts == log[i].ts
           g == aggs[n]  T == D \ l[n]  U == E \ missed[n]
<1>1. price \in Nat /\ qty \in Nat /\ ts \in Nat
  BY TradedTypes
<1>2. /\ g \in Aggregators /\ BarsInOrder(g, n) /\ l[n] \subseteq D
      /\ Counted(log, n, g, T) /\ n \in Nat \ {0} /\ Counts(log, T)
  BY SpanTypes, TradeCounts DEF ChartTrue
<1>3. ChartedBy(aggs, i)[n] = OnTrade(g, n, price, qty, ts)
  BY DEF ChartedBy
<1>4. missed[n] = l[n] \cup {k \in {i} : TooLate(g, n, ts)}
  BY DEF Dropped
<1>5. /\ missed[n] \subseteq E
      /\ U = IF TooLate(g, n, ts) THEN T ELSE T \cup {i}
      /\ i \notin T
  BY <1>2, <1>4
<1> HIDE DEF E, missed, price, qty, ts, g, T, U
<1>6. BarsInOrder(OnTrade(g, n, price, qty, ts), n) /\ OnTrade(g, n, price, qty, ts).current # NoBar
  BY <1>1, <1>2, OnTradeOrder, BarKept
<1>7. Counted(log, n, OnTrade(g, n, price, qty, ts), U)
  <2>1. CASE TooLate(g, n, ts)
    BY <1>2, <1>5, <2>1 DEF OnTrade
  <2>2. CASE ~TooLate(g, n, ts)
    <3>1. Adds(log, n, T, U, BucketOf(ts, n), qty)
      <4>1. U = T \cup {i} /\ i \notin T
        BY <1>5, <2>2
      <4>2. ts = log[i].ts
        BY DEF ts
      <4> SUFFICES ASSUME NEW b \in Nat
                   PROVE  Volume(log, InBucket(log, n, U, b)) =
                            Volume(log, InBucket(log, n, T, b))
                            + (IF b = BucketOf(ts, n) THEN qty ELSE 0)
        BY <4>1, <4>2 DEF Adds
      <4> DEFINE S == InBucket(log, n, T, b)
      <4>3. Counts(log, S) /\ i \notin S
        BY <1>2, <4>1, FS_Subset DEF Counts, InBucket
      <4>4. InBucket(log, n, U, b) = IF b = BucketOf(ts, n) THEN S \cup {i} ELSE S
        BY <4>1, <4>2 DEF InBucket
      <4> HIDE DEF S
      <4>5. Volume(log, S) \in Nat /\ Volume(log, S \cup {i}) = Volume(log, S) + qty
        BY <1>1, <4>3, VolumeLaws DEF qty, ts
      <4>6. CASE b = BucketOf(ts, n)
        BY <4>4, <4>5, <4>6 DEF S
      <4>7. CASE b # BucketOf(ts, n)
        BY <4>4, <4>5, <4>7 DEF S
      <4> QED BY <4>6, <4>7
    <3> QED BY <1>1, <1>2, <2>2, <3>1, OnTradeCounts
  <2> QED BY <2>1, <2>2
<1> QED BY <1>3, <1>5, <1>6, <1>7 DEF U

(* What waits for its chart in a list.                                     *)
LEMMA PendingLaws ==
  /\ Pending({}) = {}
  /\ \A X, Y : Pending(X \cup Y) = Pending(X) \cup Pending(Y)
  /\ \A X : X \subseteq Publications(Messages) => Pending(X) = {}
  /\ \A m : Pending({Publish(m)}) = {}
  /\ Pending({Job("ticker")}) = {} /\ Pending({Job("snapshot")}) = {}
  /\ \A i \in Nat : \A kind \in {"apply", "trade", "candles"} : Pending({JobOn(kind, i)}) = {i}
<1>1. \A kind, i : JobOn(kind, i).do = kind /\ JobOn(kind, i).at = i
  BY DEF JobOn
<1>2. /\ \A x \in Publications(Messages) : x.do = "publish"
      /\ \A m : Publish(m).do = "publish"
      /\ Job("ticker").do = "ticker" /\ Job("snapshot").do = "snapshot"
  BY DEF Publications, Publish, Job
<1>3. Pending({}) = {} /\ \A X, Y : Pending(X \cup Y) = Pending(X) \cup Pending(Y)
  BY DEF Pending
<1>4. ASSUME NEW X, \A x \in X : x.do \notin {"apply", "trade", "candles"}
      PROVE  Pending(X) = {}
  BY <1>1, <1>4 DEF Pending
<1>5. \A X : X \subseteq Publications(Messages) => Pending(X) = {}
  BY <1>2, <1>4
<1>6. \A m : Pending({Publish(m)}) = {}
  BY <1>2, <1>4
<1>7. Pending({Job("ticker")}) = {} /\ Pending({Job("snapshot")}) = {}
  BY <1>2, <1>4
<1>8. ASSUME NEW i \in Nat, NEW kind \in {"apply", "trade", "candles"}
      PROVE  Pending({JobOn(kind, i)}) = {i}
  <2>1. \A k, j : JobOn(k, j) = JobOn(kind, i) => j = i
    <3> SUFFICES ASSUME NEW k, NEW j, JobOn(k, j) = JobOn(kind, i) PROVE j = i
      OBVIOUS
    <3>1. JobOn(k, j).at = j /\ JobOn(kind, i).at = i
      BY <1>1
    <3> QED BY <3>1
  <2> QED BY <2>1 DEF Pending
<1> QED BY <1>3, <1>5, <1>6, <1>7, <1>8

LEMMA PendingLists ==
  ASSUME NEW i \in Nat
  PROVE  /\ Pending(Range(ChartJobs(i))) = {i} /\ Pending(Range(TradeJobs(i))) = {i}
         /\ Pending(Range(<<JobOn("apply", i)>>)) = {i} /\ Pending(Range(<< >>)) = {}
<1> DEFINE a == JobOn("trade", i)  b == JobOn("candles", i)  d == Job("ticker")
<1>1. Range(ChartJobs(i)) = {b} \cup {d} /\ Range(TradeJobs(i)) = {a} \cup ({b} \cup {d})
  <2>1. Range(ChartJobs(i)) = {b, d} /\ Range(TradeJobs(i)) = {a, b, d}
    BY ListItems
  <2> HIDE DEF a, b, d
  <2> QED BY <2>1
<1>2. Pending({a}) = {i} /\ Pending({b}) = {i} /\ Pending({d}) = {}
  BY PendingLaws
<1> HIDE DEF a, b, d
<1>3. Pending({b} \cup {d}) = {i} /\ Pending({a} \cup ({b} \cup {d})) = {i}
  BY <1>2, PendingLaws
<1>4. Range(<<JobOn("apply", i)>>) = {JobOn("apply", i)} /\ Range(<< >>) = {}
  BY ItemsOne
<1>5. Pending({JobOn("apply", i)}) = {i} /\ Pending({}) = {}
  BY PendingLaws
<1> QED BY <1>1, <1>3, <1>4, <1>5

LEMMA PendingFirst ==
  ASSUME NEW x \in AllJobs, NEW r \in Seq(AllJobs), Pending({x}) = {}
  PROVE  Pending(Range(<<x>> \o r)) = Pending(Range(r))
<1>1. Range(<<x>> \o r) = {x} \cup Range(r)
  BY ItemsFirst
<1>2. Pending({x} \cup Range(r)) = Pending({x}) \cup Pending(Range(r))
  BY PendingLaws
<1> QED BY <1>1, <1>2

(* Publications before a list do not wait.                                 *)
LEMMA PendingAfter ==
  ASSUME NEW M, M \subseteq Messages, NEW ps \in Seq(Publications(M)), NEW r \in Seq(AllJobs)
  PROVE  Pending(Range(ps \o r)) = Pending(Range(r))
<1>1. Publications(M) \subseteq Publications(Messages) /\ Publications(Messages) \subseteq AllJobs
  BY DEF Publications, AllJobs
<1>2. ps \in Seq(AllJobs) /\ Range(ps) \subseteq Publications(Messages)
  <2>1. Range(ps) \subseteq Publications(M)
    BY ItemsIn
  <2>2. ps \in Seq(AllJobs)
    BY <1>1, SeqMonotonic
  <2> QED BY <1>1, <2>1, <2>2
<1>3. Range(ps \o r) = Range(ps) \cup Range(r)
  BY <1>2, RangeConcatenation
<1>4. Pending(Range(ps)) = {}
  BY <1>2, PendingLaws
<1>5. Pending(Range(ps) \cup Range(r)) = Pending(Range(ps)) \cup Pending(Range(r))
  BY PendingLaws
<1> QED BY <1>3, <1>4, <1>5

(* A computation of the consumer keeps the candles true, and no other      *)
(* touches them.                                                           *)
LEMMA StepCharts ==
  ASSUME LogOK, NEW s \in States, NEW c, NEW i \in Nat, i <= Len(log), NEW t, Step(c, i, s, t)
  PROVE  /\ ChartTrue(log, s.proj.aggs, Charted(log, i, Range(s.jobs)), s.late) =>
              ChartTrue(log, t.proj.aggs, Charted(log, i, Range(t.jobs)), t.late)
         /\ c # Consumer => t.proj.aggs = s.proj.aggs /\ t.late = s.late
<1> DEFINE aggs == s.proj.aggs
           Same == /\ Pending(Range(t.jobs)) = Pending(Range(s.jobs))
                   /\ t.proj.aggs = s.proj.aggs /\ t.late = s.late
           Goal == /\ ChartTrue(log, aggs, Charted(log, i, Range(s.jobs)), s.late) =>
                        ChartTrue(log, t.proj.aggs, Charted(log, i, Range(t.jobs)), t.late)
                   /\ c # Consumer => t.proj.aggs = aggs /\ t.late = s.late
<1>0. /\ s.proj.l2 \in Views /\ aggs \in [Spans -> Aggregators]
      /\ Job("ticker") \in AllJobs /\ Job("snapshot") \in AllJobs
      /\ Len(log) \in Nat
  BY StateTypes, JobTypes, LenProperties DEF LogOK
<1>a. Same => Goal
  BY DEF Charted
<1>b. \A j : TradesTo(log, i) \subseteq Traded
  BY <1>0 DEF TradesTo, Traded
<1>1. CASE Ready(c, i, s.jobs) /\ t = s
  BY <1>1, <1>a
<1>2. CASE /\ s.jobs = <<Job("ticker")>>
           /\ t = [proj |-> s.proj, jobs |-> <<Publish(TickerOf(s.proj.aggs[Shortest]))>>,
                   late |-> s.late]
  <2> DEFINE x == Job("ticker")  y == Publish(TickerOf(s.proj.aggs[Shortest]))
  <2>1. Pending({x}) = {} /\ Pending({y}) = {}
    BY PendingLaws
  <2>2. t.jobs = <<y>> /\ s.jobs = <<x>> /\ t.proj.aggs = s.proj.aggs /\ t.late = s.late
    BY <1>2
  <2> HIDE DEF x, y
  <2>3. Range(<<x>>) = {x} /\ Range(<<y>>) = {y}
    BY ItemsOne
  <2>4. Same
    BY <2>1, <2>2, <2>3
  <2> QED BY <1>a, <2>4
<1>3. ASSUME NEW r \in Seq(AllJobs),
             s.jobs = <<Job("snapshot")>> \o r, Due(c, i, r),
             t = [proj |-> s.proj, jobs |-> <<Publish(SnapshotOf(s.proj.l2))>> \o r,
                  late |-> s.late]
      PROVE  Goal
  <2> DEFINE x == Job("snapshot")  m == SnapshotOf(s.proj.l2)
  <2>1. m \in Messages
    BY <1>0, SnapshotType
  <2>2. t.jobs = <<Publish(m)>> \o r /\ s.jobs = <<x>> \o r /\ t.proj.aggs = s.proj.aggs
        /\ t.late = s.late
    BY <1>3
  <2>3. Pending({x}) = {} /\ Pending({Publish(m)}) = {} /\ x \in AllJobs
    BY <1>0, PendingLaws
  <2> HIDE DEF x, m
  <2>4. Publish(m) \in AllJobs
    BY <2>1, JobTypes
  <2>5. Pending(Range(<<x>> \o r)) = Pending(Range(r))
        /\ Pending(Range(<<Publish(m)>> \o r)) = Pending(Range(r))
    BY <2>3, <2>4, PendingFirst
  <2>6. Same
    BY <2>2, <2>5
  <2> QED BY <1>a, <2>6
<1>4. CASE /\ s.jobs = TradeJobs(i) /\ c = Consumer /\ i \in Traded
           /\ t = [proj |-> [l2 |-> s.proj.l2, tape |-> PushTape(s.proj.tape, i),
                             aggs |-> s.proj.aggs],
                   jobs |-> <<Publish(TradeOf(i))>> \o ChartJobs(i), late |-> s.late]
  <2> DEFINE m == TradeOf(i)  r == ChartJobs(i)
  <2>1. m \in Messages
    BY DEF TradeOf, Messages, TradeMessages
  <2>2. r \in Seq(AllJobs) /\ Pending(Range(r)) = {i} /\ Pending(Range(s.jobs)) = {i}
    BY <1>4, ListTypes, PendingLists
  <2>3. t.jobs = <<Publish(m)>> \o r /\ t.proj.aggs = s.proj.aggs /\ t.late = s.late
    BY <1>4
  <2> HIDE DEF m, r
  <2>4. Publish(m) \in AllJobs /\ Pending({Publish(m)}) = {}
    BY <2>1, JobTypes, PendingLaws
  <2>5. Pending(Range(<<Publish(m)>> \o r)) = {i}
    BY <2>2, <2>4, PendingFirst
  <2>6. Same
    BY <2>2, <2>3, <2>5
  <2> QED BY <1>a, <2>6
<1>5. CASE /\ s.jobs = ChartJobs(i) /\ c = Consumer /\ i \in Traded
           /\ t = [proj |-> [l2 |-> s.proj.l2, tape |-> s.proj.tape,
                             aggs |-> ChartedBy(s.proj.aggs, i)],
                   jobs |-> PublishAll(ChartEvents(s.proj.aggs, i)) \o <<Job("ticker")>>,
                   late |-> Dropped(s.late, s.proj.aggs, i)]
  <2> DEFINE ps == PublishAll(ChartEvents(aggs, i))  q == <<Job("ticker")>>
             D == TradesTo(log, i) \ {i}
  <2>1. ps \in Seq(Publications(CandleMessages))
    BY <1>0, <1>5, ChartTypes, PublishAllType
  <2>2. q \in Seq(AllJobs) /\ Pending(Range(q)) = {}
    <3>1. Range(q) = {Job("ticker")}
      BY ItemsOne
    <3> QED BY <1>0, <3>1, Singles, PendingLaws
  <2>3. t.jobs = ps \o q /\ t.proj.aggs = ChartedBy(aggs, i) /\ t.late = Dropped(s.late, aggs, i)
    BY <1>5
  <2>4. CandleMessages \subseteq Messages
    BY DEF Messages
  <2> HIDE DEF ps, q, aggs
  <2>5. Pending(Range(t.jobs)) = {} /\ Pending(Range(s.jobs)) = {i}
    <3>1. Pending(Range(ps \o q)) = Pending(Range(q))
      BY <2>1, <2>2, <2>4, PendingAfter
    <3>2. Pending(Range(ChartJobs(i))) = {i}
      BY PendingLists
    <3> QED BY <1>5, <2>2, <2>3, <3>1, <3>2
  <2>6. Charted(log, i, Range(s.jobs)) = D /\ Charted(log, i, Range(t.jobs)) = D \cup {i}
    <3>1. i \in TradesTo(log, i)
      BY <1>5, TradedTypes DEF TradesTo
    <3> QED BY <2>5, <3>1 DEF Charted
  <2>7. D \subseteq Traded /\ i \notin D
    BY <1>b
  <2> HIDE DEF D
  <2>8. ChartTrue(log, aggs, D, s.late) =>
          ChartTrue(log, ChartedBy(aggs, i), D \cup {i}, Dropped(s.late, aggs, i))
    BY <1>0, <1>5, <2>7, TradeTrue DEF aggs
  <2> QED BY <1>5, <2>3, <2>6, <2>8 DEF aggs
<1>6. CASE /\ s.jobs = <<JobOn("apply", i)>> /\ c = Consumer /\ i \in 1..Len(log)
           /\ t = [proj |-> [l2 |-> ApplyL2(s.proj.l2, log[i].event), tape |-> s.proj.tape,
                             aggs |-> s.proj.aggs],
                   jobs |-> DeltaJobs(s.proj.l2, i) \o Further(i), late |-> s.late]
  <2> DEFINE ps == DeltaJobs(s.proj.l2, i)  r == Further(i)
  <2>1. ps \in Seq(Publications(BookDeltas))
    BY <1>0, <1>6, DeltaJobTypes
  <2>2. r \in Seq(AllJobs) /\ Pending(Range(r)) = IF log[i].event.kind = "Trade" THEN {i} ELSE {}
    <3>1. << >> \in Seq(AllJobs)
      OBVIOUS
    <3> QED BY <3>1, ListTypes, PendingLists DEF Further
  <2>3. t.jobs = ps \o r /\ t.proj.aggs = aggs /\ t.late = s.late
    BY <1>6
  <2>4. BookDeltas \subseteq Messages
    BY DEF Messages
  <2> HIDE DEF ps, r, aggs
  <2>5. Pending(Range(t.jobs)) = Pending(Range(r)) /\ Pending(Range(s.jobs)) = {i}
    <3>1. Pending(Range(ps \o r)) = Pending(Range(r))
      BY <2>1, <2>2, <2>4, PendingAfter
    <3>2. Pending(Range(<<JobOn("apply", i)>>)) = {i}
      BY PendingLists
    <3> QED BY <1>6, <2>3, <3>1, <3>2
  <2>6. Charted(log, i, Range(t.jobs)) = Charted(log, i, Range(s.jobs))
    <3>1. log[i].event.kind # "Trade" => i \notin TradesTo(log, i)
      BY DEF TradesTo
    <3> QED BY <2>2, <2>5, <3>1 DEF Charted
  <2> QED BY <1>6, <2>3, <2>6 DEF aggs
<1> HIDE DEF Goal
<1>7. Goal
  BY <1>1, <1>2, <1>3, <1>4, <1>5, <1>6 DEF Step, Goal
<1> QED BY <1>7 DEF Goal

LEMMA RunCharts ==
  ASSUME MTypes, NEW c, NEW i, i <= Len(log), NEW p, NEW jobs, NEW before,
         Runs(c, i, p, jobs, before)
  PROVE  /\ ChartTrue(log, p.aggs, Charted(log, i, Range(jobs)), late) =>
              ChartTrue(log, proj'.aggs, Charted(log, i, Range(todo'[c])), late')
         /\ c # Consumer => proj'.aggs = p.aggs /\ late' = late
         /\ \A d \in Coroutines \ {c} : todo'[d] = todo[d]
<1>0. /\ LogOK /\ late \in LateSets /\ primed \in BOOLEAN
      /\ todo \in [Coroutines -> Seq(AllJobs)]
  BY DEF MTypes, JobsOK
<1>1. /\ c \in Coroutines /\ i \in Nat /\ p \in Projections /\ jobs \in Seq(AllJobs)
      /\ Forms(c, i, jobs) /\ before \in Seq(Wires) /\ Run(c, p, jobs, before)
  BY DEF Runs
<1>2. Started(p, jobs) \in States /\ Ran(c, i, p, jobs, before)
  BY <1>0, <1>1, RunOutcome
<1>3. PICK half \in States, s \in States :
        /\ Step(c, i, Started(p, jobs), half) /\ Step(c, i, half, s)
        /\ proj' = s.proj /\ late' = s.late /\ Sent(c, i, s, before)
  BY <1>2 DEF Ran
<1>4. /\ Started(p, jobs).proj = p /\ Started(p, jobs).jobs = jobs
      /\ Started(p, jobs).late = late
  BY DEF Started
<1>5. /\ ChartTrue(log, p.aggs, Charted(log, i, Range(jobs)), late) =>
           ChartTrue(log, half.proj.aggs, Charted(log, i, Range(half.jobs)), half.late)
      /\ c # Consumer => half.proj.aggs = p.aggs /\ half.late = late
  <2> DEFINE z == Started(p, jobs)
  <2>1. z \in States /\ Step(c, i, z, half)
    BY <1>2, <1>3
  <2>2. z.proj = p /\ z.jobs = jobs /\ z.late = late
    BY <1>4
  <2> HIDE DEF z
  <2>3. /\ ChartTrue(log, z.proj.aggs, Charted(log, i, Range(z.jobs)), z.late) =>
             ChartTrue(log, half.proj.aggs, Charted(log, i, Range(half.jobs)), half.late)
        /\ c # Consumer => half.proj.aggs = z.proj.aggs /\ half.late = z.late
    BY <1>0, <1>1, <2>1, StepCharts
  <2> QED BY <2>2, <2>3
<1>6. /\ ChartTrue(log, half.proj.aggs, Charted(log, i, Range(half.jobs)), half.late) =>
           ChartTrue(log, s.proj.aggs, Charted(log, i, Range(s.jobs)), s.late)
      /\ c # Consumer => s.proj.aggs = half.proj.aggs /\ s.late = half.late
  BY <1>0, <1>1, <1>3, StepCharts
<1>7. Pending(Range(s.jobs)) = Pending(Range(todo'[c]))
  <2>1. CASE s.jobs = << >> /\ todo' = [todo EXCEPT ![c] = << >>]
    BY <1>0, <1>1, <2>1
  <2>2. ASSUME NEW m \in Messages, NEW r \in Seq(AllJobs), s.jobs = <<Publish(m)>> \o r,
               todo' = [todo EXCEPT ![c] = r]
        PROVE  Pending(Range(s.jobs)) = Pending(Range(todo'[c]))
    <3>1. Publish(m) \in AllJobs /\ Pending({Publish(m)}) = {}
      BY JobTypes, PendingLaws
    <3>2. Pending(Range(<<Publish(m)>> \o r)) = Pending(Range(r))
      BY <3>1, PendingFirst
    <3>3. todo'[c] = r
      BY <1>0, <1>1, <2>2
    <3> QED BY <2>2, <3>2, <3>3
  <2> QED BY <1>3, <2>1, <2>2 DEF Sent
<1>8. Charted(log, i, Range(s.jobs)) = Charted(log, i, Range(todo'[c]))
  BY <1>7 DEF Charted
<1>9. \A d \in Coroutines \ {c} : todo'[d] = todo[d]
  BY <1>0, <1>3 DEF Sent
<1> QED BY <1>3, <1>5, <1>6, <1>8, <1>9

LEMMA ChartRun ==
  ASSUME MTypes, log' = log, cursor' <= Len(log), NEW c, NEW p, NEW jobs, NEW before,
         Runs(c, cursor', p, jobs, before),
         ChartTrue(log, p.aggs,
           Charted(log, cursor', Range(IF c = Consumer THEN jobs ELSE todo[Consumer])), late)
  PROVE  ChartTrue(log, proj.aggs, Charted(log, cursor, Range(todo[Consumer])), late)'
<1> DEFINE i == cursor'
<1>1. /\ ChartTrue(log, p.aggs, Charted(log, i, Range(jobs)), late) =>
           ChartTrue(log, proj'.aggs, Charted(log, i, Range(todo'[c])), late')
      /\ c # Consumer => proj'.aggs = p.aggs /\ late' = late
      /\ \A d \in Coroutines \ {c} : todo'[d] = todo[d]
  <2>1. i <= Len(log) /\ Runs(c, i, p, jobs, before)
    OBVIOUS
  <2> HIDE DEF i
  <2> QED BY <2>1, RunCharts
<1>2. Consumer \in Coroutines
  BY DEF Coroutines
<1>3. ChartTrue(log, proj'.aggs, Charted(log, i, Range(todo'[Consumer])), late')
  <2>1. CASE c = Consumer
    BY <1>1, <2>1
  <2>2. CASE c # Consumer
    BY <1>1, <1>2, <2>2
  <2> QED BY <2>1, <2>2
<1> QED BY <1>3

LEMMA ChartKept ==
  ASSUME ChartInv, UNCHANGED <<log, proj, todo, cursor, late>>, purged' = purged,
         reset' # "no" => purged' # 0
  PROVE  ChartInv'
BY DEF ChartInv

(* A log that goes on says the same of what was in it.                     *)
LEMMA LogCharts ==
  ASSUME NEW lg \in Seq(Entries), NEW later, \A k \in 1..Len(lg) : later[k] = lg[k],
         NEW j \in Nat, j <= Len(lg), NEW aggs, NEW items, NEW l,
         Counts(lg, Charted(lg, j, items)),
         ChartTrue(lg, aggs, Charted(lg, j, items), l)
  PROVE  ChartTrue(later, aggs, Charted(later, j, items), l)
<1> DEFINE D == Charted(lg, j, items)
<1>1. Len(lg) \in Nat /\ \A k \in 1..j : k \in 1..Len(lg)
  BY LenProperties
<1>2. Charted(later, j, items) = D /\ D \subseteq 1..Len(lg)
  BY <1>1 DEF Charted, TradesTo
<1>3. ChartTrue(lg, aggs, D, l) /\ Counts(lg, D)
  OBVIOUS
<1> HIDE DEF D
<1>4. ASSUME NEW n \in Spans
      PROVE  Counted(later, n, aggs[n], D \ l[n])
  <2> DEFINE g == aggs[n]  T == D \ l[n]
  <2>1. \A b : InBucket(later, n, T, b) = InBucket(lg, n, T, b)
               /\ Volume(later, InBucket(later, n, T, b)) = Volume(lg, InBucket(lg, n, T, b))
    <3> SUFFICES ASSUME NEW b
                 PROVE  /\ InBucket(later, n, T, b) = InBucket(lg, n, T, b)
                        /\ Volume(later, InBucket(later, n, T, b)) =
                             Volume(lg, InBucket(lg, n, T, b))
      OBVIOUS
    <3> DEFINE S == InBucket(lg, n, T, b)
    <3>1. InBucket(later, n, T, b) = S
      BY <1>2 DEF InBucket
    <3>2. Counts(lg, S) /\ \A i \in S : later[i] = lg[i]
      BY <1>2, <1>3, FS_Subset DEF Counts, InBucket
    <3> HIDE DEF S
    <3>3. Volume(later, S) = Volume(lg, S)
      BY <3>2, VolumeLaws
    <3> QED BY <3>1, <3>3 DEF S
  <2>2. \A i \in T : later[i] = lg[i]
    BY <1>2
  <2>3. Counted(lg, n, g, T)
    BY <1>3 DEF ChartTrue
  <2> HIDE DEF T, g
  <2>4. Counted(later, n, g, T)
    BY <2>1, <2>2, <2>3 DEF Counted
  <2> QED BY <2>4 DEF T, g
<1> QED BY <1>2, <1>3, <1>4 DEF ChartTrue

(* New aggregators have no bars, and nothing has been charted.             *)
LEMMA FreshCharts ==
  ASSUME NEW lg
  PROVE  ChartTrue(lg, FreshProjections.aggs, {}, [n \in Spans |-> {}])
<1> SUFFICES ASSUME NEW n \in Spans
             PROVE  /\ BarsInOrder(FreshProjections.aggs[n], n)
                    /\ Counted(lg, n, FreshProjections.aggs[n], {})
  BY DEF ChartTrue
<1> DEFINE g == FreshProjections.aggs[n]
<1>1. g = FreshAggregator
  BY DEF FreshProjections
<1>2. g.current = NoBar /\ g.history = << >>
  BY <1>1 DEF FreshAggregator
<1>3. Range(g.history) = {}
  BY <1>2, ItemsOne
<1> HIDE DEF g
<1>4. BarsInOrder(g, n) /\ Counted(lg, n, g, {})
  BY <1>2, <1>3 DEF BarsInOrder, Counted
<1> QED BY <1>4 DEF g

LEMMA ChartInit == MDInit => ChartInv
<1> SUFFICES ASSUME MDInit PROVE ChartInv
  OBVIOUS
<1>1. cursor = 0 /\ proj = FreshProjections /\ late = [n \in Spans |-> {}] /\ reset = "no"
  BY DEF MDInit, Start
<1>2. Charted(log, cursor, Range(todo[Consumer])) = {}
  BY <1>1 DEF Charted, TradesTo
<1> QED BY <1>1, <1>2, FreshCharts DEF ChartInv

(* Every step of the service keeps the candles true to the log.            *)
LEMMA ChartStep == MTypes /\ ChartInv /\ [MDNext]_mdVars => ChartInv'
<1> SUFFICES ASSUME MTypes, ChartInv, [MDNext]_mdVars PROVE ChartInv'
  OBVIOUS
<1>0. MTypes'
  BY MTypesStep
<1>a. /\ added \in Nat /\ purged \in Nat /\ cursor \in Nat /\ cursor' \in Nat /\ purged <= added
      /\ Len(log) = added /\ cursor <= added /\ Len(log)' = added' /\ cursor' <= added'
      /\ LogOK
  BY <1>0 DEF MTypes, ConsumerInv, ConsumerTypeOK
<1> DEFINE True(p, i, jobs) == ChartTrue(log, p.aggs, Charted(log, i, Range(jobs)), late)
<1>b. /\ reset # "no" => purged # 0
      /\ purged = 0 => True(proj, cursor, todo[Consumer])
  BY DEF ChartInv
<1>c. ASSUME log' = log, purged' = purged, reset' # "no" => purged' # 0,
             NEW c, NEW p, NEW jobs, NEW before, Runs(c, cursor', p, jobs, before),
             purged = 0 => True(p, cursor', IF c = Consumer THEN jobs ELSE todo[Consumer])
      PROVE  ChartInv'
  <2>1. cursor' <= Len(log)
    BY <1>a, <1>c
  <2>2. purged = 0 =>
          ChartTrue(log, proj.aggs, Charted(log, cursor, Range(todo[Consumer])), late)'
    BY <1>c, <2>1, ChartRun
  <2> QED BY <1>c, <2>2 DEF ChartInv
<1>1. CASE Land
  <2> DEFINE c == wire[1].from
  <2>1. log' = log /\ purged' = purged /\ reset' = reset /\ cursor' = cursor
    BY <1>1 DEF Land, vars, consumer, stream
  <2>2. Runs(c, cursor', proj, todo[c], Tail(wire))
    BY <1>1, <2>1, LandRuns
  <2> HIDE DEF c
  <2>3. purged = 0 => True(proj, cursor', IF c = Consumer THEN todo[c] ELSE todo[Consumer])
    BY <1>b, <2>1
  <2> HIDE DEF True
  <2> QED BY <1>b, <1>c, <2>1, <2>2, <2>3
<1>2. CASE FetchPage
  <2>1. UNCHANGED <<log, proj, todo, cursor, late, purged, reset>>
    BY <1>2 DEF FetchPage, Fetch, FetchReplay, FetchLive, stream, serviceVars
  <2> QED BY <1>b, <2>1, ChartKept
<1>3. CASE Consume
  <2> DEFINE i == cursor'
  <2>1. log' = log /\ purged' = purged /\ reset' = reset
    BY <1>3 DEF Consume, Yield, stream
  <2>2. /\ todo[Consumer] = << >> /\ i \in 1..Len(log) /\ i = page.from /\ ~Drained
        /\ ConsumeJobs = <<JobOn("apply", i)>>
           \/ ConsumeJobs = <<Job("snapshot")>> \o <<JobOn("apply", i)>>
        /\ Runs(Consumer, i, proj, ConsumeJobs, wire)
    BY <1>3, ConsumeRuns
  <2>3. purged = 0 => i = cursor + 1
    <3>1. /\ cursor < page.from
          /\ \A j \in (cursor + 1)..(page.from - 1) : j <= purged
      BY <2>2 DEF MTypes, ConsumerInv, PageFollowsCursor
    <3>2. page.from \in Nat
      BY <1>a, <2>2
    <3>3. ASSUME purged = 0, page.from # cursor + 1 PROVE FALSE
      <4>1. cursor + 1 \in (cursor + 1)..(page.from - 1)
        BY <1>a, <3>1, <3>2, <3>3
      <4>2. cursor + 1 <= 0
        BY <3>1, <3>3, <4>1
      <4> QED BY <1>a, <4>2
    <3> QED BY <2>2, <3>3
  <2>4. i \in Nat
    BY <1>a
  <2> HIDE DEF i
  <2>5. Pending(Range(ConsumeJobs)) = {i}
    <3> DEFINE a == <<JobOn("apply", i)>>
    <3>1. a \in Seq(AllJobs) /\ Pending(Range(a)) = {i} /\ Job("snapshot") \in AllJobs
          /\ Pending({Job("snapshot")}) = {}
      BY <2>4, JobTypes, Singles, PendingLists, PendingLaws
    <3>2. ConsumeJobs = a \/ ConsumeJobs = <<Job("snapshot")>> \o a
      BY <2>2
    <3> HIDE DEF a
    <3>3. Pending(Range(<<Job("snapshot")>> \o a)) = Pending(Range(a))
      BY <3>1, PendingFirst
    <3> QED BY <3>1, <3>2, <3>3
  <2>6. Pending(Range(todo[Consumer])) = {}
    BY <2>2, <2>4, PendingLists
  <2>7. purged = 0 => Charted(log, i, Range(ConsumeJobs)) = Charted(log, cursor, Range(todo[Consumer]))
    <3>1. ASSUME purged = 0 PROVE TradesTo(log, i) \ {i} = TradesTo(log, cursor)
      <4>1. \A k : k \in 1..i /\ k # i <=> k \in 1..cursor
        BY <1>a, <2>3, <3>1
      <4> QED BY <4>1 DEF TradesTo
    <3> QED BY <2>5, <2>6, <3>1 DEF Charted
  <2>8. purged = 0 => True(proj, i, ConsumeJobs)
    BY <1>b, <2>7
  <2> DEFINE jobs == ConsumeJobs
  <2>9. Runs(Consumer, cursor', proj, jobs, wire) /\ (purged = 0 => True(proj, cursor', jobs))
    BY <2>2, <2>8 DEF i
  <2> HIDE DEF True, jobs
  <2> QED BY <1>b, <1>c, <2>1, <2>9
<1>4. CASE CandleTimer
  <2> DEFINE c == <<"timer", clock>>  jobs == IF EventsOfTick = << >> THEN << >> ELSE TickJobs
             p == TickedProj  D == Charted(log, cursor, Range(todo[Consumer]))
  <2>1. log' = log /\ purged' = purged /\ reset' = reset /\ cursor' = cursor
    BY <1>4 DEF CandleTimer, vars, consumer, stream
  <2>2. clock \in Nat /\ Runs(c, cursor', p, jobs, wire)
    BY <1>4, <2>1, CandleTimerRuns
  <2>3. c # Consumer /\ p.aggs = TickedBy(proj.aggs)
    BY DEF Consumer, TickedProj
  <2>4. D \subseteq Traded
    BY <1>a DEF Charted, TradesTo, Traded
  <2>5. proj.aggs \in [Spans -> Aggregators]
    BY DEF MTypes, Projections
  <2>6. purged = 0 => ChartTrue(log, p.aggs, D, late)
    <3> HIDE DEF D
    <3> QED BY <1>a, <1>b, <2>2, <2>3, <2>4, <2>5, TickTrue DEF D
  <2>7. purged = 0 => True(p, cursor', IF c = Consumer THEN jobs ELSE todo[Consumer])
    BY <2>1, <2>3, <2>6
  <2> HIDE DEF c, jobs, p, True
  <2> QED BY <1>b, <1>c, <2>1, <2>2, <2>7
<1>5. CASE SnapshotTimer
  <2> DEFINE c == Snapshots  jobs == <<Job("snapshot")>>
  <2>1. log' = log /\ purged' = purged /\ reset' = reset /\ cursor' = cursor
    BY <1>5 DEF SnapshotTimer, vars, consumer, stream
  <2>2. Runs(c, cursor', proj, jobs, wire) /\ c # Consumer
    BY <1>5, <2>1, SnapshotTimerRuns DEF Snapshots, Consumer
  <2>3. purged = 0 => True(proj, cursor', IF c = Consumer THEN jobs ELSE todo[Consumer])
    BY <1>b, <2>1, <2>2
  <2> HIDE DEF c, jobs, True
  <2> QED BY <1>b, <1>c, <2>1, <2>2, <2>3
<1>6. CASE StartReset
  <2>1. UNCHANGED <<log, proj, todo, cursor, late, purged>> /\ purged > 0
    BY <1>6 DEF StartReset, vars, consumer, stream
  <2> QED BY <1>a, <2>1, ChartKept
<1>7. CASE Clear
  <2>1. purged' = purged /\ reset = "disconnected"
    BY <1>7 DEF Clear, Restart, stream
  <2> QED BY <1>b, <2>1 DEF ChartInv
<1>8. CASE EndReset
  <2>1. UNCHANGED <<log, proj, todo, cursor, late, purged>> /\ reset' = "no"
    BY <1>8 DEF EndReset, vars, consumer, stream
  <2> QED BY <2>1, ChartKept
<1>9. CASE Die
  <2>1. /\ cursor' = 0 /\ purged' = purged /\ proj' = FreshProjections /\ late' = [n \in Spans |-> {}]
        /\ reset' = "no" /\ log' = log
    BY <1>9 DEF Die, Restart, stream
  <2>2. Charted(log, cursor, Range(todo[Consumer]))' = {}
    BY <2>1 DEF Charted, TradesTo
  <2>3. ChartTrue(log', FreshProjections.aggs, {}, [n \in Spans |-> {}])
    BY FreshCharts
  <2> QED BY <2>1, <2>2, <2>3 DEF ChartInv
<1>10. CASE EngineLogs
  <2> DEFINE script == Scripts[IF purged = 0 THEN 1 ELSE 2]
             e == [event |-> script[added - purged + 1], ts |-> clock]
  <2>1. /\ log' = Append(log, e) /\ purged' = purged /\ added' = added + 1
        /\ UNCHANGED <<proj, todo, cursor, late, reset>>
    BY <1>10 DEF EngineLogs, Add, consumer, serviceVars
  <2> HIDE DEF e
  <2>2. \A k \in 1..Len(log) : log'[k] = log[k]
    BY <1>a, <2>1 DEF LogOK
  <2>3. PICK later : later = log'
    OBVIOUS
  <2> DEFINE items == Range(todo[Consumer])
  <2>4. Counts(log, Charted(log, cursor, items))
    <3>1. Charted(log, cursor, items) \subseteq Traded
      BY <1>a DEF Charted, TradesTo, Traded
    <3> HIDE DEF items
    <3> QED BY <1>a, <3>1, TradeCounts
  <2>5. purged = 0 => ChartTrue(later, proj.aggs, Charted(later, cursor, items), late)
    <3>1. \A k \in 1..Len(log) : later[k] = log[k]
      BY <2>2, <2>3
    <3> HIDE DEF items
    <3> QED BY <1>a, <1>b, <2>4, <3>1, LogCharts DEF LogOK, items
  <2> QED BY <1>b, <2>1, <2>3, <2>5 DEF ChartInv
<1>11. CASE EngineResets
  <2>1. purged' # 0
    BY <1>11, <1>a DEF EngineResets, Purge
  <2> QED BY <2>1 DEF ChartInv
<1>12. CASE Advance
  <2>1. UNCHANGED <<log, proj, todo, cursor, late, purged, reset>>
    BY <1>12 DEF Advance, vars, consumer, stream
  <2> QED BY <1>b, <2>1, ChartKept
<1>13. CASE UNCHANGED mdVars
  <2>1. UNCHANGED <<log, proj, todo, cursor, late, purged, reset>>
    BY <1>13 DEF mdVars, vars, consumer, stream, serviceVars
  <2> QED BY <1>b, <2>1, ChartKept
<1> QED BY <1>1, <1>2, <1>3, <1>4, <1>5, <1>6, <1>7, <1>8, <1>9, <1>10, <1>11, <1>12, <1>13
    DEF MDNext

(* What the bars of an aggregator in order are.                            *)
LEMMA BarsOf ==
  ASSUME NEW g \in Aggregators, NEW n \in Nat \ {0}, BarsInOrder(g, n)
  PROVE  /\ \A k \in DOMAIN Bars(g) :
              /\ g.current # NoBar
              /\ Bars(g)[k] = g.current \/ Bars(g)[k] \in Range(g.history)
              /\ k > 1 => Bars(g)[k].bucketStart = Bars(g)[k - 1].bucketStart + n
         /\ g.current # NoBar => Len(Bars(g)) > 0
<1>1. CASE g.current = NoBar
  <2>1. Bars(g) = << >>
    BY <1>1 DEF Bars, BarsInOrder
  <2> QED BY <1>1, <2>1
<1>2. CASE g.current # NoBar
  <2> DEFINE h == g.history  c == g.current  all == Append(h, c)  m == Len(h)
  <2>1. h \in Seq(Bar) /\ c \in Bar /\ Chained(h, n, c.bucketStart) /\ Bars(g) = all
    BY <1>2, AggregatorTypes DEF Bars, BarsInOrder
  <2> HIDE DEF h, c
  <2>2. m \in Nat /\ DOMAIN h = 1..m
    BY <2>1, LenProperties
  <2>3. /\ all \in Seq(Bar) /\ Len(all) = m + 1 /\ all[m + 1] = c
        /\ \A k \in 1..m : all[k] = h[k]
    BY <2>1, AppendProperties
  <2>4. DOMAIN all = 1..(m + 1)
    BY <2>3, LenProperties
  <2>5. \A k \in 1..m : /\ h[k] \in Range(h)
                        /\ h[k].bucketStart + n = IF k = m THEN c.bucketStart
                                                  ELSE h[k + 1].bucketStart
    BY <2>1, <2>2 DEF Chained, Range
  <2> HIDE DEF all, m
  <2>6. ASSUME NEW k \in 1..(m + 1)
        PROVE  /\ all[k] = c \/ all[k] \in Range(h)
               /\ k > 1 => all[k].bucketStart = all[k - 1].bucketStart + n
    <3>1. k = m + 1 \/ k \in 1..m
      BY <2>2
    <3>2. all[k] = c \/ all[k] \in Range(h)
      BY <2>3, <2>5, <3>1
    <3>3. ASSUME k > 1 PROVE all[k].bucketStart = all[k - 1].bucketStart + n
      <4>1. PICK j \in 1..m : k = j + 1 /\ k - 1 = j
        BY <2>2, <3>3
      <4>2. all[j] = h[j]
        BY <2>3
      <4>3. CASE j = m
        BY <2>3, <2>5, <4>1, <4>2, <4>3
      <4>4. CASE j # m
        <5>1. j + 1 \in 1..m
          BY <2>2, <4>4
        <5>2. all[j + 1] = h[j + 1]
          BY <2>3, <5>1
        <5> QED BY <2>5, <4>1, <4>2, <4>4, <5>2
      <4> QED BY <4>3, <4>4
    <3> QED BY <3>2, <3>3
  <2>7. Len(all) > 0
    BY <2>2, <2>3
  <2> QED BY <1>2, <2>1, <2>4, <2>6, <2>7 DEF h, c
<1> QED BY <1>1, <1>2

(* When all is published and nothing has been deleted of the stream, each  *)
(* bar of either interval counts every trade of its time once but for      *)
(* those that came when it was closed, bars follow each other without a    *)
(* hole, and there is one if there was a trade (candles.ts:61-120).        *)
THEOREM CandlesAreTrades == MDSpec => []CandlesCountTrades
<1>1. MTypes /\ ChartInv => CandlesCountTrades
  <2> SUFFICES ASSUME MTypes, ChartInv, Idle, purged = 0, NEW n \in Spans
               PROVE  LET bars == Bars(proj.aggs[n])
                          within(b) == {i \in Projected \ late[n] :
                                          BucketOf(log[i].ts, n) = b.bucketStart}
                      IN /\ \A k \in DOMAIN bars :
                              /\ bars[k].volume = VolumeOf(within(bars[k]))
                              /\ k > 1 => bars[k].bucketStart = bars[k - 1].bucketStart + n
                         /\ Projected # {} => Len(bars) > 0
    BY DEF CandlesCountTrades
  <2> DEFINE g == proj.aggs[n]  T == Projected \ late[n]
             within(b) == {i \in T : BucketOf(log[i].ts, n) = b.bucketStart}
  <2>1. g \in Aggregators /\ n \in Nat \ {0}
    BY SpanTypes DEF MTypes, Projections
  <2>2. Charted(log, cursor, Range(todo[Consumer])) = Projected
    <3>1. Pending(Range(todo[Consumer])) = {}
      <4>1. todo[Consumer] = << >>
        BY DEF Idle, Coroutines
      <4> QED BY <4>1, ItemsOne, PendingLaws
    <3>2. Projected = TradesTo(log, cursor)
      BY DEF Projected, TradesTo
    <3> QED BY <3>1, <3>2 DEF Charted
  <2>3. ChartTrue(log, proj.aggs, Projected, late)
    BY <2>2 DEF ChartInv
  <2>4. BarsInOrder(g, n) /\ (Projected # {} => g.current # NoBar)
    BY <2>3 DEF ChartTrue
  <2>5. ASSUME NEW b, (b = g.current /\ g.current # NoBar) \/ b \in Range(g.history)
        PROVE  b.volume = VolumeOf(within(b))
    <3>1. within(b) = InBucket(log, n, T, b.bucketStart)
      BY <2>5 DEF InBucket
    <3>2. Counted(log, n, g, T)
      BY <2>3 DEF ChartTrue
    <3>3. b.volume = Volume(log, InBucket(log, n, T, b.bucketStart))
      <4> HIDE DEF g, T
      <4> QED BY <2>5, <3>2 DEF Counted
    <3>4. \A S : VolumeOf(S) = Volume(log, S)
      BY DEF VolumeOf, Volume
    <3> QED BY <3>1, <3>3, <3>4
  <2> HIDE DEF g, T, within
  <2>6. /\ \A k \in DOMAIN Bars(g) :
             /\ Bars(g)[k].volume = VolumeOf(within(Bars(g)[k]))
             /\ k > 1 => Bars(g)[k].bucketStart = Bars(g)[k - 1].bucketStart + n
        /\ Projected # {} => Len(Bars(g)) > 0
    BY <2>1, <2>4, <2>5, BarsOf
  <2> QED BY <2>6 DEF g, T, within
<1>2. MDInit => MTypes /\ ChartInv
  BY MTypesInit, ChartInit
<1>3. MTypes /\ ChartInv /\ [MDNext]_mdVars => (MTypes /\ ChartInv)'
  BY MTypesStep, ChartStep
<1> QED BY <1>1, <1>2, <1>3, PTL DEF MDSpec
===============================================================================
