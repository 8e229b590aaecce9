------------------------------ MODULE FeedProofs ------------------------------
(***************************************************************************)
(* The gateway's fan-out is subscribed upstream to what its clients want,  *)
(* for any set of clients and channels and any order of connections,       *)
(* messages, closes and answers from Redis; and so it is in the whole feed,*)
(* with a browser that breaks off and comes back under another id, other   *)
(* clients, and a gateway that dies.                                       *)
(***************************************************************************)
EXTENDS Feed, BookTheorems

FanOutTypeOK ==
  /\ open \subseteq Clients
  /\ subs \in [Clients -> SUBSET Channels]
  /\ subscribers \in [Channels -> SUBSET Clients]
  /\ commands \in [Channels -> Seq({"SUBSCRIBE", "UNSUBSCRIBE"})]
  /\ upstream \subseteq Channels

FanOutInv == FanOutTypeOK /\ SubsAgree /\ UpstreamAgrees

(* The last element after one is appended, and after the first is taken.   *)
LEMMA LastOfAppend ==
  ASSUME NEW S, NEW s \in Seq(S), NEW e \in S
  PROVE  Append(s, e) # << >> /\ Append(s, e)[Len(Append(s, e))] = e
<1>1. Len(Append(s, e)) = Len(s) + 1 /\ Len(s) \in Nat
  OBVIOUS
<1>2. Append(s, e)[Len(s) + 1] = e
  OBVIOUS
<1>3. Append(s, e) # << >>
  BY <1>1, EmptySeq
<1> QED BY <1>1, <1>2, <1>3

LEMMA LastOfTail ==
  ASSUME NEW S, NEW s \in Seq(S), Len(s) > 1
  PROVE  Tail(s) # << >> /\ Tail(s)[Len(Tail(s))] = s[Len(s)]
<1>1. s # << >> /\ Len(s) \in Nat
  BY EmptySeq
<1>2. Len(Tail(s)) = Len(s) - 1
  BY <1>1, HeadTailProperties
<1>3. Tail(s)[Len(s) - 1] = s[Len(s)]
  BY <1>1, <1>2, HeadTailProperties
<1>4. ASSUME Tail(s) = << >> PROVE FALSE
  <2>1. Len(Tail(s)) = Len(<< >>)
    BY <1>4, Zenon
  <2>2. Len(s) - 1 = 0
    BY <2>1, <1>2, EmptySeq, Zenon
  <2>3. \A n \in Nat : n > 1 => n - 1 # 0
    OBVIOUS
  <2> QED BY <2>2, <2>3, <1>1, Zenon
<1> QED BY <1>2, <1>3, <1>4

(* What is sent is what Redis will do last.                                *)
LEMMA SentLast ==
  ASSUME FanOutTypeOK,
         NEW channels \in SUBSET Channels,
         NEW command \in {"SUBSCRIBE", "UNSUBSCRIBE"},
         Send(channels, command),
         upstream' = upstream
  PROVE  /\ commands' \in [Channels -> Seq({"SUBSCRIBE", "UNSUBSCRIBE"})]
         /\ \A ch \in Channels :
              WillForward(ch)' <=> IF ch \in channels THEN command = "SUBSCRIBE"
                                   ELSE WillForward(ch)
<1> USE DEF FanOutTypeOK, Send
<1>1. commands' \in [Channels -> Seq({"SUBSCRIBE", "UNSUBSCRIBE"})]
  OBVIOUS
<1>2. ASSUME NEW ch \in Channels
      PROVE WillForward(ch)' <=> IF ch \in channels THEN command = "SUBSCRIBE"
                                 ELSE WillForward(ch)
  <2>1. CASE ch \in channels
    <3>1. /\ commands'[ch] = Append(commands[ch], command)
          /\ commands[ch] \in Seq({"SUBSCRIBE", "UNSUBSCRIBE"})
      BY <2>1
    <3> HIDE DEF FanOutTypeOK, Send
    <3>2. /\ Append(commands[ch], command) # << >>
          /\ Append(commands[ch], command)[Len(Append(commands[ch], command))] = command
      <4> DEFINE s == commands[ch]
      <4>1. s \in Seq({"SUBSCRIBE", "UNSUBSCRIBE"})
        BY <3>1
      <4> HIDE DEF s
      <4>2. Append(s, command) # << >> /\ Append(s, command)[Len(Append(s, command))] = command
        BY ONLY <4>1, command \in {"SUBSCRIBE", "UNSUBSCRIBE"}, LastOfAppend
      <4> QED BY <4>2 DEF s
    <3>3. commands'[ch] # << >> /\ commands'[ch][Len(commands'[ch])] = command
      BY <3>1, <3>2, Zenon
    <3> QED BY <2>1, <3>3 DEF WillForward
  <2>2. CASE ch \notin channels
    BY <2>2 DEF WillForward
  <2> QED BY <2>1, <2>2
<1> QED BY <1>1, <1>2

LEMMA FanOutInitInv == FanOutInit => FanOutInv
BY DEF FanOutInit, FanOutInv, FanOutTypeOK, SubsAgree, UpstreamAgrees, WillForward

LEMMA SubscribeInv ==
  ASSUME FanOutInv, NEW c \in Clients, NEW channels \in SUBSET Channels, Subscribe(c, channels)
  PROVE  FanOutInv'
<1> DEFINE new == {ch \in channels : subscribers[ch] = {}}
<1>1. /\ commands' \in [Channels -> Seq({"SUBSCRIBE", "UNSUBSCRIBE"})]
      /\ \A ch \in Channels : WillForward(ch)' <=> IF ch \in new THEN TRUE ELSE WillForward(ch)
  <2>1. new \in SUBSET Channels /\ Send(new, "SUBSCRIBE") /\ upstream' = upstream
    BY DEF Subscribe
  <2> HIDE DEF new
  <2> QED BY <2>1, SentLast DEF FanOutInv
<1>2. FanOutTypeOK'
  BY <1>1 DEF FanOutInv, FanOutTypeOK, Subscribe
<1>3. SubsAgree'
  BY DEF FanOutInv, FanOutTypeOK, SubsAgree, Subscribe
<1>4. UpstreamAgrees'
  <2> SUFFICES ASSUME NEW ch \in Channels PROVE WillForward(ch)' <=> subscribers'[ch] # {}
    BY DEF UpstreamAgrees
  <2>1. subscribers'[ch] = IF ch \in channels THEN subscribers[ch] \cup {c} ELSE subscribers[ch]
    BY DEF Subscribe
  <2>2. WillForward(ch) <=> subscribers[ch] # {}
    BY DEF FanOutInv, UpstreamAgrees
  <2> QED BY <1>1, <2>1, <2>2
<1> QED BY <1>2, <1>3, <1>4 DEF FanOutInv

(* Leaving channels keeps the upstream agreement.                          *)
LEMMA LeaveAgrees ==
  ASSUME FanOutInv, NEW c \in Clients, NEW channels \in SUBSET Channels, Leave(c, channels)
  PROVE  /\ commands' \in [Channels -> Seq({"SUBSCRIBE", "UNSUBSCRIBE"})]
         /\ UpstreamAgrees'
<1> DEFINE left == {ch \in channels : subscribers[ch] \subseteq {c}}
<1>1. /\ commands' \in [Channels -> Seq({"SUBSCRIBE", "UNSUBSCRIBE"})]
      /\ \A ch \in Channels : WillForward(ch)' <=> IF ch \in left THEN FALSE ELSE WillForward(ch)
  <2>1. left \in SUBSET Channels /\ Send(left, "UNSUBSCRIBE") /\ upstream' = upstream
    BY DEF Leave
  <2>2. "UNSUBSCRIBE" # "SUBSCRIBE"
    OBVIOUS
  <2> HIDE DEF left
  <2> QED BY <2>1, <2>2, SentLast DEF FanOutInv
<1>2. UpstreamAgrees'
  <2> SUFFICES ASSUME NEW ch \in Channels PROVE WillForward(ch)' <=> subscribers'[ch] # {}
    BY DEF UpstreamAgrees
  <2>1. subscribers'[ch] = IF ch \in channels THEN subscribers[ch] \ {c} ELSE subscribers[ch]
    BY DEF Leave
  <2>2. WillForward(ch) <=> subscribers[ch] # {}
    BY DEF FanOutInv, UpstreamAgrees
  <2> QED BY <1>1, <2>1, <2>2
<1> QED BY <1>1, <1>2

LEMMA UnsubscribeInv ==
  ASSUME FanOutInv, NEW c \in Clients, NEW channels \in SUBSET Channels, Unsubscribe(c, channels)
  PROVE  FanOutInv'
<1>1. Leave(c, channels)
  BY DEF Unsubscribe
<1>2. FanOutTypeOK'
  BY <1>1, LeaveAgrees DEF FanOutInv, FanOutTypeOK, Unsubscribe, Leave
<1>3. SubsAgree'
  BY DEF FanOutInv, FanOutTypeOK, SubsAgree, Unsubscribe, Leave
<1> QED BY <1>1, <1>2, <1>3, LeaveAgrees DEF FanOutInv

LEMMA CloseInv ==
  ASSUME FanOutInv, NEW c \in Clients, Close(c)
  PROVE  FanOutInv'
<1>1. subs[c] \in SUBSET Channels /\ Leave(c, subs[c])
  BY DEF Close, FanOutInv, FanOutTypeOK
<1>2. FanOutTypeOK'
  BY <1>1, LeaveAgrees DEF FanOutInv, FanOutTypeOK, Close, Leave
<1>3. SubsAgree'
  BY DEF FanOutInv, FanOutTypeOK, SubsAgree, Close, Leave
<1> QED BY <1>1, <1>2, <1>3, LeaveAgrees DEF FanOutInv

LEMMA ExecuteInv ==
  ASSUME FanOutInv, NEW ch \in Channels, Execute(ch)
  PROVE  FanOutInv'
<1> USE DEF FanOutInv, FanOutTypeOK, Execute
<1>1. /\ commands[ch] \in Seq({"SUBSCRIBE", "UNSUBSCRIBE"}) /\ commands[ch] # << >>
      /\ commands'[ch] = Tail(commands[ch])
      /\ \A other \in Channels \ {ch} : commands'[other] = commands[other]
  OBVIOUS
<1>2. FanOutTypeOK'
  OBVIOUS
<1>3. SubsAgree'
  BY DEF SubsAgree
<1>4. ASSUME NEW other \in Channels PROVE WillForward(other)' <=> WillForward(other)
  <2>1. CASE other # ch
    BY <2>1, <1>1 DEF WillForward
  <2>2. CASE other = ch /\ Len(commands[ch]) = 1
    BY <2>2, <1>1 DEF WillForward
  <2>3. CASE other = ch /\ Len(commands[ch]) > 1
    BY <2>3, <1>1, LastOfTail DEF WillForward
  <2>4. Len(commands[ch]) \in Nat \ {0}
    BY <1>1, EmptySeq
  <2>5. \A n \in Nat \ {0} : n = 1 \/ n > 1
    OBVIOUS
  <2>6. Len(commands[ch]) = 1 \/ Len(commands[ch]) > 1
    BY <2>4, <2>5, Zenon
  <2> QED BY <2>1, <2>2, <2>3, <2>6
<1>5. UpstreamAgrees'
  BY <1>4 DEF UpstreamAgrees
<1> QED BY <1>2, <1>3, <1>5

LEMMA FanOutInvariance == FanOutInv /\ [FanOutNext]_fanOutVars => FanOutInv'
<1> SUFFICES ASSUME FanOutInv, [FanOutNext]_fanOutVars PROVE FanOutInv'
  OBVIOUS
<1>1. ASSUME NEW c \in Clients, Connect(c) PROVE FanOutInv'
  BY <1>1 DEF Connect, FanOutInv, FanOutTypeOK, SubsAgree, UpstreamAgrees, WillForward
<1>2. ASSUME NEW c \in Clients, Close(c) PROVE FanOutInv'
  BY <1>2, CloseInv
<1>3. ASSUME NEW c \in Clients, NEW channels \in SUBSET Channels, Subscribe(c, channels)
      PROVE FanOutInv'
  BY <1>3, SubscribeInv
<1>4. ASSUME NEW c \in Clients, NEW channels \in SUBSET Channels, Unsubscribe(c, channels)
      PROVE FanOutInv'
  BY <1>4, UnsubscribeInv
<1>5. ASSUME NEW ch \in Channels, Execute(ch) PROVE FanOutInv'
  BY <1>5, ExecuteInv
<1>6. CASE GatewayRestart
  BY <1>6 DEF GatewayRestart, FanOutInv, FanOutTypeOK, SubsAgree, UpstreamAgrees, WillForward
<1>7. CASE UNCHANGED fanOutVars
  BY <1>7 DEF fanOutVars, FanOutInv, FanOutTypeOK, SubsAgree, UpstreamAgrees, WillForward
<1> QED BY <1>1, <1>2, <1>3, <1>4, <1>5, <1>6, <1>7 DEF FanOutNext

(* The two maps of the gateway always agree (server.ts:175-176, 228-256).  *)
THEOREM MapsAgree == FanOutSpec => []SubsAgree
<1>1. FanOutInv => SubsAgree
  BY DEF FanOutInv
<1> QED BY <1>1, FanOutInitInv, FanOutInvariance, PTL DEF FanOutSpec

(* Upstream the gateway ends up subscribed to exactly the channels that    *)
(* have clients (server.ts:201-213).                                       *)
THEOREM UpstreamFollows == FanOutSpec => []UpstreamAgrees
<1>1. FanOutInv => UpstreamAgrees
  BY DEF FanOutInv
<1> QED BY <1>1, FanOutInitInv, FanOutInvariance, PTL DEF FanOutSpec

-----------------------------------------------------------------------------
(* The fan-out inside the feed. *)

LEMMA FeedStarts == FeedInit => FanOutInit
BY DEF FeedInit

(* Who connects is one of the clients, and who subscribes is connected.    *)
LEMMA FeedStep == FanOutInv /\ [FeedNext]_feedVars => [FanOutNext]_fanOutVars
<1> SUFFICES ASSUME FanOutInv, [FeedNext]_feedVars PROVE [FanOutNext]_fanOutVars
  OBVIOUS
<1> USE FeedAssumption
<1>1. CASE \E d \in Deltas : PublishDelta(d)
  BY <1>1 DEF PublishDelta
<1>2. CASE PublishSnapshot
  BY <1>2 DEF PublishSnapshot
<1>3. CASE EngineReset \/ MarketReset
  BY <1>3 DEF EngineReset, MarketReset
<1>4. CASE Forward
  BY <1>4 DEF Forward
<1>5. CASE \E ch \in Channels : RedisExecutes(ch)
  BY <1>5 DEF RedisExecutes, FanOutNext
<1>6. CASE \E c \in Sockets : GatewayHears(c)
  BY <1>6 DEF GatewayHears, FanOutNext
<1>7. CASE GatewayDies
  BY <1>7 DEF GatewayDies, FanOutNext
<1>8. CASE OtherActs
  BY <1>8 DEF OtherActs, FanOutNext
<1>9. CASE Reconnect
  BY <1>9 DEF Reconnect, FanOutNext
<1>10. CASE AskForFeed
  <2>1. socket \in Clients
    BY <1>10 DEF AskForFeed, FanOutInv, FanOutTypeOK
  <2> QED
    BY <1>10, <2>1 DEF AskForFeed, FanOutNext
<1>11. CASE Show
  BY <1>11 DEF Show
<1>12. CASE LoseConnection
  BY <1>12 DEF LoseConnection
<1>13. CASE BootAnswered \/ BootEnds
  BY <1>13 DEF BootAnswered, BootEnds
<1>14. CASE UNCHANGED feedVars
  BY <1>14 DEF feedVars
<1> QED
  BY <1>1, <1>2, <1>3, <1>4, <1>5, <1>6, <1>7, <1>8, <1>9, <1>10, <1>11, <1>12, <1>13, <1>14
  DEF FeedNext

LEMMA FeedInvariance == FeedSpec => []FanOutInv
<1>1. FeedInit => FanOutInv
  BY FeedStarts, FanOutInitInv
<1>2. FanOutInv /\ [FeedNext]_feedVars => FanOutInv'
  BY FeedStep, FanOutInvariance
<1> QED
  BY <1>1, <1>2, PTL DEF FeedSpec

(* No connection of the browser that is gone is sent anything, and none    *)
(* that is there is missed, in the gateway's two maps (server.ts:175-253). *)
THEOREM FeedMapsAgree == FeedSpec => []SubsAgree
<1>1. FanOutInv => SubsAgree
  BY DEF FanOutInv
<1> QED
  BY <1>1, FeedInvariance, PTL

(* An old connection that is closed late does not take the subscriptions   *)
(* of the new one away (server.ts:199-209, 245-253).                       *)
THEOREM FeedUpstreamFollows == FeedSpec => []UpstreamAgrees
<1>1. FanOutInv => UpstreamAgrees
  BY DEF FanOutInv
<1> QED
  BY <1>1, FeedInvariance, PTL

-----------------------------------------------------------------------------
(* What a sequence of messages makes of a screen: Receive, folded over it. *)

Shown(w, msgs) == FoldLeft(Receive, w, msgs)

(* The equation of the fold over the first n messages of s.                *)
ShowFold(g, w, s, n) ==
  g = [T \in SUBSET (1..n) |->
         IF T = {} THEN w ELSE Receive(g[T \ {Max(T)}], s[Max(T)])]

LEMMA ShowFoldExists ==
  ASSUME NEW w, NEW s, NEW n \in Nat
  PROVE  \E g : ShowFold(g, w, s, n)
<1> DEFINE P == {m \in Nat : \E g : ShowFold(g, w, s, m)}
<1>1. 0 \in P
  <2> DEFINE g == [T \in SUBSET (1..0) |-> w]
  <2>1. ShowFold(g, w, s, 0)
    BY DEF ShowFold
  <2> QED BY <2>1
<1>2. ASSUME NEW m \in Nat, m \in P
      PROVE  m + 1 \in P
  <2>1. PICK g : ShowFold(g, w, s, m)
    BY <1>2
  <2> DEFINE h == [T \in SUBSET (1..(m + 1)) |->
                     IF m + 1 \in T THEN Receive(g[T \ {m + 1}], s[m + 1]) ELSE g[T]]
  <2>2. ASSUME NEW T \in SUBSET (1..(m + 1))
        PROVE  h[T] = IF T = {} THEN w ELSE Receive(h[T \ {Max(T)}], s[Max(T)])
    <3>1. CASE m + 1 \in T
      <4>0. T # {} /\ m + 1 \in Nat
        BY <3>1
      <4>1. Max(T) \in T /\ \A y \in T : y <= Max(T)
        BY <4>0, Greatest
      <4>2. Max(T) = m + 1
        <5>1. Max(T) \in 1..(m + 1) /\ m + 1 <= Max(T)
          BY <3>1, <4>1
        <5> QED BY <5>1
      <4>3. T \ {m + 1} \in SUBSET (1..(m + 1)) /\ m + 1 \notin T \ {m + 1}
        OBVIOUS
      <4>4. h[T \ {m + 1}] = g[T \ {m + 1}]
        BY <4>3
      <4>5. h[T] = Receive(g[T \ {m + 1}], s[m + 1])
        BY <3>1
      <4> QED BY <3>1, <4>2, <4>4, <4>5
    <3>2. CASE m + 1 \notin T
      <4>1. T \in SUBSET (1..m)
        BY <3>2
      <4>2. h[T] = g[T]
        BY <3>2
      <4>3. g[T] = IF T = {} THEN w ELSE Receive(g[T \ {Max(T)}], s[Max(T)])
        BY <2>1, <4>1 DEF ShowFold
      <4>4. T \ {Max(T)} \in SUBSET (1..(m + 1)) /\ m + 1 \notin T \ {Max(T)}
        BY <3>2
      <4>5. h[T \ {Max(T)}] = g[T \ {Max(T)}]
        BY <4>4
      <4> QED BY <4>2, <4>3, <4>5
    <3> QED BY <3>1, <3>2
  <2>3. h = [T \in SUBSET (1..(m + 1)) |-> h[T]]
    OBVIOUS
  <2> HIDE DEF h
  <2>4. ShowFold(h, w, s, m + 1)
    BY <2>2, <2>3 DEF ShowFold
  <2> QED BY <2>4
<1>3. n \in P
  <2> HIDE DEF P
  <2> QED BY <1>1, <1>2, Induction
<1> QED BY <1>3

(* The sequences begin with the same n messages.                             *)
SameStart(s, t, n) == \A i \in 1..n : t[i] = s[i]

LEMMA ShowFoldsAgree ==
  ASSUME NEW w, NEW s, NEW t, NEW n \in Nat, NEW m \in Nat, n <= m, SameStart(s, t, n),
         NEW g, ShowFold(g, w, s, n), NEW h, ShowFold(h, w, t, m)
  PROVE  \A T \in SUBSET (1..n) : h[T] = g[T]
<1> DEFINE P == {j \in Nat : \A T \in SUBSET (1..n) : T \subseteq 1..j => h[T] = g[T]}
<1>1. \A T \in SUBSET (1..n) :
        /\ g[T] = IF T = {} THEN w ELSE Receive(g[T \ {Max(T)}], s[Max(T)])
        /\ h[T] = IF T = {} THEN w ELSE Receive(h[T \ {Max(T)}], t[Max(T)])
  <2>1. \A T \in SUBSET (1..n) : T \in SUBSET (1..m)
    OBVIOUS
  <2> QED BY <2>1 DEF ShowFold
<1>2. 0 \in P
  <2>1. \A T : T \subseteq 1..0 => T = {}
    OBVIOUS
  <2> QED BY <1>1, <2>1
<1>3. ASSUME NEW j \in Nat, j \in P
      PROVE  j + 1 \in P
  <2>1. ASSUME NEW T \in SUBSET (1..n), T \subseteq 1..(j + 1), T # {}
        PROVE  h[T] = g[T]
    <3>1. Max(T) \in T /\ \A y \in T : y <= Max(T)
      BY <2>1, Greatest
    <3>2. T \ {Max(T)} \in SUBSET (1..n) /\ T \ {Max(T)} \subseteq 1..j
      <4>1. ASSUME NEW y \in T, y # Max(T)
            PROVE  y \in 1..j
        <5>1. Max(T) \in 1..(j + 1) /\ y \in 1..(j + 1) /\ y <= Max(T)
          BY <2>1, <3>1
        <5> QED BY <4>1, <5>1
      <4> QED BY <4>1
    <3>3. h[T \ {Max(T)}] = g[T \ {Max(T)}] /\ t[Max(T)] = s[Max(T)]
      BY <1>3, <3>1, <3>2 DEF SameStart
    <3> QED BY <1>1, <2>1, <3>3
  <2>2. \A T \in SUBSET (1..n) : T \subseteq 1..(j + 1) => h[T] = g[T]
    BY <1>1, <2>1
  <2> QED BY <2>2
<1>4. n \in P
  <2> HIDE DEF P
  <2> QED BY <1>2, <1>3, Induction
<1> QED BY <1>4

LEMMA ShownIsFold ==
  ASSUME NEW w, NEW s, NEW n \in Nat, DOMAIN s = 1..n
  PROVE  \E g : ShowFold(g, w, s, n) /\ Shown(w, s) = g[1..n]
<1> DEFINE Eq(g) == g = [T \in SUBSET (1..n) |->
                           IF T = {} THEN w ELSE Receive(g[T \ {Max(T)}], s[Max(T)])]
           g == CHOOSE h : Eq(h)
<1>1. Shown(w, s) = g[1..n]
  BY Zenon DEF Shown, FoldLeft, MapThenFoldSet
<1>2. PICK h : ShowFold(h, w, s, n)
  BY ShowFoldExists
<1>3. Eq(h)
  BY <1>2 DEF ShowFold
<1>4. Eq(g)
  <2> HIDE DEF Eq
  <2> QED BY <1>3
<1>5. ShowFold(g, w, s, n)
  <2> HIDE DEF g
  <2> QED BY <1>4 DEF ShowFold
<1> QED BY <1>1, <1>5

LEMMA ShownLaws ==
  ASSUME NEW S, NEW w
  PROVE  /\ Shown(w, << >>) = w
         /\ \A s \in Seq(S) : \A e \in S :
              Shown(w, Append(s, e)) = Receive(Shown(w, s), e)
<1>1. Shown(w, << >>) = w
  <2>1. DOMAIN << >> = 1..0
    OBVIOUS
  <2>2. PICK g : ShowFold(g, w, << >>, 0) /\ Shown(w, << >>) = g[1..0]
    BY <2>1, ShownIsFold
  <2>3. 1..0 = {}
    OBVIOUS
  <2> QED BY <2>2, <2>3 DEF ShowFold
<1>2. ASSUME NEW s \in Seq(S), NEW e \in S
      PROVE  Shown(w, Append(s, e)) = Receive(Shown(w, s), e)
  <2> DEFINE n == Len(s)  t == Append(s, e)  All == 1..(n + 1)
  <2>1. /\ n \in Nat /\ DOMAIN s = 1..n /\ DOMAIN t = 1..(n + 1)
        /\ t[n + 1] = e /\ \A i \in 1..n : t[i] = s[i]
    OBVIOUS
  <2> HIDE DEF n, t
  <2>2. PICK g : ShowFold(g, w, s, n) /\ Shown(w, s) = g[1..n]
    BY <2>1, ShownIsFold
  <2>3. PICK h : ShowFold(h, w, t, n + 1) /\ Shown(w, t) = h[All]
    BY <2>1, ShownIsFold
  <2>0. n \in Nat /\ n + 1 \in Nat /\ n <= n + 1 /\ 1..n \in SUBSET (1..n)
    BY <2>1
  <2>4. h[1..n] = g[1..n]
    <3>1. SameStart(s, t, n)
      BY <2>1 DEF SameStart
    <3>2. ShowFold(g, w, s, n) /\ ShowFold(h, w, t, n + 1)
      BY <2>2, <2>3
    <3> DEFINE m == n + 1
    <3>3. n \in Nat /\ m \in Nat /\ n <= m /\ ShowFold(h, w, t, m)
      BY <2>0, <3>2
    <3> HIDE DEF m
    <3>4. \A T \in SUBSET (1..n) : h[T] = g[T]
      BY <3>1, <3>2, <3>3, ShowFoldsAgree
    <3> QED BY <3>4
  <2>5. All # {} /\ n + 1 \in All /\ All \in SUBSET (1..(n + 1))
    <3>1. n \in Nat
      BY <2>0
    <3>2. n + 1 \in 1..(n + 1)
      BY <3>1
    <3> QED BY <3>2
  <2>6. Max(All) \in All /\ \A y \in All : y <= Max(All)
    BY <2>0, <2>5, Greatest
  <2>7. Max(All) = n + 1 /\ All \ {n + 1} = 1..n
    <3>1. Max(All) \in 1..(n + 1) /\ n + 1 <= Max(All)
      BY <2>5, <2>6
    <3> QED BY <2>0, <3>1
  <2>8. h[All] = Receive(h[All \ {Max(All)}], t[Max(All)])
    BY <2>3, <2>5 DEF ShowFold
  <2> QED BY <2>1, <2>2, <2>3, <2>4, <2>7, <2>8 DEF t
<1> QED BY <1>1, <1>2

LEMMA ShownNone ==
  ASSUME NEW w
  PROVE  Shown(w, << >>) = w
<1> QED BY ShownLaws

LEMMA ShownNext ==
  ASSUME NEW S, NEW w, NEW s \in Seq(S), NEW e \in S
  PROVE  Shown(w, Append(s, e)) = Receive(Shown(w, s), e)
<1> QED BY ShownLaws

(* A message that is received first.                                       *)
LEMMA ShownFirst ==
  ASSUME NEW S, NEW w, NEW m \in S, NEW s \in Seq(S)
  PROVE  Shown(w, <<m>> \o s) = Shown(Receive(w, m), s)
<1> DEFINE v == Receive(w, m)
<1>a. /\ Shown(w, << >>) = w
      /\ \A t \in Seq(S) : \A e \in S : Shown(w, Append(t, e)) = Receive(Shown(w, t), e)
  BY ShownNone, ShownNext
<1>b. /\ Shown(v, << >>) = v
      /\ \A t \in Seq(S) : \A e \in S : Shown(v, Append(t, e)) = Receive(Shown(v, t), e)
  <2> HIDE DEF v
  <2> QED BY ShownNone, ShownNext
<1>0. /\ Shown(w, << >>) = w /\ Shown(Receive(w, m), << >>) = Receive(w, m)
      /\ \A t \in Seq(S) : \A e \in S :
           /\ Shown(w, Append(t, e)) = Receive(Shown(w, t), e)
           /\ Shown(Receive(w, m), Append(t, e)) = Receive(Shown(Receive(w, m), t), e)
  BY <1>a, <1>b DEF v
<1> DEFINE P == {n \in Nat : \A t \in Seq(S) : Len(t) = n =>
                   Shown(w, <<m>> \o t) = Shown(Receive(w, m), t)}
<1>1. 0 \in P
  <2> SUFFICES ASSUME NEW t \in Seq(S), Len(t) = 0
               PROVE  Shown(w, <<m>> \o t) = Shown(Receive(w, m), t)
    OBVIOUS
  <2>1. t = << >>
    BY EmptySeq
  <2>2. <<m>> \o t = Append(<< >>, m) /\ << >> \in Seq(S)
    BY <2>1
  <2>3. Shown(w, Append(<< >>, m)) = Receive(Shown(w, << >>), m)
    BY <1>0, <2>2
  <2> QED BY <1>0, <2>1, <2>2, <2>3
<1>2. ASSUME NEW n \in Nat, n \in P
      PROVE  n + 1 \in P
  <2> SUFFICES ASSUME NEW t \in Seq(S), Len(t) = n + 1
               PROVE  Shown(w, <<m>> \o t) = Shown(Receive(w, m), t)
    OBVIOUS
  <2>1. PICK x \in S, r \in Seq(S) : t = Append(r, x) /\ Len(r) = n
    <3>1. PICK r \in Seq(S), x \in S : t = Append(r, x)
      BY EmptySeq, SequenceEmptyOrAppend
    <3> QED BY <3>1
  <2>2. <<m>> \o r \in Seq(S) /\ <<m>> \o t = Append(<<m>> \o r, x)
    BY <2>1
  <2>3. Shown(w, <<m>> \o r) = Shown(Receive(w, m), r)
    BY <1>2, <2>1
  <2>4. Shown(w, Append(<<m>> \o r, x)) = Receive(Shown(w, <<m>> \o r), x)
    BY <1>0, <2>2
  <2>5. Shown(Receive(w, m), Append(r, x)) = Receive(Shown(Receive(w, m), r), x)
    BY <1>0, <2>1
  <2> QED BY <2>1, <2>2, <2>3, <2>4, <2>5
<1>3. Nat \subseteq P
  <2> HIDE DEF P
  <2> QED BY <1>1, <1>2, Induction
<1>4. Len(s) \in P
  BY <1>3
<1> QED BY <1>4

-----------------------------------------------------------------------------
(* The depth on a screen. *)

Depths == [Sides -> UNION {[P -> Nat \ {0}] : P \in SUBSET Nat}]

HasDepth(w) ==
  /\ w = [book |-> w.book, trades |-> w.trades, candles |-> w.candles,
          ticker |-> w.ticker, openOrders |-> w.openOrders, log |-> w.log]
  /\ w.book \in Depths

DeltaMessage == [channel : {"book"}, side : Sides, price : Nat, qty : Nat]

Messages ==
  DeltaMessage
  \cup [channel : {"book:snapshot"}, levels : Depths]
  \cup [channel : {"events"}, kind : {"Reset"}]

(* A depth after one of its levels has changed.                            *)
After(levels, d) ==
  [levels EXCEPT ![d.side] =
     IF d.qty = 0 THEN Restrict(@, DOMAIN @ \ {d.price}) ELSE Put(@, d.price, d.qty)]

LEMMA AfterType ==
  ASSUME NEW levels \in Depths, NEW d, d.side \in Sides, d.price \in Nat, d.qty \in Nat
  PROVE  After(levels, d) \in Depths
<1> DEFINE f == levels[d.side]
<1>1. PICK P \in SUBSET Nat : f \in [P -> Nat \ {0}]
  <2>1. f \in UNION {[P -> Nat \ {0}] : P \in SUBSET Nat}
    BY DEF Depths
  <2> QED BY <2>1
<1>2. Restrict(f, DOMAIN f \ {d.price}) \in [P \ {d.price} -> Nat \ {0}]
  BY <1>1 DEF Restrict
<1>3. d.qty # 0 => Put(f, d.price, d.qty) \in [P \cup {d.price} -> Nat \ {0}]
  BY <1>1 DEF Put
<1> DEFINE g == IF d.qty = 0 THEN Restrict(f, DOMAIN f \ {d.price}) ELSE Put(f, d.price, d.qty)
<1>4. g \in UNION {[Q -> Nat \ {0}] : Q \in SUBSET Nat}
  <2>1. P \ {d.price} \in SUBSET Nat /\ P \cup {d.price} \in SUBSET Nat
    OBVIOUS
  <2> QED BY <1>2, <1>3, <2>1
<1>5. After(levels, d) = [levels EXCEPT ![d.side] = g]
  BY DEF After
<1> HIDE DEF g
<1> QED BY <1>4, <1>5 DEF Depths

LEMMA NoDepth ==
  /\ NoLevels \in Depths
  /\ HasDepth(EmptyScreen) /\ EmptyScreen.book = NoLevels
<1>1. EmptyMap \in [{} -> Nat \ {0}]
  BY DEF EmptyMap
<1>2. NoLevels \in Depths
  BY <1>1 DEF NoLevels, Depths
<1> QED BY <1>2 DEF HasDepth, EmptyScreen, NoLevels

LEMMA ReceiveType ==
  ASSUME NEW w, HasDepth(w), NEW m \in Messages
  PROVE  /\ HasDepth(Receive(w, m))
         /\ m \in DeltaMessage => Receive(w, m).book = After(w.book, m)
         /\ m.channel = "book:snapshot" => Receive(w, m).book = m.levels
<1>1. CASE m \in DeltaMessage
  <2>1. m.channel = "book" /\ m.side \in Sides /\ m.price \in Nat /\ m.qty \in Nat
    BY <1>1 DEF DeltaMessage
  <2>2. Receive(w, m) = [w EXCEPT !.book = After(w.book, m)]
    BY <2>1 DEF Receive, L2Delta, After, HasDepth
  <2>3. After(w.book, m) \in Depths
    BY <2>1, AfterType DEF HasDepth
  <2> HIDE DEF After
  <2> QED BY <2>1, <2>2, <2>3 DEF HasDepth
<1>2. CASE m \in [channel : {"book:snapshot"}, levels : Depths]
  <2>1. m.channel = "book:snapshot" /\ m.levels \in Depths
    BY <1>2
  <2>2. Receive(w, m) = [w EXCEPT !.book = m.levels]
    BY <2>1 DEF Receive, SetSnapshot
  <2> QED BY <2>1, <2>2 DEF HasDepth, DeltaMessage
<1>3. CASE m \in [channel : {"events"}, kind : {"Reset"}]
  <2>1. m.channel = "events" /\ m.kind = "Reset"
    BY <1>3
  <2>2. Receive(w, m) = EmptyScreen
    BY <2>1 DEF Receive, ResetScreen
  <2> QED BY <2>1, <2>2, NoDepth DEF DeltaMessage
<1> QED BY <1>1, <1>2, <1>3 DEF Messages

LEMMA ShownType ==
  ASSUME NEW w, HasDepth(w), NEW s \in Seq(Messages)
  PROVE  HasDepth(Shown(w, s))
<1>0. \A t \in Seq(Messages) : \A e \in Messages :
        Shown(w, Append(t, e)) = Receive(Shown(w, t), e)
  BY ShownNext
<1> DEFINE P == {n \in Nat : \A t \in Seq(Messages) : Len(t) = n => HasDepth(Shown(w, t))}
<1>1. 0 \in P
  <2>1. \A t \in Seq(Messages) : Len(t) = 0 => t = << >>
    BY EmptySeq
  <2>2. Shown(w, << >>) = w
    BY ShownNone
  <2> QED BY <2>1, <2>2
<1>2. ASSUME NEW n \in Nat, n \in P
      PROVE  n + 1 \in P
  <2> SUFFICES ASSUME NEW t \in Seq(Messages), Len(t) = n + 1
               PROVE  HasDepth(Shown(w, t))
    OBVIOUS
  <2>1. PICK x \in Messages, r \in Seq(Messages) : t = Append(r, x) /\ Len(r) = n
    <3>1. PICK r \in Seq(Messages), x \in Messages : t = Append(r, x)
      BY EmptySeq, SequenceEmptyOrAppend
    <3> QED BY <3>1
  <2>2. HasDepth(Shown(w, r))
    BY <1>2, <2>1
  <2>3. Shown(w, Append(r, x)) = Receive(Shown(w, r), x)
    BY <1>0, <2>1
  <2> QED BY <2>1, <2>2, <2>3, ReceiveType
<1>3. Nat \subseteq P
  <2> HIDE DEF P
  <2> QED BY <1>1, <1>2, Induction
<1>4. Len(s) \in P
  BY <1>3
<1> QED BY <1>4

(* What is published of a change of a level.                               *)
LEMMA DeltaSent ==
  ASSUME NEW d \in Deltas
  PROVE  /\ d.side \in Sides /\ d.price \in Nat /\ d.qty \in Nat
         /\ DeltaOf(d) \in DeltaMessage
         /\ \A levels : After(levels, DeltaOf(d)) = After(levels, d)
<1>1. d.side \in Sides /\ d.price \in Nat /\ d.qty \in Nat
  BY FeedAssumption
<1> QED BY <1>1 DEF DeltaOf, DeltaMessage, After

-----------------------------------------------------------------------------
(* What the connection and the screen of the browser always satisfy.       *)

ScreenTypeOK ==
  /\ HasDepth(screen) /\ market \in Depths
  /\ boot \in [stage : {"asked", "answered", "done"}, levels : Depths]
  /\ frames \in Seq(Messages) /\ down \in Seq(Messages)

(* A connection that the browser has, the gateway has, and it has asked    *)
(* for nothing or for everything.                                          *)
Connected ==
  /\ socket \in Sockets \cup {NoSocket}
  /\ socket # NoSocket => socket \in open /\ subs[socket] \in {{}, Channels}
  /\ frames # << >> => socket # NoSocket

Primed == primed => Watching

FeedInv == FanOutInv /\ ScreenTypeOK /\ Connected /\ Primed /\ ScreenFollowsFeed

(* What is published goes to the end of what is under way, or is lost.     *)
LEMMA PublishedType ==
  ASSUME ScreenTypeOK, NEW m \in Messages
  PROVE  Published(m) \in Seq(Messages)
BY DEF ScreenTypeOK, Published

LEMMA SnapshotType ==
  ASSUME NEW levels \in Depths
  PROVE  SnapshotOf(levels) \in Messages
BY DEF SnapshotOf, Messages

LEMMA FeedInitInv == FeedInit => FeedInv
<1> SUFFICES ASSUME FeedInit PROVE FeedInv
  OBVIOUS
<1>1. FanOutInv
  BY FeedStarts, FanOutInitInv
<1>2. ScreenTypeOK
  BY NoDepth DEF FeedInit, ScreenTypeOK
<1>3. Connected
  BY DEF FeedInit, Connected
<1>4. ~primed
  BY DEF FeedInit
<1> QED BY <1>1, <1>2, <1>3, <1>4 DEF FeedInv, Primed, ScreenFollowsFeed

LEMMA ScreenTypeStep ==
  ASSUME ScreenTypeOK, [FeedNext]_feedVars
  PROVE  ScreenTypeOK'
<1> USE DEF browserVars, boundVars
<1>1. ASSUME NEW d \in Deltas, PublishDelta(d) PROVE ScreenTypeOK'
  <2>1. market' = After(market, d)
    BY <1>1 DEF PublishDelta, After
  <2>2. market' \in Depths
    BY <2>1, DeltaSent, AfterType DEF ScreenTypeOK
  <2>3. down' \in Seq(Messages)
    BY <1>1, DeltaSent, PublishedType DEF PublishDelta, Messages
  <2> QED BY <1>1, <2>2, <2>3 DEF PublishDelta, ScreenTypeOK
<1>2. CASE PublishSnapshot
  <2>1. down' \in Seq(Messages)
    BY <1>2, SnapshotType, PublishedType DEF PublishSnapshot, ScreenTypeOK
  <2> QED BY <1>2, <2>1 DEF PublishSnapshot, ScreenTypeOK
<1>3. CASE EngineReset
  <2>1. [channel |-> "events", kind |-> "Reset"] \in Messages
    BY DEF Messages
  <2>2. down' \in Seq(Messages)
    BY <1>3, <2>1, PublishedType DEF EngineReset
  <2> QED BY <1>3, <2>2 DEF EngineReset, ScreenTypeOK
<1>4. CASE MarketReset
  <2>1. down' \in Seq(Messages)
    BY <1>4, NoDepth, SnapshotType, PublishedType DEF MarketReset
  <2> QED BY <1>4, <2>1, NoDepth DEF MarketReset, ScreenTypeOK
<1>5. CASE Forward
  <2>1. Head(down) \in Messages /\ Tail(down) \in Seq(Messages)
    BY <1>5, EmptySeq, HeadTailProperties DEF Forward, ScreenTypeOK
  <2>2. frames' \in Seq(Messages)
    BY <1>5, <2>1 DEF Forward, ScreenTypeOK
  <2> QED BY <1>5, <2>1, <2>2 DEF Forward, ScreenTypeOK
<1>6. CASE \E ch \in Channels : RedisExecutes(ch)
  BY <1>6 DEF RedisExecutes, ScreenTypeOK
<1>7. CASE \E c \in Sockets : GatewayHears(c)
  BY <1>7 DEF GatewayHears, ScreenTypeOK
<1>8. CASE GatewayDies
  BY <1>8 DEF GatewayDies, ScreenTypeOK
<1>9. CASE OtherActs
  BY <1>9 DEF OtherActs, ScreenTypeOK
<1>10. CASE Reconnect
  BY <1>10 DEF Reconnect, ScreenTypeOK
<1>11. CASE AskForFeed
  BY <1>11 DEF AskForFeed, ScreenTypeOK
<1>12. CASE Show
  <2>1. Head(frames) \in Messages /\ Tail(frames) \in Seq(Messages)
    BY <1>12, EmptySeq, HeadTailProperties DEF Show, ScreenTypeOK
  <2>2. HasDepth(screen')
    BY <1>12, <2>1, ReceiveType DEF Show, ScreenTypeOK
  <2> QED BY <1>12, <2>1, <2>2 DEF Show, ScreenTypeOK
<1>13. CASE LoseConnection
  BY <1>13 DEF LoseConnection, ScreenTypeOK
<1>14. CASE BootAnswered
  BY <1>14 DEF BootAnswered, ScreenTypeOK
<1>15. CASE BootEnds
  <2>1. HasDepth(SetSnapshot(screen, boot.levels))
    BY DEF ScreenTypeOK, HasDepth, SetSnapshot
  <2>2. HasDepth(screen')
    BY <1>15, <2>1 DEF BootEnds, ScreenTypeOK
  <2>3. boot' \in [stage : {"asked", "answered", "done"}, levels : Depths]
    BY <1>15, NoDepth DEF BootEnds
  <2> QED BY <1>15, <2>2, <2>3 DEF BootEnds, ScreenTypeOK
<1>16. CASE UNCHANGED feedVars
  BY <1>16 DEF feedVars, ScreenTypeOK
<1> QED
  BY <1>1, <1>2, <1>3, <1>4, <1>5, <1>6, <1>7, <1>8, <1>9, <1>10, <1>11, <1>12, <1>13,
     <1>14, <1>15, <1>16 DEF FeedNext

LEMMA ConnectedStep ==
  ASSUME FanOutInv, ScreenTypeOK, Connected, [FeedNext]_feedVars
  PROVE  Connected'
<1> USE FeedAssumption DEF browserVars, boundVars, fanOutVars, Connected
<1>1. open \subseteq Clients /\ subs \in [Clients -> SUBSET Channels]
  BY DEF FanOutInv, FanOutTypeOK
<1>2. socket \in Clients => socket # NoSocket /\ socket # Other
  OBVIOUS
<1>3. CASE \E d \in Deltas : PublishDelta(d)
  BY <1>3 DEF PublishDelta
<1>4. CASE PublishSnapshot \/ EngineReset \/ MarketReset
  BY <1>4 DEF PublishSnapshot, EngineReset, MarketReset
<1>5. CASE Forward
  BY <1>1, <1>5 DEF Forward, Recipients
<1>6. CASE \E ch \in Channels : RedisExecutes(ch)
  BY <1>6 DEF RedisExecutes, Execute
<1>7. CASE \E c \in Sockets : GatewayHears(c)
  BY <1>1, <1>7 DEF GatewayHears, Close
<1>8. CASE GatewayDies
  BY <1>8 DEF GatewayDies
<1>9. CASE OtherActs
  <2>1. UNCHANGED <<socket, frames>>
    BY <1>9 DEF OtherActs
  <2>2. /\ open' \cup {Other} = open \cup {Other}
        /\ \A c \in Clients \ {Other} : subs'[c] = subs[c]
    BY <1>1, <1>9 DEF OtherActs, Connect, Close, Subscribe, Unsubscribe
  <2> QED BY <1>1, <1>2, <2>1, <2>2
<1>10. CASE Reconnect
  BY <1>1, <1>10 DEF Reconnect, Connect
<1>11. CASE AskForFeed
  BY <1>1, <1>11 DEF AskForFeed, Subscribe
<1>12. CASE Show
  BY <1>12 DEF Show
<1>13. CASE LoseConnection
  BY <1>13 DEF LoseConnection
<1>14. CASE BootAnswered \/ BootEnds
  BY <1>14 DEF BootAnswered, BootEnds
<1>15. CASE UNCHANGED feedVars
  BY <1>15 DEF feedVars
<1> QED
  BY <1>3, <1>4, <1>5, <1>6, <1>7, <1>8, <1>9, <1>10, <1>11, <1>12, <1>13, <1>14, <1>15
  DEF FeedNext

(* The channels of the depth, while the gateway has them upstream and has  *)
(* the browser among their clients.                                        *)
Carried == \A ch \in {"book", "book:snapshot"} :
             ch \in upstream /\ commands[ch] = << >> /\ socket \in subscribers[ch]

(* Nothing is sent to Redis about a channel that somebody else keeps.      *)
LEMMA SendsNothing ==
  ASSUME NEW ch \in Channels, NEW channels, NEW command,
         Send(channels, command), ch \notin channels
  PROVE  commands'[ch] = commands[ch]
BY DEF Send

LEMMA OthersLeave ==
  ASSUME Carried, Channels = {"book", "book:snapshot", "events"},
         NEW c, c # socket, NEW channels, Leave(c, channels), socket' = socket
  PROVE  Carried'
<1> SUFFICES ASSUME NEW ch \in {"book", "book:snapshot"}
             PROVE  ch \in upstream' /\ commands'[ch] = << >> /\ socket \in subscribers'[ch]
  BY DEF Carried
<1>1. ch \in upstream /\ commands[ch] = << >> /\ socket \in subscribers[ch]
  BY DEF Carried
<1>2. ch \notin {x \in channels : subscribers[x] \subseteq {c}}
  BY <1>1
<1>3. commands'[ch] = commands[ch]
  BY <1>2, SendsNothing DEF Leave
<1>4. socket \in subscribers'[ch]
  BY <1>1 DEF Leave
<1> QED BY <1>1, <1>3, <1>4 DEF Leave

LEMMA OthersJoin ==
  ASSUME Carried, Channels = {"book", "book:snapshot", "events"},
         NEW c, NEW channels, Subscribe(c, channels), socket' = socket
  PROVE  Carried'
<1> SUFFICES ASSUME NEW ch \in {"book", "book:snapshot"}
             PROVE  ch \in upstream' /\ commands'[ch] = << >> /\ socket \in subscribers'[ch]
  BY DEF Carried
<1>1. ch \in upstream /\ commands[ch] = << >> /\ socket \in subscribers[ch]
  BY DEF Carried
<1>2. ch \notin {x \in channels : subscribers[x] = {}}
  BY <1>1
<1>3. commands'[ch] = commands[ch]
  BY <1>2, SendsNothing DEF Subscribe
<1>4. socket \in subscribers'[ch]
  BY <1>1 DEF Subscribe
<1> QED BY <1>1, <1>3, <1>4 DEF Subscribe

(* Once the depth reaches the browser it does until a connection breaks.   *)
LEMMA PrimedStep ==
  ASSUME FanOutInv, Connected, Primed, [FeedNext]_feedVars
  PROVE  Primed'
<1> SUFFICES ASSUME primed' PROVE Watching'
  BY DEF Primed
<1> USE FeedAssumption DEF browserVars, boundVars, fanOutVars
<1>0. Watching <=> boot.stage = "done" /\ Carried
  BY DEF Watching, Carried
<1>1. Carried => socket \in open /\ socket # Other /\ socket # NoSocket
  BY DEF Carried, FanOutInv, FanOutTypeOK, SubsAgree, Connected
<1>2. primed => subs[socket] = Channels
  BY <1>0, <1>1 DEF Primed, Connected, FanOutInv, SubsAgree, Carried
<1>3. CASE \E d \in Deltas : PublishDelta(d)
  BY <1>3 DEF PublishDelta, Primed, Watching
<1>4. CASE PublishSnapshot \/ MarketReset
  BY <1>4 DEF PublishSnapshot, MarketReset, Primed, Watching
<1>5. CASE Forward \/ Show
  BY <1>5 DEF Forward, Show, Primed, Watching
<1>6. CASE \E ch \in Channels : RedisExecutes(ch)
  BY <1>6 DEF RedisExecutes, Execute, Primed, Watching, FanOutInv, FanOutTypeOK
<1>7. ASSUME NEW c \in Sockets, GatewayHears(c) PROVE Watching'
  <2>1. boot.stage = "done" /\ Carried /\ UNCHANGED <<socket, boot>> /\ c # socket
    BY <1>0, <1>7 DEF GatewayHears, Primed
  <2>2. Leave(c, subs[c])
    BY <1>7 DEF GatewayHears, Close
  <2>3. Carried'
    BY <2>1, <2>2, OthersLeave
  <2> QED BY <2>1, <2>3 DEF Watching, Carried
<1>8. CASE OtherActs
  <2>1. boot.stage = "done" /\ Carried /\ UNCHANGED <<socket, boot>> /\ Other # socket
    BY <1>0, <1>1, <1>8 DEF OtherActs, Primed
  <2>2. Connect(Other) => Carried'
    BY <2>1 DEF Connect, Carried
  <2>3. Close(Other) => Carried'
    BY <2>1, OthersLeave DEF Close
  <2>4. ASSUME NEW ch \in Channels, Subscribe(Other, {ch}) PROVE Carried'
    BY <2>1, <2>4, OthersJoin
  <2>5. ASSUME NEW ch \in Channels, Unsubscribe(Other, {ch}) PROVE Carried'
    BY <2>1, <2>5, OthersLeave DEF Unsubscribe
  <2>6. Carried'
    BY <1>8, <2>2, <2>3, <2>4, <2>5 DEF OtherActs
  <2> QED BY <2>1, <2>6 DEF Watching, Carried
<1>9. CASE EngineReset \/ GatewayDies \/ LoseConnection
  BY <1>9 DEF EngineReset, GatewayDies, LoseConnection
<1>10. CASE Reconnect
  BY <1>0, <1>1, <1>10 DEF Reconnect, Primed
<1>11. CASE AskForFeed
  BY <1>2, <1>11 DEF AskForFeed
<1>12. CASE BootAnswered \/ BootEnds
  BY <1>0, <1>12 DEF BootAnswered, BootEnds, Primed
<1>13. CASE UNCHANGED feedVars
  BY <1>13 DEF feedVars, Primed, Watching
<1> QED
  BY <1>3, <1>4, <1>5, <1>6, <1>7, <1>8, <1>9, <1>10, <1>11, <1>12, <1>13 DEF FeedNext

(* Receiving what has just been published.                                 *)
LEMMA ShownPublished ==
  ASSUME ScreenTypeOK, Watching, NEW m \in Messages,
         m.channel \in {"book", "book:snapshot"}
  PROVE  /\ frames \o Published(m) \in Seq(Messages)
         /\ Shown(screen, frames \o Published(m)) = Receive(Shown(screen, frames \o down), m)
         /\ HasDepth(Shown(screen, frames \o down))
<1>1. Published(m) = Append(down, m)
  BY DEF Published, Watching
<1>2. /\ frames \o down \in Seq(Messages)
      /\ frames \o Append(down, m) = Append(frames \o down, m)
  BY SequencesJoined DEF ScreenTypeOK
<1>3. Shown(screen, Append(frames \o down, m)) = Receive(Shown(screen, frames \o down), m)
  <2> DEFINE s == frames \o down
  <2>1. s \in Seq(Messages)
    BY <1>2
  <2> HIDE DEF s
  <2>2. Shown(screen, Append(s, m)) = Receive(Shown(screen, s), m)
    BY <2>1, ShownNext
  <2> QED BY <2>2 DEF s
<1>4. HasDepth(Shown(screen, frames \o down))
  BY <1>2, ShownType DEF ScreenTypeOK
<1>5. Append(frames \o down, m) \in Seq(Messages)
  BY <1>2
<1> QED BY <1>1, <1>2, <1>3, <1>4, <1>5

(* A snapshot makes the screen right whatever was lost before it.          *)
LEMMA SnapshotFollows ==
  ASSUME ScreenTypeOK, NEW levels \in Depths, Watching,
         down' = Published(SnapshotOf(levels)), UNCHANGED <<frames, screen>>, market' = levels
  PROVE  Shown(screen', frames' \o down').book = market'
<1> DEFINE m == SnapshotOf(levels)
<1>1. m \in Messages /\ m.channel = "book:snapshot" /\ m.levels = levels
  BY SnapshotType DEF SnapshotOf
<1> HIDE DEF m
<1>2. /\ Shown(screen, frames \o Published(m)) = Receive(Shown(screen, frames \o down), m)
      /\ HasDepth(Shown(screen, frames \o down))
  BY <1>1, ShownPublished
<1>3. Receive(Shown(screen, frames \o down), m).book = levels
  BY <1>1, <1>2, ReceiveType
<1> QED BY <1>2, <1>3 DEF m

LEMMA FollowsStep ==
  ASSUME FeedInv, Primed', [FeedNext]_feedVars
  PROVE  ScreenFollowsFeed'
<1> SUFFICES ASSUME primed' PROVE Shown(screen', frames' \o down').book = market'
  BY DEF ScreenFollowsFeed, Shown
<1> USE DEF browserVars, boundVars, fanOutVars
<1>0. /\ frames \in Seq(Messages) /\ down \in Seq(Messages)
      /\ HasDepth(screen) /\ market \in Depths /\ ScreenTypeOK
  BY DEF FeedInv, ScreenTypeOK
<1>1. primed => Shown(screen, frames \o down).book = market
  BY DEF FeedInv, ScreenFollowsFeed, Shown
<1>2. primed => Watching
  BY DEF FeedInv, Primed
<1>3. Watching => /\ boot.stage = "done" /\ socket \in Clients /\ socket # NoSocket
                  /\ \A ch \in Channels : socket \in Recipients(ch)
  <2> USE FeedAssumption
  <2>1. Watching => boot.stage = "done" /\ socket \in subscribers["book"]
    BY DEF Watching
  <2>2. Watching => socket \in Clients /\ socket \in open /\ "book" \in subs[socket]
    BY <2>1 DEF FeedInv, FanOutInv, FanOutTypeOK, SubsAgree
  <2>3. Watching => socket # NoSocket /\ subs[socket] = Channels
    BY <2>2 DEF FeedInv, Connected
  <2>4. Watching => \A ch \in Channels : socket \in Recipients(ch)
    BY <2>2, <2>3 DEF FeedInv, FanOutInv, SubsAgree, Recipients
  <2> QED BY <2>1, <2>2, <2>3, <2>4
<1>4. UNCHANGED <<screen, frames, down, market, primed>>
      => Shown(screen', frames' \o down').book = market'
  BY <1>1
<1>5. ASSUME NEW d \in Deltas, PublishDelta(d)
      PROVE  Shown(screen', frames' \o down').book = market'
  <2>1. /\ primed /\ Watching /\ market' = After(market, d)
        /\ down' = Published(DeltaOf(d)) /\ UNCHANGED <<frames, screen>>
    BY <1>2, <1>5 DEF PublishDelta, After
  <2> DEFINE m == DeltaOf(d)
  <2>2. m \in DeltaMessage /\ After(market, m) = After(market, d)
    BY DeltaSent
  <2> HIDE DEF m
  <2>3. m \in Messages /\ m.channel = "book"
    BY <2>2 DEF Messages, DeltaMessage
  <2>4. /\ Shown(screen, frames \o Published(m)) = Receive(Shown(screen, frames \o down), m)
        /\ HasDepth(Shown(screen, frames \o down))
    BY <1>0, <2>1, <2>3, ShownPublished
  <2>5. Receive(Shown(screen, frames \o down), m).book = After(market, m)
    BY <1>1, <2>1, <2>2, <2>3, <2>4, ReceiveType
  <2> QED BY <2>1, <2>2, <2>4, <2>5 DEF m
<1>6. CASE PublishSnapshot
  <2>1. Watching
    BY <1>2, <1>6 DEF PublishSnapshot
  <2> QED BY <1>0, <1>6, <2>1, SnapshotFollows DEF PublishSnapshot
<1>7. CASE MarketReset
  <2>1. Watching
    BY <1>2, <1>7 DEF MarketReset
  <2> QED BY <1>0, <1>7, <2>1, NoDepth, SnapshotFollows DEF MarketReset
<1>8. CASE Forward
  <2>1. /\ primed /\ Watching /\ down # << >> /\ down' = Tail(down)
        /\ UNCHANGED <<screen, market>>
    BY <1>2, <1>8 DEF Forward
  <2>2. Head(down) \in Messages
    BY <1>0, <2>1, EmptySeq, HeadTailProperties
  <2>3. Head(down).channel \in Channels
    BY <2>2, FeedAssumption DEF Messages, DeltaMessage
  <2>4. frames' = Append(frames, Head(down))
    BY <1>3, <1>8, <2>1, <2>3 DEF Forward
  <2>5. Append(frames, Head(down)) \o Tail(down) = frames \o down
    BY <1>0, <2>1, <2>2, SequencesJoined
  <2> QED BY <1>1, <2>1, <2>4, <2>5
<1>9. CASE Show
  <2>1. /\ primed /\ frames # << >> /\ frames' = Tail(frames)
        /\ screen' = Receive(screen, Head(frames)) /\ UNCHANGED <<down, market>>
    BY <1>9 DEF Show
  <2>2. Head(frames) \in Messages /\ Tail(frames) \in Seq(Messages)
    BY <1>0, <2>1, EmptySeq, HeadTailProperties
  <2>3. /\ frames \o down = <<Head(frames)>> \o (Tail(frames) \o down)
        /\ Tail(frames) \o down \in Seq(Messages)
    BY <1>0, <2>1, <2>2, SequencesJoined
  <2>4. Shown(screen, <<Head(frames)>> \o (Tail(frames) \o down))
        = Shown(Receive(screen, Head(frames)), Tail(frames) \o down)
    <3> DEFINE m == Head(frames)  s == Tail(frames) \o down
    <3>1. m \in Messages /\ s \in Seq(Messages)
      BY <2>2, <2>3
    <3> HIDE DEF m, s
    <3>2. Shown(screen, <<m>> \o s) = Shown(Receive(screen, m), s)
      BY <3>1, ShownFirst
    <3> QED BY <3>2 DEF m, s
  <2> QED BY <1>1, <2>1, <2>3, <2>4
<1>10. CASE EngineReset \/ GatewayDies \/ LoseConnection
  BY <1>10 DEF EngineReset, GatewayDies, LoseConnection
<1>11. CASE \E ch \in Channels : RedisExecutes(ch)
  BY <1>4, <1>11 DEF RedisExecutes
<1>12. CASE \E c \in Sockets : GatewayHears(c)
  BY <1>4, <1>12 DEF GatewayHears
<1>13. CASE OtherActs
  BY <1>4, <1>13 DEF OtherActs
<1>14. CASE Reconnect \/ AskForFeed
  BY <1>4, <1>14 DEF Reconnect, AskForFeed
<1>15. CASE BootAnswered \/ BootEnds
  BY <1>2, <1>3, <1>15 DEF BootAnswered, BootEnds
<1>16. CASE UNCHANGED feedVars
  BY <1>4, <1>16 DEF feedVars
<1> QED
  BY <1>5, <1>6, <1>7, <1>8, <1>9, <1>10, <1>11, <1>12, <1>13, <1>14, <1>15, <1>16
  DEF FeedNext

LEMMA FeedInvAlways == FeedSpec => []FeedInv
<1>1. FeedInv /\ [FeedNext]_feedVars => FeedInv'
  <2> SUFFICES ASSUME FeedInv, [FeedNext]_feedVars PROVE FeedInv'
    OBVIOUS
  <2>1. FanOutInv'
    BY FeedStep, FanOutInvariance DEF FeedInv
  <2>2. ScreenTypeOK'
    BY ScreenTypeStep DEF FeedInv
  <2>3. Connected'
    BY ConnectedStep DEF FeedInv
  <2>4. Primed'
    BY PrimedStep DEF FeedInv
  <2>5. ScreenFollowsFeed'
    BY <2>4, FollowsStep
  <2> QED BY <2>1, <2>2, <2>3, <2>4, <2>5 DEF FeedInv
<1> QED
  BY <1>1, FeedInitInv, PTL DEF FeedSpec

(* Nothing is under way to a browser the gateway does not know, and every  *)
(* level on the screen has a quantity (server.ts:181-199, store.ts:73).    *)
THEOREM FeedTypes == FeedSpec => []FeedTypeOK
<1>1. FeedInv => FeedTypeOK
  <2> SUFFICES ASSUME FeedInv PROVE FeedTypeOK
    OBVIOUS
  <2>1. open \subseteq Clients /\ upstream \subseteq Channels
    BY DEF FeedInv, FanOutInv, FanOutTypeOK
  <2>2. socket \in Sockets \cup {NoSocket} /\ (frames # << >> => socket \in open)
    BY DEF FeedInv, Connected
  <2>3. ASSUME NEW s \in Sides, NEW p \in DOMAIN screen.book[s]
        PROVE  screen.book[s][p] > 0
    <3>1. screen.book[s] \in UNION {[P -> Nat \ {0}] : P \in SUBSET Nat}
      BY DEF FeedInv, ScreenTypeOK, HasDepth, Depths
    <3>2. PICK P \in SUBSET Nat : screen.book[s] \in [P -> Nat \ {0}]
      BY <3>1
    <3>3. screen.book[s][p] \in Nat \ {0}
      BY <3>2, Zenon
    <3> QED BY <3>3
  <2> QED BY <2>1, <2>2, <2>3 DEF FeedTypeOK
<1> QED
  BY <1>1, FeedInvAlways, PTL

(* No delta is lost or shown twice on a connection once a snapshot was     *)
(* published to it, for any number of connections, levels and deltas       *)
(* (server.ts:181-199, 228-256, store.ts:236-288).                         *)
THEOREM ScreenFollows == FeedSpec => []ScreenFollowsFeed
<1>1. FeedInv => ScreenFollowsFeed
  BY DEF FeedInv
<1> QED
  BY <1>1, FeedInvAlways, PTL
===============================================================================
