------------------------------- MODULE Candles --------------------------------
(***************************************************************************)
(* The trade tape, the candle aggregator of one interval and the ticker of *)
(* the market data service (packages/marketdata/src/tape.ts, candles.ts,   *)
(* ticker.ts), as operators on their values.  Time is counted in the unit  *)
(* of the shortest interval.                                               *)
(*                                                                         *)
(*   tape      the trades kept, oldest first                               *)
(*   g.current the live bar, or NoBar before the first trade               *)
(*   g.history the closed bars kept, oldest first                          *)
(***************************************************************************)
EXTENDS Integers, Sequences, FiniteSets, FiniteSetsExt, SequencesExt

CONSTANTS
  NoBar,            \* the null of the code: no trade yet
  TapeCapacity,     \* trades the tape keeps
  HistoryCapacity,  \* closed bars an aggregator keeps
  TickerWindow      \* bars the ticker asks for

ASSUME CapacityAssumption ==
  TapeCapacity \in Nat \ {0} /\ HistoryCapacity \in Nat \ {0} /\ TickerWindow \in Nat \ {0}

LastOf(n, s) == SubSeq(s, Len(s) - Min({n, Len(s)}) + 1, Len(s))

(* Mutant: nothing is shifted out. *)
PushWithoutShift(tape, trade) == Append(tape, trade)

PushTape(tape, trade) == LastOf(TapeCapacity, Append(tape, trade))

-----------------------------------------------------------------------------
(* candles.ts *)

Bar ==
  [bucketStart : Nat, open : Nat, high : Nat, low : Nat, close : Nat, volume : Nat,
   trades : Nat]

ASSUME BarAssumption == NoBar \notin Bar

BucketOf(ts, interval) == (ts \div interval) * interval

OpenBar(bucket, price, qty) ==
  [bucketStart |-> bucket, open |-> price, high |-> price, low |-> price,
   close |-> price, volume |-> qty, trades |-> 1]

FlatBar(bucket, price) == [OpenBar(bucket, price, 0) EXCEPT !.trades = 0]

(* Mutant: the volume is that of the last trade. *)
GrowToLast(bar, price, qty) ==
  [bar EXCEPT !.high = Max({@, price}), !.low = Min({@, price}), !.close = price,
              !.volume = qty, !.trades = @ + 1]

GrowBar(bar, price, qty) ==
  [bar EXCEPT !.high = Max({@, price}), !.low = Min({@, price}), !.close = price,
              !.volume = @ + qty, !.trades = @ + 1]

FreshAggregator == [current |-> NoBar, history |-> << >>]

Archive(history, bars) == LastOf(HistoryCapacity, history \o bars)

(* What a trade of a later bucket closes: the live bar, and a flat bar for *)
(* each bucket in which nothing traded.                                    *)
ClosedBars(bar, bucket, interval) ==
  <<bar>> \o [i \in 1..((bucket - bar.bucketStart) \div interval - 1) |->
                FlatBar(bar.bucketStart + i * interval, bar.close)]

Closes(g, interval, ts) ==
  IF g.current # NoBar /\ BucketOf(ts, interval) > g.current.bucketStart
  THEN ClosedBars(g.current, BucketOf(ts, interval), interval) ELSE << >>

(* A trade of a bucket that is already closed is dropped. *)
TooLate(g, interval, ts) ==
  g.current # NoBar /\ BucketOf(ts, interval) < g.current.bucketStart

OnTrade(g, interval, price, qty, ts) ==
  LET bucket == BucketOf(ts, interval)
  IN IF TooLate(g, interval, ts) THEN g
     ELSE [current |-> IF g.current # NoBar /\ g.current.bucketStart = bucket
                       THEN GrowBar(g.current, price, qty) ELSE OpenBar(bucket, price, qty),
           history |-> Archive(g.history, Closes(g, interval, ts))]

CandleEvent(kind, interval, bar) == [channel |-> "candles", kind |-> kind, interval |-> interval, bar |-> bar]

(* What onTrade returns: a close for each closed bar, then the live one.   *)
OnTradeEvents(g, interval, price, qty, ts) ==
  LET closed == Closes(g, interval, ts)
  IN IF TooLate(g, interval, ts) THEN << >>
     ELSE [i \in DOMAIN closed |-> CandleEvent("close", interval, closed[i])]
          \o <<CandleEvent("update", interval, OnTrade(g, interval, price, qty, ts).current)>>

Behind(g, interval, now) == g.current # NoBar /\ BucketOf(now, interval) > g.current.bucketStart

(* tick(): a synthetic trade of quantity 0 at the last price.              *)
Tick(g, interval, now) ==
  IF Behind(g, interval, now) THEN OnTrade(g, interval, g.current.close, 0, now) ELSE g

TickEvents(g, interval, now) ==
  IF Behind(g, interval, now) THEN OnTradeEvents(g, interval, g.current.close, 0, now) ELSE << >>

Bars(g) == IF g.current = NoBar THEN g.history ELSE Append(g.history, g.current)

Recent(g, n) == LastOf(n, Bars(g))

-----------------------------------------------------------------------------
(* ticker.ts *)

ComputeTicker(g) ==
  LET bars == Recent(g, TickerWindow)
  IN IF bars = << >> THEN [lastPrice |-> 0, open |-> 0, high |-> 0, low |-> 0, volume |-> 0]
     ELSE [lastPrice |-> Last(bars).close,
           open      |-> bars[1].open,
           high      |-> Max({bars[i].high : i \in DOMAIN bars}),
           low       |-> Min({bars[i].low : i \in DOMAIN bars}),
           volume    |-> MapThenSumSet(LAMBDA i : bars[i].volume, DOMAIN bars)]
=============================================================================
