-------------------------------- MODULE UiStore --------------------------------
(***************************************************************************)
(* What the browser keeps of the exchange (packages/ui/src/store.ts): the  *)
(* reducer's cases as operators on a screen, and the socket handler that   *)
(* turns each message into one of them.  Prices and quantities stay in     *)
(* base units.                                                             *)
(*                                                                         *)
(*   w.book      side -> price -> quantity                                 *)
(*   w.candles   interval -> the bars of the chart, oldest first           *)
(***************************************************************************)
EXTENDS OrderBook

CONSTANTS
  Spans,        \* the candle intervals
  NoData,       \* the null of the code
  TradeLimit,   \* trades the store keeps
  CandleLimit,  \* bars of a chart the store keeps
  LogLimit      \* lines of the match log

Newest(n, s) == IF Len(s) > n THEN SubSeq(s, Len(s) - n + 1, Len(s)) ELSE s

EmptyScreen ==
  [book |-> [s \in Sides |-> EmptyMap], trades |-> << >>,
   candles |-> [i \in Spans |-> << >>], ticker |-> NoData, openOrders |-> {}, log |-> << >>]

-----------------------------------------------------------------------------
(* The reducer. *)

SetSnapshot(w, levels) == [w EXCEPT !.book = levels]

(* Mutant: a level that is used up stays on the screen. *)
L2DeltaKeepingZero(w, d) == [w EXCEPT !.book[d.side] = Put(@, d.price, d.qty)]

(* A quantity of zero takes the level away. *)
L2Delta(w, d) ==
  [w EXCEPT !.book[d.side] =
     IF d.qty = 0 THEN Restrict(@, DOMAIN @ \ {d.price}) ELSE Put(@, d.price, d.qty)]

PushTrade(w, trade) == [w EXCEPT !.trades = Newest(TradeLimit, Append(@, trade))]

(* An update and a close do the same: only the last bar can be replaced.   *)
CandleShown(w, interval, bar) ==
  LET bars == w.candles[interval]
  IN IF bars # << >> /\ Last(bars).bucketStart = bar.bucketStart
     THEN [w EXCEPT !.candles[interval] = [bars EXCEPT ![Len(bars)] = bar]]
     ELSE [w EXCEPT !.candles[interval] = Newest(CandleLimit, Append(bars, bar))]

SetTicker(w, ticker) == [w EXCEPT !.ticker = ticker]

Log(w, kind) == [w EXCEPT !.log = IF Len(@) = LogLimit THEN <<kind>> \o Front(@) ELSE <<kind>> \o @]

(* The balances and the chosen user are kept, and nothing else. *)
ResetScreen(w) == EmptyScreen

-----------------------------------------------------------------------------
(* ws.onmessage. *)

(* Mutant: snapshots of the book are left to the bootstrap. *)
ReceiveNoSnapshot(w, msg) ==
  CASE msg.channel = "book"          -> L2Delta(w, msg)
    [] msg.channel = "book:snapshot" -> w
    [] msg.channel = "trades"        -> PushTrade(w, msg.trade)
    [] msg.channel = "ticker"        -> SetTicker(w, msg.ticker)
    [] msg.channel = "candles"       -> CandleShown(w, msg.interval, msg.bar)
    [] msg.channel = "events"        ->
         IF msg.kind = "Reset" THEN ResetScreen(w) ELSE Log(w, msg.kind)

Receive(w, msg) ==
  CASE msg.channel = "book"          -> L2Delta(w, msg)
    [] msg.channel = "book:snapshot" -> SetSnapshot(w, msg.levels)
    [] msg.channel = "trades"        -> PushTrade(w, msg.trade)
    [] msg.channel = "ticker"        -> SetTicker(w, msg.ticker)
    [] msg.channel = "candles"       -> CandleShown(w, msg.interval, msg.bar)
    [] msg.channel = "events"        ->
         IF msg.kind = "Reset" THEN ResetScreen(w) ELSE Log(w, msg.kind)
=============================================================================
