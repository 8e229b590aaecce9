----------------------------- MODULE MCMarketData -----------------------------
(* Small instances of MarketData. *)
EXTENDS MarketData

Accepts(id, side, type, price, qty) ==
  [kind |-> "OrderAccepted",
   order |-> [orderId |-> id, side |-> side, type |-> type, price |-> price, qty |-> qty]]

Fills(maker, taker, aggressor, price, qty) ==
  [kind |-> "Trade", makerOrderId |-> maker, takerOrderId |-> taker,
   aggressor |-> aggressor, price |-> price, qty |-> qty]

(* A MARKET order, then a buyer that pays less than its limit.             *)
TwoTrades ==
  <<Accepts(1, "sell", "LIMIT", 2, 2),
    Accepts(2, "buy", "MARKET", 0, 1), Fills(1, 2, "buy", 2, 1),
    Accepts(3, "buy", "LIMIT", 3, 1), Fills(1, 3, "buy", 2, 1)>>

(* After the reset of the engine the same stream starts again with less.   *)
Market == <<TwoTrades, <<Accepts(11, "buy", "LIMIT", 1, 1)>> >>

IntervalsOneTwo == {1, 2}
=============================================================================
