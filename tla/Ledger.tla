-------------------------------- MODULE Ledger --------------------------------
(***************************************************************************)
(* The ledger's accounts and settler (packages/ledger/src/accounts.ts,     *)
(* settler.ts), as operators on a ledger value, so that the live ledger    *)
(* and one that is rebuilt from the stream use the same arithmetic.        *)
(*                                                                         *)
(*   l.balances   user -> asset -> [free, locked]; an account exists with  *)
(*                its endowment from the first touch, hence from the start *)
(*   l.openBuys   order id -> [price, remaining] of the open limit buys    *)
(*   l.thrown     an operation threw: what follows it is not executed, and *)
(*                what came before it stays                                *)
(***************************************************************************)
EXTENDS OrderBook

CONSTANTS
  House,        \* the account "exchange" that collects the fees
  BtcOne,       \* base units of one BTC
  FeeNum,       \* the taker fee is FeeNum / FeeDen of what the taker receives
  FeeDen,
  InitialBTC,   \* the endowment of an account
  InitialUSDC

ASSUME LedgerAssumption ==
  /\ IsFiniteSet(Users) /\ House \notin Users
  /\ BtcOne \in Nat \ {0} /\ FeeDen \in Nat \ {0}
  /\ FeeNum \in 0..FeeDen
  /\ InitialBTC \in Nat /\ InitialUSDC \in Nat

Assets == {"BTC", "USDC"}

Holders == Users \cup {House}

Balance == [free : Int, locked : Int]

InitialBalances == [BTC |-> InitialBTC, USDC |-> InitialUSDC]

FreshLedger ==
  [balances |-> [u \in Holders |->
                   [a \in Assets |-> [free |-> InitialBalances[a], locked |-> 0]]],
   openBuys |-> EmptyMap,
   thrown   |-> FALSE]

(* Quote units for a quantity of base units, rounded down. *)
NotionalQuote(price, qtyBase) == (price * qtyBase) \div BtcOne

Fee(amount) == (amount * FeeNum) \div FeeDen

FreeOf(l, user, asset) == l.balances[user][asset].free
LockedOf(l, user, asset) == l.balances[user][asset].locked

-----------------------------------------------------------------------------
(* accounts.ts *)

Shift(l, user, asset, free, locked) ==
  [l EXCEPT !.balances[user][asset] =
     [free |-> FreeOf(l, user, asset) + free, locked |-> LockedOf(l, user, asset) + locked]]

Throw(l) == [l EXCEPT !.thrown = TRUE]

CanReserve(l, user, asset, amount) == amount > 0 /\ FreeOf(l, user, asset) >= amount

Reserve(l, user, asset, amount) ==
  IF l.thrown THEN l
  ELSE IF CanReserve(l, user, asset, amount)
  THEN Shift(l, user, asset, -amount, amount)
  ELSE Throw(l)

Release(l, user, asset, amount) ==
  IF l.thrown THEN l
  ELSE IF amount > 0 /\ LockedOf(l, user, asset) >= amount
  THEN Shift(l, user, asset, amount, -amount)
  ELSE Throw(l)

Credit(l, user, asset, amount) ==
  IF l.thrown THEN l ELSE Shift(l, user, asset, amount, 0)

DebitLockedCreditFree(l, user, paid, received) ==
  IF l.thrown THEN l
  ELSE IF LockedOf(l, user, paid.asset) >= paid.amount
  THEN Credit(Shift(l, user, paid.asset, 0, -paid.amount),
              user, received.asset, received.amount)
  ELSE Throw(l)

-----------------------------------------------------------------------------
(* settler.ts *)

Of(asset, amount) == [asset |-> asset, amount |-> amount]

(* What the gateway reserves for an order (clients.ts) and the settler      *)
(* locks for it in replay.                                                  *)
ReserveForOrder(side, price, qty) ==
  IF side = "buy" THEN Of("USDC", NotionalQuote(price, qty)) ELSE Of("BTC", qty)

TrackOrder(l, o) ==
  IF o.side = "buy" /\ o.type # "MARKET"
  THEN [l EXCEPT !.openBuys = Put(@, o.orderId, [price |-> o.price, remaining |-> o.qty])]
  ELSE l

LockForOrder(l, o) ==
  LET lock == ReserveForOrder(o.side, o.price, o.qty)
  IN Reserve(l, o.userId, lock.asset, lock.amount)

Forget(l, orderId) ==
  IF l.thrown THEN l
  ELSE [l EXCEPT !.openBuys = Restrict(@, DOMAIN @ \ {orderId})]

(* Mutant: the entry of a filled order is kept. *)
DecrementKeepingEntry(l, orderId, qty) ==
  IF l.thrown \/ orderId \notin DOMAIN l.openBuys THEN l
  ELSE [l EXCEPT !.openBuys[orderId].remaining = @ - qty]

DecrementOpenBuy(l, orderId, qty) ==
  IF l.thrown \/ orderId \notin DOMAIN l.openBuys THEN l
  ELSE IF l.openBuys[orderId].remaining <= qty THEN Forget(l, orderId)
  ELSE [l EXCEPT !.openBuys[orderId].remaining = @ - qty]

(* Mutant: the surplus is rounded up. *)
SurplusRoundedUp(l, ev) ==
  IF ev.aggressor = "buy" /\ ev.takerOrderId \in DOMAIN l.openBuys
  THEN ((l.openBuys[ev.takerOrderId].price - ev.price) * ev.qty + BtcOne - 1) \div BtcOne
  ELSE 0

(* Price improvement: what a buying taker locked above the fill price. *)
Surplus(l, ev) ==
  IF ev.aggressor = "buy" /\ ev.takerOrderId \in DOMAIN l.openBuys
  THEN NotionalQuote(l.openBuys[ev.takerOrderId].price - ev.price, ev.qty)
  ELSE 0

ReleaseSurplus(l, ev) ==
  IF Surplus(l, ev) > 0 THEN Release(l, ev.takerUserId, "USDC", Surplus(l, ev)) ELSE l

Buyer(ev) == IF ev.aggressor = "buy" THEN ev.takerUserId ELSE ev.makerUserId
Seller(ev) == IF ev.aggressor = "buy" THEN ev.makerUserId ELSE ev.takerUserId
BuyOrderId(ev) == IF ev.aggressor = "buy" THEN ev.takerOrderId ELSE ev.makerOrderId

(* Only the taker pays a fee, in the asset it receives. *)
BuyerFee(ev) == IF ev.aggressor = "buy" THEN Fee(ev.qty) ELSE 0
SellerFee(ev) ==
  IF ev.aggressor = "sell" THEN Fee(NotionalQuote(ev.price, ev.qty)) ELSE 0

(* Mutant: the seller's proceeds are not reduced by the fee. *)
PayFeeFromNowhere(l, ev) ==
  LET notional == NotionalQuote(ev.price, ev.qty)
      bought == DebitLockedCreditFree(l, Buyer(ev), Of("USDC", notional),
                  Of("BTC", ev.qty - BuyerFee(ev)))
      sold   == DebitLockedCreditFree(bought, Seller(ev), Of("BTC", ev.qty),
                  Of("USDC", notional))
  IN Credit(Credit(sold, House, "BTC", BuyerFee(ev)), House, "USDC", SellerFee(ev))

Pay(l, ev) ==
  LET notional == NotionalQuote(ev.price, ev.qty)
      bought == DebitLockedCreditFree(l, Buyer(ev), Of("USDC", notional),
                  Of("BTC", ev.qty - BuyerFee(ev)))
      sold   == DebitLockedCreditFree(bought, Seller(ev), Of("BTC", ev.qty),
                  Of("USDC", notional - SellerFee(ev)))
  IN Credit(Credit(sold, House, "BTC", BuyerFee(ev)), House, "USDC", SellerFee(ev))

Settle(l, ev) ==
  DecrementOpenBuy(ReleaseSurplus(Pay(l, ev), ev), BuyOrderId(ev), ev.qty)

(* Mutant: a canceled order keeps its funds locked. *)
KeepRemainder(l, ev) == l

ReleaseRemainder(l, ev) ==
  LET left == ReserveForOrder(ev.side, ev.price, ev.remaining)
  IN IF left.amount > 0 THEN Release(l, ev.userId, left.asset, left.amount) ELSE l

(* Mutant: replay leaves the locking to the gateway too. *)
ApplyWithoutLock(l, ev, mode) ==
  LET fresh == [l EXCEPT !.thrown = FALSE]
  IN CASE ev.kind = "OrderAccepted" -> TrackOrder(fresh, ev.order)
       [] ev.kind = "OrderRejected" -> fresh
       [] ev.kind = "Trade"         -> Settle(fresh, ev)
       [] ev.kind = "OrderCanceled" -> Forget(ReleaseRemainder(fresh, ev), ev.orderId)

(* apply(): one event, inside the consumer's try and catch. *)
Apply(l, ev, mode) ==
  LET fresh == [l EXCEPT !.thrown = FALSE]
  IN CASE ev.kind = "OrderAccepted" ->
            IF mode = "replay" THEN LockForOrder(TrackOrder(fresh, ev.order), ev.order)
            ELSE TrackOrder(fresh, ev.order)
       [] ev.kind = "OrderRejected" -> fresh
       [] ev.kind = "Trade"         -> Settle(fresh, ev)
       [] ev.kind = "OrderCanceled" -> Forget(ReleaseRemainder(fresh, ev), ev.orderId)

(* A ledger that replays the whole of a stream, and a new one that does. *)
Replayed(l, stream) == FoldLeft(LAMBDA m, ev : Apply(m, ev, "replay"), l, stream)

Rebuild(stream) == Replayed(FreshLedger, stream)

-----------------------------------------------------------------------------
(* What a stream leaves locked for good; for properties. *)

(* The prices at which the first i events of a stream accept an order.      *)
Limits(s, i, orderId) ==
  {s[j].order.price : j \in {x \in 1..i : /\ s[x].kind = "OrderAccepted"
                                          /\ s[x].order.orderId = orderId}}

(* A fill of a buying taker behind the cancel of its own order.  The settler *)
(* has dropped the limit price by then and releases no surplus.             *)
LateFill(s, i) ==
  /\ s[i].kind = "Trade" /\ s[i].aggressor = "buy"
  /\ \E j \in 1..i : s[j].kind = "OrderCanceled" /\ s[j].orderId = s[i].takerOrderId

LostSurplus(s, i) ==
  LET limit == CHOOSE price \in Limits(s, i, s[i].takerOrderId) : TRUE
  IN NotionalQuote(limit - s[i].price, s[i].qty)
=============================================================================
