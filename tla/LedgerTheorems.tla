--------------------------- MODULE LedgerTheorems ----------------------------
(***************************************************************************)
(* Theorems about the ledger: what each operation does to one balance and  *)
(* to the sum of all, what a settlement does, and what the accounts are that *)
(* a stream of events adds up to.                                          *)
(*                                                                         *)
(* An event is payable where what it takes was locked before it.  The stream *)
(* of a matcher only has payable events, because the ledger at any of its  *)
(* points owes what is open there: what a user has locked covers what its  *)
(* open orders can still cost, up to the rounding of its fills.            *)
(***************************************************************************)
EXTENDS Ledger, BookTheorems

-----------------------------------------------------------------------------
(* The operations of the accounts. *)

OpenBuy == [price : Nat, remaining : Nat]

(* A ledger none of whose operations has thrown.                           *)
LedgerOK(l) ==
  /\ l = [balances |-> l.balances, openBuys |-> l.openBuys, thrown |-> FALSE]
  /\ l.balances \in [Holders -> [Assets -> Balance]]
  /\ l.openBuys \in [DOMAIN l.openBuys -> OpenBuy]

(* What one account holds, free or locked, and all of them together.       *)
Wealth(l, u, a) == FreeOf(l, u, a) + LockedOf(l, u, a)

Held(l, a) == Sigma([u \in Holders |-> Wealth(l, u, a)], Holders)

(* x if the account v and its asset b are those of u and a.                *)
For(u, a, x, v, b) == IF v = u /\ b = a THEN x ELSE 0

(* m is l but for one balance: its free and locked parts changed by free   *)
(* and locked, and with them what all accounts hold together.              *)
Shifted(l, m, u, a, free, locked) ==
  /\ LedgerOK(m) /\ m.openBuys = l.openBuys
  /\ \A v \in Holders : \A b \in Assets :
       /\ FreeOf(m, v, b) = FreeOf(l, v, b) + For(u, a, free, v, b)
       /\ LockedOf(m, v, b) = LockedOf(l, v, b) + For(u, a, locked, v, b)
  /\ \A b \in Assets : Held(m, b) = Held(l, b) + IF b = a THEN free + locked ELSE 0

LEMMA BalanceTypes ==
  ASSUME NEW l, LedgerOK(l), NEW u \in Holders, NEW a \in Assets
  PROVE  /\ FreeOf(l, u, a) \in Int /\ LockedOf(l, u, a) \in Int
         /\ Wealth(l, u, a) \in Int
         /\ l.balances[u][a] = [free |-> FreeOf(l, u, a), locked |-> LockedOf(l, u, a)]
         /\ ~l.thrown
<1>1. l.balances[u][a] \in Balance
  BY DEF LedgerOK
<1>2. ~l.thrown
  BY DEF LedgerOK
<1> QED BY <1>1, <1>2 DEF Balance, FreeOf, LockedOf, Wealth

LEMMA HeldType ==
  ASSUME IsFiniteSet(Holders), NEW l, LedgerOK(l), NEW a \in Assets
  PROVE  Held(l, a) \in Int
<1> DEFINE w == [u \in Holders |-> Wealth(l, u, a)]
<1>1. Weighs(w, Holders)
  BY BalanceTypes DEF Weighs
<1> HIDE DEF w
<1>2. Sigma(w, Holders) \in Int
  BY <1>1, SigmaLaws
<1> QED BY <1>2 DEF Held, w

LEMMA ShiftEffect ==
  ASSUME IsFiniteSet(Holders), NEW l, LedgerOK(l), NEW u \in Holders, NEW a \in Assets,
         NEW free \in Int, NEW locked \in Int
  PROVE  Shifted(l, Shift(l, u, a, free, locked), u, a, free, locked)
<1> DEFINE new == [free |-> FreeOf(l, u, a) + free, locked |-> LockedOf(l, u, a) + locked]
           mine == [l.balances[u] EXCEPT ![a] = new]
           bs == [l.balances EXCEPT ![u] = mine]
           m == Shift(l, u, a, free, locked)
<1>1. new \in Balance
  <2>1. FreeOf(l, u, a) \in Int /\ LockedOf(l, u, a) \in Int
    BY BalanceTypes
  <2> QED BY <2>1 DEF Balance
<1>2. mine \in [Assets -> Balance] /\ mine[a] = new
      /\ \A b \in Assets \ {a} : mine[b] = l.balances[u][b]
  BY <1>1 DEF LedgerOK
<1>3. m = [l EXCEPT !.balances = bs]
  BY DEF Shift
<1> HIDE DEF new, mine, m
<1>4. bs \in [Holders -> [Assets -> Balance]] /\ bs[u] = mine
      /\ \A v \in Holders \ {u} : bs[v] = l.balances[v]
  BY <1>2 DEF LedgerOK
<1> HIDE DEF bs
<1>5. m = [balances |-> bs, openBuys |-> l.openBuys, thrown |-> FALSE]
  <2> DEFINE os == l.openBuys  cs == l.balances
  <2>1. l = [balances |-> cs, openBuys |-> os, thrown |-> FALSE]
    BY DEF LedgerOK
  <2> HIDE DEF os, cs
  <2>2. m = [balances |-> bs, openBuys |-> os, thrown |-> FALSE]
    BY <1>3, <2>1
  <2> QED BY <2>2 DEF os
<1>6. LedgerOK(m) /\ m.openBuys = l.openBuys /\ m.balances = bs
  BY <1>4, <1>5 DEF LedgerOK
<1>7. ASSUME NEW v \in Holders, NEW b \in Assets
      PROVE  /\ FreeOf(m, v, b) = FreeOf(l, v, b) + For(u, a, free, v, b)
             /\ LockedOf(m, v, b) = LockedOf(l, v, b) + For(u, a, locked, v, b)
  <2>0. FreeOf(l, v, b) \in Int /\ LockedOf(l, v, b) \in Int
    BY BalanceTypes
  <2>1. CASE v = u /\ b = a
    <3>1. m.balances[v][b] = new
      BY <1>2, <1>4, <1>6, <2>1
    <3> QED BY <2>1, <3>1 DEF new, FreeOf, LockedOf, For
  <2>2. CASE ~(v = u /\ b = a)
    <3>1. m.balances[v][b] = l.balances[v][b]
      BY <1>2, <1>4, <1>6, <2>2
    <3> QED BY <2>0, <2>2, <3>1 DEF FreeOf, LockedOf, For
  <2> QED BY <2>1, <2>2
<1>8. ASSUME NEW b \in Assets
      PROVE  Held(m, b) = Held(l, b) + IF b = a THEN free + locked ELSE 0
  <2> DEFINE w == [v \in Holders |-> Wealth(l, v, b)]
             x == [v \in Holders |-> Wealth(m, v, b)]
  <2>1. Weighs(w, Holders) /\ Weighs(x, Holders)
    BY <1>6, BalanceTypes DEF Weighs
  <2>2. \A v \in Holders \ {u} : x[v] = w[v]
    <3> SUFFICES ASSUME NEW v \in Holders \ {u} PROVE Wealth(m, v, b) = Wealth(l, v, b)
      OBVIOUS
    <3>1. /\ FreeOf(m, v, b) = FreeOf(l, v, b) + For(u, a, free, v, b)
          /\ LockedOf(m, v, b) = LockedOf(l, v, b) + For(u, a, locked, v, b)
          /\ FreeOf(l, v, b) \in Int /\ LockedOf(l, v, b) \in Int
      BY <1>7, BalanceTypes
    <3> QED BY <3>1 DEF Wealth, For
  <2>3. x[u] = w[u] + IF b = a THEN free + locked ELSE 0
    <3>1. /\ FreeOf(m, u, b) = FreeOf(l, u, b) + For(u, a, free, u, b)
          /\ LockedOf(m, u, b) = LockedOf(l, u, b) + For(u, a, locked, u, b)
          /\ FreeOf(l, u, b) \in Int /\ LockedOf(l, u, b) \in Int
      BY <1>7, BalanceTypes
    <3> QED BY <3>1 DEF Wealth, For
  <2>4. Sigma(x, Holders) = Sigma(w, Holders) + x[u] - w[u]
    <3> HIDE DEF w, x
    <3> QED BY <2>1, <2>2, SigmaChange
  <2>5. w[u] \in Int /\ Sigma(w, Holders) \in Int
    BY <2>1, SigmaLaws DEF Weighs
  <2> QED BY <2>3, <2>4, <2>5 DEF Held
<1>9. m = Shift(l, u, a, free, locked)
  BY DEF m
<1> QED BY <1>6, <1>7, <1>8, <1>9 DEF Shifted

(* Nobody can pay out more than is there.                                  *)
LEMMA ReserveEffect ==
  ASSUME IsFiniteSet(Holders), NEW l, LedgerOK(l), NEW u \in Holders, NEW a \in Assets,
         NEW amount \in Nat, amount > 0, amount <= FreeOf(l, u, a)
  PROVE  Shifted(l, Reserve(l, u, a, amount), u, a, -amount, amount)
<1>1. FreeOf(l, u, a) \in Int /\ ~l.thrown
  BY BalanceTypes
<1>2. -amount \in Int /\ CanReserve(l, u, a, amount)
  BY <1>1 DEF CanReserve
<1> QED BY <1>1, <1>2, ShiftEffect DEF Reserve

LEMMA ReleaseEffect ==
  ASSUME IsFiniteSet(Holders), NEW l, LedgerOK(l), NEW u \in Holders, NEW a \in Assets,
         NEW amount \in Nat, amount > 0, amount <= LockedOf(l, u, a)
  PROVE  Shifted(l, Release(l, u, a, amount), u, a, amount, -amount)
<1>1. LockedOf(l, u, a) \in Int /\ ~l.thrown
  BY BalanceTypes
<1>2. -amount \in Int /\ LockedOf(l, u, a) >= amount
  BY <1>1
<1> QED BY <1>1, <1>2, ShiftEffect DEF Release

LEMMA CreditEffect ==
  ASSUME IsFiniteSet(Holders), NEW l, LedgerOK(l), NEW u \in Holders, NEW a \in Assets,
         NEW amount \in Int
  PROVE  Shifted(l, Credit(l, u, a, amount), u, a, amount, 0)
<1>1. ~l.thrown
  BY BalanceTypes
<1> QED BY <1>1, ShiftEffect DEF Credit

LEMMA DebitEffect ==
  ASSUME IsFiniteSet(Holders), NEW l, LedgerOK(l), NEW u \in Holders,
         NEW a \in Assets, NEW paid \in Nat, paid <= LockedOf(l, u, a),
         NEW b \in Assets, NEW received \in Int
  PROVE  \E k : /\ Shifted(l, k, u, a, 0, -paid)
                /\ Shifted(k, DebitLockedCreditFree(l, u, Of(a, paid), Of(b, received)),
                           u, b, received, 0)
<1> DEFINE k == Shift(l, u, a, 0, -paid)
           m == DebitLockedCreditFree(l, u, Of(a, paid), Of(b, received))
<1>0. LockedOf(l, u, a) \in Int /\ ~l.thrown
  BY BalanceTypes
<1>1. -paid \in Int /\ ~l.thrown /\ LockedOf(l, u, a) >= paid
  BY <1>0
<1>2. Shifted(l, k, u, a, 0, -paid) /\ LedgerOK(k)
  BY <1>1, ShiftEffect DEF Shifted
<1>3. m = Credit(k, u, b, received)
  BY <1>1 DEF DebitLockedCreditFree, Of
<1> HIDE DEF k, m
<1>4. Shifted(k, Credit(k, u, b, received), u, b, received, 0)
  BY <1>2, CreditEffect
<1>5. m = DebitLockedCreditFree(l, u, Of(a, paid), Of(b, received))
  BY DEF m
<1> QED BY <1>2, <1>3, <1>4, <1>5

-----------------------------------------------------------------------------
(* What the events do to the balances: what they add to a free balance and *)
(* take from a locked one, and in replay what they move from free to       *)
(* locked.                                                                 *)

IsTrade(ev) ==
  /\ ev.kind = "Trade"
  /\ ev.price \in Nat /\ ev.qty \in Nat /\ ev.aggressor \in Sides
  /\ ev.takerUserId \in Users /\ ev.makerUserId \in Users

Notional(ev) == NotionalQuote(ev.price, ev.qty)

(* What the price improvement gives back.                                  *)
Improved(l, ev) == IF Surplus(l, ev) > 0 THEN Surplus(l, ev) ELSE 0

TradeGain(l, ev, v, b) ==
  For(Buyer(ev), "BTC", ev.qty - BuyerFee(ev), v, b)
  + For(Seller(ev), "USDC", Notional(ev) - SellerFee(ev), v, b)
  + For(House, "BTC", BuyerFee(ev), v, b) + For(House, "USDC", SellerFee(ev), v, b)
  + For(ev.takerUserId, "USDC", Improved(l, ev), v, b)

TradeCost(l, ev, v, b) ==
  For(Buyer(ev), "USDC", Notional(ev), v, b) + For(Seller(ev), "BTC", ev.qty, v, b)
  + For(ev.takerUserId, "USDC", Improved(l, ev), v, b)

LEMMA NotionalType ==
  ASSUME NEW price \in Nat, NEW qty \in Nat
  PROVE  NotionalQuote(price, qty) \in Nat
BY LedgerAssumption DEF NotionalQuote

LEMMA FeeType ==
  ASSUME NEW amount \in Nat
  PROVE  Fee(amount) \in Nat /\ Fee(amount) <= amount
<1>1. /\ FeeNum \in Nat /\ FeeDen \in Nat \ {0} /\ FeeNum <= FeeDen
  BY LedgerAssumption
<1>2. amount * FeeNum \in Nat /\ amount * FeeNum <= amount * FeeDen
  BY <1>1
<1> DEFINE x == amount * FeeNum
<1> HIDE DEF x
<1>3. x \in Nat /\ x <= amount * FeeDen
  BY <1>2 DEF x
<1>4. x \div FeeDen \in Nat /\ x \div FeeDen <= amount
  BY <1>1, <1>3
<1> QED BY <1>4 DEF Fee, x

LEMMA TradeTerms ==
  ASSUME NEW l, LedgerOK(l), NEW ev, IsTrade(ev)
  PROVE  /\ Buyer(ev) \in Holders /\ Seller(ev) \in Holders /\ House \in Holders
         /\ ev.takerUserId \in Holders
         /\ Notional(ev) \in Nat /\ Improved(l, ev) \in Nat
         /\ BuyerFee(ev) \in Nat /\ ev.qty - BuyerFee(ev) \in Nat
         /\ SellerFee(ev) \in Nat /\ Notional(ev) - SellerFee(ev) \in Nat
<1>1. Notional(ev) \in Nat
  BY NotionalType DEF IsTrade, Notional
<1>2. BuyerFee(ev) \in Nat /\ ev.qty - BuyerFee(ev) \in Nat
  <2>1. ev.qty \in Nat /\ Fee(ev.qty) \in Nat /\ Fee(ev.qty) <= ev.qty
    BY FeeType DEF IsTrade
  <2> QED BY <2>1 DEF BuyerFee
<1>3. SellerFee(ev) \in Nat /\ Notional(ev) - SellerFee(ev) \in Nat
  <2>1. Fee(Notional(ev)) \in Nat /\ Fee(Notional(ev)) <= Notional(ev)
    BY <1>1, FeeType
  <2> QED BY <1>1, <2>1 DEF SellerFee, Notional
<1>4. Improved(l, ev) \in Nat
  <2>1. CASE ev.aggressor = "buy" /\ ev.takerOrderId \in DOMAIN l.openBuys
    <3>1. l.openBuys[ev.takerOrderId].price \in Nat
      BY <2>1 DEF LedgerOK, OpenBuy
    <3> DEFINE d == (l.openBuys[ev.takerOrderId].price - ev.price) * ev.qty
    <3>2. d \in Int
      BY <3>1 DEF IsTrade
    <3>3. Surplus(l, ev) = d \div BtcOne
      BY <2>1 DEF Surplus, NotionalQuote
    <3> HIDE DEF d
    <3>4. d \div BtcOne \in Int
      BY <3>2, LedgerAssumption
    <3> QED BY <3>3, <3>4 DEF Improved
  <2>2. CASE ~(ev.aggressor = "buy" /\ ev.takerOrderId \in DOMAIN l.openBuys)
    BY <2>2 DEF Improved, Surplus
  <2> QED BY <2>1, <2>2
<1>5. /\ Buyer(ev) \in Holders /\ Seller(ev) \in Holders /\ House \in Holders
      /\ ev.takerUserId \in Holders
  BY DEF IsTrade, Buyer, Seller, Holders
<1> QED BY <1>1, <1>2, <1>3, <1>4, <1>5

(* What each trade pays was locked for it.                                 *)
LEMMA PayEffect ==
  ASSUME IsFiniteSet(Holders), NEW l, LedgerOK(l), NEW ev, IsTrade(ev),
         \A v \in Holders : \A b \in Assets : TradeCost(l, ev, v, b) <= LockedOf(l, v, b),
         NEW m, m = ReleaseSurplus(Pay(l, ev), ev)
  PROVE  /\ LedgerOK(m) /\ m.openBuys = l.openBuys
         /\ \A v \in Holders : \A b \in Assets :
              /\ FreeOf(m, v, b) = FreeOf(l, v, b) + TradeGain(l, ev, v, b)
              /\ LockedOf(m, v, b) = LockedOf(l, v, b) - TradeCost(l, ev, v, b)
         /\ \A b \in Assets : Held(m, b) = Held(l, b)
<1> DEFINE n == Notional(ev)  q == ev.qty  bf == BuyerFee(ev)  sf == SellerFee(ev)
           s == Improved(l, ev)  buyer == Buyer(ev)  seller == Seller(ev)
           taker == ev.takerUserId
<1>1. /\ buyer \in Holders /\ seller \in Holders /\ House \in Holders /\ taker \in Holders
      /\ n \in Nat /\ s \in Nat /\ bf \in Nat /\ q - bf \in Nat
      /\ sf \in Nat /\ n - sf \in Nat /\ q \in Nat
  BY TradeTerms DEF IsTrade
<1>2. \A v \in Holders : \A b \in Assets :
        /\ FreeOf(l, v, b) \in Int /\ LockedOf(l, v, b) \in Int
        /\ For(buyer, "USDC", n, v, b) + For(seller, "BTC", q, v, b)
             + For(taker, "USDC", s, v, b) <= LockedOf(l, v, b)
  BY BalanceTypes DEF TradeCost
<1>3. "USDC" \in Assets /\ "BTC" \in Assets
  BY DEF Assets
<1> DEFINE bought == DebitLockedCreditFree(l, buyer, Of("USDC", n), Of("BTC", q - bf))
           sold == DebitLockedCreditFree(bought, seller, Of("BTC", q), Of("USDC", n - sf))
           fee1 == Credit(sold, House, "BTC", bf)
           paid == Credit(fee1, House, "USDC", sf)
<1>4. paid = Pay(l, ev)
  BY DEF Pay, Notional
<1>5. m = IF Surplus(paid, ev) > 0 THEN Release(paid, taker, "USDC", Surplus(paid, ev)) ELSE paid
  BY <1>4 DEF ReleaseSurplus
<1> HIDE DEF n, q, bf, sf, s, buyer, seller, taker
<1>6. n <= LockedOf(l, buyer, "USDC")
  <2>1. For(buyer, "USDC", n, buyer, "USDC") = n
        /\ For(seller, "BTC", q, buyer, "USDC") = 0
        /\ For(taker, "USDC", s, buyer, "USDC") \in Nat
    BY <1>1 DEF For
  <2> QED BY <1>1, <1>2, <1>3, <2>1
<1>7. PICK k1 : Shifted(l, k1, buyer, "USDC", 0, -n) /\ Shifted(k1, bought, buyer, "BTC", q - bf, 0)
  BY <1>1, <1>3, <1>6, DebitEffect
<1>8. LedgerOK(k1) /\ LedgerOK(bought)
  BY <1>7 DEF Shifted
<1> HIDE DEF bought
<1>9. q <= LockedOf(bought, seller, "BTC")
  <2>1. /\ LockedOf(k1, seller, "BTC") = LockedOf(l, seller, "BTC") + For(buyer, "USDC", -n, seller, "BTC")
        /\ LockedOf(bought, seller, "BTC") = LockedOf(k1, seller, "BTC") + For(buyer, "BTC", 0, seller, "BTC")
    BY <1>1, <1>3, <1>7 DEF Shifted
  <2>2. For(buyer, "USDC", n, seller, "BTC") + For(seller, "BTC", q, seller, "BTC")
          + For(taker, "USDC", s, seller, "BTC") <= LockedOf(l, seller, "BTC")
        /\ LockedOf(l, seller, "BTC") \in Int
    BY <1>1, <1>2, <1>3
  <2> QED BY <1>1, <2>1, <2>2 DEF For
<1>10. PICK k2 : Shifted(bought, k2, seller, "BTC", 0, -q) /\ Shifted(k2, sold, seller, "USDC", n - sf, 0)
  BY <1>1, <1>3, <1>8, <1>9, DebitEffect
<1>11. LedgerOK(k2) /\ LedgerOK(sold)
  BY <1>10 DEF Shifted
<1> HIDE DEF sold
<1>12. Shifted(sold, fee1, House, "BTC", bf, 0) /\ LedgerOK(fee1)
  BY <1>1, <1>3, <1>11, CreditEffect DEF Shifted
<1> HIDE DEF fee1
<1>13. Shifted(fee1, paid, House, "USDC", sf, 0) /\ LedgerOK(paid)
  <2>1. sf \in Int
    BY <1>1
  <2>2. Shifted(fee1, paid, House, "USDC", sf, 0)
    BY <1>1, <1>3, <1>12, <2>1, CreditEffect
  <2> QED BY <2>2 DEF Shifted
<1> HIDE DEF paid
<1>14. paid.openBuys = l.openBuys
  BY <1>7, <1>10, <1>12, <1>13 DEF Shifted
<1>15. \A v \in Holders : \A b \in Assets :
         /\ FreeOf(paid, v, b) = FreeOf(l, v, b) + For(buyer, "BTC", q - bf, v, b)
              + For(seller, "USDC", n - sf, v, b) + For(House, "BTC", bf, v, b)
              + For(House, "USDC", sf, v, b)
         /\ LockedOf(paid, v, b) = LockedOf(l, v, b) - For(buyer, "USDC", n, v, b)
              - For(seller, "BTC", q, v, b)
  <2> SUFFICES ASSUME NEW v \in Holders, NEW b \in Assets
               PROVE  /\ FreeOf(paid, v, b) = FreeOf(l, v, b) + For(buyer, "BTC", q - bf, v, b)
                           + For(seller, "USDC", n - sf, v, b) + For(House, "BTC", bf, v, b)
                           + For(House, "USDC", sf, v, b)
                      /\ LockedOf(paid, v, b) = LockedOf(l, v, b) - For(buyer, "USDC", n, v, b)
                           - For(seller, "BTC", q, v, b)
    OBVIOUS
  <2>1. /\ FreeOf(k1, v, b) = FreeOf(l, v, b) + For(buyer, "USDC", 0, v, b)
        /\ FreeOf(bought, v, b) = FreeOf(k1, v, b) + For(buyer, "BTC", q - bf, v, b)
        /\ FreeOf(k2, v, b) = FreeOf(bought, v, b) + For(seller, "BTC", 0, v, b)
        /\ FreeOf(sold, v, b) = FreeOf(k2, v, b) + For(seller, "USDC", n - sf, v, b)
        /\ FreeOf(fee1, v, b) = FreeOf(sold, v, b) + For(House, "BTC", bf, v, b)
        /\ FreeOf(paid, v, b) = FreeOf(fee1, v, b) + For(House, "USDC", sf, v, b)
    BY <1>7, <1>10, <1>12, <1>13 DEF Shifted
  <2>2. /\ LockedOf(k1, v, b) = LockedOf(l, v, b) + For(buyer, "USDC", -n, v, b)
        /\ LockedOf(bought, v, b) = LockedOf(k1, v, b) + For(buyer, "BTC", 0, v, b)
        /\ LockedOf(k2, v, b) = LockedOf(bought, v, b) + For(seller, "BTC", -q, v, b)
        /\ LockedOf(sold, v, b) = LockedOf(k2, v, b) + For(seller, "USDC", 0, v, b)
        /\ LockedOf(fee1, v, b) = LockedOf(sold, v, b) + For(House, "BTC", 0, v, b)
        /\ LockedOf(paid, v, b) = LockedOf(fee1, v, b) + For(House, "USDC", 0, v, b)
    BY <1>7, <1>10, <1>12, <1>13 DEF Shifted
  <2>3. FreeOf(l, v, b) \in Int /\ LockedOf(l, v, b) \in Int
    BY <1>2
  <2>4. FreeOf(paid, v, b) = FreeOf(l, v, b) + For(buyer, "BTC", q - bf, v, b)
          + For(seller, "USDC", n - sf, v, b) + For(House, "BTC", bf, v, b)
          + For(House, "USDC", sf, v, b)
    BY <1>1, <2>1, <2>3 DEF For
  <2>5. LockedOf(paid, v, b) = LockedOf(l, v, b) - For(buyer, "USDC", n, v, b)
          - For(seller, "BTC", q, v, b)
    BY <1>1, <2>2, <2>3 DEF For
  <2> QED BY <2>4, <2>5
<1>16. \A b \in Assets : Held(paid, b) = Held(l, b) /\ Held(l, b) \in Int
  <2> SUFFICES ASSUME NEW b \in Assets PROVE Held(paid, b) = Held(l, b) /\ Held(l, b) \in Int
    OBVIOUS
  <2>1. Held(l, b) \in Int
    <3>1. Weighs([v \in Holders |-> Wealth(l, v, b)], Holders)
      BY BalanceTypes DEF Weighs
    <3> QED BY <3>1, SigmaLaws DEF Held
  <2>2. /\ Held(k1, b) = Held(l, b) + IF b = "USDC" THEN 0 + -n ELSE 0
        /\ Held(bought, b) = Held(k1, b) + IF b = "BTC" THEN q - bf + 0 ELSE 0
        /\ Held(k2, b) = Held(bought, b) + IF b = "BTC" THEN 0 + -q ELSE 0
        /\ Held(sold, b) = Held(k2, b) + IF b = "USDC" THEN n - sf + 0 ELSE 0
        /\ Held(fee1, b) = Held(sold, b) + IF b = "BTC" THEN bf + 0 ELSE 0
        /\ Held(paid, b) = Held(fee1, b) + IF b = "USDC" THEN sf + 0 ELSE 0
    BY <1>7, <1>10, <1>12, <1>13 DEF Shifted
  <2> QED BY <1>1, <2>1, <2>2 DEF Assets
<1>17. Surplus(paid, ev) = Surplus(l, ev)
  BY <1>14 DEF Surplus
<1>18. CASE Surplus(l, ev) > 0
  <2>1. s = Surplus(l, ev) /\ s > 0
    BY <1>18 DEF s, Improved
  <2>2. s <= LockedOf(paid, taker, "USDC")
    <3>1. For(buyer, "USDC", n, taker, "USDC") + For(seller, "BTC", q, taker, "USDC")
            + For(taker, "USDC", s, taker, "USDC") <= LockedOf(l, taker, "USDC")
          /\ LockedOf(l, taker, "USDC") \in Int
          /\ LockedOf(paid, taker, "USDC") = LockedOf(l, taker, "USDC")
               - For(buyer, "USDC", n, taker, "USDC") - For(seller, "BTC", q, taker, "USDC")
      BY <1>1, <1>2, <1>3, <1>15
    <3> QED BY <1>1, <3>1 DEF For
  <2>3. m = Release(paid, taker, "USDC", s)
    BY <1>5, <1>17, <1>18, <2>1
  <2>4. Shifted(paid, m, taker, "USDC", s, -s)
    BY <1>1, <1>3, <1>13, <2>1, <2>2, <2>3, ReleaseEffect
  <2>5. \A v \in Holders : \A b \in Assets :
          /\ FreeOf(m, v, b) = FreeOf(paid, v, b) + For(taker, "USDC", s, v, b)
          /\ LockedOf(m, v, b) = LockedOf(paid, v, b) + For(taker, "USDC", -s, v, b)
    BY <2>4 DEF Shifted
  <2>6. \A b \in Assets : Held(m, b) = Held(paid, b) + IF b = "USDC" THEN s + -s ELSE 0
    BY <2>4 DEF Shifted
  <2>7. \A b \in Assets : Held(m, b) = Held(l, b)
    BY <1>1, <1>16, <2>6
  <2>8. ASSUME NEW v \in Holders, NEW b \in Assets
        PROVE  /\ FreeOf(m, v, b) = FreeOf(l, v, b) + TradeGain(l, ev, v, b)
               /\ LockedOf(m, v, b) = LockedOf(l, v, b) - TradeCost(l, ev, v, b)
    <3>1. FreeOf(l, v, b) \in Int /\ LockedOf(l, v, b) \in Int
      BY <1>2
    <3>2. FreeOf(m, v, b) = FreeOf(l, v, b) + For(buyer, "BTC", q - bf, v, b)
              + For(seller, "USDC", n - sf, v, b) + For(House, "BTC", bf, v, b)
              + For(House, "USDC", sf, v, b) + For(taker, "USDC", s, v, b)
      BY <1>15, <2>5
    <3>3. LockedOf(m, v, b) = LockedOf(l, v, b) - For(buyer, "USDC", n, v, b)
            - For(seller, "BTC", q, v, b) + For(taker, "USDC", -s, v, b)
      BY <1>15, <2>5
    <3>4. FreeOf(m, v, b) = FreeOf(l, v, b) + (For(buyer, "BTC", q - bf, v, b)
              + For(seller, "USDC", n - sf, v, b) + For(House, "BTC", bf, v, b)
              + For(House, "USDC", sf, v, b) + For(taker, "USDC", s, v, b))
      BY <1>1, <3>1, <3>2 DEF For
    <3>5. LockedOf(m, v, b) = LockedOf(l, v, b) - (For(buyer, "USDC", n, v, b)
            + For(seller, "BTC", q, v, b) + For(taker, "USDC", s, v, b))
      BY <1>1, <3>1, <3>3 DEF For
    <3> QED BY <3>4, <3>5 DEF TradeGain, TradeCost, n, q, bf, sf, s, buyer, seller, taker
  <2>9. LedgerOK(m) /\ m.openBuys = l.openBuys
    BY <1>14, <2>4 DEF Shifted
  <2> QED BY <2>7, <2>8, <2>9
<1>19. CASE ~(Surplus(l, ev) > 0)
  <2>1. s = 0 /\ m = paid
    BY <1>5, <1>17, <1>19 DEF s, Improved
  <2>2. ASSUME NEW v \in Holders, NEW b \in Assets
        PROVE  /\ FreeOf(m, v, b) = FreeOf(l, v, b) + TradeGain(l, ev, v, b)
               /\ LockedOf(m, v, b) = LockedOf(l, v, b) - TradeCost(l, ev, v, b)
    <3>1. FreeOf(l, v, b) \in Int /\ LockedOf(l, v, b) \in Int
      BY <1>2
    <3>2. /\ FreeOf(m, v, b) = FreeOf(l, v, b) + For(buyer, "BTC", q - bf, v, b)
              + For(seller, "USDC", n - sf, v, b) + For(House, "BTC", bf, v, b)
              + For(House, "USDC", sf, v, b)
          /\ LockedOf(m, v, b) = LockedOf(l, v, b) - For(buyer, "USDC", n, v, b)
              - For(seller, "BTC", q, v, b)
      BY <1>15, <2>1
    <3>4. FreeOf(m, v, b) = FreeOf(l, v, b) + (For(buyer, "BTC", q - bf, v, b)
              + For(seller, "USDC", n - sf, v, b) + For(House, "BTC", bf, v, b)
              + For(House, "USDC", sf, v, b) + For(taker, "USDC", s, v, b))
      BY <1>1, <2>1, <3>1, <3>2 DEF For
    <3>5. LockedOf(m, v, b) = LockedOf(l, v, b) - (For(buyer, "USDC", n, v, b)
            + For(seller, "BTC", q, v, b) + For(taker, "USDC", s, v, b))
      BY <1>1, <2>1, <3>1, <3>2 DEF For
    <3> QED BY <3>4, <3>5 DEF TradeGain, TradeCost, n, q, bf, sf, s, buyer, seller, taker
  <2> QED BY <1>13, <1>14, <1>16, <2>1, <2>2
<1> QED BY <1>18, <1>19

-----------------------------------------------------------------------------
(* The table of open buys. *)

(* m is l with another table.                                              *)
Retabled(l, m, B) ==
  /\ LedgerOK(m) /\ m.openBuys = B
  /\ m.balances = l.balances

LEMMA TableReplaced ==
  ASSUME NEW l, LedgerOK(l), NEW B, B \in [DOMAIN B -> OpenBuy]
  PROVE  Retabled(l, [l EXCEPT !.openBuys = B], B)
<1> DEFINE bs == l.balances  os == l.openBuys  m == [l EXCEPT !.openBuys = B]
<1>1. l = [balances |-> bs, openBuys |-> os, thrown |-> FALSE]
  BY DEF LedgerOK
<1>2. bs \in [Holders -> [Assets -> Balance]]
  BY DEF LedgerOK
<1> HIDE DEF bs, os, m
<1>3. m = [balances |-> bs, openBuys |-> B, thrown |-> FALSE]
  <2>1. m = [[balances |-> bs, openBuys |-> os, thrown |-> FALSE] EXCEPT !.openBuys = B]
    BY <1>1 DEF m
  <2> QED BY <2>1
<1>4. LedgerOK(m) /\ m.openBuys = B /\ m.balances = bs
  BY <1>2, <1>3 DEF LedgerOK
<1> QED BY <1>4 DEF Retabled, m, bs

LEMMA TableOnly ==
  ASSUME NEW l, NEW m, NEW B, Retabled(l, m, B)
  PROVE  /\ LedgerOK(m) /\ m.openBuys = B
         /\ \A v, b : FreeOf(m, v, b) = FreeOf(l, v, b) /\ LockedOf(m, v, b) = LockedOf(l, v, b)
         /\ \A b : Held(m, b) = Held(l, b)
BY DEF Retabled, FreeOf, LockedOf, Held, Wealth

(* The table without an order, and after a fill of one.                    *)
Without(B, id) == Restrict(B, DOMAIN B \ {id})

FilledBuy(B, id, qty) ==
  IF id \notin DOMAIN B THEN B
  ELSE IF B[id].remaining <= qty THEN Without(B, id)
  ELSE [B EXCEPT ![id] = [price |-> B[id].price, remaining |-> B[id].remaining - qty]]

LEMMA WithoutType ==
  ASSUME NEW B, B \in [DOMAIN B -> OpenBuy], NEW id
  PROVE  Without(B, id) \in [DOMAIN Without(B, id) -> OpenBuy]
BY DEF Without, Restrict

LEMMA ForgetEffect ==
  ASSUME NEW l, LedgerOK(l), NEW id
  PROVE  Retabled(l, Forget(l, id), Without(l.openBuys, id))
<1>1. ~l.thrown /\ l.openBuys \in [DOMAIN l.openBuys -> OpenBuy]
  BY DEF LedgerOK
<1>2. Forget(l, id) = [l EXCEPT !.openBuys = Without(l.openBuys, id)]
  BY <1>1 DEF Forget, Without
<1> QED BY <1>1, <1>2, TableReplaced, WithoutType

LEMMA DecrementEffect ==
  ASSUME NEW l, LedgerOK(l), NEW id, NEW qty \in Nat
  PROVE  Retabled(l, DecrementOpenBuy(l, id, qty), FilledBuy(l.openBuys, id, qty))
<1> DEFINE B == l.openBuys
<1>1. ~l.thrown /\ B \in [DOMAIN B -> OpenBuy]
  BY DEF LedgerOK
<1>2. CASE id \notin DOMAIN B
  BY <1>1, <1>2 DEF DecrementOpenBuy, FilledBuy, Retabled
<1>3. CASE id \in DOMAIN B /\ B[id].remaining <= qty
  BY <1>1, <1>3, ForgetEffect DEF DecrementOpenBuy, FilledBuy
<1>4. CASE id \in DOMAIN B /\ ~(B[id].remaining <= qty)
  <2> DEFINE e == [price |-> B[id].price, remaining |-> B[id].remaining - qty]
             C == [B EXCEPT ![id] = e]
  <2>1. B[id] = [price |-> B[id].price, remaining |-> B[id].remaining]
        /\ B[id].price \in Nat /\ B[id].remaining \in Nat
    BY <1>1, <1>4 DEF OpenBuy
  <2>2. e \in OpenBuy
    BY <1>4, <2>1 DEF OpenBuy
  <2>3. C \in [DOMAIN C -> OpenBuy]
    <3> HIDE DEF e, B
    <3> QED BY <1>1, <2>2
  <2>4. [B[id] EXCEPT !.remaining = B[id].remaining - qty] = e
    BY <2>1
  <2>5. DecrementOpenBuy(l, id, qty) = [l EXCEPT !.openBuys = C]
    <3>1. DecrementOpenBuy(l, id, qty) = [l EXCEPT !.openBuys[id].remaining = @ - qty]
      BY <1>1, <1>4 DEF DecrementOpenBuy
    <3>2. [l EXCEPT !.openBuys[id].remaining = @ - qty]
            = [l EXCEPT !.openBuys = [B EXCEPT ![id] = [B[id] EXCEPT !.remaining = B[id].remaining - qty]]]
      OBVIOUS
    <3> QED BY <2>4, <3>1, <3>2
  <2>6. FilledBuy(B, id, qty) = C
    BY <1>4 DEF FilledBuy
  <2> HIDE DEF C
  <2> QED BY <2>3, <2>5, <2>6, TableReplaced
<1> QED BY <1>2, <1>3, <1>4

-----------------------------------------------------------------------------
(* What an event does to a ledger, as one statement for all of them. *)

IsEvent(ev) ==
  \/ ev.kind = "OrderAccepted" /\ ev.order \in Order
  \/ ev.kind = "OrderRejected"
  \/ IsTrade(ev)
  \/ /\ ev.kind = "OrderCanceled" /\ ev.userId \in Users /\ ev.side \in Sides
     /\ ev.price \in Nat /\ ev.remaining \in Nat

(* What is locked for a quantity at a price, if the account is that of u.  *)
Share(u, side, price, qty, v, b) ==
  For(u, ReserveForOrder(side, price, qty).asset, ReserveForOrder(side, price, qty).amount, v, b)

Lock(ev, v, b) ==
  IF ev.kind = "OrderAccepted"
  THEN Share(ev.order.userId, ev.order.side, ev.order.price, ev.order.qty, v, b) ELSE 0

LockIn(mode, ev, v, b) == IF mode = "replay" THEN Lock(ev, v, b) ELSE 0

Cost(l, ev, v, b) ==
  IF ev.kind = "Trade" THEN TradeCost(l, ev, v, b)
  ELSE IF ev.kind = "OrderCanceled" THEN Share(ev.userId, ev.side, ev.price, ev.remaining, v, b)
  ELSE 0

Gain(l, ev, v, b) ==
  IF ev.kind = "Trade" THEN TradeGain(l, ev, v, b)
  ELSE IF ev.kind = "OrderCanceled" THEN Share(ev.userId, ev.side, ev.price, ev.remaining, v, b)
  ELSE 0

BuysAfter(B, ev) ==
  IF ev.kind = "OrderAccepted" /\ ev.order.side = "buy" /\ ev.order.type # "MARKET"
  THEN Put(B, ev.order.orderId, [price |-> ev.order.price, remaining |-> ev.order.qty])
  ELSE IF ev.kind = "Trade" THEN FilledBuy(B, BuyOrderId(ev), ev.qty)
  ELSE IF ev.kind = "OrderCanceled" THEN Without(B, ev.orderId)
  ELSE B

(* The funds an event asks for are there.                                  *)
Payable(l, ev, mode) ==
  /\ \A v \in Holders : \A b \in Assets : Cost(l, ev, v, b) <= LockedOf(l, v, b)
  /\ mode = "replay" /\ ev.kind = "OrderAccepted" =>
       LET lock == ReserveForOrder(ev.order.side, ev.order.price, ev.order.qty)
       IN lock.amount > 0 /\ lock.amount <= FreeOf(l, ev.order.userId, lock.asset)

Applied(l, m, ev, mode) ==
  /\ LedgerOK(m) /\ m.openBuys = BuysAfter(l.openBuys, ev)
  /\ \A v \in Holders : \A b \in Assets :
       /\ FreeOf(m, v, b) = FreeOf(l, v, b) + Gain(l, ev, v, b) - LockIn(mode, ev, v, b)
       /\ LockedOf(m, v, b) = LockedOf(l, v, b) - Cost(l, ev, v, b) + LockIn(mode, ev, v, b)
  /\ \A b \in Assets : Held(m, b) = Held(l, b)

LEMMA ReserveType ==
  ASSUME NEW side \in Sides, NEW price \in Nat, NEW qty \in Nat
  PROVE  /\ ReserveForOrder(side, price, qty).asset \in Assets
         /\ ReserveForOrder(side, price, qty).amount \in Nat
         /\ ReserveForOrder(side, price, qty).asset = IF side = "buy" THEN "USDC" ELSE "BTC"
         /\ ReserveForOrder(side, price, qty).amount
              = IF side = "buy" THEN NotionalQuote(price, qty) ELSE qty
         /\ \A u, v, b : Share(u, side, price, qty, v, b) \in Nat
BY NotionalType DEF ReserveForOrder, Of, Share, For, Assets

LEMMA EventTerms ==
  ASSUME NEW l, LedgerOK(l), NEW ev, IsEvent(ev), NEW v \in Holders, NEW b \in Assets
  PROVE  /\ Lock(ev, v, b) \in Nat /\ Cost(l, ev, v, b) \in Nat /\ Gain(l, ev, v, b) \in Nat
         /\ \A mode : LockIn(mode, ev, v, b) \in Nat
<1>1. CASE ev.kind = "OrderAccepted" /\ ev.order \in Order
  <2>1. /\ ev.order.side \in Sides /\ ev.order.price \in Nat /\ ev.order.qty \in Nat
    BY <1>1 DEF Order
  <2> QED BY <1>1, <2>1, ReserveType DEF Lock, LockIn, Cost, Gain
<1>2. CASE ev.kind = "OrderRejected"
  BY <1>2 DEF Lock, LockIn, Cost, Gain
<1>3. CASE IsTrade(ev)
  <2>1. TradeCost(l, ev, v, b) \in Nat /\ TradeGain(l, ev, v, b) \in Nat
    <3>1. ev.qty \in Nat
      BY <1>3 DEF IsTrade
    <3> QED BY <1>3, <3>1, TradeTerms DEF TradeCost, TradeGain, For
  <2> QED BY <1>3, <2>1 DEF IsTrade, Lock, LockIn, Cost, Gain
<1>4. CASE ev.kind = "OrderCanceled" /\ ev.side \in Sides /\ ev.price \in Nat /\ ev.remaining \in Nat
  BY <1>4, ReserveType DEF Lock, LockIn, Cost, Gain
<1> QED BY <1>1, <1>2, <1>3, <1>4 DEF IsEvent

(* Orders of every type but MARKET are tracked with their limit.           *)
LEMMA TrackEffect ==
  ASSUME NEW l, LedgerOK(l), NEW o \in Order
  PROVE  Retabled(l, TrackOrder(l, o), 
           IF o.side = "buy" /\ o.type # "MARKET"
           THEN Put(l.openBuys, o.orderId, [price |-> o.price, remaining |-> o.qty])
           ELSE l.openBuys)
<1> DEFINE B == l.openBuys  e == [price |-> o.price, remaining |-> o.qty]
<1>1. e \in OpenBuy /\ B \in [DOMAIN B -> OpenBuy]
  BY DEF OpenBuy, Order, LedgerOK
<1>2. CASE o.side = "buy" /\ o.type # "MARKET"
  <2>1. TrackOrder(l, o) = [l EXCEPT !.openBuys = Put(B, o.orderId, e)]
    BY <1>2 DEF TrackOrder
  <2>2. Put(B, o.orderId, e) \in [DOMAIN Put(B, o.orderId, e) -> OpenBuy]
    <3> HIDE DEF e
    <3> QED BY <1>1 DEF Put
  <2>3. Retabled(l, [l EXCEPT !.openBuys = Put(B, o.orderId, e)], Put(B, o.orderId, e))
    <3> HIDE DEF e, B
    <3> QED BY <2>2, TableReplaced
  <2> QED BY <1>2, <2>1, <2>3
<1>3. CASE ~(o.side = "buy" /\ o.type # "MARKET")
  BY <1>1, <1>3 DEF TrackOrder, Retabled
<1> QED BY <1>2, <1>3

LEMMA AcceptApplied ==
  ASSUME IsFiniteSet(Holders), NEW l, LedgerOK(l), NEW ev,
         ev.kind = "OrderAccepted", ev.order \in Order, NEW mode, Payable(l, ev, mode)
  PROVE  Applied(l, Apply(l, ev, mode), ev, mode)
<1> DEFINE o == ev.order
           t == TrackOrder(l, o)
           u == o.userId
           a == ReserveForOrder(o.side, o.price, o.qty).asset
           x == ReserveForOrder(o.side, o.price, o.qty).amount
           m == Apply(l, ev, mode)
<1>0. /\ u \in Holders /\ a \in Assets /\ x \in Nat
  BY ReserveType DEF Order, Holders
<1>1. Retabled(l, t, BuysAfter(l.openBuys, ev))
  BY TrackEffect DEF BuysAfter
<1>2. /\ LedgerOK(t) /\ t.openBuys = BuysAfter(l.openBuys, ev)
      /\ \A v, b : FreeOf(t, v, b) = FreeOf(l, v, b) /\ LockedOf(t, v, b) = LockedOf(l, v, b)
      /\ \A b : Held(t, b) = Held(l, b)
  BY <1>1, TableOnly
<1>3. [l EXCEPT !.thrown = FALSE] = l
  BY DEF LedgerOK
<1>4. \A v, b : Gain(l, ev, v, b) = 0 /\ Cost(l, ev, v, b) = 0
  BY DEF Gain, Cost
<1>5. \A v \in Holders : \A b \in Assets : FreeOf(l, v, b) \in Int /\ LockedOf(l, v, b) \in Int
  BY BalanceTypes
<1>6. CASE mode = "replay"
  <2>1. x > 0 /\ x <= FreeOf(t, u, a)
    BY <1>2, <1>6 DEF Payable
  <2>2. m = Reserve(t, u, a, x)
    BY <1>3, <1>6 DEF Apply, LockForOrder
  <2>3. \A v, b : LockIn(mode, ev, v, b) = For(u, a, x, v, b)
    BY <1>6 DEF LockIn, Lock, Share
  <2> HIDE DEF t, u, a, x, m, o
  <2>4. Shifted(t, m, u, a, -x, x)
    BY <1>0, <1>2, <2>1, <2>2, ReserveEffect
  <2>5. \A b \in Assets : Held(t, b) \in Int
    BY <1>2, HeldType
  <2>6. ASSUME NEW v \in Holders, NEW b \in Assets
        PROVE  /\ FreeOf(m, v, b) = FreeOf(l, v, b) - For(u, a, x, v, b)
               /\ LockedOf(m, v, b) = LockedOf(l, v, b) + For(u, a, x, v, b)
    <3>1. /\ FreeOf(m, v, b) = FreeOf(l, v, b) + For(u, a, -x, v, b)
          /\ LockedOf(m, v, b) = LockedOf(l, v, b) + For(u, a, x, v, b)
      BY <1>2, <2>4 DEF Shifted
    <3>2. FreeOf(l, v, b) \in Int
      BY <1>5
    <3> QED BY <1>0, <3>1, <3>2 DEF For
  <2>7. \A b \in Assets : Held(m, b) = Held(l, b)
    BY <1>0, <1>2, <2>4, <2>5 DEF Shifted
  <2>8. LedgerOK(m) /\ m.openBuys = BuysAfter(l.openBuys, ev)
    BY <1>2, <2>4 DEF Shifted
  <2>9. \A v \in Holders : \A b \in Assets :
          /\ FreeOf(m, v, b) = FreeOf(l, v, b) + Gain(l, ev, v, b) - LockIn(mode, ev, v, b)
          /\ LockedOf(m, v, b) = LockedOf(l, v, b) - Cost(l, ev, v, b) + LockIn(mode, ev, v, b)
    <3>1. \A v, b : For(u, a, x, v, b) \in Int
      BY <1>0 DEF For
    <3> QED BY <1>4, <1>5, <2>3, <2>6, <3>1
  <2>10. Applied(l, m, ev, mode)
    BY <2>7, <2>8, <2>9 DEF Applied
  <2> QED BY <2>10 DEF m
<1>7. CASE mode # "replay"
  <2>1. m = t
    BY <1>3, <1>7 DEF Apply
  <2>2. \A v, b : LockIn(mode, ev, v, b) = 0
    BY <1>7 DEF LockIn
  <2> HIDE DEF t, m
  <2>3. \A v \in Holders : \A b \in Assets :
          /\ FreeOf(m, v, b) = FreeOf(l, v, b) + Gain(l, ev, v, b) - LockIn(mode, ev, v, b)
          /\ LockedOf(m, v, b) = LockedOf(l, v, b) - Cost(l, ev, v, b) + LockIn(mode, ev, v, b)
    BY <1>2, <1>4, <1>5, <2>1, <2>2
  <2>4. Applied(l, m, ev, mode)
    BY <1>2, <2>1, <2>3 DEF Applied
  <2> QED BY <2>4 DEF m
<1> QED BY <1>6, <1>7

LEMMA TradeApplied ==
  ASSUME IsFiniteSet(Holders), NEW l, LedgerOK(l), NEW ev, IsTrade(ev),
         NEW mode, Payable(l, ev, mode)
  PROVE  Applied(l, Apply(l, ev, mode), ev, mode)
<1> DEFINE p == ReleaseSurplus(Pay(l, ev), ev)
           m == Apply(l, ev, mode)
           id == BuyOrderId(ev)
<1>0. ev.kind = "Trade" /\ ev.qty \in Nat
  BY DEF IsTrade
<1>1. \A v \in Holders : \A b \in Assets : TradeCost(l, ev, v, b) <= LockedOf(l, v, b)
  BY <1>0 DEF Payable, Cost
<1>2. /\ LedgerOK(p) /\ p.openBuys = l.openBuys
      /\ \A v \in Holders : \A b \in Assets :
           /\ FreeOf(p, v, b) = FreeOf(l, v, b) + TradeGain(l, ev, v, b)
           /\ LockedOf(p, v, b) = LockedOf(l, v, b) - TradeCost(l, ev, v, b)
      /\ \A b \in Assets : Held(p, b) = Held(l, b)
  <2> HIDE DEF p
  <2>1. p = ReleaseSurplus(Pay(l, ev), ev)
    BY DEF p
  <2> QED BY <1>1, <2>1, PayEffect
<1>3. m = DecrementOpenBuy(p, id, ev.qty)
  <2>1. [l EXCEPT !.thrown = FALSE] = l
    BY DEF LedgerOK
  <2> QED BY <1>0, <2>1 DEF Apply, Settle
<1> HIDE DEF p, id
<1>4. Retabled(p, m, FilledBuy(l.openBuys, id, ev.qty))
  BY <1>0, <1>2, <1>3, DecrementEffect
<1> HIDE DEF m
<1>5. /\ LedgerOK(m) /\ m.openBuys = FilledBuy(l.openBuys, id, ev.qty)
      /\ \A v, b : FreeOf(m, v, b) = FreeOf(p, v, b) /\ LockedOf(m, v, b) = LockedOf(p, v, b)
      /\ \A b : Held(m, b) = Held(p, b)
  BY <1>4, TableOnly
<1>6. m.openBuys = BuysAfter(l.openBuys, ev)
  BY <1>0, <1>5 DEF BuysAfter, id
<1>7. \A v \in Holders : \A b \in Assets :
        /\ FreeOf(m, v, b) = FreeOf(l, v, b) + Gain(l, ev, v, b) - LockIn(mode, ev, v, b)
        /\ LockedOf(m, v, b) = LockedOf(l, v, b) - Cost(l, ev, v, b) + LockIn(mode, ev, v, b)
  <2> SUFFICES ASSUME NEW v \in Holders, NEW b \in Assets
               PROVE  /\ FreeOf(m, v, b) = FreeOf(l, v, b) + Gain(l, ev, v, b) - LockIn(mode, ev, v, b)
                      /\ LockedOf(m, v, b)
                           = LockedOf(l, v, b) - Cost(l, ev, v, b) + LockIn(mode, ev, v, b)
    OBVIOUS
  <2>1. LockIn(mode, ev, v, b) = 0 /\ Gain(l, ev, v, b) = TradeGain(l, ev, v, b)
        /\ Cost(l, ev, v, b) = TradeCost(l, ev, v, b)
    BY <1>0 DEF LockIn, Lock, Gain, Cost
  <2>2. Gain(l, ev, v, b) \in Nat /\ Cost(l, ev, v, b) \in Nat
        /\ FreeOf(l, v, b) \in Int /\ LockedOf(l, v, b) \in Int
    BY EventTerms, BalanceTypes DEF IsEvent
  <2> QED BY <1>2, <1>5, <2>1, <2>2
<1>8. Applied(l, m, ev, mode)
  BY <1>2, <1>5, <1>6, <1>7 DEF Applied
<1> QED BY <1>8 DEF m

LEMMA CancelApplied ==
  ASSUME IsFiniteSet(Holders), NEW l, LedgerOK(l), NEW ev,
         ev.kind = "OrderCanceled", ev.userId \in Users, ev.side \in Sides,
         ev.price \in Nat, ev.remaining \in Nat,
         NEW mode, Payable(l, ev, mode)
  PROVE  Applied(l, Apply(l, ev, mode), ev, mode)
<1> DEFINE u == ev.userId
           a == ReserveForOrder(ev.side, ev.price, ev.remaining).asset
           x == ReserveForOrder(ev.side, ev.price, ev.remaining).amount
           r == ReleaseRemainder(l, ev)
           m == Apply(l, ev, mode)
<1>1. u \in Holders /\ a \in Assets /\ x \in Nat
  BY ReserveType DEF Holders
<1>2. \A v, b : /\ Gain(l, ev, v, b) = For(u, a, x, v, b)
                /\ Cost(l, ev, v, b) = For(u, a, x, v, b)
                /\ LockIn(mode, ev, v, b) = 0
  BY DEF Gain, Cost, LockIn, Lock, Share
<1>3. \A v \in Holders : \A b \in Assets : FreeOf(l, v, b) \in Int /\ LockedOf(l, v, b) \in Int
  BY BalanceTypes
<1>4. x <= LockedOf(l, u, a)
  <2>1. Cost(l, ev, u, a) <= LockedOf(l, u, a)
    BY <1>1 DEF Payable
  <2>2. Cost(l, ev, u, a) = x
    BY <1>2 DEF For
  <2> QED BY <2>1, <2>2
<1>5. r = IF x > 0 THEN Release(l, u, a, x) ELSE l
  BY DEF ReleaseRemainder
<1>6. m = Forget(r, ev.orderId)
  <2>1. [l EXCEPT !.thrown = FALSE] = l
    BY DEF LedgerOK
  <2> QED BY <2>1 DEF Apply
<1> HIDE DEF u, a, x, r, m
<1>7. /\ LedgerOK(r) /\ r.openBuys = l.openBuys
      /\ \A v \in Holders : \A b \in Assets :
           /\ FreeOf(r, v, b) = FreeOf(l, v, b) + For(u, a, x, v, b)
           /\ LockedOf(r, v, b) = LockedOf(l, v, b) - For(u, a, x, v, b)
      /\ \A b \in Assets : Held(r, b) = Held(l, b)
  <2>1. CASE x > 0
    <3>1. Shifted(l, r, u, a, x, -x)
      BY <1>1, <1>4, <1>5, <2>1, ReleaseEffect
    <3>2. \A b \in Assets : Held(l, b) \in Int
      BY HeldType
    <3>3. \A b \in Assets : Held(r, b) = Held(l, b)
      BY <1>1, <3>1, <3>2 DEF Shifted
    <3>4. ASSUME NEW v \in Holders, NEW b \in Assets
          PROVE  /\ FreeOf(r, v, b) = FreeOf(l, v, b) + For(u, a, x, v, b)
                 /\ LockedOf(r, v, b) = LockedOf(l, v, b) - For(u, a, x, v, b)
      <4>1. /\ FreeOf(r, v, b) = FreeOf(l, v, b) + For(u, a, x, v, b)
            /\ LockedOf(r, v, b) = LockedOf(l, v, b) + For(u, a, -x, v, b)
        BY <3>1 DEF Shifted
      <4> QED BY <1>1, <1>3, <4>1 DEF For
    <3> QED BY <3>1, <3>3, <3>4 DEF Shifted
  <2>2. CASE ~(x > 0)
    <3>1. x = 0 /\ r = l
      BY <1>1, <1>5, <2>2
    <3>2. \A v, b : For(u, a, x, v, b) = 0
      BY <3>1 DEF For
    <3> QED BY <1>3, <3>1, <3>2
  <2> QED BY <2>1, <2>2
<1>8. Retabled(r, m, Without(l.openBuys, ev.orderId))
  BY <1>6, <1>7, ForgetEffect
<1>9. /\ LedgerOK(m) /\ m.openBuys = Without(l.openBuys, ev.orderId)
      /\ \A v, b : FreeOf(m, v, b) = FreeOf(r, v, b) /\ LockedOf(m, v, b) = LockedOf(r, v, b)
      /\ \A b : Held(m, b) = Held(r, b)
  BY <1>8, TableOnly
<1>10. m.openBuys = BuysAfter(l.openBuys, ev)
  BY <1>9 DEF BuysAfter
<1>11. \A v \in Holders : \A b \in Assets :
        /\ FreeOf(m, v, b) = FreeOf(l, v, b) + Gain(l, ev, v, b) - LockIn(mode, ev, v, b)
        /\ LockedOf(m, v, b) = LockedOf(l, v, b) - Cost(l, ev, v, b) + LockIn(mode, ev, v, b)
  <2>1. \A v, b : For(u, a, x, v, b) \in Int
    BY <1>1 DEF For
  <2> QED BY <1>2, <1>3, <1>7, <1>9, <2>1
<1>12. Applied(l, m, ev, mode)
  BY <1>7, <1>9, <1>10, <1>11 DEF Applied
<1> QED BY <1>12 DEF m

(* Applying an event whose funds are there does not throw, moves what it   *)
(* is said to move, and leaves what all accounts hold together.            *)
LEMMA ApplyEffect ==
  ASSUME IsFiniteSet(Holders), NEW l, LedgerOK(l), NEW ev, IsEvent(ev),
         NEW mode, Payable(l, ev, mode)
  PROVE  Applied(l, Apply(l, ev, mode), ev, mode)
<1>1. CASE ev.kind = "OrderRejected"
  <2>1. Apply(l, ev, mode) = l
    BY <1>1 DEF Apply, LedgerOK
  <2>2. \A v, b : Gain(l, ev, v, b) = 0 /\ Cost(l, ev, v, b) = 0 /\ LockIn(mode, ev, v, b) = 0
    BY <1>1 DEF Gain, Cost, LockIn, Lock
  <2>3. BuysAfter(l.openBuys, ev) = l.openBuys
    BY <1>1 DEF BuysAfter
  <2>4. \A v \in Holders : \A b \in Assets : FreeOf(l, v, b) \in Int /\ LockedOf(l, v, b) \in Int
    BY BalanceTypes
  <2> QED BY <2>1, <2>2, <2>3, <2>4 DEF Applied
<1> QED BY <1>1, AcceptApplied, TradeApplied, CancelApplied DEF IsEvent

-----------------------------------------------------------------------------
(* The fold that replays a stream, one event at a time. *)

(* The equation of the fold over the first n events of s.                  *)
ReplayFold(g, l, s, n) ==
  g = [T \in SUBSET (1..n) |->
         IF T = {} THEN l ELSE Apply(g[T \ {Max(T)}], s[Max(T)], "replay")]

LEMMA ReplayFoldExists ==
  ASSUME NEW l, NEW s, NEW n \in Nat
  PROVE  \E g : ReplayFold(g, l, s, n)
<1> DEFINE P == {m \in Nat : \E g : ReplayFold(g, l, s, m)}
<1>1. 0 \in P
  <2> DEFINE g == [T \in SUBSET (1..0) |-> l]
  <2>1. ReplayFold(g, l, s, 0)
    BY DEF ReplayFold
  <2> QED BY <2>1
<1>2. ASSUME NEW m \in Nat, m \in P
      PROVE  m + 1 \in P
  <2>1. PICK g : ReplayFold(g, l, s, m)
    BY <1>2
  <2> DEFINE h == [T \in SUBSET (1..(m + 1)) |->
                     IF m + 1 \in T THEN Apply(g[T \ {m + 1}], s[m + 1], "replay") ELSE g[T]]
  <2>2. ASSUME NEW T \in SUBSET (1..(m + 1))
        PROVE  h[T] = IF T = {} THEN l ELSE Apply(h[T \ {Max(T)}], s[Max(T)], "replay")
    <3>1. CASE m + 1 \in T
      <4>0. T # {} /\ m + 1 \in Nat
        BY <3>1
      <4>1. Max(T) \in T /\ \A y \in T : y <= Max(T)
        BY <4>0, Greatest
      <4>2. Max(T) = m + 1
        <5>1. Max(T) \in 1..(m + 1) /\ m + 1 <= Max(T)
          BY <3>1, <4>1
        <5> QED BY <5>1
      <4>3. T \ {m + 1} \in SUBSET (1..(m + 1)) /\ m + 1 \notin T \ {m + 1}
        OBVIOUS
      <4>4. h[T \ {m + 1}] = g[T \ {m + 1}]
        BY <4>3
      <4>5. h[T] = Apply(g[T \ {m + 1}], s[m + 1], "replay")
        BY <3>1
      <4> QED BY <3>1, <4>2, <4>4, <4>5
    <3>2. CASE m + 1 \notin T
      <4>1. T \in SUBSET (1..m)
        BY <3>2
      <4>2. h[T] = g[T]
        BY <3>2
      <4>3. g[T] = IF T = {} THEN l ELSE Apply(g[T \ {Max(T)}], s[Max(T)], "replay")
        BY <2>1, <4>1 DEF ReplayFold
      <4>4. T \ {Max(T)} \in SUBSET (1..(m + 1)) /\ m + 1 \notin T \ {Max(T)}
        BY <3>2
      <4>5. h[T \ {Max(T)}] = g[T \ {Max(T)}]
        BY <4>4
      <4> QED BY <4>2, <4>3, <4>5
    <3> QED BY <3>1, <3>2
  <2>3. h = [T \in SUBSET (1..(m + 1)) |-> h[T]]
    OBVIOUS
  <2> HIDE DEF h
  <2>4. ReplayFold(h, l, s, m + 1)
    BY <2>2, <2>3 DEF ReplayFold
  <2> QED BY <2>4
<1>3. n \in P
  <2> HIDE DEF P
  <2> QED BY <1>1, <1>2, Induction
<1> QED BY <1>3

(* The streams begin with the same n events.                               *)
SameStart(s, t, n) == \A i \in 1..n : t[i] = s[i]

LEMMA ReplayFoldsAgree ==
  ASSUME NEW l, NEW s, NEW t, NEW n \in Nat, NEW m \in Nat, n <= m, SameStart(s, t, n),
         NEW g, ReplayFold(g, l, s, n), NEW h, ReplayFold(h, l, t, m)
  PROVE  \A T \in SUBSET (1..n) : h[T] = g[T]
<1> DEFINE P == {j \in Nat : \A T \in SUBSET (1..n) : T \subseteq 1..j => h[T] = g[T]}
<1>1. \A T \in SUBSET (1..n) :
        /\ g[T] = IF T = {} THEN l ELSE Apply(g[T \ {Max(T)}], s[Max(T)], "replay")
        /\ h[T] = IF T = {} THEN l ELSE Apply(h[T \ {Max(T)}], t[Max(T)], "replay")
  <2>1. \A T \in SUBSET (1..n) : T \in SUBSET (1..m)
    OBVIOUS
  <2> QED BY <2>1 DEF ReplayFold
<1>2. 0 \in P
  <2>1. \A T : T \subseteq 1..0 => T = {}
    OBVIOUS
  <2> QED BY <1>1, <2>1
<1>3. ASSUME NEW j \in Nat, j \in P
      PROVE  j + 1 \in P
  <2>1. ASSUME NEW T \in SUBSET (1..n), T \subseteq 1..(j + 1), T # {}
        PROVE  h[T] = g[T]
    <3>1. Max(T) \in T /\ \A y \in T : y <= Max(T)
      BY <2>1, Greatest
    <3>2. T \ {Max(T)} \in SUBSET (1..n) /\ T \ {Max(T)} \subseteq 1..j
      <4>1. ASSUME NEW y \in T, y # Max(T)
            PROVE  y \in 1..j
        <5>1. Max(T) \in 1..(j + 1) /\ y \in 1..(j + 1) /\ y <= Max(T)
          BY <2>1, <3>1
        <5> QED BY <4>1, <5>1
      <4> QED BY <4>1
    <3>3. h[T \ {Max(T)}] = g[T \ {Max(T)}] /\ t[Max(T)] = s[Max(T)]
      BY <1>3, <3>1, <3>2 DEF SameStart
    <3> QED BY <1>1, <2>1, <3>3
  <2>2. \A T \in SUBSET (1..n) : T \subseteq 1..(j + 1) => h[T] = g[T]
    BY <1>1, <2>1
  <2> QED BY <2>2
<1>4. n \in P
  <2> HIDE DEF P
  <2> QED BY <1>2, <1>3, Induction
<1> QED BY <1>4

LEMMA ReplayedIsFold ==
  ASSUME NEW l, NEW s, NEW n \in Nat, DOMAIN s = 1..n
  PROVE  \E g : ReplayFold(g, l, s, n) /\ Replayed(l, s) = g[1..n]
<1> DEFINE Eq(g) == g = [T \in SUBSET (1..n) |->
                           IF T = {} THEN l ELSE Apply(g[T \ {Max(T)}], s[Max(T)], "replay")]
           g == CHOOSE h : Eq(h)
<1>1. Replayed(l, s) = g[1..n]
  BY Zenon DEF Replayed, FoldLeft, MapThenFoldSet
<1>2. PICK h : ReplayFold(h, l, s, n)
  BY ReplayFoldExists
<1>3. Eq(h)
  BY <1>2 DEF ReplayFold
<1>4. Eq(g)
  <2> HIDE DEF Eq
  <2> QED BY <1>3
<1>5. ReplayFold(g, l, s, n)
  <2> HIDE DEF g
  <2> QED BY <1>4 DEF ReplayFold
<1> QED BY <1>1, <1>5

LEMMA ReplayedLaws ==
  ASSUME NEW S, NEW l
  PROVE  /\ Replayed(l, << >>) = l
         /\ \A s \in Seq(S) : \A e \in S :
              Replayed(l, Append(s, e)) = Apply(Replayed(l, s), e, "replay")
<1>1. Replayed(l, << >>) = l
  <2>1. DOMAIN << >> = 1..0
    OBVIOUS
  <2>2. PICK g : ReplayFold(g, l, << >>, 0) /\ Replayed(l, << >>) = g[1..0]
    BY <2>1, ReplayedIsFold
  <2>3. 1..0 = {}
    OBVIOUS
  <2> QED BY <2>2, <2>3 DEF ReplayFold
<1>2. ASSUME NEW s \in Seq(S), NEW e \in S
      PROVE  Replayed(l, Append(s, e)) = Apply(Replayed(l, s), e, "replay")
  <2> DEFINE n == Len(s)  t == Append(s, e)  All == 1..(n + 1)
  <2>1. /\ n \in Nat /\ DOMAIN s = 1..n /\ DOMAIN t = 1..(n + 1)
        /\ t[n + 1] = e /\ \A i \in 1..n : t[i] = s[i]
    OBVIOUS
  <2> HIDE DEF n, t
  <2>2. PICK g : ReplayFold(g, l, s, n) /\ Replayed(l, s) = g[1..n]
    BY <2>1, ReplayedIsFold
  <2>3. PICK h : ReplayFold(h, l, t, n + 1) /\ Replayed(l, t) = h[All]
    BY <2>1, ReplayedIsFold
  <2>0. n \in Nat /\ n + 1 \in Nat /\ n <= n + 1 /\ 1..n \in SUBSET (1..n)
    BY <2>1
  <2>4. h[1..n] = g[1..n]
    <3>1. SameStart(s, t, n)
      BY <2>1 DEF SameStart
    <3>2. ReplayFold(g, l, s, n) /\ ReplayFold(h, l, t, n + 1)
      BY <2>2, <2>3
    <3> DEFINE m == n + 1
    <3>3. n \in Nat /\ m \in Nat /\ n <= m /\ ReplayFold(h, l, t, m)
      BY <2>0, <3>2
    <3> HIDE DEF m
    <3>4. \A T \in SUBSET (1..n) : h[T] = g[T]
      BY <3>1, <3>2, <3>3, ReplayFoldsAgree
    <3> QED BY <3>4
  <2>5. All # {} /\ n + 1 \in All /\ All \in SUBSET (1..(n + 1))
    <3>1. n \in Nat
      BY <2>0
    <3>2. n + 1 \in 1..(n + 1)
      BY <3>1
    <3> QED BY <3>2
  <2>6. Max(All) \in All /\ \A y \in All : y <= Max(All)
    BY <2>0, <2>5, Greatest
  <2>7. Max(All) = n + 1 /\ All \ {n + 1} = 1..n
    <3>1. Max(All) \in 1..(n + 1) /\ n + 1 <= Max(All)
      BY <2>5, <2>6
    <3> QED BY <2>0, <3>1
  <2>8. h[All] = Apply(h[All \ {Max(All)}], t[Max(All)], "replay")
    BY <2>3, <2>5 DEF ReplayFold
  <2> QED BY <2>1, <2>2, <2>3, <2>4, <2>7, <2>8 DEF t
<1> QED BY <1>1, <1>2

-----------------------------------------------------------------------------
(* A ledger that is rebuilt from the first events of a stream. *)

Before(s, i) == Rebuild(SubSeq(s, 1, i))

LEMMA EventIsEvent ==
  ASSUME NEW ev \in Event
  PROVE  IsEvent(ev)
BY DEF Event, IsEvent, IsTrade

LEMMA FirstEvents ==
  ASSUME NEW S, NEW s \in Seq(S)
  PROVE  /\ Len(s) \in Nat /\ DOMAIN s = 1..Len(s) /\ \A i \in 1..Len(s) : s[i] \in S
         /\ SubSeq(s, 1, 0) = << >>
         /\ SubSeq(s, 1, Len(s)) = s
         /\ \A i \in 0..Len(s) : SubSeq(s, 1, i) \in Seq(S)
         /\ \A i \in 0..Len(s) : i < Len(s) =>
              SubSeq(s, 1, i + 1) = Append(SubSeq(s, 1, i), s[i + 1])
<1>1. Len(s) \in Nat /\ DOMAIN s = 1..Len(s) /\ \A i \in 1..Len(s) : s[i] \in S
  OBVIOUS
<1>2. SubSeq(s, 1, 0) = << >>
  BY SubSeqEmpty
<1>3. SubSeq(s, 1, Len(s)) = s
  BY SubSeqFull
<1>4. \A i \in 0..Len(s) : SubSeq(s, 1, i) \in Seq(S) /\ Len(SubSeq(s, 1, i)) = i
                           /\ \A j \in 1..i : SubSeq(s, 1, i)[j] = s[j]
  <2> SUFFICES ASSUME NEW i \in 0..Len(s)
               PROVE  SubSeq(s, 1, i) \in Seq(S) /\ Len(SubSeq(s, 1, i)) = i
                      /\ \A j \in 1..i : SubSeq(s, 1, i)[j] = s[j]
    OBVIOUS
  <2>1. \A j \in 1..i : s[j] \in S
    BY <1>1
  <2>2. /\ SubSeq(s, 1, i) \in Seq(S)
        /\ Len(SubSeq(s, 1, i)) = IF 1 <= i THEN i - 1 + 1 ELSE 0
        /\ \A j \in 1..(i - 1 + 1) : SubSeq(s, 1, i)[j] = s[1 + j - 1]
    BY <1>1, <2>1, SubSeqProperties
  <2> QED BY <1>1, <2>2
<1>5. ASSUME NEW i \in 0..Len(s), i < Len(s)
      PROVE  SubSeq(s, 1, i + 1) = Append(SubSeq(s, 1, i), s[i + 1])
  <2>0. i \in Nat /\ i + 1 \in 0..Len(s) /\ s[i + 1] \in S
    BY <1>1, <1>5
  <2> DEFINE x == SubSeq(s, 1, i)  y == SubSeq(s, 1, i + 1)  z == Append(x, s[i + 1])
  <2>1. /\ x \in Seq(S) /\ Len(x) = i /\ \A j \in 1..i : x[j] = s[j]
        /\ y \in Seq(S) /\ Len(y) = i + 1 /\ \A j \in 1..(i + 1) : y[j] = s[j]
    BY <1>4, <2>0
  <2> HIDE DEF x, y
  <2>2. /\ z \in Seq(S) /\ Len(z) = i + 1 /\ z[i + 1] = s[i + 1]
        /\ \A j \in 1..i : z[j] = x[j]
    BY <2>0, <2>1
  <2>3. \A j \in 1..(i + 1) : z[j] = y[j]
    <3> SUFFICES ASSUME NEW j \in 1..(i + 1) PROVE z[j] = y[j]
      OBVIOUS
    <3>1. j = i + 1 \/ j \in 1..i
      BY <2>0
    <3> QED BY <2>1, <2>2, <3>1
  <2> HIDE DEF z
  <2>4. y = z
    BY <2>0, <2>1, <2>2, <2>3, SeqEqual
  <2> QED BY <2>4 DEF x, y, z
<1> QED BY <1>1, <1>2, <1>3, <1>4, <1>5

LEMMA RebuildLaws ==
  /\ Rebuild(<< >>) = FreshLedger
  /\ \A t \in Seq(Event) : \A e \in Event :
       Rebuild(Append(t, e)) = Apply(Rebuild(t), e, "replay")
BY ReplayedLaws DEF Rebuild

LEMMA BeforeLaws ==
  ASSUME NEW s \in Seq(Event)
  PROVE  /\ Len(s) \in Nat /\ \A i \in 1..Len(s) : s[i] \in Event
         /\ Before(s, 0) = FreshLedger
         /\ Before(s, Len(s)) = Rebuild(s)
         /\ \A i \in 0..Len(s) : i < Len(s) =>
              Before(s, i + 1) = Apply(Before(s, i), s[i + 1], "replay")
<1>1. /\ Len(s) \in Nat /\ DOMAIN s = 1..Len(s) /\ \A i \in 1..Len(s) : s[i] \in Event
      /\ SubSeq(s, 1, 0) = << >>
      /\ SubSeq(s, 1, Len(s)) = s
      /\ \A i \in 0..Len(s) : SubSeq(s, 1, i) \in Seq(Event)
      /\ \A i \in 0..Len(s) : i < Len(s) =>
           SubSeq(s, 1, i + 1) = Append(SubSeq(s, 1, i), s[i + 1])
  BY FirstEvents
<1>2. /\ Rebuild(<< >>) = FreshLedger
      /\ \A t \in Seq(Event) : \A e \in Event :
           Rebuild(Append(t, e)) = Apply(Rebuild(t), e, "replay")
  BY RebuildLaws
<1>3. ASSUME NEW i \in 0..Len(s), i < Len(s)
      PROVE  Before(s, i + 1) = Apply(Before(s, i), s[i + 1], "replay")
  <2>1. SubSeq(s, 1, i) \in Seq(Event) /\ s[i + 1] \in Event
    BY <1>1, <1>3
  <2> QED BY <1>1, <1>2, <1>3, <2>1 DEF Before
<1> QED BY <1>1, <1>2, <1>3 DEF Before

LEMMA BeforeAppend ==
  ASSUME NEW s \in Seq(Event), NEW e \in Event, NEW t, t = Append(s, e)
  PROVE  /\ t \in Seq(Event) /\ Len(t) = Len(s) + 1 /\ t[Len(s) + 1] = e
         /\ \A i \in 1..Len(s) : t[i] = s[i]
         /\ \A i \in 0..Len(s) : Before(t, i) = Before(s, i)
         /\ Rebuild(t) = Apply(Rebuild(s), e, "replay")
<1>1. /\ t \in Seq(Event) /\ Len(t) = Len(s) + 1 /\ t[Len(s) + 1] = e
      /\ \A i \in 1..Len(s) : t[i] = s[i]
  OBVIOUS
<1>2. Rebuild(t) = Apply(Rebuild(s), e, "replay")
  BY RebuildLaws
<1>3. Len(s) \in Nat
  BY BeforeLaws
<1> DEFINE P == {i \in Nat : i <= Len(s) => Before(t, i) = Before(s, i)}
<1>4. 0 \in P
  BY <1>1, BeforeLaws
<1>5. ASSUME NEW i \in Nat, i \in P
      PROVE  i + 1 \in P
  <2> SUFFICES ASSUME i + 1 <= Len(s) PROVE Before(t, i + 1) = Before(s, i + 1)
    OBVIOUS
  <2>1. i \in 0..Len(s) /\ i < Len(s) /\ i \in 0..Len(t) /\ i < Len(t) /\ i + 1 \in 1..Len(s)
    BY <1>1, <1>3
  <2>2. Before(s, i + 1) = Apply(Before(s, i), s[i + 1], "replay")
    BY <2>1, BeforeLaws
  <2>3. Before(t, i + 1) = Apply(Before(t, i), t[i + 1], "replay")
    BY <1>1, <2>1, BeforeLaws
  <2> QED BY <1>1, <1>5, <2>1, <2>2, <2>3
<1>6. \A i \in 0..Len(s) : Before(t, i) = Before(s, i)
  <2>1. Nat \subseteq P
    <3> HIDE DEF P
    <3> QED BY <1>4, <1>5, Induction
  <2> QED BY <1>3, <2>1
<1> QED BY <1>1, <1>2, <1>6

-----------------------------------------------------------------------------
(* What the orders accepted in a stream after its first i events will lock. *)

LockAt(s, v, b) == [j \in 1..Len(s) |-> Lock(s[j], v, b)]

Locks(s, i, v, b) == Sigma(LockAt(s, v, b), (i + 1)..Len(s))

LEMMA LockType ==
  ASSUME NEW ev \in Event, NEW v, NEW b
  PROVE  Lock(ev, v, b) \in Nat
<1>1. CASE ev.kind = "OrderAccepted"
  <2>1. ev.order \in Order
    BY <1>1 DEF Event
  <2>2. ev.order.side \in Sides /\ ev.order.price \in Nat /\ ev.order.qty \in Nat
    BY <2>1 DEF Order
  <2> QED BY <1>1, <2>2, ReserveType DEF Lock
<1>2. CASE ev.kind # "OrderAccepted"
  BY <1>2 DEF Lock
<1> QED BY <1>1, <1>2

LEMMA LocksLaws ==
  ASSUME NEW s \in Seq(Event), NEW v, NEW b
  PROVE  /\ Locks(s, Len(s), v, b) = 0
         /\ \A i \in 0..Len(s) : Locks(s, i, v, b) \in Nat
         /\ \A i \in 0..Len(s) : i < Len(s) =>
              Locks(s, i, v, b) = Lock(s[i + 1], v, b) + Locks(s, i + 1, v, b)
<1> DEFINE n == Len(s)  w == LockAt(s, v, b)
<1>1. n \in Nat /\ \A j \in 1..n : w[j] = Lock(s[j], v, b) /\ w[j] \in Nat
  BY LockType DEF LockAt
<1> HIDE DEF n, w
<1>2. \A i \in Nat : IsFiniteSet((i + 1)..n)
  BY <1>1, FS_Interval
<1>3. ASSUME NEW i \in Nat
      PROVE  Weighs(w, (i + 1)..n) /\ Sigma(w, (i + 1)..n) \in Nat /\ Sigma(w, {}) = 0
  <2>1. \A j \in (i + 1)..n : j \in 1..n
    BY <1>1
  <2>2. \A j \in (i + 1)..n : w[j] \in Nat
    BY <1>1, <2>1
  <2>3. Weighs(w, (i + 1)..n)
    BY <1>2, <2>2 DEF Weighs
  <2> QED BY <1>2, <2>2, <2>3, SigmaLaws, SigmaMonotonic
<1>4. Locks(s, n, v, b) = 0
  <2>1. (n + 1)..n = {}
    BY <1>1
  <2> QED BY <1>1, <1>3, <2>1 DEF Locks, w, n
<1>5. ASSUME NEW i \in 0..n, i < n
      PROVE  Locks(s, i, v, b) = Lock(s[i + 1], v, b) + Locks(s, i + 1, v, b)
  <2>1. i \in Nat /\ i + 1 \in (i + 1)..n /\ i + 1 \in 1..n
        /\ ((i + 1)..n) \ {i + 1} = (i + 1 + 1)..n
    BY <1>1, <1>5
  <2> DEFINE S == (i + 1)..n  k == i + 1
  <2>3. Weighs(w, S) /\ k \in S /\ S \ {k} = (k + 1)..n
    BY <1>3, <2>1
  <2>4. Sigma(w, S) = w[k] + Sigma(w, S \ {k})
    <3> HIDE DEF S, k
    <3> QED BY <2>3, SigmaLaws
  <2>2. Sigma(w, (i + 1)..n) = w[i + 1] + Sigma(w, (i + 1 + 1)..n)
    BY <2>3, <2>4
  <2> QED BY <1>1, <2>1, <2>2 DEF Locks, w, n
<1>6. \A i \in 0..n : Locks(s, i, v, b) \in Nat
  BY <1>1, <1>3 DEF Locks, w, n
<1> QED BY <1>4, <1>5, <1>6 DEF n

(* t is s and one event more.                                              *)
Extends(s, t, e) ==
  Len(t) = Len(s) + 1 /\ t[Len(s) + 1] = e /\ \A i \in 1..Len(s) : t[i] = s[i]

LEMMA LocksAppend ==
  ASSUME NEW s \in Seq(Event), NEW e \in Event, NEW t \in Seq(Event), Extends(s, t, e),
         NEW v, NEW b
  PROVE  \A i \in 0..Len(s) : Locks(t, i, v, b) = Locks(s, i, v, b) + Lock(e, v, b)
<1> DEFINE n == Len(s)
           P == {k \in Nat : k <= n =>
                   Locks(t, n - k, v, b) = Locks(s, n - k, v, b) + Lock(e, v, b)}
<1>1. /\ t \in Seq(Event) /\ Len(t) = n + 1 /\ t[n + 1] = e
      /\ \A i \in 1..n : t[i] = s[i] /\ s[i] \in Event
      /\ n \in Nat
  BY DEF Extends
<1>2. Lock(e, v, b) \in Nat /\ \A i \in 1..n : Lock(s[i], v, b) \in Nat
  BY <1>1, LockType
<1>0. /\ Locks(s, Len(s), v, b) = 0
      /\ \A i \in 0..Len(s) : Locks(s, i, v, b) \in Nat
      /\ \A i \in 0..Len(s) : i < Len(s) =>
           Locks(s, i, v, b) = Lock(s[i + 1], v, b) + Locks(s, i + 1, v, b)
  BY LocksLaws
<1>8. /\ Locks(t, Len(t), v, b) = 0
      /\ \A i \in 0..Len(t) : i < Len(t) =>
           Locks(t, i, v, b) = Lock(t[i + 1], v, b) + Locks(t, i + 1, v, b)
  <2>1. t \in Seq(Event)
    BY <1>1
  <2> HIDE DEF n, P
  <2> QED BY <2>1, LocksLaws
<1> HIDE DEF n
<1>3. /\ Locks(s, n, v, b) = 0 /\ Locks(t, n + 1, v, b) = 0
      /\ \A i \in 0..n : Locks(s, i, v, b) \in Nat
      /\ \A i \in 0..n : i < n => Locks(s, i, v, b) = Lock(s[i + 1], v, b) + Locks(s, i + 1, v, b)
      /\ \A i \in 0..(n + 1) : i < n + 1 =>
           Locks(t, i, v, b) = Lock(t[i + 1], v, b) + Locks(t, i + 1, v, b)
  BY <1>0, <1>1, <1>8 DEF n
<1>4. 0 \in P
  BY <1>1, <1>2, <1>3
<1>5. ASSUME NEW k \in Nat, k \in P
      PROVE  k + 1 \in P
  <2> SUFFICES ASSUME k + 1 <= n
               PROVE  Locks(t, n - (k + 1), v, b) = Locks(s, n - (k + 1), v, b) + Lock(e, v, b)
    OBVIOUS
  <2> DEFINE i == n - (k + 1)
  <2>1. i \in 0..n /\ i < n /\ i \in 0..(n + 1) /\ i < n + 1 /\ i + 1 = n - k /\ i + 1 \in 1..n
        /\ i + 1 \in 0..n
    BY <1>1
  <2>2. Locks(t, i + 1, v, b) = Locks(s, i + 1, v, b) + Lock(e, v, b)
    BY <1>1, <1>5, <2>1
  <2> HIDE DEF i
  <2>3. /\ Locks(s, i, v, b) = Lock(s[i + 1], v, b) + Locks(s, i + 1, v, b)
        /\ Locks(t, i, v, b) = Lock(s[i + 1], v, b) + Locks(t, i + 1, v, b)
        /\ Locks(s, i + 1, v, b) \in Nat /\ Lock(s[i + 1], v, b) \in Nat
    BY <1>1, <1>2, <1>3, <2>1
  <2>4. Locks(t, i, v, b) = Locks(s, i, v, b) + Lock(e, v, b)
    BY <1>2, <2>2, <2>3
  <2> QED BY <2>4 DEF i
<1>6. Nat \subseteq P
  <2> HIDE DEF P
  <2> QED BY <1>4, <1>5, Induction
<1>7. ASSUME NEW i \in 0..n
      PROVE  Locks(t, i, v, b) = Locks(s, i, v, b) + Lock(e, v, b)
  <2>1. n - i \in Nat /\ n - i <= n /\ n - (n - i) = i
    BY <1>1
  <2> QED BY <1>6, <2>1
<1> QED BY <1>7 DEF n

-----------------------------------------------------------------------------
(* The accounts that the events of a stream add up to. *)

Endowed(a) == Cardinality(Holders) * InitialBalances[a]

Solvent(l) ==
  /\ LedgerOK(l)
  /\ \A a \in Assets : Held(l, a) = Endowed(a)
  /\ \A v \in Holders : \A b \in Assets : FreeOf(l, v, b) >= 0 /\ LockedOf(l, v, b) >= 0

(* What is free at the end is at least what was free after i events, less  *)
(* what the orders accepted since have locked.                             *)
Enough(s, i) ==
  \A v \in Holders : \A b \in Assets :
    FreeOf(Rebuild(s), v, b) >= FreeOf(Before(s, i), v, b) - Locks(s, i, v, b)

Accounted(s) ==
  /\ s \in Seq(Event)
  /\ \A i \in 0..Len(s) :
       /\ Solvent(Before(s, i))
       /\ i < Len(s) => Payable(Before(s, i), s[i + 1], "replay")
       /\ Enough(s, i)

LEMMA FiniteHolders == IsFiniteSet(Holders)
BY LedgerAssumption, FS_AddElement DEF Holders

LEMMA FreshSolvent ==
  /\ Solvent(FreshLedger)
  /\ \A v \in Holders : \A b \in Assets :
       FreeOf(FreshLedger, v, b) = InitialBalances[b] /\ LockedOf(FreshLedger, v, b) = 0
  /\ FreshLedger.openBuys = EmptyMap
<1>1. \A b \in Assets : InitialBalances[b] \in Nat
  BY LedgerAssumption DEF InitialBalances, Assets
<1>2. \A v \in Holders : \A b \in Assets :
        FreshLedger.balances[v][b] = [free |-> InitialBalances[b], locked |-> 0]
  BY DEF FreshLedger
<1>3. ASSUME NEW v \in Holders, NEW b \in Assets
      PROVE  FreeOf(FreshLedger, v, b) = InitialBalances[b] /\ LockedOf(FreshLedger, v, b) = 0
  <2> DEFINE c == InitialBalances[b]
  <2>1. FreshLedger.balances[v][b] = [free |-> c, locked |-> 0]
    BY <1>2
  <2> HIDE DEF c
  <2>2. FreeOf(FreshLedger, v, b) = c /\ LockedOf(FreshLedger, v, b) = 0
    BY <2>1 DEF FreeOf, LockedOf
  <2> QED BY <2>2 DEF c
<1>4. LedgerOK(FreshLedger) /\ FreshLedger.openBuys = EmptyMap
  <2>1. \A b \in Assets : [free |-> InitialBalances[b], locked |-> 0] \in Balance
    BY <1>1 DEF Balance
  <2> QED BY <2>1 DEF LedgerOK, FreshLedger, EmptyMap
<1>5. ASSUME NEW a \in Assets
      PROVE  Held(FreshLedger, a) = Endowed(a)
  <2> DEFINE w == [u \in Holders |-> Wealth(FreshLedger, u, a)]  c == InitialBalances[a]
  <2>1. c \in Int /\ \A u \in Holders : w[u] = c
    BY <1>1, <1>3 DEF Wealth
  <2> HIDE DEF w, c
  <2>2. Sigma(w, Holders) = Cardinality(Holders) * c
    BY <2>1, FiniteHolders, SigmaConstant
  <2> QED BY <2>2 DEF w, c, Held, Endowed
<1> QED BY <1>1, <1>3, <1>4, <1>5 DEF Solvent

LEMMA Appended ==
  ASSUME NEW S, NEW s \in Seq(S), NEW e \in S
  PROVE  Append(s, e) \in Seq(S) /\ Extends(s, Append(s, e), e)
BY DEF Extends

LEMMA SolventStep ==
  ASSUME NEW l, Solvent(l), NEW ev, IsEvent(ev), Payable(l, ev, "replay"),
         NEW m, Applied(l, m, ev, "replay")
  PROVE  /\ Solvent(m)
         /\ \A v \in Holders : \A b \in Assets :
              FreeOf(m, v, b) >= FreeOf(l, v, b) - Lock(ev, v, b)
<1>1. ASSUME NEW v \in Holders, NEW b \in Assets
      PROVE  /\ FreeOf(m, v, b) >= FreeOf(l, v, b) - Lock(ev, v, b)
             /\ FreeOf(m, v, b) >= 0 /\ LockedOf(m, v, b) >= 0
  <2>1. /\ Lock(ev, v, b) \in Nat /\ Cost(l, ev, v, b) \in Nat /\ Gain(l, ev, v, b) \in Nat
        /\ LockIn("replay", ev, v, b) = Lock(ev, v, b)
    BY EventTerms DEF Solvent, LockIn
  <2>2. FreeOf(l, v, b) \in Int /\ LockedOf(l, v, b) \in Int
        /\ FreeOf(l, v, b) >= 0 /\ LockedOf(l, v, b) >= 0
    BY BalanceTypes DEF Solvent
  <2>3. /\ FreeOf(m, v, b) = FreeOf(l, v, b) + Gain(l, ev, v, b) - Lock(ev, v, b)
        /\ LockedOf(m, v, b) = LockedOf(l, v, b) - Cost(l, ev, v, b) + Lock(ev, v, b)
    BY <2>1 DEF Applied
  <2>4. Cost(l, ev, v, b) <= LockedOf(l, v, b)
    BY DEF Payable
  <2>5. Lock(ev, v, b) <= FreeOf(l, v, b)
    <3>1. CASE Lock(ev, v, b) = 0
      BY <2>2, <3>1
    <3>2. CASE Lock(ev, v, b) # 0
      <4>1. /\ ev.kind = "OrderAccepted" /\ v = ev.order.userId
            /\ b = ReserveForOrder(ev.order.side, ev.order.price, ev.order.qty).asset
            /\ Lock(ev, v, b) = ReserveForOrder(ev.order.side, ev.order.price, ev.order.qty).amount
        BY <3>2 DEF Lock, Share, For
      <4> QED BY <4>1 DEF Payable
    <3> QED BY <3>1, <3>2
  <2> QED BY <2>1, <2>2, <2>3, <2>4, <2>5
<1>2. LedgerOK(m) /\ \A a \in Assets : Held(m, a) = Endowed(a)
  BY DEF Applied, Solvent
<1> QED BY <1>1, <1>2 DEF Solvent

LEMMA AccountedEmpty == Accounted(<< >>)
<1>1. << >> \in Seq(Event) /\ Len(<< >>) = 0
  OBVIOUS
<1>2. Before(<< >>, 0) = FreshLedger /\ Rebuild(<< >>) = FreshLedger
  BY <1>1, BeforeLaws, RebuildLaws
<1>3. Enough(<< >>, 0)
  <2> SUFFICES ASSUME NEW v \in Holders, NEW b \in Assets
               PROVE  FreeOf(FreshLedger, v, b)
                        >= FreeOf(FreshLedger, v, b) - Locks(<< >>, 0, v, b)
    BY <1>2 DEF Enough
  <2> DEFINE s == << >>
  <2>3. s \in Seq(Event) /\ Len(s) = 0
    OBVIOUS
  <2>4. Locks(s, 0, v, b) \in Nat
    <3> HIDE DEF s
    <3>1. Locks(s, Len(s), v, b) = 0
      BY <2>3, LocksLaws
    <3> QED BY <2>3, <3>1
  <2>1. Locks(<< >>, 0, v, b) \in Nat
    BY <2>4
  <2>2. FreeOf(FreshLedger, v, b) \in Int
    BY FreshSolvent, BalanceTypes DEF Solvent
  <2> QED BY <2>1, <2>2
<1>4. \A i \in 0..0 : i = 0
  OBVIOUS
<1> QED BY <1>1, <1>2, <1>3, <1>4, FreshSolvent DEF Accounted

(* The accounts of a stream that has grown by one event.                   *)
Continues(s, t, e) ==
  /\ t \in Seq(Event) /\ Extends(s, t, e)
  /\ \A i \in 0..Len(s) : Before(t, i) = Before(s, i)
  /\ Rebuild(t) = Apply(Rebuild(s), e, "replay")

LEMMA StreamContinues ==
  ASSUME NEW s \in Seq(Event), NEW e \in Event
  PROVE  Continues(s, Append(s, e), e)
BY Appended, BeforeAppend DEF Continues

LEMMA AccountedGrows ==
  ASSUME NEW s, Accounted(s), NEW e \in Event, Payable(Rebuild(s), e, "replay"),
         NEW t, Continues(s, t, e)
  PROVE  Accounted(t) /\ Applied(Rebuild(s), Rebuild(t), e, "replay")
<1>1. /\ s \in Seq(Event) /\ Len(s) \in Nat /\ t \in Seq(Event) /\ Extends(s, t, e)
  BY DEF Accounted, Continues
<1>2. /\ \A i \in 0..Len(s) : Before(t, i) = Before(s, i)
      /\ Rebuild(t) = Apply(Rebuild(s), e, "replay")
  BY DEF Continues
<1>3. /\ Before(s, Len(s)) = Rebuild(s) /\ Before(t, Len(t)) = Rebuild(t)
  <2>1. t \in Seq(Event)
    BY <1>1
  <2>2. Before(s, Len(s)) = Rebuild(s)
    BY <1>1, BeforeLaws
  <2> QED BY <2>1, <2>2, BeforeLaws
<1>4. Solvent(Rebuild(s)) /\ IsEvent(e) /\ Len(s) \in 0..Len(s)
  BY <1>1, <1>3, EventIsEvent DEF Accounted
<1>5. Applied(Rebuild(s), Rebuild(t), e, "replay")
  BY <1>2, <1>4, FiniteHolders, ApplyEffect DEF Solvent
<1>6. /\ Solvent(Rebuild(t))
      /\ \A v \in Holders : \A b \in Assets :
           FreeOf(Rebuild(t), v, b) >= FreeOf(Rebuild(s), v, b) - Lock(e, v, b)
  BY <1>4, <1>5, SolventStep
<1>7. ASSUME NEW i \in 0..Len(s)
      PROVE  Enough(t, i)
  <2> SUFFICES ASSUME NEW v \in Holders, NEW b \in Assets
               PROVE  FreeOf(Rebuild(t), v, b) >= FreeOf(Before(t, i), v, b) - Locks(t, i, v, b)
    BY DEF Enough
  <2>1. Locks(t, i, v, b) = Locks(s, i, v, b) + Lock(e, v, b)
    BY <1>1, LocksAppend
  <2>2. Locks(s, i, v, b) \in Nat /\ Lock(e, v, b) \in Nat
    BY <1>1, LocksLaws, LockType
  <2>3. FreeOf(Rebuild(s), v, b) >= FreeOf(Before(s, i), v, b) - Locks(s, i, v, b)
    BY DEF Accounted, Enough
  <2>4. FreeOf(Rebuild(t), v, b) \in Int /\ FreeOf(Rebuild(s), v, b) \in Int
        /\ FreeOf(Before(s, i), v, b) \in Int
    BY <1>4, <1>6, BalanceTypes DEF Solvent, Accounted
  <2>5. Before(t, i) = Before(s, i)
    BY <1>2
  <2> QED BY <1>6, <2>1, <2>2, <2>3, <2>4, <2>5
<1>8. Enough(t, Len(t))
  <2> SUFFICES ASSUME NEW v \in Holders, NEW b \in Assets
               PROVE  FreeOf(Rebuild(t), v, b)
                        >= FreeOf(Rebuild(t), v, b) - Locks(t, Len(t), v, b)
    BY <1>3 DEF Enough
  <2>1. Locks(t, Len(t), v, b) = 0
    BY <1>1, LocksLaws
  <2>2. FreeOf(Rebuild(t), v, b) \in Int
    BY <1>6, BalanceTypes DEF Solvent
  <2> QED BY <2>1, <2>2
<1>9. ASSUME NEW i \in 0..Len(t)
      PROVE  /\ Solvent(Before(t, i)) /\ Enough(t, i)
             /\ i < Len(t) => Payable(Before(t, i), t[i + 1], "replay")
  <2>1. CASE i = Len(t)
    <3>1. ~(i < Len(t))
      BY <1>1, <2>1 DEF Extends
    <3> QED BY <1>3, <1>6, <1>8, <2>1, <3>1
  <2>2. CASE i = Len(s)
    <3>1. i \in 0..Len(s) /\ t[i + 1] = e /\ Before(t, i) = Rebuild(s)
      BY <1>1, <1>2, <1>3, <2>2 DEF Extends
    <3> QED BY <1>4, <1>7, <3>1
  <2>3. CASE i # Len(t) /\ i # Len(s)
    <3>1. i \in 0..Len(s) /\ i < Len(s) /\ i + 1 \in 1..Len(s)
      BY <1>1, <2>3 DEF Extends
    <3>2. t[i + 1] = s[i + 1] /\ Before(t, i) = Before(s, i)
      BY <1>1, <1>2, <3>1 DEF Extends
    <3> QED BY <1>7, <3>1, <3>2 DEF Accounted
  <2> QED BY <2>1, <2>2, <2>3
<1> QED BY <1>1, <1>2, <1>5, <1>9 DEF Accounted

-----------------------------------------------------------------------------
(* What rounding down loses when a quantity is split. *)

LEMMA Division ==
  ASSUME NEW x \in Nat, NEW d \in Nat \ {0}
  PROVE  /\ x \div d \in Nat
         /\ d * (x \div d) <= x /\ x < d * (x \div d) + d
OBVIOUS

LEMMA DivisionSplit ==
  ASSUME NEW x \in Nat, NEW y \in Nat, NEW d \in Nat \ {0}
  PROVE  (x + y) \div d - x \div d - y \div d \in 0..1
<1> DEFINE a == x \div d  b == y \div d  c == (x + y) \div d
<1>1. /\ a \in Nat /\ d * a <= x /\ x < d * a + d
      /\ b \in Nat /\ d * b <= y /\ y < d * b + d
      /\ c \in Nat /\ d * c <= x + y /\ x + y < d * c + d
  <2>1. x + y \in Nat
    OBVIOUS
  <2> QED BY <2>1, Division
<1> HIDE DEF a, b, c
<1>2. d * (a + b) < d * (c + 1)
  <2>1. d * (a + b) = d * a + d * b /\ d * (c + 1) = d * c + d
    BY <1>1
  <2> QED BY <1>1, <2>1
<1>3. d * c < d * (a + b + 2)
  <2>1. d * (a + b + 2) = d * a + d * b + d + d
    BY <1>1
  <2> QED BY <1>1, <2>1
<1>4. a + b < c + 1
  BY <1>1, <1>2
<1>5. c < a + b + 2
  BY <1>1, <1>3
<1>6. c - a - b \in 0..1
  BY <1>1, <1>4, <1>5
<1> QED BY <1>6 DEF a, b, c

LEMMA NotionalSplits ==
  ASSUME NEW price \in Nat, NEW p \in 0..price, NEW qty \in Nat, NEW q \in 0..qty
  PROVE  /\ NotionalQuote(price, qty) - NotionalQuote(price, qty - q) - NotionalQuote(price, q) \in 0..1
         /\ NotionalQuote(price, q) - NotionalQuote(p, q) - NotionalQuote(price - p, q) \in 0..1
<1>1. BtcOne \in Nat \ {0}
  BY LedgerAssumption
<1>2. ASSUME NEW P \in Nat, NEW k \in Nat, NEW m \in Nat
      PROVE  /\ P * k \in Nat /\ P * m \in Nat /\ P * (k + m) = P * k + P * m
             /\ k * P \in Nat /\ m * P \in Nat /\ (k + m) * P = k * P + m * P
  OBVIOUS
<1>3. qty - q \in Nat /\ q \in Nat /\ (qty - q) + q = qty /\ p \in Nat /\ price - p \in Nat
      /\ p + (price - p) = price
  OBVIOUS
<1> DEFINE s == qty - q  t == price - p
<1>4. s \in Nat /\ s + q = qty /\ t \in Nat /\ p + t = price /\ q \in Nat /\ p \in Nat
  BY <1>3
<1> HIDE DEF s, t
<1>5. /\ price * s \in Nat /\ price * q \in Nat /\ price * qty = price * s + price * q
      /\ p * q \in Nat /\ t * q \in Nat /\ price * q = p * q + t * q
  BY <1>2, <1>4
<1>6. /\ NotionalQuote(price, qty) - NotionalQuote(price, s) - NotionalQuote(price, q) \in 0..1
      /\ NotionalQuote(price, q) - NotionalQuote(p, q) - NotionalQuote(t, q) \in 0..1
  <2> DEFINE ps == price * s  pq == price * q  x == p * q  y == t * q  w == price * qty
  <2>1. ps \in Nat /\ pq \in Nat /\ x \in Nat /\ y \in Nat /\ w = ps + pq /\ pq = x + y
    BY <1>5
  <2>2. /\ NotionalQuote(price, qty) = w \div BtcOne /\ NotionalQuote(price, s) = ps \div BtcOne
        /\ NotionalQuote(price, q) = pq \div BtcOne /\ NotionalQuote(p, q) = x \div BtcOne
        /\ NotionalQuote(t, q) = y \div BtcOne
    BY DEF NotionalQuote
  <2> HIDE DEF ps, pq, x, y, w
  <2>3. /\ w \div BtcOne - ps \div BtcOne - pq \div BtcOne \in 0..1
        /\ pq \div BtcOne - x \div BtcOne - y \div BtcOne \in 0..1
    BY <1>1, <2>1, DivisionSplit
  <2> QED BY <2>2, <2>3
<1> QED BY <1>6 DEF s, t

-----------------------------------------------------------------------------
(* The open orders, as a set of records, and what they can still cost. *)

DueOf(o, v, b) == Share(o.userId, o.side, o.price, o.remaining, v, b)

Due(S, v, b) == Sigma([o \in Order |-> DueOf(o, v, b)], S)

OpenSet(S) ==
  /\ S \in SUBSET Order /\ IsFiniteSet(S)
  /\ \A o \in S : o.remaining > 0 /\ o.type # "MARKET"
  /\ \A o, x \in S : o.orderId = x.orderId => o = x

LEMMA OrderTerms ==
  ASSUME NEW o \in Order
  PROVE  /\ o.orderId \in Nat /\ o.userId \in Users /\ o.userId \in Holders /\ o.side \in Sides
         /\ o.price \in Nat /\ o.qty \in Nat /\ o.remaining \in Nat
         /\ \A v, b : DueOf(o, v, b) \in Nat
BY ReserveType DEF Order, DueOf, Holders

LEMMA DueLaws ==
  ASSUME NEW S \in SUBSET Order, IsFiniteSet(S), NEW v, NEW b
  PROVE  /\ Due(S, v, b) \in Nat /\ Due({}, v, b) = 0
         /\ \A o \in S : Due(S, v, b) = DueOf(o, v, b) + Due(S \ {o}, v, b)
                         /\ Due(S \ {o}, v, b) \in Nat
         /\ \A o \in Order \ S : Due(S \cup {o}, v, b) = DueOf(o, v, b) + Due(S, v, b)
<1> DEFINE w == [o \in Order |-> DueOf(o, v, b)]
<1>1. \A o \in Order : w[o] = DueOf(o, v, b) /\ w[o] \in Nat
  BY OrderTerms
<1> HIDE DEF w
<1>2. Weighs(w, S)
  BY <1>1 DEF Weighs
<1>3. Sigma(w, S) \in Nat /\ Sigma(w, {}) = 0
      /\ \A o \in S : Sigma(w, S) = w[o] + Sigma(w, S \ {o})
  BY <1>1, <1>2, SigmaLaws, SigmaMonotonic
<1>4. \A o \in S : Sigma(w, S \ {o}) \in Nat
  <2> SUFFICES ASSUME NEW o \in S PROVE Sigma(w, S \ {o}) \in Nat
    OBVIOUS
  <2>1. IsFiniteSet(S \ {o}) /\ \A x \in S \ {o} : w[x] \in Nat
    BY <1>1, OneLess
  <2> QED BY <2>1, SigmaMonotonic
<1>5. \A o \in Order \ S : Sigma(w, S \cup {o}) = w[o] + Sigma(w, S)
  BY <1>1, <1>2, SigmaAdd
<1>6. \A T : Due(T, v, b) = Sigma(w, T)
  BY DEF Due, w
<1> QED BY <1>1, <1>3, <1>4, <1>5, <1>6

(* An order after q of it has been filled; nothing is left of a filled one. *)
Remaining(o, q) == [o EXCEPT !.remaining = o.remaining - q]

Reduced(S, o, q) == (S \ {o}) \cup (IF q = o.remaining THEN {} ELSE {Remaining(o, q)})

LEMMA RemainingTerms ==
  ASSUME NEW o \in Order, NEW q \in 0..o.remaining
  PROVE  LET r == Remaining(o, q) IN
         /\ r \in Order /\ r.orderId = o.orderId /\ r.userId = o.userId /\ r.side = o.side
         /\ r.type = o.type /\ r.price = o.price /\ r.remaining = o.remaining - q
         /\ r.clientOrderId = o.clientOrderId
BY DEF Order, Remaining

LEMMA NothingDue ==
  ASSUME NEW o \in Order, o.remaining = 0, NEW v, NEW b
  PROVE  DueOf(o, v, b) = 0
<1>1. BtcOne \in Nat \ {0}
  BY LedgerAssumption
<1>2. 0 \div BtcOne = 0
  BY <1>1
<1>3. o.price * 0 = 0
  BY OrderTerms
<1>4. ReserveForOrder(o.side, o.price, 0).amount = 0
  BY <1>2, <1>3 DEF ReserveForOrder, Of, NotionalQuote
<1> QED BY <1>4 DEF DueOf, Share, For

LEMMA OrderReduced ==
  ASSUME NEW S, OpenSet(S), NEW o \in S, NEW q \in Nat, q > 0, q <= o.remaining
  PROVE  /\ OpenSet(Reduced(S, o, q))
         /\ \A x \in S : x # o => x \in Reduced(S, o, q)
         /\ \A x \in Reduced(S, o, q) : x \in S \/ x = Remaining(o, q)
         /\ \A v, b : Due(Reduced(S, o, q), v, b)
                        = Due(S, v, b) - DueOf(o, v, b) + DueOf(Remaining(o, q), v, b)
<1> DEFINE T == S \ {o}  r == Remaining(o, q)
<1>1. /\ S \in SUBSET Order /\ IsFiniteSet(S) /\ o \in Order /\ o.remaining \in Nat
      /\ T \in SUBSET Order /\ IsFiniteSet(T) /\ q \in 0..o.remaining
  BY OrderTerms, OneLess DEF OpenSet
<1>2. /\ r \in Order /\ r.orderId = o.orderId /\ r.type = o.type
      /\ r.remaining = o.remaining - q
  BY <1>1, RemainingTerms
<1>3. r \notin T
  BY <1>2 DEF OpenSet
<1>4. ASSUME NEW v, NEW b
      PROVE  /\ Due(T, v, b) = Due(S, v, b) - DueOf(o, v, b)
             /\ Due(T \cup {r}, v, b) = Due(S, v, b) - DueOf(o, v, b) + DueOf(r, v, b)
             /\ Due(T, v, b) \in Int /\ DueOf(r, v, b) \in Nat
  <2> HIDE DEF r
  <2>1. DueOf(o, v, b) \in Nat /\ DueOf(r, v, b) \in Nat
    BY <1>1, <1>2, OrderTerms
  <2>2. Due(S, v, b) = DueOf(o, v, b) + Due(S \ {o}, v, b) /\ Due(S \ {o}, v, b) \in Nat
    BY <1>1, DueLaws
  <2> HIDE DEF T
  <2>3. r \in Order \ T
    BY <1>2, <1>3
  <2>4. Due(T \cup {r}, v, b) = DueOf(r, v, b) + Due(T, v, b)
    BY <1>1, <2>3, DueLaws
  <2>5. Due(S, v, b) = DueOf(o, v, b) + Due(T, v, b) /\ Due(T, v, b) \in Nat
    BY <2>2 DEF T
  <2> QED BY <2>1, <2>4, <2>5
<1>5. OpenSet(T)
  BY <1>1 DEF OpenSet
<1>6. CASE q = o.remaining
  <2>1. Reduced(S, o, q) = T
    BY <1>6 DEF Reduced
  <2>2. r.remaining = 0
    BY <1>1, <1>2, <1>6
  <2>3. \A v, b : DueOf(r, v, b) = 0
    BY <1>2, <2>2, NothingDue
  <2>4. ASSUME NEW v, NEW b
        PROVE  Due(T, v, b) = Due(S, v, b) - DueOf(o, v, b) + DueOf(r, v, b)
    <3> HIDE DEF T, r
    <3>1. Due(T, v, b) = Due(S, v, b) - DueOf(o, v, b) /\ Due(T, v, b) \in Int
      BY <1>4
    <3>2. DueOf(r, v, b) = 0
      BY <2>3
    <3> QED BY <3>1, <3>2
  <2> QED BY <1>5, <2>1, <2>4
<1>7. CASE q # o.remaining
  <2>1. Reduced(S, o, q) = T \cup {r}
    BY <1>7 DEF Reduced
  <2>2. r.remaining > 0
    BY <1>1, <1>2, <1>7
  <2>3. OpenSet(T \cup {r})
    <3>1. T \cup {r} \in SUBSET Order /\ IsFiniteSet(T \cup {r})
      BY <1>1, <1>2, FS_AddElement
    <3>2. \A x \in T \cup {r} : x.remaining > 0 /\ x.type # "MARKET"
      BY <1>2, <2>2 DEF OpenSet
    <3>3. \A x \in T : x.orderId # r.orderId
      BY <1>2 DEF OpenSet
    <3>4. \A x, y \in T \cup {r} : x.orderId = y.orderId => x = y
      BY <1>5, <3>3 DEF OpenSet
    <3> QED BY <3>1, <3>2, <3>4 DEF OpenSet
  <2> QED BY <1>4, <2>1, <2>3
<1> QED BY <1>6, <1>7

-----------------------------------------------------------------------------
(* The settler's table of open buys. *)

Buys(S) == {o \in S : o.side = "buy"}

Tabled(B, S) ==
  /\ DOMAIN B = {o.orderId : o \in Buys(S)}
  /\ \A o \in Buys(S) : B[o.orderId] = [price |-> o.price, remaining |-> o.remaining]

LEMMA TableLooksUp ==
  ASSUME NEW B, NEW S, OpenSet(S), Tabled(B, S), NEW o \in S
  PROVE  /\ o.orderId \in DOMAIN B <=> o.side = "buy"
         /\ o.side = "buy" => B[o.orderId].price = o.price /\ B[o.orderId].remaining = o.remaining
<1>1. o.orderId \in DOMAIN B => o.side = "buy"
  <2> SUFFICES ASSUME o.orderId \in DOMAIN B PROVE o.side = "buy"
    OBVIOUS
  <2>1. PICK x \in Buys(S) : x.orderId = o.orderId
    BY DEF Tabled
  <2>2. x = o
    BY <2>1 DEF OpenSet, Buys
  <2> QED BY <2>1, <2>2 DEF Buys
<1>2. ASSUME o.side = "buy"
      PROVE  o.orderId \in DOMAIN B /\ B[o.orderId].price = o.price
             /\ B[o.orderId].remaining = o.remaining
  <2>1. o \in Buys(S)
    BY <1>2 DEF Buys
  <2>2. o.orderId \in DOMAIN B
        /\ B[o.orderId] = [price |-> o.price, remaining |-> o.remaining]
    BY <2>1 DEF Tabled
  <2> QED BY <2>2
<1> QED BY <1>1, <1>2

LEMMA TableWithout ==
  ASSUME NEW B, NEW S, Tabled(B, S), NEW id
  PROVE  Tabled(Without(B, id), {x \in S : x.orderId # id})
<1> DEFINE C == Without(B, id)  T == {x \in S : x.orderId # id}
<1>1. DOMAIN C = DOMAIN B \ {id} /\ \A y \in DOMAIN C : C[y] = B[y]
  BY DEF Without, Restrict
<1>2. Buys(T) = {x \in Buys(S) : x.orderId # id}
  BY DEF Buys
<1>3. DOMAIN C = {x.orderId : x \in Buys(T)}
  BY <1>1, <1>2 DEF Tabled
<1>4. ASSUME NEW x \in Buys(T)
      PROVE  C[x.orderId] = [price |-> x.price, remaining |-> x.remaining]
  <2>1. x \in Buys(S) /\ x.orderId \in DOMAIN C
    BY <1>2, <1>3
  <2> HIDE DEF C
  <2> QED BY <1>1, <2>1 DEF Tabled
<1> HIDE DEF C, T
<1>5. Tabled(C, T)
  BY <1>3, <1>4 DEF Tabled
<1> QED BY <1>5 DEF C, T

LEMMA TableFilled ==
  ASSUME NEW B, NEW S, OpenSet(S), Tabled(B, S), NEW o \in S, NEW q \in Nat,
         q > 0, q <= o.remaining
  PROVE  /\ o.side = "buy" => Tabled(FilledBuy(B, o.orderId, q), Reduced(S, o, q))
         /\ o.side # "buy" => Tabled(B, Reduced(S, o, q))
<1> DEFINE r == Remaining(o, q)
<1>1. /\ o \in Order /\ o.remaining \in Nat /\ q \in 0..o.remaining
  BY OrderTerms DEF OpenSet
<1>2. /\ r \in Order /\ r.orderId = o.orderId /\ r.side = o.side /\ r.price = o.price
      /\ r.remaining = o.remaining - q
  BY <1>1, RemainingTerms
<1>3. \A x \in S \ {o} : x.orderId # o.orderId
  BY DEF OpenSet
<1>4. CASE o.side # "buy"
  <2>1. Buys(Reduced(S, o, q)) = Buys(S)
    BY <1>2, <1>4 DEF Buys, Reduced
  <2> QED BY <1>4, <2>1 DEF Tabled
<1>5. CASE o.side = "buy"
  <2>1. o.orderId \in DOMAIN B /\ B[o.orderId].price = o.price
        /\ B[o.orderId].remaining = o.remaining
    BY <1>5, TableLooksUp
  <2>2. CASE q = o.remaining
    <3>1. FilledBuy(B, o.orderId, q) = Without(B, o.orderId) /\ Reduced(S, o, q) = S \ {o}
      BY <1>1, <2>1, <2>2 DEF FilledBuy, Reduced
    <3>2. S \ {o} = {x \in S : x.orderId # o.orderId}
      BY <1>3
    <3> QED BY <1>5, <3>1, <3>2, TableWithout
  <2>3. CASE q # o.remaining
    <3> DEFINE T == S \ {o}
               e == [price |-> o.price, remaining |-> o.remaining - q]
               C == [B EXCEPT ![o.orderId] = e]
    <3>1. FilledBuy(B, o.orderId, q) = C /\ Reduced(S, o, q) = T \cup {r}
      BY <1>1, <2>1, <2>3 DEF FilledBuy, Reduced
    <3>2. DOMAIN C = DOMAIN B /\ \A id \in DOMAIN B : id # o.orderId => C[id] = B[id]
      OBVIOUS
    <3>3. C[o.orderId] = e
      BY <2>1
    <3> HIDE DEF C, e
    <3>4. Buys(T \cup {r}) = (Buys(S) \ {o}) \cup {r}
      BY <1>2, <1>5 DEF Buys
    <3>5. DOMAIN C = {x.orderId : x \in Buys(T \cup {r})}
      <4>1. o \in Buys(S) /\ r.orderId = o.orderId
        BY <1>2, <1>5 DEF Buys
      <4> HIDE DEF r, T
      <4>2. \A y : y \in DOMAIN C <=> \E x \in Buys(S) : y = x.orderId
        BY <3>2 DEF Tabled
      <4>3. \A y : y \in DOMAIN C <=> \E x \in Buys(T \cup {r}) : y = x.orderId
        BY <3>4, <4>1, <4>2
      <4> QED BY <4>3
    <3>6. ASSUME NEW x \in Buys(T \cup {r})
          PROVE  C[x.orderId] = [price |-> x.price, remaining |-> x.remaining]
      <4>1. CASE x = r
        BY <1>2, <3>3, <4>1 DEF e
      <4>2. CASE x # r
        <5>1. x \in Buys(S) /\ x.orderId # o.orderId
          BY <1>3, <3>4, <4>2 DEF Buys
        <5>2. x.orderId \in DOMAIN B
          BY <5>1 DEF Tabled
        <5> QED BY <3>2, <5>1, <5>2 DEF Tabled
      <4> QED BY <4>1, <4>2
    <3>7. Tabled(C, T \cup {r})
      BY <3>5, <3>6 DEF Tabled
    <3> QED BY <1>5, <3>1, <3>7
  <2> QED BY <2>2, <2>3
<1> QED BY <1>4, <1>5

LEMMA TableAdded ==
  ASSUME NEW B, NEW S, Tabled(B, S), NEW o, \A x \in S : x.orderId # o.orderId
  PROVE  Tabled(IF o.side = "buy"
                THEN Put(B, o.orderId, [price |-> o.price, remaining |-> o.remaining]) ELSE B,
                S \cup {o})
<1>1. CASE o.side # "buy"
  <2>1. Buys(S \cup {o}) = Buys(S)
    BY <1>1 DEF Buys
  <2> QED BY <1>1, <2>1 DEF Tabled
<1>2. CASE o.side = "buy"
  <2> DEFINE e == [price |-> o.price, remaining |-> o.remaining]
             C == Put(B, o.orderId, e)
  <2>1. DOMAIN C = DOMAIN B \cup {o.orderId} /\ C[o.orderId] = e
        /\ \A id \in DOMAIN B : id # o.orderId => C[id] = B[id]
    BY DEF Put
  <2> HIDE DEF C
  <2>2. Buys(S \cup {o}) = Buys(S) \cup {o}
    BY <1>2 DEF Buys
  <2>3. ASSUME NEW x \in Buys(S \cup {o})
        PROVE  C[x.orderId] = [price |-> x.price, remaining |-> x.remaining]
    <3>1. CASE x = o
      BY <2>1, <3>1
    <3>2. CASE x # o
      <4>1. x \in Buys(S) /\ x.orderId # o.orderId /\ x.orderId \in DOMAIN B
        BY <2>2, <3>2 DEF Tabled, Buys
      <4> QED BY <2>1, <4>1 DEF Tabled
    <3> QED BY <3>1, <3>2
  <2>4. DOMAIN C = {x.orderId : x \in Buys(S \cup {o})}
    <3>1. \A y : y \in DOMAIN B <=> \E x \in Buys(S) : y = x.orderId
      BY DEF Tabled
    <3>2. \A y : y \in DOMAIN C <=> \E x \in Buys(S \cup {o}) : y = x.orderId
      BY <2>1, <2>2, <3>1
    <3> QED BY <3>2
  <2>5. Tabled(C, S \cup {o})
    BY <2>3, <2>4 DEF Tabled
  <2> QED BY <1>2, <2>5 DEF C
<1> QED BY <1>1, <1>2

-----------------------------------------------------------------------------
(* What is locked for the open orders, and how an event changes that. *)

BoughtBy(s, v) == {i \in DOMAIN s : s[i].kind = "Trade" /\ Buyer(s[i]) = v}

CanceledBy(s, v) ==
  {i \in DOMAIN s : /\ s[i].kind = "OrderCanceled"
                    /\ s[i].side = "buy" /\ s[i].userId = v}

(* The rounding of so many fills and cancels.                              *)
Slack(s, v, b) ==
  IF b = "USDC" THEN 2 * Cardinality(BoughtBy(s, v)) + Cardinality(CanceledBy(s, v)) ELSE 0

SlackOf(ev, v, b) ==
  IF b # "USDC" THEN 0
  ELSE IF ev.kind = "Trade" /\ Buyer(ev) = v THEN 2
  ELSE IF ev.kind = "OrderCanceled" /\ ev.side = "buy" /\ ev.userId = v THEN 1
  ELSE 0

(* The cancels in a stream; the open orders none of them names; and the     *)
(* prices at which the open orders were accepted.                          *)
Gone(s) ==
  {s[j].orderId : j \in {x \in 1..Len(s) : s[x].kind = "OrderCanceled"}}

Listed(S, s) == {o \in S : o.orderId \notin Gone(s)}

Recorded(S, s) == \A o \in S : Limits(s, Len(s), o.orderId) = {o.price}

(* What the fills behind the cancels of their orders leave locked.         *)
StrandAt(s, v, b) ==
  [i \in 1..Len(s) |->
     IF LateFill(s, i) THEN For(Buyer(s[i]), "USDC", LostSurplus(s, i), v, b) ELSE 0]

Strand(s, v, b) == Sigma(StrandAt(s, v, b), 1..Len(s))

LastStrand(s, v, b) == StrandAt(s, v, b)[Len(s)]

Counted(s) == \A i \in 1..Len(s) : LateFill(s, i) => LostSurplus(s, i) \in Nat

Owes(l, S, s) ==
  /\ \A v \in Holders : \A b \in Assets :
       LockedOf(l, v, b) - Due(S, v, b) - Strand(s, v, b) \in 0..Slack(s, v, b)
  /\ Counted(s) /\ Recorded(S, s)
  /\ Tabled(l.openBuys, Listed(S, s))

LEMMA GoneGrows ==
  ASSUME NEW s \in Seq(Event), NEW t \in Seq(Event), NEW ev, Extends(s, t, ev)
  PROVE  Gone(t) = Gone(s) \cup (IF ev.kind = "OrderCanceled" THEN {ev.orderId} ELSE {})
<1> DEFINE n == Len(s)
<1>1. n \in Nat /\ Len(t) = n + 1 /\ t[n + 1] = ev /\ \A i \in 1..n : t[i] = s[i]
  BY DEF Extends
<1> HIDE DEF n
<1>2. ASSUME NEW y
      PROVE  y \in Gone(t) <=>
               y \in Gone(s) \/ (ev.kind = "OrderCanceled" /\ y = ev.orderId)
  <2>1. y \in Gone(t) <=> \E j \in 1..(n + 1) : t[j].kind = "OrderCanceled" /\ y = t[j].orderId
    BY <1>1 DEF Gone
  <2>2. y \in Gone(s) <=> \E j \in 1..n : s[j].kind = "OrderCanceled" /\ y = s[j].orderId
    BY DEF Gone, n
  <2>3. \A j : j \in 1..(n + 1) <=> j \in 1..n \/ j = n + 1
    BY <1>1
  <2> QED BY <1>1, <2>1, <2>2, <2>3
<1> QED BY <1>2

LEMMA LimitsGrow ==
  ASSUME NEW s \in Seq(Event), NEW t \in Seq(Event), NEW ev, Extends(s, t, ev), NEW id
  PROVE  /\ \A i \in 0..Len(s) : Limits(t, i, id) = Limits(s, i, id)
         /\ Limits(t, Len(t), id) = Limits(s, Len(s), id) \cup
              (IF ev.kind = "OrderAccepted" /\ ev.order.orderId = id THEN {ev.order.price}
               ELSE {})
<1> DEFINE n == Len(s)
           Asks(e) == e.kind = "OrderAccepted" /\ e.order.orderId = id
<1>1. n \in Nat /\ Len(t) = n + 1 /\ t[n + 1] = ev /\ \A i \in 1..n : t[i] = s[i]
  BY DEF Extends
<1>0. \A r, i, y : y \in Limits(r, i, id) <=>
                   \E j \in 1..i : Asks(r[j]) /\ y = r[j].order.price
  BY DEF Limits
<1> HIDE DEF n, Asks
<1>2. ASSUME NEW i \in 0..n
      PROVE  Limits(t, i, id) = Limits(s, i, id)
  <2>1. \A j \in 1..i : j \in 1..n
    BY <1>1
  <2>2. \A y : y \in Limits(t, i, id) <=> y \in Limits(s, i, id)
    BY <1>0, <1>1, <2>1
  <2> QED BY <2>2 DEF Limits
<1>3. ASSUME NEW y
      PROVE  y \in Limits(t, n + 1, id) <=>
               y \in Limits(s, n, id) \/ (Asks(ev) /\ y = ev.order.price)
  <2>1. \A j : j \in 1..(n + 1) <=> j \in 1..n \/ j = n + 1
    BY <1>1
  <2> QED BY <1>0, <1>1, <2>1
<1>4. Limits(t, n + 1, id) =
        Limits(s, n, id) \cup (IF Asks(ev) THEN {ev.order.price} ELSE {})
  BY <1>3
<1> QED BY <1>1, <1>2, <1>4 DEF n, Asks

LEMMA LimitsSame ==
  ASSUME NEW s \in Seq(Event), NEW t \in Seq(Event), NEW ev, Extends(s, t, ev),
         ev.kind # "OrderAccepted", NEW id
  PROVE  Limits(t, Len(t), id) = Limits(s, Len(s), id)
<1>1. Limits(t, Len(t), id) = Limits(s, Len(s), id) \cup
        (IF ev.kind = "OrderAccepted" /\ ev.order.orderId = id THEN {ev.order.price} ELSE {})
  BY LimitsGrow
<1> QED BY <1>1

LEMMA GoneSame ==
  ASSUME NEW s \in Seq(Event), NEW t \in Seq(Event), NEW ev, Extends(s, t, ev),
         ev.kind # "OrderCanceled"
  PROVE  Gone(t) = Gone(s)
<1>1. Gone(t) = Gone(s) \cup (IF ev.kind = "OrderCanceled" THEN {ev.orderId} ELSE {})
  BY GoneGrows
<1> QED BY <1>1

LEMMA LateGrows ==
  ASSUME NEW s \in Seq(Event), NEW t \in Seq(Event), NEW ev, Extends(s, t, ev)
  PROVE  /\ \A i \in 1..Len(s) : /\ LateFill(t, i) <=> LateFill(s, i)
                                 /\ LostSurplus(t, i) = LostSurplus(s, i)
         /\ LateFill(t, Len(t)) <=>
              ev.kind = "Trade" /\ ev.aggressor = "buy" /\ ev.takerOrderId \in Gone(s)
<1> DEFINE n == Len(s)
<1>1. n \in Nat /\ Len(t) = n + 1 /\ t[n + 1] = ev /\ \A i \in 1..n : t[i] = s[i]
  BY DEF Extends
<1> HIDE DEF n
<1>2. ASSUME NEW i \in 1..n
      PROVE  /\ LateFill(t, i) <=> LateFill(s, i)
             /\ LostSurplus(t, i) = LostSurplus(s, i)
  <2>1. (\A j \in 1..i : j \in 1..n) /\ i \in 0..n
    BY <1>1
  <2>2. LateFill(t, i) <=> LateFill(s, i)
    BY <1>1, <2>1 DEF LateFill
  <2>3. Limits(t, i, s[i].takerOrderId) = Limits(s, i, s[i].takerOrderId)
    BY <2>1, LimitsGrow DEF n
  <2>4. t[i] = s[i]
    BY <1>1
  <2> QED BY <2>2, <2>3, <2>4 DEF LostSurplus
<1>3. LateFill(t, n + 1) <=>
        ev.kind = "Trade" /\ ev.aggressor = "buy" /\ ev.takerOrderId \in Gone(s)
  <2>1. \A j : j \in 1..(n + 1) <=> j \in 1..n \/ j = n + 1
    BY <1>1
  <2>2. \A y : y \in Gone(s) <=> \E j \in 1..n : s[j].kind = "OrderCanceled" /\ y = s[j].orderId
    BY DEF Gone, n
  <2>3. ev.kind = "Trade" => ev.kind # "OrderCanceled"
    OBVIOUS
  <2> QED BY <1>1, <2>1, <2>2, <2>3 DEF LateFill
<1> QED BY <1>1, <1>2, <1>3 DEF n

LEMMA StrandType ==
  ASSUME NEW s \in Seq(Event), Counted(s), NEW v, NEW b
  PROVE  /\ \A i \in 1..Len(s) : StrandAt(s, v, b)[i] \in Nat
         /\ Weighs(StrandAt(s, v, b), 1..Len(s)) /\ Strand(s, v, b) \in Nat
<1>1. \A i \in 1..Len(s) : StrandAt(s, v, b)[i] \in Nat
  BY DEF StrandAt, Counted, For
<1>2. IsFiniteSet(1..Len(s))
  BY FS_Interval
<1> QED BY <1>1, <1>2, SigmaMonotonic DEF Strand, Weighs

LEMMA StrandGrows ==
  ASSUME NEW s \in Seq(Event), NEW t \in Seq(Event), NEW ev, Extends(s, t, ev),
         Counted(s), LateFill(t, Len(t)) => LostSurplus(t, Len(t)) \in Nat
  PROVE  /\ Counted(t)
         /\ \A v, b : /\ LastStrand(t, v, b) \in Nat
                      /\ Strand(t, v, b) = Strand(s, v, b) + LastStrand(t, v, b)
<1> DEFINE n == Len(s)
<1>1. n \in Nat /\ Len(t) = n + 1 /\ \A i \in 1..n : t[i] = s[i]
  BY DEF Extends
<1>2. \A i \in 1..n : /\ LateFill(t, i) <=> LateFill(s, i)
                      /\ LostSurplus(t, i) = LostSurplus(s, i)
  BY LateGrows
<1> HIDE DEF n
<1>3. 1..(n + 1) = (1..n) \cup {n + 1} /\ n + 1 \notin 1..n
  BY <1>1
<1>4. Counted(t)
  BY <1>1, <1>2, <1>3 DEF Counted, n
<1>5. ASSUME NEW v, NEW b
      PROVE  /\ LastStrand(t, v, b) \in Nat
             /\ Strand(t, v, b) = Strand(s, v, b) + LastStrand(t, v, b)
  <2> DEFINE w == StrandAt(s, v, b)  u == StrandAt(t, v, b)
  <2>1. /\ Weighs(w, 1..n) /\ Sigma(w, 1..n) \in Nat /\ \A i \in 1..(n + 1) : u[i] \in Nat
    <3>1. \A i \in 1..Len(t) : u[i] \in Nat
      BY <1>4, StrandType
    <3>2. Weighs(w, 1..Len(s)) /\ Strand(s, v, b) \in Nat
      BY StrandType
    <3> QED BY <1>1, <3>1, <3>2 DEF n, Strand
  <2>2. \A i \in 1..n : u[i] = w[i]
    <3> SUFFICES ASSUME NEW i \in 1..n PROVE u[i] = w[i]
      OBVIOUS
    <3>1. i \in 1..Len(t) /\ i \in 1..Len(s)
      BY <1>1, <1>3 DEF n
    <3> QED BY <1>1, <1>2, <3>1 DEF StrandAt
  <2>3. /\ Strand(t, v, b) = Sigma(u, (1..n) \cup {n + 1})
        /\ Strand(s, v, b) = Sigma(w, 1..n) /\ LastStrand(t, v, b) = u[n + 1]
    BY <1>1, <1>3 DEF Strand, LastStrand, n
  <2> HIDE DEF w, u
  <2>4. Sigma(u, 1..n) = Sigma(w, 1..n)
    BY <2>1, <2>2, SigmaSame
  <2>5. Weighs(u, 1..n) /\ u[n + 1] \in Nat
    <3>1. \A i \in 1..n : u[i] \in Int
      BY <1>3, <2>1
    <3> QED BY <1>3, <2>1, <3>1 DEF Weighs
  <2>6. Sigma(u, (1..n) \cup {n + 1}) = u[n + 1] + Sigma(u, 1..n)
    <3> DEFINE S == 1..n  k == n + 1
    <3>1. Weighs(u, S) /\ k \notin S /\ u[k] \in Int
      BY <1>3, <2>5
    <3> HIDE DEF S, k
    <3>2. Sigma(u, S \cup {k}) = u[k] + Sigma(u, S)
      BY <3>1, SigmaAdd
    <3> QED BY <3>2 DEF S, k
  <2> QED BY <2>1, <2>3, <2>4, <2>5, <2>6
<1> QED BY <1>4, <1>5

LEMMA SlackGrows ==
  ASSUME NEW s \in Seq(Event), NEW t \in Seq(Event), NEW ev, Extends(s, t, ev), NEW v, NEW b
  PROVE  /\ Slack(s, v, b) \in Nat
         /\ Slack(t, v, b) = Slack(s, v, b) + SlackOf(ev, v, b)
<1> DEFINE n == Len(s)
           Bought(e) == e.kind = "Trade" /\ Buyer(e) = v
           Gave(e) == e.kind = "OrderCanceled" /\ e.side = "buy" /\ e.userId = v
           X == BoughtBy(s, v)  Y == BoughtBy(t, v)
           V == CanceledBy(s, v)  W == CanceledBy(t, v)
<1>1. /\ n \in Nat /\ DOMAIN s = 1..n /\ DOMAIN t = 1..(n + 1) /\ n + 1 \notin 1..n
      /\ t[n + 1] = ev /\ \A i \in 1..n : t[i] = s[i]
  BY DEF Extends
<1>0. /\ X = {i \in DOMAIN s : Bought(s[i])} /\ Y = {i \in DOMAIN t : Bought(t[i])}
      /\ V = {i \in DOMAIN s : Gave(s[i])} /\ W = {i \in DOMAIN t : Gave(t[i])}
  BY DEF BoughtBy, CanceledBy
<1>2. ~(Bought(ev) /\ Gave(ev))
  OBVIOUS
<1>3. /\ Slack(s, v, b) = IF b = "USDC" THEN 2 * Cardinality(X) + Cardinality(V) ELSE 0
      /\ Slack(t, v, b) = IF b = "USDC" THEN 2 * Cardinality(Y) + Cardinality(W) ELSE 0
      /\ SlackOf(ev, v, b) = IF b # "USDC" THEN 0 ELSE IF Bought(ev) THEN 2
                             ELSE IF Gave(ev) THEN 1 ELSE 0
  BY DEF Slack, SlackOf
<1> HIDE DEF n, Bought, Gave, X, Y, V, W
<1>4. 1..(n + 1) = (1..n) \cup {n + 1} /\ IsFiniteSet(1..n)
  <2>1. 1..(n + 1) = (1..n) \cup {n + 1}
    BY <1>1
  <2>2. IsFiniteSet(1..n)
    BY <1>1, FS_Interval
  <2> QED BY <2>1, <2>2
<1>5. /\ X \subseteq 1..n /\ V \subseteq 1..n
      /\ IsFiniteSet(X) /\ Cardinality(X) \in Nat /\ IsFiniteSet(V) /\ Cardinality(V) \in Nat
  <2>1. X \subseteq 1..n /\ V \subseteq 1..n
    BY <1>0, <1>1
  <2> QED BY <1>4, <2>1, FS_Subset, FS_CardinalityType
<1>6. Cardinality(Y) = Cardinality(X) + (IF Bought(ev) THEN 1 ELSE 0)
  <2>1. Y = IF Bought(ev) THEN X \cup {n + 1} ELSE X
    BY <1>0, <1>1, <1>4
  <2>2. n + 1 \notin X
    BY <1>1, <1>5
  <2>3. Cardinality(X \cup {n + 1}) = Cardinality(X) + 1
    BY <1>5, <2>2, FS_AddElement
  <2>4. CASE Bought(ev)
    BY <2>1, <2>3, <2>4
  <2>5. CASE ~Bought(ev)
    BY <1>5, <2>1, <2>5
  <2> QED BY <2>4, <2>5
<1>7. Cardinality(W) = Cardinality(V) + (IF Gave(ev) THEN 1 ELSE 0)
  <2>1. W = IF Gave(ev) THEN V \cup {n + 1} ELSE V
    BY <1>0, <1>1, <1>4
  <2>2. n + 1 \notin V
    BY <1>1, <1>5
  <2>3. Cardinality(V \cup {n + 1}) = Cardinality(V) + 1
    BY <1>5, <2>2, FS_AddElement
  <2>4. CASE Gave(ev)
    BY <2>1, <2>3, <2>4
  <2>5. CASE ~Gave(ev)
    BY <1>5, <2>1, <2>5
  <2> QED BY <2>4, <2>5
<1> QED BY <1>2, <1>3, <1>5, <1>6, <1>7

(* The open orders before and after an event.                              *)
Added(S, ev, T) ==
  /\ ev.kind = "OrderAccepted" /\ ev.order \in Order
  /\ ev.order.qty > 0 /\ ev.order.remaining = ev.order.qty /\ ev.order.type # "MARKET"
  /\ \A o \in S : o.orderId # ev.order.orderId
  /\ T = S \cup {ev.order}

Removed(S, ev, T, o) ==
  /\ ev.kind = "OrderCanceled" /\ o \in S
  /\ ev.orderId = o.orderId /\ ev.userId = o.userId /\ ev.side = o.side
  /\ ev.price = o.price /\ ev.remaining = o.remaining
  /\ T = S \ {o}

Exchanged(S, ev, T, taker, maker, q) ==
  /\ ev.kind = "Trade" /\ taker \in S /\ maker \in S
  /\ q \in Nat /\ q > 0 /\ q <= taker.remaining /\ q <= maker.remaining
  /\ maker.side = Opposite(taker.side) /\ Crosses(taker.side, taker.price, maker.price)
  /\ ev.price = maker.price /\ ev.qty = q /\ ev.aggressor = taker.side
  /\ ev.takerOrderId = taker.orderId /\ ev.takerUserId = taker.userId
  /\ ev.makerOrderId = maker.orderId /\ ev.makerUserId = maker.userId
  /\ T = Reduced(Reduced(S, taker, q), maker, q)

(* The orders that are open where the stream ends, before and after the next *)
(* event of the stream.  A cancel may come before fills of the same order:   *)
(* it takes what it leaves open, and the order waits for those fills.       *)
Cut(S, ev, T, o) ==
  /\ ev.kind = "OrderCanceled" /\ o \in S
  /\ ev.orderId = o.orderId /\ ev.userId = o.userId /\ ev.side = o.side
  /\ ev.price = o.price /\ ev.remaining \in Nat /\ ev.remaining > 0
  /\ ev.remaining <= o.remaining
  /\ T = Reduced(S, o, ev.remaining)

Unseen(s, id) == id \notin Gone(s) /\ Limits(s, Len(s), id) = {}

Settles(s, S, ev, T) ==
  \/ Added(S, ev, T) /\ Unseen(s, ev.order.orderId)
  \/ ev.kind = "OrderRejected" /\ T = S
  \/ \E o : Cut(S, ev, T, o)
  \/ \E taker, maker, q : Exchanged(S, ev, T, taker, maker, q)

(* The ledger takes for an event what the open orders lose by it, but for  *)
(* the rounding and for the surplus of a late fill.                        *)
Balanced(l, S, ev, t, T) ==
  /\ OpenSet(T) /\ Recorded(T, t) /\ Tabled(BuysAfter(l.openBuys, ev), Listed(T, t))
  /\ LateFill(t, Len(t)) => LostSurplus(t, Len(t)) \in Nat
  /\ \A v \in Holders : \A b \in Assets :
       /\ Cost(l, ev, v, b) <= Due(S, v, b)
       /\ Due(S, v, b) + Lock(ev, v, b) - Cost(l, ev, v, b) - Due(T, v, b)
            - LastStrand(t, v, b) \in 0..SlackOf(ev, v, b)

(* An event that is no fill strands nothing.                               *)
LEMMA NoLateFill ==
  ASSUME NEW s \in Seq(Event), NEW t \in Seq(Event), NEW ev, Extends(s, t, ev),
         ~(ev.kind = "Trade" /\ ev.aggressor = "buy" /\ ev.takerOrderId \in Gone(s))
  PROVE  ~LateFill(t, Len(t)) /\ \A v, b : LastStrand(t, v, b) = 0
<1>1. ~LateFill(t, Len(t))
  BY LateGrows
<1>2. Len(t) \in 1..Len(t)
  BY DEF Extends
<1> QED BY <1>1, <1>2 DEF LastStrand, StrandAt

LEMMA RecordedSame ==
  ASSUME NEW s \in Seq(Event), NEW t \in Seq(Event), NEW ev, Extends(s, t, ev),
         ev.kind # "OrderAccepted", NEW S, Recorded(S, s),
         NEW T, \A x \in T : \E o \in S : x.orderId = o.orderId /\ x.price = o.price
  PROVE  Recorded(T, t)
<1> SUFFICES ASSUME NEW x \in T PROVE Limits(t, Len(t), x.orderId) = {x.price}
  BY DEF Recorded
<1>1. PICK o \in S : x.orderId = o.orderId /\ x.price = o.price
  OBVIOUS
<1>2. Limits(s, Len(s), x.orderId) = {x.price}
  BY <1>1 DEF Recorded
<1>3. Limits(t, Len(t), x.orderId) = Limits(s, Len(s), x.orderId)
  BY LimitsSame
<1> QED BY <1>2, <1>3

LEMMA ListedOpen ==
  ASSUME NEW S, OpenSet(S), NEW s
  PROVE  OpenSet(Listed(S, s))
<1>1. Listed(S, s) \in SUBSET S /\ IsFiniteSet(Listed(S, s))
  BY FS_Subset DEF OpenSet, Listed
<1> QED BY <1>1 DEF OpenSet

LEMMA ReducedIds ==
  ASSUME NEW S, OpenSet(S), NEW o \in S, NEW q \in Nat, q > 0, q <= o.remaining
  PROVE  \A x \in Reduced(S, o, q) :
           \E y \in S : x.orderId = y.orderId /\ x.price = y.price
<1>1. o \in Order /\ q \in 0..o.remaining
  BY OrderTerms DEF OpenSet
<1>2. Remaining(o, q).orderId = o.orderId /\ Remaining(o, q).price = o.price
  BY <1>1, RemainingTerms
<1> HIDE DEF Remaining
<1> QED BY <1>2 DEF Reduced

LEMMA AddedBalanced ==
  ASSUME NEW l, NEW S, OpenSet(S), NEW s \in Seq(Event), Recorded(S, s),
         Tabled(l.openBuys, Listed(S, s)), NEW ev, NEW T, Added(S, ev, T),
         Unseen(s, ev.order.orderId), NEW t \in Seq(Event), Extends(s, t, ev)
  PROVE  Balanced(l, S, ev, t, T)
<1> DEFINE o == ev.order
<1>1. /\ ev.kind = "OrderAccepted" /\ o \in Order /\ o.qty > 0 /\ o.remaining = o.qty
      /\ o.type # "MARKET" /\ \A x \in S : x.orderId # o.orderId
      /\ T = S \cup {o} /\ S \in SUBSET Order /\ IsFiniteSet(S)
      /\ o.orderId \notin Gone(s) /\ Limits(s, Len(s), o.orderId) = {}
  BY DEF Added, OpenSet, Unseen
<1>0. \A id : Limits(t, Len(t), id) =
        Limits(s, Len(s), id) \cup (IF o.orderId = id THEN {o.price} ELSE {})
  BY <1>1, LimitsGrow
<1> HIDE DEF o
<1>2. OpenSet(T)
  <2>1. T \in SUBSET Order /\ IsFiniteSet(T)
    BY <1>1, FS_AddElement
  <2> QED BY <1>1, <2>1 DEF OpenSet
<1>3. Tabled(BuysAfter(l.openBuys, ev), Listed(T, t))
  <2>1. BuysAfter(l.openBuys, ev) = IF o.side = "buy"
          THEN Put(l.openBuys, o.orderId, [price |-> o.price, remaining |-> o.remaining])
          ELSE l.openBuys
    BY <1>1 DEF BuysAfter, o
  <2>2. Gone(t) = Gone(s)
    BY <1>1, GoneSame
  <2>3. Listed(T, t) = Listed(S, s) \cup {o}
    BY <1>1, <2>2 DEF Listed
  <2>4. \A x \in Listed(S, s) : x.orderId # o.orderId
    BY <1>1 DEF Listed
  <2> DEFINE B == l.openBuys  L == Listed(S, s)
             C == IF o.side = "buy"
                  THEN Put(B, o.orderId, [price |-> o.price, remaining |-> o.remaining]) ELSE B
  <2>5. Tabled(C, L \cup {o})
    <3>1. Tabled(B, L) /\ \A x \in L : x.orderId # o.orderId
      BY <2>4
    <3> HIDE DEF L, B
    <3> QED BY <3>1, TableAdded
  <2> QED BY <2>1, <2>3, <2>5
<1>4. ASSUME NEW v \in Holders, NEW b \in Assets
      PROVE  /\ Cost(l, ev, v, b) <= Due(S, v, b)
             /\ Due(S, v, b) + Lock(ev, v, b) - Cost(l, ev, v, b) - Due(T, v, b)
                  - LastStrand(t, v, b) \in 0..SlackOf(ev, v, b)
  <2>1. Cost(l, ev, v, b) = 0 /\ SlackOf(ev, v, b) = 0 /\ LastStrand(t, v, b) = 0
    BY <1>1, NoLateFill DEF Cost, SlackOf
  <2>2. Lock(ev, v, b) = DueOf(o, v, b)
    BY <1>1 DEF Lock, DueOf, o
  <2>3. DueOf(o, v, b) \in Nat
    BY <1>1, OrderTerms
  <2>4. Due(S, v, b) \in Nat /\ Due(T, v, b) = DueOf(o, v, b) + Due(S, v, b)
    <3>1. o \in Order \ S
      BY <1>1
    <3> QED BY <1>1, <3>1, DueLaws
  <2> QED BY <2>1, <2>2, <2>3, <2>4
<1>5. Recorded(T, t)
  <2> SUFFICES ASSUME NEW x \in T PROVE Limits(t, Len(t), x.orderId) = {x.price}
    BY DEF Recorded
  <2>1. CASE x = o
    BY <1>0, <1>1, <2>1
  <2>2. CASE x # o
    <3>1. x \in S /\ o.orderId # x.orderId /\ Limits(s, Len(s), x.orderId) = {x.price}
      BY <1>1, <2>2 DEF Recorded
    <3> QED BY <1>0, <3>1
  <2> QED BY <2>1, <2>2
<1>6. ~LateFill(t, Len(t))
  BY <1>1, NoLateFill
<1> QED BY <1>2, <1>3, <1>4, <1>5, <1>6 DEF Balanced

(* What rounding leaves where a part is split off an order.                *)
LEMMA CutRounding ==
  ASSUME NEW o \in Order, NEW q \in 0..o.remaining, NEW v, NEW b
  PROVE  DueOf(o, v, b) - DueOf(Remaining(o, q), v, b)
           - Share(o.userId, o.side, o.price, q, v, b)
             \in 0..(IF o.side = "buy" /\ o.userId = v /\ b = "USDC" THEN 1 ELSE 0)
<1> DEFINE r == Remaining(o, q)  P == o.price  R == o.remaining
           a == NotionalQuote(P, R)  c == NotionalQuote(P, R - q)  d == NotionalQuote(P, q)
<1>1. /\ r.userId = o.userId /\ r.side = o.side /\ r.price = P /\ r.remaining = R - q
      /\ P \in Nat /\ R \in Nat /\ q \in Nat /\ R - q \in Nat /\ q \in 0..R
  BY RemainingTerms, OrderTerms
<1>2. a - c - d \in 0..1
  <2>1. 0 \in 0..P
    BY <1>1
  <2> QED BY <1>1, <2>1, NotionalSplits
<1>3. a \in Nat /\ c \in Nat /\ d \in Nat
  BY <1>1, NotionalType
<1> HIDE DEF r
<1>4. CASE o.side = "buy"
  <2>1. /\ DueOf(o, v, b) = For(o.userId, "USDC", a, v, b)
        /\ DueOf(r, v, b) = For(o.userId, "USDC", c, v, b)
        /\ Share(o.userId, o.side, o.price, q, v, b) = For(o.userId, "USDC", d, v, b)
    BY <1>1, <1>4 DEF DueOf, Share, ReserveForOrder, Of
  <2> HIDE DEF a, c, d
  <2>2. For(o.userId, "USDC", a, v, b) - For(o.userId, "USDC", c, v, b)
          - For(o.userId, "USDC", d, v, b) \in 0..(IF o.userId = v /\ b = "USDC" THEN 1 ELSE 0)
    BY <1>2, <1>3 DEF For
  <2> QED BY <1>4, <2>1, <2>2 DEF r
<1>5. CASE o.side # "buy"
  <2>1. /\ DueOf(o, v, b) = For(o.userId, "BTC", R, v, b)
        /\ DueOf(r, v, b) = For(o.userId, "BTC", R - q, v, b)
        /\ Share(o.userId, o.side, o.price, q, v, b) = For(o.userId, "BTC", q, v, b)
    BY <1>1, <1>5 DEF DueOf, Share, ReserveForOrder, Of
  <2>2. For(o.userId, "BTC", R, v, b) - For(o.userId, "BTC", R - q, v, b)
          - For(o.userId, "BTC", q, v, b) = 0
    BY <1>1 DEF For
  <2> QED BY <1>5, <2>1, <2>2 DEF r
<1> QED BY <1>4, <1>5

LEMMA CutBalanced ==
  ASSUME NEW l, NEW S, OpenSet(S), NEW s \in Seq(Event), Recorded(S, s),
         Tabled(l.openBuys, Listed(S, s)), NEW ev, NEW T, NEW o, Cut(S, ev, T, o),
         NEW t \in Seq(Event), Extends(s, t, ev)
  PROVE  Balanced(l, S, ev, t, T)
<1> DEFINE q == ev.remaining  r == Remaining(o, q)
<1>1. /\ ev.kind = "OrderCanceled" /\ o \in S /\ o \in Order /\ ev.orderId = o.orderId
      /\ ev.userId = o.userId /\ ev.side = o.side /\ ev.price = o.price
      /\ q \in Nat /\ q > 0 /\ q <= o.remaining /\ q \in 0..o.remaining
      /\ T = Reduced(S, o, q) /\ S \in SUBSET Order /\ IsFiniteSet(S)
  BY OrderTerms DEF Cut, OpenSet
<1>2. /\ r \in Order /\ r.orderId = o.orderId /\ r.userId = o.userId /\ r.side = o.side
      /\ r.price = o.price /\ r.remaining = o.remaining - q
  BY <1>1, RemainingTerms
<1>3. /\ OpenSet(T)
      /\ \A v, b : Due(T, v, b) = Due(S, v, b) - DueOf(o, v, b) + DueOf(r, v, b)
  BY <1>1, OrderReduced
<1>4. Recorded(T, t)
  BY <1>1, RecordedSame, ReducedIds
<1>5. Tabled(BuysAfter(l.openBuys, ev), Listed(T, t))
  <2>1. Gone(t) = Gone(s) \cup {o.orderId}
    BY <1>1, GoneGrows
  <2>2. Listed(T, t) = {x \in Listed(S, s) : x.orderId # o.orderId}
    <3>1. \A x : x \in T /\ x.orderId # o.orderId <=> x \in S /\ x.orderId # o.orderId
      BY <1>1, <1>2 DEF Reduced
    <3> QED BY <2>1, <3>1 DEF Listed
  <2>3. BuysAfter(l.openBuys, ev) = Without(l.openBuys, o.orderId)
    BY <1>1 DEF BuysAfter
  <2> QED BY <2>2, <2>3, TableWithout
<1>6. ~LateFill(t, Len(t)) /\ \A v, b : LastStrand(t, v, b) = 0
  BY <1>1, NoLateFill
<1>7. ASSUME NEW v \in Holders, NEW b \in Assets
      PROVE  /\ Cost(l, ev, v, b) <= Due(S, v, b)
             /\ Due(S, v, b) + Lock(ev, v, b) - Cost(l, ev, v, b) - Due(T, v, b)
                  - LastStrand(t, v, b) \in 0..SlackOf(ev, v, b)
  <2> DEFINE cut == Share(o.userId, o.side, o.price, q, v, b)
             more == IF o.side = "buy" /\ o.userId = v /\ b = "USDC" THEN 1 ELSE 0
  <2>1. /\ Cost(l, ev, v, b) = cut /\ SlackOf(ev, v, b) = more
        /\ Lock(ev, v, b) = 0 /\ LastStrand(t, v, b) = 0
    BY <1>1, <1>6 DEF Cost, SlackOf, Lock
  <2>2. DueOf(o, v, b) - DueOf(r, v, b) - cut \in 0..more
    BY <1>1, CutRounding
  <2>3. /\ cut \in Nat /\ more \in Nat /\ DueOf(o, v, b) \in Nat /\ DueOf(r, v, b) \in Nat
        /\ Due(S, v, b) \in Nat /\ Due(S, v, b) >= DueOf(o, v, b) /\ Due(T, v, b) \in Nat
    <3>1. DueOf(o, v, b) \in Nat /\ DueOf(r, v, b) \in Nat /\ cut \in Nat
      BY <1>1, <1>2, OrderTerms, ReserveType
    <3>2. /\ Due(S, v, b) = DueOf(o, v, b) + Due(S \ {o}, v, b)
          /\ Due(S \ {o}, v, b) \in Nat
      BY <1>1, DueLaws
    <3>3. T \in SUBSET Order /\ IsFiniteSet(T)
      BY <1>3 DEF OpenSet
    <3>4. Due(T, v, b) \in Nat
      BY <3>3, DueLaws
    <3> QED BY <3>1, <3>2, <3>4
  <2>4. Due(T, v, b) = Due(S, v, b) - DueOf(o, v, b) + DueOf(r, v, b)
    BY <1>3
  <2> HIDE DEF cut, more, r
  <2>5. cut <= DueOf(o, v, b)
    BY <2>2, <2>3
  <2> QED BY <2>1, <2>2, <2>3, <2>4, <2>5
<1> QED BY <1>3, <1>4, <1>5, <1>6, <1>7 DEF Balanced
(* What one fill takes from the two orders beyond what it costs.           *)
Rounding(l, ev, t, taker, maker, q, v, b) ==
  DueOf(taker, v, b) + DueOf(maker, v, b) - DueOf(Remaining(taker, q), v, b)
    - DueOf(Remaining(maker, q), v, b) - (Cost(l, ev, v, b) + LastStrand(t, v, b))

(* The surplus of a buying taker is released, or it is stranded.           *)
LEMMA SurplusTerms ==
  ASSUME NEW l, NEW S, OpenSet(S), NEW s \in Seq(Event), Recorded(S, s),
         Tabled(l.openBuys, Listed(S, s)), NEW ev, NEW T,
         NEW t \in Seq(Event), Extends(s, t, ev),
         NEW taker, NEW maker, NEW q, Exchanged(S, ev, T, taker, maker, q),
         taker.side = "buy", NEW v, NEW b
  PROVE  LET f == NotionalQuote(taker.price - maker.price, q) IN
         /\ f \in Nat /\ Improved(l, ev) \in Nat /\ LastStrand(t, v, b) \in Nat
         /\ For(ev.takerUserId, "USDC", Improved(l, ev), v, b) + LastStrand(t, v, b)
              = For(taker.userId, "USDC", f, v, b)
         /\ LateFill(t, Len(t)) => LostSurplus(t, Len(t)) = f
<1> DEFINE f == NotionalQuote(taker.price - maker.price, q)
<1>1. /\ taker \in S /\ taker \in Order /\ maker \in Order /\ ev.kind = "Trade"
      /\ ev.price = maker.price /\ ev.qty = q /\ ev.aggressor = "buy" /\ q \in Nat
      /\ ev.takerOrderId = taker.orderId /\ ev.takerUserId = taker.userId
      /\ taker.price - maker.price \in Nat
  BY OrderTerms DEF Exchanged, OpenSet, Crosses
<1>2. f \in Nat
  BY <1>1, NotionalType
<1>3. /\ Len(t) \in 1..Len(t) /\ t[Len(t)] = ev
      /\ LateFill(t, Len(t)) <=> taker.orderId \in Gone(s)
  BY <1>1, LateGrows DEF Extends
<1>4. LostSurplus(t, Len(t)) = f
  <2>1. Limits(t, Len(t), taker.orderId) = {taker.price}
    <3>1. Limits(t, Len(t), taker.orderId) = Limits(s, Len(s), taker.orderId)
      BY <1>1, LimitsSame
    <3> QED BY <1>1, <3>1 DEF Recorded
  <2>2. (CHOOSE price \in {taker.price} : TRUE) = taker.price
    OBVIOUS
  <2>3. (CHOOSE price \in Limits(t, Len(t), taker.orderId) : TRUE) = taker.price
    BY <2>1, <2>2
  <2> QED BY <1>1, <1>3, <2>3 DEF LostSurplus
<1>5. LastStrand(t, v, b) =
        IF taker.orderId \in Gone(s) THEN For(taker.userId, "USDC", f, v, b) ELSE 0
  BY <1>1, <1>3, <1>4 DEF LastStrand, StrandAt, Buyer
<1>6. Surplus(l, ev) = IF taker.orderId \in Gone(s) THEN 0 ELSE f
  <2>1. CASE taker.orderId \in Gone(s)
    <3>1. taker.orderId \notin DOMAIN l.openBuys
      BY <2>1 DEF Tabled, Buys, Listed
    <3> QED BY <1>1, <2>1, <3>1 DEF Surplus
  <2>2. CASE taker.orderId \notin Gone(s)
    <3>1. taker \in Listed(S, s)
      BY <1>1, <2>2 DEF Listed
    <3>2. taker.orderId \in DOMAIN l.openBuys /\ l.openBuys[taker.orderId].price = taker.price
      BY <3>1, ListedOpen, TableLooksUp
    <3> QED BY <1>1, <2>2, <3>2 DEF Surplus
  <2> QED BY <2>1, <2>2
<1> HIDE DEF f
<1>7. Improved(l, ev) = IF taker.orderId \in Gone(s) THEN 0 ELSE f
  BY <1>2, <1>6 DEF Improved
<1>8. For(ev.takerUserId, "USDC", Improved(l, ev), v, b) + LastStrand(t, v, b)
        = For(taker.userId, "USDC", f, v, b)
  BY <1>1, <1>2, <1>5, <1>7 DEF For
<1>9. Improved(l, ev) \in Nat /\ LastStrand(t, v, b) \in Nat
  BY <1>2, <1>5, <1>7 DEF For
<1> QED BY <1>2, <1>4, <1>8, <1>9 DEF f

LEMMA FillTerms ==
  ASSUME NEW l, NEW S, OpenSet(S), NEW s \in Seq(Event), Recorded(S, s),
         Tabled(l.openBuys, Listed(S, s)), NEW ev, NEW T,
         NEW t \in Seq(Event), Extends(s, t, ev),
         NEW taker, NEW maker, NEW q, Exchanged(S, ev, T, taker, maker, q),
         NEW v, NEW b
  PROVE  Rounding(l, ev, t, taker, maker, q, v, b) \in 0..SlackOf(ev, v, b)
<1> USE DEF Rounding
<1> DEFINE rt == Remaining(taker, q)  rm == Remaining(maker, q)
           P == taker.price  p == maker.price  R == taker.remaining  M == maker.remaining
<1>1. /\ taker \in S /\ maker \in S /\ taker \in Order /\ maker \in Order
      /\ P \in Nat /\ p \in Nat /\ R \in Nat /\ M \in Nat /\ q \in 0..R /\ q \in 0..M
      /\ taker.side \in Sides /\ maker.side = Opposite(taker.side)
      /\ ev.kind = "Trade" /\ ev.price = p /\ ev.qty = q /\ ev.aggressor = taker.side
  BY OrderTerms DEF Exchanged, OpenSet
<1>2. /\ rt.userId = taker.userId /\ rt.side = taker.side /\ rt.price = P
      /\ rt.remaining = R - q
      /\ rm.userId = maker.userId /\ rm.side = maker.side /\ rm.price = p
      /\ rm.remaining = M - q
  BY <1>1, RemainingTerms
<1> HIDE DEF rt, rm
<1> DEFINE cost == Cost(l, ev, v, b) + LastStrand(t, v, b)
<1>3. Cost(l, ev, v, b) = TradeCost(l, ev, v, b)
  BY <1>1 DEF Cost
<1>4. CASE taker.side = "buy"
  <2> DEFINE a == NotionalQuote(P, R)  c == NotionalQuote(P, R - q)
             d == NotionalQuote(P, q)  e == NotionalQuote(p, q)  f == NotionalQuote(P - p, q)
  <2>1. p \in 0..P
    BY <1>1, <1>4 DEF Exchanged, Crosses
  <2>2. a - c - d \in 0..1 /\ d - e - f \in 0..1
    BY <1>1, <2>1, NotionalSplits
  <2>3. a \in Nat /\ c \in Nat /\ d \in Nat /\ e \in Nat /\ f \in Nat
    <3>1. R - q \in Nat /\ q \in Nat /\ P - p \in Nat
      BY <1>1, <2>1
    <3> QED BY <1>1, <3>1, NotionalType
  <2>4. For(ev.takerUserId, "USDC", Improved(l, ev), v, b) + LastStrand(t, v, b)
          = For(taker.userId, "USDC", f, v, b)
    BY <1>4, SurplusTerms
  <2>5. /\ Buyer(ev) = taker.userId /\ Seller(ev) = maker.userId /\ ev.takerUserId = taker.userId
        /\ Notional(ev) = e
    BY <1>1, <1>4 DEF Exchanged, Buyer, Seller, Notional
  <2>6. /\ DueOf(taker, v, b) = For(taker.userId, "USDC", a, v, b)
        /\ DueOf(rt, v, b) = For(taker.userId, "USDC", c, v, b)
        /\ DueOf(maker, v, b) = For(maker.userId, "BTC", M, v, b)
        /\ DueOf(rm, v, b) = For(maker.userId, "BTC", M - q, v, b)
    BY <1>1, <1>2, <1>4 DEF DueOf, Share, ReserveForOrder, Of, Opposite
  <2>7. cost = For(taker.userId, "USDC", e, v, b)
          + For(maker.userId, "BTC", q, v, b) + For(taker.userId, "USDC", f, v, b)
    <3> DEFINE x == For(taker.userId, "USDC", e, v, b)  y == For(maker.userId, "BTC", q, v, b)
               z == For(ev.takerUserId, "USDC", Improved(l, ev), v, b)
    <3>1. TradeCost(l, ev, v, b) = x + y + z
      BY <1>1, <2>5 DEF TradeCost
    <3>2. x \in Int /\ y \in Int /\ z \in Int /\ LastStrand(t, v, b) \in Int
      <4>1. x \in Int /\ y \in Int
        BY <1>1, <2>3 DEF For
      <4>2. Improved(l, ev) \in Nat /\ LastStrand(t, v, b) \in Nat
        BY <1>4, SurplusTerms
      <4>3. z \in Int
        BY <4>2 DEF For
      <4> QED BY <4>1, <4>2, <4>3
    <3> HIDE DEF x, y, z
    <3> QED BY <1>3, <2>4, <3>1, <3>2 DEF x, y, z
  <2>8. SlackOf(ev, v, b) = IF v = taker.userId /\ b = "USDC" THEN 2 ELSE 0
    BY <1>1, <2>5 DEF SlackOf
  <2> HIDE DEF a, c, d, e, f, cost, P, p, R, M
  <2>9. CASE b = "USDC"
    <3>1. /\ DueOf(maker, v, b) = 0 /\ DueOf(rm, v, b) = 0
          /\ For(maker.userId, "BTC", q, v, b) = 0
      BY <2>6, <2>9 DEF For
    <3>2. CASE v = taker.userId
      <4>1. /\ DueOf(taker, v, b) = a /\ DueOf(rt, v, b) = c
            /\ cost = e + 0 + f /\ SlackOf(ev, v, b) = 2
        BY <2>6, <2>7, <2>8, <2>9, <3>1, <3>2 DEF For
      <4> QED BY <1>3, <2>2, <2>3, <3>1, <4>1 DEF rt, rm, cost
    <3>3. CASE v # taker.userId
      <4>1. /\ DueOf(taker, v, b) = 0 /\ DueOf(rt, v, b) = 0
            /\ cost = 0 + 0 + 0 /\ SlackOf(ev, v, b) = 0
        BY <2>6, <2>7, <2>8, <2>9, <3>1, <3>3 DEF For
      <4> QED BY <1>3, <3>1, <4>1 DEF rt, rm, cost
    <3> QED BY <3>2, <3>3
  <2>10. CASE b # "USDC"
    <3>1. /\ DueOf(taker, v, b) = 0 /\ DueOf(rt, v, b) = 0 /\ SlackOf(ev, v, b) = 0
          /\ cost = 0 + For(maker.userId, "BTC", q, v, b) + 0
      BY <2>6, <2>7, <2>8, <2>10 DEF For
    <3>2. DueOf(maker, v, b) - DueOf(rm, v, b) - For(maker.userId, "BTC", q, v, b) = 0
      BY <1>1, <2>6 DEF For
    <3>3. /\ DueOf(maker, v, b) \in Int /\ DueOf(rm, v, b) \in Int
          /\ For(maker.userId, "BTC", q, v, b) \in Int
      BY <1>1, <2>6 DEF For
    <3> QED BY <1>3, <3>1, <3>2, <3>3 DEF rt, rm, cost
  <2> QED BY <2>9, <2>10
<1>5. CASE taker.side # "buy"
  <2> DEFINE a == NotionalQuote(p, M)  c == NotionalQuote(p, M - q)  e == NotionalQuote(p, q)
  <2>2. a - c - e \in 0..1
    <3>1. 0 \in 0..p
      BY <1>1
    <3> QED BY <1>1, <3>1, NotionalSplits
  <2>3. a \in Nat /\ c \in Nat /\ e \in Nat
    <3>1. M - q \in Nat /\ q \in Nat
      BY <1>1
    <3> QED BY <1>1, <3>1, NotionalType
  <2>4. Improved(l, ev) = 0
    BY <1>1, <1>5 DEF Improved, Surplus
  <2>5. /\ Buyer(ev) = maker.userId /\ Seller(ev) = taker.userId /\ ev.takerUserId = taker.userId
        /\ Notional(ev) = e
    BY <1>1, <1>5 DEF Exchanged, Buyer, Seller, Notional
  <2>6. /\ DueOf(maker, v, b) = For(maker.userId, "USDC", a, v, b)
        /\ DueOf(rm, v, b) = For(maker.userId, "USDC", c, v, b)
        /\ DueOf(taker, v, b) = For(taker.userId, "BTC", R, v, b)
        /\ DueOf(rt, v, b) = For(taker.userId, "BTC", R - q, v, b)
    BY <1>1, <1>2, <1>5 DEF DueOf, Share, ReserveForOrder, Of, Opposite
  <2>7. cost = For(maker.userId, "USDC", e, v, b)
          + For(taker.userId, "BTC", q, v, b) + For(taker.userId, "USDC", 0, v, b)
    <3>1. LastStrand(t, v, b) = 0
      BY <1>1, <1>5, NoLateFill
    <3>2. TradeCost(l, ev, v, b) = For(maker.userId, "USDC", e, v, b)
            + For(taker.userId, "BTC", q, v, b) + For(taker.userId, "USDC", 0, v, b)
      BY <1>1, <2>4, <2>5 DEF TradeCost
    <3>3. TradeCost(l, ev, v, b) \in Int
      BY <1>1, <2>3, <3>2 DEF For
    <3> QED BY <1>3, <3>1, <3>2, <3>3
  <2>8. SlackOf(ev, v, b) = IF v = maker.userId /\ b = "USDC" THEN 2 ELSE 0
    BY <1>1, <2>5 DEF SlackOf
  <2> HIDE DEF a, c, e, cost, P, p, R, M
  <2>9. CASE b = "USDC"
    <3>1. /\ DueOf(taker, v, b) = 0 /\ DueOf(rt, v, b) = 0
          /\ For(taker.userId, "BTC", q, v, b) = 0 /\ For(taker.userId, "USDC", 0, v, b) = 0
      BY <2>6, <2>9 DEF For
    <3>2. CASE v = maker.userId
      <4>1. /\ DueOf(maker, v, b) = a /\ DueOf(rm, v, b) = c
            /\ cost = e + 0 + 0 /\ SlackOf(ev, v, b) = 2
        BY <2>6, <2>7, <2>8, <2>9, <3>1, <3>2 DEF For
      <4> QED BY <1>3, <2>2, <2>3, <3>1, <4>1 DEF rt, rm, cost
    <3>3. CASE v # maker.userId
      <4>1. /\ DueOf(maker, v, b) = 0 /\ DueOf(rm, v, b) = 0
            /\ cost = 0 + 0 + 0 /\ SlackOf(ev, v, b) = 0
        BY <2>6, <2>7, <2>8, <2>9, <3>1, <3>3 DEF For
      <4> QED BY <1>3, <3>1, <4>1 DEF rt, rm, cost
    <3> QED BY <3>2, <3>3
  <2>10. CASE b # "USDC"
    <3>1. /\ DueOf(maker, v, b) = 0 /\ DueOf(rm, v, b) = 0 /\ SlackOf(ev, v, b) = 0
          /\ cost = 0 + For(taker.userId, "BTC", q, v, b) + 0
      BY <2>6, <2>7, <2>8, <2>10 DEF For
    <3>2. DueOf(taker, v, b) - DueOf(rt, v, b) - For(taker.userId, "BTC", q, v, b) = 0
      BY <1>1, <2>6 DEF For
    <3>3. /\ DueOf(taker, v, b) \in Int /\ DueOf(rt, v, b) \in Int
          /\ For(taker.userId, "BTC", q, v, b) \in Int
      BY <1>1, <2>6 DEF For
    <3> QED BY <1>3, <3>1, <3>2, <3>3 DEF rt, rm, cost
  <2> QED BY <2>9, <2>10
<1> QED BY <1>4, <1>5

(* A fill of an order, whether the table still has it or not.              *)
LEMMA ListedFilled ==
  ASSUME NEW B, NEW S, OpenSet(S), NEW s, Tabled(B, Listed(S, s)), NEW o \in S,
         NEW q \in Nat, q > 0, q <= o.remaining
  PROVE  /\ o.side = "buy" => Tabled(FilledBuy(B, o.orderId, q), Listed(Reduced(S, o, q), s))
         /\ o.side # "buy" => Tabled(B, Listed(Reduced(S, o, q), s))
<1> DEFINE r == Remaining(o, q)  L == Listed(S, s)  M == Listed(Reduced(S, o, q), s)
<1>1. r.orderId = o.orderId
  <2>1. o \in Order /\ q \in 0..o.remaining
    BY OrderTerms DEF OpenSet
  <2> QED BY <2>1, RemainingTerms
<1>2. CASE o \in L
  <2>1. M = Reduced(L, o, q)
    BY <1>1, <1>2 DEF Listed, Reduced
  <2>2. OpenSet(L)
    BY ListedOpen
  <2> QED BY <1>2, <2>1, <2>2, TableFilled
<1>3. CASE o \notin L
  <2>1. M = L
    BY <1>1, <1>3 DEF Listed, Reduced
  <2>2. o.orderId \notin DOMAIN B
    BY <1>3 DEF Tabled, Buys, Listed
  <2>3. FilledBuy(B, o.orderId, q) = B
    BY <2>2 DEF FilledBuy
  <2> QED BY <2>1, <2>3
<1> QED BY <1>2, <1>3

LEMMA ExchangedBalanced ==
  ASSUME NEW l, LedgerOK(l), NEW S, OpenSet(S), NEW s \in Seq(Event), Recorded(S, s),
         Tabled(l.openBuys, Listed(S, s)), NEW ev, IsEvent(ev), NEW T,
         NEW taker, NEW maker, NEW q, Exchanged(S, ev, T, taker, maker, q),
         NEW t \in Seq(Event), Extends(s, t, ev)
  PROVE  Balanced(l, S, ev, t, T)
<1> DEFINE U == Reduced(S, taker, q)  B == l.openBuys
           rt == Remaining(taker, q)  rm == Remaining(maker, q)
<1>1. /\ taker \in S /\ maker \in S /\ taker \in Order /\ maker \in Order
      /\ taker.side \in Sides /\ maker.side = Opposite(taker.side) /\ maker # taker
      /\ q \in Nat /\ q > 0 /\ q <= taker.remaining /\ q <= maker.remaining
      /\ T = Reduced(U, maker, q) /\ ev.kind = "Trade"
  BY OrderTerms DEF Exchanged, OpenSet, Opposite, Sides
<1>2. /\ OpenSet(U) /\ maker \in U
      /\ \A v, b : Due(U, v, b) = Due(S, v, b) - DueOf(taker, v, b) + DueOf(rt, v, b)
  BY <1>1, OrderReduced
<1>3. /\ taker.side = "buy" => Tabled(FilledBuy(B, taker.orderId, q), Listed(U, s))
      /\ taker.side # "buy" => Tabled(B, Listed(U, s))
  BY <1>1, ListedFilled
<1>7. Recorded(T, t)
  <2>1. \A x \in U : \E y \in S : x.orderId = y.orderId /\ x.price = y.price
    BY <1>1, ReducedIds
  <2> HIDE DEF U
  <2>2. \A x \in T : \E y \in U : x.orderId = y.orderId /\ x.price = y.price
    <3>1. \A x \in Reduced(U, maker, q) :
            \E y \in U : x.orderId = y.orderId /\ x.price = y.price
      <4>1. OpenSet(U) /\ maker \in U /\ q \in Nat /\ q > 0 /\ q <= maker.remaining
        BY <1>1, <1>2
      <4> QED BY <4>1, ReducedIds
    <3> QED BY <1>1, <3>1
  <2>3. \A x \in T : \E y \in S : x.orderId = y.orderId /\ x.price = y.price
    BY <2>1, <2>2
  <2> QED BY <1>1, <2>3, RecordedSame
<1> HIDE DEF U
<1>4. /\ OpenSet(T)
      /\ \A v, b : Due(T, v, b) = Due(U, v, b) - DueOf(maker, v, b) + DueOf(rm, v, b)
  BY <1>1, <1>2, OrderReduced
<1>5. Tabled(BuysAfter(B, ev), Listed(T, t))
  <2>0. Listed(T, t) = Listed(T, s)
    <3>1. Gone(t) = Gone(s)
      BY <1>1, GoneSame
    <3> QED BY <3>1 DEF Listed
  <2>1. CASE taker.side = "buy"
    <3>1. BuysAfter(B, ev) = FilledBuy(B, taker.orderId, q) /\ maker.side # "buy"
      BY <1>1, <2>1 DEF Exchanged, BuysAfter, BuyOrderId, Opposite
    <3>2. Tabled(FilledBuy(B, taker.orderId, q), Listed(T, s))
      BY <1>1, <1>2, <1>3, <2>1, <3>1, ListedFilled
    <3> QED BY <2>0, <3>1, <3>2
  <2>2. CASE taker.side # "buy"
    <3>1. BuysAfter(B, ev) = FilledBuy(B, maker.orderId, q) /\ maker.side = "buy"
      BY <1>1, <2>2 DEF Exchanged, BuysAfter, BuyOrderId, Opposite
    <3>2. Tabled(FilledBuy(B, maker.orderId, q), Listed(T, s))
      BY <1>1, <1>2, <1>3, <2>2, <3>1, ListedFilled
    <3> QED BY <2>0, <3>1, <3>2
  <2> QED BY <2>1, <2>2
<1>8. LateFill(t, Len(t)) => LostSurplus(t, Len(t)) \in Nat
  <2>1. CASE taker.side = "buy"
    <3> DEFINE f == NotionalQuote(taker.price - maker.price, q)
    <3>1. /\ f \in Nat /\ LastStrand(t, House, "USDC") \in Nat
          /\ LateFill(t, Len(t)) => LostSurplus(t, Len(t)) = f
      BY <2>1, SurplusTerms
    <3> HIDE DEF f
    <3> QED BY <3>1
  <2>2. CASE taker.side # "buy"
    BY <2>2, NoLateFill DEF Exchanged
  <2> QED BY <2>1, <2>2
<1>6. ASSUME NEW v \in Holders, NEW b \in Assets
      PROVE  /\ Cost(l, ev, v, b) <= Due(S, v, b)
             /\ Due(S, v, b) + Lock(ev, v, b) - Cost(l, ev, v, b) - Due(T, v, b)
                  - LastStrand(t, v, b) \in 0..SlackOf(ev, v, b)
  <2> DEFINE x == Rounding(l, ev, t, taker, maker, q, v, b)
  <2>1. x \in 0..SlackOf(ev, v, b)
    BY FillTerms
  <2>2. /\ Cost(l, ev, v, b) \in Nat /\ Lock(ev, v, b) = 0 /\ SlackOf(ev, v, b) \in Nat
        /\ LastStrand(t, v, b) \in Nat
    <3>1. Cost(l, ev, v, b) \in Nat
      BY EventTerms
    <3>2. LastStrand(t, v, b) \in Nat
      <4>1. Len(t) \in 1..Len(t)
        BY DEF Extends
      <4> QED BY <1>8, <4>1 DEF LastStrand, StrandAt, For
    <3> QED BY <3>1, <3>2 DEF Exchanged, Lock, SlackOf
  <2>3. /\ DueOf(taker, v, b) \in Nat /\ DueOf(maker, v, b) \in Nat
        /\ DueOf(rt, v, b) \in Nat /\ DueOf(rm, v, b) \in Nat
    <3>1. rt \in Order /\ rm \in Order
      <4>1. q \in 0..taker.remaining /\ q \in 0..maker.remaining
        BY <1>1, OrderTerms
      <4> QED BY <1>1, <4>1, RemainingTerms
    <3> QED BY <1>1, <3>1, OrderTerms
  <2>4. Due(S, v, b) \in Nat /\ Due(T, v, b) \in Nat
    <3>1. S \in SUBSET Order /\ IsFiniteSet(S) /\ T \in SUBSET Order /\ IsFiniteSet(T)
      BY <1>4 DEF OpenSet
    <3> QED BY <3>1, DueLaws
  <2> DEFINE late == LastStrand(t, v, b)
  <2>5. Due(T, v, b) = Due(S, v, b) - Cost(l, ev, v, b) - late - x
    <3>1. /\ Due(U, v, b) = Due(S, v, b) - DueOf(taker, v, b) + DueOf(rt, v, b)
          /\ Due(T, v, b) = Due(U, v, b) - DueOf(maker, v, b) + DueOf(rm, v, b)
      BY <1>2, <1>4
    <3>2. x = DueOf(taker, v, b) + DueOf(maker, v, b) - DueOf(rt, v, b) - DueOf(rm, v, b)
                - (Cost(l, ev, v, b) + late)
      BY DEF Rounding
    <3>3. late \in Nat
      BY <2>2
    <3> DEFINE cost == Cost(l, ev, v, b)
               d1 == DueOf(taker, v, b)  d2 == DueOf(maker, v, b)
               d3 == DueOf(rt, v, b)  d4 == DueOf(rm, v, b)
               due == Due(S, v, b)  left == Due(T, v, b)  mid == Due(U, v, b)
    <3>4. /\ cost \in Nat /\ d1 \in Nat /\ d2 \in Nat /\ d3 \in Nat /\ d4 \in Nat
          /\ due \in Nat /\ left \in Nat
          /\ mid = due - d1 + d3 /\ left = mid - d2 + d4
          /\ x = d1 + d2 - d3 - d4 - (cost + late)
      BY <2>2, <2>3, <2>4, <3>1, <3>2
    <3> HIDE DEF cost, d1, d2, d3, d4, due, left, mid, x, late
    <3>5. left = due - cost - late - x
      BY <3>3, <3>4
    <3> QED BY <3>5 DEF cost, due, left
  <2>6. x \in Int /\ late \in Nat
    BY <2>1, <2>2
  <2>7. x \in 0..SlackOf(ev, v, b) /\ late = LastStrand(t, v, b)
    BY <2>1
  <2> HIDE DEF x, late
  <2> DEFINE cost == Cost(l, ev, v, b)  lock == Lock(ev, v, b)  more == SlackOf(ev, v, b)
             due == Due(S, v, b)  left == Due(T, v, b)
  <2>8. /\ cost \in Nat /\ lock = 0 /\ more \in Nat /\ due \in Nat /\ left \in Nat
        /\ left = due - cost - late - x /\ x \in 0..more /\ late \in Nat
    BY <2>2, <2>4, <2>5, <2>6, <2>7
  <2> HIDE DEF cost, lock, more, due, left
  <2>9. cost <= due /\ due + lock - cost - left - late \in 0..more
    <3>1. x \in Nat /\ x <= more
      BY <2>8
    <3>2. due + lock - cost - left - late = x /\ cost <= due
      BY <2>8, <3>1
    <3> QED BY <2>8, <3>2
  <2> QED BY <2>7, <2>9 DEF cost, lock, more, due, left
<1> QED BY <1>4, <1>5, <1>6, <1>7, <1>8 DEF Balanced

LEMMA SettlesBalanced ==
  ASSUME NEW l, LedgerOK(l), NEW S, OpenSet(S), NEW s \in Seq(Event), Recorded(S, s),
         Tabled(l.openBuys, Listed(S, s)), NEW ev, IsEvent(ev), NEW T, Settles(s, S, ev, T),
         NEW t \in Seq(Event), Extends(s, t, ev)
  PROVE  Balanced(l, S, ev, t, T)
<1>1. CASE ev.kind = "OrderRejected" /\ T = S
  <2>1. BuysAfter(l.openBuys, ev) = l.openBuys
    BY <1>1 DEF BuysAfter
  <2>2. ~LateFill(t, Len(t)) /\ \A v, b : LastStrand(t, v, b) = 0
    BY <1>1, NoLateFill
  <2>3. ASSUME NEW v \in Holders, NEW b \in Assets
        PROVE  /\ Cost(l, ev, v, b) = 0 /\ Lock(ev, v, b) = 0 /\ SlackOf(ev, v, b) = 0
               /\ Due(S, v, b) \in Nat
    <3>1. S \in SUBSET Order /\ IsFiniteSet(S)
      BY DEF OpenSet
    <3>2. Due(S, v, b) \in Nat
      BY <3>1, DueLaws
    <3> QED BY <1>1, <3>2 DEF Cost, Lock, SlackOf
  <2>4. ASSUME NEW v \in Holders, NEW b \in Assets
        PROVE  /\ Cost(l, ev, v, b) <= Due(S, v, b)
               /\ Due(S, v, b) + Lock(ev, v, b) - Cost(l, ev, v, b) - Due(T, v, b)
                    - LastStrand(t, v, b) \in 0..SlackOf(ev, v, b)
    BY <1>1, <2>2, <2>3
  <2>5. Listed(T, t) = Listed(S, s)
    <3>1. Gone(t) = Gone(s)
      BY <1>1, GoneSame
    <3> QED BY <1>1, <3>1 DEF Listed
  <2>6. Recorded(T, t)
    BY <1>1, RecordedSame
  <2> QED BY <1>1, <2>1, <2>2, <2>4, <2>5, <2>6 DEF Balanced
<1>2. CASE Added(S, ev, T) /\ Unseen(s, ev.order.orderId)
  BY <1>2, AddedBalanced
<1>3. CASE \E o : Cut(S, ev, T, o)
  BY <1>3, CutBalanced
<1>4. CASE \E taker, maker, q : Exchanged(S, ev, T, taker, maker, q)
  BY <1>4, ExchangedBalanced
<1> QED BY <1>1, <1>2, <1>3, <1>4 DEF Settles

(* What an accepted order will lock is free.                               *)
Affordable(l, ev) ==
  ev.kind = "OrderAccepted" =>
    LET lock == ReserveForOrder(ev.order.side, ev.order.price, ev.order.qty)
    IN lock.amount > 0 /\ lock.amount <= FreeOf(l, ev.order.userId, lock.asset)

LEMMA OwesPays ==
  ASSUME NEW l, Solvent(l), NEW S, OpenSet(S), NEW s \in Seq(Event), Owes(l, S, s),
         NEW ev \in Event, NEW T, Settles(s, S, ev, T), Affordable(l, ev),
         NEW t \in Seq(Event), Extends(s, t, ev)
  PROVE  OpenSet(T) /\ Balanced(l, S, ev, t, T) /\ Payable(l, ev, "replay")
<1>1. Balanced(l, S, ev, t, T)
  BY EventIsEvent, SettlesBalanced DEF Solvent, Owes
<1>2. ASSUME NEW v \in Holders, NEW b \in Assets
      PROVE  Cost(l, ev, v, b) <= LockedOf(l, v, b)
  <2>1. Cost(l, ev, v, b) \in Nat /\ LockedOf(l, v, b) \in Int
    BY EventIsEvent, EventTerms, BalanceTypes DEF Solvent
  <2>2. Due(S, v, b) \in Nat /\ Strand(s, v, b) \in Nat
    <3>1. S \in SUBSET Order /\ IsFiniteSet(S)
      BY DEF OpenSet
    <3> QED BY <3>1, DueLaws, StrandType DEF Owes
  <2>3. LockedOf(l, v, b) - Due(S, v, b) - Strand(s, v, b) >= 0
    BY DEF Owes
  <2>4. Cost(l, ev, v, b) <= Due(S, v, b)
    BY <1>1 DEF Balanced
  <2> QED BY <2>1, <2>2, <2>3, <2>4
<1> QED BY <1>1, <1>2 DEF Balanced, Payable, Affordable

LEMMA OwesKept ==
  ASSUME NEW l, Solvent(l), NEW S, OpenSet(S), NEW s \in Seq(Event), Owes(l, S, s),
         NEW ev \in Event, NEW T, NEW t \in Seq(Event), Extends(s, t, ev),
         Balanced(l, S, ev, t, T), NEW m, Applied(l, m, ev, "replay")
  PROVE  Owes(m, T, t)
<1>1. Tabled(m.openBuys, Listed(T, t)) /\ Recorded(T, t)
  BY DEF Balanced, Applied
<1>3. /\ Counted(t)
      /\ \A v, b : /\ LastStrand(t, v, b) \in Nat
                   /\ Strand(t, v, b) = Strand(s, v, b) + LastStrand(t, v, b)
  BY StrandGrows DEF Owes, Balanced
<1>2. ASSUME NEW v \in Holders, NEW b \in Assets
      PROVE  LockedOf(m, v, b) - Due(T, v, b) - Strand(t, v, b) \in 0..Slack(t, v, b)
  <2> DEFINE held == LockedOf(l, v, b)  cost == Cost(l, ev, v, b)  lock == Lock(ev, v, b)
             due == Due(S, v, b)  left == Due(T, v, b)
             lost == Strand(s, v, b)  late == LastStrand(t, v, b)
             slack == Slack(s, v, b)  more == SlackOf(ev, v, b)
  <2>1. cost \in Nat /\ held \in Int /\ lock \in Nat
        /\ LockIn("replay", ev, v, b) = Lock(ev, v, b)
    BY EventIsEvent, EventTerms, BalanceTypes DEF Solvent, LockIn
  <2>2. due \in Nat /\ left \in Nat
    <3>1. S \in SUBSET Order /\ IsFiniteSet(S) /\ T \in SUBSET Order /\ IsFiniteSet(T)
      BY DEF OpenSet, Balanced
    <3> QED BY <3>1, DueLaws
  <2>3. LockedOf(m, v, b) = held - cost + lock
    BY <2>1 DEF Applied
  <2>4. held - due - lost \in 0..slack
    BY DEF Owes
  <2>5. due + lock - cost - left - late \in 0..more
    BY DEF Balanced
  <2>6. slack \in Nat /\ Slack(t, v, b) = slack + more /\ more \in Nat
    BY SlackGrows DEF SlackOf
  <2>7. lost \in Nat /\ late \in Nat /\ Strand(t, v, b) = lost + late
    BY <1>3, StrandType DEF Owes
  <2> HIDE DEF held, cost, lock, due, left, lost, late, slack, more
  <2>8. held - due - lost >= 0 /\ held - due - lost <= slack
    BY <2>4, <2>6
  <2>9. due + lock - cost - left - late >= 0 /\ due + lock - cost - left - late <= more
    BY <2>5, <2>6
  <2>10. held - cost + lock - left - (lost + late) \in 0..(slack + more)
    BY <2>1, <2>2, <2>6, <2>7, <2>8, <2>9
  <2>11. LockedOf(m, v, b) - left - Strand(t, v, b) \in 0..Slack(t, v, b)
    BY <2>1, <2>2, <2>3, <2>6, <2>7, <2>10
  <2> QED BY <2>11 DEF left
<1> QED BY <1>1, <1>2, <1>3 DEF Owes

LEMMA OwesNothing ==
  /\ OpenSet({}) /\ Owes(FreshLedger, {}, << >>)
<1>1. OpenSet({})
  BY FS_EmptySet DEF OpenSet
<1>2. Tabled(FreshLedger.openBuys, Listed({}, << >>))
  BY FreshSolvent DEF Tabled, Buys, EmptyMap, Listed
<1> DEFINE s == << >>
<1>0. s \in Seq(Event) /\ Len(s) = 0 /\ DOMAIN s = {} /\ 1..0 = {}
  OBVIOUS
<1> HIDE DEF s
<1>4. Counted(s) /\ Recorded({}, s)
  BY <1>0 DEF Counted, Recorded
<1>3. ASSUME NEW v \in Holders, NEW b \in Assets
      PROVE  LockedOf(FreshLedger, v, b) - Due({}, v, b) - Strand(s, v, b)
               \in 0..Slack(s, v, b)
  <2>1. Due({}, v, b) = 0
    BY <1>1, DueLaws DEF OpenSet
  <2>2. LockedOf(FreshLedger, v, b) = 0
    BY FreshSolvent
  <2>3. Slack(s, v, b) = 0
    <3>1. BoughtBy(s, v) = {} /\ CanceledBy(s, v) = {}
      BY <1>0 DEF BoughtBy, CanceledBy
    <3>2. Cardinality({}) = 0
      BY FS_EmptySet
    <3> QED BY <3>1, <3>2 DEF Slack
  <2>4. Strand(s, v, b) = 0
    <3>1. Weighs(StrandAt(s, v, b), {})
      BY FS_EmptySet DEF Weighs
    <3>2. Sigma(StrandAt(s, v, b), {}) = 0
      BY <3>1, SigmaLaws
    <3> QED BY <1>0, <3>2 DEF Strand
  <2> QED BY <2>1, <2>2, <2>3, <2>4
<1>5. Owes(FreshLedger, {}, s)
  BY <1>2, <1>3, <1>4 DEF Owes, s
<1> QED BY <1>1, <1>5 DEF s

-----------------------------------------------------------------------------
(* Events that the engine has returned and the stream has not.  They take   *)
(* from the orders that are open where the stream ends, and what they leave *)
(* is open in the engine.                                                   *)

Took(ev, id) ==
  IF ev.kind = "Trade" /\ (ev.takerOrderId = id \/ ev.makerOrderId = id) THEN ev.qty
  ELSE IF ev.kind = "OrderCanceled" /\ ev.orderId = id THEN ev.remaining
  ELSE 0

Taken(P) == [id \in Nat |-> Sigma([ev \in Event |-> Took(ev, id)], P)]

Covers(W, f) == \A o \in W : f[o.orderId] <= o.remaining

After(W, f) ==
  {Remaining(o, f[o.orderId]) : o \in {x \in W : f[x.orderId] # x.remaining}}

Crossed(ev, taker, maker) ==
  /\ ev.kind = "Trade" /\ ev.qty > 0
  /\ maker.side = Opposite(taker.side) /\ Crosses(taker.side, taker.price, maker.price)
  /\ ev.price = maker.price /\ ev.aggressor = taker.side
  /\ ev.takerOrderId = taker.orderId /\ ev.takerUserId = taker.userId
  /\ ev.makerOrderId = maker.orderId /\ ev.makerUserId = maker.userId

Withdraws(ev, o) ==
  /\ ev.kind = "OrderCanceled" /\ ev.remaining > 0
  /\ ev.orderId = o.orderId /\ ev.userId = o.userId /\ ev.side = o.side /\ ev.price = o.price

Fits(W, ev) ==
  \/ \E taker, maker \in W : Crossed(ev, taker, maker)
  \/ \E o \in W : Withdraws(ev, o)

Ending(P) == {ev.orderId : ev \in {x \in P : x.kind = "OrderCanceled"}}

(* g takes q more from one order than f.                                    *)
Differ(f, g, id, q) ==
  /\ f \in [Nat -> Nat] /\ g \in [Nat -> Nat]
  /\ g[id] = f[id] + q /\ \A k \in Nat \ {id} : g[k] = f[k]

(* g leaves what the events of Q take from an order.                        *)
Spares(Q, W, id, g) ==
  Q \in SUBSET Event /\ \A e \in Q : Fits(W, e) /\ Took(e, id) <= g[id]

Young(W, n) == \A o \in W : o.orderId < n

Suits(T, Q) == \A e \in Q : Fits(T, e)

(* W is open where the stream s ends, A in the engine; P is to be written;  *)
(* no order has an id from n on.                                           *)
Linked(W, A, P, s, n) ==
  /\ OpenSet(W)
  /\ P \in SUBSET Event /\ IsFiniteSet(P) /\ \A ev \in P : Fits(W, ev)
  /\ Covers(W, Taken(P)) /\ A = After(W, Taken(P))
  /\ \A a \in A : a.orderId \notin Gone(s) \cup Ending(P)
  /\ n \in Nat /\ Young(W, n)
  /\ \A id \in Nat : id >= n => Unseen(s, id)

LEMMA TookType ==
  ASSUME NEW ev \in Event, NEW id
  PROVE  Took(ev, id) \in Nat
BY DEF Took, Event

LEMMA TakenLaws ==
  ASSUME NEW P \in SUBSET Event, IsFiniteSet(P)
  PROVE  /\ Taken(P) \in [Nat -> Nat]
         /\ \A ev \in P : \A id \in Nat :
              /\ Taken(P \ {ev})[id] \in Nat
              /\ Taken(P)[id] = Took(ev, id) + Taken(P \ {ev})[id]
         /\ \A ev \in Event \ P : \A id \in Nat :
              Taken(P \cup {ev})[id] = Took(ev, id) + Taken(P)[id]
<1> DEFINE w(id) == [ev \in Event |-> Took(ev, id)]
<1>1. ASSUME NEW id \in Nat
      PROVE  /\ Sigma(w(id), P) \in Nat
             /\ \A ev \in P : /\ Sigma(w(id), P \ {ev}) \in Nat
                              /\ Sigma(w(id), P) = Took(ev, id) + Sigma(w(id), P \ {ev})
             /\ \A ev \in Event \ P :
                  Sigma(w(id), P \cup {ev}) = Took(ev, id) + Sigma(w(id), P)
  <2> DEFINE u == w(id)
  <2>1. \A ev \in Event : u[ev] = Took(ev, id) /\ u[ev] \in Nat
    BY TookType
  <2> HIDE DEF u
  <2>2. Weighs(u, P)
    BY <2>1 DEF Weighs
  <2>3. Sigma(u, P) \in Nat /\ \A ev \in P : Sigma(u, P) = u[ev] + Sigma(u, P \ {ev})
    BY <2>1, <2>2, SigmaLaws, SigmaMonotonic
  <2>4. \A ev \in P : Sigma(u, P \ {ev}) \in Nat
    <3> SUFFICES ASSUME NEW ev \in P PROVE Sigma(u, P \ {ev}) \in Nat
      OBVIOUS
    <3>1. IsFiniteSet(P \ {ev}) /\ \A x \in P \ {ev} : u[x] \in Nat
      BY <2>1, OneLess
    <3> QED BY <3>1, SigmaMonotonic
  <2>5. \A ev \in Event \ P : Sigma(u, P \cup {ev}) = u[ev] + Sigma(u, P)
    BY <2>1, <2>2, SigmaAdd
  <2>6. \A ev \in P : ev \in Event
    OBVIOUS
  <2>7. /\ Sigma(u, P) \in Nat
        /\ \A ev \in P : /\ Sigma(u, P \ {ev}) \in Nat
                         /\ Sigma(u, P) = Took(ev, id) + Sigma(u, P \ {ev})
        /\ \A ev \in Event \ P :
             Sigma(u, P \cup {ev}) = Took(ev, id) + Sigma(u, P)
    BY <2>1, <2>3, <2>4, <2>5, <2>6
  <2> QED BY <2>7 DEF u
<1>2. \A Q : \A id \in Nat : Taken(Q)[id] = Sigma(w(id), Q)
  BY DEF Taken
<1>3. Taken(P) = [id \in Nat |-> Sigma(w(id), P)]
  BY DEF Taken
<1>4. Taken(P) \in [Nat -> Nat]
  <2> HIDE DEF w
  <2> QED BY <1>1, <1>3
<1>5. ASSUME NEW ev \in P, NEW id \in Nat
      PROVE  /\ Taken(P \ {ev})[id] \in Nat
             /\ Taken(P)[id] = Took(ev, id) + Taken(P \ {ev})[id]
  <2>1. Taken(P)[id] = Sigma(w(id), P) /\ Taken(P \ {ev})[id] = Sigma(w(id), P \ {ev})
    BY <1>2
  <2>2. /\ Sigma(w(id), P \ {ev}) \in Nat
        /\ Sigma(w(id), P) = Took(ev, id) + Sigma(w(id), P \ {ev})
    BY <1>1
  <2> HIDE DEF w
  <2> QED BY <2>1, <2>2
<1>6. ASSUME NEW ev \in Event \ P, NEW id \in Nat
      PROVE  Taken(P \cup {ev})[id] = Took(ev, id) + Taken(P)[id]
  <2>1. Taken(P)[id] = Sigma(w(id), P) /\ Taken(P \cup {ev})[id] = Sigma(w(id), P \cup {ev})
    BY <1>2
  <2>2. Sigma(w(id), P \cup {ev}) = Took(ev, id) + Sigma(w(id), P)
    BY <1>1
  <2> HIDE DEF w
  <2> QED BY <2>1, <2>2
<1> HIDE DEF w
<1> QED BY <1>4, <1>5, <1>6

LEMMA NothingTaken == \A id \in Nat : Taken({})[id] = 0
<1> SUFFICES ASSUME NEW id \in Nat PROVE Taken({})[id] = 0
  OBVIOUS
<1> DEFINE w == [ev \in Event |-> Took(ev, id)]
<1>1. Taken({})[id] = Sigma(w, {})
  BY DEF Taken
<1>2. Weighs(w, {})
  BY FS_EmptySet DEF Weighs
<1> HIDE DEF w
<1> QED BY <1>1, <1>2, SigmaLaws

LEMMA RemainingTwice ==
  ASSUME NEW o \in Order, NEW q \in Nat, NEW r \in Nat
  PROVE  Remaining(o, 0) = o /\ Remaining(Remaining(o, q), r) = Remaining(o, q + r)
<1>1. o.remaining \in Nat
  BY OrderTerms
<1>2. o.remaining - 0 = o.remaining /\ (o.remaining - q) - r = o.remaining - (q + r)
  BY <1>1
<1>3. Remaining(o, 0) = o
  <2>1. Remaining(o, 0) = [o EXCEPT !.remaining = o.remaining]
    BY <1>2 DEF Remaining
  <2> QED BY <2>1 DEF Order
<1>4. Remaining(o, q).remaining = o.remaining - q
  BY DEF Order, Remaining
<1>5. Remaining(Remaining(o, q), r) = [Remaining(o, q) EXCEPT !.remaining = o.remaining - (q + r)]
  BY <1>2, <1>4 DEF Remaining
<1>6. Remaining(o, q + r) = [o EXCEPT !.remaining = o.remaining - (q + r)]
  BY DEF Remaining
<1>7. \A k : [[o EXCEPT !.remaining = o.remaining - q] EXCEPT !.remaining = k]
              = [o EXCEPT !.remaining = k]
  BY DEF Order
<1> QED BY <1>3, <1>5, <1>6, <1>7 DEF Remaining

LEMMA AfterTerms ==
  ASSUME NEW W, OpenSet(W), NEW f \in [Nat -> Nat], Covers(W, f)
  PROVE  /\ OpenSet(After(W, f))
         /\ \A x \in W : /\ x \in Order /\ x.orderId \in Nat /\ f[x.orderId] \in 0..x.remaining
                         /\ f[x.orderId] # x.remaining =>
                              Remaining(x, f[x.orderId]) \in After(W, f)
         /\ \A a \in After(W, f) : \E x \in W :
              /\ f[x.orderId] # x.remaining /\ a = Remaining(x, f[x.orderId])
              /\ a.orderId = x.orderId /\ a.userId = x.userId /\ a.side = x.side
              /\ a.price = x.price /\ a.remaining = x.remaining - f[x.orderId]
<1>1. \A x \in W : x \in Order /\ x.orderId \in Nat /\ f[x.orderId] \in 0..x.remaining
  BY OrderTerms DEF OpenSet, Covers
<1>2. \A x \in W : LET r == Remaining(x, f[x.orderId]) IN
        /\ r \in Order /\ r.orderId = x.orderId /\ r.userId = x.userId /\ r.side = x.side
        /\ r.type = x.type /\ r.price = x.price /\ r.remaining = x.remaining - f[x.orderId]
  BY <1>1, RemainingTerms
<1>3. \A a : a \in After(W, f) <=>
        \E x \in W : f[x.orderId] # x.remaining /\ a = Remaining(x, f[x.orderId])
  BY DEF After
<1>4. IsFiniteSet(After(W, f))
  <2> DEFINE V == {x \in W : f[x.orderId] # x.remaining}
  <2>1. IsFiniteSet(V)
    BY FS_Subset DEF OpenSet
  <2>2. After(W, f) = {Remaining(o, f[o.orderId]) : o \in V}
    BY DEF After
  <2> HIDE DEF V
  <2>3. IsFiniteSet({Remaining(o, f[o.orderId]) : o \in V})
    <3> DEFINE g == [o \in V |-> Remaining(o, f[o.orderId])]
    <3>1. {Remaining(o, f[o.orderId]) : o \in V} = {g[o] : o \in V}
      OBVIOUS
    <3>2. g \in Surjection(V, {g[o] : o \in V})
      BY DEF Surjection
    <3> HIDE DEF g
    <3> QED BY <2>1, <3>1, <3>2, FS_Surjection
  <2> QED BY <2>2, <2>3
<1>5. OpenSet(After(W, f))
  <2>1. After(W, f) \in SUBSET Order
    BY <1>2, <1>3
  <2>2. \A a \in After(W, f) : a.remaining > 0 /\ a.type # "MARKET"
    <3> SUFFICES ASSUME NEW a \in After(W, f) PROVE a.remaining > 0 /\ a.type # "MARKET"
      OBVIOUS
    <3>1. PICK x \in W : f[x.orderId] # x.remaining /\ a = Remaining(x, f[x.orderId])
      BY <1>3
    <3>2. f[x.orderId] \in 0..x.remaining /\ x.remaining \in Nat /\ x.type # "MARKET"
      BY <1>1, OrderTerms DEF OpenSet
    <3>3. a.remaining = x.remaining - f[x.orderId] /\ a.type = x.type
      BY <1>2, <3>1
    <3> QED BY <3>1, <3>2, <3>3
  <2>3. \A a, c \in After(W, f) : a.orderId = c.orderId => a = c
    <3> SUFFICES ASSUME NEW a \in After(W, f), NEW c \in After(W, f), a.orderId = c.orderId
                 PROVE  a = c
      OBVIOUS
    <3>1. PICK x \in W : a = Remaining(x, f[x.orderId])
      BY <1>3
    <3>2. PICK y \in W : c = Remaining(y, f[y.orderId])
      BY <1>3
    <3>3. x.orderId = y.orderId
      BY <1>2, <3>1, <3>2
    <3>4. x = y
      BY <3>3 DEF OpenSet
    <3> QED BY <3>1, <3>2, <3>4
  <2> QED BY <1>4, <2>1, <2>2, <2>3 DEF OpenSet
<1> QED BY <1>1, <1>2, <1>3, <1>5

LEMMA AfterMore ==
  ASSUME NEW W, OpenSet(W), NEW f, Covers(W, f), NEW g,
         NEW x \in W, NEW q \in Nat, q > 0, q <= x.remaining - f[x.orderId],
         Differ(f, g, x.orderId, q)
  PROVE  /\ Covers(W, g) /\ Remaining(x, f[x.orderId]) \in After(W, f)
         /\ After(W, g) = Reduced(After(W, f), Remaining(x, f[x.orderId]), q)
<1> DEFINE a == Remaining(x, f[x.orderId])  A == After(W, f)
<1>0. /\ f \in [Nat -> Nat] /\ g \in [Nat -> Nat]
      /\ g[x.orderId] = f[x.orderId] + q /\ \A id \in Nat \ {x.orderId} : g[id] = f[id]
  BY DEF Differ
<1>1. \A y \in W : /\ y \in Order /\ y.orderId \in Nat /\ f[y.orderId] \in 0..y.remaining
                   /\ y.remaining \in Nat
  BY <1>0, AfterTerms, OrderTerms DEF OpenSet
<1>2. \A y \in W : y # x => y.orderId # x.orderId /\ g[y.orderId] = f[y.orderId]
  BY <1>0, <1>1 DEF OpenSet
<1>3. Covers(W, g)
  BY <1>0, <1>1, <1>2 DEF Covers
<1>4. f[x.orderId] # x.remaining
  BY <1>0, <1>1
<1>5. a \in A /\ a.remaining = x.remaining - f[x.orderId] /\ a.orderId = x.orderId
  BY <1>0, <1>1, <1>4, AfterTerms, RemainingTerms
<1>6. Remaining(a, q) = Remaining(x, g[x.orderId])
  <2>1. f[x.orderId] \in Nat /\ x \in Order
    BY <1>1
  <2>2. Remaining(Remaining(x, f[x.orderId]), q) = Remaining(x, f[x.orderId] + q)
    BY <2>1, RemainingTwice
  <2> QED BY <1>0, <2>2
<1>7. g[x.orderId] # x.remaining <=> q # a.remaining
  BY <1>0, <1>1, <1>5
<1>8. \A y : y \in A <=>
        \E o \in W : f[o.orderId] # o.remaining /\ y = Remaining(o, f[o.orderId])
  BY DEF After
<1>9. \A y : y \in After(W, g) <=>
        \E o \in W : g[o.orderId] # o.remaining /\ y = Remaining(o, g[o.orderId])
  BY DEF After
<1>10. \A o \in W : o # x => Remaining(o, f[o.orderId]) # a
  <2> SUFFICES ASSUME NEW o \in W, o # x PROVE Remaining(o, f[o.orderId]) # a
    OBVIOUS
  <2>1. Remaining(o, f[o.orderId]).orderId = o.orderId
    BY <1>1, RemainingTerms
  <2> QED BY <1>2, <1>5, <2>1
<1> HIDE DEF a, A
<1>11. ASSUME NEW y
       PROVE  y \in After(W, g) <=>
                (y \in A /\ y # a) \/ (q # a.remaining /\ y = Remaining(a, q))
  <2>1. y \in A /\ y # a <=>
          \E o \in W : o # x /\ f[o.orderId] # o.remaining /\ y = Remaining(o, f[o.orderId])
    BY <1>8, <1>10 DEF a
  <2>2. y \in After(W, g) <=>
          \/ \E o \in W : o # x /\ g[o.orderId] # o.remaining /\ y = Remaining(o, g[o.orderId])
          \/ g[x.orderId] # x.remaining /\ y = Remaining(x, g[x.orderId])
    BY <1>9
  <2> QED BY <1>2, <1>6, <1>7, <2>1, <2>2
<1>12. After(W, g) = Reduced(A, a, q)
  <2>1. Reduced(A, a, q) = (A \ {a}) \cup (IF q = a.remaining THEN {} ELSE {Remaining(a, q)})
    BY DEF Reduced
  <2> QED BY <1>11, <2>1
<1> QED BY <1>3, <1>5, <1>12 DEF a, A

LEMMA AfterLess ==
  ASSUME NEW W, OpenSet(W), NEW f, Covers(W, f), NEW g,
         NEW x \in W, NEW q \in Nat, q > 0, Differ(g, f, x.orderId, q)
  PROVE  LET T == Reduced(W, x, q) IN
         /\ q <= x.remaining /\ OpenSet(T) /\ Covers(T, g) /\ After(T, g) = After(W, f)
<1> DEFINE T == Reduced(W, x, q)  r == Remaining(x, q)
<1>0. /\ f \in [Nat -> Nat] /\ g \in [Nat -> Nat]
      /\ f[x.orderId] = g[x.orderId] + q /\ \A id \in Nat \ {x.orderId} : g[id] = f[id]
  BY DEF Differ
<1>1. \A y \in W : /\ y \in Order /\ y.orderId \in Nat /\ f[y.orderId] \in 0..y.remaining
                   /\ y.remaining \in Nat /\ g[y.orderId] \in Nat
  BY <1>0, AfterTerms, OrderTerms DEF OpenSet
<1>2. \A y \in W : y # x => y.orderId # x.orderId /\ g[y.orderId] = f[y.orderId]
  BY <1>0, <1>1 DEF OpenSet
<1>3. q <= x.remaining /\ q \in 0..x.remaining
  BY <1>0, <1>1
<1>4. OpenSet(T)
  BY <1>3, OrderReduced
<1>5. r.orderId = x.orderId /\ r.remaining = x.remaining - q
  BY <1>1, <1>3, RemainingTerms
<1>6. Remaining(r, g[r.orderId]) = Remaining(x, f[x.orderId])
  <2>1. Remaining(Remaining(x, q), g[x.orderId]) = Remaining(x, q + g[x.orderId])
    BY <1>1, RemainingTwice
  <2>2. q + g[x.orderId] = f[x.orderId]
    BY <1>0, <1>1
  <2> QED BY <1>5, <2>1, <2>2
<1>7. /\ g[r.orderId] <= r.remaining
      /\ g[r.orderId] # r.remaining <=> f[x.orderId] # x.remaining
  BY <1>0, <1>1, <1>3, <1>5
<1>8. \A y : y \in T <=> (y \in W /\ y # x) \/ (q # x.remaining /\ y = r)
  BY DEF Reduced
<1> HIDE DEF T, r
<1>9. Covers(T, g)
  BY <1>1, <1>2, <1>7, <1>8 DEF Covers
<1>10. \A y : y \in After(T, g) <=>
         \E o \in T : g[o.orderId] # o.remaining /\ y = Remaining(o, g[o.orderId])
  BY DEF After
<1>11. \A y : y \in After(W, f) <=>
         \E o \in W : f[o.orderId] # o.remaining /\ y = Remaining(o, f[o.orderId])
  BY DEF After
<1>12. q = x.remaining => f[x.orderId] = x.remaining
  BY <1>0, <1>1, <1>3
<1>13. ASSUME NEW y
       PROVE  y \in After(T, g) <=> y \in After(W, f)
  <2> DEFINE Others == \E o \in W : /\ o # x /\ f[o.orderId] # o.remaining
                                    /\ y = Remaining(o, f[o.orderId])
             Itself == f[x.orderId] # x.remaining /\ y = Remaining(x, f[x.orderId])
  <2>1. y \in After(W, f) <=> Others \/ Itself
    BY <1>11
  <2>2. y \in After(T, g) <=>
          \/ \E o \in W : o # x /\ g[o.orderId] # o.remaining /\ y = Remaining(o, g[o.orderId])
          \/ q # x.remaining /\ g[r.orderId] # r.remaining /\ y = Remaining(r, g[r.orderId])
    BY <1>8, <1>10
  <2>3. (\E o \in W : o # x /\ g[o.orderId] # o.remaining /\ y = Remaining(o, g[o.orderId]))
          <=> Others
    BY <1>2
  <2>4. (q # x.remaining /\ g[r.orderId] # r.remaining /\ y = Remaining(r, g[r.orderId]))
          <=> Itself
    BY <1>6, <1>7, <1>12
  <2> QED BY <2>1, <2>2, <2>3, <2>4
<1>14. After(T, g) = After(W, f)
  BY <1>13
<1> QED BY <1>3, <1>4, <1>9, <1>14 DEF T

(* What the events to come take from an order is what one of them takes and *)
(* more; and they take from no order that they do not name.                *)
LEMMA TakenBounds ==
  ASSUME NEW P \in SUBSET Event, IsFiniteSet(P), NEW id \in Nat
  PROVE  /\ \A e \in P : Took(e, id) <= Taken(P)[id]
         /\ (\A e \in P : Took(e, id) = 0) => Taken(P)[id] = 0
<1>1. ASSUME NEW e \in P
      PROVE  Took(e, id) <= Taken(P)[id]
  <2>1. /\ Taken(P \ {e})[id] \in Nat
        /\ Taken(P)[id] = Took(e, id) + Taken(P \ {e})[id]
    BY TakenLaws
  <2>2. Took(e, id) \in Nat
    BY TookType
  <2> QED BY <2>1, <2>2
<1>2. ASSUME \A e \in P : Took(e, id) = 0
      PROVE  Taken(P)[id] = 0
  <2> DEFINE w == [ev \in Event |-> Took(ev, id)]
  <2>1. Taken(P)[id] = Sigma(w, P)
    BY DEF Taken
  <2>2. \A x \in P : w[x] = 0 /\ w[x] \in Int
    BY <1>2
  <2> HIDE DEF w
  <2>3. Weighs(w, P) /\ Weighs(w, {}) /\ {} \in SUBSET P
    BY <2>2, FS_EmptySet DEF Weighs
  <2>4. Sigma(w, {}) = Sigma(w, P)
    BY <2>2, <2>3, SigmaPart
  <2>5. Sigma(w, {}) = 0
    BY <2>3, SigmaLaws
  <2> QED BY <2>1, <2>4, <2>5
<1> QED BY <1>1, <1>2

LEMMA FitsTerms ==
  ASSUME NEW W, OpenSet(W), NEW ev \in Event, Fits(W, ev)
  PROVE  /\ ev.kind \in {"Trade", "OrderCanceled"}
         /\ \A id : Took(ev, id) > 0 => \E o \in W : o.orderId = id
         /\ ev.kind = "OrderCanceled" => \E o \in W : o.orderId = ev.orderId
<1>1. CASE \E taker, maker \in W : Crossed(ev, taker, maker)
  BY <1>1 DEF Crossed, Took
<1>2. CASE \E o \in W : Withdraws(ev, o)
  BY <1>2 DEF Withdraws, Took
<1> QED BY <1>1, <1>2 DEF Fits

(* An event fits what is left of an order that it still takes from.         *)
LEMMA FitsKept ==
  ASSUME NEW W, OpenSet(W), NEW x \in W, NEW q \in Nat, q > 0, q <= x.remaining,
         NEW e \in Event, Fits(W, e), Took(e, x.orderId) > 0 => q # x.remaining
  PROVE  Fits(Reduced(W, x, q), e)
<1> DEFINE T == Reduced(W, x, q)  r == Remaining(x, q)
           Like(z, y) == /\ z.orderId = y.orderId /\ z.userId = y.userId
                         /\ z.side = y.side /\ z.price = y.price
<1>1. x \in Order /\ q \in 0..x.remaining
  BY OrderTerms DEF OpenSet
<1>2. Like(r, x)
  BY <1>1, RemainingTerms
<1>3. \A y : y \in T <=> (y \in W /\ y # x) \/ (q # x.remaining /\ y = r)
  BY DEF Reduced
<1> HIDE DEF T, r
<1>4. \A y \in W : Took(e, y.orderId) > 0 => \E z \in T : Like(z, y)
  BY <1>2, <1>3
<1>5. CASE \E taker, maker \in W : Crossed(e, taker, maker)
  <2>1. PICK taker, maker \in W : Crossed(e, taker, maker)
    BY <1>5
  <2>2. Took(e, taker.orderId) > 0 /\ Took(e, maker.orderId) > 0
    BY <2>1 DEF Crossed, Took
  <2>3. PICK z \in T : Like(z, taker)
    BY <1>4, <2>2
  <2>4. PICK y \in T : Like(y, maker)
    BY <1>4, <2>2
  <2>5. Crossed(e, z, y)
    BY <2>1, <2>3, <2>4 DEF Crossed
  <2> QED BY <2>5 DEF Fits, T
<1>6. CASE \E o \in W : Withdraws(e, o)
  <2>1. PICK o \in W : Withdraws(e, o)
    BY <1>6
  <2>2. Took(e, o.orderId) > 0
    BY <2>1 DEF Withdraws, Took
  <2>3. PICK z \in T : Like(z, o)
    BY <1>4, <2>2
  <2>4. Withdraws(e, z)
    BY <2>1, <2>3 DEF Withdraws
  <2> QED BY <2>4 DEF Fits, T
<1> QED BY <1>5, <1>6 DEF Fits

(* A part of an event is written: what it took from one order.              *)
LEMMA PartWritten ==
  ASSUME NEW W, OpenSet(W), NEW f, Covers(W, f), NEW g,
         NEW x \in W, NEW q \in Nat, q > 0, Differ(g, f, x.orderId, q),
         NEW Q, Spares(Q, W, x.orderId, g), NEW n, Young(W, n)
  PROVE  LET T == Reduced(W, x, q) IN
         /\ q <= x.remaining /\ OpenSet(T) /\ Covers(T, g) /\ After(T, g) = After(W, f)
         /\ Suits(T, Q) /\ Young(T, n) /\ \A y \in W : y # x => y \in T
<1> DEFINE T == Reduced(W, x, q)
<1>0. /\ f \in [Nat -> Nat] /\ g \in [Nat -> Nat] /\ f[x.orderId] = g[x.orderId] + q
      /\ Q \in SUBSET Event /\ \A e \in Q : Fits(W, e) /\ Took(e, x.orderId) <= g[x.orderId]
  BY DEF Differ, Spares
<1>1. q <= x.remaining /\ OpenSet(T) /\ Covers(T, g) /\ After(T, g) = After(W, f)
  BY AfterLess
<1>2. \A o \in T : \E y \in W : o.orderId = y.orderId
  BY <1>1, ReducedIds
<1>3. \A y \in W : y # x => y \in T
  BY <1>1, OrderReduced
<1>4. x.remaining \in Nat /\ x.orderId \in Nat /\ f[x.orderId] <= x.remaining
  BY OrderTerms DEF OpenSet, Covers
<1>5. g[x.orderId] \in Nat
  BY <1>0, <1>4
<1>6. q = x.remaining => g[x.orderId] = 0
  BY <1>0, <1>1, <1>4, <1>5
<1>7. ASSUME NEW e \in Q
      PROVE  Fits(T, e)
  <2>1. e \in Event /\ Fits(W, e) /\ Took(e, x.orderId) <= g[x.orderId]
        /\ Took(e, x.orderId) \in Nat
    BY <1>0, TookType
  <2>2. Took(e, x.orderId) > 0 => q # x.remaining
    BY <1>5, <1>6, <2>1
  <2> QED BY <1>1, <2>1, <2>2, FitsKept
<1> HIDE DEF T
<1>8. Young(T, n)
  BY <1>2 DEF Young
<1>9. Suits(T, Q)
  BY <1>7 DEF Suits
<1> QED BY <1>1, <1>3, <1>8, <1>9 DEF T

LEMMA LinkTerms ==
  ASSUME NEW W, NEW A, NEW P, NEW s, NEW n, Linked(W, A, P, s, n)
  PROVE  /\ OpenSet(W) /\ OpenSet(A) /\ Taken(P) \in [Nat -> Nat] /\ Covers(W, Taken(P))
         /\ \A x \in W : /\ x \in Order /\ x.orderId \in Nat /\ x.orderId < n
                         /\ Taken(P)[x.orderId] \in 0..x.remaining
                         /\ Taken(P)[x.orderId] # x.remaining =>
                              Remaining(x, Taken(P)[x.orderId]) \in A
         /\ \A a \in A : \E x \in W :
              /\ Taken(P)[x.orderId] # x.remaining /\ a = Remaining(x, Taken(P)[x.orderId])
              /\ a.orderId = x.orderId /\ a.userId = x.userId /\ a.side = x.side
              /\ a.price = x.price /\ a.remaining = x.remaining - Taken(P)[x.orderId]
<1>1. Taken(P) \in [Nat -> Nat]
  BY TakenLaws DEF Linked
<1> QED BY <1>1, AfterTerms DEF Linked, Young

(* The engine returns a fill or a cancel that the stream has yet to get.    *)
LEMMA LinkQueues ==
  ASSUME NEW W, NEW A, NEW P, NEW s, NEW n, Linked(W, A, P, s, n), NEW ev \in Event, ev \notin P,
         NEW B, \/ \E taker, maker, q : Exchanged(A, ev, B, taker, maker, q)
                \/ \E o : Removed(A, ev, B, o)
  PROVE  Linked(W, B, P \cup {ev}, s, n)
<1> DEFINE f == Taken(P)  g == Taken(P \cup {ev})
<1>1. /\ P \cup {ev} \in SUBSET Event /\ IsFiniteSet(P \cup {ev})
      /\ P \in SUBSET Event /\ IsFiniteSet(P)
  BY FS_AddElement DEF Linked
<1>2. f \in [Nat -> Nat] /\ g \in [Nat -> Nat]
  BY <1>1, TakenLaws
<1>3. \A id \in Nat : g[id] = Took(ev, id) + f[id]
  BY <1>1, TakenLaws
<1>4. /\ OpenSet(W) /\ OpenSet(A) /\ Covers(W, f) /\ A = After(W, f)
      /\ \A x \in W : x \in Order /\ x.orderId \in Nat
      /\ \A a \in A : \E x \in W :
           /\ f[x.orderId] # x.remaining /\ a = Remaining(x, f[x.orderId])
           /\ a.orderId = x.orderId /\ a.userId = x.userId /\ a.side = x.side
           /\ a.price = x.price /\ a.remaining = x.remaining - f[x.orderId]
  <2>1. OpenSet(W) /\ Covers(W, f) /\ A = After(W, f)
    BY DEF Linked
  <2> QED BY <2>1, LinkTerms
<1> HIDE DEF f, g
<1>5. ASSUME Fits(W, ev), Covers(W, g), B = After(W, g),
             \A b \in B : b.orderId \notin Gone(s) \cup Ending(P \cup {ev})
      PROVE  Linked(W, B, P \cup {ev}, s, n)
  BY <1>1, <1>5 DEF Linked, g
<1>6. CASE \E taker, maker, q : Exchanged(A, ev, B, taker, maker, q)
  <2>1. PICK taker, maker, q : Exchanged(A, ev, B, taker, maker, q)
    BY <1>6
  <2>2. PICK x \in W : /\ f[x.orderId] # x.remaining /\ taker = Remaining(x, f[x.orderId])
                       /\ taker.orderId = x.orderId /\ taker.userId = x.userId
                       /\ taker.side = x.side /\ taker.price = x.price
                       /\ taker.remaining = x.remaining - f[x.orderId]
    BY <1>4, <2>1 DEF Exchanged
  <2>3. PICK y \in W : /\ f[y.orderId] # y.remaining /\ maker = Remaining(y, f[y.orderId])
                       /\ maker.orderId = y.orderId /\ maker.userId = y.userId
                       /\ maker.side = y.side /\ maker.price = y.price
                       /\ maker.remaining = y.remaining - f[y.orderId]
    BY <1>4, <2>1 DEF Exchanged
  <2>4. x.side \in Sides /\ y.side = Opposite(x.side)
    BY <1>4, <2>1, <2>2, <2>3, OrderTerms DEF Exchanged
  <2>5. y.orderId # x.orderId
    BY <1>4, <2>4 DEF OpenSet, Opposite, Sides
  <2>6. /\ q \in Nat /\ q > 0 /\ q <= x.remaining - f[x.orderId]
        /\ q <= y.remaining - f[y.orderId] /\ ev.kind = "Trade" /\ ev.qty = q
        /\ ev.takerOrderId = x.orderId /\ ev.makerOrderId = y.orderId
    BY <2>1, <2>2, <2>3 DEF Exchanged
  <2>7. /\ Took(ev, x.orderId) = q /\ Took(ev, y.orderId) = q
        /\ \A id : id # x.orderId /\ id # y.orderId => Took(ev, id) = 0
    BY <2>6 DEF Took
  <2> DEFINE h == [f EXCEPT ![x.orderId] = f[x.orderId] + q]
  <2>8. /\ h \in [Nat -> Nat] /\ h[x.orderId] = f[x.orderId] + q
        /\ \A id \in Nat \ {x.orderId} : h[id] = f[id]
    BY <1>2, <1>4, <2>6
  <2>9. g[y.orderId] = h[y.orderId] + q /\ \A id \in Nat \ {y.orderId} : g[id] = h[id]
    BY <1>2, <1>3, <1>4, <2>5, <2>6, <2>7, <2>8
  <2>10. h[y.orderId] = f[y.orderId]
    BY <1>4, <2>5, <2>8
  <2> HIDE DEF h
  <2>11. Covers(W, h) /\ After(W, h) = Reduced(A, taker, q)
    <3>0. Differ(f, h, x.orderId, q)
      BY <1>2, <2>8 DEF Differ
    <3>1. Covers(W, h) /\ After(W, h) = Reduced(After(W, f), Remaining(x, f[x.orderId]), q)
      BY <1>4, <2>6, <3>0, AfterMore
    <3> QED BY <1>4, <2>2, <3>1
  <2>12. Covers(W, g) /\ After(W, g) = Reduced(After(W, h), maker, q)
    <3>0. q <= y.remaining - h[y.orderId] /\ Differ(h, g, y.orderId, q)
      BY <1>2, <2>6, <2>8, <2>9, <2>10 DEF Differ
    <3>1. Covers(W, g) /\ After(W, g) = Reduced(After(W, h), Remaining(y, h[y.orderId]), q)
      BY <1>4, <2>6, <2>11, <3>0, AfterMore
    <3> QED BY <2>3, <2>10, <3>1
  <2>13. B = After(W, g)
    BY <2>1, <2>11, <2>12 DEF Exchanged
  <2>14. Fits(W, ev)
    <3>1. Crossed(ev, x, y)
      BY <2>1, <2>2, <2>3, <2>6 DEF Exchanged, Crossed
    <3> QED BY <3>1 DEF Fits
  <2>15. \A b \in B : \E a \in A : b.orderId = a.orderId
    <3>1. taker \in A /\ maker \in A /\ maker # taker
          /\ q > 0 /\ q \in Nat /\ q <= taker.remaining /\ q <= maker.remaining
      BY <2>1, <2>2, <2>3, <2>5 DEF Exchanged
    <3>2. OpenSet(Reduced(A, taker, q)) /\ maker \in Reduced(A, taker, q)
      BY <1>4, <3>1, OrderReduced
    <3>3. \A z \in Reduced(A, taker, q) : \E a \in A : z.orderId = a.orderId
      BY <1>4, <3>1, ReducedIds
    <3>4. \A b \in B : \E z \in Reduced(A, taker, q) : b.orderId = z.orderId
      BY <2>1, <3>1, <3>2, ReducedIds DEF Exchanged
    <3> QED BY <3>3, <3>4
  <2>16. Ending(P \cup {ev}) = Ending(P)
    BY <2>6 DEF Ending
  <2> QED BY <1>5, <2>12, <2>13, <2>14, <2>15, <2>16 DEF Linked
<1>7. CASE \E o : Removed(A, ev, B, o)
  <2>1. PICK o : Removed(A, ev, B, o)
    BY <1>7
  <2>2. PICK x \in W : /\ f[x.orderId] # x.remaining /\ o = Remaining(x, f[x.orderId])
                       /\ o.orderId = x.orderId /\ o.userId = x.userId
                       /\ o.side = x.side /\ o.price = x.price
                       /\ o.remaining = x.remaining - f[x.orderId]
    BY <1>4, <2>1 DEF Removed
  <2> DEFINE q == ev.remaining
  <2>3. o \in A /\ q = o.remaining /\ q \in Nat /\ q > 0 /\ q <= x.remaining - f[x.orderId]
        /\ ev.kind = "OrderCanceled" /\ ev.orderId = x.orderId
    <3>1. o \in A /\ q = o.remaining /\ ev.kind = "OrderCanceled" /\ ev.orderId = x.orderId
      BY <2>1, <2>2 DEF Removed
    <3>2. o.remaining \in Nat /\ o.remaining > 0
      BY <1>4, <3>1, OrderTerms DEF OpenSet
    <3> QED BY <2>2, <3>1, <3>2
  <2> HIDE DEF q
  <2>4. Took(ev, x.orderId) = q /\ \A id : id # x.orderId => Took(ev, id) = 0
    BY <2>3 DEF Took, q
  <2>5. g[x.orderId] = f[x.orderId] + q /\ \A id \in Nat \ {x.orderId} : g[id] = f[id]
    BY <1>2, <1>3, <1>4, <2>3, <2>4
  <2>6. Covers(W, g) /\ After(W, g) = Reduced(A, o, q)
    <3>1. Differ(f, g, x.orderId, q)
      BY <1>2, <2>5 DEF Differ
    <3>3. OpenSet(W) /\ Covers(W, f)
      BY <1>4
    <3>2. Covers(W, g) /\ After(W, g) = Reduced(After(W, f), Remaining(x, f[x.orderId]), q)
      BY <2>3, <3>1, <3>3, AfterMore
    <3> QED BY <1>4, <2>2, <3>2
  <2>7. B = After(W, g)
    <3>1. B = A \ {o}
      BY <2>1 DEF Removed
    <3> QED BY <2>3, <2>6, <3>1 DEF Reduced
  <2>8. Fits(W, ev)
    <3>1. Withdraws(ev, x)
      BY <2>1, <2>2, <2>3 DEF Removed, Withdraws, q
    <3> QED BY <3>1 DEF Fits
  <2>9. Ending(P \cup {ev}) = Ending(P) \cup {ev.orderId}
    BY <2>3 DEF Ending
  <2>10. \A b \in B : b \in A /\ b.orderId # ev.orderId
    BY <1>4, <2>1 DEF Removed, OpenSet
  <2> QED BY <1>5, <2>6, <2>7, <2>8, <2>9, <2>10 DEF Linked
<1> QED BY <1>6, <1>7

(* An event that was still to come is written.                              *)
LEMMA LinkSends ==
  ASSUME NEW W, NEW A, NEW P, NEW s \in Seq(Event), NEW n, Linked(W, A, P, s, n),
         NEW ev \in P, NEW t \in Seq(Event), Extends(s, t, ev)
  PROVE  \E T : Settles(s, W, ev, T) /\ Linked(T, A, P \ {ev}, t, n)
<1> DEFINE f == Taken(P)  Q == P \ {ev}  g == Taken(Q)
<1>1. /\ P \in SUBSET Event /\ IsFiniteSet(P) /\ ev \in Event
      /\ Q \in SUBSET Event /\ IsFiniteSet(Q) /\ \A e \in Q : e \in P
  BY OneLess DEF Linked
<1>2. f \in [Nat -> Nat] /\ g \in [Nat -> Nat]
  BY <1>1, TakenLaws
<1>3. \A id \in Nat : f[id] \in Nat /\ g[id] \in Nat /\ f[id] = g[id] + Took(ev, id)
  <2> SUFFICES ASSUME NEW id \in Nat
               PROVE  f[id] \in Nat /\ g[id] \in Nat /\ f[id] = g[id] + Took(ev, id)
    OBVIOUS
  <2>1. f[id] \in Nat /\ g[id] \in Nat /\ Took(ev, id) \in Nat
    BY <1>1, <1>2, TookType
  <2>2. f[id] = Took(ev, id) + g[id]
    BY <1>1, TakenLaws
  <2> HIDE DEF f, g
  <2> QED BY <2>1, <2>2
<1>4. \A id \in Nat : \A e \in Q : Took(e, id) <= g[id]
  BY <1>1, TakenBounds
<1>5. /\ OpenSet(W) /\ Covers(W, f) /\ A = After(W, f) /\ n \in Nat /\ Young(W, n)
      /\ \A x \in W : x \in Order /\ x.orderId \in Nat /\ x.orderId < n
      /\ \A e \in P : Fits(W, e)
  <2>1. OpenSet(W) /\ Covers(W, f) /\ A = After(W, f) /\ n \in Nat /\ Young(W, n)
        /\ \A e \in P : Fits(W, e)
    BY DEF Linked
  <2> QED BY <2>1, LinkTerms
<1>6. ev.kind \in {"Trade", "OrderCanceled"}
  BY <1>1, <1>5, FitsTerms
<1>7. Gone(t) = Gone(s) \cup (IF ev.kind = "OrderCanceled" THEN {ev.orderId} ELSE {})
  BY <1>1, GoneGrows
<1>8. \A id : Limits(t, Len(t), id) = Limits(s, Len(s), id)
  BY <1>1, <1>6, LimitsSame
<1>9. ev.kind = "OrderCanceled" => ev.orderId \in Ending(P)
  BY DEF Ending
<1>10. \A a \in A : a.orderId \notin Gone(t) \cup Ending(Q)
  BY <1>1, <1>7, <1>9 DEF Linked, Ending
<1>11. \A id \in Nat : id >= n => Unseen(t, id)
  <2> SUFFICES ASSUME NEW id \in Nat, id >= n PROVE Unseen(t, id)
    OBVIOUS
  <2>1. id \notin Gone(s) /\ Limits(s, Len(s), id) = {}
    BY DEF Linked, Unseen
  <2>2. ev.kind = "OrderCanceled" => ev.orderId # id
    <3>1. ev.kind = "OrderCanceled" => \E o \in W : o.orderId = ev.orderId
      BY <1>1, <1>5, FitsTerms
    <3> QED BY <1>5, <3>1
  <2> QED BY <1>7, <1>8, <2>1, <2>2 DEF Unseen
<1> HIDE DEF f, g, Q
<1>12. ASSUME NEW T, OpenSet(T), Covers(T, g), After(T, g) = A, Suits(T, Q),
              Young(T, n)
       PROVE  Linked(T, A, Q, t, n)
  BY <1>1, <1>5, <1>10, <1>11, <1>12 DEF Linked, Suits, g
<1>13. CASE \E taker, maker \in W : Crossed(ev, taker, maker)
  <2>1. PICK x, y \in W : Crossed(ev, x, y)
    BY <1>13
  <2> DEFINE q == ev.qty
  <2>2. /\ q > 0 /\ ev.kind = "Trade" /\ ev.takerOrderId = x.orderId
        /\ ev.makerOrderId = y.orderId /\ y.side = Opposite(x.side) /\ x.side \in Sides
    BY <1>5, <2>1, OrderTerms DEF Crossed
  <2>3. q \in Nat
    BY <1>1, <2>2 DEF Event
  <2>4. y.orderId # x.orderId
    BY <1>5, <2>2 DEF OpenSet, Opposite, Sides
  <2>5. /\ Took(ev, x.orderId) = q /\ Took(ev, y.orderId) = q
        /\ \A id : id # x.orderId /\ id # y.orderId => Took(ev, id) = 0
    BY <2>2 DEF Took
  <2> HIDE DEF q
  <2> DEFINE h == [f EXCEPT ![x.orderId] = g[x.orderId]]  T == Reduced(W, x, q)
             U == Reduced(T, y, q)
  <2>6. /\ h \in [Nat -> Nat] /\ h[x.orderId] = g[x.orderId]
        /\ \A id \in Nat \ {x.orderId} : h[id] = f[id]
    BY <1>2, <1>5
  <2> HIDE DEF h
  <2>7. f[x.orderId] = h[x.orderId] + q
    BY <1>3, <1>5, <2>5, <2>6
  <2>8. h[y.orderId] = g[y.orderId] + q /\ \A id \in Nat \ {y.orderId} : g[id] = h[id]
    <3>1. f[y.orderId] = g[y.orderId] + q /\ h[y.orderId] = f[y.orderId]
      BY <1>3, <1>5, <2>4, <2>5, <2>6
    <3>2. ASSUME NEW id \in Nat \ {y.orderId}
          PROVE  g[id] = h[id]
      <4>1. CASE id = x.orderId
        BY <2>6, <4>1
      <4>2. CASE id # x.orderId
        <5>1. f[id] = g[id] + 0 /\ g[id] \in Nat /\ h[id] = f[id]
          BY <1>3, <2>5, <2>6, <4>2
        <5> QED BY <5>1
      <4> QED BY <4>1, <4>2
    <3> QED BY <3>1, <3>2
  <2>9. \A e \in Q : Fits(W, e) /\ Took(e, x.orderId) <= h[x.orderId]
    BY <1>1, <1>4, <1>5, <2>6
  <2>12. q > 0
    BY <2>2 DEF q
  <2>10. /\ q <= x.remaining /\ OpenSet(T) /\ Covers(T, h) /\ After(T, h) = A
         /\ Suits(T, Q)
         /\ Young(T, n)
         /\ \A z \in W : z # x => z \in T
    <3>1. OpenSet(W) /\ Covers(W, f) /\ A = After(W, f) /\ Young(W, n)
      BY <1>5
    <3>2. Differ(h, f, x.orderId, q)
      BY <1>2, <2>6, <2>7 DEF Differ
    <3>3. Spares(Q, W, x.orderId, h)
      BY <1>1, <2>9 DEF Spares
    <3>4. /\ q <= x.remaining /\ OpenSet(Reduced(W, x, q)) /\ Covers(Reduced(W, x, q), h)
          /\ After(Reduced(W, x, q), h) = After(W, f)
          /\ Suits(Reduced(W, x, q), Q)
          /\ Young(Reduced(W, x, q), n)
          /\ \A z \in W : z # x => z \in Reduced(W, x, q)
      BY <3>1, <3>2, <3>3, <2>3, <2>12, PartWritten
    <3> QED BY <3>1, <3>4
  <2>11. y \in T /\ \A e \in Q : Took(e, y.orderId) <= g[y.orderId]
    BY <1>4, <1>5, <2>4, <2>10
  <2> HIDE DEF T
  <2>13. /\ q <= y.remaining /\ OpenSet(U) /\ Covers(U, g) /\ After(U, g) = A
         /\ Suits(U, Q)
         /\ Young(U, n)
    <3>1. /\ OpenSet(T) /\ Covers(T, h) /\ After(T, h) = A /\ y \in T
          /\ Young(T, n)
      BY <2>10, <2>11
    <3>2. Differ(g, h, y.orderId, q)
      BY <1>2, <2>6, <2>8 DEF Differ
    <3>3. Spares(Q, T, y.orderId, g)
      BY <1>1, <2>10, <2>11 DEF Spares, Suits
    <3>5. /\ q <= y.remaining /\ OpenSet(Reduced(T, y, q)) /\ Covers(Reduced(T, y, q), g)
          /\ After(Reduced(T, y, q), g) = After(T, h)
          /\ Suits(Reduced(T, y, q), Q)
          /\ Young(Reduced(T, y, q), n)
      BY <3>1, <3>2, <3>3, <2>3, <2>12, PartWritten
    <3> QED BY <3>1, <3>5
  <2>14. Exchanged(W, ev, U, x, y, q)
    BY <2>1, <2>3, <2>10, <2>12, <2>13 DEF Exchanged, Crossed, q, T
  <2> HIDE DEF U
  <2>15. Linked(U, A, Q, t, n)
    BY <1>12, <2>13
  <2> QED BY <2>14, <2>15 DEF Settles, Q
<1>14. CASE \E o \in W : Withdraws(ev, o)
  <2>1. PICK x \in W : Withdraws(ev, x)
    BY <1>14
  <2> DEFINE q == ev.remaining
  <2>2. q > 0 /\ ev.kind = "OrderCanceled" /\ ev.orderId = x.orderId
    BY <2>1 DEF Withdraws
  <2>3. q \in Nat
    BY <1>1, <2>2 DEF Event
  <2>4. Took(ev, x.orderId) = q /\ \A id : id # x.orderId => Took(ev, id) = 0
    BY <2>2 DEF Took
  <2> HIDE DEF q
  <2> DEFINE T == Reduced(W, x, q)
  <2>5. f[x.orderId] = g[x.orderId] + q /\ \A id \in Nat \ {x.orderId} : g[id] = f[id]
    <3>1. f[x.orderId] = g[x.orderId] + q
      BY <1>3, <1>5, <2>4
    <3>2. ASSUME NEW id \in Nat \ {x.orderId}
          PROVE  g[id] = f[id]
      <4>1. f[id] = g[id] + 0 /\ g[id] \in Nat
        BY <1>3, <2>4
      <4> QED BY <4>1
    <3> QED BY <3>1, <3>2
  <2>6. q > 0 /\ \A e \in Q : Fits(W, e) /\ Took(e, x.orderId) <= g[x.orderId]
    BY <1>1, <1>4, <1>5, <2>2 DEF q
  <2>7. /\ q <= x.remaining /\ OpenSet(T) /\ Covers(T, g) /\ After(T, g) = A
        /\ Suits(T, Q)
        /\ Young(T, n)
    <3>1. OpenSet(W) /\ Covers(W, f) /\ A = After(W, f) /\ Young(W, n)
      BY <1>5
    <3>2. Differ(g, f, x.orderId, q) /\ Spares(Q, W, x.orderId, g)
      BY <1>1, <1>2, <2>5, <2>6 DEF Differ, Spares
    <3>3. /\ q <= x.remaining /\ OpenSet(Reduced(W, x, q)) /\ Covers(Reduced(W, x, q), g)
          /\ After(Reduced(W, x, q), g) = After(W, f)
          /\ Suits(Reduced(W, x, q), Q)
          /\ Young(Reduced(W, x, q), n)
      BY <3>1, <3>2, <2>3, <2>6, PartWritten
    <3> QED BY <3>1, <3>3
  <2>8. Cut(W, ev, T, x)
    BY <2>1, <2>3, <2>6, <2>7 DEF Cut, Withdraws, q
  <2> HIDE DEF T
  <2>9. Linked(T, A, Q, t, n)
    BY <1>12, <2>7
  <2> QED BY <2>8, <2>9 DEF Settles, Q
<1>15. Fits(W, ev)
  BY <1>5
<1> QED BY <1>13, <1>14, <1>15 DEF Fits

(* A user's cancel overtakes the events that are still to come.             *)
LEMMA LinkCancels ==
  ASSUME NEW W, NEW A, NEW P, NEW s \in Seq(Event), NEW n, Linked(W, A, P, s, n),
         NEW ev \in Event, ev \notin P, NEW B, NEW o, Removed(A, ev, B, o),
         NEW t \in Seq(Event), Extends(s, t, ev)
  PROVE  \E T : Settles(s, W, ev, T) /\ Linked(T, B, P, t, n)
<1>1. Linked(W, B, P \cup {ev}, s, n)
  BY LinkQueues
<1>2. ev \in P \cup {ev} /\ (P \cup {ev}) \ {ev} = P
  OBVIOUS
<1> DEFINE Q == P \cup {ev}
<1> HIDE DEF Q
<1>3. \E T : Settles(s, W, ev, T) /\ Linked(T, B, Q \ {ev}, t, n)
  BY <1>1, <1>2, LinkSends DEF Q
<1> QED BY <1>2, <1>3 DEF Q

(* The engine accepts an order with a new id.                              *)
LEMMA LinkAdds ==
  ASSUME NEW W, NEW A, NEW P, NEW s \in Seq(Event), NEW n, Linked(W, A, P, s, n),
         NEW ev \in Event, NEW B, Added(A, ev, B), ev.order.orderId >= n,
         NEW m \in Nat, m > ev.order.orderId,
         NEW t \in Seq(Event), Extends(s, t, ev)
  PROVE  \E T : Settles(s, W, ev, T) /\ Linked(T, B, P, t, m)
<1> DEFINE f == Taken(P)  o == ev.order  T == W \cup {o}
<1>1. /\ o \in Order /\ o.qty > 0 /\ o.remaining = o.qty /\ o.type # "MARKET"
      /\ ev.kind = "OrderAccepted" /\ B = A \cup {o} /\ o.orderId >= n
  BY DEF Added
<1>2. o.orderId \in Nat /\ o.remaining \in Nat
  BY <1>1, OrderTerms
<1>3. /\ OpenSet(W) /\ Covers(W, f) /\ A = After(W, f) /\ n \in Nat /\ Young(W, n)
      /\ P \in SUBSET Event /\ IsFiniteSet(P)
      /\ \A e \in P : e \in Event /\ Fits(W, e)
  BY DEF Linked
<1>4. \A x \in W : x \in Order /\ x.orderId \in Nat /\ x.orderId < n
  BY LinkTerms
<1> HIDE DEF o, f
<1>5. \A x \in W : x.orderId # o.orderId
  BY <1>1, <1>2, <1>3, <1>4
<1>6. f[o.orderId] = 0
  <2>1. ASSUME NEW e \in P
        PROVE  Took(e, o.orderId) = 0
    <3>1. Took(e, o.orderId) \in Nat
      BY <1>3, TookType
    <3>2. Took(e, o.orderId) > 0 => \E x \in W : x.orderId = o.orderId
      BY <1>3, FitsTerms
    <3> QED BY <1>5, <3>1, <3>2
  <2> QED BY <1>2, <1>3, <2>1, TakenBounds DEF f
<1>7. OpenSet(T)
  <2>1. T \in SUBSET Order /\ IsFiniteSet(T)
    BY <1>1, <1>3, FS_AddElement DEF OpenSet
  <2> QED BY <1>1, <1>3, <1>5, <2>1 DEF OpenSet
<1>8. Covers(T, f)
  BY <1>2, <1>3, <1>6 DEF Covers
<1>9. B = After(T, f)
  <2>1. f[o.orderId] # o.remaining /\ Remaining(o, f[o.orderId]) = o
    <3>1. Remaining(o, 0) = o
      BY <1>1, RemainingTwice
    <3> QED BY <1>1, <1>6, <3>1
  <2>2. \A y : y \in After(T, f) <=>
          \E x \in T : f[x.orderId] # x.remaining /\ y = Remaining(x, f[x.orderId])
    BY DEF After
  <2>3. \A y : y \in After(W, f) <=>
          \E x \in W : f[x.orderId] # x.remaining /\ y = Remaining(x, f[x.orderId])
    BY DEF After
  <2>4. \A y : y \in After(T, f) <=> y \in After(W, f) \/ y = o
    BY <2>1, <2>2, <2>3
  <2>5. After(T, f) = After(W, f) \cup {o}
    BY <2>4
  <2> QED BY <1>1, <1>3, <2>5
<1>10. \A e \in P : Fits(T, e)
  BY <1>3 DEF Fits
<1>11. Young(T, m)
  BY <1>1, <1>2, <1>3, <1>4 DEF Young, o
<1>12. Gone(t) = Gone(s)
  BY <1>1, GoneSame
<1>13. Unseen(s, o.orderId)
  BY <1>1, <1>2 DEF Linked
<1>14. \A a \in B : a.orderId \notin Gone(t) \cup Ending(P)
  <2>1. o.orderId \notin Ending(P)
    <3>1. \A e \in P : e.kind = "OrderCanceled" => \E x \in W : x.orderId = e.orderId
      BY <1>3, FitsTerms
    <3> QED BY <1>5, <3>1 DEF Ending
  <2>2. o.orderId \notin Gone(s)
    BY <1>13 DEF Unseen
  <2> QED BY <1>1, <1>12, <2>1, <2>2 DEF Linked
<1>15. \A id \in Nat : id >= m => Unseen(t, id)
  <2> SUFFICES ASSUME NEW id \in Nat, id >= m PROVE Unseen(t, id)
    OBVIOUS
  <2>1. id >= n /\ id # o.orderId
    BY <1>1, <1>2, <1>3 DEF o
  <2>2. id \notin Gone(s) /\ Limits(s, Len(s), id) = {}
    BY <2>1 DEF Linked, Unseen
  <2>3. Limits(t, Len(t), id) = Limits(s, Len(s), id) \cup
          (IF ev.kind = "OrderAccepted" /\ ev.order.orderId = id THEN {ev.order.price} ELSE {})
    BY LimitsGrow
  <2> QED BY <1>12, <2>1, <2>2, <2>3 DEF Unseen, o
<1>16. Added(W, ev, T)
  BY <1>1, <1>5 DEF Added, o
<1> HIDE DEF T
<1>17. Linked(T, B, P, t, m)
  BY <1>3, <1>7, <1>8, <1>9, <1>10, <1>11, <1>14, <1>15 DEF Linked, f
<1> QED BY <1>13, <1>16, <1>17 DEF Settles, o

LEMMA LinkRejects ==
  ASSUME NEW W, NEW A, NEW P, NEW s \in Seq(Event), NEW n, Linked(W, A, P, s, n),
         NEW ev \in Event, ev.kind = "OrderRejected", NEW m \in Nat, m >= n,
         NEW t \in Seq(Event), Extends(s, t, ev)
  PROVE  Settles(s, W, ev, W) /\ Linked(W, A, P, t, m)
<1>1. Gone(t) = Gone(s)
  BY GoneSame
<1>2. \A id : Limits(t, Len(t), id) = Limits(s, Len(s), id)
  BY LimitsSame
<1>3. n \in Nat /\ \A x \in W : x.orderId \in Nat /\ x.orderId < n
  BY LinkTerms DEF Linked
<1>4. Young(W, m)
  BY <1>3 DEF Young
<1>5. \A id \in Nat : id >= m => Unseen(t, id)
  <2> SUFFICES ASSUME NEW id \in Nat, id >= m PROVE Unseen(t, id)
    OBVIOUS
  <2>1. id >= n
    BY <1>3
  <2>2. Unseen(s, id)
    BY <2>1 DEF Linked
  <2> QED BY <1>1, <1>2, <2>2 DEF Unseen
<1> QED BY <1>1, <1>4, <1>5 DEF Linked, Settles

(* Nothing is still to come.                                               *)
LEMMA LinkSettled ==
  ASSUME NEW W, NEW A, NEW s, NEW n, Linked(W, A, {}, s, n)
  PROVE  W = A /\ Listed(A, s) = A
<1> DEFINE f == Taken({})
<1>1. OpenSet(W) /\ A = After(W, f) /\ \A a \in A : a.orderId \notin Gone(s)
  BY DEF Linked
<1>2. \A x \in W : f[x.orderId] = 0 /\ x.remaining # 0 /\ Remaining(x, 0) = x
  <2> SUFFICES ASSUME NEW x \in W
               PROVE  f[x.orderId] = 0 /\ x.remaining # 0 /\ Remaining(x, 0) = x
    OBVIOUS
  <2>1. x \in Order /\ x.remaining > 0
    BY <1>1 DEF OpenSet
  <2>2. x.orderId \in Nat /\ x.remaining \in Nat
    BY <2>1, OrderTerms
  <2>3. Remaining(x, 0) = x
    BY <2>1, RemainingTwice
  <2> QED BY <2>1, <2>2, <2>3, NothingTaken
<1> HIDE DEF f
<1>3. \A y : y \in After(W, f) <=>
        \E x \in W : f[x.orderId] # x.remaining /\ y = Remaining(x, f[x.orderId])
  BY DEF After
<1>4. \A y : y \in After(W, f) <=> y \in W
  BY <1>2, <1>3
<1>5. W = A
  BY <1>1, <1>4
<1>6. Listed(A, s) = A
  BY <1>1 DEF Listed
<1> QED BY <1>5, <1>6

LEMMA LinkNothing ==
  ASSUME NEW n \in Nat
  PROVE  Linked({}, {}, {}, << >>, n)
<1> DEFINE s == << >>
<1>1. OpenSet({})
  BY OwesNothing
<1>2. IsFiniteSet({})
  BY FS_EmptySet
<1>3. Covers({}, Taken({})) /\ {} = After({}, Taken({})) /\ Young({}, n)
  BY DEF Covers, After, Young
<1>4. Len(s) = 0 /\ 1..0 = {}
  OBVIOUS
<1> HIDE DEF s
<1>5. Gone(s) = {} /\ \A id : Limits(s, Len(s), id) = {}
  BY <1>4 DEF Gone, Limits
<1>6. \A id : Unseen(s, id)
  BY <1>5 DEF Unseen
<1>7. Linked({}, {}, {}, s, n)
  BY <1>1, <1>2, <1>3, <1>6 DEF Linked
<1> QED BY <1>7 DEF s
==============================================================================
