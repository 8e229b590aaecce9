\* All order types but IOC, of two users, with the two consumers that follow the events.
SPECIFICATION ReplaySpec
CONSTANTS
  u1 = u1
  u2 = u2
  Users = {u1, u2}
  c1 = c1
  c2 = c2
  ClientOrderIds = {c1, c2}
  Symbols = {"BTC-USDC"}
  Types = {"LIMIT", "MARKET", "FOK", "POST_ONLY"}
  Prices = {0, 1, 2}
  Quantities = {1, 2}
  MaxOrders = 3
  MaxSeq = 4
  NoOrder = NoOrder
SYMMETRY Symmetry
INVARIANTS TypeOK PriceTimePriority QtyAccounted FOKPromiseKept ReplayAgrees L2Agrees
  BookConsistent TotalsConsistent BookUncrossed TimePriority
