\* Idempotency keys spent by a pre-check are not replayed.
SPECIFICATION ReplaySpec
CONSTANTS
  u1 = u1
  u2 = u2
  Users = {u1, u2}
  c1 = c1
  c2 = c2
  ClientOrderIds = {c1, c2}
  Symbols = {"BTC-USDC"}
  Types = {"LIMIT", "MARKET", "IOC", "FOK", "POST_ONLY"}
  Prices = {1, 2}
  Quantities = {1, 2}
  MaxOrders = 3
  MaxSeq = 3
  NoOrder = NoOrder
SYMMETRY Symmetry
INVARIANT DedupSurvivesReplay
