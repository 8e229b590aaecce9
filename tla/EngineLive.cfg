\* Two requests in flight, a reset and a failing append.
SPECIFICATION FairServerSpec
CONSTANTS
  u1 = u1
  u2 = u2
  Users = {u1, u2}
  c1 = c1
  c2 = c2
  ClientOrderIds = {c1}
  h1 = h1
  h2 = h2
  Handlers = {h1, h2}
  NoHandler = NoHandler
  Symbols = {"BTC-USDC"}
  Types = {"LIMIT", "IOC"}
  Prices = {1}
  Quantities = {1, 2}
  MaxOrders = 2
  MaxSeq = 4
  MaxCrashes = 0
  MaxResets = 1
  MaxFailures = 1
  NoOrder = NoOrder
INVARIANTS CallsInOrder CallsLoggedWhole
PROPERTIES RequestsAnswered ResetsFinish
