\* A failure in the middle of an append loop.
SPECIFICATION ServerSpec
CONSTANTS
  u1 = u1
  u2 = u2
  Users = {u1, u2}
  c1 = c1
  c2 = c2
  ClientOrderIds = {c1, c2}
  h1 = h1
  h2 = h2
  Handlers = {h1}
  NoHandler = NoHandler
  Symbols = {"BTC-USDC"}
  Types = {"LIMIT"}
  Prices = {1}
  Quantities = {1, 2}
  MaxOrders = 2
  MaxSeq = 3
  MaxCrashes = 0
  MaxResets = 0
  MaxFailures = 1
  NoOrder = NoOrder
SYMMETRY Symmetry
INVARIANT RetrySafe
