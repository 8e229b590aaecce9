\* One request at a time, with a restart at any moment.
SPECIFICATION ServerSpec
CONSTANTS
  u1 = u1
  u2 = u2
  Users = {u1, u2}
  c1 = c1
  c2 = c2
  ClientOrderIds = {c1, c2}
  h1 = h1
  h2 = h2
  Handlers = {h1}
  NoHandler = NoHandler
  Symbols = {"BTC-USDC"}
  Types = {"LIMIT", "IOC"}
  Prices = {1}
  Quantities = {1, 2}
  MaxOrders = 3
  MaxSeq = 4
  MaxCrashes = 1
  MaxResets = 0
  MaxFailures = 0
  NoOrder = NoOrder
SYMMETRY Symmetry
INVARIANTS ServerTypeOK RecoveryExact StreamInSeqOrder
