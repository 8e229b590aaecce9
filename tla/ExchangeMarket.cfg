\* MARKET orders: the rebuilt ledger against the live one.
SPECIFICATION ExchangeSpec
CONSTANTS
  u1 = u1
  u2 = u2
  Users = {u1, u2}
  c1 = c1
  c2 = c2
  ClientOrderIds = {c1, c2}
  g1 = g1
  g2 = g2
  Requests = {g1}
  NoRequest = NoRequest
  House = House
  Symbols = {"BTC-USDC"}
  Types = {"LIMIT", "MARKET"}
  Prices = {1, 3}
  Quantities = {1, 2}
  MaxOrders = 2
  MaxSeq = 4
  MaxFaults = 0
  BtcOne = 2
  FeeNum = 1
  FeeDen = 2
  InitialBTC = 2
  InitialUSDC = 4
  NoOrder = NoOrder
VIEW View
SYMMETRY Symmetry
INVARIANT RebuiltFromStream
