\* The ledger dies while a request is under way.
SPECIFICATION ExchangeSpec
CONSTANTS
  u1 = u1
  u2 = u2
  Users = {u1, u2}
  c1 = c1
  c2 = c2
  ClientOrderIds = {c1, c2}
  g1 = g1
  g2 = g2
  Requests = {g1}
  NoRequest = NoRequest
  House = House
  Symbols = {"BTC-USDC"}
  Types = {"LIMIT"}
  Prices = {2, 4}
  Quantities = {1, 2}
  MaxOrders = 2
  MaxSeq = 4
  MaxFaults = 1
  BtcOne = 3
  FeeNum = 1
  FeeDen = 2
  InitialBTC = 2
  InitialUSDC = 2
  NoOrder = NoOrder
VIEW View
SYMMETRY Symmetry
INVARIANT RestartIsRebuild
