SPECIFICATION MDSpec
CONSTANTS
  Users = {u1}
  ClientOrderIds = {c1}
  NoOrder = NoOrder
  Page = 2
  Logged = 2
  NoBar = NoBar
  NoData = NoData
  TapeCapacity = 1
  HistoryCapacity = 2
  TickerWindow = 1
  TradeLimit = 2
  CandleLimit = 3
  LogLimit = 2
  Spans <- IntervalsOneTwo
  Scripts <- Market
  SnapshotLevels = 3
  MaxTime = 2
  MaxSnapshots = 0
  MaxFaults = 0
CHECK_DEADLOCK FALSE
INVARIANT ChartInOrder
