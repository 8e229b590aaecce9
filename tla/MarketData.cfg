SPECIFICATION FairMDSpec
CONSTANTS
  Users = {u1}
  ClientOrderIds = {c1}
  NoOrder = NoOrder
  Page = 2
  Logged = 2
  NoBar = NoBar
  NoData = NoData
  TapeCapacity = 1
  HistoryCapacity = 2
  TickerWindow = 1
  TradeLimit = 2
  CandleLimit = 3
  LogLimit = 2
  Spans <- IntervalsOneTwo
  Scripts <- Market
  SnapshotLevels = 3
  MaxTime = 1
  MaxSnapshots = 1
  MaxFaults = 1
CHECK_DEADLOCK FALSE
INVARIANTS MDTypeOK FeedFollowsBook TickerIsCurrent CandlesCountTrades
PROPERTIES CatchesUp Delivers
