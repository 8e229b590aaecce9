\* Two connections of a browser, another client, a bootstrap and a fault.
SPECIFICATION FairFeedSpec
CONSTANTS
  Users = {u1}
  ClientOrderIds = {c1}
  NoOrder = NoOrder
  NoData = NoData
  Spans = {1}
  TradeLimit = 2
  CandleLimit = 2
  LogLimit = 2
  Sockets = {s1, s2}
  Other = other
  Clients = {s1, s2, other}
  NoSocket = NoSocket
  Channels <- FeedChannels
  Deltas <- OneLevel
  MaxDeltas = 2
  MaxFaults = 1
  MaxMessages = 2
  MaxQueued = 1
INVARIANTS FeedTypeOK SubsAgree UpstreamAgrees ScreenFollowsFeed
PROPERTY Converges
