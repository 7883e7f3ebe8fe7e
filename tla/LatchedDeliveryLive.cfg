\* liveness, and the order of messages from one callback: a fair schedule, one
\* callback thread, distinct messages, an eviction, no outage
CONSTANTS
  c1 = c1
  c2 = c2
  p1 = p1
  p2 = p2
  a = a
  b = b
  d = d
  big = big
  NoMessage = NoMessage
  Callbacks <- OneCallback
  Peers <- OnePeer
  Messages <- SmallMessages
  Oversize <- NoneOversize
  MaxStored = 2
  MaxFailures = 2
  MaxTaken = 3
  Repeats = FALSE
  QuickRejoin = FALSE
  Outages = FALSE
SPECIFICATION FairSpec
INVARIANT LatestReachesPeers
PROPERTIES PushesSettle DestroyReturns
