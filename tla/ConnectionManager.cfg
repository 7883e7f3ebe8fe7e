\* one executor thread, Disconnected precedes RoomEos, track callbacks on their
\* own threads; safety, the barrier's specification, and liveness
CONSTANTS
  p1 = p1
  p2 = p2
  events = events
  track1 = track1
  track2 = track2
  shutdown = shutdown
  Pollers <- OnePoller
  EventThread = events
  TrackThreads <- OwnThreads
  Shutdown = shutdown
  RetryInterval = 1
  EosAfterDisconnect = TRUE
SPECIFICATION FairSpec
INVARIANTS NoLostWakeup ConnectedIsUsable HealthyWhenUsable
PROPERTIES JoinsCleanRoom ImplementsGate BarrierSettles RetriesAfterLoss
