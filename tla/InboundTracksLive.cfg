\* liveness: a video track that comes and goes, over two sessions
CONSTANTS
  d1 = d1
  v1 = v1
  Data <- NoTracks
  Video <- OneVideo
  Deliveries = 1
  MaxQueue = 2
  MaxSessions = 2
  DemandTimers <- OneTimer
  Faults <- LiveFaults
SPECIFICATION FairSpec
PROPERTIES HandlersReturn DemandIsFollowed GoneAreNotRead
