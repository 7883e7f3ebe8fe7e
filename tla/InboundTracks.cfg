\* safety: every fault
CONSTANTS
  d1 = d1
  v1 = v1
  Data <- OneData
  Video <- OneVideo
  Deliveries = 2
  MaxQueue = 2
  MaxSessions = 2
  DemandTimers <- NoTimers
  Faults <- AllFaults
SPECIFICATION Spec
INVARIANTS OneReaderPerTrack ReadersWithinForwarder NoEchoWhileRegistered
