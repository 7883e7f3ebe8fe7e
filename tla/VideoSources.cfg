\* two sources; every fault, at any step
CONSTANTS
  Count = 2
  Configured <- SomeSources
  CaptureFaults <- AllFaults
SPECIFICATION SourcesFairSpec
INVARIANT TracksWithdrawn
PROPERTY EndIsReported
