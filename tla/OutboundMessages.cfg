\* every pair of publishers; a capped topic, a raw and a JPEG topic, two callbacks
CONSTANTS
  imu = imu
  raw = raw
  jpg = jpg
  buf = buf
  all = all
  bad = bad
  c1 = c1
  c2 = c2
  s1 = s1
  s2 = s2
  s3 = s3
  Topics <- FourTopics
  Patterns <- SomePatterns
  Denotes <- Matched
  BufferTopics <- RmwTopics
  MaxPeriod = 2
  MinDepth = 1
  MaxDepth = 3
  Callbacks <- TwoCallbacks
  ImageTopics <- Pictures
  JpegTopics <- Jpegs
  ImageStates <- ThreeStates
  Scenarios <- Settings
  MaxSamples = 4
  MaxNow = 5
  MaxJumps = 1
  Faults <- AllFaults
SPECIFICATION Spec
SYMMETRY Alike
INVARIANT ConnectsToAll
PROPERTIES RateIsCapped CapNeverStalls
