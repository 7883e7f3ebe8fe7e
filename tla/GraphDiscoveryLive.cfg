\* liveness: sessions that end and fail to start, a topic whose publishers come
\* and go and a topic that appears at some time
CONSTANTS
  t1 = t1
  t2 = t2
  Topics <- TwoTopics
  Steady <- SecondTopic
  Heard <- Nobody
  Grace = 1
  MaxSessions = 2
  Faults <- EndsAndStartFails
  NoSnapshot = NoSnapshot
SPECIFICATION FairSpec
PROPERTIES ComponentsFollowSession ShutdownEnds DiscoversTopics GracePeriodsEnd
