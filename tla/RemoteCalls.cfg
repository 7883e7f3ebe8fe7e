\* two calls of any kind with every fault; caches of one entry
CONSTANTS
  c1 = c1
  c2 = c2
  c3 = c3
  s1 = s1
  s2 = s2
  t1 = t1
  t2 = t2
  NoCall = NoCall
  Calls <- TwoCalls
  Loads <- Pairs
  Services <- TwoServices
  Topics <- TwoTopics
  Default = 1
  Margin = 1
  MaxTimeout = 2
  MaxClients = 1
  MaxPublishers = 1
  Depth = 1
  Faults <- AllFaults
SPECIFICATION FairSpec
INVARIANTS OwnAnswers MarginSuffices
PROPERTY EveryoneReturns
