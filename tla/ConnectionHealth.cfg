\* three connections, three requests, two candidate pairs
CONSTANTS
  cp1 = cp1
  cp2 = cp2
  Pairs <- TwoPairs
  Answers <- SomeAnswers
  MaxGains = 3
  MaxRequests = 3
  MaxMembers = 1
SPECIFICATION Spec
INVARIANT ReportsTheRoom
