\* safety: every fault, two sessions
CONSTANTS
  t1 = t1
  t2 = t2
  Topics <- TwoTopics
  Heard <- Nobody
  Steady <- Nobody
  Grace = 1
  MaxSessions = 2
  Faults <- AllFaults
  NoSnapshot = NoSnapshot
SPECIFICATION Spec
INVARIANTS SleepsOnFreshSnapshot ShutdownIsFinal OldComponentsAreDoomed
