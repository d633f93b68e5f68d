SPECIFICATION FairSpec
CONSTANTS
  j1 = j1
  s1 = s1
  s2 = s2
  Slots = {s1, s2}
  NoOwner = NoOwner
  NoJob = NoJob
  Jobs = {j1}
  Rank <- MCRank
  MaxAttempts = 2
  LeaseTicks = 2
  Skew = 1
  BaseDelay = 1
  MaxDelay = 2
  MaxActivations = 2
INVARIANTS InductiveInvariant
PROPERTIES LiveLeaseEndsByHolder ImplementsLifecycle AcceptedWorkSettles
