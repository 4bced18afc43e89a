CONSTANTS
  s1 = s1
  s2 = s2
  h1 = h1
  h2 = h2
  None = None
  Session <- Sessions
  Hash <- TwoHashes
  Interval = 2
  Offset = 1
  BackoffBase = 1
  BackoffCap = 3
  MaxTime = 5
  MaxFaults = 2
SPECIFICATION BFairSpec
INVARIANTS BTypeOK SuccessInOrder EffectOnce OwnershipKept
PROPERTIES WritesPassGuard CyclesSucceed
