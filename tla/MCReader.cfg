CONSTANTS
  k1 = k1  k2 = k2  w1 = w1  w2 = w2  w3 = w3  i1 = i1
  None = None
  Job = {1}
  Attempt = {k1, k2}
  Worker = {w1, w2, w3}
  Reader = {w1, w2}
  Workflow <- ReaderFlows
  Restricted <- ReaderFlows
  Audit = "audit"
  ReaderFlow = "reader"
  WorkflowOf <- ReaderOnly
  IdentityOf <- OneIdentity
  Outcome <- AllOutcomes
  Budgets = {1}
  RetryDelay <- ShortDelay
  LeaseSeconds = 1
  Lag = 0
  MaxTime = 2
  MaxCrashes = 2
  MaxDrifts = 2
SPECIFICATION RFairSpec
INVARIANTS CallAccounted
PROPERTIES ClaimedSettles
CHECK_DEADLOCK FALSE
