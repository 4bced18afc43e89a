CONSTANTS
  k1 = k1  k2 = k2  k3 = k3  w1 = w1  w2 = w2  i1 = i1
  None = None
  Job = {1, 2, 3}
  Attempt = {k1, k2}
  Worker = {w1, w2}
  Workflow <- AllFlows
  Restricted <- AuditOnly
  Audit = "audit"
  WorkflowOf <- MixedFlows
  IdentityOf <- OneIdentity
  Outcome <- TwoOutcomes
  Budgets = {1, 2}
  RetryDelay <- ShortDelay
  LeaseSeconds = 1
  Lag = 1
  MaxTime = 3
SPECIFICATION QSpec
SYMMETRY QSymmetry
INVARIANTS QueueConsistent
PROPERTIES QueueIsLease
\* Jobs, tokens and the clock are bounded.
CHECK_DEADLOCK FALSE
