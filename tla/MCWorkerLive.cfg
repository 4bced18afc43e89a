CONSTANTS
  n1 = n1  n2 = n2  a1 = a1  a2 = a2  r1 = r1  r2 = r2  o1 = o1  c1 = c1  c2 = c2  c3 = c3
  None = None
  Job = {1}
  Node = {n1}
  Attempt = {a1}
  Request = {r1}
  Name = {o1}
  Content = {c1, c2, c3}
  Kind <- OneKind
  Runtime <- OneRuntime
  EnabledKinds <- OneKind
  Grant <- DummyGrant
  JobSpecs <- LimitedSpecs
  LeaseSeconds = 1
  RetryGrace = 1
  MaxCores = 1
  MaxWall = 2
  CpuBudget = 4
  MaxJobs = 1
  MaxClaims = 2
  Bytes <- Sizes
  MaxArtifact = 2
  MaxOutput = 2
  MaxTotal = 3
  Gap = 0
  MaxTime = 4
  MaxFaults = 1
SPECIFICATION WFairSpec
PROPERTIES ClaimsAreClosed
