CONSTANTS
  n1 = n1  n2 = n2  a1 = a1  a2 = a2  a3 = a3  r1 = r1  r2 = r2  r3 = r3
  o1 = o1  o2 = o2  c1 = c1  c2 = c2  None = None
  Job = {1}
  Node = {n1, n2}
  Attempt = {a1, a2}
  Request = {r1}
  Name = {o1}
  Content = {c1}
  Kind <- OneKind
  Runtime <- OneRuntime
  EnabledKinds <- OneKind
  Grant <- DummyGrant
  JobSpecs <- RetrySpecs
  LeaseSeconds = 2
  RetryGrace = 1
  MaxCores = 1
  MaxWall = 3
  CpuBudget = 6
  MaxJobs = 1
  MaxClaims = 2
  Bytes <- Sizes
  MaxArtifact = 2
  MaxOutput = 2
  MaxTotal = 1
  Gap = 1
  MaxTime = 5
SPECIFICATION Spec
SYMMETRY TwinSymmetry
INVARIANTS TypeOK ActiveIsCurrent RetryAfterGrace SingleReturn
PROPERTIES DecidedIsFinal
