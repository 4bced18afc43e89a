CONSTANTS
  p = p  q = q  b1 = b1  b2 = b2  b3 = b3
  Paper = {p, q}
  Batch = {b1, b2}
  Legacy = Legacy
  Parts = 1
  MaxAttempts = 2
  MaxJobs = 2
  MaxEvents = 3
SPECIFICATION PSpec
INVARIANTS JobsAnswered ServedIsWhole
PROPERTIES ForwardOnly
CHECK_DEADLOCK FALSE
SYMMETRY PublicationSymmetry
