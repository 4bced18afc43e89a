CONSTANTS
  t1 = t1  t2 = t2  t3 = t3  f1 = f1  f2 = f2  u1 = u1  g1 = g1  m1 = m1  w1 = w1  w2 = w2
  Checked = {"timeline", "generations", "blobs", "native", "native_lease"}
  Path = {f1}  Good <- GoodVersions  SizeOf <- Sizes  FailureSize = 1
  Thread = {t1, t2, t3}  MaxEntries = 2  MaxBytes = 3  MaxInflight = 1  MaxWaiters = 1  MaxWrites = 1
  Caller = {c1, c2}  Threshold = 2  Cooldown = 2  MaxAttempts = 2  MaxResets = 1
  Who <- UserAndGuest  Limit <- DailyLimits  Day = 1  MaxRequests = 0  LastTick = 0
  Request = {r1}  Variant = {v1}  Part = {p1}  Filters <- OneList  Route = {"timeline"}  MaxPages = 1  MaxEpoch = 0
  Material = {m1}  ThePaper = ThePaper  Dated <- SomeDated
  Writer = {w1, w2}  Reader = {}  Overlap = 3  MaxTxn = 1  Ahead = 1  Behind = 1
  MaxTime = 4  MaxInvalidations = 1  MaxAborts = 1
  Paper = {a1, a2}  Generation = {x1, x2}  Corpus = {x2}  IdemKey = {k1}  MaxVersion = 1  MaxEvents = 1
  Blob = {b1, b2}  Total = 2  Disk = 7  MinFree = 1  MaxErrors = 4
  MaxAttempt = 1  Elapsed = {1, 2}  MaxFaults = 3
SPECIFICATION AllFairSpec
INVARIANTS NothingMissed ObjectsKept
PROPERTIES ActivatesCurrent UploadsLand ClaimsClose EndsWithLease
