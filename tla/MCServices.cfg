CONSTANTS
  t1 = t1  t2 = t2  t3 = t3  f1 = f1  f2 = f2  u1 = u1  g1 = g1  m1 = m1  w1 = w1  w2 = w2
  Checked = {"releases", "breaker", "quota", "pages", "timeline", "generations", "native"}
  Path = {f1, f2}  Good <- GoodVersions  SizeOf <- Sizes  FailureSize = 1
  Thread = {t1, t2}  MaxEntries = 2  MaxBytes = 4  MaxInflight = 2  MaxWaiters = 1  MaxWrites = 1
  Caller = {c1, c2, c3}  Threshold = 2  Cooldown = 3  MaxAttempts = 5  MaxResets = 1
  Who <- UserAndGuest  Limit <- DailyLimits  Day = 2  MaxRequests = 3  LastTick = 3
  Request = {r1, r2}  Variant = {v1, v2}  Part = {p1, p2}  Filters <- OneList  Route = {"timeline", "materials"}  MaxPages = 1  MaxEpoch = 1
  Material = {m1}  ThePaper = ThePaper  Dated <- SomeDated
  Writer = {w1, w2}  Reader = {q1}  Overlap = 3  MaxTxn = 2  Ahead = 0  Behind = 0
  MaxTime = 4  MaxInvalidations = 1  MaxAborts = 0
  Paper = {a1}  Generation = {x1, x2}  Corpus = {x2}  IdemKey = {k1, k2}  MaxVersion = 1  MaxEvents = 3
  Blob = {b1}  Total = 1  Disk = 3  MinFree = 1  MaxErrors = 0
  MaxAttempt = 2  Elapsed = {1}  MaxFaults = 2
SPECIFICATION AllSpec
INVARIANTS CacheConsistent BreakerConsistent DailyCap SharedScan PagesExact ServedIsLive OneHistory RunRecorded
\* The requests and the clock of the quotas are bounded.
CHECK_DEADLOCK FALSE
