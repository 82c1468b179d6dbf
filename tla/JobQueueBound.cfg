SPECIFICATION Spec
CONSTANTS
  j1 = j1  j2 = j2  w1 = w1  w2 = w2
  AppKeys = {j1}
  Buckets = {}
  Workers = {w1, w2}
  NoWorker = NoWorker
  MaxAttempts = 2
  Concurrency = 1
  MaxGen = 0
  MaxStalls = 0
  MaxDbErrors = 0
INVARIANT NotRetriedAFurtherTime
