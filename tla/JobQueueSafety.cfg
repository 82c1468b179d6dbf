SPECIFICATION Spec
CONSTANTS
  j1 = j1  j2 = j2  w1 = w1  w2 = w2
  AppKeys = {j1}
  Buckets = {}
  Workers = {w1, w2}
  NoWorker = NoWorker
  MaxAttempts = 2
  Concurrency = 2
  MaxGen = 1
  MaxStalls = 1
  MaxDbErrors = 1
SYMMETRY Symmetry
INVARIANTS TypeOK NoOverlap AttemptsDistinct
PROPERTIES ExactlyOnceWhenFaultless LeaseRespected PromiseKept
