SPECIFICATION Spec
CONSTANTS
  Threads = {t1, t2}
  Ids = {a}
  Keys = {k1, k2}
  OpKinds = {"put", "del"}
  Writers <- AllThreads
  Serial = FALSE
  Profiled = FALSE
  MaxOps = 1
  MaxRev = 3
  MaxRetries = 2
  Unwritten = Unwritten
PROPERTY CompareAndSwap
