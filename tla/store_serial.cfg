SPECIFICATION Spec
CONSTANTS
  Threads = {t1, t2}
  Ids = {a, b}
  Keys = {k1, k2}
  OpKinds = {"put", "merge", "mergeExisting", "del", "purge"}
  Writers <- AllThreads
  Serial = TRUE
  Profiled = FALSE
  MaxOps = 2
  MaxRev = 3
  MaxRetries = 2
  Unwritten = Unwritten
INVARIANTS TypeOK IndexMatchesObjects NeverInconsistent
PROPERTIES Serializable NoLostUpdate
SYMMETRY Alike
