SPECIFICATION MCSpec
CONSTANTS
  NoValue = NoValue
  Threads = {t1, t2}
  Page = 2
  StoreInTxn = FALSE
  MaxNext = 4
  o1 = o1
  o2 = o2
  LastKey = 3
  Prefixes = {{1, 2}, {2}}
  MaxOps = 4
  Main = Main
  Media = {m1}
  Clients = {c1, c2}
  MaxTxns = 2
  Objects = {o1, o2}
  MainShard = m1
  MediaShard = m2
  KeySize = 2
  MaxValue = 2
  MaxSteps = 5
  Processes = {p1, p2}
  MaxOpens = 3
  Committers = {c1, c2}
  Sizes = {0, 1, 2}
  MinKb = 3
  StepSize = 2
  NKeys = 5
  MaxCommits = 4
  MaxWrites = 3
  m1 = m1
  m2 = m2
  c1 = c1
  c2 = c2
  p1 = p1
  p2 = p2
INVARIANTS SequenceExact WalkExact ChargesExact CommitsKept UpkeepDone LifecycleSafe
PROPERTIES EventuallySynced
CHECK_DEADLOCK FALSE
