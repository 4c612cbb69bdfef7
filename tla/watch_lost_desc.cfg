SPECIFICATION Spec
CONSTANTS
  w1 = w1
  w2 = w2
  NoKey = NoKey
  Watchers = {w1}
  Txns = {1}
  Keys = {2, 4}
  Domains = {"a"}
  Query <- QueryDesc
CHECK_DEADLOCK FALSE
INVARIANT NoLostNotification
