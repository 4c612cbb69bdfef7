SPECIFICATION Spec
CONSTANTS
  w1 = w1
  w2 = w2
  NoKey = NoKey
  Watchers = {w1, w2}
  Txns = {1}
  Keys = {2, 4}
  Domains = {"a"}
  Query <- QueriesWatchFind
INVARIANTS TypeOK RegistrationExact NotifiedOnce NoLostNotification WatchFoundFires CloseAbandonsAll
CHECK_DEADLOCK FALSE
