SPECIFICATION FairSpec
CONSTANTS
  w1 = w1
  w2 = w2
  NoKey = NoKey
  Watchers = {w1}
  Txns = {1, 2}
  Keys = {2, 4}
  Domains = {"a"}
  Query <- QueryRanges
CHECK_DEADLOCK FALSE
PROPERTY EventuallyNotified
