SPECIFICATION MCSpec
CONSTANTS
  s1 = s1
  s2 = s2
  q1 = q1
  q2 = q2
  Senders = {s1, s2}
  Threads = {t1, t2}
  Kinds <- MCKinds
  Calls <- MCCalls
  MaxDeadlockRetries = 2
  MaxStops = 1
  Nil = Nil
  Requests = {q1, q2}
  Expected <- MCExpected
  MaxReplies = 3
  NoRequest = NoRequest
INVARIANTS RepliesExact SubscriptionsEnd RequestsEnd
PROPERTIES Answered
CHECK_DEADLOCK FALSE
