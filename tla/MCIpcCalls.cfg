\* Three increments, from two workers and from the master, with a get that stores an
\* initial value, and a put among them.
CONSTANTS
  w1 = w1
  w2 = w2
  a1 = a1
  a2 = a2
  b1 = b1
  b2 = b2
  s1 = s1
  Workers = {w1, w2}
  Server = Server
  Calls <- MCCalls
  Caller <- MCCaller
  Op <- MCOp
  Initial = 5
  Stored = 3
  NoValue = NoValue
  NotYet = NotYet
SPECIFICATION FairSpec
INVARIANTS
  TableMatchesTimers
PROPERTIES
  ImplementsSharedCache
  EveryCallAnswered
CHECK_DEADLOCK FALSE
