\* The Redis queue with one fault of any kind.
CONSTANTS
  w1 = w1
  w2 = w2
  m1 = m1
  m2 = m2
  Workers = {w1, w2}
  Msgs = {m1, m2}
  NoMsg = NoMsg
  VisibilityTimeout = 4
  KeepAliveInterval = 1
  Delay = 1
  Interval = 1
  MaxTimeout = 1
  Stime <- MCStime
  Expiring = {m1}
  Handles <- MCHandles
  Overlap = FALSE
  MaxPublish = 1
  MaxFaults = 1
SPECIFICATION FairSpec
INVARIANTS
  LeaseHeld
PROPERTIES
  ImplementsJobQueue
  EventuallyRetired
  PollerGoesOn
