SPECIFICATION LimitSpec
CONSTANTS
  Callers = {a, b}
  Patient = {a}
  a = a
  b = b
  None = None
  Rate = 1
  Max = 2
  Interval = 4
  Timeout = 1
  Remotes = {TRUE, FALSE}
  Precision = 3
  Residues = {3}
  MaxClock = 7
  MaxRequests = 6
  MaxDisturbances = 1
INVARIANT RetrySucceeds
PROPERTY ImplementsBucket
CHECK_DEADLOCK FALSE
