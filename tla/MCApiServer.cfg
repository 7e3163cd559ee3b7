SPECIFICATION FairSpec
CONSTANTS
  Connections = {1, 2}
  MaxRequestQueue = 1
  ExitOnError = {TRUE, FALSE}
  MaxWait = 1
  ShutdownTimeout = 2
  MaxArrivals = 4
  Faults = 2
INVARIANT QueueIsExact
PROPERTIES EveryRequestAnswered GracefulExit
CHECK_DEADLOCK FALSE
