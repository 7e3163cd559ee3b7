\* Two queries, one connection and one place in the queue per pool; the pool that takes
\* over has a _validate method.
CONSTANTS
  Clients = {q1, q2}
  Items = {c1, c2, c3}
  NoItem = NoItem
  MinItems = 1
  MaxItems = 1
  MaxQueue = 1
  MaxMaking = 2
  Validating = {2}
  LastPool = 2
  Pools <- MCPools
SPECIFICATION FairSpec
INVARIANTS
  ConnectionsAreExclusive
PROPERTIES
  ShutPoolStaysEmpty
  EveryQueryAnswered
