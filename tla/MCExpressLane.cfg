\* The four eviction policies, one client server and one express server.
CONSTANTS
  l1 = l1
  l2 = l2
  s1 = s1
  x1 = x1
  xlb = xlb
  LBs = {l1, l2}
  Servers = {s1}
  Subset <- SharedServer
  MaxConcurrency = 1
  Durations = {1, 4}
  Overflows = {"depth", "monitored", "ideal", "combined"}
  DepthThreshold = 1
  DelayThreshold = 2
  Simultaneous = FALSE
  TaskCount = 2
  Horizon = 3
  ExpressServers = {x1}
  Express = xlb
SPECIFICATION ExpressSpec
INVARIANTS
  ReleaseAccounting
  EvictedOnce
  DepthBounded
PROPERTIES
  PoolSafety
  RunCompletes
