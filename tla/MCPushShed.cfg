\* Work shedding, two slots per server: a service may outlast the threshold.
CONSTANTS
  l1 = l1
  l2 = l2
  s1 = s1
  s2 = s2
  LBs = {l1, l2}
  Servers = {s1, s2}
  Subset <- SharedSubset
  MaxConcurrency = 2
  Durations = {1, 6}
  Overflows = {"shed"}
  DepthThreshold = 0
  DelayThreshold = 3
  Simultaneous = FALSE
  TaskCount = 3
  Horizon = 5
SPECIFICATION Safety
INVARIANTS
  ReleaseAccounting
  TimersMatchQueue
PROPERTIES
  TimerEndsWithTask
  ServiceSafety
