\* One client, one server, a service longer than --shed-delay.
CONSTANTS
  l1 = l1
  l2 = l2
  s1 = s1
  s2 = s2
  LBs = {l1}
  Servers = {s1}
  Subset <- OneClient
  MaxConcurrency = 1
  Durations = {4}
  Overflows = {"shed"}
  DepthThreshold = 0
  DelayThreshold = 2
  Simultaneous = FALSE
  TaskCount = 2
  Horizon = 4
SPECIFICATION Spec
PROPERTIES
  RunCompletes
