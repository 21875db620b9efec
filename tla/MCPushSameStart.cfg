\* Two clients may have arrivals at the same instant.
CONSTANTS
  l1 = l1
  l2 = l2
  s1 = s1
  s2 = s2
  LBs = {l1, l2}
  Servers = {s1}
  Subset <- OneSubset
  MaxConcurrency = 1
  Durations = {2}
  Overflows = {"shed"}
  DepthThreshold = 0
  DelayThreshold = 3
  Simultaneous = TRUE
  TaskCount = 2
  Horizon = 2
SPECIFICATION Spec
PROPERTIES
  TimerEndsWithTask
