\* Two slots per server; a run has bound pulls or unbound ones.
CONSTANTS
  l1 = l1
  l2 = l2
  s1 = s1
  s2 = s2
  LBs = {l1, l2}
  Servers = {s1, s2}
  Subset <- MCSubset
  TaskCount <- MCTaskCount
  MaxConcurrency = 2
SPECIFICATION AuditedSpec
INVARIANTS
  TypeOK
  CapacityRespected
  NoPullAbort
  IntentsMatchQueue
  PullIntentLoadExact
  InFlightAccounting
  TasksWaitOnlyForBusyServers
  AuditFollowsRun
PROPERTIES
  ServiceSpec
