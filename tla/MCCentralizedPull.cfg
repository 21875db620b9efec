\* Four servers of one slot in two subsets of two, four clients.
CONSTANTS
  LBs = {0, 1}
  Servers = {0, 1, 2, 3}
  Home <- MCHome
  TaskCount <- MCTaskCount
  MaxConcurrency = 1
  ServerCount = 4
  SubsetSize = 2
  ClientCount = 4
  Shuffled <- MCShuffled
SPECIFICATION AuditedSpec
INVARIANTS
  SlotConservation
  NoTaskWaitsWithSlot
  DispatchInArrivalOrder
  AuditAcceptsRun
PROPERTIES
  ServiceSpec
