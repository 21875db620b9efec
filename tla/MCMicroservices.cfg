\* Three requests, two replicas to choose from, one slot each.
CONSTANTS
  Requests = {1, 2, 3}
  Root <- AgainRoot
  Deadline <- MCDeadline
  Services = {"F", "B", "C"}
  ReplicaCount <- TwoOfB
  Endpoints <- AgainEndpoints
  ServiceOf <- AgainServiceOf
  Children <- AgainChildren
  Entries = {"front", "light"}
  SubsetSize = 0
  Shuffled <- MCShuffled
  Configs <- MCConfigs
  MaxConcurrency = 1
  JbsqN = 1
  NoServer = NoServer
  Sink = Sink
SPECIFICATION Safety
INVARIANTS
  OneAtATime
  CapacityRespected
  WorkConserving
  InflightExact
  IntentsMatchCalls
  NothingStranded
