\* centralized, two requests: what a DownstreamBalancer counts at the end.
CONSTANTS
  Requests = {1, 2}
  Root <- MCRoot
  Deadline <- MCDeadline
  Services = {"F", "B", "C"}
  ReplicaCount <- OneOfEach
  Endpoints <- MCEndpoints
  ServiceOf <- MCServiceOf
  Children <- MCChildren
  Entries = {"front"}
  SubsetSize = 0
  Shuffled <- MCShuffled
  Configs <- MCCentralized
  MaxConcurrency = 1
  JbsqN = 2
  NoServer = NoServer
  Sink = Sink
SPECIFICATION Safety
INVARIANTS
  InflightReleased
