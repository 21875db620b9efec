\* Every policy, one replica of each microservice, jbsq may hold two calls.
CONSTANTS
  Requests = {1, 2}
  Root <- MCRoot
  Deadline <- MCDeadline
  Services = {"F", "B", "C"}
  ReplicaCount <- OneOfEach
  Endpoints <- MCEndpoints
  ServiceOf <- MCServiceOf
  Children <- MCChildren
  Entries = {"front"}
  SubsetSize = 0
  Shuffled <- MCShuffled
  Configs <- MCAllConfigs
  MaxConcurrency = 1
  JbsqN = 2
  NoServer = NoServer
  Sink = Sink
SPECIFICATION AuditedSpec
INVARIANTS
  PullsAccounted
  AuditsFollowRun
PROPERTIES
  RequestsComplete
