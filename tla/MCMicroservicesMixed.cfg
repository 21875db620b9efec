\* amphiqueue, the second request enters at a microservice that is also called.
CONSTANTS
  Requests = {1, 2}
  Root <- MixedRoot
  Deadline <- MCDeadline
  Services = {"F", "B", "C"}
  ReplicaCount <- OneOfEach
  Endpoints <- MCEndpoints
  ServiceOf <- MCServiceOf
  Children <- MCChildren
  Entries = {"front", "deep"}
  SubsetSize = 0
  Shuffled <- MCShuffled
  Configs <- MCAmphiQueue
  MaxConcurrency = 1
  JbsqN = 2
  NoServer = NoServer
  Sink = Sink
SPECIFICATION Safety
INVARIANTS
  IntentsDrained
