\* Two replicas of one slot, alone or sharing a sidecar; calls of two clients,
\* one with a child call, and an ingress task more urgent than its return.
CONSTANTS
  a = a
  b = b
  Clients = {a, b}
  Calls = {1, 2, 3}
  Ingress = {4}
  Nested = {3}
  ClientOf <- MCClientOf
  Deadline <- MCDeadline
  ReplicaCount = 2
  Shares = {1, 2}
  Scheds = {"bound", "edf+"}
  Schedulings = {"edf"}
  MaxConcurrency = 1
SPECIFICATION Spec
INVARIANTS
  PendingPullsExact
  PulledWithinSlots
  OccupancyCurrent
  LoadsExact
  NothingStranded
