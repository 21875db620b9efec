\* The rates of prequal.rs; five servers, two candidates per pool.
CONSTANTS
  l1 = l1
  l2 = l2
  LBs = {l1, l2}
  Servers = {s1, s2, s3, s4, s5}
  RequestCount <- MCRequestCount
  BurstCount <- MCBurstCount
  R_PROBE = 15
  B_REUSE = 1
  R_REMOVE = 3
SYMMETRY Symmetry
SPECIFICATION Spec
INVARIANTS
  PoolSound
  CandidateCountsOwnTasks
  RemovalDebtPaid
