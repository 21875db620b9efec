------------------------------- MODULE Prequal -------------------------------
(***************************************************************************)
(* The probe pool of --lb-policy prequal (src/src/prequal.rs), between the *)
(* balancers that dispatch by it and the servers they probe.  A balancer   *)
(* is a LoadBalancer of `lb`, or the tables of a ReplicaBalancer of `ms`   *)
(* for one downstream target; the two run the same code.                   *)
(*                                                                         *)
(* Every model has one FIFO mailbox.  What a server does with a task is    *)
(* reduced to what a probe reads of it: its RIF (queue.len + in_flight),   *)
(* the number of tasks it holds.  Rates are in tenths.                     *)
(***************************************************************************)
EXTENDS Naturals, Sequences, SequencesExt, FiniteSets

CONSTANTS
  LBs, Servers,
  RequestCount,  \* RequestCount[l]: requests that reach l; the bound of a run
  BurstCount,    \* the same of a run whose requests may come at once
  R_PROBE,       \* tenths of a probe issued per request
  B_REUSE,       \* selections after which a candidate leaves the pool
  R_REMOVE       \* tenths of a removal per request

ASSUME PrequalAssumption ==
  /\ IsFiniteSet(LBs) /\ IsFiniteSet(Servers) /\ Servers # {}
  /\ RequestCount \in [LBs -> Nat] /\ BurstCount \in [LBs -> Nat]
  /\ R_PROBE \in Nat /\ R_REMOVE \in Nat /\ B_REUSE \in Nat \ {0}

VARIABLES
  at_once,         \* whether requests may reach a balancer before replies settle
  requests,        \* requests[l]: requests l has handled
  candidate_pool,  \* candidate_pool[l]: candidates, oldest first
  r_remove_accum,  \* r_remove_accum[l]: removals owed, in tenths
  r_probe_accum,   \* r_probe_accum[l]: probes owed, in tenths
  held,            \* held[s][l]: tasks of l that s holds, queued or in service
  server_mail,     \* server_mail[s]: tasks and probes on the way to s
  lb_mail          \* lb_mail[l]: probe replies on the way to l
vars == <<at_once, requests, candidate_pool, r_remove_accum, r_probe_accum, held,
          server_mail, lb_mail>>

-----------------------------------------------------------------------------
(* CandidatePool *)

Candidate == [server : Servers, rif : Nat, uses : Nat]

(* pool_cap: a quarter of the servers, rounded up, and at least one *)
PoolCap == LET quarter == (Cardinality(Servers) + 3) \div 4
           IN IF quarter = 0 THEN 1 ELSE quarter

Pooled(pool) == {pool[i].server : i \in DOMAIN pool}
PositionsOf(pool, s) == {i \in DOMAIN pool : pool[i].server = s}

(* remove_worst: the highest RIF, the oldest of equals *)
RemoveWorst(pool) ==
  LET worst == CHOOSE i \in DOMAIN pool : \A j \in DOMAIN pool :
                 pool[j].rif < pool[i].rif \/ (pool[j].rif = pool[i].rif /\ i <= j)
  IN RemoveAt(pool, worst)

(* select_best: the least RIF, the oldest of equals *)
SelectBest(pool) ==
  LET best == CHOOSE i \in DOMAIN pool : \A j \in DOMAIN pool :
                pool[j].rif > pool[i].rif \/ (pool[j].rif = pool[i].rif /\ i <= j)
  IN pool[best].server

(* Seeded bug: a candidate is kept once more than B_REUSE allows. *)
AfterDispatchKeeps(pool, s) == pool

(* after_dispatch: one use more, and out of the pool at the last *)
AfterDispatch(pool, s) ==
  IF s \notin Pooled(pool) THEN pool
  ELSE LET i == CHOOSE j \in PositionsOf(pool, s) : TRUE
           used == [pool[i] EXCEPT !.rif = @ + 1, !.uses = @ + 1]
       IN IF used.uses >= B_REUSE THEN RemoveAt(pool, i)
          ELSE [pool EXCEPT ![i] = used]

(* Seeded bugs: a refresh that leaves the old entry; an eviction too late. *)
IngestReplyTwice(pool, s, rif) ==
  LET room == IF Len(pool) >= PoolCap THEN Tail(pool) ELSE pool
  IN Append(room, [server |-> s, rif |-> rif, uses |-> 0])

(* ingest_reply: refresh or insert as the newest, evicting the oldest at capacity *)
IngestReply(pool, s, rif) ==
  LET old  == CHOOSE i \in PositionsOf(pool, s) : TRUE
      room == IF s \in Pooled(pool) THEN RemoveAt(pool, old)
              ELSE IF Len(pool) >= PoolCap THEN Tail(pool) ELSE pool
  IN Append(room, [server |-> s, rif |-> rif, uses |-> 0])

(* Seeded bug: the debt is not reduced by what is removed. *)
RemovalsDueUnpaid(pool, debt) ==
  [removed |-> IF debt \div 10 <= Len(pool) THEN debt \div 10 ELSE Len(pool), debt |-> debt]

(* apply_r_remove: how many are removed now, and what stays owed *)
RemovalsDue(pool, debt) ==
  LET n == IF debt \div 10 <= Len(pool) THEN debt \div 10 ELSE Len(pool)
  IN [removed |-> n, debt |-> debt - 10 * n]

(* sample_probe_targets: any n of the servers outside the pool *)
ProbeTargets(pool, n) ==
  LET unknown == Servers \ Pooled(pool)
      take == IF n <= Cardinality(unknown) THEN n ELSE Cardinality(unknown)
  IN {T \in SUBSET unknown : Cardinality(T) = take}

-----------------------------------------------------------------------------
Init ==
  /\ at_once \in BOOLEAN
  /\ requests = [l \in LBs |-> 0]
  /\ candidate_pool = [l \in LBs |-> <<>>]
  /\ r_remove_accum = [l \in LBs |-> 0]
  /\ r_probe_accum = [l \in LBs |-> 0]
  /\ held = [s \in Servers |-> [l \in LBs |-> 0]]
  /\ server_mail = [s \in Servers |-> <<>>]
  /\ lb_mail = [l \in LBs |-> <<>>]

Quiet == /\ \A s \in Servers : server_mail[s] = <<>>
         /\ \A l \in LBs : lb_mail[l] = <<>>

TaskOf(l)  == [type |-> "task", lb |-> l]
ProbeOf(l) == [type |-> "probe", lb |-> l]

(* The mail of the servers after l has sent its task to s and then its probes. *)
Sent(l, s, targets) ==
  [r \in Servers |->
     server_mail[r] \o (IF r = s THEN <<TaskOf(l)>> ELSE <<>>)
                    \o (IF r \in targets THEN <<ProbeOf(l)>> ELSE <<>>)]

Expected == IF at_once THEN BurstCount ELSE RequestCount

(***************************************************************************)
(* dispatch_prequal with issue_probes: pay the removals owed, take the     *)
(* best candidate or any server, update the pool, then probe.              *)
(***************************************************************************)
DispatchPrequal(l) ==
  LET due == RemovalsDue(candidate_pool[l], r_remove_accum[l] + R_REMOVE)
      pool == FoldLeft(LAMBDA p, k : RemoveWorst(p), candidate_pool[l],
                       [k \in 1 .. due.removed |-> k])
      probes == r_probe_accum[l] + R_PROBE
  IN
  /\ requests[l] < Expected[l]
  /\ at_once \/ Quiet
  /\ requests' = [requests EXCEPT ![l] = @ + 1]
  /\ r_remove_accum' = [r_remove_accum EXCEPT ![l] = due.debt]
  /\ r_probe_accum' = [r_probe_accum EXCEPT ![l] = probes % 10]
  /\ \E s \in IF pool = <<>> THEN Servers ELSE {SelectBest(pool)} :
       LET left == AfterDispatch(pool, s) IN
       /\ candidate_pool' = [candidate_pool EXCEPT ![l] = left]
       /\ \E targets \in ProbeTargets(left, probes \div 10) :
            server_mail' = Sent(l, s, targets)
  /\ UNCHANGED <<at_once, held, lb_mail>>

(* LoadBalancer::probe_reply *)
ProbeReply(l) ==
  /\ lb_mail[l] # <<>>
  /\ LET reply == Head(lb_mail[l]) IN
       candidate_pool' =
         [candidate_pool EXCEPT ![l] = IngestReply(@, reply.server, reply.rif)]
  /\ lb_mail' = [lb_mail EXCEPT ![l] = Tail(@)]
  /\ UNCHANGED <<at_once, requests, r_remove_accum, r_probe_accum, held, server_mail>>

Receives(s, type) == server_mail[s] # <<>> /\ Head(server_mail[s]).type = type

(* Server::input, which queues the task or begins its service *)
ServerInput(s) ==
  /\ Receives(s, "task")
  /\ held' = [held EXCEPT ![s][Head(server_mail[s]).lb] = @ + 1]
  /\ server_mail' = [server_mail EXCEPT ![s] = Tail(@)]
  /\ UNCHANGED <<at_once, requests, candidate_pool, r_remove_accum, r_probe_accum, lb_mail>>

Rif(s) == Cardinality(UNION {{l} \X (1 .. held[s][l]) : l \in LBs})

(* Server::probe, Replica::probe *)
Probe(s) ==
  /\ Receives(s, "probe")
  /\ LET l == Head(server_mail[s]).lb IN
       lb_mail' = [lb_mail EXCEPT ![l] = Append(@, [server |-> s, rif |-> Rif(s)])]
  /\ server_mail' = [server_mail EXCEPT ![s] = Tail(@)]
  /\ UNCHANGED <<at_once, requests, candidate_pool, r_remove_accum, r_probe_accum, held>>

(* Server::complete, which takes a task out of the RIF *)
Complete(s, l) ==
  /\ held[s][l] > 0
  /\ held' = [held EXCEPT ![s][l] = @ - 1]
  /\ UNCHANGED <<at_once, requests, candidate_pool, r_remove_accum, r_probe_accum,
                 server_mail, lb_mail>>

Finished ==
  /\ requests = Expected
  /\ Quiet
  /\ \A s \in Servers : Rif(s) = 0
  /\ UNCHANGED vars

Next ==
  \/ \E l \in LBs : DispatchPrequal(l) \/ ProbeReply(l)
  \/ \E s \in Servers : \/ ServerInput(s) \/ Probe(s)
                        \/ \E l \in LBs : Complete(s, l)
  \/ Finished

Spec == Init /\ [][Next]_vars

-----------------------------------------------------------------------------
(***************************************************************************)
(* However replies to the probes of several requests overtake later        *)
(* dispatches, the pool keeps within its capacity and holds a server once, *)
(* and none of its candidates has been used up.                            *)
(***************************************************************************)
PoolSound ==
  \A l \in LBs :
    LET pool == candidate_pool[l] IN
    /\ Len(pool) <= PoolCap
    /\ Cardinality(Pooled(pool)) = Len(pool)
    /\ \A i \in DOMAIN pool : pool[i].uses < B_REUSE

OnTheWay(l, s) ==
  Cardinality({i \in DOMAIN server_mail[s] : server_mail[s][i] = TaskOf(l)})

(***************************************************************************)
(* A balancer is not blind to its own tasks: when requests come one at a   *)
(* time, the RIF it remembers of a candidate counts at least the tasks it  *)
(* has itself sent there and that are not done.  (Two requests of one      *)
(* instant break it: a probe answered before the second task arrives       *)
(* brings the server back with the RIF of the first.)                      *)
(***************************************************************************)
CandidateCountsOwnTasks ==
  ~at_once =>
    \A l \in LBs : \A i \in DOMAIN candidate_pool[l] :
      LET c == candidate_pool[l][i]
      IN c.rif >= held[c.server][l] + OnTheWay(l, c.server)

(***************************************************************************)
(* What r_remove owes is paid in full by every request that finds          *)
(* candidates, so requests that come one at a time never owe a whole       *)
(* removal: a spell with an empty pool is not made up for by draining the  *)
(* pool when replies fill it again.                                        *)
(***************************************************************************)
RemovalDebtPaid ==
  ~at_once => \A l \in LBs : r_remove_accum[l] < 10
=============================================================================
