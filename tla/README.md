# lb-simulator: TLA+ models, checks and proofs

The repository holds two discrete-event simulators on nexosim 1: `lb` (clients, load
balancers and servers; `src/src/*.rs`) and `ms` (chains and graphs of microservices;
`src/src/microservice/`). This directory models the protocols by which tasks reach
servers, checks them with TLC and proves those of `lb` with TLAPS. Paths below are
relative to the repository root; line numbers of every definition are in `PROJECT.json`
(`map`).

Contents: 1 inventory, 2 execution model, 3 modules, 4 runs, 5 proofs, 6 findings,
7 not modelled, 8 plan.

## 1. Inventory

| Component | Source | State | Operations | Talks to |
|---|---|---|---|---|
| Load balancer | `load_balancer.rs` | `local_inflight`, `queue`, `waiting_servers`, `pull_intent_load`, `next_task_id`, probe pool | `input`, `pull`, `release`, `probe_reply` | servers: tasks, intents, probes |
| Server | `server.rs` | `queue`, `in_flight`, `in_flight_services`, `pending_pulls`, `pull_intent_queue`, pending sheds and evictions | `input`, `receive_pull_intent`, `request_pull`, `probe`, scheduled `complete`, `evict_task`, `shed_task` | its balancers: releases, pulls, shed tasks; express balancer: evicted tasks; sink |
| AmphiQueue messages | `amphiqueue.rs` | none | intent, pull, the fatal abort | balancer and server |
| Push policies | `policy.rs` | round-robin cursor | `select(loads)` | called by balancers |
| Prequal | `prequal.rs` | candidate pool, fractional accumulators | ingest, select, remove | balancers of both simulators, `Server::probe`, `Replica::probe` |
| Subsets | `subset.rs` | none | assignment of servers to a client | wiring |
| lb wiring and statistics | `lb_simulate.rs` | hop telemetry | arrivals, construction, statistics | all of the above |
| lb command line | `main.rs` | none | parsing, validation, printing | `lb_simulate` |
| ms replica | `microservice/replica.rs`, `hop.rs` | work queue, `in_flight`, `pending_pulls`, intents | `input` (calls, returns), `request_pull`, `receive_pull_intent`, `probe`, `complete` | balancers, other replicas |
| ms balancers | `microservice/balancer.rs` | per-target in-flight, queues, intent loads, waiting servers | `outbound`, `pull`, `release` | replicas, sidecars |
| ms sidecar | `microservice/sidecar.rs` | occupancy, pending pulls, shared intents | `receive_upstream`, `receive_pull_intent`, `capacity_event` | replicas, balancers |
| ms wiring, call graph, trace, statistics | `microservice/simulate.rs`, `callgraph.rs`, `trace.rs`, `microservice_stats.rs`, `bin/ms.rs` | visit tracker | construction, arrivals, reports | all of the above |
| EDF insertion | `scheduling.rs` | none | index by deadline | ms queues |
| Bounded mailboxes | `sim_util.rs` | none | `model_mailbox`, `schedule_initial_pulls` | wiring |
| Run audits | `*_audit.rs` | recorded events | record, check after the run | tests |
| Occupancy, random numbers | `occupancy.rs`, `rng.rs` | accumulator, generator | record, sample | all of the above |
| Python scripts | repository root, `analyze/` | none | run the binaries, draw plots | the binaries |

What makes each one correct:

- AmphiQueue: no server starts more tasks than it has slots although `input` does not
  check; `fatal_pull_abort` is unreachable; intents, queue and load counters agree; no
  intent sleeps at a server with a free slot.
- Centralized: each slot is announced exactly once; oldest task first; a task and an idle
  slot never wait for each other.
- Push, shedding, express lane: a task runs once although it may be queued, timed out,
  re-routed or evicted; every dispatch is released exactly once, for the right server; a
  timer stands for its own task until that task leaves the queue; the run ends.
- ms: the same for pulls and slots over several hops and policies; a request is in one
  place at a time however deep its calls nest, and completes; the load a balancer routes
  by counts its open calls.
- Sidecars: what a sidecar believes of its replicas differs from the truth by exactly the
  messages on the way, however late reports are; no call and no replica is left behind.
- Prequal: the pool keeps its capacity and one candidate per server although replies of
  several requests arrive together; a candidate never forgets the tasks its own balancer
  sent; the removals owed are paid and no more.
- Subsets and wiring: subsets of central queues do not overlap, a server pulls from the
  balancer that may use it, calls find replicas of their target.
- Audits: an audit accepts every correct run, and the log it replays rebuilds the queues
  of the run exactly.
- Not covered: sends to full mailboxes do not deadlock (section 7).

The hard behaviours are interleavings of handlers at one instant of simulated time, timers
racing completions, counters guarded only by `saturating_sub`, work identified by a
timestamp, wake-ups limited to one per handler, and the pull protocol's claims between a
pull and the task it fetches. They are listed with their lines under `hazards` in
`PROJECT.json`.

## 2. Execution model

A nexosim model handles one message at a time. `Output::send` suspends the handler only on
a full mailbox (capacity 16), and while it is suspended the model handles nothing else. So
an **action is one complete handler run**. The consequence of a full mailbox - models
waiting for each other - is not in these modules (section 7).

The simulation is single threaded (`SimInit::with_num_threads(1)`), but the order in which
models with pending messages run is the executor's. Simulated time moves only when no
message is pending. Three levels of detail are used; an audit
has the level of the run it observes:

- `AmphiQueue` and `CentralizedPull` have **no clock**: messages in flight are an unordered
  set (or counters), and a service may end at any step after it begins. Every schedule of
  the simulator is among these behaviours, so safety carries over. No property there needs
  message order or service times.
- `PushDispatch` and `ExpressLane` have a **discrete clock and FIFO mailboxes**, because
  shedding and eviction depend on elapsed service time and timers. Everything that is due
  at an instant happens before `Tick`: the events a server scheduled for itself in the
  order in which it scheduled them, as nexosim runs them (`InTurn`), everything else in any
  order, which includes the orders the code has. One instant stands for a nanosecond
  up to any unit: only the order of instants and comparisons with thresholds matter.
- `Microservices`, `Sidecar` and `Prequal` have **FIFO mailboxes and no clock**: a counter
  and the message that corrects it must not overtake each other, but no handler looks at
  elapsed time. Deadlines
  are fixed per request and only order queues.

Random choices (policies, service times, arrival times) are nondeterministic. The
exclusions of `main.rs` (shedding, express lane and pull policies are mutually exclusive)
are respected: `overflow` is exactly one policy, fixed for a run.

## 3. Modules

| Module | Models | State and actions in the code |
|---|---|---|
| `TaskService` | what a pool of servers promises, whatever the policy | `Submit`, `Start`, `Finish`, `HandOver` (a completion that starts the next task in the same handler) |
| `AmphiQueue` | `lb --lb-policy amphiqueue` | `Input` (`input` + `send_pull_intent`), `ReceivePullIntent`, `Pull`, `ServerInput`, `Complete`, `Release`; `DrainPullIntents` is the trailing `drain_pull_intents_async` of two of them; `status = "aborted"` is the panic of `fatal_pull_abort` |
| `CentralizedPull` | `lb --lb-policy centralized` | `Input` with `dispatch_waiting`, `RequestPull`, `Pull`, `ServerInput`, `Complete`, `Release`; `Init` holds the warm start |
| `PushDispatch` | push policies, shedding, and the regular servers of the express lane | `Arrive`, `ServerInput` with the enqueue decision, `TimerFires` (`shed_task`, `evict_task`), `Complete` with `drain_queue`, `LBReceive` (`Reroute`, `Release`), `Tick` |
| `LbPullAudit` | `lb_pull_audit.rs` over `AmphiQueue` | every action also records the events its handler records; `Replay` is the validation after the run, common, bound and unbound |
| `LbCentralizedAudit` | `lb_centralized_audit.rs` over `CentralizedPull` | `TaskEnqueued`, `TaskDispatched`; `Fits`, `Accepts` |
| `Subset` | `subset.rs`, the validation of central subsets, `server_to_lb` | operators: `AssignSubset`, `DeterministicSubset`, `ServerToLb`, `ClientToLb` |
| `ExpressLane` | `lb --expresslane` | `PushDispatch` extended, composed with an instance of `CentralizedPull` for the express balancer; `ExpressInput` and `ExpressComplete` are the two interactions |
| `Microservices` | `ms` with every policy but amphiqueue-share: a run has one `config` | replicas: `StartPulled`, `EnqueuePulled`, `EnqueueWork` (`Replica::input`), `ReceivePullIntent`, `RequestPull`, `Complete`; balancers: `PushCall`, `AnnounceCall`, `QueueCall` (`outbound`), `CentralPullArrives`, `AmphiPullArrives` (`pull`), `ReleaseArrives`; `Arrive` (`inject` and the edge push) |
| `Topology` | `callgraph.rs` (validity) and the wiring of `microservice/simulate.rs` | operators: which balancers there are (`OwnBalancers`, `SharedBalancers`), which replicas each may use, where calls, releases and pulls go; `Microservices` takes its balancers from it |
| `MsAudits` | `amphiqueue_audit.rs`, `ms_centralized_audit.rs`, `ms_jbsq_audit.rs` over `Microservices` | every action with the events of its handler; `IntentReplay`, `OutboundReplay`, `CentralReplay`, `JbsqFits` |
| `Sidecar` | `ms --lb-policy amphiqueue-share`: the replicas of one microservice behind their sidecars, the balancers of its callers, the edge balancer | sidecar: `ReceiveUpstream`, `ReceivePullIntent`, `CapacityEvent`; replica: `StartPulled`, `EnqueueWork`, `Complete`, `ChildReturns`; clients: `Call`, `PullArrives`; edge: `EdgeInput`, `EdgeRelease` |
| `Prequal` | `prequal.rs` with the balancers and servers that use it | `DispatchPrequal` (with `ProbeTargets`, `RemovalsDue`, `AfterDispatch`), `ProbeReply` (`IngestReply`), `Probe`; a server is the number of tasks it holds |
| `QueueLemmas` | lemmas on sequences: appending, removing, counting, the first match, and folds; on queues and sets of several owners counted together, and on mailboxes; deterministic subsets are disjoint and owned | - |
| `AmphiQueueProofs` | the inductive invariants of `AmphiQueue` and of its audit, their theorems | - |
| `CentralizedPullProofs` | the same for `CentralizedPull` | - |
| `PushDispatchProofs` | the same for `PushDispatch`, then for `ExpressLane`, which composes it with `CentralizedPull` | - |
| `PrequalProofs`, `SidecarProofs` | the same for `Prequal` and for `Sidecar` | - |
| `LbCentralizedAuditProofs` | the audit accepts every run | - |
| `MicroservicesInvariant` | the inductive invariants of `Microservices`, and what one handler does in their terms | - |
| `MicroservicesProofs` | the wiring of `Topology` is sound; these invariants are kept, and their theorems | - |
| `MC*` | instances for TLC | - |

Correspondence worth knowing when reading them:

- A task is a pair of its balancer and its `task_id` in the pull modules, and a record
  with `start` and `duration` in the push modules, where the code identifies it by `start`.
- `serving`, `completions` are the `complete` events the scheduler holds. `timers` are the
  keyed events not cancelled; `pending` is `pending_sheds` or `pending_evictions`.
  `scheduled` numbers a server's events, for `InTurn`.
- Every policy returns an index into the balancer's subset, so `Dispatch` and `Input` let
  it return any. What holds for every choice holds for every policy, prequal included as
  far as dispatch goes.
- The failure branch of `begin_service` (a `complete` that cannot be scheduled) is left
  out: the scheduler refuses only a zero delay, and durations are at least 1 ns
  (`sample_exp`, `sample_service`). The timers' thresholds are validated positive.
- In `Microservices` a handler is a function from a replica's state to the state after
  it; `out` collects its sends, which `Becomes` delivers. The continuation of a nested
  call is the sequence `callers` of the hop (`CallerRef::resume_caller`). A balancer
  stands for the tables of a ReplicaBalancer for one target, or for a DownstreamBalancer;
  which one a replica uses, `LbOf`, follows from the callgraph (`Topology`). `Children` is
  one list per endpoint: the API that labels an edge of the file is left out. UserArrival, EdgeBalancer and
  OutboundGateway only forward, apart from the load counts of EdgeBalancer, which are left
  out: ingress may go to any entry replica.
- `InflightExact` knows a call by its request and its depth in it (`OpenCalls`), not by
  the hop that carries it: the cycle check of `callgraph.rs` is by endpoint, so a path may
  enter a microservice again, and then one hop carries several open calls of one balancer
  to one replica. The load counts each of them.
- In `AmphiQueue` and `Sidecar` the scheduling of pulls, and in `Sidecar` the share and the
  order of the replicas' queues, are
  variables that `Init` chooses and nothing changes, so one run covers them all; `Prequal`
  chooses `at_once` so: whether requests may reach a balancer before the probes of the
  last one are answered (arrivals that coincide) or settle first.
- Rates of prequal are counted exactly in tenths, where the code adds `f64`: 0.3 added ten
  times is 3 in the model and slightly less in the code, which moves one removal to the
  next request.
- With amphiqueue-share and a share of 1 the edge balancer sends to the replicas directly,
  as `EdgeTarget` does. Ingress that is pushed may exceed the slots of a replica that also
  serves pulled calls; pulls alone never do (`PulledWithinSlots`). That rests on
  `PullArrived` and the `Occupancy` after it reaching the sidecar with nothing between them
  (`Paired`): they are two sends of one handler (`replica.rs:583-591`), and only a full
  mailbox, which is not modelled, could suspend it between the two. The capacity events of
  sidecars make the strand of `ms_mixed` (section 6) impossible here.
- The audits record in the handler that the code records in and at the same point of it.
  What a test demands of its own run (`saw_mismatch`, `saw_backlog_pop`) is not modelled.
  `validate_bound` pairs events by caller, microservice and request: a run in which one
  caller calls the same microservice twice for one request would be refused although it
  is correct. No instance has one.
- In `ExpressLane` the times of express services are free: its servers do not look at
  the clock.
- Definitions marked "Seeded bug" are not part of any specification. They are mutations
  of the definition that follows them; putting one in its place must violate the property
  `PROJECT.json` (`mutants`) names, which shows that the property can fail.

## 4. Runs

| Run | Instance | Checks |
|---|---|---|
| `amphi` | 2 balancers sharing 1 of 2 servers, 2 slots each, 3+2 tasks, bound and unbound pulls, under the audit (149,532 states) | `TypeOK`, `CapacityRespected`, `NoPullAbort`, `IntentsMatchQueue`, `PullIntentLoadExact`, `InFlightAccounting`, `TasksWaitOnlyForBusyServers`, `AuditFollowsRun`, `ServiceSpec` |
| `central` | 4 servers of 1 slot in 2 subsets of 2, 3+1 tasks, under the audit (42,552) | `SlotConservation`, `NoTaskWaitsWithSlot`, `DispatchInArrivalOrder`, `AuditAcceptsRun`, `ServiceSpec` |
| `push_shed` | 2 clients, 2 servers of 2 slots, durations 1 or 6, threshold 3, up to 3 tasks each, arrivals until 5 (144,845) | `ReleaseAccounting`, `TimersMatchQueue`, `TimerEndsWithTask`, `ServiceSafety` |
| `express_lane` | 2 clients, 1 regular and 1 express server, each of the four eviction policies (22,756) | `ReleaseAccounting`, `EvictedOnce`, `DepthBounded`, `PoolSafety`, `RunCompletes` |
| `ms_policies` | 3 requests, two over `front` -> (`left` -> `deep`), `right` and one over `light` -> `quick`; 1 entry replica, 2 that serve `left`, `deep` and `quick`, so a path enters them twice, 1 for `right`, 1 slot each; push and shared push, centralized EDF, jbsq with n = 1, amphiqueue bound and edf+, FIFO and EDF replicas (1,054,680) | `OneAtATime`, `CapacityRespected`, `WorkConserving`, `InflightExact`, `IntentsMatchCalls`, `NothingStranded` |
| `ms_completes` | 2 requests, 1 replica of each, the policies above and amphiqueue fcfs, jbsq with n = 2, under the audits, fair (15,530) | `PullsAccounted`, `AuditsFollowRun`, `RequestsComplete` |
| `sidecar` | 2 replicas of 1 slot, share 1 or 2, bound and edf+, EDF replicas, 3 calls of 2 clients, one with a child call, and 1 ingress task (2,753,682) | `PendingPullsExact`, `PulledWithinSlots`, `OccupancyCurrent`, `LoadsExact`, `NothingStranded` |
| `prequal` | 2 balancers, 5 servers (pools of 2), 4+1 requests, or 2+1 that coincide, the rates of `prequal.rs` (400,504) | `PoolSound`, `CandidateCountsOwnTasks`, `RemovalDebtPaid` |
| `ms_release` | 2 requests, centralized | `InflightReleased`, violated (section 6) |
| `ms_mixed` | 2 requests, amphiqueue, the second enters where the first calls | `IntentsDrained`, violated (section 6) |
| `push_shed_forever` | 1 client, 1 server, services of 4 against a threshold of 2 | `RunCompletes`, violated (section 6) |
| `push_same_start` | 2 clients that may arrive at one instant, 1 server, services of 2 against a threshold of 3 | `TimerEndsWithTask`, violated (section 6) |

Bounds. Tasks per client and the last arrival bound every run; they are conjuncts of the
arrival actions (`TaskCount`, `Horizon`). In the AmphiQueue instance intents of two
balancers meet at one server, more tasks than slots arrive, and with two slots a server
has a pull under way and a task in service at once, which is where the capacity test
matters. In `central` three tasks against the
two slots of a subset give both a queue and parked slots, and the other subset is there to
be confused with it. In `push_shed` a duration of 6 exceeds the threshold (immediate
shedding) and outlasts the timer of a task queued while two of them are in service (the
timer fires); two tasks can be queued with a timer each, and a timer and the completion
that would start its task can be due at one instant. In `express_lane` a
task may be evicted on arrival or by its timer and meet a busy or an idle express server.
In the `ms` runs three requests meet at the shared replica with one in service, so
queues of two form and EDF reorders them; it is called by three balancers and by two
endpoints of one call tree, as in `tests/fanin`. Pull policies run with one slot per replica and entry
replicas that nobody calls, as in every call graph of `tests/`. jbsq with
n = 2, whose initial pulls interleave with everything, is in the smaller run, with n = 1
in the larger. These runs use no subsets (`SubsetSize = 0`): subsets are in `central` and,
for every callgraph, in the theorems about `Subset` and `Topology`. In `sidecar` a grant,
a report and a forwarded ingress task can be under way for one replica, calls compete for
it, with a share of 2 a sidecar chooses between replicas, and the ingress task, which is
more urgent, overtakes a queued return. Five servers are the least
with a pool of two candidates, and four requests the least at which a removal falls due
(0.3 each). What a larger instance adds is more of the same: the proofs of
section 5 cover the safety of `AmphiQueue`, `CentralizedPull`, `PushDispatch`, `ExpressLane`,
`Prequal` and `Sidecar` for every size.

Fairness. `Simulation::run` executes until no event is left: every scheduled arrival and
service completion occurs and every message in a mailbox is handled. That is weak fairness
of each arrival stream, each model's mailbox and the scheduled events, and nothing
stronger. It is used by `ServiceSpec` (the liveness of `TaskService`: a waiting task is
started, a running one finishes) and `RunCompletes`. `Microservices`
assumes less: something is done while anything can be done. In `PushDispatch` it includes `Tick`,
which is enabled only when nothing is pending; the livelock of `push_shed_forever` is a
fair behaviour for that reason.

`CHECK_DEADLOCK` is on everywhere: the end of a run is an explicit stuttering action
(`Finished`), so a state where tasks are left and nothing can happen is an error.

## 5. Proofs

All are checked by TLAPS from the definitions that TLC runs; `Safety` and `Spec` are the
specifications of the runs, and every theorem holds for all values of the constants that
the module's assumption admits (finite sets of models, non-empty subsets, at least one
slot; for the wiring, a callgraph that the code accepts).

**AmphiQueue.** Every safety property of run `amphi` and the safety
refinement are proved (`TypeCorrect`, `CapacityCorrect`, `PullNeverAborts`,
`InFlightCorrect`, `PullIntentLoadCorrect`, `IntentsMatch`,
`OnlyBusyServersKeepTasksWaiting`, `AuditFollows`, `AmphiImplementsService`). None is inductive alone.
The first invariant, `PlacesInv` (theorem `PlacesInvariant`), says where tasks are:

- `IdsKnown`: every task anywhere was issued by its balancer;
- `OneIntent`, `OnePlace`: a task has at most one intent (in flight, kept, or turned into
  a pull) and is in at most one of the balancer's queue, a task message, a server;
- `AnnouncedQueued`: behind every unanswered intent there is a queued task, namely its own
  when pulls are bound, and by counting as many as there are intents when they are not;
- `CapacityRespected`: the counters count the claims exactly;
- `Finite`: the sets counted are finite, which cardinality arguments need.

`PullPlaces` is the heart: the pull finds a task because its own intent is one of the
intents counted in `AnnouncedQueued`. One lemma per action shows that the invariant is
preserved; `DrainPlaces` is shared by the two handlers that drain intents. `QueueLemmas`
states what appending and removing does to a sequence without duplicates.

The second, `AccountsInv` (theorem `AccountsInvariant`), adds the accounts on top of it.
`pull_intent_load` counts the set of ids `Unanswered`, which survives the moves of an
intent from message to queue to pull, and `local_inflight` the set `Due`; `FinishedOnce`
makes the release of a task unique, and it is also what the refinement needs to map a
completion to one `Finish`; `ArrivalsBounded` and `InSubset` bound what may appear. That
a waiting task waits for a busy server has an invariant of its own, `KeptByFull`: a
handler answers one intent, but only one slot was freed since the queue was last empty or
the slots last full.

`AuditFollows` is about the log that `LbPullAudit` adds. Its invariant, `AuditInv`, says
what the replay of the whole log has reached: its intent queues are those of the servers,
in order, and its accounts add up (sent intents are those queued and those on the way,
queued ones are the drained and the kept, drained ones the fulfilled and the pulls on the
way). Each handler appends at most three events, so a step is a replay of these from the
state reached. The theorem assumes that some balancer gets a task: `validate_common`
refuses an empty log.

**CentralizedPull.** `SlotsInv` (theorem `SlotsInvariant`) is `TypeOK`,
`NoTaskWaitsWithSlot`, `InOrder` (the queue is the last ids issued, in order),
`ParkedAtHome` (a server is parked at its own balancer), `OnePlace`, `Finite` and
`SlotConservation`. From it follow `CentralTypeCorrect`, `SlotsConserved`,
`NoIdleSlotBesideTask`, `ArrivalOrder` and `CentralImplementsService`, the safety
refinement. On top of it `AuditAccepts`: with the invariant that what the audit recorded
is what happened (`Recorded`), the audit accepts every run, because `OneOwner` gives each
server one balancer.

**PushDispatch.** `PushInv` (theorem `PushInvariant`) holds under every overflow policy
and for coinciding arrivals too. Its parts:

- `OnePlace`, `AllSomewhere`, `Once`: a task that arrived is in exactly one place (on its
  way to a server, queued, in service, on its way back, evicted, finished) and there once.
  Without it a shed task could be counted at two servers. A distinct start per client makes
  an arriving task new;
- `AtHome`: tasks go to servers of their client's subset, and releases to its balancer;
- `SlotsBusy`: `in_flight` counts the completions that are scheduled, at most
  `max_concurrency`, and a server with a queue has no free slot. This is why `drain_queue`,
  a loop, starts one task per completion (`DrainCases`), and the fold in the model never
  needs induction;
- `ReleaseAccounting`: the property itself. It is inductive only beside the others: a
  release decrements a positive counter because the message is one of those counted.

Each handler moves at most two tasks from place to place; `TaskMoves` and `TasksMove` do the
set reasoning once, one lemma per handler does its counters. From `PushInv` follow
`PushTypeCorrect`, `LocalInflightExact` and `PushImplementsService`, in which a completion
that drains the queue is one `HandOver`.

The overflow timers (`TimersMatch`) need two more facts: `OneStart`, an instant has one
arrival, and `TimersFit`, a server's events are those in `pending`, with distinct starts,
none overdue, each with its task in the queue. `TimersMatchTheQueue` and
`TimersEndWithTasks` follow. They assume `~Simultaneous`, and run `push_same_start` shows
that they must: with two arrivals at one instant the code cancels by a start that names two
tasks (section 6). Neither needs the order of a server's events. The loops `retain`, `position` and `remove` are characterised in
`RetainProperties`, `CancelCases` and `RemoveInFlightProperties`.

**ExpressLane.** `CentralizedPullProofs` is instantiated for the express balancer, so that
its `SlotsInvariant` holds of the express side as it stands (`XSlots`). `HandedInv` is what
connects the two sides: the express balancer has named the evicted tasks in the order it
received them, each once, and a task handed over stays evicted until the express side has
finished its name. The step to prove is a completion on an express server, which releases
the origin of a task that no regular server holds any more (`ExpressCompletePush`).
`LaneReleases`, `NothingEvictedTwice` and `PoolImplementsService` follow: a name on an
express server stands for an evicted task, so the two sides never run the same one.
`RegularQueuesShallow` is inductive by itself: the only handler that lengthens a queue
tests its length after the task was added.

**Prequal.** `PoolInv` (theorem `PoolsInvariant`) says that pools are sound (`PoolsOK`: within
capacity, one candidate per server, none used up) and, when requests come one at a time,
that they cover the balancer's own tasks (`OwnTasks`): the RIF of a candidate, and of every
reply on its way, is at least the tasks of the balancer at that server and in its mailbox.
What makes it inductive is the order of mail (`ProbeLast`): no task of a balancer is behind
a probe of it, so the answer to a probe has seen all of them. `PoolsStaySound` and
`OwnTasksCounted` follow. `remove_worst` runs any number of times in one handler; the
lemmas `FoldExists` and `RemovalTableExists` show by induction over positions that the loop has a
table of its intermediate pools, and `RemovalTableLeaves` what each has lost. `RemovalsPaid`
needs an argument of its own (`DebtInv`): a balancer with a request behind it has a
candidate, an answer or a probe under way (`Answered`), so a removal that falls due finds a
candidate. It assumes at least one probe (`R_PROBE >= 10`) and less than one removal
(`R_REMOVE < 10`) per request, in tenths; `prequal.rs` has 15 and 3.

**Sidecar.** `PullInv` (theorem `PullInvariant`) follows a pulled call from the intent to the
service, for every share and every pull scheduling:

- `Placed`: a task that arrived is in one place, on the way, queued, in service, on a child
  call or done; a pull therefore starts a call that is not in service already;
- `Reported`: what a sidecar has still to hear of a replica. An arrival is followed at once
  by a report (`Paired`); a report and the arrivals after it count every pulled call in
  service (`Covers`); so do the occupancy and the arrivals, or a report is the next message
  (`Known`); after the last report the occupancy is the replica's (`Latest`). This makes
  stale reports harmless: one sent before a task was forwarded overwrites the optimistic
  count of that task, but never hides a pulled call;
- `Reserved`: `pending_pulls` is the number of pulls under way and of arrivals not heard of;
- `InSlots`: pulls under way and pulled calls in service fit the slots. A grant keeps it
  because `has_capacity` subtracts the reservations from an occupancy that, by `Known`,
  counts what is in service; where a report is next, the grant is the answer to it;
- `AllFull`, `AllCounted`: a queue waits only for a full replica, and `in_flight` counts
  `serving`.

The loops over intents and replicas (`drain_capacity_for_replica`, `drain_idle_replicas`)
are closed forms and folds; `DrainCapacityDrains` and `DrainIdleDrains` say what any number
of turns does, and `DeliverSends` what their sends do to mailboxes. `PendingPullsAreExact`,
`PulledStayWithinSlots`, `OccupancyIsCurrent` and `TypeCorrect` follow.

`LoadsInv` (theorem `LoadsInvariant`) adds what clients and edge count, and why nothing is
forgotten:

- `IntentLoads`: a client's load for a sidecar is its intents there and the pulls on their
  way back; `Announced`: it holds as many calls as it has intents and pulls in all;
- `Kept`: a sidecar keeps an intent only while each of its replicas has no free slot or a
  report of that replica is the next to be handled; every handler that could free a slot
  ends in a drain or sends the report;
- `EdgeLoads`: the edge counts the ingress tasks that have entered and whose release is
  still to come.

`LoadsAreExact` is two of these. For `NothingIsStranded`: with mailboxes empty and nothing
in service, `Reported` makes the sidecar see every slot free, so by `Kept` it holds no
intent, by `Announced` no client holds a call, and by `Placed` every task is done.

**Microservices.** A handler of a replica may send any number of messages (a completion
resumes every return at the head of the queue), and a call tree has any depth. So handlers
are described by what they do to counts, not by the messages they send. `Across` counts
the messages of a set in the mailboxes of a set of places; `Ledger` says how one handler
changes it, for every set: what was there and was sent is there or was taken. `Handled` and
`Routed` say, for one handler, that the hops of a request, the pulls and the intents it took
are those it keeps or sends. Each handler is shown to be one of these (`StepIs`), and the
invariants are then preserved by arithmetic on counts:

- `Basics`: types (a call is only in the mailbox or queue of a balancer of its target, a
  pulled one only at a replica that is pulled from, a frame names a replica of its
  endpoint's microservice); `Placed`, a request is counted once in mailboxes, queues,
  services and the sink together when it has arrived, and not at all before; `in_flight`
  counts `serving`; work waits only while all slots are taken (`Busy`); no call waits at a
  balancer where a server is parked (`Apart`). `Placed` makes it inductive: without it a hop
  taken into service could be in service already;
- `Slots`: for every replica that is pulled from, `Open` counts its pulls on the way, its
  entries among the parked servers and the pulled calls in its mailbox. `pending_pulls` is
  that number under jbsq and amphiqueue; under centralized the initial pulls, the open
  ones and the services add up to the slots; an intent is kept only while services and open
  pulls fill them; jbsq is never short of pulls once the initial ones are out;
- `Tickets`: under amphiqueue `Owed` counts the intents of a balancer that are on the way,
  in `pull_intents` or on their way back as pulls. Per server it is `pull_intent_load`, in
  all it is the length of the queue, and when pulls are bound it is, per request, the number
  of its calls in the queue, so that no pull finds its call gone;
- `Loads`: under push policies a call is a key, its request and its depth, and `Holding`
  counts what holds it open at a server: hops below it, whose frame at that depth names the
  server, and returns from it that its caller has not handled. A request is in one place
  (`Placed`), so a key is held at most once, and `inflight` is the number of keys held plus
  the releases under way. A dispatch opens one key; a handler that resumes returns closes
  keys, each once, and sends one release for each (`Moves`, `Squared`). Keys, not hops:
  where a path enters a microservice again, one hop holds several calls of one balancer to
  one server open, and each return closes its own.

`LoadsAreOpenCalls` is `InflightExact` from `Basics` and `Loads`, for every valid callgraph,
those whose paths come back to a microservice included. `TypeCorrect` and `RequestsAreInOnePlace` follow from `Basics`, `IntentsMatch` from `Basics`
and `Tickets`, with no hypothesis but the assumptions on the constants. `CapacityHolds`,
`NoIdleSlot`, `PullsAreAccounted` and `NothingIsLeftBehind` need `Slots`, and `Slots` needs
`EntriesApart`: no API enters at a microservice that is called. The call graphs of `tests/`
are like this, the validation does not ask for it, and run `ms_mixed` shows that the
properties fail without it (section 6): a pulled call is started without a test, so pushed
ingress at the same replica takes its slot. For `NothingIsLeftBehind`: with mailboxes empty
nothing is open but parked servers; a balancer with a call has none parked, and its servers
pull from no other balancer (`WiringIsSound`), so by `Slots` a replica of it would have
unasked slots; under amphiqueue `Tickets` leaves no call without an intent, and `Slots` no
intent at a replica with nothing to do. By `Placed` every request is then at the sink.

**Subsets and wiring.** `SubsetsDisjoint`: deterministic subsets share no backend.
`OneOwner`: when the validation passes, each server is in the subset of exactly one
balancer, the one `server_to_lb` names. `WiringIsSound`: under `TopologyAssumption` every
call of an ms run has a balancer with replicas of its target, and a replica pulls from
the only balancer that may use it.

TLC also checked `AccountsInv`, `KeptByFull` and `SlotsInv` as invariants of `amphi` and
`central`.

Only model-checked: `AuditsFollowRun` of `MsAudits`. An audit takes a whole step's events
with `FoldLeft`, and the entries it compares are counted with `MapThenSumSet`: what these
folds give for sequences and sets of any size needs induction over data, which the provers
cannot instantiate. All liveness (`RunCompletes`, `RequestsComplete`, the fairness part of
`ServiceSpec`) is out of their reach too.

## 6. Findings

- **Work shedding may never end** (`push_shed_forever`). A task shed immediately takes no
  simulated time to come back, and the head-of-line condition that shed it cannot change
  until time moves. When all servers of its subset are in that condition, balancer and
  server exchange the task for ever at one instant and `simu.run()` does not return.
  `docs/work-shedding.md:83` allows tasks to "re-route multiple times before completing".
- **A start may cancel another task's timer** (`push_same_start`). `cancel_pending_shed`,
  which `begin_service` calls for every task it starts, finds a timer by `start` alone
  (`server.rs:361-370`). Of two queued tasks with the same start, the first may have been
  estimated to start in time and have no timer, and the second, behind it, have one: when
  the first starts, the timer of the second is cancelled and it waits with none.
  `docs/work-shedding.md:56` sheds a task that is "still queued when it fires", and line 71
  cancels only for "the task" that starts. It needs two clients whose tasks start at the
  same nanosecond and meet in one queue. All other runs exclude equal starts
  (`Simultaneous = FALSE`).
- **Central pulls never release** (`ms_release`). `slot_release` of a call names the serving
  replica, and `Replica::complete` sends it to that replica's own gateway, which knows only
  the microservices it calls and ignores it. `docs/microservice-simulation.md:288` says the
  in-flight count is released after the local service. These policies do not route by it.
- **A completion that answers no intent** (`ms_mixed`). `docs/amphiqueue-policy.md:160` says
  that intents are drained after each completion; `Replica::complete` does it only for
  pulled calls. Where pushed ingress and pulled calls share a replica, an intent can stay
  beside a free slot, and its request never completes if nothing else is pulled there.
  Nothing in the validation of call graphs excludes such a microservice, though no call
  graph in `tests/` has one; its ingress may also exceed its slots, because pulled calls start
  without a check. Every other run of
  `Microservices` keeps the two roles apart; `sidecar` mixes them on purpose.

`remove_in_flight` has the same weakness: of two services that began at one instant the
first entry is dropped, whichever ended. Only delay estimates read these entries.

## 7. Not modelled

- **Bounded mailboxes** (`sim_util.rs`). Every mailbox has the default capacity of 16, and
  a send to a full one suspends its handler in the middle. An action would then be a part
  of a handler, and the state of every module would hold the suspended ones; 16 messages
  to one model at one instant are also far beyond what the runs can explore. All modules
  let mailboxes grow, so a deadlock of models that wait for each other is not excluded.
- **Selections of the push policies** (`policy.rs`): models let a policy return any index
  of the subset, so what they show holds for each of them. Which server is best is a
  question of performance.
- **Visit tracker** (`microservice_stats.rs`), histograms, hop telemetry, the occupancy
  accumulator: statistics, which no handler reads.
- The load counts of `EdgeBalancer` outside `Sidecar`: they only steer which entry replica
  gets a request, and `Microservices` lets it be any.
- **Input** (`main.rs`, `bin/ms.rs`, parsing and scaling of call graphs): arguments and
  files enter as constants; what their validation excludes is assumed.
- **Random numbers, tracing, Python scripts**: random choices are nondeterministic, the
  rest is output.

## 8. Plan

The modules of the plan are written. What would add most now:

1. A proof about the audits of `MsAudits`, once their folds are restated as counts of the
   sets the provers can reason about (`QueueLemmas` has the counting lemmas).
2. Bounded mailboxes, with a capacity of one or two, between one balancer and two servers.
3. The visit tracker, on a callgraph that enters a microservice twice on one path.
