----------------------------- MODULE AmphiQueue -----------------------------
(***************************************************************************)
(* The pull-intent protocol of `lb --lb-policy amphiqueue`: client load    *)
(* balancers keep the tasks, announce each one to a server with a pull     *)
(* intent, and servers pull when they have a free slot                     *)
(* (src/src/load_balancer.rs, src/src/server.rs).                          *)
(*                                                                         *)
(* One action is one handler run of one model: a nexosim model handles one *)
(* message at a time and its sends suspend only on a full mailbox.  The    *)
(* messages in flight are a set, delivered in any order, and a service may *)
(* end at any later step: both contain every schedule of the simulator     *)
(* (one mailbox per model, simulated time), so nothing proved here rests   *)
(* on delivery order or on service times.                                  *)
(***************************************************************************)
EXTENDS Naturals, Sequences, SequencesExt, FiniteSets

CONSTANTS
  LBs,             \* client load balancers (lb_id)
  Servers,         \* servers (server_idx)
  Subset,          \* Subset[l]: servers assigned to l (server_indices)
  MaxConcurrency,  \* Server::max_concurrency
  TaskCount        \* TaskCount[l]: tasks of l's client (split_tasks); the bound of a run

ASSUME AmphiQueueAssumption ==
  /\ IsFiniteSet(LBs)
  /\ IsFiniteSet(Servers)
  /\ Subset \in [LBs -> SUBSET Servers]
  /\ \A l \in LBs : Subset[l] # {}
  /\ MaxConcurrency \in Nat \ {0}
  /\ TaskCount \in [LBs -> Nat]

VARIABLES
  bound,              \* a pull names its task; FALSE: --amphiqueue-sched fcfs
  \* LoadBalancer
  next_task_id,       \* next_task_id[l]: id of the next task to arrive
  queue,              \* queue[l]: ids of the tasks waiting at l
  pull_intent_load,   \* pull_intent_load[l][s]: intents of l not yet answered by s
  local_inflight,     \* local_inflight[l][s]: tasks of l sent to s and not released
  \* Server
  pull_intent_queue,  \* pull_intent_queue[s]: intents <<sender, request>> kept by s
  pending_pulls,      \* pending_pulls[s]: pulls of s whose task has not arrived
  in_flight,          \* in_flight[s]: the server's own count of running tasks
  serving,            \* serving[s]: tasks with a scheduled `complete` event
  \* nexosim and the sink
  network,            \* messages sent and not yet handled
  finished,           \* tasks received by the statistics sink
  status              \* "aborted" once fatal_pull_abort has panicked

lbVars == <<next_task_id, queue, pull_intent_load, local_inflight>>
serverVars == <<pull_intent_queue, pending_pulls, in_flight, serving>>
vars == <<bound, lbVars, serverVars, network, finished, status>>

(* A task is named by its load balancer and its task_id there. *)
Task == LBs \X Nat

(***************************************************************************)
(* The four messages.  `id` is request_id in an intent and a pull and      *)
(* task_id in a task; a release carries only the server index, its `id`    *)
(* tells it from other releases in flight.                                 *)
(***************************************************************************)
Message == [type : {"intent", "pull", "task", "release"},
            lb : LBs, server : Servers, id : Nat]

PullIntent(l, s, i)  == [type |-> "intent", lb |-> l, server |-> s, id |-> i]
PullRequest(l, s, i) == [type |-> "pull", lb |-> l, server |-> s, id |-> i]
TaskMessage(l, s, i) == [type |-> "task", lb |-> l, server |-> s, id |-> i]
ReleaseOf(l, s, i)   == [type |-> "release", lb |-> l, server |-> s, id |-> i]

(* u32::saturating_sub(1) *)
SaturatingDec(n) == IF n = 0 THEN 0 ELSE n - 1

Init ==
  /\ bound \in BOOLEAN
  /\ next_task_id = [l \in LBs |-> 0]
  /\ queue = [l \in LBs |-> <<>>]
  /\ pull_intent_load = [l \in LBs |-> [s \in Servers |-> 0]]
  /\ local_inflight = [l \in LBs |-> [s \in Servers |-> 0]]
  /\ pull_intent_queue = [s \in Servers |-> <<>>]
  /\ pending_pulls = [s \in Servers |-> 0]
  /\ in_flight = [s \in Servers |-> 0]
  /\ serving = [s \in Servers |-> {}]
  /\ network = {}
  /\ finished = {}
  /\ status = "running"

-----------------------------------------------------------------------------
(* LoadBalancer *)

(***************************************************************************)
(* LoadBalancer::input and send_pull_intent.  Every policy returns an      *)
(* index into the servers of the subset, so any of them may be chosen.     *)
(***************************************************************************)
Input(l) ==
  LET id == next_task_id[l] IN
  /\ id < TaskCount[l]
  /\ next_task_id' = [next_task_id EXCEPT ![l] = id + 1]
  /\ queue' = [queue EXCEPT ![l] = Append(@, id)]
  /\ \E s \in Subset[l] :
       /\ pull_intent_load' = [pull_intent_load EXCEPT ![l][s] = @ + 1]
       /\ network' = network \cup {PullIntent(l, s, id)}
  /\ UNCHANGED <<bound, local_inflight, serverVars, finished, status>>

(* Seeded bug: a bound pull takes the head, whatever its request_id. *)
PullPositionsHeadOnly(l, id) == {i \in DOMAIN queue[l] : i = 1}

(***************************************************************************)
(* The queue position a pull of request `id` takes at l: the position of   *)
(* that task when pulls are bound, the head otherwise; none if there is    *)
(* no such task.                                                           *)
(***************************************************************************)
PullPositions(l, id) ==
  IF bound THEN {i \in DOMAIN queue[l] : queue[l][i] = id}
           ELSE {i \in DOMAIN queue[l] : i = 1}

(***************************************************************************)
(* LoadBalancer::pull, the amphiqueue branches, with dispatch_to_server.   *)
(***************************************************************************)
Pull(m) ==
  LET l == m.lb
      s == m.server
  IN
  /\ m.type = "pull"
  /\ \/ \E i \in PullPositions(l, m.id) :
          /\ \A j \in PullPositions(l, m.id) : i <= j
          /\ queue' = [queue EXCEPT ![l] = RemoveAt(@, i)]
          /\ pull_intent_load' =
               [pull_intent_load EXCEPT ![l][s] = SaturatingDec(@)]
          /\ local_inflight' = [local_inflight EXCEPT ![l][s] = @ + 1]
          /\ network' = (network \ {m}) \cup {TaskMessage(l, s, queue[l][i])}
          /\ UNCHANGED status
     \/ /\ PullPositions(l, m.id) = {}
        /\ status' = "aborted"
        /\ network' = network \ {m}
        /\ UNCHANGED <<queue, pull_intent_load, local_inflight>>
  /\ UNCHANGED <<bound, next_task_id, serverVars, finished>>

(* Seeded bug: a release that is received but not counted. *)
ReleaseNotCounted(m) ==
  /\ m.type = "release"
  /\ network' = network \ {m}
  /\ UNCHANGED <<bound, lbVars, serverVars, finished, status>>

(* LoadBalancer::release *)
Release(m) ==
  /\ m.type = "release"
  /\ local_inflight' = [local_inflight EXCEPT ![m.lb][m.server] = SaturatingDec(@)]
  /\ network' = network \ {m}
  /\ UNCHANGED <<bound, next_task_id, queue, pull_intent_load, serverVars, finished,
                 status>>

-----------------------------------------------------------------------------
(* Server *)

(* Seeded bug: pulls under way are not counted. *)
HasSpareCapacityNoPending(s, running) == running < MaxConcurrency

HasSpareCapacity(s, running) == running + pending_pulls[s] < MaxConcurrency

(* Seeded bug: the intent is answered but stays in the queue. *)
DrainWithoutPop(s, intents, running, net) ==
  /\ pull_intent_queue' = [pull_intent_queue EXCEPT ![s] = intents]
  /\ IF HasSpareCapacity(s, running) /\ intents # <<>>
     THEN /\ pending_pulls' = [pending_pulls EXCEPT ![s] = @ + 1]
          /\ network' = net \cup {PullRequest(Head(intents)[1], s, Head(intents)[2])}
     ELSE network' = net /\ UNCHANGED pending_pulls

(***************************************************************************)
(* drain_pull_intents_async, run at the end of a handler of s that leaves  *)
(* `intents` queued, `running` tasks in flight and `net` in flight: at     *)
(* most one intent is answered.                                            *)
(***************************************************************************)
DrainPullIntents(s, intents, running, net) ==
  \/ /\ HasSpareCapacity(s, running)
     /\ intents # <<>>
     /\ pull_intent_queue' = [pull_intent_queue EXCEPT ![s] = Tail(intents)]
     /\ pending_pulls' = [pending_pulls EXCEPT ![s] = @ + 1]
     /\ network' = net \cup {PullRequest(Head(intents)[1], s, Head(intents)[2])}
  \/ /\ ~HasSpareCapacity(s, running) \/ intents = <<>>
     /\ pull_intent_queue' = [pull_intent_queue EXCEPT ![s] = intents]
     /\ network' = net
     /\ UNCHANGED pending_pulls

(* Server::receive_pull_intent *)
ReceivePullIntent(m) ==
  LET s == m.server IN
  /\ m.type = "intent"
  /\ DrainPullIntents(s, Append(pull_intent_queue[s], <<m.lb, m.id>>),
                      in_flight[s], network \ {m})
  /\ UNCHANGED <<bound, lbVars, in_flight, serving, finished, status>>

(***************************************************************************)
(* Server::input in AmphiQueue mode with begin_service: no capacity check, *)
(* the slot was claimed when the pull was sent.                            *)
(***************************************************************************)
ServerInput(m) ==
  LET s == m.server IN
  /\ m.type = "task"
  /\ pending_pulls' = [pending_pulls EXCEPT ![s] = SaturatingDec(@)]
  /\ in_flight' = [in_flight EXCEPT ![s] = @ + 1]
  /\ serving' = [serving EXCEPT ![s] = @ \cup {<<m.lb, m.id>>}]
  /\ network' = network \ {m}
  /\ UNCHANGED <<bound, lbVars, pull_intent_queue, finished, status>>

(* Seeded bugs: a completion that leaves queued intents asleep, and one that *)
(* gives its slot back twice.                                               *)
CompleteWithoutDrain(s, t) ==
  /\ t \in serving[s]
  /\ serving' = [serving EXCEPT ![s] = @ \ {t}]
  /\ finished' = finished \cup {t}
  /\ in_flight' = [in_flight EXCEPT ![s] = @ - 1]
  /\ network' = network \cup {ReleaseOf(t[1], s, t[2])}
  /\ UNCHANGED <<bound, lbVars, pull_intent_queue, pending_pulls, status>>

CompleteTwice(s, t) ==
  /\ t \in serving[s]
  /\ serving' = [serving EXCEPT ![s] = @ \ {t}]
  /\ finished' = finished \cup {t}
  /\ in_flight' = [in_flight EXCEPT ![s] = @ - 2]
  /\ DrainPullIntents(s, pull_intent_queue[s], in_flight[s] - 2,
                      network \cup {ReleaseOf(t[1], s, t[2])})
  /\ UNCHANGED <<bound, lbVars, status>>

(* Server::complete in AmphiQueue mode, run by the scheduler for task t *)
Complete(s, t) ==
  /\ t \in serving[s]
  /\ serving' = [serving EXCEPT ![s] = @ \ {t}]
  /\ finished' = finished \cup {t}
  /\ in_flight' = [in_flight EXCEPT ![s] = @ - 1]
  /\ DrainPullIntents(s, pull_intent_queue[s], in_flight[s] - 1,
                      network \cup {ReleaseOf(t[1], s, t[2])})
  /\ UNCHANGED <<bound, lbVars, status>>

-----------------------------------------------------------------------------
Deliver(m) == ReceivePullIntent(m) \/ Pull(m) \/ ServerInput(m) \/ Release(m)

(* simu.run() returns once nothing is in flight, scheduled or to arrive. *)
Finished ==
  /\ \A l \in LBs : next_task_id[l] = TaskCount[l]
  /\ network = {}
  /\ \A s \in Servers : serving[s] = {}
  /\ UNCHANGED vars

(* The panic of fatal_pull_abort ends the run. *)
Next ==
  /\ status = "running"
  /\ \/ \E l \in LBs : Input(l)
     \/ \E m \in network : Deliver(m)
     \/ \E s \in Servers : \E t \in serving[s] : Complete(s, t)
     \/ Finished

(***************************************************************************)
(* SimInit::run executes until no event is left: every client's arrivals   *)
(* are scheduled up front, every message is handled, every service ends.   *)
(***************************************************************************)
Fairness ==
  /\ \A l \in LBs : WF_vars(Input(l) /\ status = "running")
  /\ WF_vars((\E m \in network : Deliver(m)) /\ status = "running")
  /\ WF_vars((\E s \in Servers : \E t \in serving[s] : Complete(s, t)) /\ status = "running")

Safety == Init /\ [][Next]_vars
Spec == Safety /\ Fairness

-----------------------------------------------------------------------------
(* Properties *)

(* Every variable keeps its type. *)
TypeOK ==
  /\ bound \in BOOLEAN
  /\ next_task_id \in [LBs -> Nat]
  /\ queue \in [LBs -> Seq(Nat)]
  /\ pull_intent_load \in [LBs -> [Servers -> Nat]]
  /\ local_inflight \in [LBs -> [Servers -> Nat]]
  /\ pull_intent_queue \in [Servers -> Seq(Task)]
  /\ pending_pulls \in [Servers -> Nat]
  /\ in_flight \in [Servers -> Nat]
  /\ serving \in [Servers -> SUBSET Task]
  /\ network \subseteq Message
  /\ finished \subseteq Task
  /\ status \in {"running", "aborted"}

(* The pulls of s under way: requested from a balancer, or sent back as a task. *)
Claims(s) == {m \in network : m.server = s /\ m.type \in {"pull", "task"}}

(***************************************************************************)
(* Server::input starts whatever arrives without looking at its slots.     *)
(* Still, the tasks a server runs and the tasks on their way to it never   *)
(* exceed its slots, and its two counters say exactly how many of each     *)
(* there are.                                                              *)
(***************************************************************************)
CapacityRespected ==
  \A s \in Servers :
    /\ in_flight[s] = Cardinality(serving[s])
    /\ pending_pulls[s] = Cardinality(Claims(s))
    /\ in_flight[s] + pending_pulls[s] <= MaxConcurrency

(***************************************************************************)
(* fatal_pull_abort is never reached: a bound pull finds its task in the   *)
(* balancer's queue, an unbound pull finds some task.                      *)
(***************************************************************************)
NoPullAbort == status # "aborted"

(* Intents of l for s in flight or turned into a pull, and those s keeps. *)
IntentMessages(l, s) ==
  {m \in network : m.lb = l /\ m.server = s /\ m.type \in {"intent", "pull"}}
KeptIntents(l, s) ==
  {i \in DOMAIN pull_intent_queue[s] : pull_intent_queue[s][i][1] = l}
KeptPositions(l) ==
  UNION {{s} \X KeptIntents(l, s) : s \in Servers}

(***************************************************************************)
(* Intents and queued tasks stay in one-to-one correspondence: a balancer  *)
(* has as many unanswered intents as queued tasks, and when pulls are      *)
(* bound the intents name exactly the queued tasks.                        *)
(***************************************************************************)
IntentsMatchQueue ==
  \A l \in LBs :
    LET inFlight == UNION {IntentMessages(l, s) : s \in Servers}
        named == {m.id : m \in inFlight}
                   \cup {pull_intent_queue[p[1]][p[2]][2] : p \in KeptPositions(l)}
    IN /\ Len(queue[l]) = Cardinality(inFlight) + Cardinality(KeptPositions(l))
       /\ bound => named = {queue[l][i] : i \in DOMAIN queue[l]}

(***************************************************************************)
(* pull_intent_load, the load the pull policy compares, is the number of   *)
(* the balancer's intents the server has not answered; saturating_sub      *)
(* never hides an extra answer.                                            *)
(***************************************************************************)
PullIntentLoadExact ==
  \A l \in LBs, s \in Servers :
    pull_intent_load[l][s] =
      Cardinality(IntentMessages(l, s)) + Cardinality(KeptIntents(l, s))

(***************************************************************************)
(* local_inflight counts the tasks sent to the server whose release the    *)
(* balancer has not handled: none is released twice or never counted.      *)
(***************************************************************************)
InFlightAccounting ==
  \A l \in LBs, s \in Servers :
    local_inflight[l][s] =
      Cardinality({m \in network :
                     m.lb = l /\ m.server = s /\ m.type \in {"task", "release"}})
      + Cardinality({t \in serving[s] : t[1] = l})

(***************************************************************************)
(* A server answers one intent per handler run, yet no slot is left idle:  *)
(* once no message is in flight (simulated time is about to advance), a    *)
(* balancer with queued tasks has an intent at a server all of whose slots *)
(* are busy, and every server that keeps an intent is such a server.       *)
(***************************************************************************)
TasksWaitOnlyForBusyServers ==
  network = {} =>
    /\ \A l \in LBs : queue[l] # <<>> =>
         \E s \in Subset[l] : KeptIntents(l, s) # {}
    /\ \A s \in Servers : pull_intent_queue[s] # <<>> =>
         Cardinality(serving[s]) = MaxConcurrency

(* All the tasks of a run. *)
AllTasks == UNION {{l} \X (0 .. TaskCount[l] - 1) : l \in LBs}

(***************************************************************************)
(* The protocol implements TaskService: every task is started once, at an  *)
(* eligible server with a free slot, and every submitted task finishes.    *)
(***************************************************************************)
Service == INSTANCE TaskService WITH
  Tasks <- AllTasks,
  Eligible <- {p \in AllTasks \X Servers : p[2] \in Subset[p[1][1]]},
  submitted <- UNION {{l} \X (0 .. next_task_id[l] - 1) : l \in LBs},
  running <- serving,
  done <- finished

ServiceSpec == Service!Spec
=============================================================================
