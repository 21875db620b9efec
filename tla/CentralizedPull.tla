-------------------------- MODULE CentralizedPull --------------------------
(***************************************************************************)
(* `lb --lb-policy centralized`: one balancer per server subset keeps the  *)
(* only queue; a server announces each free slot with an anonymous pull,   *)
(* and a pull that finds no task waits in waiting_servers                  *)
(* (src/src/load_balancer.rs, src/src/server.rs, sim_util.rs).             *)
(*                                                                         *)
(* One action is one handler run.  Messages in flight are unordered and a  *)
(* service may end at any step, which contains every schedule of the       *)
(* simulator; several clients of one balancer are one stream of arrivals.  *)
(***************************************************************************)
EXTENDS Naturals, Sequences, SequencesExt, FiniteSets, FiniteSetsExt

CONSTANTS
  LBs,             \* balancers, one per subset
  Servers,
  Home,            \* Home[s]: the balancer server s pulls from (server_to_lb)
  MaxConcurrency,  \* Server::max_concurrency
  TaskCount        \* TaskCount[l]: tasks arriving at l; the bound of a run

ASSUME CentralizedPullAssumption ==
  /\ IsFiniteSet(Servers)
  /\ Home \in [Servers -> LBs]
  /\ \A l \in LBs : \E s \in Servers : Home[s] = l
  /\ MaxConcurrency \in Nat \ {0}
  /\ TaskCount \in [LBs -> Nat]

VARIABLES
  \* LoadBalancer
  next_task_id,     \* next_task_id[l]
  queue,            \* queue[l]: ids of the waiting tasks, oldest first
  waiting_servers,  \* waiting_servers[l]: a server stands here once per unanswered pull
  local_inflight,   \* local_inflight[s], kept by the balancer of s
  \* Server
  in_flight,        \* in_flight[s]
  serving,          \* serving[s]: tasks with a scheduled `complete` event
  \* nexosim and the sink
  requested,        \* requested[s]: `request_pull` events of the warm start to come
  pulls,            \* pulls[s]: pulls of s in flight (they are indistinguishable)
  tasks,            \* <<task, server>> pairs in flight to Server::input
  releases,         \* releases[s]: releases in flight
  finished          \* tasks received by the statistics sink

lbVars == <<next_task_id, queue, waiting_servers, local_inflight>>
serverVars == <<in_flight, serving>>
vars == <<lbVars, serverVars, requested, pulls, tasks, releases, finished>>

Task == LBs \X Nat

(* schedule_initial_pulls: one request_pull per slot of every server. *)
Init ==
  /\ next_task_id = [l \in LBs |-> 0]
  /\ queue = [l \in LBs |-> <<>>]
  /\ waiting_servers = [l \in LBs |-> <<>>]
  /\ local_inflight = [s \in Servers |-> 0]
  /\ in_flight = [s \in Servers |-> 0]
  /\ serving = [s \in Servers |-> {}]
  /\ requested = [s \in Servers |-> MaxConcurrency]
  /\ pulls = [s \in Servers |-> 0]
  /\ tasks = {}
  /\ releases = [s \in Servers |-> 0]
  /\ finished = {}

-----------------------------------------------------------------------------
(* LoadBalancer *)

(* dispatch_to_server for the k oldest tasks of q and the k first of servers. *)
Dispatch(l, q, servers, k) ==
  /\ local_inflight' =
       [s \in Servers |-> local_inflight[s]
                            + Cardinality({i \in 1 .. k : servers[i] = s})]
  /\ tasks' = tasks \cup {<< <<l, q[i]>>, servers[i]>> : i \in 1 .. k}

(* Seeded bug: the arriving task is left to the next pull. *)
InputWithoutDispatch(l) ==
  LET id == next_task_id[l] IN
  /\ id < TaskCount[l]
  /\ next_task_id' = [next_task_id EXCEPT ![l] = id + 1]
  /\ queue' = [queue EXCEPT ![l] = Append(@, id)]
  /\ UNCHANGED <<waiting_servers, local_inflight, tasks, serverVars, requested, pulls, releases,
                 finished>>

(***************************************************************************)
(* LoadBalancer::input, centralized branch, with dispatch_waiting: servers *)
(* are popped as long as there is a task for them.                         *)
(***************************************************************************)
Input(l) ==
  LET id == next_task_id[l]
      q  == Append(queue[l], id)
      k  == Min({Len(q), Len(waiting_servers[l])})
  IN
  /\ id < TaskCount[l]
  /\ next_task_id' = [next_task_id EXCEPT ![l] = id + 1]
  /\ Dispatch(l, q, waiting_servers[l], k)
  /\ queue' = [queue EXCEPT ![l] = SubSeq(q, k + 1, Len(q))]
  /\ waiting_servers' =
       [waiting_servers EXCEPT ![l] = SubSeq(@, k + 1, Len(@))]
  /\ UNCHANGED <<serverVars, requested, pulls, releases, finished>>

(* Seeded bugs: a pull with no task is dropped; the newest task is taken. *)
PullNotParked(s) ==
  LET l == Home[s] IN
  /\ pulls[s] > 0
  /\ pulls' = [pulls EXCEPT ![s] = @ - 1]
  /\ IF queue[l] = <<>>
     THEN UNCHANGED <<queue, waiting_servers, local_inflight, tasks>>
     ELSE /\ Dispatch(l, queue[l], <<s>>, 1)
          /\ queue' = [queue EXCEPT ![l] = Tail(@)]
          /\ UNCHANGED waiting_servers
  /\ UNCHANGED <<next_task_id, serverVars, requested, releases, finished>>

PullNewest(s) ==
  LET l == Home[s] IN
  /\ pulls[s] > 0
  /\ pulls' = [pulls EXCEPT ![s] = @ - 1]
  /\ IF queue[l] = <<>>
     THEN /\ waiting_servers' = [waiting_servers EXCEPT ![l] = Append(@, s)]
          /\ UNCHANGED <<queue, local_inflight, tasks>>
     ELSE /\ Dispatch(l, <<Last(queue[l])>>, <<s>>, 1)
          /\ queue' = [queue EXCEPT ![l] = Front(@)]
          /\ UNCHANGED waiting_servers
  /\ UNCHANGED <<next_task_id, serverVars, requested, releases, finished>>

(* LoadBalancer::pull, the branch that is not amphiqueue *)
Pull(s) ==
  LET l == Home[s] IN
  /\ pulls[s] > 0
  /\ pulls' = [pulls EXCEPT ![s] = @ - 1]
  /\ \/ /\ queue[l] = <<>>
        /\ waiting_servers' = [waiting_servers EXCEPT ![l] = Append(@, s)]
        /\ UNCHANGED <<queue, local_inflight, tasks>>
     \/ /\ queue[l] # <<>>
        /\ Dispatch(l, queue[l], <<s>>, 1)
        /\ queue' = [queue EXCEPT ![l] = Tail(@)]
        /\ UNCHANGED waiting_servers
  /\ UNCHANGED <<next_task_id, serverVars, requested, releases, finished>>

(* LoadBalancer::release: saturating_sub. *)
Release(s) ==
  /\ releases[s] > 0
  /\ releases' = [releases EXCEPT ![s] = @ - 1]
  /\ local_inflight' = [local_inflight EXCEPT ![s] = IF @ = 0 THEN 0 ELSE @ - 1]
  /\ UNCHANGED <<next_task_id, queue, waiting_servers, serverVars, requested, pulls, tasks,
                 finished>>

-----------------------------------------------------------------------------
(* Server *)

(* Server::request_pull: a full server does not ask. *)
RequestPull(s) ==
  /\ requested[s] > 0
  /\ requested' = [requested EXCEPT ![s] = @ - 1]
  /\ pulls' = IF in_flight[s] < MaxConcurrency
              THEN [pulls EXCEPT ![s] = @ + 1]
              ELSE pulls
  /\ UNCHANGED <<lbVars, serverVars, tasks, releases, finished>>

(* Server::input in Centralized mode with begin_service *)
ServerInput(t, s) ==
  /\ <<t, s>> \in tasks
  /\ tasks' = tasks \ {<<t, s>>}
  /\ in_flight' = [in_flight EXCEPT ![s] = @ + 1]
  /\ serving' = [serving EXCEPT ![s] = @ \cup {t}]
  /\ UNCHANGED <<lbVars, requested, pulls, releases, finished>>

(* Seeded bugs: the freed slot is announced twice; the release is forgotten. *)
CompletePullsTwice(s, t) ==
  /\ t \in serving[s]
  /\ serving' = [serving EXCEPT ![s] = @ \ {t}]
  /\ finished' = finished \cup {t}
  /\ releases' = [releases EXCEPT ![s] = @ + 1]
  /\ in_flight' = [in_flight EXCEPT ![s] = @ - 1]
  /\ pulls' = [pulls EXCEPT ![s] = @ + 2]
  /\ UNCHANGED <<lbVars, requested, tasks>>

CompleteWithoutRelease(s, t) ==
  /\ t \in serving[s]
  /\ serving' = [serving EXCEPT ![s] = @ \ {t}]
  /\ finished' = finished \cup {t}
  /\ in_flight' = [in_flight EXCEPT ![s] = @ - 1]
  /\ pulls' = [pulls EXCEPT ![s] = @ + 1]
  /\ UNCHANGED <<lbVars, requested, tasks, releases>>

(* Seeded bug: the slot is given back twice. *)
CompleteTwice(s, t) ==
  /\ t \in serving[s]
  /\ serving' = [serving EXCEPT ![s] = @ \ {t}]
  /\ finished' = finished \cup {t}
  /\ releases' = [releases EXCEPT ![s] = @ + 1]
  /\ in_flight' = [in_flight EXCEPT ![s] = @ - 2]
  /\ pulls' = [pulls EXCEPT ![s] = @ + 1]
  /\ UNCHANGED <<lbVars, requested, tasks>>

(* Server::complete in Centralized mode *)
Complete(s, t) ==
  /\ t \in serving[s]
  /\ serving' = [serving EXCEPT ![s] = @ \ {t}]
  /\ finished' = finished \cup {t}
  /\ releases' = [releases EXCEPT ![s] = @ + 1]
  /\ in_flight' = [in_flight EXCEPT ![s] = @ - 1]
  /\ pulls' = [pulls EXCEPT ![s] = @ + 1]
  /\ UNCHANGED <<lbVars, requested, tasks>>

-----------------------------------------------------------------------------
(* Nothing is scheduled or in flight any more: simu.run() returns. *)
Finished ==
  /\ \A l \in LBs : next_task_id[l] = TaskCount[l]
  /\ tasks = {}
  /\ \A s \in Servers : /\ requested[s] = 0 /\ pulls[s] = 0 /\ releases[s] = 0
                        /\ serving[s] = {}
  /\ UNCHANGED vars

Next ==
  \/ \E l \in LBs : Input(l)
  \/ \E s \in Servers :
       \/ RequestPull(s)
       \/ Pull(s)
       \/ Release(s)
       \/ \E p \in tasks : p[2] = s /\ ServerInput(p[1], s)
       \/ \E t \in serving[s] : Complete(s, t)
  \/ Finished

(* SimInit::run handles every event and message. *)
Fairness ==
  /\ \A l \in LBs : WF_vars(Input(l))
  /\ \A s \in Servers :
       /\ WF_vars(RequestPull(s))
       /\ WF_vars(Pull(s))
       /\ WF_vars(Release(s))
       /\ WF_vars(\E p \in tasks : p[2] = s /\ ServerInput(p[1], s))
       /\ WF_vars(\E t \in serving[s] : Complete(s, t))

Safety == Init /\ [][Next]_vars
Spec == Safety /\ Fairness

-----------------------------------------------------------------------------
(* Properties *)

TypeOK ==
  /\ next_task_id \in [LBs -> Nat]
  /\ queue \in [LBs -> Seq(Nat)]
  /\ waiting_servers \in [LBs -> Seq(Servers)]
  /\ local_inflight \in [Servers -> Nat]
  /\ in_flight \in [Servers -> Nat]
  /\ serving \in [Servers -> SUBSET Task]
  /\ requested \in [Servers -> Nat]
  /\ pulls \in [Servers -> Nat]
  /\ tasks \subseteq Task \X Servers
  /\ releases \in [Servers -> Nat]
  /\ finished \subseteq Task

(* Slots of s standing in waiting_servers, and claimed by a task on its way. *)
Parked(s) == {i \in DOMAIN waiting_servers[Home[s]] : waiting_servers[Home[s]][i] = s}
Incoming(s) == {p \in tasks : p[2] = s}

(***************************************************************************)
(* A slot is in exactly one place: not announced yet, announced by a pull  *)
(* in flight, parked at the balancer, claimed by a task on its way, or     *)
(* busy.  So a server never gets a task it has no slot for (Server::input  *)
(* does not check), no slot is ever lost, and request_pull never finds the *)
(* server full.                                                            *)
(***************************************************************************)
SlotConservation ==
  \A s \in Servers :
    /\ in_flight[s] = Cardinality(serving[s])
    /\ requested[s] + pulls[s] + Cardinality(Parked(s))
         + Cardinality(Incoming(s)) + in_flight[s] = MaxConcurrency

(* A balancer never holds a task and an idle slot at the same time. *)
NoTaskWaitsWithSlot ==
  \A l \in LBs : queue[l] = <<>> \/ waiting_servers[l] = <<>>

(***************************************************************************)
(* A task is dispatched only after every older task of its balancer,       *)
(* whichever server asks first.                                            *)
(***************************************************************************)
DispatchInArrivalOrder ==
  \A l \in LBs :
    queue[l] = [i \in 1 .. Len(queue[l]) |-> next_task_id[l] - Len(queue[l]) + i - 1]

(***************************************************************************)
(* local_inflight counts the tasks sent to the server whose release the    *)
(* balancer has not handled.                                               *)
(***************************************************************************)
InFlightAccounting ==
  \A s \in Servers :
    local_inflight[s] = Cardinality(Incoming(s)) + in_flight[s] + releases[s]

AllTasks == UNION {{l} \X (0 .. TaskCount[l] - 1) : l \in LBs}

(***************************************************************************)
(* Pull dispatch implements the same service as the other policies: each   *)
(* task runs once, on a server of its balancer's subset with a free slot.  *)
(***************************************************************************)
Service == INSTANCE TaskService WITH
  Tasks <- AllTasks,
  Eligible <- {p \in AllTasks \X Servers : Home[p[2]] = p[1][1]},
  submitted <- UNION {{l} \X (0 .. next_task_id[l] - 1) : l \in LBs},
  running <- serving,
  done <- finished

ServiceSpec == Service!Spec
=============================================================================
