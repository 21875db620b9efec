---------------------------- MODULE ExpressLane ----------------------------
(***************************************************************************)
(* `lb --expresslane`: push dispatch over the regular servers composed     *)
(* with one express balancer and its servers, which run the centralized    *)
(* pull protocol on the evicted tasks (run_push_simulation in              *)
(* src/src/lb_simulate.rs).                                                *)
(*                                                                         *)
(* The express side is CentralizedPull with one balancer; its messages are *)
(* handled before time moves.  Its service times are left free, so every   *)
(* schedule in which an express service ends is there.                     *)
(***************************************************************************)
EXTENDS PushDispatch

CONSTANTS
  ExpressServers,  \* the last --express-size servers
  Express          \* express_lb_id

ASSUME ExpressLaneAssumption ==
  /\ IsFiniteSet(ExpressServers)
  /\ ExpressServers # {}
  /\ ExpressServers \cap Servers = {}

VARIABLES
  handed,  \* evicted tasks in the order the express balancer received them
  \* CentralizedPull
  x_next_task_id, x_queue, x_waiting_servers, x_local_inflight,
  x_in_flight, x_serving,
  x_requested, x_pulls, x_tasks, x_releases, x_finished

xvars == <<x_next_task_id, x_queue, x_waiting_servers, x_local_inflight, x_in_flight,
           x_serving, x_requested, x_pulls, x_tasks, x_releases, x_finished>>

(* The express balancer names the evicted tasks 0, 1, 2, ... *)
X == INSTANCE CentralizedPull WITH
  LBs <- {Express},
  Servers <- ExpressServers,
  Home <- [s \in ExpressServers |-> Express],
  TaskCount <- [l \in {Express} |-> Cardinality(LBs) * TaskCount],
  next_task_id <- x_next_task_id,
  queue <- x_queue,
  waiting_servers <- x_waiting_servers,
  local_inflight <- x_local_inflight,
  in_flight <- x_in_flight,
  serving <- x_serving,
  requested <- x_requested,
  pulls <- x_pulls,
  tasks <- x_tasks,
  releases <- x_releases,
  finished <- x_finished

allVars == <<vars, handed, xvars>>

(* The evicted task with a given name. *)
EvictedTask(t) == handed[t[2] + 1]

ExpressInit ==
  /\ Init
  /\ handed = <<>>
  /\ X!Init

-----------------------------------------------------------------------------
(* LoadBalancer::input of the express balancer *)
ExpressInput(x) ==
  /\ x \in evicted
  /\ \A i \in DOMAIN handed : handed[i] # x
  /\ handed' = Append(handed, x)
  /\ X!Input(Express)
  /\ UNCHANGED vars

(* Seeded bug: the client's balancer is told that the express server is free. *)
ExpressCompleteNoOrigin(s, t) ==
  LET x == EvictedTask(t) IN
  /\ X!Complete(s, t)
  /\ finished' = finished \cup {x.task}
  /\ evicted' = evicted \ {x}
  /\ UNCHANGED <<handed, overflow, now, arrived, local_inflight, server_inbox, server, lb_inbox>>

(***************************************************************************)
(* Server::complete of an express server: a release to the express         *)
(* balancer, and one for the origin server to the client's balancer, whose *)
(* lb_id and origin_server_idx the task still carries                      *)
(* (preserve_client_metadata).                                             *)
(***************************************************************************)
ExpressComplete(s, t) ==
  LET x == EvictedTask(t) IN
  /\ X!Complete(s, t)
  /\ finished' = finished \cup {x.task}
  /\ evicted' = evicted \ {x}
  /\ lb_inbox' = Send(lb_inbox, x.task.lb,
                      << [type |-> "release", server |-> x.origin, task |-> x.task] >>)
  /\ UNCHANGED <<handed, overflow, now, arrived, local_inflight, server_inbox, server>>

(* The other handlers of the express balancer and its servers *)
ExpressStep(s) ==
  /\ \/ X!RequestPull(s)
     \/ X!Pull(s)
     \/ X!Release(s)
     \/ \E p \in x_tasks : p[2] = s /\ X!ServerInput(p[1], s)
  /\ UNCHANGED <<vars, handed>>

(***************************************************************************)
(* No message is in a mailbox of the express side, and the warm start,     *)
(* which is scheduled one nanosecond into the run, is not overdue.         *)
(***************************************************************************)
ExpressQuiet ==
  /\ \A x \in evicted : \E i \in DOMAIN handed : handed[i] = x
  /\ x_tasks = {}
  /\ \A s \in ExpressServers : x_pulls[s] = 0 /\ x_releases[s] = 0
  /\ now > 0 => \A s \in ExpressServers : x_requested[s] = 0

ExpressTick == Tick /\ ExpressQuiet

(* The handlers of the regular side *)
RegularStep ==
  /\ \/ \E l \in LBs : LBReceive(l) \/ \E d \in Durations : Arrive(l, d)
     \/ \E s \in Servers :
          \/ ServerInput(s)
          \/ \E timer \in server[s].timers : TimerFires(s, timer)
          \/ \E c \in server[s].completions : Complete(s, c)
     \/ ExpressTick
  /\ UNCHANGED <<handed, xvars>>

ExpressFinished ==
  /\ evicted = {}
  /\ ExpressQuiet
  /\ Finished
  /\ UNCHANGED <<handed, xvars>>

ExpressNext ==
  \/ RegularStep
  \/ \E x \in evicted : ExpressInput(x)
  \/ \E s \in ExpressServers :
       \/ ExpressStep(s)
       \/ \E t \in x_serving[s] : ExpressComplete(s, t)
  \/ ExpressFinished

(* As in PushDispatch and CentralizedPull. *)
ExpressFairness ==
  /\ \A l \in LBs : WF_allVars(LBReceive(l) /\ UNCHANGED <<handed, xvars>>)
  /\ \A s \in Servers :
       /\ WF_allVars(ServerInput(s) /\ UNCHANGED <<handed, xvars>>)
       /\ WF_allVars((\E timer \in server[s].timers : TimerFires(s, timer))
                       /\ UNCHANGED <<handed, xvars>>)
       /\ WF_allVars((\E c \in server[s].completions : Complete(s, c))
                       /\ UNCHANGED <<handed, xvars>>)
  /\ WF_allVars(ExpressTick /\ UNCHANGED <<handed, xvars>>)
  /\ WF_allVars(\E x \in evicted : ExpressInput(x))
  /\ \A s \in ExpressServers :
       /\ WF_allVars(X!RequestPull(s) /\ UNCHANGED <<vars, handed>>)
       /\ WF_allVars(X!Pull(s) /\ UNCHANGED <<vars, handed>>)
       /\ WF_allVars(X!Release(s) /\ UNCHANGED <<vars, handed>>)
       /\ WF_allVars((\E p \in x_tasks : p[2] = s /\ X!ServerInput(p[1], s))
                       /\ UNCHANGED <<vars, handed>>)
       /\ WF_allVars(\E t \in x_serving[s] : ExpressComplete(s, t))

ExpressSafety == ExpressInit /\ [][ExpressNext]_allVars
ExpressSpec == ExpressSafety /\ ExpressFairness

-----------------------------------------------------------------------------
(* Properties *)

(***************************************************************************)
(* Nothing is evicted twice or evicted and also run by its regular server: *)
(* the tasks handed over are distinct, and those not completed are         *)
(* evicted and nowhere on the regular side.                                *)
(***************************************************************************)
EvictedOnce ==
  /\ \A i, j \in DOMAIN handed : handed[i].task = handed[j].task => i = j
  /\ \A x \in evicted :
       \A s \in Servers :
         /\ x.task \notin {server[s].queue[i] : i \in DOMAIN server[s].queue}
         /\ x.task \notin {c.task : c \in server[s].completions}
  /\ evicted \cap {handed[i] : i \in DOMAIN handed}
       = {handed[i] : i \in {j \in DOMAIN handed : <<Express, j - 1>> \notin x_finished}}

(* A regular queue never holds more than --express-th tasks. *)
DepthBounded ==
  overflow \in {"depth", "combined"} =>
    \A s \in Servers : Len(server[s].queue) <= DepthThreshold

(***************************************************************************)
(* The regular and the express servers together implement the task         *)
(* service; an express server may run any client's task.                   *)
(***************************************************************************)
Pool == INSTANCE TaskService WITH
  Tasks <- Task,
  Servers <- Servers \cup ExpressServers,
  Eligible <- {p \in Task \X (Servers \cup ExpressServers) :
                 p[2] \in Subset[p[1].lb] \cup ExpressServers},
  submitted <- arrived,
  running <- [s \in Servers \cup ExpressServers |->
                IF s \in Servers THEN {c.task : c \in server[s].completions}
                ELSE {EvictedTask(t).task : t \in x_serving[s]}],
  done <- finished

PoolSafety == Pool!Safety
=============================================================================
