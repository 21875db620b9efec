---------------------------- MODULE PushDispatch ----------------------------
(***************************************************************************)
(* `lb` with a push policy: balancers send each task to a server at once,  *)
(* servers queue what they cannot start, and an overloaded server gives a  *)
(* queued task up: back to its client's balancer (--shed-delay) or to the  *)
(* express lane (--expresslane)                                            *)
(* (src/src/server.rs, src/src/load_balancer.rs).                          *)
(*                                                                         *)
(* Time is discrete.  An action is one handler run; what a handler sends   *)
(* is handled, and what is due at an instant happens, before time moves.   *)
(* Mailboxes are FIFO.  Events of one server that are due at the same      *)
(* instant run in the order they were scheduled; between the events of two *)
(* servers, and between events and mailboxes, any order is possible.       *)
(***************************************************************************)
EXTENDS Integers, Sequences, SequencesExt, FiniteSets, FiniteSetsExt

CONSTANTS
  LBs,             \* client load balancers (lb_id)
  Servers,         \* the regular servers
  Subset,          \* Subset[l]: servers of l (server_indices)
  MaxConcurrency,  \* Server::max_concurrency
  Durations,       \* service times a task may have
  Overflows,       \* the overflow policies a run may be given
  DepthThreshold,  \* --express-th
  DelayThreshold,  \* --shed-delay or --express-del-th
  Simultaneous,    \* may two clients have arrivals at the same instant?
  TaskCount,       \* most tasks of a client; the bound of a run
  Horizon          \* last instant of an arrival; the bound of a run

ASSUME PushDispatchAssumption ==
  /\ IsFiniteSet(LBs)
  /\ IsFiniteSet(Servers)
  /\ Subset \in [LBs -> SUBSET Servers]
  /\ \A l \in LBs : Subset[l] # {}
  /\ MaxConcurrency \in Nat \ {0}
  /\ Durations \subseteq Nat \ {0}
  /\ Overflows \subseteq {"shed", "depth", "monitored", "ideal", "combined"}
  /\ DepthThreshold \in Nat
  /\ DelayThreshold \in Nat \ {0}
  /\ Simultaneous \in BOOLEAN
  /\ TaskCount \in Nat
  /\ Horizon \in Nat

VARIABLES
  overflow,        \* policy of this run: --shed-delay, --express-th, --express-del-th,
                   \* --express-del-th --ideal, --express-th --express-del-th
  now,             \* cx.time()
  arrived,         \* tasks their clients have issued
  local_inflight,  \* local_inflight[l][s] of LoadBalancer
  lb_inbox,        \* lb_inbox[l]: mailbox of a balancer
  server_inbox,    \* server_inbox[s]: mailbox of a server
  server,          \* server[s]: the fields of Server and its scheduled events
  evicted,         \* tasks handed to the express balancer, with their origin_server_idx
  finished         \* tasks received by the statistics sink

vars == <<overflow, now, arrived, local_inflight, lb_inbox, server_inbox, server, evicted,
          finished>>

(* A client's tasks have distinct starts; two clients' tasks may not. *)
Task == [lb : LBs, start : 1 .. Horizon, duration : Durations]

(* `server` is the sender of a release or of a shed task. *)
LBMessage == [type : {"release", "input"}, server : Servers, task : Task]

(***************************************************************************)
(* A server: its FIFO queue, its in-flight counter, in_flight_services,    *)
(* pending_sheds or pending_evictions (one of the two is in use), and what *)
(* the scheduler holds for it: overflow timers not cancelled, completions. *)
(* A timer carries only a start; `lb` tells apart two with the same start. *)
(* `scheduled` counts the events scheduled so far and numbers them: nth.   *)
(***************************************************************************)
Timer == [start : 1 .. Horizon, lb : LBs, at : Nat, nth : Nat]
Completion == [task : Task, started_at : Nat, at : Nat, nth : Nat]
InFlightService == [started_at : Nat, duration : Durations]

IdleServer ==
  [queue |-> <<>>, in_flight |-> 0, in_flight_services |-> <<>>,
   pending |-> <<>>, timers |-> {}, completions |-> {}, scheduled |-> 0]

Init ==
  /\ overflow \in Overflows
  /\ now = 0
  /\ arrived = {}
  /\ local_inflight = [l \in LBs |-> [s \in Servers |-> 0]]
  /\ lb_inbox = [l \in LBs |-> <<>>]
  /\ server_inbox = [s \in Servers |-> <<>>]
  /\ server = [s \in Servers |-> IdleServer]
  /\ evicted = {}
  /\ finished = {}

-----------------------------------------------------------------------------
(* Server: decisions *)

(* now - started_at > threshold for some task in service *)
HeadOfLineExceeds(v) ==
  \E i \in DOMAIN v.in_flight_services :
    now - v.in_flight_services[i].started_at > DelayThreshold

Remaining(svc) == Max({0, svc.duration - (now - svc.started_at)})

(* ideal_queue_delay_estimate; the new task is in the queue already. *)
IdealQueueDelay(v) ==
  FoldLeft(LAMBDA sum, t : sum + t.duration, 0, v.queue)
    + IF v.in_flight_services = <<>> THEN 0
      ELSE Min({Remaining(v.in_flight_services[i]) : i \in DOMAIN v.in_flight_services})

(* Seeded bug: the depth is that of the queue without the new task. *)
GivesUpNowDepthBefore(v) ==
  \/ overflow \in {"depth", "combined"} /\ Len(v.queue) - 1 > DepthThreshold
  \/ overflow \in {"shed", "monitored", "ideal", "combined"} /\ HeadOfLineExceeds(v)
  \/ overflow = "ideal" /\ IdealQueueDelay(v) > DelayThreshold

(***************************************************************************)
(* apply_enqueue_eviction and apply_work_shedding_on_enqueue: give up the  *)
(* newest task now, or set a timer for it.  At most one of the two is      *)
(* configured (validate_work_shedding).                                    *)
(***************************************************************************)
GivesUpNow(v) ==
  \/ overflow \in {"depth", "combined"} /\ Len(v.queue) > DepthThreshold
  \/ overflow \in {"shed", "monitored", "ideal", "combined"} /\ HeadOfLineExceeds(v)
  \/ overflow = "ideal" /\ IdealQueueDelay(v) > DelayThreshold

GivesUpLater(v) ==
  /\ overflow \in {"shed", "monitored", "combined"}
  /\ ~GivesUpNow(v)
  /\ IdealQueueDelay(v) > DelayThreshold

-----------------------------------------------------------------------------
(* Server: changes of state *)

(* Of the events due together, the one scheduled first runs first. *)
InTurn(v, e) ==
  /\ e.at = now
  /\ \A f \in v.timers \cup v.completions : f.at = now => e.nth <= f.nth

(* cancel_pending_shed and cancel_pending_eviction: the first with the start. *)
CancelPending(v, start) ==
  LET i == SelectInSeq(v.pending, LAMBDA e : e.start = start) IN
  IF i = 0 THEN v
  ELSE [v EXCEPT !.pending = RemoveAt(@, i), !.timers = @ \ {v.pending[i]}]

(* Seeded bug: the task's timer is left running. *)
BeginServiceKeepingTimer(v, t) ==
  [v EXCEPT !.in_flight_services = Append(@, [started_at |-> now, duration |-> t.duration]),
            !.in_flight = @ + 1,
            !.completions =
               @ \cup {[task |-> t, started_at |-> now, at |-> now + t.duration,
                        nth |-> v.scheduled]},
            !.scheduled = @ + 1]

(* begin_service; durations are positive, so `complete` is always scheduled. *)
BeginService(v, t) ==
  [CancelPending(v, t.start) EXCEPT
     !.in_flight_services = Append(@, [started_at |-> now, duration |-> t.duration]),
     !.in_flight = @ + 1,
     !.completions = @ \cup {[task |-> t, started_at |-> now, at |-> now + t.duration,
                              nth |-> v.scheduled]},
     !.scheduled = @ + 1]

(* drain_queue: tasks are started in order while slots are free. *)
DrainQueue(v) ==
  LET k == Max({0, Min({Len(v.queue), MaxConcurrency - v.in_flight})})
  IN FoldLeft(BeginService,
              [v EXCEPT !.queue = SubSeq(@, k + 1, Len(@))],
              SubSeq(v.queue, 1, k))

(* Seeded bug: the last service to start is taken for the one that ends. *)
RemoveInFlightLast(v, c) == [v EXCEPT !.in_flight_services = Front(@)]

(* remove_in_flight: the first service that started at the same instant. *)
RemoveInFlight(v, c) ==
  [v EXCEPT !.in_flight_services =
     RemoveFirstMatch(@, LAMBDA svc : svc.started_at = c.started_at)]

(* schedule_monitored_shed and schedule_monitored_eviction *)
SetTimer(v, t) ==
  LET timer == [start |-> t.start, lb |-> t.lb, at |-> now + DelayThreshold,
                nth |-> v.scheduled]
  IN [v EXCEPT !.pending = Append(@, timer), !.timers = @ \cup {timer},
                  !.scheduled = @ + 1]

(* retain of pending_sheds and of pending_evictions: the others keep their order. *)
Retain(pending, start) ==
  LET kept[i \in 0 .. Len(pending)] ==
        IF i = 0 THEN <<>>
        ELSE IF pending[i].start = start THEN kept[i - 1]
        ELSE Append(kept[i - 1], pending[i])
  IN kept[Len(pending)]

Send(inbox, l, messages) == [inbox EXCEPT ![l] = @ \o messages]

(* Seeded bug: the shedding server sends no release. *)
ForwardShedWithoutRelease(s, t) ==
  /\ overflow = "shed"
  /\ lb_inbox' = Send(lb_inbox, t.lb,
                      << [type |-> "input", server |-> s, task |-> t] >>)
  /\ UNCHANGED evicted

(* forward_shed: the server is released, then the task goes back. *)
ForwardShed(s, t) ==
  /\ overflow = "shed"
  /\ lb_inbox' = Send(lb_inbox, t.lb,
                      << [type |-> "release", server |-> s, task |-> t],
                         [type |-> "input", server |-> s, task |-> t] >>)
  /\ UNCHANGED evicted

(* forward_evicted: the server stays charged with the task. *)
ForwardEvicted(s, t) ==
  /\ overflow # "shed"
  /\ evicted' = evicted \cup {[task |-> t, origin |-> s]}
  /\ UNCHANGED lb_inbox

Forward(s, t) == ForwardShed(s, t) \/ ForwardEvicted(s, t)

-----------------------------------------------------------------------------
(* Actions of a server *)

(* Seeded bug: one task too many is started. *)
HasSlotOffByOne(v) == v.in_flight <= MaxConcurrency

HasSlot(v) == v.in_flight < MaxConcurrency

(* Server::input in Push mode *)
ServerInput(s) ==
  LET t == Head(server_inbox[s])
      v == [server[s] EXCEPT !.queue = Append(@, t)]
  IN
  /\ server_inbox[s] # <<>>
  /\ server_inbox' = [server_inbox EXCEPT ![s] = Tail(@)]
  /\ \/ /\ HasSlot(server[s])
        /\ server' = [server EXCEPT ![s] = BeginService(@, t)]
        /\ UNCHANGED <<lb_inbox, evicted>>
     \/ /\ ~HasSlot(server[s])
        /\ GivesUpNow(v)
        /\ Forward(s, t)
        /\ UNCHANGED server
     \/ /\ ~HasSlot(server[s])
        /\ ~GivesUpNow(v)
        /\ server' = [server EXCEPT ![s] = IF GivesUpLater(v) THEN SetTimer(v, t) ELSE v]
        /\ UNCHANGED <<lb_inbox, evicted>>
  /\ UNCHANGED <<overflow, now, arrived, local_inflight, finished>>

(***************************************************************************)
(* Seeded bugs: the newest task leaves, whichever the timer was set for;   *)
(* the task is forwarded and stays queued; it is counted out of service.   *)
(***************************************************************************)
TimerFiresNewest(s, timer) ==
  LET v == [server[s] EXCEPT
              !.timers = @ \ {timer},
              !.pending = Retain(@, timer.start)]
  IN
  /\ timer \in server[s].timers
  /\ InTurn(server[s], timer)
  /\ server' = [server EXCEPT ![s] = [v EXCEPT !.queue = Front(@)]]
  /\ Forward(s, Last(v.queue))
  /\ UNCHANGED <<overflow, now, arrived, local_inflight, server_inbox, finished>>

TimerFiresKeepsTask(s, timer) ==
  LET v == [server[s] EXCEPT
              !.timers = @ \ {timer},
              !.pending = Retain(@, timer.start)]
      i == SelectInSeq(v.queue, LAMBDA t : t.start = timer.start)
  IN
  /\ timer \in server[s].timers
  /\ InTurn(server[s], timer)
  /\ server' = [server EXCEPT ![s] = v]
  /\ IF i = 0 THEN UNCHANGED <<lb_inbox, evicted>> ELSE Forward(s, v.queue[i])
  /\ UNCHANGED <<overflow, now, arrived, local_inflight, server_inbox, finished>>

TimerFiresFreesSlot(s, timer) ==
  LET v == [server[s] EXCEPT
              !.timers = @ \ {timer},
              !.in_flight = @ - 1,
              !.pending = Retain(@, timer.start)]
      i == SelectInSeq(v.queue, LAMBDA t : t.start = timer.start)
  IN
  /\ timer \in server[s].timers
  /\ InTurn(server[s], timer)
  /\ i # 0
  /\ server' = [server EXCEPT ![s] = [v EXCEPT !.queue = RemoveAt(@, i)]]
  /\ Forward(s, v.queue[i])
  /\ UNCHANGED <<overflow, now, arrived, local_inflight, server_inbox, finished>>

(***************************************************************************)
(* shed_task and evict_task, run when a timer that was not cancelled is    *)
(* due: the first queued task with the timer's start leaves.               *)
(***************************************************************************)
TimerFires(s, timer) ==
  LET v == [server[s] EXCEPT
              !.timers = @ \ {timer},
              !.pending = Retain(@, timer.start)]
      i == SelectInSeq(v.queue, LAMBDA t : t.start = timer.start)
  IN
  /\ timer \in server[s].timers
  /\ InTurn(server[s], timer)
  /\ \/ /\ i = 0
        /\ server' = [server EXCEPT ![s] = v]
        /\ UNCHANGED <<lb_inbox, evicted>>
     \/ /\ i # 0
        /\ server' = [server EXCEPT ![s] = [v EXCEPT !.queue = RemoveAt(@, i)]]
        /\ Forward(s, v.queue[i])
  /\ UNCHANGED <<overflow, now, arrived, local_inflight, server_inbox, finished>>

(* Server::complete in Push mode *)
Complete(s, c) ==
  LET v == RemoveInFlight(server[s], c) IN
  /\ c \in server[s].completions
  /\ InTurn(server[s], c)
  /\ finished' = finished \cup {c.task}
  /\ lb_inbox' = Send(lb_inbox, c.task.lb,
                      << [type |-> "release", server |-> s, task |-> c.task] >>)
  /\ server' = [server EXCEPT ![s] =
                  DrainQueue([v EXCEPT !.in_flight = @ - 1, !.completions = @ \ {c}])]
  /\ UNCHANGED <<overflow, now, arrived, local_inflight, server_inbox, evicted>>

-----------------------------------------------------------------------------
(* Actions of a balancer *)

(* dispatch_to_server; every policy returns a server of the subset. *)
Dispatch(l, t) ==
  \E s \in Subset[l] :
    /\ local_inflight' = [local_inflight EXCEPT ![l][s] = @ + 1]
    /\ server_inbox' = Send(server_inbox, s, <<t>>)

(***************************************************************************)
(* A scheduled arrival (task_source) and LoadBalancer::input: arrivals are *)
(* at positive offsets, those of one client at distinct ones.              *)
(***************************************************************************)
Arrive(l, duration) ==
  LET t    == [lb |-> l, start |-> now, duration |-> duration]
      mine == {u \in arrived : u.lb = l}
  IN
  /\ now \in 1 .. Horizon
  /\ Cardinality(mine) < TaskCount
  /\ \A u \in IF Simultaneous THEN mine ELSE arrived : u.start < now
  /\ arrived' = arrived \cup {t}
  /\ Dispatch(l, t)
  /\ UNCHANGED <<overflow, now, lb_inbox, server, evicted, finished>>

(* LoadBalancer::input of a shed task *)
Reroute(l, m) ==
  /\ m.type = "input"
  /\ Dispatch(l, m.task)

(* LoadBalancer::release: saturating_sub. *)
Release(l, m) ==
  /\ m.type = "release"
  /\ local_inflight' =
       [local_inflight EXCEPT ![l][m.server] = IF @ = 0 THEN 0 ELSE @ - 1]
  /\ UNCHANGED server_inbox

LBReceive(l) ==
  LET m == Head(lb_inbox[l]) IN
  /\ lb_inbox[l] # <<>>
  /\ lb_inbox' = [lb_inbox EXCEPT ![l] = Tail(@)]
  /\ Reroute(l, m) \/ Release(l, m)
  /\ UNCHANGED <<overflow, now, arrived, server, evicted, finished>>

-----------------------------------------------------------------------------
(* The scheduler *)

Quiet ==
  /\ \A l \in LBs : lb_inbox[l] = <<>>
  /\ \A s \in Servers : server_inbox[s] = <<>>

(* Scheduled events of server s *)
Events(s) == server[s].timers \cup server[s].completions

(* Time moves when nothing is in a mailbox and nothing is due. *)
Tick ==
  /\ Quiet
  /\ \A s \in Servers : \A e \in Events(s) : e.at > now
  /\ now < Horizon \/ \E s \in Servers : Events(s) # {}
  /\ now' = now + 1
  /\ UNCHANGED <<overflow, arrived, local_inflight, lb_inbox, server_inbox, server, evicted,
                 finished>>

(* simu.run() returns when no event is left. *)
Finished ==
  /\ Quiet
  /\ now >= Horizon
  /\ \A s \in Servers : Events(s) = {}
  /\ UNCHANGED vars

Next ==
  \/ \E l \in LBs : LBReceive(l) \/ \E d \in Durations : Arrive(l, d)
  \/ \E s \in Servers :
       \/ ServerInput(s)
       \/ \E timer \in server[s].timers : TimerFires(s, timer)
       \/ \E c \in server[s].completions : Complete(s, c)
  \/ Tick
  \/ Finished

(* Every message is handled, every due event runs, time moves on. *)
Fairness ==
  /\ \A l \in LBs : WF_vars(LBReceive(l))
  /\ \A s \in Servers :
       /\ WF_vars(ServerInput(s))
       /\ WF_vars(\E timer \in server[s].timers : TimerFires(s, timer))
       /\ WF_vars(\E c \in server[s].completions : Complete(s, c))
  /\ WF_vars(Tick)

Safety == Init /\ [][Next]_vars
Spec == Safety /\ Fairness

-----------------------------------------------------------------------------
(* Properties *)

TypeOK ==
  /\ overflow \in Overflows
  /\ now \in Nat
  /\ arrived \subseteq Task
  /\ local_inflight \in [LBs -> [Servers -> Nat]]
  /\ lb_inbox \in [LBs -> Seq(LBMessage)]
  /\ server_inbox \in [Servers -> Seq(Task)]
  /\ \A s \in Servers :
       /\ server[s].queue \in Seq(Task)
       /\ server[s].in_flight \in Nat
       /\ server[s].in_flight_services \in Seq(InFlightService)
       /\ server[s].pending \in Seq(Timer)
       /\ server[s].timers \subseteq Timer
       /\ server[s].completions \subseteq Completion
       /\ server[s].scheduled \in Nat
  /\ evicted \subseteq [task : Task, origin : Servers]
  /\ finished \subseteq Task

(* Positions of a sequence of tasks or messages that l issued. *)
TasksOf(l, q) == {i \in DOMAIN q : q[i].lb = l}

(***************************************************************************)
(* local_inflight, the load push policies compare, counts the tasks sent   *)
(* to a server and not yet released: on the way, queued, in service, or    *)
(* evicted from there to the express lane.  A shed task is released at     *)
(* once, an evicted one by the express server that completes it.           *)
(***************************************************************************)
ReleaseAccounting ==
  \A l \in LBs, s \in Servers :
    local_inflight[l][s] =
      Cardinality(TasksOf(l, server_inbox[s]))
      + Cardinality(TasksOf(l, server[s].queue))
      + Cardinality({c \in server[s].completions : c.task.lb = l})
      + Cardinality({x \in evicted : x.origin = s /\ x.task.lb = l})
      + Cardinality({i \in DOMAIN lb_inbox[l] :
                       lb_inbox[l][i].type = "release" /\ lb_inbox[l][i].server = s})

(***************************************************************************)
(* A timer is never left behind by its task: every event still scheduled   *)
(* is one the server can cancel, and its task is in the queue.             *)
(***************************************************************************)
TimersMatchQueue ==
  \A s \in Servers :
    LET v == server[s] IN
    /\ v.timers = {v.pending[i] : i \in DOMAIN v.pending}
    /\ \A e \in v.timers :
         /\ e.at >= now
         /\ \E i \in DOMAIN v.queue : v.queue[i].lb = e.lb /\ v.queue[i].start = e.start

(***************************************************************************)
(* A timer that was set for a task is given up only when that task leaves  *)
(* the queue, whether it fires or is cancelled, although cancelling and    *)
(* shedding know the task by its start alone (docs/work-shedding.md:56:    *)
(* "if still queued when it fires, shed that task").                       *)
(***************************************************************************)
TimerEndsWithTask ==
  [][\A s \in Servers : \A e \in server[s].timers \ server'[s].timers :
       \A i \in DOMAIN server'[s].queue :
         LET t == server'[s].queue[i] IN t.start # e.start \/ t.lb # e.lb]_vars

(* Every task that arrived is at the sink when the run ends, and it ends. *)
RunCompletes == <>(now >= Horizon /\ finished = arrived)

(***************************************************************************)
(* Push dispatch implements the task service, whatever is shed: a task is  *)
(* started at most once, on a server of its client with a free slot.       *)
(***************************************************************************)
Service == INSTANCE TaskService WITH
  Tasks <- Task,
  Eligible <- {p \in Task \X Servers : p[2] \in Subset[p[1].lb]},
  submitted <- arrived,
  running <- [s \in Servers |-> {c.task : c \in server[s].completions}],
  done <- finished

ServiceSafety == Service!Safety
=============================================================================
