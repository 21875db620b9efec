------------------------------- MODULE Sidecar -------------------------------
(***************************************************************************)
(* `ms --lb-policy amphiqueue-share`: the replicas of one microservice in  *)
(* groups of `share`, each group behind an AmphiQueueServerSidecar         *)
(* (src/src/microservice/sidecar.rs).  The sidecar keeps the intents of    *)
(* callers and hands out pulls by what it knows of its replicas: the last  *)
(* occupancy each reported, its own optimistic count of forwarded ingress, *)
(* and the pulls it has granted.                                           *)
(*                                                                         *)
(* The microservice may be called and be an entry point at the same time.  *)
(* Client sidecars are the shared ReplicaBalancers of the callers; a call  *)
(* of one appears when a caller makes it.  Tasks in Nested call another    *)
(* microservice once and wait for its return.  An action is one handler    *)
(* run, mailboxes are FIFO, and a service may end at any time.             *)
(***************************************************************************)
EXTENDS Integers, Sequences, SequencesExt, FiniteSets, FiniteSetsExt

CONSTANTS
  Calls,           \* calls of other microservices
  Ingress,         \* user requests that enter here
  Nested,          \* tasks that make a child call of their own
  Clients,         \* client sidecars
  ClientOf,        \* ClientOf[q]: the client sidecar of call q
  Deadline,        \* Deadline[q]
  ReplicaCount,    \* replicas of the microservice
  Shares,          \* values --amphiqueue-share may have
  Scheds,          \* values --amphiqueue-sched may have; "bound" is none
  Schedulings,     \* values --scheduling may have: the order of a replica's queue
  MaxConcurrency   \* slots of a replica

Tasks == Calls \cup Ingress
Replicas == 0 .. ReplicaCount - 1

ASSUME SidecarAssumption ==
  /\ IsFiniteSet(Tasks) /\ IsFiniteSet(Clients) /\ Calls \cap Ingress = {} /\ Nested \subseteq Tasks
  /\ ClientOf \in [Calls -> Clients]
  /\ Deadline \in [Tasks -> Nat]
  /\ ReplicaCount \in Nat \ {0}
  /\ Shares \subseteq Nat \ {0}
  /\ Scheds \subseteq {"bound", "fcfs", "edf", "edf+"}
  /\ Schedulings \subseteq {"fifo", "edf"}
  /\ MaxConcurrency \in Nat \ {0}

VARIABLES
  config,    \* share, pull_sched and scheduling, fixed for a run
  arrived,   \* tasks that have come
  client,    \* client[c]: queue and pull_intent_load of a ReplicaBalancer
  sidecar,   \* sidecar[s]: the fields of AmphiQueueServerSidecar
  replica,   \* replica[r]: the fields of Replica, tasks out on a child call
  edge,      \* edge[s]: local_inflight of the EdgeBalancer
  inbox      \* mailboxes

vars == <<config, arrived, client, sidecar, replica, edge, inbox>>

-----------------------------------------------------------------------------
(* Groups *)

(* n_sidecars: the last group may be smaller. *)
SidecarsOf(share) == 0 .. ((ReplicaCount + share - 1) \div share) - 1

(* sidecar_id *)
SidecarId(r) == r \div config.share

(* sidecar_replicas, in index order *)
SidecarReplicas(s, share) ==
  LET end == Min({(s + 1) * share, ReplicaCount})
  IN [i \in 1 .. end - s * share |-> s * share + i - 1]

Sidecars == SidecarsOf(config.share)

AllSidecars == UNION {SidecarsOf(n) : n \in Shares}

ClientBox(c)  == <<"client", c>>
SidecarBox(s) == <<"sidecar", s>>
ReplicaBox(r) == <<"replica", r>>
EdgeBox       == <<"edge", 0>>
Boxes == {ClientBox(c) : c \in Clients} \cup {SidecarBox(s) : s \in AllSidecars}
           \cup {ReplicaBox(r) : r \in Replicas} \cup {EdgeBox}

Init ==
  /\ config \in [share : Shares, pull_sched : Scheds, scheduling : Schedulings]
  /\ arrived = {}
  /\ client = [c \in Clients |->
       [queue |-> <<>>, pull_intent_load |-> [s \in Sidecars |-> 0]]]
  /\ sidecar = [s \in Sidecars |->
       LET zero == [r \in ToSet(SidecarReplicas(s, config.share)) |-> 0]
       IN [occupancy |-> zero, pending_pulls |-> zero, pull_intents |-> <<>>, out |-> <<>>]]
  /\ replica = [r \in Replicas |->
       [queue |-> <<>>, in_flight |-> 0, serving |-> {}, calling |-> {}, done |-> {},
        events |-> <<>>, released |-> 0]]
  /\ edge = [s \in Sidecars |-> 0]
  /\ inbox = [x \in Boxes |-> <<>>]

(* edf_insert_index: before the first item with a strictly later deadline. *)
Enqueue(q, item, edf) ==
  LET i == SelectInSeq(q, LAMBDA x : Deadline[x.task] > Deadline[item.task])
  IN IF edf /\ i # 0 THEN InsertAt(q, i, item) ELSE Append(q, item)

SaturatingDec(n) == IF n = 0 THEN 0 ELSE n - 1

-----------------------------------------------------------------------------
(***************************************************************************)
(* Handlers: v is the state of the model with what it has sent, v.out of a *)
(* sidecar, v.events (to its sidecar) and v.released (releases to the      *)
(* edge) of a replica.                                                     *)
(***************************************************************************)

Receives(x, kinds) == inbox[x] # <<>> /\ Head(inbox[x]).kind \in kinds

Rest(x) == [inbox EXCEPT ![x] = Tail(@)]

Deliver(boxes, out) ==
  FoldLeft(LAMBDA bx, o : [bx EXCEPT ![o.to] = Append(@, o.msg)], boxes, out)

SidecarBecomes(s, v) ==
  /\ sidecar' = [sidecar EXCEPT ![s] = [v EXCEPT !.out = <<>>]]
  /\ inbox' = Deliver(Rest(SidecarBox(s)), v.out)
  /\ UNCHANGED <<config, arrived, client, replica, edge>>

Release(r) == [kind |-> "release", target |-> SidecarId(r)]

ReplicaBecomes(r, v, boxes) ==
  /\ replica' = [replica EXCEPT ![r] = [v EXCEPT !.events = <<>>, !.released = 0]]
  /\ inbox' = [boxes EXCEPT ![SidecarBox(SidecarId(r))] = @ \o v.events,
                            ![EdgeBox] = @ \o [i \in 1 .. v.released |-> Release(r)]]
  /\ UNCHANGED <<config, arrived, client, sidecar, edge>>

-----------------------------------------------------------------------------
(* The sidecar *)

FreeBeside(used) == IF used < MaxConcurrency THEN MaxConcurrency - used ELSE 0

(* Seeded bug: pulls under way are not counted. *)
FreeSlotsNoPending(v, r) == FreeBeside(v.occupancy[r])

(* has_capacity: as many pulls as it allows before the next event *)
FreeSlots(v, r) == FreeBeside(v.occupancy[r] + v.pending_pulls[r])

(* The pull of a client that answers its intent *)
Grant(intent, r) ==
  [to  |-> ClientBox(intent.client),
   msg |-> [kind |-> "pull", server |-> r, target |-> SidecarId(r), task |-> intent.task]]

(* drain_capacity_for_replica: drain_intent_for_replica while both are left *)
DrainCapacity(v, r) ==
  LET n == Min({Len(v.pull_intents), FreeSlots(v, r)}) IN
  [v EXCEPT !.pull_intents = SubSeq(@, n + 1, Len(@)),
            !.pending_pulls[r] = @ + n,
            !.out = @ \o [i \in 1 .. n |-> Grant(v.pull_intents[i], r)]]

(* drain_idle_replicas *)
DrainIdle(v, s) == FoldLeft(DrainCapacity, v, SidecarReplicas(s, config.share))

(* select_replica: least occupancy, ties to the lowest index *)
SelectReplica(v) ==
  LET r_of == DOMAIN v.occupancy
  IN Min({r \in r_of : \A o \in r_of : v.occupancy[r] <= v.occupancy[o]})

(* receive_upstream *)
ReceiveUpstream(s) ==
  LET r == SelectReplica(sidecar[s]) IN
  /\ Receives(SidecarBox(s), {"upstream"})
  /\ sidecar' = [sidecar EXCEPT ![s].occupancy[r] = @ + 1]
  /\ inbox' = [Rest(SidecarBox(s)) EXCEPT ![ReplicaBox(r)] =
                 Append(@, Head(inbox[SidecarBox(s)]))]
  /\ UNCHANGED <<config, arrived, client, replica, edge>>

(* receive_pull_intent *)
ReceivePullIntent(s) ==
  LET edf == config.pull_sched = "edf+" IN
  /\ Receives(SidecarBox(s), {"intent"})
  /\ SidecarBecomes(s,
       DrainIdle([sidecar[s] EXCEPT
                    !.pull_intents = Enqueue(@, Head(inbox[SidecarBox(s)]), edf)], s))

(* Seeded bug: a report of the occupancy starts nothing. *)
OccupancyReportedIdle(v, m) == [v EXCEPT !.occupancy[m.server] = m.level]

OccupancyReported(v, m) ==
  DrainCapacity([v EXCEPT !.occupancy[m.server] = m.level], m.server)

(* capacity_event *)
CapacityEvent(s) ==
  LET m == Head(inbox[SidecarBox(s)])
      v == sidecar[s]
  IN
  \/ /\ Receives(SidecarBox(s), {"pull_arrived"})
     /\ sidecar' = [sidecar EXCEPT ![s].pending_pulls[m.server] = SaturatingDec(@)]
     /\ inbox' = Rest(SidecarBox(s))
     /\ UNCHANGED <<config, arrived, client, replica, edge>>
  \/ /\ Receives(SidecarBox(s), {"completed"})
     /\ SidecarBecomes(s, DrainCapacity(v, m.server))
  \/ /\ Receives(SidecarBox(s), {"occupancy"})
     /\ SidecarBecomes(s, OccupancyReported(v, m))

-----------------------------------------------------------------------------
(* A replica of the group *)

Notify(v, m) == [v EXCEPT !.events = Append(@, m)]

OccupancyLevel(v) == Len(v.queue) + v.in_flight

(* report_occupancy_to_sidecar *)
Report(v, r) ==
  Notify(v, [kind |-> "occupancy", server |-> r, level |-> OccupancyLevel(v)])

(***************************************************************************)
(* advance: a nested task makes its call; any other is finished and, if it *)
(* came through the edge, releases edge_release_idx, its sidecar's.        *)
(***************************************************************************)
Finish(v, hops) ==
  [v EXCEPT !.done = @ \cup {hops[i].task : i \in DOMAIN hops},
            !.released = @ + Cardinality({i \in DOMAIN hops : hops[i].task \in Ingress})]

Advance(v, h) ==
  IF h.kind = "upstream" /\ h.task \in Nested
  THEN [v EXCEPT !.calling = @ \cup {h.task}]
  ELSE Finish(v, <<h>>)

BeginService(v, h) == [v EXCEPT !.in_flight = @ + 1, !.serving = @ \cup {h}]

(* Seeded bug: only a handler that begins a service reports. *)
DrainQueueReportStart(v, r) ==
  IF v.queue # <<>> /\ v.in_flight < MaxConcurrency
  THEN Report(BeginService([v EXCEPT !.queue = Tail(@)], Head(v.queue)), r)
  ELSE v

(* drain_queue: the returns at the head, then one task, then a report *)
DrainQueue(v, r) ==
  LET i == SelectInSeq(v.queue, LAMBDA h : h.kind = "upstream")
      k == IF i = 0 THEN Len(v.queue) ELSE i - 1
      u == Finish([v EXCEPT !.queue = SubSeq(@, k + 1, Len(@))], SubSeq(v.queue, 1, k))
  IN Report(IF v.in_flight >= MaxConcurrency THEN v
            ELSE IF i = 0 THEN u
            ELSE BeginService([u EXCEPT !.queue = Tail(@)], v.queue[i]), r)

(* Seeded bug: the sidecar is not told that the pulled call came. *)
StartPulledUnannounced(r) ==
  LET h == Head(inbox[ReplicaBox(r)]) IN
  /\ Receives(ReplicaBox(r), {"upstream"}) /\ h.slot
  /\ ReplicaBecomes(r, Report(BeginService(replica[r], h), r), Rest(ReplicaBox(r)))

(* Replica::input of a pulled call: it is started whatever in_flight is. *)
StartPulled(r) ==
  LET h == Head(inbox[ReplicaBox(r)])
      u == Notify(replica[r], [kind |-> "pull_arrived", server |-> r])
  IN
  /\ Receives(ReplicaBox(r), {"upstream"}) /\ h.slot
  /\ ReplicaBecomes(r, Report(BeginService(u, h), r), Rest(ReplicaBox(r)))

(* Replica::input of ingress or of a return *)
EnqueueWork(r) ==
  LET h == Head(inbox[ReplicaBox(r)]) IN
  /\ Receives(ReplicaBox(r), {"upstream", "return"}) /\ ~h.slot
  /\ ReplicaBecomes(r,
       DrainQueue([replica[r] EXCEPT !.queue = Enqueue(@, h, config.scheduling = "edf")], r),
       Rest(ReplicaBox(r)))

(* Replica::complete *)
Complete(r, h) ==
  LET v == Report([replica[r] EXCEPT !.in_flight = @ - 1, !.serving = @ \ {h}], r)
      u == IF h.slot THEN Notify(v, [kind |-> "completed", server |-> r]) ELSE v
  IN
  /\ h \in replica[r].serving
  /\ ReplicaBecomes(r, DrainQueue(Advance(u, h), r), inbox)

(* The child call of q, made at r, returns there. *)
ChildReturns(r, q) ==
  /\ q \in replica[r].calling
  /\ replica' = [replica EXCEPT ![r].calling = @ \ {q}]
  /\ inbox' = [inbox EXCEPT ![ReplicaBox(r)] =
                 Append(@, [kind |-> "return", task |-> q, slot |-> FALSE])]
  /\ UNCHANGED <<config, arrived, client, sidecar, edge>>

-----------------------------------------------------------------------------
(* Client sidecars and the edge *)

(***************************************************************************)
(* ReplicaBalancer::outbound: the call is queued and a target sidecar,     *)
(* whichever --pull-policy selects, gets an intent.                        *)
(***************************************************************************)
Call(q) ==
  LET c == ClientOf[q] IN
  /\ q \in Calls \ arrived
  /\ arrived' = arrived \cup {q}
  /\ \E s \in Sidecars :
       /\ client' = [client EXCEPT
            ![c].queue = Enqueue(@, [task |-> q], config.pull_sched \in {"edf", "edf+"}),
            ![c].pull_intent_load[s] = @ + 1]
       /\ inbox' = [inbox EXCEPT ![SidecarBox(s)] =
            Append(@, [kind |-> "intent", client |-> c, task |-> q])]
  /\ UNCHANGED <<config, sidecar, replica, edge>>

(* Positions of the calls a pull may take; none is fatal_pull_abort. *)
PullPositions(q, id) ==
  IF config.pull_sched = "bound" THEN {i \in DOMAIN q : q[i].task = id}
  ELSE DOMAIN q \cap {1}

(* Seeded bug: the load of the serving replica is released, not its sidecar's. *)
PullArrivesByServer(c) ==
  LET m == Head(inbox[ClientBox(c)])
      q == client[c].queue
      i == Min(PullPositions(q, m.task))
  IN
  /\ Receives(ClientBox(c), {"pull"}) /\ PullPositions(q, m.task) # {}
  /\ client' = [client EXCEPT
       ![c].queue = RemoveAt(@, i),
       ![c].pull_intent_load =
          [s \in DOMAIN @ |-> IF s = m.server THEN SaturatingDec(@[s]) ELSE @[s]]]
  /\ inbox' = [Rest(ClientBox(c)) EXCEPT ![ReplicaBox(m.server)] =
       Append(@, [kind |-> "upstream", task |-> q[i].task, slot |-> TRUE])]
  /\ UNCHANGED <<config, arrived, sidecar, replica, edge>>

(***************************************************************************)
(* ReplicaBalancer::pull: the call goes to the replica the pull names and  *)
(* the load of the sidecar that was asked (intent_target_idx) is released. *)
(***************************************************************************)
PullArrives(c) ==
  LET m == Head(inbox[ClientBox(c)])
      q == client[c].queue
      i == Min(PullPositions(q, m.task))
  IN
  /\ Receives(ClientBox(c), {"pull"}) /\ PullPositions(q, m.task) # {}
  /\ client' = [client EXCEPT ![c].queue = RemoveAt(@, i),
                              ![c].pull_intent_load[m.target] = SaturatingDec(@)]
  /\ inbox' = [Rest(ClientBox(c)) EXCEPT ![ReplicaBox(m.server)] =
       Append(@, [kind |-> "upstream", task |-> q[i].task, slot |-> TRUE])]
  /\ UNCHANGED <<config, arrived, sidecar, replica, edge>>

(* What an entry of the edge is wired to: with share = 1 the replica itself *)
EdgeTarget(s) == IF config.share = 1 THEN ReplicaBox(s) ELSE SidecarBox(s)

(* EdgeBalancer::input *)
EdgeInput(q) ==
  LET hop == [kind |-> "upstream", task |-> q, slot |-> FALSE] IN
  /\ q \in Ingress \ arrived
  /\ arrived' = arrived \cup {q}
  /\ \E s \in Sidecars :
       /\ edge' = [edge EXCEPT ![s] = @ + 1]
       /\ inbox' = [inbox EXCEPT ![EdgeTarget(s)] = Append(@, hop)]
  /\ UNCHANGED <<config, client, sidecar, replica>>

(* EdgeBalancer::release *)
EdgeRelease ==
  /\ Receives(EdgeBox, {"release"})
  /\ edge' = [edge EXCEPT ![Head(inbox[EdgeBox]).target] = SaturatingDec(@)]
  /\ inbox' = Rest(EdgeBox)
  /\ UNCHANGED <<config, arrived, client, sidecar, replica>>

-----------------------------------------------------------------------------
(* A run *)

Quiet ==
  /\ \A x \in Boxes : inbox[x] = <<>>
  /\ \A r \in Replicas : replica[r].serving = {} /\ replica[r].calling = {}

(* simu.run() returns: nothing is in a mailbox, scheduled or in service. *)
Finished == arrived = Tasks /\ Quiet /\ UNCHANGED vars

Next ==
  \/ \E q \in Tasks : Call(q) \/ EdgeInput(q)
  \/ \E s \in Sidecars : ReceiveUpstream(s) \/ ReceivePullIntent(s) \/ CapacityEvent(s)
  \/ \E c \in Clients : PullArrives(c)
  \/ \E r \in Replicas :
       \/ StartPulled(r) \/ EnqueueWork(r)
       \/ \E h \in replica[r].serving : Complete(r, h)
       \/ \E q \in replica[r].calling : ChildReturns(r, q)
  \/ EdgeRelease
  \/ Finished

Spec == Init /\ [][Next]_vars

-----------------------------------------------------------------------------
(* Properties *)

Work == [kind : {"upstream", "return"}, task : Tasks, slot : BOOLEAN]

TypeOK ==
  /\ config \in [share : Shares, pull_sched : Scheds, scheduling : Schedulings]
  /\ arrived \subseteq Tasks
  /\ \A c \in Clients : /\ client[c].queue \in Seq([task : Calls])
                        /\ client[c].pull_intent_load \in [Sidecars -> Nat]
  /\ \A s \in Sidecars :
       LET owned == ToSet(SidecarReplicas(s, config.share)) IN
       /\ sidecar[s].occupancy \in [owned -> Nat]
       /\ sidecar[s].pending_pulls \in [owned -> Nat]
       /\ sidecar[s].pull_intents \in Seq([kind : {"intent"}, client : Clients, task : Calls])
  /\ \A r \in Replicas :
       /\ replica[r].queue \in Seq(Work) /\ replica[r].serving \subseteq Work
       /\ replica[r].in_flight \in Nat
       /\ replica[r].calling \subseteq Nested /\ replica[r].done \subseteq Tasks
  /\ edge \in [Sidecars -> Nat]

(* The messages of T in mailbox x *)
Held(x, T) == Cardinality({i \in DOMAIN inbox[x] : inbox[x][i] \in T})

Pulls(r)    == [kind : {"pull"}, server : {r}, target : Sidecars, task : Calls]
PulledCalls == [kind : {"upstream"}, task : Tasks, slot : {TRUE}]
PushedTasks == [kind : {"upstream"}, task : Tasks, slot : {FALSE}]
Arrivals(r) == [kind : {"pull_arrived"}, server : {r}]
Reports(r)  == [kind : {"occupancy"}, server : {r}, level : Nat]

PullsAt(c, r) == {c} \X {i \in DOMAIN inbox[ClientBox(c)] : inbox[ClientBox(c)][i] \in Pulls(r)}

PullsFor(r) ==
  Cardinality(UNION {PullsAt(c, r) : c \in Clients}) + Held(ReplicaBox(r), PulledCalls)

(***************************************************************************)
(* A pull stands for one slot from the moment it is granted until the      *)
(* sidecar has heard that the call arrived: it is counted once and the     *)
(* saturating subtraction never hides a second arrival.                    *)
(***************************************************************************)
PendingPullsExact ==
  \A r \in Replicas :
    LET s == SidecarId(r) IN
    sidecar[s].pending_pulls[r] = PullsFor(r) + Held(SidecarBox(s), Arrivals(r))

PulledServing(r) == {h \in replica[r].serving : h.slot}

(***************************************************************************)
(* Pulled calls never exceed the slots of a replica, although they start   *)
(* unchecked and the sidecar grants pulls by reports that are out of date: *)
(* PullArrived clears the reservation before the Occupancy that counts the *)
(* call, and a report sent before an ingress task was forwarded overwrites *)
(* the count of that task.  (Pushed ingress may exceed the slots.)         *)
(***************************************************************************)
PulledWithinSlots ==
  \A r \in Replicas :
    PullsFor(r) + Cardinality(PulledServing(r)) <= MaxConcurrency

(***************************************************************************)
(* join-the-shortest-queue works with current numbers: once reports and    *)
(* forwarded tasks have arrived, the sidecar's occupancy is the replica's. *)
(***************************************************************************)
OccupancyCurrent ==
  \A r \in Replicas :
    LET s == SidecarId(r) IN
    Held(SidecarBox(s), Reports(r)) + Held(ReplicaBox(r), PushedTasks) = 0
      => sidecar[s].occupancy[r] = OccupancyLevel(replica[r])

(***************************************************************************)
(* The loads that callers and edge select by count, per sidecar, the       *)
(* intents not yet answered and the ingress tasks not yet finished.  The   *)
(* replica that serves is not an index into them.                          *)
(***************************************************************************)
IntentsOf(c) == [kind : {"intent"}, client : {c}, task : Calls]
Answers(s)   == [kind : {"pull"}, server : Replicas, target : {s}, task : Calls]
Releases(s)  == [kind : {"release"}, target : {s}]

Members(s) == {r \in Replicas : SidecarId(r) = s}

HopOf(q) == [kind : {"upstream", "return"}, task : {q}, slot : BOOLEAN]

(* The ingress tasks that are with s or with one of its replicas *)
Inside(s) ==
  LET boxes == {SidecarBox(s)} \cup {ReplicaBox(r) : r \in Members(s)} IN
  {q \in Ingress :
     \/ \E x \in boxes : \E i \in DOMAIN inbox[x] : inbox[x][i] \in HopOf(q)
     \/ \E r \in Members(s) :
          \/ \E i \in DOMAIN replica[r].queue : replica[r].queue[i] \in HopOf(q)
          \/ \E h \in replica[r].serving : h \in HopOf(q)
          \/ q \in replica[r].calling}

LoadsExact ==
  \A s \in Sidecars :
    /\ \A c \in Clients :
         client[c].pull_intent_load[s] =
           Held(SidecarBox(s), IntentsOf(c)) + Held(ClientBox(c), Answers(s))
           + Cardinality({i \in DOMAIN sidecar[s].pull_intents :
                            sidecar[s].pull_intents[i] \in IntentsOf(c)})
    /\ edge[s] = Cardinality(Inside(s)) + Held(EdgeBox, Releases(s))

(***************************************************************************)
(* When nothing is left to do every task is done, so no intent was left    *)
(* asleep: also where ingress and calls share the replicas, because the    *)
(* completion of an ingress task is reported to the sidecar as well.       *)
(***************************************************************************)
NothingStranded ==
  (arrived = Tasks /\ Quiet) => UNION {replica[r].done : r \in Replicas} = Tasks
=============================================================================
