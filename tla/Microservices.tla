---------------------------- MODULE Microservices ----------------------------
(***************************************************************************)
(* `ms`: requests traverse a callgraph of microservices as nested          *)
(* synchronous calls.  A replica serves an endpoint, sends its child calls *)
(* one after the other through a balancer, and returns to its caller when  *)
(* all have returned (src/src/microservice/replica.rs, balancer.rs).       *)
(* Calls are routed by the caller's own ReplicaBalancer (push policies,    *)
(* amphiqueue) or by the DownstreamBalancer of the target (cl and its      *)
(* variants, corr, centralized, jbsq).                                     *)
(*                                                                         *)
(* An action is one handler run.  Mailboxes are FIFO and unbounded, one    *)
(* for each target of a ReplicaBalancer.  UserArrival, EdgeBalancer and    *)
(* OutboundGateway forward what they get within the action that feeds      *)
(* them.  A service may end at any time after it began.                    *)
(***************************************************************************)
EXTENDS Topology

CONSTANTS
  Requests,        \* the requests of a run
  Root,            \* Root[q]: entry endpoint of q's API
  Deadline,        \* Deadline[q]: start plus slo_ms
  Configs,         \* the command lines a run may be given
  MaxConcurrency,  \* Replica::max_concurrency
  JbsqN,           \* --jbsq-n
  NoServer,        \* no outbound_release
  Sink             \* the sink of completed requests

(***************************************************************************)
(* "push" stands for the push policies of a caller's ReplicaBalancer and   *)
(* prequal, "cl" for those of the shared DownstreamBalancer (cl, cl-lr,    *)
(* cl-r, cl-rr, corr): whatever a policy selects is one of its servers.    *)
(***************************************************************************)
PushPolicies == {"push", "cl"}
CentralPullPolicies == {"centralized", "jbsq"}

Config == [policy     : PushPolicies \cup CentralPullPolicies \cup {"amphiqueue"},
           pull_sched : {"bound", "fcfs", "edf", "edf+"},  \* --amphiqueue-sched
           central    : {"fcfs", "edf"},                   \* --centralized-sched
           scheduling : {"fifo", "edf"}]                   \* --scheduling

(* The topology, from the callgraph *)
Replicas == AllReplicas
ReplicasOf == [e \in Endpoints |-> ServicesWithReplicas[ServiceOf[e]]]
Balancers == SharedBalancers \cup OwnBalancers
ServersOf == [b \in Balancers |-> ServerIndices(b)]

(* Endpoints that the microservice of r calls *)
Targets ==
  [r \in Replicas |-> {e \in Endpoints : ServiceOf[e] \in DownstreamTargets[r[1]]}]

LbOf == [p \in SharedPolicies \cup OwnPolicies |->
           [r \in Replicas |-> [e \in Targets[r] |-> Outbound(p, r, ServiceOf[e])]]]

ASSUME MicroservicesAssumption ==
  /\ IsFiniteSet(Requests)
  /\ Root \in [Requests -> Entries]
  /\ Deadline \in [Requests -> Nat]
  /\ Configs \subseteq Config
  /\ \A c \in Configs : ValidSharedSubset(c.policy)
  /\ MaxConcurrency \in Nat \ {0}
  /\ JbsqN \in Nat \ {0}
  /\ NoServer \notin Replicas
  /\ Sink \notin Replicas \cup Balancers

VARIABLES
  config,    \* policy and queue disciplines of this run
  arrived,   \* requests injected by UserArrival
  replica,   \* replica[r]: the fields of Replica
  balancer,  \* balancer[b]: fields of a ReplicaBalancer for one target, or of
             \* a DownstreamBalancer
  inbox      \* inbox[x]: mailbox of a replica, of a balancer, or the sink

vars == <<config, arrived, replica, balancer, inbox>>

(* CallerRef: where a call returns to, and the server it was dispatched to. *)
Frame == [replica : Replicas, endpoint : Endpoints, sibling : Nat,
          server : Replicas \cup {NoServer}]

(***************************************************************************)
(* A hop as a replica's work, an outbound call or a message.  `callers` is *)
(* the chain of CallerRefs, innermost first; `slot` says slot_release is   *)
(* set (it names the serving replica), `release` is outbound_release.      *)
(***************************************************************************)
Hop == [kind : {"upstream", "return", "call"}, req : Requests, endpoint : Endpoints,
        sibling : Nat, callers : Seq(Frame), slot : BOOLEAN,
        release : Replicas \cup {NoServer}]

PullIntent == [kind : {"intent"}, lb : Balancers, req : Requests]
Pull       == [kind : {"pull"}, server : Replicas, req : Requests \cup {NoServer}]
Release    == [kind : {"release"}, server : Replicas]

-----------------------------------------------------------------------------
(* The topology *)

policy == config.policy

(* The balancers that calls are sent to under each policy. *)
Used ==
  [p \in DOMAIN LbOf |-> UNION {{LbOf[p][r][e] : e \in Targets[r]} : r \in Replicas}]

InUse == Used[policy]

(* Replicas that some balancer sends calls to. *)
Serving == [p \in DOMAIN LbOf |-> UNION {ServersOf[b] : b \in Used[p]}]

PullTargets == Serving[policy]

(* Central pulls: the balancer of the replica's subset *)
PullFrom(r) == PullOutput(r)

UsesJbsq(r) == policy = "jbsq" /\ r \in PullTargets

(* pull_registrations: pulls of r scheduled at the start of the run. *)
WarmPulls(r) ==
  IF policy \in CentralPullPolicies /\ r \in PullTargets
  THEN IF policy = "jbsq" THEN JbsqN ELSE MaxConcurrency
  ELSE 0

(***************************************************************************)
(* `out` collects the sends of the handler under way: empty between        *)
(* handlers.  `warm` counts the initial pulls still scheduled.             *)
(***************************************************************************)
Init ==
  /\ config \in Configs
  /\ arrived = {}
  /\ replica = [r \in Replicas |->
       [queue |-> <<>>, in_flight |-> 0, pending_pulls |-> 0, pull_intents |-> <<>>,
        serving |-> {}, warm |-> WarmPulls(r), out |-> <<>>]]
  /\ balancer = [b \in Balancers |->
       [queue |-> <<>>, inflight |-> [s \in ServersOf[b] |-> 0],
        pull_intent_load |-> [s \in ServersOf[b] |-> 0], waiting |-> <<>>]]
  /\ inbox = [x \in Replicas \cup Balancers \cup {Sink} |-> <<>>]

SaturatingDec(n) == IF n = 0 THEN 0 ELSE n - 1

(* edf_insert_index: before the first item with a strictly later deadline. *)
Enqueue(q, item, edf) ==
  LET i == SelectInSeq(q, LAMBDA x : Deadline[x.req] > Deadline[item.req])
  IN IF edf /\ i # 0 THEN InsertAt(q, i, item) ELSE Append(q, item)

-----------------------------------------------------------------------------
(* Replica: what its handlers are made of.  v is the replica's state. *)

Post(v, to, m) == [v EXCEPT !.out = Append(@, [to |-> to, msg |-> m])]

(***************************************************************************)
(* release_outbound: to the replica's own balancer or gateway, which       *)
(* ignores a release for a microservice that this replica does not call.   *)
(***************************************************************************)
ReleaseOutbound(v, r, s) ==
  LET lbs == {LbOf[policy][r][e] : e \in {e \in Targets[r] : s \in ReplicasOf[e]}}
  IN IF lbs = {} THEN v
     ELSE Post(v, CHOOSE b \in lbs : TRUE, [kind |-> "release", server |-> s])

(***************************************************************************)
(* The next child call, the return to the caller, or the end.  `resume` is *)
(* where the hop goes on when the child call has returned.                 *)
(***************************************************************************)
AdvanceTo(v, r, h, resume) ==
  LET child == Children[h.endpoint][h.sibling + 1]
      frame == [replica |-> r, endpoint |-> h.endpoint, sibling |-> resume,
                server |-> NoServer]
      back  == Head(h.callers)
  IN
  IF h.sibling < Len(Children[h.endpoint])
  THEN Post(v, LbOf[policy][r][child],
            [h EXCEPT !.kind = "call", !.endpoint = child, !.sibling = 0,
                      !.callers = <<frame>> \o @])
  ELSE IF h.callers # <<>>
  THEN Post(v, back.replica,
            [h EXCEPT !.kind = "return", !.endpoint = back.endpoint,
                      !.sibling = back.sibling, !.callers = Tail(@),
                      !.release = back.server])
  ELSE Post(v, Sink, [kind |-> "completed", req |-> h.req])

(* Seeded bug: the next sibling is not remembered. *)
AdvanceSameSibling(v, r, h) == AdvanceTo(v, r, h, h.sibling)

(* advance *)
Advance(v, r, h) == AdvanceTo(v, r, h, h.sibling + 1)

(* handle_return *)
HandleReturn(v, r, h) ==
  Advance(IF h.release = NoServer THEN v ELSE ReleaseOutbound(v, r, h.release),
          r, [h EXCEPT !.release = NoServer])

BeginService(v, h) == [v EXCEPT !.in_flight = @ + 1, !.serving = @ \cup {h}]

(* Seeded bug: a return at the head is taken and nothing is started after it. *)
DrainQueueReturnOnly(v, r) ==
  IF v.queue = <<>> \/ v.in_flight >= MaxConcurrency THEN v
  ELSE LET u == [v EXCEPT !.queue = Tail(@)]
           h == Head(v.queue)
       IN IF h.kind = "return" THEN HandleReturn(u, r, h) ELSE BeginService(u, h)

(***************************************************************************)
(* drain_queue: with a slot free, the returns at the head of the queue,    *)
(* then one upstream hop.                                                  *)
(***************************************************************************)
DrainQueue(v, r) ==
  LET i == SelectInSeq(v.queue, LAMBDA h : h.kind = "upstream")
      k == IF i = 0 THEN Len(v.queue) ELSE i - 1
      u == FoldLeft(LAMBDA x, h : HandleReturn(x, r, h),
                    [v EXCEPT !.queue = SubSeq(@, k + 1, Len(@))],
                    SubSeq(v.queue, 1, k))
  IN IF v.in_flight >= MaxConcurrency THEN v
     ELSE IF i = 0 THEN u
     ELSE BeginService([u EXCEPT !.queue = Tail(@)], v.queue[i])

(* Seeded bug: pulls under way are not counted. *)
DrainPullIntentsNoPending(v, r) ==
  LET intent == Head(v.pull_intents) IN
  IF v.in_flight >= MaxConcurrency \/ v.pull_intents = <<>> THEN v
  ELSE Post([v EXCEPT !.pending_pulls = @ + 1, !.pull_intents = Tail(@)],
            intent.lb, [kind |-> "pull", server |-> r, req |-> intent.req])

(* drain_pull_intents_async: at most one pull. *)
DrainPullIntents(v, r) ==
  LET intent == Head(v.pull_intents) IN
  IF v.in_flight + v.pending_pulls >= MaxConcurrency \/ v.pull_intents = <<>> THEN v
  ELSE Post([v EXCEPT !.pending_pulls = @ + 1, !.pull_intents = Tail(@)],
            intent.lb, [kind |-> "pull", server |-> r, req |-> intent.req])

CentralPull(r) == [kind |-> "pull", server |-> r, req |-> NoServer]

JbsqOccupancy(v) ==
  v.in_flight + Cardinality({i \in DOMAIN v.queue : v.queue[i].kind = "upstream"})

(* Seeded bug: pulls under way are not counted. *)
JbsqPullsNoPending(v, r, most) ==
  LET k == Max({0, Min({most, JbsqN - JbsqOccupancy(v)})})
  IN [v EXCEPT !.pending_pulls = @ + k,
               !.out = @ \o [i \in 1 .. k |-> [to |-> PullFrom(r), msg |-> CentralPull(r)]]]

(* try_jbsq_pull (most = 1) and try_jbsq_pull_until_full (most = JbsqN) *)
JbsqPulls(v, r, most) ==
  LET k == Max({0, Min({most, JbsqN - JbsqOccupancy(v) - v.pending_pulls})})
  IN [v EXCEPT !.pending_pulls = @ + k,
               !.out = @ \o [i \in 1 .. k |-> [to |-> PullFrom(r), msg |-> CentralPull(r)]]]

-----------------------------------------------------------------------------
(* Replica: actions *)

Receives(x, kinds) == inbox[x] # <<>> /\ Head(inbox[x]).kind \in kinds

Rest(x) == [inbox EXCEPT ![x] = Tail(@)]

Deliver(boxes, out) ==
  FoldLeft(LAMBDA bx, o : [bx EXCEPT ![o.to] = Append(@, o.msg)], boxes, out)

(* The handler of r ends in state v, having taken its message from `boxes`. *)
Becomes(r, v, boxes) ==
  /\ replica' = [replica EXCEPT ![r] = [v EXCEPT !.out = <<>>]]
  /\ inbox' = Deliver(boxes, v.out)
  /\ UNCHANGED <<config, arrived, balancer>>

(* Seeded bug: the pull stays counted after the call has come. *)
StartPulledKeepsPending(r) ==
  LET h == Head(inbox[r]) IN
  /\ Receives(r, {"upstream"}) /\ h.slot /\ ~UsesJbsq(r)
  /\ Becomes(r, BeginService(replica[r], h), Rest(r))

(* Replica::input of a pulled call under centralized or amphiqueue *)
StartPulled(r) ==
  LET h == Head(inbox[r])
      v == replica[r]
  IN
  /\ Receives(r, {"upstream"}) /\ h.slot /\ ~UsesJbsq(r)
  /\ Becomes(r,
       BeginService(IF policy = "amphiqueue"
                    THEN [v EXCEPT !.pending_pulls = SaturatingDec(@)] ELSE v, h),
       Rest(r))

(* Replica::input of a pulled call under jbsq; no pull follows. *)
EnqueuePulled(r) ==
  LET h == Head(inbox[r])
      v == replica[r]
  IN
  /\ Receives(r, {"upstream"}) /\ h.slot /\ UsesJbsq(r)
  /\ Becomes(r,
       DrainQueue([v EXCEPT !.pending_pulls = SaturatingDec(@),
                            !.queue = Enqueue(@, h, config.scheduling = "edf")], r),
       Rest(r))

(* Replica::input of a pushed hop or of a return *)
EnqueueWork(r) ==
  LET h == Head(inbox[r]) IN
  /\ Receives(r, {"upstream", "return"}) /\ ~h.slot
  /\ Becomes(r,
       DrainQueue([replica[r] EXCEPT !.queue = Enqueue(@, h, config.scheduling = "edf")], r),
       Rest(r))

ReceivePullIntent(r) ==
  LET m == Head(inbox[r]) IN
  /\ Receives(r, {"intent"})
  /\ Becomes(r,
       DrainPullIntents(
         [replica[r] EXCEPT !.pull_intents = Enqueue(@, m, config.pull_sched = "edf+")], r),
       Rest(r))

(* request_pull, the initial pulls *)
RequestPull(r) ==
  LET v == [replica[r] EXCEPT !.warm = @ - 1] IN
  /\ replica[r].warm > 0
  /\ Becomes(r,
       IF UsesJbsq(r) THEN JbsqPulls(v, r, 1)
       ELSE IF v.in_flight < MaxConcurrency THEN Post(v, PullFrom(r), CentralPull(r))
       ELSE v,
       inbox)

(* Seeded bug: a completion answers no intent. *)
AfterPulledNoDrain(v, r) ==
  IF policy = "centralized" THEN Post(v, PullFrom(r), CentralPull(r)) ELSE v

(* What a served pulled call triggers before the replica goes on. *)
AfterPulled(v, r) ==
  IF policy = "centralized" THEN Post(v, PullFrom(r), CentralPull(r))
  ELSE IF policy = "amphiqueue" THEN DrainPullIntents(v, r)
  ELSE v

(* Replica::complete, up to the pulls that jbsq sends at its end *)
Served(r, h) ==
  LET v == [replica[r] EXCEPT !.in_flight = SaturatingDec(@), !.serving = @ \ {h}]
      p == IF h.slot THEN AfterPulled(ReleaseOutbound(v, r, r), r) ELSE v
  IN DrainQueue(Advance(p, r, [h EXCEPT !.slot = FALSE, !.sibling = 0]), r)

(* Replica::complete *)
Complete(r, h) ==
  LET v == Served(r, h) IN
  /\ h \in replica[r].serving
  /\ Becomes(r, IF UsesJbsq(r) THEN JbsqPulls(v, r, JbsqN) ELSE v, inbox)

-----------------------------------------------------------------------------
(* Balancers: actions *)

(* UserArrival::inject and EdgeBalancer::input: a push to an entry replica. *)
Arrive(q) ==
  /\ q \notin arrived
  /\ arrived' = arrived \cup {q}
  /\ \E r \in ReplicasOf[Root[q]] :
       inbox' = [inbox EXCEPT ![r] = Append(@,
         [kind |-> "upstream", req |-> q, endpoint |-> Root[q], sibling |-> 0,
          callers |-> <<>>, slot |-> FALSE, release |-> NoServer])]
  /\ UNCHANGED <<config, replica, balancer>>

(* Seeded bug: the caller's frame does not learn the server. *)
DispatchedUnmarked(h, s) ==
  IF policy \in PushPolicies THEN [h EXCEPT !.kind = "upstream"]
  ELSE [h EXCEPT !.kind = "upstream", !.slot = TRUE]

(***************************************************************************)
(* dispatch_to_server.  A pull policy marks the call with its slot; a push *)
(* policy notes the server in the caller's frame, to release it later.     *)
(***************************************************************************)
Dispatched(h, s) ==
  IF policy \in PushPolicies THEN [h EXCEPT !.kind = "upstream", !.callers[1].server = s]
  ELSE [h EXCEPT !.kind = "upstream", !.slot = TRUE]

(* The handler of b ends in state v, having taken its message and sent `out`. *)
Routes(b, v, out) ==
  /\ balancer' = [balancer EXCEPT ![b] = v]
  /\ inbox' = Deliver(Rest(b), out)
  /\ UNCHANGED <<config, arrived, replica>>

(* outbound, push policies: each may pick any server of its indices. *)
PushCall(b) ==
  /\ Receives(b, {"call"}) /\ policy \in PushPolicies
  /\ \E s \in ServersOf[b] :
       Routes(b, [balancer[b] EXCEPT !.inflight[s] = @ + 1],
              << [to |-> s, msg |-> Dispatched(Head(inbox[b]), s)] >>)

(* outbound of a ReplicaBalancer under amphiqueue, with its pull intent *)
AnnounceCall(b) ==
  LET h == Head(inbox[b]) IN
  /\ Receives(b, {"call"}) /\ policy = "amphiqueue"
  /\ \E s \in ServersOf[b] :
       Routes(b, [balancer[b] EXCEPT
                    !.queue = Enqueue(@, h, config.pull_sched \in {"edf", "edf+"}),
                    !.pull_intent_load[s] = @ + 1],
              << [to |-> s, msg |-> [kind |-> "intent", lb |-> b, req |-> h.req]] >>)

(* outbound of a DownstreamBalancer with a pull queue; dispatch_waiting *)
QueueCall(b) ==
  LET q == Enqueue(balancer[b].queue, Head(inbox[b]), config.central = "edf")
      w == balancer[b].waiting
      k == Min({Len(q), Len(w)})
  IN
  /\ Receives(b, {"call"}) /\ policy \in CentralPullPolicies
  /\ Routes(b, [balancer[b] EXCEPT
                  !.queue = SubSeq(q, k + 1, Len(q)),
                  !.waiting = SubSeq(w, k + 1, Len(w)),
                  !.inflight = [s \in DOMAIN @ |->
                     @[s] + Cardinality({i \in 1 .. k : w[i] = s})]],
            [i \in 1 .. k |-> [to |-> w[i], msg |-> Dispatched(q[i], w[i])]])

(* Seeded bug: the call that is dispatched stays in the queue. *)
CentralPullKeepsCall(b) ==
  LET v == balancer[b]
      s == Head(inbox[b]).server
  IN
  /\ Receives(b, {"pull"}) /\ policy \in CentralPullPolicies
  /\ \/ /\ v.queue = <<>>
        /\ Routes(b, [v EXCEPT !.waiting = Append(@, s)], <<>>)
     \/ /\ v.queue # <<>>
        /\ Routes(b, [v EXCEPT !.inflight[s] = @ + 1],
                  << [to |-> s, msg |-> Dispatched(Head(v.queue), s)] >>)

(* DownstreamBalancer::pull *)
CentralPullArrives(b) ==
  LET v == balancer[b]
      s == Head(inbox[b]).server
  IN
  /\ Receives(b, {"pull"}) /\ policy \in CentralPullPolicies
  /\ \/ /\ v.queue = <<>>
        /\ Routes(b, [v EXCEPT !.waiting = Append(@, s)], <<>>)
     \/ /\ v.queue # <<>>
        /\ Routes(b, [v EXCEPT !.queue = Tail(@), !.inflight[s] = @ + 1],
                  << [to |-> s, msg |-> Dispatched(Head(v.queue), s)] >>)

(* Positions of the calls a pull may take; none is fatal_pull_abort. *)
PullPositions(q, id) ==
  IF config.pull_sched = "bound" THEN {i \in DOMAIN q : q[i].req = id}
  ELSE DOMAIN q \cap {1}

(* Seeded bug: the intent stays counted. *)
AmphiPullKeepingLoad(b) ==
  LET m == Head(inbox[b])
      v == balancer[b]
      i == Min(PullPositions(v.queue, m.req))
  IN
  /\ Receives(b, {"pull"}) /\ policy = "amphiqueue"
  /\ PullPositions(v.queue, m.req) # {}
  /\ Routes(b, [v EXCEPT !.queue = RemoveAt(@, i), !.inflight[m.server] = @ + 1],
            << [to |-> m.server, msg |-> Dispatched(v.queue[i], m.server)] >>)

(* ReplicaBalancer::pull *)
AmphiPullArrives(b) ==
  LET m == Head(inbox[b])
      v == balancer[b]
      i == Min(PullPositions(v.queue, m.req))
  IN
  /\ Receives(b, {"pull"}) /\ policy = "amphiqueue"
  /\ PullPositions(v.queue, m.req) # {}
  /\ Routes(b, [v EXCEPT !.queue = RemoveAt(@, i),
                         !.pull_intent_load[m.server] = SaturatingDec(@),
                         !.inflight[m.server] = @ + 1],
            << [to |-> m.server, msg |-> Dispatched(v.queue[i], m.server)] >>)

(* release_outbound of ReplicaBalancer, release of DownstreamBalancer *)
ReleaseArrives(b) ==
  LET s == Head(inbox[b]).server IN
  /\ Receives(b, {"release"})
  /\ Routes(b, [balancer[b] EXCEPT !.inflight[s] = SaturatingDec(@)], <<>>)

-----------------------------------------------------------------------------
(* A run *)

Quiet ==
  /\ \A x \in Replicas \cup Balancers : inbox[x] = <<>>
  /\ \A r \in Replicas : replica[r].serving = {} /\ replica[r].warm = 0

(* simu.run() returns: nothing is in a mailbox, scheduled or in service. *)
Finished ==
  /\ arrived = Requests
  /\ Quiet
  /\ UNCHANGED vars

Handle(r) ==
  StartPulled(r) \/ EnqueuePulled(r) \/ EnqueueWork(r) \/ ReceivePullIntent(r)

Route(b) ==
  \/ PushCall(b) \/ AnnounceCall(b) \/ QueueCall(b)
  \/ CentralPullArrives(b) \/ AmphiPullArrives(b) \/ ReleaseArrives(b)

Step ==
  \/ \E q \in Requests : Arrive(q)
  \/ \E r \in Replicas :
       Handle(r) \/ RequestPull(r) \/ \E h \in replica[r].serving : Complete(r, h)
  \/ \E b \in Balancers : Route(b)

Next == Step \/ Finished

(* simu.run() goes on while a model has a message or an event is scheduled. *)
Fairness == WF_vars(Step)

Safety == Init /\ [][Next]_vars
Spec == Safety /\ Fairness

-----------------------------------------------------------------------------
(* Properties *)

TypeOK ==
  /\ config \in Configs
  /\ arrived \subseteq Requests
  /\ \A r \in Replicas :
       LET v == replica[r] IN
       /\ v.queue \in Seq(Hop) /\ v.serving \subseteq Hop
       /\ v.pull_intents \in Seq(PullIntent)
       /\ v.in_flight \in Nat /\ v.pending_pulls \in Nat /\ v.warm \in Nat
       /\ v.out = <<>>
  /\ \A b \in Balancers :
       LET v == balancer[b] IN
       /\ v.queue \in Seq(Hop) /\ v.waiting \in Seq(ServersOf[b])
       /\ v.inflight \in [ServersOf[b] -> Nat]
       /\ v.pull_intent_load \in [ServersOf[b] -> Nat]
  /\ \A r \in Replicas : inbox[r] \in Seq(Hop \cup PullIntent)
  /\ \A b \in Balancers : inbox[b] \in Seq(Hop \cup Pull \cup Release)
  /\ inbox[Sink] \in Seq([kind : {"completed"}, req : Requests])

(* Positions <<x, i>> of the entries with property P in sequences indexed by x. *)
Positions(seqs, P(_)) ==
  UNION {{<<x, i>> : i \in {j \in DOMAIN seqs[x] : P(seqs[x][j])}} : x \in DOMAIN seqs}

CountIn(seqs, P(_)) == Cardinality(Positions(seqs, P))

WorkQueues == [r \in Replicas |-> replica[r].queue]
CallQueues == [b \in Balancers |-> balancer[b].queue]
IntentQueues == [r \in Replicas |-> replica[r].pull_intents]
Hops == {"upstream", "return", "call"}

(***************************************************************************)
(* Calls are synchronous: a request that arrived is in exactly one place,  *)
(* in a mailbox, a queue, in service or at the sink.  It is never dropped  *)
(* between models, never forked, and completed at most once.               *)
(***************************************************************************)
OneAtATime ==
  \A q \in arrived :
    LET isHop(x) == x.kind \in Hops \cup {"completed"} /\ x.req = q
        isOfQ(x) == x.req = q
    IN CountIn(inbox, isHop) + CountIn(WorkQueues, isOfQ) + CountIn(CallQueues, isOfQ)
         + Cardinality({r \in Replicas : \E h \in replica[r].serving : h.req = q}) = 1

(* in_flight counts the hops in service and never exceeds the slots. *)
CapacityRespected ==
  \A r \in Replicas :
    /\ replica[r].in_flight = Cardinality(replica[r].serving)
    /\ replica[r].in_flight <= MaxConcurrency

(***************************************************************************)
(* A pull stands for one slot from request_pull or drain until the pulled  *)
(* call is at the replica.  centralized: every slot is in service or is    *)
(* asked for exactly once.  jbsq and amphiqueue: pending_pulls is the      *)
(* number of pulls not answered, and the work that is here or coming stays *)
(* within --jbsq-n, which is reached again when a service ends, or within  *)
(* the slots.                                                              *)
(***************************************************************************)
PullsAccounted ==
  \A r \in PullTargets :
    LET v == replica[r]
        asks(x)   == x.kind = "pull" /\ x.server = r
        isSelf(x) == x = r
        asked  == CountIn([b \in InUse |-> inbox[b]], asks)
                    + CountIn([b \in InUse |-> balancer[b].waiting], isSelf)
        pulled(x) == x.kind = "upstream" /\ x.slot
        coming == CountIn([s \in {r} |-> inbox[s]], pulled)
    IN
    /\ policy = "centralized" => v.warm + asked + coming + v.in_flight = MaxConcurrency
    /\ policy \in {"jbsq", "amphiqueue"} => v.pending_pulls = asked + coming
    /\ policy = "amphiqueue" => v.in_flight + v.pending_pulls <= MaxConcurrency
    /\ policy = "jbsq" => /\ JbsqOccupancy(v) + v.pending_pulls <= JbsqN
                          /\ v.warm = 0 => JbsqOccupancy(v) + v.pending_pulls = JbsqN

(***************************************************************************)
(* A pull intent is left in the queue only while every slot is in service  *)
(* or promised: drain_pull_intents_async runs again after each completion. *)
(***************************************************************************)
IntentsDrained ==
  \A r \in Replicas :
    replica[r].pull_intents # <<>> =>
      replica[r].in_flight + replica[r].pending_pulls >= MaxConcurrency

(***************************************************************************)
(* Nothing waits for a slot that is free: neither work in a replica, nor   *)
(* an intent, nor a call at a balancer where a server is parked.           *)
(***************************************************************************)
WorkConserving ==
  /\ \A r \in Replicas :
       replica[r].queue # <<>> => replica[r].in_flight >= MaxConcurrency
  /\ IntentsDrained
  /\ \A b \in Balancers : balancer[b].queue = <<>> \/ balancer[b].waiting = <<>>

(* The hops of a run, each with the place where it is. *)
Located ==
  LET at(x) == IF x \in Replicas THEN ToSet(replica[x].queue) \cup replica[x].serving
               ELSE IF x \in Balancers THEN ToSet(balancer[x].queue) ELSE {}
  IN UNION {{[to |-> x, msg |-> h] : h \in {m \in ToSet(inbox[x]) \cup at(x) : m.kind \in Hops}} :
            x \in DOMAIN inbox}

(* The replicas whose calls go through balancer b *)
CallersAt(b) == {r \in Replicas : \E e \in Targets[r] : LbOf[policy][r][e] = b}

(***************************************************************************)
(* How deep in its request the calls stand that l.msg has open at server s *)
(* through a balancer of the callers U: one for each frame that names s,   *)
(* and the one it returns from until its caller has handled the return.    *)
(***************************************************************************)
OpenCalls(l, U, s) ==
  LET h == l.msg
      marked == {i \in DOMAIN h.callers : h.callers[i].server = s /\ h.callers[i].replica \in U}
  IN {Len(h.callers) - i : i \in marked}
       \cup {n \in {Len(h.callers)} : h.kind = "return" /\ h.release = s /\ l.to \in U}

(***************************************************************************)
(* Push policies: the load a balancer compares is the number of its calls  *)
(* to that server that have not been handled as returns, however deep the  *)
(* subtree below them; the frames that travel with a hop carry the count,  *)
(* and a path that enters a microservice again is counted at each depth.   *)
(***************************************************************************)
InflightExact ==
  policy \in PushPolicies =>
    \A b \in InUse : \A s \in ServersOf[b] :
      LET open    == UNION {{<<l.msg.req, n>> : n \in OpenCalls(l, CallersAt(b), s)} : l \in Located}
          owes(x) == x.kind = "release" /\ x.server = s
      IN balancer[b].inflight[s] = Cardinality(open) + CountIn([d \in {b} |-> inbox[d]], owes)

(***************************************************************************)
(* amphiqueue: every call queued at a balancer is announced by exactly one *)
(* intent or pull on its way back, so no pull finds its call missing       *)
(* (fatal_pull_abort), and pull_intent_load counts them per server.        *)
(***************************************************************************)
IntentsMatchCalls ==
  policy = "amphiqueue" =>
    \A b \in InUse :
      LET v == balancer[b]
          announced(x) == x.kind = "intent" /\ x.lb = b
          open(S) == CountIn([s \in S |-> inbox[s]], announced)
                       + CountIn([s \in S |-> replica[s].pull_intents], announced)
                       + CountIn([d \in {b} |-> inbox[d]], LAMBDA x : x.kind = "pull" /\ x.server \in S)
          ids == {x.req : x \in {y \in UNION {ToSet(inbox[s]) \cup ToSet(replica[s].pull_intents) :
                                              s \in ServersOf[b]} : announced(y)}}
                   \cup {x.req : x \in {y \in ToSet(inbox[b]) : y.kind = "pull"}}
      IN
      /\ \A s \in ServersOf[b] : v.pull_intent_load[s] = open({s})
      /\ Len(v.queue) = open(ServersOf[b])
      /\ config.pull_sched = "bound" => ids = {h.req : h \in ToSet(v.queue)}

Completed(q) == \E i \in DOMAIN inbox[Sink] : inbox[Sink][i].req = q

(***************************************************************************)
(* When nothing is left to do every request has been completed, and no     *)
(* call, intent or pull is left where nobody will look at it again.        *)
(***************************************************************************)
NothingStranded ==
  (Quiet /\ arrived = Requests) =>
    /\ \A q \in Requests : Completed(q)
    /\ \A r \in Replicas : replica[r].queue = <<>> /\ replica[r].pull_intents = <<>>
    /\ \A b \in Balancers : balancer[b].queue = <<>>

(* Every request is completed: no replica waits for another in a circle. *)
RequestsComplete == <>(\A q \in Requests : Completed(q))

(* What a balancer dispatched is released by the time everything is done. *)
InflightReleased ==
  (Quiet /\ arrived = Requests) =>
    \A b \in Balancers : \A s \in ServersOf[b] : balancer[b].inflight[s] = 0
=============================================================================
