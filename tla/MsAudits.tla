------------------------------- MODULE MsAudits -------------------------------
(***************************************************************************)
(* The audits that `ms` runs are checked with, composed with the run they  *)
(* watch: the pull intents of amphiqueue (src/src/amphiqueue_audit.rs),    *)
(* the shared queues of centralized and jbsq (ms_centralized_audit.rs) and *)
(* the pulls of jbsq (ms_jbsq_audit.rs).  As in LbPullAudit, `audit` is    *)
(* the state of the validators after the events recorded so far.           *)
(***************************************************************************)
EXTENDS Microservices

VARIABLE audit
auditedVars == <<vars, audit>>

-----------------------------------------------------------------------------
(* The events, as the handlers record them *)

IntentSent(b, q) == [kind |-> "IntentSent", lb |-> b, req |-> q]
IntentQueued(r, m, before) ==
  [kind |-> "IntentQueued", server |-> r, lb |-> m.lb, req |-> m.req,
   queue_len_before |-> before]
IntentDrained(r, m, v) ==
  [kind |-> "IntentDrained", server |-> r, lb |-> m.lb, req |-> m.req,
   queue_len_before |-> Len(v.pull_intents), claimed |-> v.pending_pulls + v.in_flight]
PullFulfilled(b, intent, pulled, calls) ==
  [kind |-> "PullFulfilled", lb |-> b, intent |-> intent, req |-> pulled,
   queue_len_before |-> Len(calls), head |-> Head(calls).req]
CallEnqueued(b, q) == [kind |-> "CallEnqueued", lb |-> b, req |-> q]
CallDispatched(b, s, q) == [kind |-> "CallDispatched", lb |-> b, server |-> s, req |-> q]
PullSent(occupancy, pending) ==
  [kind |-> "PullSent", occupancy |-> occupancy, pending |-> pending]
PullArrived(occupancy) == [kind |-> "PullArrived", occupancy |-> occupancy]

(* Replica::drain_pull_intents_async of v; at most one intent is taken. *)
DrainEvents(r, v) ==
  IF v.in_flight + v.pending_pulls >= MaxConcurrency \/ v.pull_intents = <<>> THEN <<>>
  ELSE <<IntentDrained(r, Head(v.pull_intents), v)>>

(* try_jbsq_pull, as often as JbsqPulls pulls *)
PullSentEvents(v, r, most) ==
  [i \in 1 .. JbsqPulls(v, r, most).pending_pulls - v.pending_pulls |->
     PullSent(JbsqOccupancy(v), v.pending_pulls + i - 1)]

(* Replica::receive_pull_intent *)
ReceiveEvents(r) ==
  LET m == Head(inbox[r])
      v == replica[r]
  IN <<IntentQueued(r, m, Len(v.pull_intents))>>
       \o DrainEvents(r, [v EXCEPT !.pull_intents =
                            Enqueue(@, m, config.pull_sched = "edf+")])

(* Replica::input of a pulled call under jbsq *)
ArrivedEvents(r) == <<PullArrived(JbsqOccupancy(replica[r]))>>

(* Replica::request_pull *)
RequestEvents(r) == IF UsesJbsq(r) THEN PullSentEvents(replica[r], r, 1) ELSE <<>>

(* Replica::complete *)
CompleteEvents(r, h) ==
  IF UsesJbsq(r) THEN PullSentEvents(Served(r, h), r, JbsqN)
  ELSE IF policy = "amphiqueue" /\ h.slot
  THEN DrainEvents(r, [replica[r] EXCEPT !.in_flight = SaturatingDec(@)])
  ELSE <<>>

(* DownstreamBalancer::outbound, and dispatch_waiting for each parked server *)
QueueEvents(b) ==
  LET h == Head(inbox[b])
      q == Enqueue(balancer[b].queue, h, config.central = "edf")
      w == balancer[b].waiting
  IN <<CallEnqueued(b, h.req)>>
       \o [i \in 1 .. Min({Len(q), Len(w)}) |-> CallDispatched(b, w[i], q[i].req)]

(* DownstreamBalancer::pull *)
CentralPullEvents(b) ==
  IF balancer[b].queue = <<>> THEN <<>>
  ELSE <<CallDispatched(b, Head(inbox[b]).server, Head(balancer[b].queue).req)>>

(* ReplicaBalancer::pull *)
AmphiPullEvents(b) ==
  LET m == Head(inbox[b])
      calls == balancer[b].queue
  IN <<PullFulfilled(b, m.req, calls[Min(PullPositions(calls, m.req))].req, calls)>>

-----------------------------------------------------------------------------
(***************************************************************************)
(* The validators.  calls[b] replays the outbound queue of a               *)
(* ReplicaBalancer or the queue of a DownstreamBalancer, intents[r] the    *)
(* intent queue of a replica.                                              *)
(***************************************************************************)
NothingRecorded ==
  [calls |-> [b \in Balancers |-> <<>>], intents |-> [r \in Replicas |-> <<>>],
   sent |-> 0, queued |-> 0,
   drained |-> [b \in Balancers |-> <<>>], fulfilled |-> [b \in Balancers |-> <<>>],
   rejected |-> FALSE]

Rejects(a) == [a EXCEPT !.rejected = TRUE]

Keep(b, q)  == [lb |-> b, req |-> q]

(* validate_intent_fifo pushes back, validate_intent_edf inserts (edf+). *)
IntentReplay(queue, item) == Enqueue(queue, item, config.pull_sched = "edf+")

(* Seeded bug: edf runs are replayed as validate_no_bind does. *)
OutboundReplayFifo(queue, item) == Append(queue, item)

(* validate_bound and validate_no_bind push back, validate_outbound_edf inserts. *)
OutboundReplay(queue, item) == Enqueue(queue, item, config.pull_sched \in {"edf", "edf+"})

(* validate_queue_discipline: FCFS or EDF *)
CentralReplay(queue, item) == Enqueue(queue, item, config.central = "edf")

(* validate_common, with the order of the intent queue *)
ReplayIntent(a, e) ==
  LET expected == a.intents[e.server]
      item == Keep(e.lb, e.req)
  IN
  CASE e.queue_len_before # Len(expected) -> Rejects(a)
    [] OTHER ->
       IF e.kind = "IntentQueued"
       THEN [a EXCEPT !.intents[e.server] = IntentReplay(@, item), !.queued = @ + 1]
       ELSE IF e.claimed >= MaxConcurrency \/ expected = <<>> THEN Rejects(a)
       ELSE IF Head(expected) # item THEN Rejects(a)
       ELSE [a EXCEPT !.intents[e.server] = Tail(@),
                      !.drained[e.lb] = Append(@, e.req)]

(* A bound pull takes the call it announced, from anywhere in the queue. *)
FitsBound(replay, e) == e.intent = e.req /\ \E i \in DOMAIN replay : replay[i].req = e.req

(* Any other takes the head. *)
FitsNoBind(replay, e) == replay # <<>> /\ e.head = e.req /\ Head(replay).req = e.req

(* The depth of the outbound queue, as in validate_common, and the call taken *)
ReplayPull(a, e) ==
  LET replay == a.calls[e.lb]
      i == SelectInSeq(replay, LAMBDA x : x.req = e.req)
      fits == /\ e.queue_len_before = Len(replay)
              /\ IF config.pull_sched = "bound" THEN FitsBound(replay, e)
                 ELSE FitsNoBind(replay, e)
  IN IF fits THEN [a EXCEPT !.calls[e.lb] = RemoveAt(@, i),
                            !.fulfilled[e.lb] = Append(@, e.intent)]
     ELSE Rejects(a)

(* validate_centralized_per_subset: only to servers of the balancer's subset *)
InSubset(e) == e.server \in ServersOf[e.lb]

(* validate_queue_discipline *)
ReplayDispatch(a, e) ==
  IF a.calls[e.lb] = <<>> \/ ~InSubset(e) THEN Rejects(a)
  ELSE IF Head(a.calls[e.lb]).req # e.req THEN Rejects(a)
  ELSE [a EXCEPT !.calls[e.lb] = Tail(@)]

(* MsJbsqAudit::validate *)
JbsqFits(e) ==
  CASE e.kind = "PullSent"    -> e.occupancy + e.pending < JbsqN
    [] e.kind = "PullArrived" -> e.occupancy + 1 <= JbsqN

Replay(a, e) ==
  IF a.rejected THEN a
  ELSE CASE e.kind = "IntentSent" ->
              [a EXCEPT !.calls[e.lb] = OutboundReplay(@, Keep(e.lb, e.req)), !.sent = @ + 1]
         [] e.kind \in {"IntentQueued", "IntentDrained"} -> ReplayIntent(a, e)
         [] e.kind = "PullFulfilled"  -> ReplayPull(a, e)
         [] e.kind = "CallEnqueued"   ->
              [a EXCEPT !.calls[e.lb] = CentralReplay(@, Keep(e.lb, e.req))]
         [] e.kind = "CallDispatched" -> ReplayDispatch(a, e)
         [] e.kind \in {"PullSent", "PullArrived"} -> IF JbsqFits(e) THEN a ELSE Rejects(a)

(***************************************************************************)
(* validate_bound pairs each drained intent with the pull of that balancer *)
(* and request, and takes a second pair for a duplicate: a replica that    *)
(* calls a microservice twice for one request would be refused.            *)
(***************************************************************************)
PairsUp(a) ==
  \A b \in Balancers : /\ ToSet(a.drained[b]) = ToSet(a.fulfilled[b])
                        /\ IsInjective(a.drained[b])

(* What the validators require after the last event. *)
Balanced(a) ==
  LET total(seqs) == MapThenSumSet(LAMBDA b : Len(seqs[b]), Balancers) IN
  /\ \A b \in Balancers : a.calls[b] = <<>>
  /\ policy = "amphiqueue" =>
       /\ a.sent > 0 /\ a.queued = a.sent
       /\ total(a.drained) = a.sent /\ total(a.fulfilled) = a.sent
       /\ \A r \in Replicas : a.intents[r] = <<>>
       /\ config.pull_sched = "bound" => PairsUp(a)

-----------------------------------------------------------------------------
Records(events) == audit' = FoldLeft(Replay, audit, events)

AuditedInit == Init /\ audit = NothingRecorded

AuditedReplica(r) ==
  \/ ReceivePullIntent(r) /\ Records(ReceiveEvents(r))
  \/ EnqueuePulled(r) /\ Records(ArrivedEvents(r))
  \/ RequestPull(r) /\ Records(RequestEvents(r))
  \/ \E h \in replica[r].serving : Complete(r, h) /\ Records(CompleteEvents(r, h))
  \/ (StartPulled(r) \/ EnqueueWork(r)) /\ UNCHANGED audit

AuditedBalancer(b) ==
  \/ AnnounceCall(b) /\ Records(<<IntentSent(b, Head(inbox[b]).req)>>)
  \/ AmphiPullArrives(b) /\ Records(AmphiPullEvents(b))
  \/ QueueCall(b) /\ Records(QueueEvents(b))
  \/ CentralPullArrives(b) /\ Records(CentralPullEvents(b))
  \/ (PushCall(b) \/ ReleaseArrives(b)) /\ UNCHANGED audit

AuditedStep ==
  \/ \E q \in Requests : Arrive(q) /\ UNCHANGED audit
  \/ \E r \in Replicas : AuditedReplica(r)
  \/ \E b \in Balancers : AuditedBalancer(b)

AuditedNext == AuditedStep \/ (Finished /\ UNCHANGED audit)

AuditedSpec == AuditedInit /\ [][AuditedNext]_auditedVars /\ Fairness

-----------------------------------------------------------------------------
(***************************************************************************)
(* The audits raise no false alarm and miss nothing: whatever the order in *)
(* which the handlers of several replicas and balancers record, no event   *)
(* is refused, the queues rebuilt from the events are the queues of the    *)
(* models, and the run ends with every intent and call accounted for.      *)
(***************************************************************************)
AuditsFollowRun ==
  LET ids(s) == [i \in DOMAIN s |-> s[i].req] IN
  /\ ~audit.rejected
  /\ \A b \in Balancers : ids(audit.calls[b]) = ids(balancer[b].queue)
  /\ \A r \in Replicas : ids(audit.intents[r]) = ids(replica[r].pull_intents)
  /\ (arrived = Requests /\ Quiet) => Balanced(audit)
=============================================================================
