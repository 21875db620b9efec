----------------------------- MODULE LbPullAudit -----------------------------
(***************************************************************************)
(* The audit that `lb` amphiqueue runs are checked with                    *)
(* (src/src/lb_pull_audit.rs), composed with the protocol it watches.      *)
(* The handlers record events; after the run the validators go through     *)
(* them once, in order, replaying the queues, and stop at the first        *)
(* event that does not fit.  The log itself is not kept here: `audit` is   *)
(* the state of the validators after the events recorded so far, which is  *)
(* all a later event or the end of the run is judged by.                   *)
(***************************************************************************)
EXTENDS AmphiQueue

VARIABLE audit
auditedVars == <<vars, audit>>

-----------------------------------------------------------------------------
(* The events, as the handlers record them *)

TaskEnqueued(l, i, before) ==
  [kind |-> "TaskEnqueued", lb |-> l, id |-> i, queue_len_before |-> before]
IntentSent(l) == [kind |-> "IntentSent", lb |-> l]
IntentQueued(s, l, i, before) ==
  [kind |-> "IntentQueued", server |-> s, intent |-> <<l, i>>,
   queue_len_before |-> before]
IntentDrained(s, intent, before, pending, running) ==
  [kind |-> "IntentDrained", server |-> s, intent |-> intent,
   queue_len_before |-> before, claimed |-> pending + running]
PullFulfilled(l, request, task, tasks) ==
  [kind |-> "PullFulfilled", lb |-> l, intent |-> request, id |-> task,
   queue_len_before |-> Len(tasks), head |-> Head(tasks)]

(* LoadBalancer::input, send_pull_intent *)
InputEvents(l) ==
  <<TaskEnqueued(l, next_task_id[l], Len(queue[l])), IntentSent(l)>>

(* Seeded bug: the length is read after the intent was popped. *)
DrainEventsAfterPop(s, intents, running) ==
  IF HasSpareCapacity(s, running) /\ intents # <<>>
  THEN <<IntentDrained(s, Head(intents), Len(intents) - 1, pending_pulls[s], running)>>
  ELSE <<>>

(* Server::drain_pull_intents_async *)
DrainEvents(s, intents, running) ==
  IF HasSpareCapacity(s, running) /\ intents # <<>>
  THEN <<IntentDrained(s, Head(intents), Len(intents), pending_pulls[s], running)>>
  ELSE <<>>

(* Server::receive_pull_intent *)
ReceiveEvents(m) ==
  LET s == m.server
      kept == pull_intent_queue[s]
  IN <<IntentQueued(s, m.lb, m.id, Len(kept))>>
       \o DrainEvents(s, Append(kept, <<m.lb, m.id>>), in_flight[s])

(* LoadBalancer::pull; a pull that aborts records nothing *)
PullEvents(m) ==
  LET positions == PullPositions(m.lb, m.id)
      tasks == queue[m.lb]
  IN IF positions = {} THEN <<>>
     ELSE <<PullFulfilled(m.lb, m.id, tasks[Min(positions)], tasks)>>

-----------------------------------------------------------------------------
(* The validators: validate_common with validate_bound or validate_no_bind *)

NothingRecorded ==
  [tasks |-> [l \in LBs |-> <<>>], intents |-> [s \in Servers |-> <<>>],
   sent |-> 0, queued |-> 0, drained |-> 0, fulfilled |-> 0,
   saw_mismatch |-> FALSE, rejected |-> FALSE]

(* What validate_common requires of event e after the replay a. *)
FitsCommon(a, e) ==
  CASE e.kind = "TaskEnqueued"  -> e.queue_len_before = Len(a.tasks[e.lb])
    [] e.kind = "IntentQueued"  -> e.queue_len_before = Len(a.intents[e.server])
    [] e.kind = "IntentDrained" ->
         /\ e.claimed < MaxConcurrency
         /\ a.intents[e.server] # <<>>
         /\ e.queue_len_before = Len(a.intents[e.server])
         /\ e.intent = Head(a.intents[e.server])
    [] e.kind = "PullFulfilled" ->
         /\ a.tasks[e.lb] # <<>>
         /\ e.queue_len_before = Len(a.tasks[e.lb])
    [] e.kind = "IntentSent"    -> TRUE

(* What validate_bound requires of a pull in addition, and validate_no_bind. *)
FitsBound(a, e)  == e.intent = e.id /\ e.id \in Range(a.tasks[e.lb])
FitsNoBind(a, e) == e.head = e.id /\ e.id = Head(a.tasks[e.lb])

Fits(a, e) ==
  /\ FitsCommon(a, e)
  /\ e.kind = "PullFulfilled" => IF bound THEN FitsBound(a, e) ELSE FitsNoBind(a, e)

(* The replay of one event, and of the events of one handler. *)
Replay(a, e) ==
  IF a.rejected THEN a
  ELSE IF ~Fits(a, e) THEN [a EXCEPT !.rejected = TRUE]
  ELSE CASE e.kind = "TaskEnqueued"  -> [a EXCEPT !.tasks[e.lb] = Append(@, e.id)]
         [] e.kind = "IntentSent"    -> [a EXCEPT !.sent = @ + 1]
         [] e.kind = "IntentQueued"  -> [a EXCEPT !.intents[e.server] = Append(@, e.intent),
                                                  !.queued = @ + 1]
         [] e.kind = "IntentDrained" -> [a EXCEPT !.intents[e.server] = Tail(@),
                                                  !.drained = @ + 1]
         [] e.kind = "PullFulfilled" -> [a EXCEPT !.tasks[e.lb] = RemoveFirst(@, e.id),
                                                  !.fulfilled = @ + 1,
                                                  !.saw_mismatch = @ \/ e.intent # e.id]

(* What the validators require once they have seen the last event. *)
Balanced(a) ==
  /\ a.sent > 0
  /\ a.queued = a.sent /\ a.drained = a.sent /\ a.fulfilled = a.sent
  /\ \A s \in Servers : a.intents[s] = <<>>
  /\ \A l \in LBs : a.tasks[l] = <<>>

-----------------------------------------------------------------------------
Records(events) == audit' = FoldLeft(Replay, audit, events)

AuditedInit == Init /\ audit = NothingRecorded

AuditedInput(l)      == Input(l) /\ Records(InputEvents(l))
AuditedReceive(m)    == ReceivePullIntent(m) /\ Records(ReceiveEvents(m))
AuditedPull(m)       == Pull(m) /\ Records(PullEvents(m))
AuditedComplete(s, t) ==
  Complete(s, t) /\ Records(DrainEvents(s, pull_intent_queue[s], in_flight[s] - 1))
Unaudited(m)         == (ServerInput(m) \/ Release(m)) /\ UNCHANGED audit

AuditedNext ==
  /\ status = "running"
  /\ \/ \E l \in LBs : AuditedInput(l)
     \/ \E m \in network : AuditedReceive(m) \/ AuditedPull(m) \/ Unaudited(m)
     \/ \E s \in Servers : \E t \in serving[s] : AuditedComplete(s, t)
     \/ Finished /\ UNCHANGED audit

AuditedSafety == AuditedInit /\ [][AuditedNext]_auditedVars
AuditedSpec == AuditedSafety /\ Fairness

-----------------------------------------------------------------------------
RunOver ==
  /\ \A l \in LBs : next_task_id[l] = TaskCount[l]
  /\ network = {}
  /\ \A s \in Servers : serving[s] = {}

(***************************************************************************)
(* The audit raises no false alarm and loses nothing: whatever the order   *)
(* in which handlers of several models record, the queues it rebuilds from *)
(* the events are the queues of the models, no event is refused, and at    *)
(* the end every intent sent was queued, answered and fulfilled.  (An      *)
(* unbound run it may still refuse because no pull took another task than  *)
(* the one announced, which is said of the test, not of the protocol.)     *)
(***************************************************************************)
AuditFollowsRun ==
  /\ ~audit.rejected
  /\ audit.tasks = queue
  /\ audit.intents = pull_intent_queue
  /\ RunOver => Balanced(audit)
=============================================================================
