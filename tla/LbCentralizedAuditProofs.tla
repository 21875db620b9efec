---------------------- MODULE LbCentralizedAuditProofs ----------------------
(***************************************************************************)
(* No run of centralized dispatch is refused by its audit, for every       *)
(* number of servers, subset size that the validation lets pass, and load. *)
(***************************************************************************)
EXTENDS LbCentralizedAudit, CentralizedPullProofs

-----------------------------------------------------------------------------
(* A server is in the subset of its balancer, and in no other. *)

LEMMA SubsetsDivide ==
  ServerCount % SubsetSizeK(ServerCount, SubsetSize) = 0
<1>1. ServerCount \in Nat \ {0} /\ SubsetSize \in Nat
  BY LbCentralizedAuditAssumption
<1>2. CASE SubsetSize = 0
  BY <1>1, <1>2 DEF SubsetSizeK
<1>3. CASE SubsetSize # 0
  BY <1>3, LbCentralizedAuditAssumption DEF ValidCentralizedSubset
<1> QED
  BY <1>2, <1>3

LEMMA HomeOwns ==
  ASSUME NEW s \in Servers
  PROVE  s \in SubsetOf(Home[s])
<1>1. /\ ServerCount \in Nat \ {0} /\ SubsetSize \in Nat /\ Shuffled[0] \in Orders(ServerCount)
      /\ s \in Backends(ServerCount) /\ Home = ServerToLb(ServerCount, SubsetSize, Shuffled)
  BY LbCentralizedAuditAssumption
<1>2. {l \in 0 .. SubsetCount(ServerCount, SubsetSize) - 1 :
         s \in AssignSubset(ServerCount, l, SubsetSize, Shuffled)} = {Home[s]}
  BY <1>1, SubsetsDivide, OneOwner
<1> QED
  BY <1>2 DEF SubsetOf

LEMMA SubsetsApart ==
  ASSUME NEW l \in LBs, NEW o \in LBs, l # o
  PROVE  SubsetOf(l) \cap SubsetOf(o) = {}
BY LbCentralizedAuditAssumption, SubsetsDisjoint DEF SubsetOf

-----------------------------------------------------------------------------
(* The inductive invariant *)

(* Some record of l among the dispatches *)
Sent(l) == \E e \in audit.dispatched : e.lb = l

(***************************************************************************)
(* What was recorded fits the state: a queued task was recorded when it    *)
(* came, the balancer of every dispatched task has a dispatch on record,   *)
(* and every dispatch on record went to a server of its balancer.          *)
(***************************************************************************)
Recorded ==
  /\ audit = [enqueued |-> audit.enqueued, dispatched |-> audit.dispatched,
              rejected |-> audit.rejected]
  /\ \A l \in LBs : \A i \in DOMAIN queue[l] : TaskEnqueued(l, queue[l][i]) \in audit.enqueued
  /\ \A e \in audit.enqueued : e.lb \in LBs
  /\ \A e \in audit.dispatched : /\ e.lb \in LBs /\ e.server \in Servers
                                 /\ Home[e.server] = e.lb
                                 /\ \E t \in audit.enqueued : t.lb = e.lb
  /\ \A p \in tasks : Sent(p[1][1])
  /\ \A s \in Servers : \A t \in serving[s] : Sent(t[1])
  /\ \A t \in finished : Sent(t[1])
  /\ ~audit.rejected

AuditInv == SlotsInv /\ Recorded

LEMMA InitRecorded == AuditedInit => Recorded
BY DEF AuditedInit, Init, Recorded

(***************************************************************************)
(* One task of l, which was recorded when it came, is sent to s.           *)
(***************************************************************************)
LEMMA DispatchRecorded ==
  ASSUME SlotsInv, Recorded, NEW came, NEW l \in LBs, NEW id, NEW s \in Servers, Home[s] = l,
         \A e \in came : e.lb \in LBs,
         TaskEnqueued(l, id) \in audit.enqueued \cup came,
         << <<l, id>>, s>> \notin tasks,
         tasks' = tasks \cup {<< <<l, id>>, s>>},
         UNCHANGED <<serving, finished>>,
         Records(came),
         \A k \in LBs : \A i \in DOMAIN queue'[k] :
           TaskEnqueued(k, queue'[k][i]) \in audit.enqueued \cup came
  PROVE  Recorded'
<1> DEFINE sent == [lb |-> l, id |-> id, server |-> s]
<1>1. {TaskDispatched(p) : p \in tasks' \ tasks} = {sent}
  BY DEF TaskDispatched
<1>2. Fits(audit.enqueued \cup came, sent)
  <2>1. s \in SubsetOf(l)
    BY HomeOwns
  <2> QED
    BY <2>1 DEF Fits, TaskEnqueued
<1> HIDE DEF sent
<1>3. audit' = [enqueued   |-> audit.enqueued \cup came,
                dispatched |-> audit.dispatched \cup {sent},
                rejected   |-> FALSE]
  BY <1>1, <1>2 DEF Records, Recorded
<1>4. sent.lb = l /\ sent.server = s /\ sent \in audit'.dispatched
  BY <1>3 DEF sent
<1>5. \A k : Sent(k) => Sent(k)'
  BY <1>3 DEF Sent
<1>6. Sent(l)'
  BY <1>4 DEF Sent
<1>7. \A p \in tasks' : Sent(p[1][1])'
  BY <1>5, <1>6 DEF Recorded
<1>8. \E t \in audit'.enqueued : t.lb = l
  BY <1>3 DEF TaskEnqueued
<1>9. \A e \in audit'.dispatched : /\ e.lb \in LBs /\ e.server \in Servers
                                   /\ Home[e.server] = e.lb
                                   /\ \E t \in audit'.enqueued : t.lb = e.lb
  BY <1>3, <1>4, <1>8 DEF Recorded
<1> QED
  BY <1>3, <1>5, <1>7, <1>9 DEF Recorded

(* Nothing is sent. *)
LEMMA QuietRecorded ==
  ASSUME Recorded, NEW came,
         \A e \in came : e.lb \in LBs,
         tasks' = tasks, UNCHANGED <<serving, finished>>,
         Records(came),
         \A k \in LBs : \A i \in DOMAIN queue'[k] :
           TaskEnqueued(k, queue'[k][i]) \in audit.enqueued \cup came
  PROVE  Recorded'
<1>1. audit' = [enqueued   |-> audit.enqueued \cup came,
                dispatched |-> audit.dispatched,
                rejected   |-> FALSE]
  BY DEF Records, Recorded
<1>2. \A k : Sent(k) => Sent(k)'
  BY <1>1 DEF Sent
<1> QED
  BY <1>1, <1>2 DEF Recorded

-----------------------------------------------------------------------------
(* The handlers *)

LEMMA InputRecorded ==
  ASSUME AuditInv, NEW l \in LBs, AuditedInput(l)
  PROVE  Recorded'
<1> USE DEF AuditInv
<1>0. PICK id : id = next_task_id[l]
  OBVIOUS
<1> DEFINE came == {TaskEnqueued(l, id)}
<1>1. Input(l) /\ Records(came) /\ UNCHANGED <<serving, finished>>
  BY <1>0 DEF AuditedInput, Input, serverVars
<1>2. \A e \in came : e.lb \in LBs
  BY DEF TaskEnqueued
<1>3. CASE /\ queue' = [queue EXCEPT ![l] = Append(@, next_task_id[l])]
           /\ UNCHANGED <<waiting_servers, local_inflight, tasks>>
  <2>1. /\ id \in Nat /\ queue \in [LBs -> Seq(Nat)]
        /\ \A k \in LBs : queue'[k] = IF k = l THEN Append(queue[l], id) ELSE queue[k]
    BY <1>0, <1>3 DEF SlotsInv, TypeOK
  <2>2. \A i \in DOMAIN queue'[l] :
          queue'[l][i] = id \/ (i \in DOMAIN queue[l] /\ queue'[l][i] = queue[l][i])
    <3>1. queue[l] \in Seq(Nat) /\ queue'[l] = Append(queue[l], id)
      BY <2>1
    <3> QED
      BY <2>1, <3>1
  <2>3. \A k \in LBs : \A i \in DOMAIN queue'[k] :
          TaskEnqueued(k, queue'[k][i]) \in audit.enqueued \cup came
    BY <2>1, <2>2 DEF Recorded
  <2> HIDE DEF came
  <2> QED
    BY <1>1, <1>2, <1>3, <2>3, QuietRecorded
<1>4. CASE /\ waiting_servers[l] # <<>> /\ queue[l] = <<>>
           /\ UNCHANGED queue
           /\ tasks' = tasks \cup {<< <<l, next_task_id[l]>>, Head(waiting_servers[l])>>}
  <2>1. PICK s \in Servers : s = Head(waiting_servers[l]) /\ Home[s] = l
    <3>1. waiting_servers[l] \in Seq(Servers)
      BY DEF SlotsInv, TypeOK
    <3>2. 1 \in DOMAIN waiting_servers[l] /\ Head(waiting_servers[l]) = waiting_servers[l][1]
      BY <1>4, <3>1
    <3> QED
      BY <3>1, <3>2 DEF SlotsInv, ParkedAtHome
  <2>2. << <<l, id>>, s>> \notin tasks
    <3>1. id \in Nat /\ Len(queue[l]) \in Nat
      BY <1>0 DEF SlotsInv, TypeOK
    <3>2. Oldest(l) = id
      BY <1>0, <1>4, <3>1 DEF Oldest
    <3> QED
      BY <3>1, <3>2 DEF SlotsInv, OnePlace
  <2>3. TaskEnqueued(l, id) \in audit.enqueued \cup came
    OBVIOUS
  <2>4. \A k \in LBs : \A i \in DOMAIN queue'[k] :
          TaskEnqueued(k, queue'[k][i]) \in audit.enqueued \cup came
    BY <1>4 DEF Recorded
  <2>5. tasks' = tasks \cup {<< <<l, id>>, s>>}
    BY <1>0, <1>4, <2>1
  <2> HIDE DEF came
  <2> QED
    BY <1>1, <1>2, <2>1, <2>2, <2>3, <2>4, <2>5, DispatchRecorded
<1> QED
  BY <1>1, <1>3, <1>4, InputCases

LEMMA PullRecorded ==
  ASSUME AuditInv, NEW s \in Servers, AuditedPull(s)
  PROVE  Recorded'
<1> USE DEF AuditInv
<1>1. PICK l \in LBs : l = Home[s]
  BY CentralizedPullAssumption
<1>2. Pull(s) /\ Records({}) /\ UNCHANGED <<serving, finished>>
  BY DEF AuditedPull, Pull, serverVars
<1>3. CASE UNCHANGED <<queue, tasks>>
  BY <1>2, <1>3, QuietRecorded DEF Recorded
<1>4. CASE /\ queue[l] # <<>>
           /\ Dispatch(l, queue[l], <<s>>, 1)
           /\ queue' = [queue EXCEPT ![l] = Tail(@)]
  <2>1. queue[l] \in Seq(Nat) /\ queue \in [LBs -> Seq(Nat)] /\ 1 \in DOMAIN queue[l]
    BY <1>4 DEF SlotsInv, TypeOK
  <2>2. PICK id : id = queue[l][1]
    OBVIOUS
  <2>3. tasks' = tasks \cup {<< <<l, id>>, s>>}
    <3>1. {<< <<l, queue[l][i]>>, <<s>>[i]>> : i \in 1 .. 1} = {<< <<l, id>>, s>>}
      BY <2>2
    <3> QED
      BY <1>4, <3>1 DEF Dispatch
  <2>4. << <<l, id>>, s>> \notin tasks
    <3>1. id = Oldest(l) /\ Oldest(l) \in Nat
      BY <2>1, <2>2 DEF SlotsInv, InOrder
    <3> QED
      BY <3>1 DEF SlotsInv, OnePlace
  <2>5. \A k \in LBs : \A i \in DOMAIN queue'[k] :
          TaskEnqueued(k, queue'[k][i]) \in audit.enqueued
    <3>1. \A k \in LBs : queue'[k] = IF k = l THEN Tail(queue[l]) ELSE queue[k]
      BY <1>4, <2>1
    <3>2. \A i \in DOMAIN Tail(queue[l]) :
            i + 1 \in DOMAIN queue[l] /\ Tail(queue[l])[i] = queue[l][i + 1]
      BY <1>4, <2>1, PopFront
    <3> QED
      BY <3>1, <3>2 DEF Recorded
  <2>6. TaskEnqueued(l, id) \in audit.enqueued
    BY <2>1, <2>2 DEF Recorded
  <2>7. \A e \in {} : e.lb \in LBs
    OBVIOUS
  <2>8. audit.enqueued \cup {} = audit.enqueued
    OBVIOUS
  <2> QED
    BY <1>1, <1>2, <2>3, <2>4, <2>5, <2>6, <2>7, <2>8, DispatchRecorded
<1> QED
  BY <1>1, <1>2, <1>3, <1>4 DEF Pull

(* A server that starts or ends a task has one whose dispatch is on record. *)
LEMMA UnauditedRecorded ==
  ASSUME AuditInv, NEW s \in Servers, Unaudited(s)
  PROVE  Recorded'
<1> USE DEF AuditInv
<1>1. UNCHANGED audit
  BY DEF Unaudited
<1>2. \A l : Sent(l) => Sent(l)'
  BY <1>1 DEF Sent
<1>3. CASE RequestPull(s) \/ Release(s)
  <2>1. UNCHANGED <<queue, tasks, serving, finished>>
    BY <1>3 DEF RequestPull, Release, lbVars, serverVars
  <2> QED
    BY <1>1, <1>2, <2>1 DEF Recorded
<1>4. ASSUME NEW p \in tasks, p[2] = s, ServerInput(p[1], s) PROVE Recorded'
  <2>1. /\ UNCHANGED <<queue, finished>> /\ tasks' \subseteq tasks
        /\ serving' = [serving EXCEPT ![s] = @ \cup {p[1]}]
    BY <1>4 DEF ServerInput, lbVars
  <2>2. Sent(p[1][1])
    BY DEF Recorded
  <2>3. \A r \in Servers : \A t \in serving'[r] : t = p[1] \/ t \in serving[r]
    BY <2>1 DEF SlotsInv, TypeOK
  <2> QED
    BY <1>1, <1>2, <2>1, <2>2, <2>3 DEF Recorded
<1>5. ASSUME NEW t \in serving[s], Complete(s, t) PROVE Recorded'
  <2>1. /\ UNCHANGED <<queue, tasks>> /\ finished' = finished \cup {t}
        /\ serving' = [serving EXCEPT ![s] = @ \ {t}]
    BY <1>5 DEF Complete, lbVars
  <2>2. Sent(t[1])
    BY DEF Recorded
  <2>3. \A r \in Servers : serving'[r] \subseteq serving[r]
    BY <2>1 DEF SlotsInv, TypeOK
  <2> QED
    BY <1>1, <1>2, <2>1, <2>2, <2>3 DEF Recorded
<1> QED
  BY <1>3, <1>4, <1>5 DEF Unaudited

-----------------------------------------------------------------------------
(* The audited run is a run. *)
LEMMA AuditedSteps ==
  ASSUME [AuditedNext]_auditedVars
  PROVE  [Next]_vars
BY DEF AuditedNext, AuditedInput, AuditedPull, Unaudited, Next, auditedVars

LEMMA NextRecorded ==
  ASSUME AuditInv, [AuditedNext]_auditedVars
  PROVE  AuditInv'
<1>1. SlotsInv'
  BY AuditedSteps, NextSlots DEF AuditInv
<1>2. CASE UNCHANGED auditedVars
  <2>1. UNCHANGED <<audit, queue, tasks, serving, finished>>
    BY <1>2 DEF auditedVars, vars, lbVars, serverVars
  <2>2. Recorded'
    BY <2>1 DEF AuditInv, Recorded, Sent
  <2> QED
    BY <1>1, <2>2 DEF AuditInv
<1>3. ASSUME NEW l \in LBs, AuditedInput(l) PROVE AuditInv'
  BY <1>1, <1>3, InputRecorded DEF AuditInv
<1>4. ASSUME NEW s \in Servers, AuditedPull(s) PROVE AuditInv'
  BY <1>1, <1>4, PullRecorded DEF AuditInv
<1>5. ASSUME NEW s \in Servers, Unaudited(s) PROVE AuditInv'
  BY <1>1, <1>5, UnauditedRecorded DEF AuditInv
<1>6. CASE Finished /\ UNCHANGED audit
  BY <1>2, <1>6 DEF Finished, auditedVars
<1> QED
  BY <1>2, <1>3, <1>4, <1>5, <1>6 DEF AuditedNext

(* At the end of a run every balancer with a task has dispatched one. *)
LEMMA EndAccepted ==
  ASSUME AuditInv, finished = AllTasks, \A l \in LBs : TaskCount[l] > 0
  PROVE  Accepts(audit)
<1>1. \A l \in LBs : Sent(l)
  <2> TAKE l \in LBs
  <2>1. <<l, 0>> \in AllTasks
    <3>1. TaskCount[l] \in Nat /\ TaskCount[l] > 0
      BY CentralizedPullAssumption
    <3>2. <<l, 0>> \in Task /\ <<l, 0>>[1] = l /\ <<l, 0>>[2] = 0
      BY DEF Task
    <3> QED
      BY <3>1, <3>2, AllTasksMeans
  <2> QED
    BY <2>1 DEF AuditInv, Recorded
<1>2. {e.lb : e \in audit.dispatched} = LBs
  BY <1>1 DEF AuditInv, Recorded, Sent
<1>3. {e.lb : e \in audit.enqueued} = LBs
  BY <1>1 DEF AuditInv, Recorded, Sent
<1>4. ASSUME NEW l \in LBs
      PROVE  {e.server : e \in {d \in audit.dispatched : d.lb = l}} \subseteq SubsetOf(l)
  <2>1. \A e \in audit.dispatched : e.lb = l => e.server \in SubsetOf(l)
    BY HomeOwns DEF AuditInv, Recorded
  <2> QED
    BY <2>1
<1>5. DisjointSubsets(audit)
  BY <1>2, <1>4, SubsetsApart DEF DisjointSubsets
<1> QED
  BY <1>3, <1>5 DEF Accepts, AuditInv, Recorded

(***************************************************************************)
(* lb_centralized_audit accepts every run of centralized dispatch: tasks   *)
(* only go to servers of their balancer's subset, under every interleaving *)
(* of arrivals and pulls, for every number of servers, every subset size   *)
(* that divides it and every order of the backends.                        *)
(***************************************************************************)
THEOREM AuditAccepts == AuditedSpec => []AuditAcceptsRun
<1>1. AuditedInit => AuditInv
  BY InitSlots, InitRecorded DEF AuditedInit, AuditInv
<1>2. AuditInv /\ [AuditedNext]_auditedVars => AuditInv'
  BY NextRecorded
<1>3. AuditInv => AuditAcceptsRun
  BY EndAccepted DEF AuditAcceptsRun, AuditInv, Recorded
<1> QED
  BY <1>1, <1>2, <1>3, PTL DEF AuditedSpec
=============================================================================
