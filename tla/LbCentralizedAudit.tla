------------------------- MODULE LbCentralizedAudit -------------------------
(***************************************************************************)
(* The audit of `lb --lb-policy centralized` runs                          *)
(* (src/src/lb_centralized_audit.rs), composed with the run it watches and *)
(* with the subsets that say which balancer may use which server.  Servers *)
(* and balancers are numbered, and Home is server_to_lb.                   *)
(***************************************************************************)
EXTENDS CentralizedPull, Subset

CONSTANTS
  ServerCount,  \* --servers
  SubsetSize,   \* --lb-subset-size
  ClientCount,  \* --clients
  Shuffled      \* Shuffled[round]: the order of the backends in a round

ASSUME LbCentralizedAuditAssumption ==
  /\ ServerCount \in Nat \ {0} /\ SubsetSize \in Nat /\ ClientCount \in Nat
  /\ 0 \in DOMAIN Shuffled
  /\ \A round \in DOMAIN Shuffled : Shuffled[round] \in Orders(ServerCount)
  /\ Servers = Backends(ServerCount)
  /\ LBs = 0 .. SubsetCount(ServerCount, SubsetSize) - 1
  /\ ValidCentralizedSubset(ServerCount, ClientCount, SubsetSize)
  /\ {ClientToLb(c, ServerCount, SubsetSize) : c \in 0 .. ClientCount - 1} = LBs
  /\ Home = ServerToLb(ServerCount, SubsetSize, Shuffled)

VARIABLE audit  \* events recorded so far, and whether one was refused
auditedVars == <<vars, audit>>

-----------------------------------------------------------------------------
TaskEnqueued(l, id) == [lb |-> l, id |-> id]

(* dispatch_to_server records every task it sends. *)
TaskDispatched(p) == [lb |-> p[1][1], id |-> p[1][2], server |-> p[2]]

SubsetOf(l) == AssignSubset(ServerCount, l, SubsetSize, Shuffled)

(* validate_centralized_per_subset: one dispatch, after the events so far *)
Fits(enqueued, e) ==
  /\ \E task \in enqueued : task.lb = e.lb /\ task.id = e.id
  /\ e.server \in SubsetOf(e.lb)

(* validate_disjoint_subsets: what was observed of the balancers *)
DisjointSubsets(a) ==
  LET observed(l) == {e.server : e \in {d \in a.dispatched : d.lb = l}} IN
  /\ {e.lb : e \in a.dispatched} = LBs
  /\ \A l \in LBs : observed(l) \subseteq SubsetOf(l)
  /\ \A l, o \in LBs : l # o => /\ observed(l) \cap observed(o) = {}
                                /\ SubsetOf(l) \cap SubsetOf(o) = {}

(* validate_centralized_per_subset, once every event was seen *)
Accepts(a) ==
  /\ ~a.rejected
  /\ DisjointSubsets(a)
  /\ {e.lb : e \in a.enqueued} = LBs

-----------------------------------------------------------------------------
AuditedInit ==
  Init /\ audit = [enqueued |-> {}, dispatched |-> {}, rejected |-> FALSE]

(* What a handler records: the task that came, and those it dispatches. *)
Records(came) ==
  LET sent == {TaskDispatched(p) : p \in tasks' \ tasks}
      seen == audit.enqueued \cup came
  IN audit' = [enqueued   |-> seen,
               dispatched |-> audit.dispatched \cup sent,
               rejected   |-> audit.rejected \/ \E e \in sent : ~Fits(seen, e)]

AuditedInput(l) == Input(l) /\ Records({TaskEnqueued(l, next_task_id[l])})
AuditedPull(s)  == Pull(s) /\ Records({})

Unaudited(s) ==
  /\ \/ RequestPull(s)
     \/ Release(s)
     \/ \E p \in tasks : p[2] = s /\ ServerInput(p[1], s)
     \/ \E t \in serving[s] : Complete(s, t)
  /\ UNCHANGED audit

AuditedNext ==
  \/ \E l \in LBs : AuditedInput(l)
  \/ \E s \in Servers : AuditedPull(s) \/ Unaudited(s)
  \/ Finished /\ UNCHANGED audit

AuditedSpec == AuditedInit /\ [][AuditedNext]_auditedVars /\ Fairness

-----------------------------------------------------------------------------
(***************************************************************************)
(* The audit refuses no event, and accepts every run that gives each       *)
(* balancer a task: no server is ever sent a task by a balancer other than *)
(* its own, however pulls and arrivals of several subsets interleave, and  *)
(* the log alone, in which the servers of two balancers must be disjoint,  *)
(* shows it.                                                               *)
(***************************************************************************)
AuditAcceptsRun ==
  /\ ~audit.rejected
  /\ finished = AllTasks /\ (\A l \in LBs : TaskCount[l] > 0) => Accepts(audit)
=============================================================================
