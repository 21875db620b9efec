------------------------------ MODULE Topology ------------------------------
(***************************************************************************)
(* How `ms` wires a run (run_inner of src/src/microservice/simulate.rs):   *)
(* from a callgraph and --lb-subset-size, which balancers there are under  *)
(* each policy, which replicas each may dispatch to, where a caller sends  *)
(* its calls, and which replicas pull from where.  Microservices takes its *)
(* topology from here.  amphiqueue-share is wired in Sidecar.              *)
(***************************************************************************)
EXTENDS Subset, Sequences, SequencesExt

CONSTANTS
  Services,      \* the microservices
  ReplicaCount,  \* ReplicaCount[m]: replicas of m
  Endpoints,
  ServiceOf,     \* ServiceOf[e]: the microservice of endpoint e
  Children,      \* Children[e]: filtered_children, in edge order
  Entries,       \* endpoints that edges from USER point to
  SubsetSize,    \* --lb-subset-size
  Shuffled       \* Shuffled[n]: as in Subset, for a target of n replicas

(* uses_shared_downstream, uses_central_pull_queue *)
SharedPolicies == {"cl", "centralized", "jbsq"}
CentralPolicies == {"centralized", "jbsq"}
OwnPolicies == {"push", "amphiqueue"}

-----------------------------------------------------------------------------
(* The callgraph *)

ServicesWithReplicas ==
  [m \in Services |-> {<<m, i>> : i \in Backends(ReplicaCount[m])}]

AllReplicas == UNION {ServicesWithReplicas[m] : m \in Services}

(***************************************************************************)
(* build_path from every entry finds no cycle: nothing that is reached     *)
(* from an entry is reached from itself.                                   *)
(***************************************************************************)
Reaches ==
  LET step(S) == S \cup UNION {ToSet(Children[e]) : e \in S}
      grown[n \in 0 .. Cardinality(Endpoints)] ==
        [e \in Endpoints |-> IF n = 0 THEN ToSet(Children[e]) ELSE step(grown[n - 1][e])]
  IN grown[Cardinality(Endpoints)]

ValidGraph ==
  /\ \A m \in Services : ReplicaCount[m] > 0
  /\ \A e \in Endpoints : ToSet(Children[e]) \subseteq Endpoints
  /\ \A e \in Entries : \A c \in {e} \cup Reaches[e] : c \notin Reaches[c]

ASSUME TopologyAssumption ==
  /\ ValidGraph
  /\ IsFiniteSet(Services) /\ IsFiniteSet(Endpoints)
  /\ Children \in [Endpoints -> Seq(Endpoints)]
  /\ Entries \subseteq Endpoints
  /\ \A m \in Services : ReplicaCount[m] \in Nat
  /\ \A e \in Endpoints : ServiceOf[e] \in Services
  /\ SubsetSize \in Nat
  /\ \A t, m \in Services : \A client \in Backends(ReplicaCount[m]) :
       LET n == ReplicaCount[t]
       IN Shuffled[n][client \div SubsetCount(n, SubsetSize)] \in Orders(n)

(* downstream_targets *)
DownstreamTargets ==
  [m \in Services |->
     UNION {{ServiceOf[c] : c \in ToSet(Children[e])} : e \in {x \in Endpoints : ServiceOf[x] = m}}]

(* all_downstream_targets *)
AllTargets == UNION {DownstreamTargets[m] : m \in Services}

(* callers_of_target *)
CallersOf(target) == {m \in Services : target \in DownstreamTargets[m]}

(* validate_ms_shared_subset *)
ValidSharedSubset(policy) ==
  SubsetSize # 0 =>
    /\ policy # "cl"
    /\ policy \in CentralPolicies =>
         \A t \in AllTargets : \A m \in CallersOf(t) :
           ValidCentralizedSubset(ReplicaCount[t], ReplicaCount[m], SubsetSize)

-----------------------------------------------------------------------------
(* Balancers *)

(* One DownstreamBalancer per subset of each target, one in all if no subsets. *)
LbCount(target) == SubsetCount(ReplicaCount[target], SubsetSize)

SharedBalancers ==
  UNION {{<<"shared", t, l>> : l \in 0 .. LbCount(t) - 1} : t \in AllTargets}

(* A ReplicaBalancer per replica; one queue for each of its targets. *)
OwnBalancers ==
  UNION {UNION {{<<"own", r, t>> : t \in DownstreamTargets[m]} : r \in ServicesWithReplicas[m]} :
         m \in Services}

TargetOf(b) == IF b[1] = "shared" THEN b[2] ELSE b[3]

(* server_indices, downstream_indices: the subset number is lb_id or server_idx. *)
ServerIndices(b) ==
  LET client == IF b[1] = "shared" THEN b[3] ELSE b[2][2]
      t == TargetOf(b)
  IN {<<t, i>> : i \in AssignSubset(ReplicaCount[t], client, SubsetSize, Shuffled[ReplicaCount[t]])}

(* The DownstreamBalancer that the OutboundGateway of r is connected to for t *)
GatewayOutput(r, t) == <<"shared", t, ClientToLb(r[2], ReplicaCount[t], SubsetSize)>>

(* Where replica r sends a call of target t: its gateway, or its own balancer *)
Outbound(policy, r, t) ==
  IF policy \in SharedPolicies THEN GatewayOutput(r, t) ELSE <<"own", r, t>>

(* pull_output: where r sends its pulls under a policy with a central queue *)
PullOutput(r) ==
  LET n == ReplicaCount[r[1]]
  IN <<"shared", r[1], ServerToLb(n, SubsetSize, Shuffled[n])[r[2]]>>

-----------------------------------------------------------------------------
(***************************************************************************)
(* Under every policy that passes the validation, a call has somewhere to  *)
(* go, and only to replicas of its target; under a central queue a replica *)
(* pulls from the one balancer that may dispatch to it, so that every      *)
(* replica of a target is used.                                            *)
(***************************************************************************)
WiringSound ==
  \A p \in SharedPolicies \cup OwnPolicies : ValidSharedSubset(p) =>
    /\ \A m \in Services : \A r \in ServicesWithReplicas[m] : \A t \in DownstreamTargets[m] :
         /\ Outbound(p, r, t) \in SharedBalancers \cup OwnBalancers
         /\ ServerIndices(Outbound(p, r, t)) # {}
         /\ ServerIndices(Outbound(p, r, t)) \subseteq ServicesWithReplicas[t]
    /\ p \in CentralPolicies =>
         \A t \in AllTargets : \A s \in ServicesWithReplicas[t] :
           {b \in SharedBalancers : s \in ServerIndices(b)} = {PullOutput(s)}
=============================================================================
