------------------------ MODULE MicroservicesProofs ------------------------
(***************************************************************************)
(* The wiring of an `ms` run and what a run keeps, for every callgraph,    *)
(* number of replicas, policy, queue discipline, concurrency and subset    *)
(* size that passes the validation.  Handlers are described by what they   *)
(* do to counts: the hops of a request, the pulls of a server, the intents *)
(* of a balancer, the calls open at a server, wherever they are.           *)
(***************************************************************************)
EXTENDS MicroservicesInvariant

-----------------------------------------------------------------------------
(* Membership in what the wiring builds *)

LEMMA Counts ==
  ASSUME NEW t \in Services
  PROVE  /\ ReplicaCount[t] \in Nat \ {0}
         /\ SubsetSizeK(ReplicaCount[t], SubsetSize) \in 1 .. ReplicaCount[t]
         /\ LbCount(t) \in Nat \ {0}
<1>1. ReplicaCount[t] \in Nat \ {0} /\ SubsetSize \in Nat
  BY TopologyAssumption DEF ValidGraph
<1> QED BY <1>1, SizeInRange, CountPositive DEF LbCount, SubsetCount

LEMMA TargetsAreServices ==
  ASSUME NEW m \in Services, NEW t \in DownstreamTargets[m]
  PROVE  t \in Services /\ t \in AllTargets /\ m \in CallersOf(t)
<1>1. \A e \in Endpoints : \A c \in ToSet(Children[e]) : ServiceOf[c] \in Services
  BY TopologyAssumption DEF ValidGraph
<1>2. t \in Services  BY <1>1 DEF DownstreamTargets
<1> QED BY <1>2 DEF AllTargets, CallersOf

LEMMA AllTargetsCalled ==
  ASSUME NEW t \in AllTargets
  PROVE  t \in Services /\ \E m \in Services : t \in DownstreamTargets[m]
BY TargetsAreServices DEF AllTargets

LEMMA ReplicaIs ==
  ASSUME NEW m \in Services, NEW r
  PROVE  r \in ServicesWithReplicas[m] <=> \E i \in Backends(ReplicaCount[m]) : r = <<m, i>>
BY DEF ServicesWithReplicas

LEMMA SharedIs ==
  ASSUME NEW b
  PROVE  b \in SharedBalancers <=>
           \E t \in AllTargets : \E l \in 0 .. LbCount(t) - 1 : b = <<"shared", t, l>>
BY DEF SharedBalancers

LEMMA OwnIs ==
  ASSUME NEW m \in Services, NEW r \in ServicesWithReplicas[m], NEW t \in DownstreamTargets[m]
  PROVE  <<"own", r, t>> \in OwnBalancers
BY DEF OwnBalancers

-----------------------------------------------------------------------------
(* Where calls go *)

LEMMA OutboundIs ==
  ASSUME NEW p \in SharedPolicies \cup OwnPolicies, NEW m \in Services,
         NEW r \in ServicesWithReplicas[m], NEW t \in DownstreamTargets[m]
  PROVE  \E client \in Nat :
           /\ Outbound(p, r, t) \in SharedBalancers \cup OwnBalancers
           /\ Shuffled[ReplicaCount[t]][client \div LbCount(t)] \in Orders(ReplicaCount[t])
           /\ ServerIndices(Outbound(p, r, t)) =
                {<<t, i>> : i \in AssignSubset(ReplicaCount[t], client, SubsetSize,
                                               Shuffled[ReplicaCount[t]])}
<1>1. PICK i \in Backends(ReplicaCount[m]) : r = <<m, i>>  BY ReplicaIs
<1>2. /\ t \in Services /\ t \in AllTargets /\ ReplicaCount[m] \in Nat \ {0}
      /\ LbCount(t) \in Nat \ {0}
  BY TargetsAreServices, Counts
<1>3. i \in Nat /\ r[2] = i /\ 0 \in Backends(ReplicaCount[m])
  BY <1>1, <1>2 DEF Backends
<1>4. \A client \in Backends(ReplicaCount[m]) :
        Shuffled[ReplicaCount[t]][client \div LbCount(t)] \in Orders(ReplicaCount[t])
  BY <1>2, TopologyAssumption DEF LbCount
<1>5. CASE p \in SharedPolicies
  <2> DEFINE l == i % LbCount(t)
  <2>1. l \in 0 .. LbCount(t) - 1  BY <1>2, <1>3
  <2>2. Outbound(p, r, t) = <<"shared", t, l>>
    BY <1>3, <1>5 DEF Outbound, GatewayOutput, ClientToLb, LbCount
  <2>3. l \div LbCount(t) = 0 /\ 0 \div LbCount(t) = 0
    <3>1. 0 \in 0 .. LbCount(t) - 1  BY <1>2
    <3> QED BY <1>2, <2>1, <3>1, SmallClient
  <2>4. Shuffled[ReplicaCount[t]][l \div LbCount(t)] \in Orders(ReplicaCount[t])
    BY <1>3, <1>4, <2>3
  <2>5. l \in Nat  BY <2>1
  <2> HIDE DEF l
  <2>6. ServerIndices(Outbound(p, r, t)) =
          {<<t, j>> : j \in AssignSubset(ReplicaCount[t], l, SubsetSize, Shuffled[ReplicaCount[t]])}
    BY <2>2 DEF ServerIndices, TargetOf
  <2>7. Outbound(p, r, t) \in SharedBalancers  BY <1>2, <2>1, <2>2, SharedIs
  <2> QED BY <2>4, <2>5, <2>6, <2>7
<1>6. CASE p \notin SharedPolicies
  <2>1. Outbound(p, r, t) = <<"own", r, t>>  BY <1>6 DEF Outbound
  <2>2. ServerIndices(Outbound(p, r, t)) =
          {<<t, j>> : j \in AssignSubset(ReplicaCount[t], i, SubsetSize, Shuffled[ReplicaCount[t]])}
    BY <1>3, <2>1 DEF ServerIndices, TargetOf
  <2> QED BY <1>1, <1>3, <1>4, <2>1, <2>2, OwnIs
<1> QED BY <1>5, <1>6

LEMMA OutboundSound ==
  ASSUME NEW p \in SharedPolicies \cup OwnPolicies, NEW m \in Services,
         NEW r \in ServicesWithReplicas[m], NEW t \in DownstreamTargets[m]
  PROVE  /\ Outbound(p, r, t) \in SharedBalancers \cup OwnBalancers
         /\ ServerIndices(Outbound(p, r, t)) # {}
         /\ ServerIndices(Outbound(p, r, t)) \subseteq ServicesWithReplicas[t]
<1>1. PICK client \in Nat :
           /\ Outbound(p, r, t) \in SharedBalancers \cup OwnBalancers
           /\ Shuffled[ReplicaCount[t]][client \div LbCount(t)] \in Orders(ReplicaCount[t])
           /\ ServerIndices(Outbound(p, r, t)) =
                {<<t, i>> : i \in AssignSubset(ReplicaCount[t], client, SubsetSize,
                                               Shuffled[ReplicaCount[t]])}
  BY OutboundIs
<1>2. t \in Services /\ ReplicaCount[t] \in Nat \ {0} /\ SubsetSize \in Nat
  BY TargetsAreServices, Counts, TopologyAssumption
<1> DEFINE S == AssignSubset(ReplicaCount[t], client, SubsetSize, Shuffled[ReplicaCount[t]])
<1>3. S # {} /\ S \subseteq Backends(ReplicaCount[t])
  BY <1>1, <1>2, SubsetIsSome DEF LbCount
<1> HIDE DEF S
<1>4. ServerIndices(Outbound(p, r, t)) = {<<t, i>> : i \in S}  BY <1>1 DEF S
<1>5. \A i \in S : <<t, i>> \in ServicesWithReplicas[t]
  BY <1>2, <1>3, ReplicaIs
<1>6. {<<t, i>> : i \in S} # {} /\ {<<t, i>> : i \in S} \subseteq ServicesWithReplicas[t]
  BY <1>3, <1>5
<1> QED BY <1>1, <1>4, <1>6

-----------------------------------------------------------------------------
(* Where pulls go *)

LEMMA OnePullOutput ==
  ASSUME NEW p \in CentralPolicies, ValidSharedSubset(p),
         NEW t \in AllTargets, NEW s \in ServicesWithReplicas[t]
  PROVE  {b \in SharedBalancers : s \in ServerIndices(b)} = {PullOutput(s)}
<1> DEFINE n == ReplicaCount[t]
           own == ServerToLb(n, SubsetSize, Shuffled[n])
<1>1. PICK m \in Services : t \in DownstreamTargets[m]  BY AllTargetsCalled
<1>2. t \in Services /\ n \in Nat \ {0} /\ SubsetSize \in Nat /\ m \in CallersOf(t)
  BY <1>1, TargetsAreServices, Counts, TopologyAssumption
<1>3. n % SubsetSizeK(n, SubsetSize) = 0
  <2>1. CASE SubsetSize = 0  BY <1>2, <2>1 DEF SubsetSizeK
  <2>2. CASE SubsetSize # 0
    BY <1>2, <2>2 DEF ValidSharedSubset, ValidCentralizedSubset
  <2> QED BY <2>1, <2>2
<1>4. Shuffled[n][0] \in Orders(n)
  <2>1. 0 \in Backends(n) /\ LbCount(t) \in Nat \ {0}
    BY <1>2, Counts DEF Backends
  <2>2. 0 \div LbCount(t) = 0  BY <2>1
  <2> QED BY <1>2, <2>1, <2>2, TopologyAssumption DEF LbCount
<1>5. PICK j \in Backends(n) : s = <<t, j>>  BY <1>2, ReplicaIs
<1>6. {l \in 0 .. LbCount(t) - 1 : j \in AssignSubset(n, l, SubsetSize, Shuffled[n])} = {own[j]}
  <2> HIDE DEF n
  <2> QED BY <1>2, <1>3, <1>4, OneOwner DEF LbCount, n
<1>7. PullOutput(s) = <<"shared", t, own[j]>>  BY <1>5 DEF PullOutput
<1> HIDE DEF own
<1>8. ASSUME NEW u \in AllTargets, NEW l \in 0 .. LbCount(u) - 1
      PROVE  s \in ServerIndices(<<"shared", u, l>>) <=> u = t /\ l = own[j]
  <2>1. ServerIndices(<<"shared", u, l>>) =
          {<<u, i>> : i \in AssignSubset(ReplicaCount[u], l, SubsetSize,
                                         Shuffled[ReplicaCount[u]])}
    BY DEF ServerIndices, TargetOf
  <2>2. s \in ServerIndices(<<"shared", u, l>>) <=>
          u = t /\ j \in AssignSubset(ReplicaCount[u], l, SubsetSize, Shuffled[ReplicaCount[u]])
    BY <1>5, <2>1
  <2> QED BY <1>6, <2>2
<1>9. own[j] \in 0 .. LbCount(t) - 1  BY <1>6
<1>10. <<"shared", t, own[j]>> \in SharedBalancers  BY <1>9, SharedIs
<1>11. \A b \in SharedBalancers : s \in ServerIndices(b) <=> b = <<"shared", t, own[j]>>
  <2> TAKE b \in SharedBalancers
  <2>1. PICK u \in AllTargets : \E l \in 0 .. LbCount(u) - 1 : b = <<"shared", u, l>>
    BY SharedIs
  <2>2. PICK l \in 0 .. LbCount(u) - 1 : b = <<"shared", u, l>>  BY <2>1
  <2> QED BY <1>8, <2>2
<1> QED BY <1>7, <1>10, <1>11

(***************************************************************************)
(* In every run that passes the validation a call has a balancer, the      *)
(* balancer has replicas of the right microservice to choose from, and     *)
(* under a central queue every replica of a target pulls from the one      *)
(* balancer that may dispatch to it: subsets never share a replica and     *)
(* never leave one out.                                                    *)
(***************************************************************************)
THEOREM WiringIsSound == WiringSound
BY OutboundSound, OnePullOutput DEF WiringSound

-----------------------------------------------------------------------------
(* The places of a run *)

LEMMA PoliciesAre ==
  /\ Policies = {"cl", "centralized", "jbsq", "push", "amphiqueue"}
  /\ Policies = PushPolicies \cup CentralPullPolicies \cup {"amphiqueue"}
BY DEF Policies, SharedPolicies, OwnPolicies, PushPolicies, CentralPullPolicies

LEMMA PolicyIs ==
  ASSUME config \in Configs
  PROVE  policy \in Policies /\ ValidSharedSubset(policy)
<1>1. config \in Config /\ ValidSharedSubset(config.policy)
  BY MicroservicesAssumption
<1>2. config.policy \in PushPolicies \cup CentralPullPolicies \cup {"amphiqueue"}
  BY <1>1 DEF Config
<1> QED BY <1>1, <1>2, PoliciesAre DEF policy

LEMMA ReplicaAt ==
  ASSUME NEW r
  PROVE  /\ r \in Replicas => r[1] \in Services /\ r \in ServicesWithReplicas[r[1]]
         /\ \A m \in Services : r \in ServicesWithReplicas[m] => r \in Replicas /\ r[1] = m
<1>1. ASSUME NEW m \in Services, r \in ServicesWithReplicas[m]
      PROVE  r \in Replicas /\ r[1] = m
  <2>1. r[1] = m  BY <1>1, ReplicaIs
  <2> QED BY <1>1, <2>1 DEF Replicas, AllReplicas
<1>2. ASSUME r \in Replicas
      PROVE  r[1] \in Services /\ r \in ServicesWithReplicas[r[1]]
  <2>1. PICK m \in Services : r \in ServicesWithReplicas[m]
    BY <1>2 DEF Replicas, AllReplicas
  <2> QED BY <1>1, <2>1
<1> QED BY <1>1, <1>2

LEMMA ReplicasFinite == IsFiniteSet(Replicas)
<1>1. ASSUME NEW m \in Services
      PROVE  IsFiniteSet(ServicesWithReplicas[m])
  <2>1. IsFiniteSet(Backends(ReplicaCount[m]))
    <3>1. ReplicaCount[m] \in Nat  BY Counts
    <3> QED BY <3>1, FS_Interval DEF Backends
  <2>2. IsFiniteSet({m} \X Backends(ReplicaCount[m]))
    BY <2>1, FS_Singleton, FS_Product
  <2>3. ServicesWithReplicas[m] \subseteq {m} \X Backends(ReplicaCount[m])
    BY DEF ServicesWithReplicas
  <2> QED BY <2>2, <2>3, FS_Subset
<1>2. IsFiniteSet(UNION {ServicesWithReplicas[m] : m \in Services})
  BY <1>1, UnionFinite, TopologyAssumption
<1> QED BY <1>2 DEF Replicas, AllReplicas

LEMMA SomeTargets ==
  /\ IsFiniteSet(AllTargets)
  /\ \A m \in Services : IsFiniteSet(DownstreamTargets[m])
<1>1. \A m \in Services : DownstreamTargets[m] \subseteq Services
  BY TargetsAreServices
<1>2. AllTargets \subseteq Services  BY AllTargetsCalled
<1>3. IsFiniteSet(Services)  BY TopologyAssumption
<1> QED BY <1>1, <1>2, <1>3, FS_Subset

LEMMA BalancersFinite == IsFiniteSet(Balancers)
<1>1. IsFiniteSet(SharedBalancers)
  <2> DEFINE f == [t \in AllTargets |-> {<<"shared", t, l>> : l \in 0 .. LbCount(t) - 1}]
  <2>1. ASSUME NEW t \in AllTargets
        PROVE  IsFiniteSet(f[t])
    <3>1. LbCount(t) \in Nat  BY AllTargetsCalled, Counts
    <3>2. IsFiniteSet(0 .. LbCount(t) - 1)  BY <3>1, FS_Interval
    <3> DEFINE L == 0 .. LbCount(t) - 1
               g == [l \in L |-> <<"shared", t, l>>]
    <3>3. IsFiniteSet({g[l] : l \in L})  BY <3>2, ImageFinite
    <3>4. f[t] = {g[l] : l \in L}  OBVIOUS
    <3> QED BY <3>3, <3>4
  <2>2. SharedBalancers = UNION {f[t] : t \in AllTargets}
    BY DEF SharedBalancers
  <2> HIDE DEF f
  <2> QED BY <2>1, <2>2, SomeTargets, UnionFinite
<1>2. IsFiniteSet(OwnBalancers)
  <2>1. ASSUME NEW m \in Services, NEW r \in ServicesWithReplicas[m]
        PROVE  IsFiniteSet({<<"own", r, t>> : t \in DownstreamTargets[m]})
    <3> DEFINE g == [t \in DownstreamTargets[m] |-> <<"own", r, t>>]
    <3>1. IsFiniteSet({g[t] : t \in DownstreamTargets[m]})
      BY SomeTargets, ImageFinite
    <3>2. {<<"own", r, t>> : t \in DownstreamTargets[m]} = {g[t] : t \in DownstreamTargets[m]}
      OBVIOUS
    <3> QED BY <3>1, <3>2
  <2>2. ASSUME NEW m \in Services
        PROVE  IsFiniteSet(UNION {{<<"own", r, t>> : t \in DownstreamTargets[m]} : r \in ServicesWithReplicas[m]})
    <3> DEFINE g == [r \in ServicesWithReplicas[m] |-> {<<"own", r, t>> : t \in DownstreamTargets[m]}]
    <3>1. IsFiniteSet(ServicesWithReplicas[m])
      <4>1. ServicesWithReplicas[m] \subseteq Replicas  BY ReplicaAt
      <4> QED BY <4>1, ReplicasFinite, FS_Subset
    <3>2. \A r \in ServicesWithReplicas[m] : IsFiniteSet(g[r])  BY <2>1
    <3>3. UNION {{<<"own", r, t>> : t \in DownstreamTargets[m]} : r \in ServicesWithReplicas[m]}
            = UNION {g[r] : r \in ServicesWithReplicas[m]}
      OBVIOUS
    <3> HIDE DEF g
    <3> QED BY <3>1, <3>2, <3>3, UnionFinite
  <2> DEFINE h == [m \in Services |-> UNION {{<<"own", r, t>> : t \in DownstreamTargets[m]} : r \in ServicesWithReplicas[m]}]
  <2>3. OwnBalancers = UNION {h[m] : m \in Services}  BY DEF OwnBalancers
  <2>4. \A m \in Services : IsFiniteSet(h[m])  BY <2>2
  <2> HIDE DEF h
  <2> QED BY <2>3, <2>4, UnionFinite, TopologyAssumption
<1> QED BY <1>1, <1>2, FS_Union DEF Balancers

LEMMA PlacesFinite ==
  /\ IsFiniteSet(Places)
  /\ \A D \in SUBSET Places : IsFiniteSet(D)
<1>1. IsFiniteSet(Replicas \cup Balancers)
  BY ReplicasFinite, BalancersFinite, FS_Union
<1>2. IsFiniteSet(Places)  BY <1>1, FS_AddElement DEF Places
<1> QED BY <1>2, FS_Subset

(* Which balancers there are *)
LEMMA OwnFrom ==
  ASSUME NEW b \in OwnBalancers
  PROVE  \E m \in Services : \E r \in ServicesWithReplicas[m] : \E t \in DownstreamTargets[m] :
           b = <<"own", r, t>>
BY DEF OwnBalancers

LEMMA PlacesDiffer ==
  /\ \A r \in Replicas : r \notin Balancers /\ r # Sink
  /\ \A b \in Balancers : b \notin Replicas /\ b # Sink
<1>1. ASSUME NEW r \in Replicas
      PROVE  r \notin Balancers
  <2>1. PICK i \in Backends(ReplicaCount[r[1]]) : r = <<r[1], i>>
    BY ReplicaAt, ReplicaIs
  <2>2. \A c, d, e : r # <<c, d, e>>  BY <2>1
  <2>3. r \notin SharedBalancers  BY <2>2, SharedIs
  <2>4. r \notin OwnBalancers  BY <2>2, OwnFrom
  <2> QED BY <2>3, <2>4 DEF Balancers
<1> QED BY <1>1, MicroservicesAssumption

(* Every balancer has servers, all of them replicas of its target. *)
LEMMA BalancerServes ==
  ASSUME NEW b \in Balancers
  PROVE  /\ TargetOf(b) \in AllTargets
         /\ ServersOf[b] = ServerIndices(b)
         /\ ServersOf[b] # {}
         /\ \A s \in ServersOf[b] : s \in Replicas /\ s[1] = TargetOf(b)
<1>1. ServersOf[b] = ServerIndices(b)  BY DEF ServersOf
<1> DEFINE Sound(t) == /\ TargetOf(b) = t /\ t \in AllTargets
                       /\ ServerIndices(b) # {}
                       /\ ServerIndices(b) \subseteq ServicesWithReplicas[t]
<1>2. ASSUME NEW t \in AllTargets, Sound(t)
      PROVE  /\ TargetOf(b) \in AllTargets
             /\ ServerIndices(b) # {}
             /\ \A s \in ServerIndices(b) : s \in Replicas /\ s[1] = TargetOf(b)
  BY <1>2, ReplicaAt, AllTargetsCalled
<1>3. CASE b \in SharedBalancers
  <2>1. PICK t \in AllTargets : \E l \in 0 .. LbCount(t) - 1 : b = <<"shared", t, l>>
    BY <1>3, SharedIs
  <2>2. PICK l \in 0 .. LbCount(t) - 1 : b = <<"shared", t, l>>  BY <2>1
  <2>3. PICK m \in Services : t \in DownstreamTargets[m]  BY AllTargetsCalled
  <2>4. /\ t \in Services /\ ReplicaCount[m] \in Nat \ {0} /\ ReplicaCount[t] \in Nat \ {0}
        /\ LbCount(t) \in Nat \ {0} /\ SubsetSize \in Nat
    BY <2>3, TargetsAreServices, Counts, TopologyAssumption
  <2>5. l \div LbCount(t) = 0 /\ 0 \div LbCount(t) = 0
    <3>1. 0 \in 0 .. LbCount(t) - 1  BY <2>4
    <3> QED BY <2>4, <3>1, SmallClient
  <2>6. Shuffled[ReplicaCount[t]][l \div LbCount(t)] \in Orders(ReplicaCount[t])
    <3>1. 0 \in Backends(ReplicaCount[m])  BY <2>4 DEF Backends
    <3>2. Shuffled[ReplicaCount[t]][0 \div LbCount(t)] \in Orders(ReplicaCount[t])
      BY <2>4, <3>1, TopologyAssumption DEF LbCount
    <3> QED BY <2>5, <3>2
  <2> DEFINE A == AssignSubset(ReplicaCount[t], l, SubsetSize, Shuffled[ReplicaCount[t]])
  <2>7. A # {} /\ A \subseteq Backends(ReplicaCount[t])
    <3>1. l \in Nat  BY <2>4
    <3> QED BY <2>4, <2>6, <3>1, SubsetIsSome DEF LbCount
  <2> HIDE DEF A
  <2>8. TargetOf(b) = t /\ ServerIndices(b) = {<<t, i>> : i \in A}
    BY <2>2 DEF TargetOf, ServerIndices, A
  <2>9. \A i \in A : <<t, i>> \in ServicesWithReplicas[t]
    BY <2>4, <2>7, ReplicaIs
  <2>10. Sound(t)  BY <2>7, <2>8, <2>9
  <2> QED BY <1>1, <1>2, <2>10
<1>4. CASE b \in OwnBalancers
  <2>1. PICK m \in Services : \E r \in ServicesWithReplicas[m] : \E t \in DownstreamTargets[m] :
          b = <<"own", r, t>>
    BY <1>4, OwnFrom
  <2>11. PICK r \in ServicesWithReplicas[m] : \E t \in DownstreamTargets[m] : b = <<"own", r, t>>
    BY <2>1
  <2>12. PICK t \in DownstreamTargets[m] : b = <<"own", r, t>>  BY <2>11
  <2>2. b = Outbound("push", r, t) /\ "push" \in SharedPolicies \cup OwnPolicies
    BY <2>12 DEF Outbound, SharedPolicies, OwnPolicies
  <2>3. TargetOf(b) = t /\ t \in AllTargets
    BY <2>12, TargetsAreServices DEF TargetOf
  <2>4. Sound(t)  BY <2>2, <2>3, OutboundSound
  <2> QED BY <1>1, <1>2, <2>3, <2>4
<1> QED BY <1>3, <1>4 DEF Balancers

(* Where a replica sends the calls of endpoint e *)
LEMMA SendsTo ==
  ASSUME NEW p \in Policies, NEW r \in Replicas, NEW e \in Targets[r]
  PROVE  /\ LbOf[p][r][e] \in Used[p]
         /\ LbOf[p][r][e] \in Balancers
         /\ e \in Endpoints
         /\ TargetOf(LbOf[p][r][e]) = ServiceOf[e]
<1> DEFINE b == LbOf[p][r][e]
           t == ServiceOf[e]
<1>1. r[1] \in Services /\ r \in ServicesWithReplicas[r[1]]  BY ReplicaAt
<1>2. e \in Endpoints /\ t \in DownstreamTargets[r[1]]  BY DEF Targets
<1>3. b = Outbound(p, r, t)  BY <1>2 DEF LbOf, Policies
<1>4. b \in Balancers
  BY <1>1, <1>2, <1>3, OutboundSound DEF Balancers, Policies
<1>5. TargetOf(b) = t  BY <1>3 DEF Outbound, GatewayOutput, TargetOf
<1>6. b \in Used[p]
  <2>1. p \in DOMAIN LbOf  BY DEF LbOf, Policies
  <2> QED BY <2>1 DEF Used
<1> QED BY <1>2, <1>4, <1>5, <1>6

LEMMA UsedAre ==
  ASSUME NEW p \in Policies
  PROVE  /\ Used[p] \subseteq Balancers
         /\ \A s : s \in Serving[p] <=> \E b \in Used[p] : s \in ServersOf[b]
<1>1. p \in DOMAIN LbOf  BY DEF LbOf, Policies
<1>2. Used[p] = UNION {{LbOf[p][r][e] : e \in Targets[r]} : r \in Replicas}
  BY <1>1 DEF Used
<1>3. Used[p] \subseteq Balancers  BY <1>2, SendsTo
<1>4. Serving[p] = UNION {ServersOf[b] : b \in Used[p]}  BY <1>1 DEF Serving
<1> QED BY <1>3, <1>4

(* The child calls of an endpoint *)
LEMMA ChildIs ==
  ASSUME NEW r \in Replicas, NEW e \in Endpoints, ServiceOf[e] = r[1],
         NEW n \in Nat, n < Len(Children[e])
  PROVE  /\ Children[e][n + 1] \in Endpoints
         /\ Children[e][n + 1] \in Targets[r]
<1>1. Children[e] \in Seq(Endpoints)  BY TopologyAssumption
<1>2. n + 1 \in DOMAIN Children[e] /\ Children[e][n + 1] \in Endpoints  BY <1>1
<1>3. Children[e][n + 1] \in ToSet(Children[e])  BY <1>2 DEF ToSet
<1>4. r[1] \in Services  BY ReplicaAt
<1>5. ServiceOf[Children[e][n + 1]] \in DownstreamTargets[r[1]]
  BY <1>3, <1>4 DEF DownstreamTargets
<1> QED BY <1>2, <1>5 DEF Targets

(* Under a central queue a replica pulls from the balancer that serves with it. *)
LEMMA PullsFrom ==
  ASSUME NEW p \in CentralPullPolicies, ValidSharedSubset(p), NEW r \in Serving[p]
  PROVE  /\ r \in Replicas /\ PullFrom(r) \in Used[p] /\ r \in ServersOf[PullFrom(r)]
         /\ \A b \in Used[p] : r \in ServersOf[b] => b = PullFrom(r)
<1>1. p \in Policies /\ p \in CentralPolicies /\ p \in SharedPolicies
  BY DEF CentralPullPolicies, CentralPolicies, Policies, SharedPolicies
<1>2. \A b \in Used[p] : b \in SharedBalancers
  <2> TAKE b \in Used[p]
  <2>11. PICK q \in Replicas : \E e \in Targets[q] : b = LbOf[p][q][e]
    <3>1. p \in DOMAIN LbOf  BY <1>1 DEF LbOf, Policies
    <3> QED BY <3>1 DEF Used
  <2>1. PICK e \in Targets[q] : b = LbOf[p][q][e]  BY <2>11
  <2>2. q[1] \in Services /\ q \in ServicesWithReplicas[q[1]] /\ ServiceOf[e] \in DownstreamTargets[q[1]]
    BY ReplicaAt DEF Targets
  <2>3. b = Outbound(p, q, ServiceOf[e])  BY <1>1, <2>1 DEF LbOf, Policies
  <2>4. b \in Balancers  BY <1>1, UsedAre
  <2>5. b[1] = "shared"  BY <1>1, <2>3 DEF Outbound, GatewayOutput
  <2>6. b \notin OwnBalancers  BY <2>5, OwnFrom
  <2> QED BY <2>4, <2>6 DEF Balancers
<1>3. PICK a \in Used[p] : r \in ServersOf[a]  BY <1>1, UsedAre
<1>4. a \in Balancers  BY <1>1, UsedAre
<1>5. r \in Replicas /\ r[1] \in AllTargets  BY <1>3, <1>4, BalancerServes
<1>6. r \in ServicesWithReplicas[r[1]]  BY <1>5, ReplicaAt
<1>7. {b \in SharedBalancers : r \in ServerIndices(b)} = {PullOutput(r)}
  BY <1>1, <1>5, <1>6, OnePullOutput
<1>8. \A b \in Used[p] : r \in ServersOf[b] => b = PullFrom(r)
  <2> TAKE b \in Used[p]
  <2>1. b \in Balancers /\ b \in SharedBalancers  BY <1>1, <1>2, UsedAre
  <2>2. ServersOf[b] = ServerIndices(b)  BY <2>1, BalancerServes
  <2> QED BY <1>7, <2>1, <2>2 DEF PullFrom
<1> QED BY <1>3, <1>5, <1>8

-----------------------------------------------------------------------------
(* Types, for a run under policy p *)

LEMMA MailIs ==
  ASSUME NEW p
  PROVE  /\ \A r \in Replicas : Mail(p, r) = Work(p, r) \cup Intents(p, r)
         /\ \A b \in Balancers : Mail(p, b) = Calls(p, b) \cup Pulls(p, b) \cup Releases(p, b)
         /\ Mail(p, Sink) = Completions
BY PlacesDiffer DEF Mail

LEMMA SendIs ==
  ASSUME NEW p, NEW x \in Places, NEW m
  PROVE  [to |-> x, msg |-> m] \in Sends(p) <=> m \in Mail(p, x)
BY DEF Sends, Mails

(* Mailboxes, as those of a fold that puts messages in *)
LEMMA BoxesAre ==
  ASSUME NEW p
  PROVE  /\ \A bx : Boxes(p, bx) <=> Boxed(bx, Places, [x \in Places |-> Mail(p, x)])
         /\ Sends(p) = Letters(Places, [x \in Places |-> Mail(p, x)])
         /\ Mails(p) = UNION {[x \in Places |-> Mail(p, x)][y] : y \in Places}
<1> DEFINE M == [x \in Places |-> Mail(p, x)]
<1>1. \A x \in Places : M[x] = Mail(p, x)  OBVIOUS
<1> HIDE DEF M
<1>2. \A bx : Boxes(p, bx) <=> Boxed(bx, Places, M)  BY <1>1 DEF Boxes, Boxed
<1>3. Mails(p) = UNION {M[y] : y \in Places}  BY <1>1 DEF Mails
<1>4. Sends(p) = Letters(Places, M)  BY <1>1, <1>3 DEF Sends, Letters
<1> QED BY <1>2, <1>3, <1>4 DEF M

LEMMA BoxesCounted ==
  ASSUME NEW p, NEW b, Boxes(p, b), NEW D \in SUBSET Places, NEW T
  PROVE  /\ IsFiniteSet(D) /\ AreQueues(b, D, Mails(p))
         /\ Across(b, D, T) \in Nat
<1> DEFINE M == [x \in Places |-> Mail(p, x)]
<1>1. Boxed(b, Places, M) /\ Mails(p) = UNION {M[y] : y \in Places}
  BY BoxesAre
<1>2. IsFiniteSet(Places)  BY PlacesFinite
<1> HIDE DEF M
<1>3. IsFiniteSet(D) /\ AreQueues(b, D, UNION {M[y] : y \in Places}) /\ Across(b, D, T) \in Nat
  BY <1>1, <1>2, BoxedCounted
<1> QED BY <1>1, <1>3

(* What a handler's sends do to mailboxes *)
LEMMA Delivered ==
  ASSUME NEW p, NEW boxes, Boxes(p, boxes), NEW out \in Seq(Sends(p))
  PROVE  /\ Boxes(p, Deliver(boxes, out))
         /\ \A D \in SUBSET Places : \A T :
              Across(Deliver(boxes, out), D, T) = Across(boxes, D, T) + Count(out, [to : D, msg : T])
<1> DEFINE M == [x \in Places |-> Mail(p, x)]
<1>1. Boxed(boxes, Places, M) /\ out \in Seq(Letters(Places, M)) /\ IsFiniteSet(Places)
  BY BoxesAre, PlacesFinite
<1>2. Deliver(boxes, out) = PutAll(boxes, out)
  BY DEF Deliver, PutAll, FoldLeft, MapThenFoldSet
<1>3. \A bx : Boxes(p, bx) <=> Boxed(bx, Places, M)  BY BoxesAre
<1> HIDE DEF M
<1>4. PICK by : by = PutAll(boxes, out)  OBVIOUS
<1>5. /\ Boxed(by, Places, M)
      /\ \A D \in SUBSET Places : \A T :
           Across(by, D, T) = Across(boxes, D, T) + Count(out, [to : D, msg : T])
  BY <1>1, <1>4, PutsCounted
<1> QED BY <1>2, <1>3, <1>4, <1>5

-----------------------------------------------------------------------------
(* What a replica's handlers are made of *)

LEMMA StateIs ==
  ASSUME NEW p, NEW r, NEW v \in State(p, r)
  PROVE  /\ v.queue \in Seq(Queued(p, r)) /\ v.in_flight \in Nat /\ v.pending_pulls \in Nat
         /\ v.pull_intents \in Seq(Intents(p, r)) /\ v.warm \in Nat
         /\ v.serving \subseteq Work(p, r) /\ IsFiniteSet(v.serving)
         /\ v.out \in Seq(OutSends(p, r))
         /\ \A T : Count(v.out, T) \in Nat /\ Count(v.queue, T) \in Nat
                   /\ Count(v.pull_intents, T) \in Nat /\ Cardinality(v.serving \cap T) \in Nat
<1>1. /\ v.queue \in Seq(Queued(p, r)) /\ v.in_flight \in Nat /\ v.pending_pulls \in Nat
      /\ v.pull_intents \in Seq(Intents(p, r)) /\ v.warm \in Nat
      /\ v.serving \subseteq Work(p, r) /\ IsFiniteSet(v.serving)
      /\ v.out \in Seq(OutSends(p, r))
  BY DEF State, FiniteWork
<1>2. \A T : Count(v.out, T) \in Nat /\ Count(v.queue, T) \in Nat
             /\ Count(v.pull_intents, T) \in Nat /\ Cardinality(v.serving \cap T) \in Nat
  BY <1>1, CountFinite, SetPart
<1> QED BY <1>1, <1>2

LEMMA ServingIs ==
  ASSUME NEW p, NEW r, NEW v \in State(p, r), NEW k \in v.serving
  PROVE  k.kind = "upstream" /\ k \in Work(p, r)
BY DEF State, FiniteWork

LEMMA PostSends ==
  ASSUME NEW p, NEW r, NEW v \in State(p, r), NEW to \in Places, NEW m \in Mail(p, to),
         m.kind \in {"call", "return", "completed", "release", "pull"},
         m.kind = "pull" => m.server = r
  PROVE  Posts(p, r, v, [to |-> to, msg |-> m], Post(v, to, m))
<1> DEFINE o == [to |-> to, msg |-> m]
           u == Post(v, to, m)
<1>1. o \in OutSends(p, r)  BY SendIs DEF OutSends
<1>2. v.out \in Seq(OutSends(p, r))  BY StateIs
<1>3. u.out = Append(v.out, o) /\ u = [v EXCEPT !.out = Append(v.out, o)]
  BY DEF Post, State
<1> HIDE DEF o, u
<1>4. Append(v.out, o) \in Seq(OutSends(p, r))  BY <1>1, <1>2, PushBack
<1>5. u \in State(p, r) /\ ButSends(v, u)  BY <1>3, <1>4 DEF State, ButSends
<1>6. \A T : Count(u.out, T) = Count(v.out, T) + OneIf(o \in T)
  BY <1>1, <1>2, <1>3, CountPushBack DEF OneIf
<1>7. \A T : Count(v.out, T) \in Nat  BY StateIs
<1>8. Posts(p, r, v, o, u)  BY <1>1, <1>5, <1>6, <1>7 DEF Posts
<1> QED BY <1>8 DEF o, u

LEMMA PostHop ==
  ASSUME NEW p, NEW r, NEW v \in State(p, r), NEW to \in Places, NEW m \in Mail(p, to),
         m.kind \in {"call", "return", "completed"}, NEW q, m \in About(q)
  PROVE  Sent(p, r, v, Post(v, to, m), q, 1)
<1> DEFINE o == [to |-> to, msg |-> m]
<1>1. Posts(p, r, v, o, Post(v, to, m))  BY PostSends
<1>2. \A a : o \in SentAbout(a) <=> a = q  BY DEF SentAbout, About, HopsOf
<1>3. \A T \in SUBSET PullSends(p, r) : o \notin T  BY DEF PullSends
<1> HIDE DEF o
<1> QED BY <1>1, <1>2, <1>3 DEF Sent, OneIf, Posts

LEMMA PostRelease ==
  ASSUME NEW p, NEW r, NEW v \in State(p, r), NEW to \in Places, NEW m \in Mail(p, to),
         m \in Release, NEW q
  PROVE  Sent(p, r, v, Post(v, to, m), q, 0)
<1> DEFINE o == [to |-> to, msg |-> m]
<1>1. m.kind = "release"  BY DEF Release
<1>2. Posts(p, r, v, o, Post(v, to, m))  BY <1>1, PostSends
<1>3. \A a : o \notin SentAbout(a)  BY <1>1 DEF SentAbout, About, HopsOf, Hop
<1>4. \A T \in SUBSET PullSends(p, r) : o \notin T  BY <1>1 DEF PullSends
<1> HIDE DEF o
<1> QED BY <1>2, <1>3, <1>4 DEF Sent, OneIf, Posts

LEMMA SentNothing ==
  ASSUME NEW p, NEW r, NEW v \in State(p, r), NEW q
  PROVE  Sent(p, r, v, v, q, 0)
<1>1. \A a : Count(v.out, SentAbout(a)) = Count(v.out, SentAbout(a)) + (IF a = q THEN 0 ELSE 0)
  <2> TAKE a
  <2>1. Count(v.out, SentAbout(a)) \in Nat  BY StateIs
  <2> QED BY <2>1
<1> QED BY <1>1 DEF Sent, ButSends

LEMMA SentThen ==
  ASSUME NEW p, NEW r, NEW v \in State(p, r), NEW u, NEW w, NEW q, NEW n \in Nat,
         Sent(p, r, v, u, q, 0), Sent(p, r, u, w, q, n)
  PROVE  Sent(p, r, v, w, q, n)
<1>1. /\ w \in State(p, r) /\ ButSends(v, w)
      /\ \A T \in SUBSET PullSends(p, r) : Count(w.out, T) = Count(v.out, T)
  BY DEF Sent, ButSends
<1>2. \A a : /\ Count(u.out, SentAbout(a)) = Count(v.out, SentAbout(a)) + (IF a = q THEN 0 ELSE 0)
             /\ Count(w.out, SentAbout(a)) = Count(u.out, SentAbout(a)) + (IF a = q THEN n ELSE 0)
             /\ Count(v.out, SentAbout(a)) \in Nat
  BY StateIs DEF Sent
<1>3. \A a : Count(w.out, SentAbout(a)) = Count(v.out, SentAbout(a)) + (IF a = q THEN n ELSE 0)
  BY <1>2
<1> QED BY <1>1, <1>3 DEF Sent

LEMMA ReleaseOutboundSends ==
  ASSUME config \in Configs, NEW r \in Replicas, NEW v \in State(policy, r), NEW s \in Replicas,
         NEW q
  PROVE  Sent(policy, r, v, ReleaseOutbound(v, r, s), q, 0)
<1> DEFINE lbs == {LbOf[policy][r][e] : e \in {e \in Targets[r] : s \in ReplicasOf[e]}}
           m == [kind |-> "release", server |-> s]
<1>1. \A b \in lbs : b \in Used[policy] /\ b \in Balancers
  BY PolicyIs, SendsTo
<1>2. CASE lbs = {}
  <2>1. ReleaseOutbound(v, r, s) = v  BY <1>2 DEF ReleaseOutbound
  <2> QED BY <2>1, SentNothing
<1>3. CASE lbs # {}
  <2> DEFINE b == CHOOSE b \in lbs : TRUE
  <2>1. ReleaseOutbound(v, r, s) = Post(v, b, m)  BY <1>3 DEF ReleaseOutbound
  <2>2. b \in lbs  BY <1>3
  <2> HIDE DEF b, lbs
  <2>3. b \in Used[policy] /\ b \in Balancers /\ b \in Places
    BY <1>1, <2>2 DEF Places
  <2>4. m \in Release /\ m \in Mail(policy, b)
    BY <2>3, MailIs DEF Release, Releases
  <2> HIDE DEF m
  <2> QED BY <2>1, <2>3, <2>4, PostRelease
<1> QED BY <1>2, <1>3

-----------------------------------------------------------------------------
(***************************************************************************)
(* The calls open at server s of balancer b, under a push policy: each is  *)
(* known by its request and its depth, a = <<request, depth>>, and is held *)
(* open by the hop of the request, wherever that is.                       *)
(***************************************************************************)

(* A call is made through one balancer. *)
LEMMA OneBalancer ==
  ASSUME NEW p \in Policies, NEW b \in Balancers, NEW s \in ServersOf[b], NEW r \in Replicas,
         NEW e \in Targets[r], ServiceOf[e] = s[1]
  PROVE  LbOf[p][r][e] = b <=> r \in Callers(p, b)
<1>1. LbOf[p][r][e] = b => r \in Callers(p, b)  BY DEF Callers
<1>2. ASSUME r \in Callers(p, b)
      PROVE  LbOf[p][r][e] = b
  <2>1. PICK d \in Targets[r] : LbOf[p][r][d] = b  BY <1>2 DEF Callers
  <2>2. ServiceOf[d] = TargetOf(b) /\ ServiceOf[e] = TargetOf(b)
    BY <2>1, SendsTo, BalancerServes
  <2>3. LbOf[p][r][d] = Outbound(p, r, ServiceOf[d]) /\ LbOf[p][r][e] = Outbound(p, r, ServiceOf[e])
    BY DEF LbOf, Policies
  <2> QED BY <2>1, <2>2, <2>3
<1> QED BY <1>1, <1>2

LEMMA PassesCall ==
  ASSUME NEW p, NEW h \in Hop, h.callers \in Seq(Frames), NEW f \in Frames, f.server = NoServer,
         NEW x \in Places, NEW m \in Hop, m.kind = "call", m.req = h.req, m.callers = <<f>> \o h.callers
  PROVE  Passes(p, h, [to |-> x, msg |-> m])
<1> DEFINE o == [to |-> x, msg |-> m]
<1>1. o.to = x /\ o.msg = m /\ \A D, T : o \in [to : D, msg : T] <=> x \in D /\ m \in T
  OBVIOUS
<1> HIDE DEF o
<1> SUFFICES ASSUME NEW b \in Balancers, NEW s \in ServersOf[b]
             PROVE  /\ o \notin Freeing(b, s)
                    /\ \A a : OneIf(o \in SentMarked(p, b, s, a)) + OneIf(o \in SentUnpaid(p, b, s, a))
                                = OneIf(h \in Marked(p, b, s, a))
  BY DEF Passes, o
<1>2. s \in Replicas  BY BalancerServes
<1>3. o \notin Freeing(b, s)  BY <1>1 DEF Freeing
<1>4. Depths(p, b, s, m.callers) = Depths(p, b, s, h.callers)
  <2>1. f \notin Naming(p, b, s)  BY <1>2, MicroservicesAssumption DEF Naming
  <2> QED BY <2>1, FromEndPushed DEF Depths
<1>5. ASSUME NEW a
      PROVE  OneIf(o \in SentMarked(p, b, s, a)) + OneIf(o \in SentUnpaid(p, b, s, a))
               = OneIf(h \in Marked(p, b, s, a))
  <2>1. m \in Marked(p, b, s, a) <=> h \in Marked(p, b, s, a)
    BY <1>4 DEF Marked
  <2>2. m \notin Unpaid(s, a)  BY DEF Unpaid
  <2> QED BY <1>1, <2>1, <2>2 DEF SentMarked, SentUnpaid, OneIf
<1> QED BY <1>3, <1>5

LEMMA PassesReturn ==
  ASSUME NEW p, NEW h \in Hop, h.callers \in Seq(Frames), h.callers # <<>>,
         NEW f \in Frames, f = Head(h.callers),
         f.replica \in Places, NEW m \in Hop, m.kind = "return", m.req = h.req,
         m.callers = Tail(h.callers), m.release = f.server
  PROVE  Passes(p, h, [to |-> f.replica, msg |-> m])
<1> DEFINE x == f.replica
           o == [to |-> x, msg |-> m]
<1>1. o.to = x /\ o.msg = m /\ \A D, T : o \in [to : D, msg : T] <=> x \in D /\ m \in T
  OBVIOUS
<1> HIDE DEF o
<1> SUFFICES ASSUME NEW b \in Balancers, NEW s \in ServersOf[b]
             PROVE  /\ o \notin Freeing(b, s)
                    /\ \A a : OneIf(o \in SentMarked(p, b, s, a)) + OneIf(o \in SentUnpaid(p, b, s, a))
                                = OneIf(h \in Marked(p, b, s, a))
  BY DEF Passes, o
<1>2. s \in Replicas  BY BalancerServes
<1>3. o \notin Freeing(b, s)  BY <1>1 DEF Freeing
<1>4. /\ \A k : k \in Depths(p, b, s, h.callers) <=>
                  k \in Depths(p, b, s, m.callers) \/ (k = Len(m.callers) /\ f \in Naming(p, b, s))
      /\ Len(m.callers) \notin Depths(p, b, s, m.callers)
  BY FromEndPopped DEF Depths
<1>6. f \in Naming(p, b, s) <=> f.server = s /\ x \in Callers(p, b)
  BY DEF Naming, Frames
<1>5. ASSUME NEW a
      PROVE  OneIf(o \in SentMarked(p, b, s, a)) + OneIf(o \in SentUnpaid(p, b, s, a))
               = OneIf(h \in Marked(p, b, s, a))
  <2>1. x \in Places  OBVIOUS
  <2>2. o \in SentMarked(p, b, s, a) <=> h.req = a[1] /\ a[2] \in Depths(p, b, s, m.callers)
    BY <1>1, <2>1 DEF SentMarked, Marked
  <2>3. o \in SentUnpaid(p, b, s, a) <=> h.req = a[1] /\ a[2] = Len(m.callers) /\ f \in Naming(p, b, s)
    BY <1>1, <1>6 DEF SentUnpaid, Unpaid
  <2>4. h \in Marked(p, b, s, a) <=> h.req = a[1] /\ a[2] \in Depths(p, b, s, h.callers)
    BY DEF Marked
  <2>5. h \in Marked(p, b, s, a) <=> o \in SentMarked(p, b, s, a) \/ o \in SentUnpaid(p, b, s, a)
    BY <1>4, <2>2, <2>3, <2>4
  <2>6. ~(o \in SentMarked(p, b, s, a) /\ o \in SentUnpaid(p, b, s, a))
    BY <1>4, <2>2, <2>3
  <2> QED BY <2>5, <2>6 DEF OneIf
<1> QED BY <1>3, <1>5

LEMMA PassesEnd ==
  ASSUME NEW p, NEW h \in Hop, h.callers = <<>>, NEW x, NEW m, m.kind = "completed"
  PROVE  Passes(p, h, [to |-> x, msg |-> m])
<1> DEFINE o == [to |-> x, msg |-> m]
<1>1. \A b, s : o \notin Freeing(b, s)  BY DEF Freeing
<1>2. m \notin Hop  BY DEF Hop
<1>3. \A b, s, a : o \notin SentMarked(p, b, s, a) /\ o \notin SentUnpaid(p, b, s, a)
  BY <1>2 DEF SentMarked, SentUnpaid, Marked, Unpaid
<1>4. \A b, s : Depths(p, b, s, h.callers) = {}  BY DEF Depths, FromEnd
<1>5. \A b, s, a : h \notin Marked(p, b, s, a)  BY <1>4 DEF Marked
<1> HIDE DEF o
<1>6. Passes(p, h, o)  BY <1>1, <1>3, <1>5 DEF Passes, OneIf
<1> QED BY <1>6 DEF o

LEMMA PostCarries ==
  ASSUME NEW p, NEW r, NEW v \in State(p, r), NEW o, NEW u, Posts(p, r, v, o, u),
         NEW h, Passes(p, h, o), NEW b \in Balancers, NEW s \in ServersOf[b]
  PROVE  Carries(p, v, u, h, b, s, TRUE, FALSE)
<1>1. \A T : Count(u.out, T) = Count(v.out, T) + OneIf(o \in T) /\ Count(v.out, T) \in Nat
  BY DEF Posts
<1>2. /\ o \notin Freeing(b, s)
      /\ \A a : OneIf(o \in SentMarked(p, b, s, a)) + OneIf(o \in SentUnpaid(p, b, s, a))
                  = OneIf(h \in Marked(p, b, s, a))
  BY DEF Passes
<1>3. Count(u.out, Freeing(b, s)) = Count(v.out, Freeing(b, s)) + OneIf(FALSE)
  BY <1>1, <1>2 DEF OneIf
<1>4. ASSUME NEW a
      PROVE  SentOpen(p, b, s, a, u.out) = SentOpen(p, b, s, a, v.out) + OneIf(TRUE /\ h \in Marked(p, b, s, a))
  <2> DEFINE M == SentMarked(p, b, s, a)
             U == SentUnpaid(p, b, s, a)
  <2>1. Count(u.out, M) = Count(v.out, M) + OneIf(o \in M) /\ Count(v.out, M) \in Nat
    BY <1>1
  <2>2. Count(u.out, U) = Count(v.out, U) + OneIf(o \in U) /\ Count(v.out, U) \in Nat
    BY <1>1
  <2>3. OneIf(o \in M) + OneIf(o \in U) = OneIf(h \in Marked(p, b, s, a))
    BY <1>2
  <2>4. OneIf(o \in M) \in Nat /\ OneIf(o \in U) \in Nat  BY DEF OneIf
  <2> HIDE DEF M, U
  <2>5. Count(u.out, M) + Count(u.out, U) = Count(v.out, M) + Count(v.out, U) + OneIf(h \in Marked(p, b, s, a))
    BY ONLY <2>1, <2>2, <2>3, <2>4
  <2> QED BY <2>5 DEF SentOpen, M, U
<1> QED BY <1>3, <1>4 DEF Carries

LEMMA SentOpenNat ==
  ASSUME NEW p, NEW r, NEW v \in State(p, r), NEW b, NEW s, NEW a
  PROVE  SentOpen(p, b, s, a, v.out) \in Nat /\ Count(v.out, Freeing(b, s)) \in Nat
<1>1. \A T : Count(v.out, T) \in Nat  BY StateIs
<1> QED BY <1>1 DEF SentOpen

LEMMA CarriesThen ==
  ASSUME NEW p, NEW r, NEW v \in State(p, r), NEW u \in State(p, r), NEW w, NEW h, NEW k, NEW b, NEW s,
         NEW frees, Carries(p, v, u, h, b, s, FALSE, frees), Carries(p, u, w, k, b, s, TRUE, FALSE),
         \A a : k \in Marked(p, b, s, a) <=> h \in Marked(p, b, s, a)
  PROVE  Carries(p, v, w, h, b, s, TRUE, frees)
<1>1. Count(w.out, Freeing(b, s)) = Count(v.out, Freeing(b, s)) + OneIf(frees)
  <2>1. OneIf(FALSE) = 0 /\ OneIf(frees) \in Nat  BY DEF OneIf
  <2>2. Count(v.out, Freeing(b, s)) \in Nat  BY SentOpenNat
  <2>3. /\ Count(u.out, Freeing(b, s)) = Count(v.out, Freeing(b, s)) + OneIf(frees)
        /\ Count(w.out, Freeing(b, s)) = Count(u.out, Freeing(b, s)) + OneIf(FALSE)
    BY DEF Carries
  <2> DEFINE x == OneIf(frees)
             y == OneIf(FALSE)
  <2> HIDE DEF x, y
  <2>4. y = 0 /\ x \in Nat  BY <2>1 DEF x, y
  <2>5. /\ Count(u.out, Freeing(b, s)) = Count(v.out, Freeing(b, s)) + x
        /\ Count(w.out, Freeing(b, s)) = Count(u.out, Freeing(b, s)) + y
    BY <2>3 DEF x, y
  <2>6. Count(w.out, Freeing(b, s)) = Count(v.out, Freeing(b, s)) + x
    BY <2>2, <2>4, <2>5
  <2> QED BY <2>6 DEF x
<1>2. ASSUME NEW a
      PROVE  SentOpen(p, b, s, a, w.out) = SentOpen(p, b, s, a, v.out) + OneIf(TRUE /\ h \in Marked(p, b, s, a))
  <2>1. SentOpen(p, b, s, a, u.out) = SentOpen(p, b, s, a, v.out) + OneIf(FALSE /\ h \in Marked(p, b, s, a))
    BY DEF Carries
  <2>2. SentOpen(p, b, s, a, w.out) = SentOpen(p, b, s, a, u.out) + OneIf(TRUE /\ k \in Marked(p, b, s, a))
    BY DEF Carries
  <2>3. OneIf(FALSE /\ h \in Marked(p, b, s, a)) = 0  BY DEF OneIf
  <2>4. OneIf(TRUE /\ k \in Marked(p, b, s, a)) = OneIf(TRUE /\ h \in Marked(p, b, s, a))
    BY DEF OneIf
  <2>5. SentOpen(p, b, s, a, v.out) \in Nat  BY SentOpenNat
  <2> QED BY <2>1, <2>2, <2>3, <2>4, <2>5
<1> QED BY <1>1, <1>2 DEF Carries

LEMMA ReleaseOutboundCarries ==
  ASSUME config \in Configs, NEW r \in Replicas, NEW v \in State(policy, r), NEW t \in Replicas,
         NEW h, NEW b \in Balancers, NEW s \in ServersOf[b]
  PROVE  Carries(policy, v, ReleaseOutbound(v, r, t), h, b, s, FALSE,
                 t = s /\ r \in Callers(policy, b))
<1> DEFINE p == policy
           es == {e \in Targets[r] : t \in ReplicasOf[e]}
           lbs == {LbOf[p][r][e] : e \in es}
           m == [kind |-> "release", server |-> t]
           frees == t = s /\ r \in Callers(p, b)
           u == ReleaseOutbound(v, r, t)
<1>1. p \in Policies  BY PolicyIs
<1>2. ASSUME NEW e \in es
      PROVE  /\ e \in Targets[r] /\ LbOf[p][r][e] \in Used[p] /\ LbOf[p][r][e] \in Balancers
             /\ ServiceOf[e] = t[1]
  <2>1. e \in Endpoints  BY <1>1, SendsTo
  <2>2. t \in ServicesWithReplicas[ServiceOf[e]] /\ ServiceOf[e] \in Services
    BY <2>1, TopologyAssumption DEF ReplicasOf
  <2> QED BY <1>1, <2>2, SendsTo, ReplicaAt
<1>3. ASSUME frees
      PROVE  b \in lbs
  <2>1. PICK e \in Targets[r] : LbOf[p][r][e] = b  BY <1>3 DEF Callers
  <2>2. e \in Endpoints /\ ServiceOf[e] = s[1] /\ s \in Replicas
    BY <1>1, <2>1, SendsTo, BalancerServes
  <2>3. s \in ReplicasOf[e]  BY <2>2, ReplicaAt DEF ReplicasOf
  <2> QED BY <1>3, <2>1, <2>3
<1>4. CASE lbs = {}
  <2>1. u = v  BY <1>4 DEF ReleaseOutbound
  <2>2. ~frees  BY <1>3, <1>4
  <2>3. /\ Count(v.out, Freeing(b, s)) \in Nat
        /\ \A a : SentOpen(p, b, s, a, v.out) \in Nat
    BY SentOpenNat
  <2> HIDE DEF frees
  <2>4. Carries(p, v, v, h, b, s, FALSE, frees)
    BY <2>2, <2>3 DEF Carries, OneIf
  <2> QED BY <2>1, <2>4 DEF frees
<1>5. CASE lbs # {}
  <2> DEFINE d == CHOOSE d \in lbs : TRUE
             o == [to |-> d, msg |-> m]
  <2>1. u = Post(v, d, m)  BY <1>5 DEF ReleaseOutbound
  <2>2. PICK e \in es : d = LbOf[p][r][e]  BY <1>5
  <2> HIDE DEF d, lbs
  <2>3. d \in Used[p] /\ d \in Balancers /\ d \in Places
    BY <1>2, <2>2 DEF Places
  <2>4. m \in Mail(p, d) /\ m.kind = "release" /\ m.server = t
    BY <2>3, MailIs DEF Release, Releases
  <2>5. d = b /\ t = s <=> frees
    <3>1. t = s => ServiceOf[e] = s[1]  BY <1>2
    <3>2. t = s => (d = b <=> r \in Callers(p, b))
      BY <1>1, <1>2, <2>2, <3>1, OneBalancer
    <3> QED BY <3>2
  <2>6. o \in Freeing(b, s) <=> frees
    <3>1. o \in Freeing(b, s) <=> d = b /\ m = [kind |-> "release", server |-> s]
      BY DEF Freeing
    <3>2. m = [kind |-> "release", server |-> s] <=> t = s  OBVIOUS
    <3> QED BY <2>5, <3>1, <3>2
  <2>7. \A a : o \notin SentMarked(p, b, s, a) /\ o \notin SentUnpaid(p, b, s, a)
    BY DEF SentMarked, SentUnpaid, Marked, Unpaid, Hop
  <2> HIDE DEF m
  <2>8. Posts(p, r, v, o, u)  BY <2>1, <2>3, <2>4, PostSends
  <2> HIDE DEF o, u, frees
  <2>9. \A T : Count(u.out, T) = Count(v.out, T) + OneIf(o \in T) /\ Count(v.out, T) \in Nat
    BY <2>8 DEF Posts
  <2>10. Carries(p, v, u, h, b, s, FALSE, frees)
    BY <2>6, <2>7, <2>9 DEF Carries, SentOpen, OneIf
  <2> QED BY <2>10 DEF u, frees
<1> QED BY <1>4, <1>5

LEMMA AdvanceForwards ==
  ASSUME config \in Configs, NEW r \in Replicas, NEW v \in State(policy, r),
         NEW h \in Hopping, ServiceOf[h.endpoint] = r[1], ~h.slot
  PROVE  Forwards(policy, r, v, h, Advance(v, r, h))
<1> DEFINE p == policy
<1>1. p \in Policies  BY PolicyIs
<1>2. /\ h \in Hop /\ h.callers \in Seq(Frames) /\ h.endpoint \in Endpoints /\ h.sibling \in Nat
      /\ h.req \in Requests /\ h.release \in Replicas \cup {NoServer}
  BY DEF Hopping, Hop
<1>3. CASE h.sibling < Len(Children[h.endpoint])
  <2> DEFINE child == Children[h.endpoint][h.sibling + 1]
             frame == [replica |-> r, endpoint |-> h.endpoint, sibling |-> h.sibling + 1,
                       server |-> NoServer]
             b == LbOf[p][r][child]
             c == <<frame>> \o h.callers
             m == [h EXCEPT !.kind = "call", !.endpoint = child, !.sibling = 0, !.callers = c]
  <2>1. Advance(v, r, h) = Post(v, b, m)  BY <1>3 DEF Advance, AdvanceTo
  <2>2. child \in Endpoints /\ child \in Targets[r]  BY <1>2, <1>3, ChildIs
  <2>3. /\ b \in Used[p] /\ b \in Balancers /\ b \in Places /\ TargetOf(b) = ServiceOf[child]
    BY <1>1, <2>2, SendsTo DEF Places
  <2>4. frame \in Frames  BY <1>2 DEF Frames, Frame
  <2> HIDE DEF frame, child, b
  <2>5. c \in Seq(Frames)  BY <1>2, <2>4
  <2>6. c \in Seq(Frame)  BY <2>5 DEF Frames
  <2>10. c # <<>> /\ c[1] = frame  BY <1>2, <2>4
  <2>11. frame.server = NoServer /\ frame.replica = r  BY DEF frame
  <2>12. LbOf[p][r][child] = b  BY DEF b
  <2> HIDE DEF c
  <2>7. m \in Hop /\ m.kind = "call" /\ m.endpoint = child /\ m.callers = c /\ ~m.slot /\ m.req = h.req
    BY <1>2, <2>2, <2>6 DEF Hop
  <2> HIDE DEF m
  <2>13. Called(p, b, m)  BY <2>2, <2>7, <2>10, <2>11, <2>12 DEF Called
  <2>8. m \in Calls(p, b)  BY <2>3, <2>5, <2>7, <2>13 DEF Calls, Hopping
  <2>9. m \in Mail(p, b) /\ m \in About(h.req)
    BY <2>3, <2>7, <2>8, MailIs DEF About, HopsOf
  <2>14. Sent(p, r, v, Post(v, b, m), h.req, 1) /\ Posts(p, r, v, [to |-> b, msg |-> m], Post(v, b, m))
    BY <2>3, <2>7, <2>9, PostHop, PostSends
  <2>15. m.callers = <<frame>> \o h.callers  BY <2>7 DEF c
  <2>16. Passes(p, h, [to |-> b, msg |-> m])
    BY <1>2, <2>3, <2>4, <2>7, <2>11, <2>15, PassesCall
  <2> QED BY <2>1, <2>14, <2>16 DEF Forwards
<1>4. CASE ~(h.sibling < Len(Children[h.endpoint])) /\ h.callers # <<>>
  <2> DEFINE back == Head(h.callers)
             rest == Tail(h.callers)
             m == [h EXCEPT !.kind = "return", !.endpoint = back.endpoint, !.sibling = back.sibling,
                            !.callers = rest, !.release = back.server]
  <2>1. Advance(v, r, h) = Post(v, back.replica, m)
    BY <1>4 DEF Advance, AdvanceTo
  <2>2. back \in Frames /\ rest \in Seq(Frames)  BY <1>2, <1>4, PopFront
  <2>3. rest \in Seq(Frame)  BY <2>2 DEF Frames
  <2> HIDE DEF back, rest
  <2>4. /\ back.replica \in Replicas /\ back.replica \in Places /\ back.endpoint \in Endpoints
        /\ back.sibling \in Nat /\ back.server \in Replicas \cup {NoServer}
        /\ ServiceOf[back.endpoint] = back.replica[1]
    BY <2>2 DEF Frames, Frame, Places
  <2>5. /\ m \in Hop /\ m.kind = "return" /\ m.endpoint = back.endpoint /\ m.callers = rest
        /\ ~m.slot /\ m.req = h.req
    BY <1>2, <2>3, <2>4 DEF Hop
  <2> HIDE DEF m
  <2>6. m \in Work(p, back.replica)  BY <2>2, <2>4, <2>5 DEF Work, Hopping
  <2>7. m \in Mail(p, back.replica) /\ m \in About(h.req)
    BY <2>4, <2>5, <2>6, MailIs DEF About, HopsOf
  <2>8. /\ Sent(p, r, v, Post(v, back.replica, m), h.req, 1)
        /\ Posts(p, r, v, [to |-> back.replica, msg |-> m], Post(v, back.replica, m))
    BY <2>4, <2>5, <2>7, PostHop, PostSends
  <2>9. m.callers = Tail(h.callers) /\ m.release = back.server /\ back = Head(h.callers)
    BY <1>2, <2>5 DEF rest, back, m, Hop
  <2>10. Passes(p, h, [to |-> back.replica, msg |-> m])
    BY <1>2, <1>4, <2>2, <2>4, <2>5, <2>9, PassesReturn
  <2> QED BY <2>1, <2>8, <2>10 DEF Forwards
<1>5. CASE ~(h.sibling < Len(Children[h.endpoint])) /\ ~(h.callers # <<>>)
  <2> DEFINE m == [kind |-> "completed", req |-> h.req]
  <2>1. Advance(v, r, h) = Post(v, Sink, m)  BY <1>5 DEF Advance, AdvanceTo
  <2>2. m \in Mail(p, Sink) /\ m \in About(h.req) /\ m.kind = "completed" /\ Sink \in Places
    BY <1>2, MailIs DEF Completions, About, Places
  <2> HIDE DEF m
  <2>3. Sent(p, r, v, Post(v, Sink, m), h.req, 1) /\ Posts(p, r, v, [to |-> Sink, msg |-> m], Post(v, Sink, m))
    BY <2>2, PostHop, PostSends
  <2>4. Passes(p, h, [to |-> Sink, msg |-> m])  BY <1>2, <1>5, <2>2, PassesEnd
  <2> QED BY <2>1, <2>3, <2>4 DEF Forwards
<1> QED BY <1>3, <1>4, <1>5

LEMMA AdvanceSends ==
  ASSUME config \in Configs, NEW r \in Replicas, NEW v \in State(policy, r),
         NEW h \in Hopping, ServiceOf[h.endpoint] = r[1], ~h.slot
  PROVE  Sent(policy, r, v, Advance(v, r, h), h.req, 1)
BY AdvanceForwards DEF Forwards

LEMMA HandleReturnSends ==
  ASSUME config \in Configs, NEW r \in Replicas, NEW v \in State(policy, r),
         NEW h \in Hopping, ServiceOf[h.endpoint] = r[1], ~h.slot
  PROVE  Sent(policy, r, v, HandleReturn(v, r, h), h.req, 1)
<1> DEFINE u == IF h.release = NoServer THEN v ELSE ReleaseOutbound(v, r, h.release)
           k == [h EXCEPT !.release = NoServer]
<1>1. Sent(policy, r, v, u, h.req, 0)
  <2>1. h.release \in Replicas \cup {NoServer}  BY DEF Hopping, Hop
  <2>2. CASE h.release = NoServer  BY <2>2, SentNothing
  <2>3. CASE h.release # NoServer  BY <2>1, <2>3, ReleaseOutboundSends
  <2> QED BY <2>2, <2>3
<1>2. k \in Hopping /\ k.endpoint = h.endpoint /\ ~k.slot /\ k.req = h.req
  BY DEF Hopping, Hop
<1>3. HandleReturn(v, r, h) = Advance(u, r, k)  BY DEF HandleReturn
<1> HIDE DEF u, k
<1>4. u \in State(policy, r)  BY <1>1 DEF Sent
<1>5. Sent(policy, r, u, Advance(u, r, k), h.req, 1)
  BY <1>2, <1>4, AdvanceSends
<1> QED BY <1>1, <1>3, <1>5, SentThen

LEMMA HandleReturnCarries ==
  ASSUME config \in Configs, NEW r \in Replicas, NEW v \in State(policy, r),
         NEW h \in Hopping, ServiceOf[h.endpoint] = r[1], ~h.slot,
         NEW b \in Balancers, NEW s \in ServersOf[b]
  PROVE  Carries(policy, v, HandleReturn(v, r, h), h, b, s, TRUE, h \in FreedBy(policy, b, s, r))
<1> DEFINE p == policy
           u == IF h.release = NoServer THEN v ELSE ReleaseOutbound(v, r, h.release)
           k == [h EXCEPT !.release = NoServer]
           w == HandleReturn(v, r, h)
           frees == h.release = s /\ r \in Callers(p, b)
<1>1. u \in State(p, r) /\ Carries(p, v, u, h, b, s, FALSE, frees)
  <2>1. h.release \in Replicas \cup {NoServer}  BY DEF Hopping, Hop
  <2>2. CASE h.release = NoServer
    <3>1. ~frees  BY <2>2, BalancerServes, MicroservicesAssumption
    <3>2. /\ Count(v.out, Freeing(b, s)) \in Nat
          /\ \A a : SentOpen(p, b, s, a, v.out) \in Nat
      BY SentOpenNat
    <3> HIDE DEF frees
    <3>3. Carries(p, v, v, h, b, s, FALSE, frees)
      BY <3>1, <3>2 DEF Carries, OneIf
    <3> QED BY <2>2, <3>3
  <2>3. CASE h.release # NoServer
    <3> DEFINE t == h.release
    <3>1. t \in Replicas  BY <2>1, <2>3
    <3> HIDE DEF t
    <3>2. Carries(p, v, ReleaseOutbound(v, r, t), h, b, s, FALSE, t = s /\ r \in Callers(p, b))
      BY <3>1, ReleaseOutboundCarries
    <3>3. Sent(p, r, v, ReleaseOutbound(v, r, t), h.req, 0)
      BY <3>1, ReleaseOutboundSends
    <3>4. ReleaseOutbound(v, r, t) \in State(p, r)  BY <3>3 DEF Sent
    <3> QED BY <2>3, <3>2, <3>4 DEF t
  <2> QED BY <2>2, <2>3
<1>2. k \in Hopping /\ k.endpoint = h.endpoint /\ ~k.slot /\ k.req = h.req /\ k.callers = h.callers
      /\ k \in Hop /\ h \in Hop
  BY DEF Hopping, Hop
<1>3. w = Advance(u, r, k)  BY DEF HandleReturn
<1>4. h \in FreedBy(p, b, s, r) <=> frees  BY <1>2 DEF FreedBy
<1> HIDE DEF u, k, w, frees
<1>5. Forwards(p, r, u, k, Advance(u, r, k))  BY <1>1, <1>2, AdvanceForwards
<1>6. PICK o : Posts(p, r, u, o, w) /\ Passes(p, k, o)
  BY <1>3, <1>5 DEF Forwards
<1>7. Carries(p, u, w, k, b, s, TRUE, FALSE)  BY <1>1, <1>6, PostCarries
<1>8. \A a : k \in Marked(p, b, s, a) <=> h \in Marked(p, b, s, a)
  BY <1>2 DEF Marked
<1>9. Carries(p, v, w, h, b, s, TRUE, frees)  BY <1>1, <1>7, <1>8, CarriesThen
<1>10. Carries(p, v, w, h, b, s, TRUE, h \in FreedBy(p, b, s, r))
  <2> DEFINE g == h \in FreedBy(p, b, s, r)
  <2>1. OneIf(g) = OneIf(frees)  BY <1>4 DEF OneIf
  <2> HIDE DEF g
  <2> QED BY <1>9, <2>1 DEF Carries, g
<1> QED BY <1>10 DEF w

LEMMA NoneRepaid ==
  ASSUME NEW p, NEW r, NEW v \in State(p, r), NEW list
  PROVE  Repaid(p, r, v, v, list, 0)
<1>1. \A T : Between(list, 1, 0, T) = 0  BY BetweenNone
<1>2. ASSUME NEW b \in Balancers, NEW s \in ServersOf[b]
      PROVE  Count(v.out, Freeing(b, s)) \in Nat /\ \A a : SentOpen(p, b, s, a, v.out) \in Nat
  BY SentOpenNat
<1> QED BY <1>1, <1>2 DEF Repaid

LEMMA OneRepaid ==
  ASSUME NEW p, NEW r, NEW v \in State(p, r), NEW u, NEW w, NEW list, NEW k \in Nat \ {0}, NEW h, h = list[k],
         Repaid(p, r, v, u, list, k - 1),
         \A b \in Balancers : \A s \in ServersOf[b] :
           Carries(p, u, w, h, b, s, TRUE, h \in FreedBy(p, b, s, r))
  PROVE  Repaid(p, r, v, w, list, k)
<1> SUFFICES ASSUME NEW b \in Balancers, NEW s \in ServersOf[b]
             PROVE  /\ Count(w.out, Freeing(b, s))
                         = Count(v.out, Freeing(b, s)) + Between(list, 1, k, FreedBy(p, b, s, r))
                    /\ \A a : SentOpen(p, b, s, a, w.out)
                                = SentOpen(p, b, s, a, v.out) + Between(list, 1, k, Marked(p, b, s, a))
  BY DEF Repaid
<1>1. \A T : /\ Between(list, 1, k, T) = Between(list, 1, k - 1, T) + OneIf(h \in T)
             /\ Between(list, 1, k - 1, T) \in Nat /\ OneIf(h \in T) \in Nat
  BY BetweenNext DEF OneIf
<1>2. Carries(p, u, w, h, b, s, TRUE, h \in FreedBy(p, b, s, r))  OBVIOUS
<1>3. /\ Count(w.out, Freeing(b, s)) = Count(u.out, Freeing(b, s)) + OneIf(h \in FreedBy(p, b, s, r))
      /\ \A a : SentOpen(p, b, s, a, w.out)
                  = SentOpen(p, b, s, a, u.out) + OneIf(TRUE /\ h \in Marked(p, b, s, a))
  BY <1>2 DEF Carries
<1>4. /\ Count(u.out, Freeing(b, s)) = Count(v.out, Freeing(b, s)) + Between(list, 1, k - 1, FreedBy(p, b, s, r))
      /\ \A a : SentOpen(p, b, s, a, u.out)
                  = SentOpen(p, b, s, a, v.out) + Between(list, 1, k - 1, Marked(p, b, s, a))
  BY DEF Repaid
<1>5. Count(v.out, Freeing(b, s)) \in Nat /\ \A a : SentOpen(p, b, s, a, v.out) \in Nat
  BY SentOpenNat
<1>6. \A a : OneIf(TRUE /\ h \in Marked(p, b, s, a)) = OneIf(h \in Marked(p, b, s, a))
  BY DEF OneIf
<1>7. Count(w.out, Freeing(b, s)) = Count(v.out, Freeing(b, s)) + Between(list, 1, k, FreedBy(p, b, s, r))
  BY <1>1, <1>3, <1>4, <1>5
<1>8. ASSUME NEW a
      PROVE  SentOpen(p, b, s, a, w.out) = SentOpen(p, b, s, a, v.out) + Between(list, 1, k, Marked(p, b, s, a))
  BY <1>1, <1>3, <1>4, <1>5, <1>6
<1> QED BY <1>7, <1>8

LEMMA OneReturned ==
  ASSUME config \in Configs, NEW r \in Replicas, NEW v \in State(policy, r),
         NEW list \in Seq(Returns(policy, r)), NEW k \in 1 .. Len(list), NEW u,
         Returned(policy, r, v, u, list, k - 1)
  PROVE  Returned(policy, r, v, HandleReturn(u, r, list[k]), list, k)
<1> DEFINE h == list[k]
           w == HandleReturn(u, r, h)
<1>1. h \in Returns(policy, r) /\ k \in Nat \ {0}  OBVIOUS
<1>2. /\ h \in Hopping /\ ServiceOf[h.endpoint] = r[1] /\ ~h.slot /\ h \in Hop
  BY <1>1 DEF Returns, Work, Hopping
<1>3. u \in State(policy, r) /\ ButSends(v, u)  BY DEF Returned
<1> HIDE DEF h
<1>4. Sent(policy, r, u, w, h.req, 1)  BY <1>2, <1>3, HandleReturnSends
<1> HIDE DEF w
<1>5. ButSends(v, w) /\ w \in State(policy, r)
  BY <1>3, <1>4 DEF Sent, ButSends
<1>6. \A T \in SUBSET PullSends(policy, r) : Count(w.out, T) = Count(v.out, T)
  BY <1>4 DEF Sent, Returned
<1>7. ASSUME NEW a
      PROVE  Count(w.out, SentAbout(a)) = Count(v.out, SentAbout(a)) + Between(list, 1, k, About(a))
  <2>1. Count(w.out, SentAbout(a)) = Count(u.out, SentAbout(a)) + (IF a = h.req THEN 1 ELSE 0)
    BY <1>4 DEF Sent
  <2>2. Count(u.out, SentAbout(a)) = Count(v.out, SentAbout(a)) + Between(list, 1, k - 1, About(a))
    BY DEF Returned
  <2>3. /\ Between(list, 1, k, About(a)) = Between(list, 1, k - 1, About(a)) + IF h \in About(a) THEN 1 ELSE 0
        /\ Between(list, 1, k, About(a)) \in Nat /\ Between(list, 1, k - 1, About(a)) \in Nat
    BY <1>1, BetweenNext, Zenon DEF h
  <2>4. h \in About(a) <=> a = h.req  BY <1>2 DEF About, HopsOf, Hop
  <2>5. Count(v.out, SentAbout(a)) \in Nat  BY StateIs
  <2> QED BY <2>1, <2>2, <2>3, <2>4, <2>5
<1>9. Repaid(policy, r, v, w, list, k)
  <2>1. Repaid(policy, r, v, u, list, k - 1)  BY DEF Returned
  <2>2. ASSUME NEW b \in Balancers, NEW s \in ServersOf[b]
        PROVE  Carries(policy, u, w, h, b, s, TRUE, h \in FreedBy(policy, b, s, r))
    BY <1>2, <1>3, HandleReturnCarries DEF w
  <2>3. h = list[k]  BY DEF h
  <2> QED BY <1>1, <2>1, <2>2, <2>3, OneRepaid
<1>8. Returned(policy, r, v, w, list, k)
  BY <1>5, <1>6, <1>7, <1>9 DEF Returned
<1> QED BY <1>8 DEF w, h

LEMMA ReturnsHandledSend ==
  ASSUME config \in Configs, NEW r \in Replicas, NEW v \in State(policy, r),
         NEW list \in Seq(Returns(policy, r))
  PROVE  Returned(policy, r, v, ReturnsHandled(v, r, list), list, Len(list))
<1> DEFINE n == Len(list)
           V == State(policy, r)
           F == [x \in V \X (1 .. n) |-> HandleReturn(x[1], r, list[x[2]])]
<1>1. n \in Nat /\ DOMAIN list = 1 .. n /\ \A i \in 1 .. n : list[i] \in Returns(policy, r)
  OBVIOUS
<1>2. ASSUME NEW u \in V, NEW i \in 1 .. n
      PROVE  HandleReturn(u, r, list[i]) \in V
  <2>1. list[i] \in Hopping /\ ServiceOf[list[i].endpoint] = r[1] /\ ~list[i].slot
    BY <1>1 DEF Returns, Work
  <2> DEFINE h == list[i]
  <2> HIDE DEF h
  <2>2. Sent(policy, r, u, HandleReturn(u, r, h), h.req, 1)
    BY <2>1, HandleReturnSends DEF h
  <2> QED BY <2>2 DEF Sent, h
<1>3. \A u \in V : \A i \in 1 .. n : F[<<u, i>>] = HandleReturn(u, r, list[i])
  OBVIOUS
<1>4. \A i \in 1 .. n : \A u \in V : F[<<u, i>>] \in V  BY <1>2, <1>3
<1> HIDE DEF F, V, n
<1>5. v \in V  BY DEF V
<1>6. \E g : ReturnTable(g, v, r, list)
  <2>1. PICK g : FoldTable(g, n, v, F) /\ \A x \in SUBSET (1 .. n) : g[x] \in V
    BY <1>1, <1>4, <1>5, FoldInside
  <2>2. ASSUME NEW x \in SUBSET (1 .. n)
        PROVE  g[x] = IF x = {} THEN v ELSE HandleReturn(g[x \ {Max(x)}], r, list[Max(x)])
    <3>1. CASE x # {}
      <4>1. Max(x) \in 1 .. n  BY <1>1, <3>1, LastOfSome
      <4>2. x \ {Max(x)} \in SUBSET (1 .. n)  OBVIOUS
      <4>3. g[x \ {Max(x)}] \in V  BY <2>1, <4>2
      <4>4. g[x] = F[<<g[x \ {Max(x)}], Max(x)>>]
        BY <2>1, <3>1, Zenon DEF FoldTable
      <4>5. g[x] = HandleReturn(g[x \ {Max(x)}], r, list[Max(x)])
        BY <1>3, <4>1, <4>3, <4>4
      <4> QED BY <3>1, <4>5, Zenon
    <3>2. CASE x = {}  BY <2>1, <3>2, Zenon DEF FoldTable
    <3> QED BY <3>1, <3>2
  <2>3. ReturnTable(g, v, r, list)
    BY <2>1, <2>2, Zenon DEF ReturnTable, FoldTable, n
  <2> QED BY <2>3
<1>7. PICK g : ReturnTable(g, v, r, list) /\ ReturnsHandled(v, r, list) = g[1 .. n]
  BY <1>1, <1>6, Zenon DEF ReturnsHandled, FoldLeft, MapThenFoldSet, ReturnTable, n
<1> DEFINE P == {k \in 0 .. n : Returned(policy, r, v, g[1 .. k], list, k)}
<1>8. 0 \in P
  <2>1. 1 .. 0 = {} /\ {} \in SUBSET (1 .. n) /\ 0 \in 0 .. n  BY <1>1
  <2>2. g[1 .. 0] = v  BY <1>7, <2>1, Zenon DEF ReturnTable, n
  <2>3. \A a : Between(list, 1, 0, About(a)) = 0  BY BetweenNone
  <2>4. \A T : Count(v.out, T) \in Nat  BY StateIs
  <2>5. \A a : Count(v.out, SentAbout(a)) = Count(v.out, SentAbout(a)) + Between(list, 1, 0, About(a))
    BY <2>3, <2>4
  <2>6. Returned(policy, r, v, v, list, 0)
    BY <2>5, NoneRepaid DEF Returned, ButSends
  <2> QED BY <2>1, <2>2, <2>6
<1>9. ASSUME NEW k \in 1 .. n, k - 1 \in P
      PROVE  k \in P
  <2>1. Max(1 .. k) = k /\ (1 .. k) \ {k} = 1 .. k - 1 /\ 1 .. k # {}
    <3>1. k \in Nat \ {0}  OBVIOUS
    <3> QED BY <3>1, LastPosition
  <2>2. 1 .. k \in SUBSET (1 .. n) /\ k \in 0 .. n /\ k \in 1 .. Len(list)
    BY <1>1 DEF n
  <2>3. g[1 .. k] = HandleReturn(g[1 .. k - 1], r, list[k])
    BY <1>7, <2>1, <2>2, Zenon DEF ReturnTable, n
  <2>4. Returned(policy, r, v, g[1 .. k - 1], list, k - 1)  BY <1>9
  <2>5. Returned(policy, r, v, g[1 .. k], list, k)
    BY <2>2, <2>3, <2>4, OneReturned
  <2> QED BY <2>2, <2>5
<1> HIDE DEF P
<1>10. 0 .. n \subseteq P  BY <1>1, <1>8, <1>9, UpTo
<1>11. n \in P  BY <1>1, <1>10
<1> QED BY <1>7, <1>11 DEF P, n

LEMMA OccupancyIs ==
  ASSUME NEW p, NEW r, NEW v \in State(p, r)
  PROVE  JbsqOccupancy(v) = v.in_flight + Count(v.queue, Upstreams)
<1>1. v.queue \in Seq(Queued(p, r))  BY StateIs
<1>2. \A i \in DOMAIN v.queue : v.queue[i] \in Hop
  BY <1>1 DEF Queued, Work, Hopping
<1>3. {i \in DOMAIN v.queue : v.queue[i].kind = "upstream"} = {i \in DOMAIN v.queue : v.queue[i] \in Upstreams}
  BY <1>2 DEF Upstreams
<1> QED BY <1>3 DEF JbsqOccupancy, Count

LEMMA BeginServiceBegins ==
  ASSUME NEW p, NEW r, NEW v \in State(p, r), NEW h \in Work(p, r), h.kind = "upstream",
         h \notin v.serving
  PROVE  Begun(p, r, v, h, BeginService(v, h))
<1> DEFINE u == BeginService(v, h)
<1>1. /\ v.serving \subseteq Work(p, r) /\ IsFiniteSet(v.serving) /\ v.in_flight \in Nat
      /\ \A k \in v.serving : k.kind = "upstream"
  BY StateIs, ServingIs
<1>2. /\ IsFiniteSet(v.serving \cup {h}) /\ Cardinality(v.serving \cup {h}) = Cardinality(v.serving) + 1
      /\ \A T : Cardinality((v.serving \cup {h}) \cap T) = Cardinality(v.serving \cap T) + OneIf(h \in T)
  BY <1>1, SetAdd
<1>3. v.serving \cup {h} \in FiniteWork(p, r)  BY <1>1, <1>2 DEF FiniteWork
<1> DEFINE S == v.serving \cup {h}
           k == v.in_flight + 1
<1>7. u = [v EXCEPT !.in_flight = k, !.serving = S]  BY DEF BeginService, State
<1>8. k \in Nat /\ S \in FiniteWork(p, r)  BY <1>1, <1>3
<1> HIDE DEF S, k, u
<1>9. u \in State(p, r)  BY <1>7, <1>8 DEF State
<1>10. /\ u.queue = v.queue /\ u.pending_pulls = v.pending_pulls /\ u.pull_intents = v.pull_intents
       /\ u.warm = v.warm /\ u.out = v.out
       /\ u.in_flight = k /\ u.serving = S
  BY <1>7 DEF State
<1>4. /\ u \in State(p, r)
      /\ u.queue = v.queue /\ u.pending_pulls = v.pending_pulls /\ u.pull_intents = v.pull_intents
      /\ u.warm = v.warm /\ u.out = v.out
      /\ u.in_flight = v.in_flight + 1 /\ u.serving = v.serving \cup {h}
  BY <1>9, <1>10 DEF S, k
<1> HIDE DEF u
<1>5. ASSUME NEW a
      PROVE  Load(u, a) = Load(v, a) + OneIf(h \in About(a))
  <2>1. Cardinality(u.serving \cap About(a)) = Cardinality(v.serving \cap About(a)) + OneIf(h \in About(a))
    BY <1>2, <1>4
  <2>2. /\ Count(v.out, SentAbout(a)) \in Nat /\ Count(v.queue, About(a)) \in Nat
        /\ Cardinality(v.serving \cap About(a)) \in Nat
    BY StateIs
  <2>3. OneIf(h \in About(a)) \in Nat  BY DEF OneIf
  <2> QED BY <1>4, <2>1, <2>2, <2>3 DEF Load
<1>6. Begun(p, r, v, h, u)  BY <1>2, <1>4, <1>5 DEF Begun
<1> QED BY <1>6 DEF u

LEMMA OwingNat ==
  ASSUME NEW p, NEW r, NEW v \in State(p, r), NEW b, NEW s, NEW a
  PROVE  /\ Count(v.queue, Marked(p, b, s, a)) \in Nat /\ Count(v.queue, Freed(p, b, s, a, r)) \in Nat
         /\ Cardinality(v.serving \cap Marked(p, b, s, a)) \in Nat
         /\ SentOpen(p, b, s, a, v.out) \in Nat
         /\ Owing(p, r, v, b, s, a) \in Nat
<1>1. SentOpen(p, b, s, a, v.out) \in Nat  BY SentOpenNat
<1>2. \A T : Count(v.queue, T) \in Nat /\ Cardinality(v.serving \cap T) \in Nat
  BY StateIs
<1> DEFINE x == Count(v.queue, Marked(p, b, s, a))
           y == Count(v.queue, Freed(p, b, s, a, r))
           z == Cardinality(v.serving \cap Marked(p, b, s, a))
           w == SentOpen(p, b, s, a, v.out)
<1>3. x \in Nat /\ y \in Nat /\ z \in Nat /\ w \in Nat  BY <1>1, <1>2
<1>4. Owing(p, r, v, b, s, a) = x + y + z + w  BY DEF Owing
<1> HIDE DEF x, y, z, w
<1>5. Owing(p, r, v, b, s, a) \in Nat  BY <1>3, <1>4
<1> QED BY <1>3, <1>5 DEF x, y, z, w

LEMMA HeadPaid ==
  ASSUME NEW p, NEW r, NEW v \in State(p, r), NEW k \in Nat, NEW c \in State(p, r), Behead(v, c, k),
         NEW u \in State(p, r), ButSends(c, u), NEW list, SameHead(v.queue, list, k), Repaid(p, r, c, u, list, k)
  PROVE  Paid(p, r, v, u, k)
<1> SUFFICES ASSUME NEW b \in Balancers, NEW s \in ServersOf[b]
             PROVE  /\ Count(u.out, Freeing(b, s))
                         = Count(v.out, Freeing(b, s)) + Between(v.queue, 1, k, FreedBy(p, b, s, r))
                    /\ \A a : Owing(p, r, u, b, s, a) + Between(v.queue, 1, k, Freed(p, b, s, a, r))
                                = Owing(p, r, v, b, s, a)
  BY DEF Paid
<1>1. \A T : Between(v.queue, 1, k, T) \in Nat
  <2>1. 1 \in Int /\ k \in Int  OBVIOUS
  <2> QED BY <2>1, BetweenNatural, Zenon
<1>2. u.queue = c.queue /\ u.serving = v.serving /\ c.out = v.out
  BY DEF ButSends, Behead
<1>3. /\ Count(u.out, Freeing(b, s)) = Count(v.out, Freeing(b, s)) + Between(list, 1, k, FreedBy(p, b, s, r))
      /\ \A a : SentOpen(p, b, s, a, u.out)
                  = SentOpen(p, b, s, a, v.out) + Between(list, 1, k, Marked(p, b, s, a))
  BY <1>2 DEF Repaid
<1>4. ASSUME NEW a
      PROVE  Owing(p, r, u, b, s, a) + Between(v.queue, 1, k, Freed(p, b, s, a, r)) = Owing(p, r, v, b, s, a)
  <2> DEFINE M == Marked(p, b, s, a)
             F == Freed(p, b, s, a, r)
  <2>1. /\ Count(v.queue, M) = Between(v.queue, 1, k, M) + Count(u.queue, M)
        /\ Count(v.queue, F) = Between(v.queue, 1, k, F) + Count(u.queue, F)
    BY <1>2 DEF Behead
  <2>2. SentOpen(p, b, s, a, u.out) = SentOpen(p, b, s, a, v.out) + Between(v.queue, 1, k, M)
    BY <1>3 DEF SameHead
  <2>3. /\ Count(u.queue, M) \in Nat /\ Count(u.queue, F) \in Nat
        /\ Cardinality(v.serving \cap M) \in Nat /\ SentOpen(p, b, s, a, v.out) \in Nat
        /\ Between(v.queue, 1, k, M) \in Nat /\ Between(v.queue, 1, k, F) \in Nat
    BY <1>1, OwingNat
  <2>4. /\ Owing(p, r, v, b, s, a) = Count(v.queue, M) + Count(v.queue, F)
                                       + Cardinality(v.serving \cap M) + SentOpen(p, b, s, a, v.out)
        /\ Owing(p, r, u, b, s, a) = Count(u.queue, M) + Count(u.queue, F)
                                       + Cardinality(v.serving \cap M) + SentOpen(p, b, s, a, u.out)
    BY <1>2 DEF Owing
  <2> HIDE DEF M, F
  <2>5. Owing(p, r, u, b, s, a) + Between(v.queue, 1, k, F) = Owing(p, r, v, b, s, a)
    BY ONLY <2>1, <2>2, <2>3, <2>4
  <2> QED BY <2>5 DEF F
<1> QED BY <1>3, <1>4 DEF SameHead

LEMMA NothingPaid ==
  ASSUME NEW p, NEW r, NEW v \in State(p, r)
  PROVE  Pays(p, r, v, v)
<1>1. \A T : Between(v.queue, 1, 0, T) = 0  BY BetweenNone
<1>2. ASSUME NEW b \in Balancers, NEW s \in ServersOf[b]
      PROVE  Count(v.out, Freeing(b, s)) \in Nat /\ \A a : Owing(p, r, v, b, s, a) \in Nat
  BY SentOpenNat, OwingNat
<1>3. Paid(p, r, v, v, 0) /\ AllReturns(p, r, v.queue, 0)
  BY <1>1, <1>2 DEF Paid, AllReturns
<1>4. Len(v.queue) \in Nat  BY StateIs
<1> QED BY <1>3, <1>4 DEF Pays

LEMMA ServedPays ==
  ASSUME NEW p, NEW r, NEW v \in State(p, r), NEW u \in State(p, r), NEW w \in State(p, r), NEW k, Paid(p, r, v, u, k),
         NEW h, h.kind = "upstream", TakenUp(u, h, w)
  PROVE  Paid(p, r, v, w, k)
<1> SUFFICES ASSUME NEW b \in Balancers, NEW s \in ServersOf[b], NEW a
             PROVE  Owing(p, r, w, b, s, a) = Owing(p, r, u, b, s, a)
  BY DEF Paid, TakenUp
<1> DEFINE M == Marked(p, b, s, a)
           F == Freed(p, b, s, a, r)
<1>1. /\ Count(u.queue, M) = Count(w.queue, M) + OneIf(h \in M)
      /\ Count(u.queue, F) = Count(w.queue, F) + OneIf(h \in F)
  BY DEF TakenUp
<1>2. OneIf(h \in F) = 0 /\ OneIf(h \in M) \in Nat  BY DEF Freed, Unpaid, OneIf
<1>3. Cardinality(w.serving \cap M) = Cardinality(u.serving \cap M) + OneIf(h \in M)
  <2>1. IsFiniteSet(u.serving) /\ h \notin u.serving /\ w.serving = u.serving \cup {h}
    BY StateIs DEF TakenUp
  <2> HIDE DEF M, F
  <2> QED BY ONLY <2>1, SetAdd
<1>4. /\ Count(w.queue, M) \in Nat /\ Count(w.queue, F) \in Nat
      /\ Cardinality(u.serving \cap M) \in Nat /\ SentOpen(p, b, s, a, u.out) \in Nat
  BY OwingNat
<1>5. w.out = u.out  BY DEF TakenUp
<1> HIDE DEF M, F
<1>6. Count(w.queue, M) + Count(w.queue, F) + Cardinality(w.serving \cap M) + SentOpen(p, b, s, a, u.out)
        = Count(u.queue, M) + Count(u.queue, F) + Cardinality(u.serving \cap M) + SentOpen(p, b, s, a, u.out)
  BY ONLY <1>1, <1>2, <1>3, <1>4
<1> QED BY <1>5, <1>6 DEF Owing, M, F

LEMMA FirstUpstreamIs ==
  ASSUME NEW p, NEW r, NEW q \in Seq(Queued(p, r))
  PROVE  \/ /\ FirstUpstream(q) = 0
            /\ \A j \in 1 .. Len(q) : q[j] \in Returns(p, r)
         \/ /\ FirstUpstream(q) \in 1 .. Len(q)
            /\ q[FirstUpstream(q)] \in Upstreams /\ q[FirstUpstream(q)] \in Work(p, r)
            /\ \A j \in 1 .. FirstUpstream(q) - 1 : q[j] \in Returns(p, r)
<1> DEFINE I == {j \in 1 .. Len(q) : q[j].kind = "upstream"}
<1>1. FirstUpstream(q) = IF I # {} THEN Min(I) ELSE 0
  BY DEF FirstUpstream, SelectInSeq
<1>2. \A j \in 1 .. Len(q) : q[j] \in Work(p, r) /\ q[j] \in Hop
  BY DEF Queued, Work, Hopping
<1>3. \A j \in 1 .. Len(q) : j \notin I => q[j] \in Returns(p, r)
  BY <1>2 DEF Returns, Work
<1>4. CASE I = {}  BY <1>1, <1>3, <1>4
<1>5. CASE I # {}
  <2>1. I \in SUBSET Nat  OBVIOUS
  <2>2. Min(I) \in I /\ \A j \in I : Min(I) <= j  BY <1>5, <2>1, MinIsSmallest
  <2> DEFINE i == Min(I)
  <2>3. i \in 1 .. Len(q) /\ q[i].kind = "upstream" /\ \A j \in 1 .. i - 1 : j \notin I /\ j \in 1 .. Len(q)
    <3>1. i \in I /\ \A j \in I : i <= j  BY <2>2
    <3> HIDE DEF i
    <3> QED BY <3>1
  <2>4. FirstUpstream(q) = i  BY <1>1, <1>5
  <2> HIDE DEF i, I
  <2> QED BY <1>2, <1>3, <2>3, <2>4 DEF Upstreams
<1> QED BY <1>4, <1>5

LEMMA HeadHandledIs ==
  ASSUME config \in Configs, NEW r \in Replicas, NEW v \in State(policy, r),
         NEW k \in 0 .. Len(v.queue), AllReturns(policy, r, v.queue, k)
  PROVE  HeadGone(policy, r, v, k, HeadHandled(v, r, k))
<1> DEFINE p == policy
           q == v.queue
           n == Len(q)
           c == SubSeq(q, k + 1, n)
           b == [v EXCEPT !.queue = c]
           list == SubSeq(q, 1, k)
           u == HeadHandled(v, r, k)
<1>1. q \in Seq(Queued(p, r)) /\ n \in Nat /\ k \in Nat /\ k <= n  BY StateIs
<1>2. /\ c \in Seq(Queued(p, r)) /\ Len(c) = n - k
      /\ \A T : Count(q, T) = Between(q, 1, k, T) + Count(c, T)
  <2>1. k \in 0 .. Len(q)  OBVIOUS
  <2> QED BY <1>1, <2>1, CountRest
<1>3. list \in Seq(Returns(p, r)) /\ Len(list) = k /\ \A j \in 1 .. k : list[j] = q[j]
  BY <1>1 DEF AllReturns
<1>4. \A T : Between(list, 1, k, T) = Between(q, 1, k, T)
  <2> TAKE T
  <2>1. Agree(list, T, q, T, 1, k)  BY <1>3 DEF Agree
  <2> QED BY <2>1, BetweenAgree
<1>5. u = ReturnsHandled(b, r, list)  BY DEF HeadHandled
<1> HIDE DEF c, list, u
<1>6. /\ b \in State(p, r) /\ b.queue = c /\ b.serving = v.serving /\ b.out = v.out
      /\ b.pending_pulls = v.pending_pulls /\ b.pull_intents = v.pull_intents /\ b.warm = v.warm
      /\ b.in_flight = v.in_flight
  BY <1>2 DEF State
<1> HIDE DEF b
<1>7. Returned(p, r, b, u, list, k)  BY <1>3, <1>5, <1>6, ReturnsHandledSend
<1>8. /\ u \in State(p, r) /\ ButSends(b, u)
      /\ \A T \in SUBSET PullSends(p, r) : Count(u.out, T) = Count(v.out, T)
  BY <1>6, <1>7 DEF Returned
<1>9. ASSUME NEW a
      PROVE  Load(u, a) = Load(v, a)
  <2>1. Count(u.out, SentAbout(a)) = Count(v.out, SentAbout(a)) + Between(q, 1, k, About(a))
    BY <1>4, <1>6, <1>7 DEF Returned
  <2>2. Count(q, About(a)) = Between(q, 1, k, About(a)) + Count(u.queue, About(a))
    BY <1>2, <1>6, <1>8 DEF ButSends
  <2>3. u.serving = v.serving  BY <1>6, <1>8 DEF ButSends
  <2>4. /\ Count(v.out, SentAbout(a)) \in Nat /\ Count(u.queue, About(a)) \in Nat
        /\ Cardinality(v.serving \cap About(a)) \in Nat
    BY <1>8, StateIs
  <2>5. Between(q, 1, k, About(a)) \in Nat
    <3>1. 1 \in Int /\ k \in Int  BY <1>1
    <3> QED BY <3>1, BetweenNatural, Zenon
  <2> QED BY <2>1, <2>2, <2>3, <2>4, <2>5 DEF Load
<1>10. Count(u.queue, Upstreams) = Count(q, Upstreams)
  <2>1. \A j \in 1 .. k : q[j] \notin Upstreams
    BY DEF Returns, Upstreams, AllReturns
  <2>2. Agree(q, Upstreams, q, {}, 1, k)  BY <2>1 DEF Agree
  <2>3. Between(q, 1, k, Upstreams) = Between(q, 1, k, {})
    BY <2>2, BetweenAgree
  <2>4. Between(q, 1, k, {}) = 0
    <3>1. {i \in 1 .. k : q[i] \in {}} = {}  OBVIOUS
    <3> QED BY <3>1, FS_EmptySet DEF Between
  <2>5. Count(q, Upstreams) = Between(q, 1, k, Upstreams) + Count(u.queue, Upstreams)
    BY <1>2, <1>6, <1>8 DEF ButSends
  <2>6. Count(u.queue, Upstreams) \in Nat  BY <1>8, StateIs
  <2> QED BY <2>3, <2>4, <2>5, <2>6
<1>11. u.queue = c /\ Len(u.queue) = n - k /\ u.in_flight = v.in_flight /\ u.serving = v.serving
  BY <1>2, <1>6, <1>8 DEF ButSends
<1>12. u.pending_pulls = v.pending_pulls /\ u.pull_intents = v.pull_intents /\ u.warm = v.warm
  BY <1>6, <1>8 DEF ButSends
<1>14. Paid(p, r, v, u, k)
  <2>1. Behead(v, b, k)  BY <1>2, <1>6 DEF Behead
  <2>2. SameHead(v.queue, list, k)  BY <1>4 DEF SameHead
  <2>3. Repaid(p, r, b, u, list, k)  BY <1>7 DEF Returned
  <2> HIDE DEF q
  <2> QED BY <1>1, <1>6, <1>8, <2>1, <2>2, <2>3, HeadPaid
<1>13. HeadGone(p, r, v, k, u)
  BY <1>8, <1>9, <1>10, <1>11, <1>12, <1>14 DEF HeadGone, c
<1> QED BY <1>13 DEF u

LEMMA DrainQueueDrains ==
  ASSUME config \in Configs, NEW r \in Replicas, NEW v \in State(policy, r),
         \A i \in DOMAIN v.queue : v.queue[i] \notin v.serving
  PROVE  Drained(policy, r, v, DrainQueue(v, r))
<1> DEFINE p == policy
           q == v.queue
           n == Len(q)
           i == FirstUpstream(q)
           k == IF i = 0 THEN n ELSE i - 1
           u == HeadHandled(v, r, k)
<1>1. q \in Seq(Queued(p, r)) /\ n \in Nat /\ v.in_flight \in Nat /\ MaxConcurrency \in Nat
  BY StateIs, MicroservicesAssumption
<1>2. DrainQueue(v, r) = IF v.in_flight >= MaxConcurrency THEN v
                         ELSE IF i = 0 THEN u
                         ELSE BeginService([u EXCEPT !.queue = Tail(@)], q[i])
  BY DEF DrainQueue, HeadHandled, ReturnsHandled, FirstUpstream
<1>3. \/ /\ i = 0
         /\ \A j \in 1 .. n : q[j] \in Returns(p, r)
      \/ /\ i \in 1 .. n
         /\ q[i] \in Upstreams /\ q[i] \in Work(p, r)
         /\ \A j \in 1 .. i - 1 : q[j] \in Returns(p, r)
  BY <1>1, FirstUpstreamIs
<1> HIDE DEF i, u
<1>4. k \in 0 .. n /\ AllReturns(p, r, q, k)  BY <1>1, <1>3 DEF AllReturns
<1>5. /\ u \in State(p, r)
      /\ u.pending_pulls = v.pending_pulls /\ u.pull_intents = v.pull_intents /\ u.warm = v.warm
      /\ u.in_flight = v.in_flight /\ u.serving = v.serving
      /\ u.queue = SubSeq(q, k + 1, n) /\ Len(u.queue) = n - k
      /\ \A T \in SUBSET PullSends(p, r) : Count(u.out, T) = Count(v.out, T)
      /\ \A a : Load(u, a) = Load(v, a)
      /\ Count(u.queue, Upstreams) = Count(q, Upstreams)
      /\ Paid(p, r, v, u, k)
  <2>1. HeadGone(p, r, v, k, u)
    <3> HIDE DEF k
    <3> QED BY <1>4, HeadHandledIs DEF u
  <2> QED BY <2>1 DEF HeadGone
<1>6. Cardinality(v.serving) \in Nat  BY StateIs, FS_CardinalityType
<1>7. CASE v.in_flight >= MaxConcurrency
  <2>1. \A a : Load(v, a) = Load(v, a)  OBVIOUS
  <2>2. Pays(p, r, v, v)  BY NothingPaid
  <2> QED BY <1>1, <1>2, <1>6, <1>7, <2>2 DEF Drained
<1>8. CASE ~(v.in_flight >= MaxConcurrency) /\ i = 0
  <2>1. DrainQueue(v, r) = u /\ Len(u.queue) = 0  BY <1>1, <1>2, <1>5, <1>8
  <2>2. u.queue = <<>>
    <3>1. u.queue \in Seq(Queued(p, r))  BY <1>5, StateIs
    <3> QED BY <2>1, <3>1
  <2>3. Pays(p, r, v, u)  BY <1>4, <1>5 DEF Pays
  <2> QED BY <1>1, <1>5, <1>6, <2>1, <2>2, <2>3 DEF Drained
<1>9. CASE ~(v.in_flight >= MaxConcurrency) /\ i # 0
  <2> DEFINE h == q[i]
             t == Tail(u.queue)
             c == [u EXCEPT !.queue = t]
             w == BeginService(c, h)
  <2>1. DrainQueue(v, r) = w  BY <1>2, <1>9
  <2>2. i \in 1 .. n /\ h \in Upstreams /\ h \in Work(p, r) /\ k = i - 1 /\ h.kind = "upstream"
    BY <1>3, <1>9 DEF Upstreams
  <2>3. u.queue # <<>> /\ Head(u.queue) = h
    <3>1. u.queue = SubSeq(q, i, n)
      <4>1. k + 1 = i  BY <2>2
      <4> QED BY <1>5, <4>1
    <3>2. SubSeq(q, i, n) # <<>> /\ Head(SubSeq(q, i, n)) = q[i]
      <4>1. q \in Seq(Queued(p, r)) /\ i \in 1 .. Len(q)  BY <1>1, <2>2
      <4> QED BY ONLY <4>1, RestHead DEF n
    <3> QED BY <3>1, <3>2
  <2>4. t \in Seq(Queued(p, r)) /\ \A T : Count(u.queue, T) = Count(t, T) + OneIf(h \in T)
    <3>1. u.queue \in Seq(Queued(p, r))  BY <1>5, StateIs
    <3> QED BY <2>3, <3>1, PopFront, CountPopFront DEF OneIf
  <2>5. h \notin v.serving  BY <1>1, <2>2
  <2>6. Len(t) = n - i
    <3>1. u.queue \in Seq(Queued(p, r))  BY <1>5, StateIs
    <3>2. Len(t) = Len(u.queue) - 1  BY <2>3, <3>1
    <3>3. Len(u.queue) = n - k /\ k = i - 1 /\ i \in 1 .. n  BY <1>5, <2>2
    <3> HIDE DEF n, k, t
    <3> QED BY ONLY <1>1, <3>2, <3>3
  <2> HIDE DEF t, h
  <2>7. /\ c \in State(p, r) /\ c.queue = t /\ c.serving = v.serving /\ c.out = u.out
        /\ c.pending_pulls = v.pending_pulls /\ c.pull_intents = v.pull_intents /\ c.warm = v.warm
        /\ c.in_flight = v.in_flight
    BY <1>5, <2>4 DEF State
  <2> HIDE DEF c
  <2>8. Begun(p, r, c, h, w)  BY <2>2, <2>5, <2>7, BeginServiceBegins
  <2> HIDE DEF w
  <2>9. /\ w \in State(p, r)
        /\ w.pending_pulls = v.pending_pulls /\ w.pull_intents = v.pull_intents /\ w.warm = v.warm
        /\ w.out = u.out /\ w.queue = t
        /\ w.in_flight = v.in_flight + 1
        /\ Cardinality(w.serving) = Cardinality(v.serving) + 1
    BY <2>7, <2>8 DEF Begun
  <2>10. ASSUME NEW a
         PROVE  Load(w, a) = Load(v, a)
    <3>1. Load(w, a) = Load(c, a) + OneIf(h \in About(a))  BY <2>8 DEF Begun
    <3>2. Load(u, a) = Load(v, a)  BY <1>5
    <3>3. Count(u.queue, About(a)) = Count(c.queue, About(a)) + OneIf(h \in About(a))
      BY <2>4, <2>7
    <3>4. /\ Count(c.queue, About(a)) \in Nat /\ Cardinality(c.serving \cap About(a)) \in Nat
          /\ Count(c.out, SentAbout(a)) \in Nat /\ OneIf(h \in About(a)) \in Nat
      BY <2>7, StateIs DEF OneIf
    <3>5. u.serving = c.serving /\ u.out = c.out  BY <1>5, <2>7
    <3> QED BY <3>1, <3>2, <3>3, <3>4, <3>5 DEF Load
  <2>11. w.in_flight <= MaxConcurrency  BY <1>1, <1>9, <2>9
  <2>12. w.in_flight + Count(w.queue, Upstreams) = v.in_flight + Count(q, Upstreams)
    <3>1. Count(q, Upstreams) = Count(t, Upstreams) + 1
      BY <1>5, <2>2, <2>4 DEF OneIf
    <3>2. Count(t, Upstreams) \in Nat  BY <2>4, CountFinite
    <3> QED BY <1>1, <2>9, <3>1, <3>2
  <2>13. (v.in_flight + 1 >= MaxConcurrency \/ n <= 1) /\ w.queue # <<>>
           => w.in_flight >= MaxConcurrency
    <3>1. CASE n <= 1
      <4>1. Len(t) = 0  BY <1>1, <2>2, <2>4, <2>6, <3>1
      <4> QED BY <2>4, <2>9, <4>1
    <3>2. CASE v.in_flight + 1 >= MaxConcurrency  BY <2>9, <3>2
    <3> QED BY <3>1, <3>2
  <2>14. \A T \in SUBSET PullSends(p, r) : Count(w.out, T) = Count(v.out, T)
    BY <1>5, <2>9
  <2>15. w.in_flight + Cardinality(v.serving) = v.in_flight + Cardinality(w.serving)
    <3>1. PICK f \in Nat, s \in Nat : f = v.in_flight /\ s = Cardinality(v.serving)
      BY <1>1, <1>6
    <3>2. (f + 1) + s = f + (s + 1)  OBVIOUS
    <3> QED BY <2>9, <3>1, <3>2
  <2>17. Pays(p, r, v, w)
    <3>1. w.serving = u.serving \cup {h} /\ w.out = u.out /\ h \notin u.serving
      BY <1>5, <2>5, <2>7, <2>8 DEF Begun
    <3>2. TakenUp(u, h, w)  BY <2>4, <2>9, <3>1 DEF TakenUp
    <3> HIDE DEF k
    <3>3. Paid(p, r, v, w, k)  BY <1>5, <2>2, <2>9, <3>2, ServedPays
    <3> QED BY <1>4, <3>3 DEF Pays
  <2>16. Drained(p, r, v, w)
    BY <2>9, <2>10, <2>11, <2>12, <2>13, <2>14, <2>15, <2>17 DEF Drained
  <2> QED BY <2>1, <2>16
<1> QED BY <1>7, <1>8, <1>9

LEMMA QueuedOnce ==
  ASSUME NEW p, NEW r, NEW v \in State(p, r), \A a \in Requests : Load(v, a) <= 1
  PROVE  \A i, j \in 1 .. Len(v.queue) : v.queue[i].req = v.queue[j].req => i = j
<1> SUFFICES ASSUME NEW i \in 1 .. Len(v.queue), NEW j \in 1 .. Len(v.queue),
                    v.queue[i].req = v.queue[j].req
             PROVE  i = j
  OBVIOUS
<1> DEFINE a == v.queue[i].req
<1>1. v.queue \in Seq(Queued(p, r)) /\ DOMAIN v.queue = 1 .. Len(v.queue)
  BY StateIs
<1>2. v.queue[i] \in Hop /\ v.queue[j] \in Hop
  BY <1>1 DEF Queued, Work, Hopping
<1>3. a \in Requests /\ v.queue[i] \in About(a) /\ v.queue[j] \in About(a)
  BY <1>2 DEF Hop, About, HopsOf
<1> HIDE DEF a
<1>4. Count(v.queue, About(a)) <= 1
  <2>1. /\ Count(v.queue, About(a)) \in Nat /\ Cardinality(v.serving \cap About(a)) \in Nat
        /\ Count(v.out, SentAbout(a)) \in Nat
    BY StateIs
  <2>2. Load(v, a) <= 1  BY <1>3
  <2> QED BY <2>1, <2>2 DEF Load
<1> QED BY <1>1, <1>3, <1>4, CountSome

LEMMA PaysClears ==
  ASSUME NEW p, NEW r, NEW v \in State(p, r), \A a \in Requests : Load(v, a) <= 1, NEW u, Pays(p, r, v, u)
  PROVE  Clears(p, r, v, u)
<1> DEFINE q == v.queue
<1>1. PICK k \in 0 .. Len(q) : AllReturns(p, r, q, k) /\ Paid(p, r, v, u, k)
  BY DEF Pays
<1> SUFFICES ASSUME NEW b \in Balancers, NEW s \in ServersOf[b]
             PROVE  \E F \in SUBSET Keys :
                      /\ IsFiniteSet(F)
                      /\ Count(u.out, Freeing(b, s)) = Count(v.out, Freeing(b, s)) + Cardinality(F)
                      /\ \A a \in Keys : Owing(p, r, u, b, s, a) + OneIf(a \in F) = Owing(p, r, v, b, s, a)
  BY DEF Clears
<1> DEFINE T == FreedBy(p, b, s, r)
           f == KeyAt(q)
           I == {x \in 1 .. k : q[x] \in T}
           F == {f[i] : i \in I}
<1>2. q \in Seq(Queued(p, r)) /\ Len(q) \in Nat /\ k \in Nat /\ k <= Len(q)
  BY StateIs
<1>3. \A i, j \in 1 .. Len(q) : q[i].req = q[j].req => i = j  BY QueuedOnce
<1>4. ASSUME NEW i \in 1 .. k
      PROVE  /\ i \in 1 .. Len(q) /\ q[i] \in Hop /\ q[i].kind = "return"
             /\ f[i] = <<q[i].req, Len(q[i].callers)>> /\ f[i] \in Keys
  <2>1. i \in 1 .. Len(q) /\ q[i] \in Returns(p, r)
    BY <1>1, <1>2 DEF AllReturns
  <2>2. q[i] \in Hop /\ q[i].kind = "return"
    BY <2>1 DEF Returns, Work, Hopping
  <2>3. q[i].req \in Requests /\ Len(q[i].callers) \in Nat  BY <2>2 DEF Hop
  <2> QED BY <2>1, <2>2, <2>3 DEF KeyAt, Keys
<1> HIDE DEF q, f
<1>5. TellsApart(f, q, k, T)  BY <1>3, <1>4 DEF TellsApart
<1>6. IsFiniteSet(F) /\ Cardinality(F) = Between(q, 1, k, T)
  BY <1>2, <1>5, BetweenImage
<1>7. F \in SUBSET Keys  BY <1>4
<1>8. ASSUME NEW a \in Keys
      PROVE  Between(q, 1, k, Freed(p, b, s, a, r)) = OneIf(a \in F)
  <2> DEFINE J == {x \in 1 .. k : q[x] \in Freed(p, b, s, a, r)}
  <2>1. ASSUME NEW i \in 1 .. k
        PROVE  i \in J <=> i \in I /\ f[i] = a
    <3>1. f[i] = a <=> q[i].req = a[1] /\ Len(q[i].callers) = a[2]
      BY <1>4, <2>1 DEF Keys
    <3> QED BY <1>4, <2>1, <3>1 DEF Freed, Unpaid, FreedBy
  <2>2. CASE a \in F
    <3>1. PICK i \in I : f[i] = a  BY <2>2
    <3>2. ASSUME NEW j \in J
          PROVE  j = i
      BY <1>5, <2>1, <3>1 DEF TellsApart
    <3>3. J = {i}  BY <2>1, <3>1, <3>2
    <3>4. Cardinality(J) = 1  BY <3>3, FS_Singleton
    <3> QED BY <2>2, <3>4 DEF Between, OneIf
  <2>3. CASE a \notin F
    <3>1. J = {}  BY <2>1, <2>3
    <3>2. Cardinality(J) = 0  BY <3>1, FS_EmptySet
    <3> QED BY <2>3, <3>2 DEF Between, OneIf
  <2> QED BY <2>2, <2>3
<1> HIDE DEF F, T
<1>9. /\ Count(u.out, Freeing(b, s)) = Count(v.out, Freeing(b, s)) + Cardinality(F)
      /\ \A a \in Keys : Owing(p, r, u, b, s, a) + OneIf(a \in F) = Owing(p, r, v, b, s, a)
  BY <1>1, <1>6, <1>8 DEF Paid, T, q
<1> QED BY <1>6, <1>7, <1>9

LEMMA TakesThenClears ==
  ASSUME NEW p, NEW r, NEW v, NEW h, NEW c, NEW w, Takes(p, r, v, h, c), Clears(p, r, c, w)
  PROVE  Moves(p, r, v, h, w)
<1> SUFFICES ASSUME NEW b \in Balancers, NEW s \in ServersOf[b]
             PROVE  \E F \in SUBSET Keys :
               /\ IsFiniteSet(F)
               /\ Count(w.out, Freeing(b, s)) = Count(v.out, Freeing(b, s)) + Cardinality(F)
               /\ \A a \in Keys : Owing(p, r, w, b, s, a) + OneIf(a \in F)
                                    = Owing(p, r, v, b, s, a) + OneIf(h \in Marked(p, b, s, a))
                                        + OneIf(h \in Freed(p, b, s, a, r))
  BY DEF Moves
<1>1. PICK F \in SUBSET Keys :
        /\ IsFiniteSet(F)
        /\ Count(w.out, Freeing(b, s)) = Count(c.out, Freeing(b, s)) + Cardinality(F)
        /\ \A a \in Keys : Owing(p, r, w, b, s, a) + OneIf(a \in F) = Owing(p, r, c, b, s, a)
  BY DEF Clears
<1>2. /\ Count(c.out, Freeing(b, s)) = Count(v.out, Freeing(b, s))
      /\ \A a : Owing(p, r, c, b, s, a)
                  = Owing(p, r, v, b, s, a) + OneIf(h \in Marked(p, b, s, a)) + OneIf(h \in Freed(p, b, s, a, r))
  BY DEF Takes
<1> QED BY <1>1, <1>2

LEMMA QueuedTakes ==
  ASSUME NEW p, NEW r, NEW v \in State(p, r), NEW h, NEW c, c.out = v.out, c.serving = v.serving,
         \A T : Count(c.queue, T) = Count(v.queue, T) + OneIf(h \in T)
  PROVE  Takes(p, r, v, h, c)
<1> SUFFICES ASSUME NEW b \in Balancers, NEW s \in ServersOf[b], NEW a
             PROVE  Owing(p, r, c, b, s, a)
                      = Owing(p, r, v, b, s, a) + OneIf(h \in Marked(p, b, s, a)) + OneIf(h \in Freed(p, b, s, a, r))
  BY DEF Takes
<1> DEFINE M == Marked(p, b, s, a)
           F == Freed(p, b, s, a, r)
           n == Cardinality(v.serving \cap M)
           o == SentOpen(p, b, s, a, v.out)
<1>1. /\ Count(v.queue, M) \in Nat /\ Count(v.queue, F) \in Nat /\ n \in Nat /\ o \in Nat
  BY OwingNat
<1>2. OneIf(h \in M) \in Nat /\ OneIf(h \in F) \in Nat  BY DEF OneIf
<1>3. /\ Count(c.queue, M) = Count(v.queue, M) + OneIf(h \in M)
      /\ Count(c.queue, F) = Count(v.queue, F) + OneIf(h \in F)
  OBVIOUS
<1>4. /\ Owing(p, r, v, b, s, a) = Count(v.queue, M) + Count(v.queue, F) + n + o
      /\ Owing(p, r, c, b, s, a) = Count(c.queue, M) + Count(c.queue, F) + n + o
  BY DEF Owing
<1> HIDE DEF M, F, n, o
<1>5. Owing(p, r, c, b, s, a) = Owing(p, r, v, b, s, a) + OneIf(h \in M) + OneIf(h \in F)
  BY ONLY <1>1, <1>2, <1>3, <1>4
<1> QED BY <1>5 DEF M, F

LEMMA AdvancedTakes ==
  ASSUME NEW p, NEW r, NEW v \in State(p, r), NEW h, h.kind = "upstream",
         NEW k, \A b, s, a : k \in Marked(p, b, s, a) <=> h \in Marked(p, b, s, a),
         NEW u, Forwards(p, r, v, k, u)
  PROVE  Takes(p, r, v, h, u)
<1> SUFFICES ASSUME NEW b \in Balancers, NEW s \in ServersOf[b]
             PROVE  /\ Count(u.out, Freeing(b, s)) = Count(v.out, Freeing(b, s))
                    /\ \A a : Owing(p, r, u, b, s, a)
                                = Owing(p, r, v, b, s, a) + OneIf(h \in Marked(p, b, s, a))
                                    + OneIf(h \in Freed(p, b, s, a, r))
  BY DEF Takes
<1>1. PICK o : Posts(p, r, v, o, u) /\ Passes(p, k, o)  BY DEF Forwards
<1>2. Carries(p, v, u, k, b, s, TRUE, FALSE)  BY <1>1, PostCarries
<1>3. /\ Count(u.out, Freeing(b, s)) = Count(v.out, Freeing(b, s)) + OneIf(FALSE)
      /\ \A a : SentOpen(p, b, s, a, u.out)
                  = SentOpen(p, b, s, a, v.out) + OneIf(TRUE /\ k \in Marked(p, b, s, a))
  BY <1>2 DEF Carries
<1>4. Count(u.out, Freeing(b, s)) = Count(v.out, Freeing(b, s))
  <2> DEFINE x == Count(v.out, Freeing(b, s))
             y == Count(u.out, Freeing(b, s))
             z == OneIf(FALSE)
  <2>1. x \in Nat /\ z = 0  BY SentOpenNat DEF OneIf
  <2>2. y = x + z  BY <1>3, Zenon
  <2> HIDE DEF x, y, z
  <2>3. y = x  BY ONLY <2>1, <2>2
  <2> QED BY <2>3 DEF x, y
<1>5. u.queue = v.queue /\ u.serving = v.serving  BY <1>1 DEF Posts, ButSends
<1>6. ASSUME NEW a
      PROVE  Owing(p, r, u, b, s, a)
               = Owing(p, r, v, b, s, a) + OneIf(h \in Marked(p, b, s, a)) + OneIf(h \in Freed(p, b, s, a, r))
  <2> DEFINE g == OneIf(h \in Marked(p, b, s, a))
             x == Count(v.queue, Marked(p, b, s, a))
             y == Count(v.queue, Freed(p, b, s, a, r))
             z == Cardinality(v.serving \cap Marked(p, b, s, a))
             o1 == SentOpen(p, b, s, a, v.out)
             o2 == SentOpen(p, b, s, a, u.out)
             l == OneIf(h \in Freed(p, b, s, a, r))
  <2>1. OneIf(TRUE /\ k \in Marked(p, b, s, a)) = g  BY DEF OneIf
  <2>2. o2 = o1 + g
    <3>1. o2 = o1 + OneIf(TRUE /\ k \in Marked(p, b, s, a))
      BY ONLY <1>3 DEF o1, o2
    <3> QED BY ONLY <2>1, <3>1
  <2>3. x \in Nat /\ y \in Nat /\ z \in Nat /\ o1 \in Nat  BY OwingNat
  <2>4. l = 0 /\ g \in Nat  BY DEF Freed, Unpaid, OneIf
  <2>5. Owing(p, r, v, b, s, a) = x + y + z + o1 /\ Owing(p, r, u, b, s, a) = x + y + z + o2
    BY <1>5 DEF Owing
  <2> HIDE DEF g, x, y, z, o1, o2, l
  <2>6. Owing(p, r, u, b, s, a) = Owing(p, r, v, b, s, a) + g + l
    BY ONLY <2>2, <2>3, <2>4, <2>5
  <2> QED BY <2>6 DEF g, l
<1> QED BY <1>4, <1>6

LEMMA MovedSquares ==
  ASSUME NEW p, NEW r, NEW v, NEW h, NEW w, Moves(p, r, v, h, w), \A T : Count(v.out, T) = 0
  PROVE  Squared(p, r, v, <<h>>, w)
<1> SUFFICES ASSUME NEW b \in Balancers, NEW s \in ServersOf[b]
             PROVE  \E F \in SUBSET Keys :
               /\ IsFiniteSet(F)
               /\ Count(w.out, Freeing(b, s)) = Cardinality(F)
               /\ \A a \in Keys : Owing(p, r, w, b, s, a) + OneIf(a \in F)
                                    = Owing(p, r, v, b, s, a) + Count(<<h>>, Marked(p, b, s, a))
                                        + Count(<<h>>, Freed(p, b, s, a, r))
  BY DEF Squared
<1>1. PICK F \in SUBSET Keys :
        /\ IsFiniteSet(F)
        /\ Count(w.out, Freeing(b, s)) = Count(v.out, Freeing(b, s)) + Cardinality(F)
        /\ \A a \in Keys : Owing(p, r, w, b, s, a) + OneIf(a \in F)
                             = Owing(p, r, v, b, s, a) + OneIf(h \in Marked(p, b, s, a))
                                 + OneIf(h \in Freed(p, b, s, a, r))
  BY DEF Moves
<1>2. \A T : Count(<<h>>, T) = OneIf(h \in T)  BY CountOne
<1>3. Count(v.out, Freeing(b, s)) = 0 /\ Cardinality(F) \in Nat
  BY <1>1, FS_CardinalityType
<1> QED BY <1>1, <1>2, <1>3

(* The service of h has ended before it goes on. *)
LEMMA ServedSquares ==
  ASSUME NEW p, NEW r, NEW v, NEW h, h.kind = "upstream", NEW c \in State(p, r), c.out = v.out,
         \A b, s, a : Owing(p, r, c, b, s, a) + OneIf(h \in Marked(p, b, s, a)) = Owing(p, r, v, b, s, a),
         NEW w, Moves(p, r, c, h, w), \A T : Count(v.out, T) = 0
  PROVE  Squared(p, r, v, <<>>, w)
<1> SUFFICES ASSUME NEW b \in Balancers, NEW s \in ServersOf[b]
             PROVE  \E F \in SUBSET Keys :
               /\ IsFiniteSet(F)
               /\ Count(w.out, Freeing(b, s)) = Cardinality(F)
               /\ \A a \in Keys : Owing(p, r, w, b, s, a) + OneIf(a \in F)
                                    = Owing(p, r, v, b, s, a) + Count(<<>>, Marked(p, b, s, a))
                                        + Count(<<>>, Freed(p, b, s, a, r))
  BY DEF Squared
<1>1. PICK F \in SUBSET Keys :
        /\ IsFiniteSet(F)
        /\ Count(w.out, Freeing(b, s)) = Count(c.out, Freeing(b, s)) + Cardinality(F)
        /\ \A a \in Keys : Owing(p, r, w, b, s, a) + OneIf(a \in F)
                             = Owing(p, r, c, b, s, a) + OneIf(h \in Marked(p, b, s, a))
                                 + OneIf(h \in Freed(p, b, s, a, r))
  BY DEF Moves
<1>2. \A T : Count(<<>>, T) = 0  BY CountEmpty
<1>3. Count(c.out, Freeing(b, s)) = 0 /\ Cardinality(F) \in Nat
  BY <1>1, FS_CardinalityType
<1>4. ASSUME NEW a \in Keys
      PROVE  Owing(p, r, w, b, s, a) + OneIf(a \in F)
               = Owing(p, r, v, b, s, a) + Count(<<>>, Marked(p, b, s, a)) + Count(<<>>, Freed(p, b, s, a, r))
  <2>1. OneIf(h \in Freed(p, b, s, a, r)) = 0  BY DEF Freed, Unpaid, OneIf
  <2>2. Owing(p, r, w, b, s, a) + OneIf(a \in F)
          = Owing(p, r, c, b, s, a) + OneIf(h \in Marked(p, b, s, a)) + OneIf(h \in Freed(p, b, s, a, r))
    BY <1>1
  <2>3. Owing(p, r, c, b, s, a) + OneIf(h \in Marked(p, b, s, a)) = Owing(p, r, v, b, s, a)
    OBVIOUS
  <2>4. Owing(p, r, c, b, s, a) \in Nat /\ OneIf(h \in Marked(p, b, s, a)) \in Nat
    BY OwingNat DEF OneIf
  <2>5. Count(<<>>, Marked(p, b, s, a)) = 0 /\ Count(<<>>, Freed(p, b, s, a, r)) = 0
    BY <1>2
  <2> QED BY <2>1, <2>2, <2>3, <2>4, <2>5
<1> QED BY <1>1, <1>3, <1>4

-----------------------------------------------------------------------------
(* Queues in deadline order, and pulls *)

LEMMA EnqueueAdds ==
  ASSUME NEW S, NEW q \in Seq(S), NEW item \in S, NEW edf
  PROVE  Enqueued(S, q, item, Enqueue(q, item, edf))
<1> DEFINE I == {j \in 1 .. Len(q) : Deadline[q[j].req] > Deadline[item.req]}
           i == SelectInSeq(q, LAMBDA x : Deadline[x.req] > Deadline[item.req])
<1>1. i = IF I # {} THEN Min(I) ELSE 0  BY DEF SelectInSeq
<1>2. Enqueue(q, item, edf) = IF edf /\ i # 0 THEN InsertAt(q, i, item) ELSE Append(q, item)
  BY DEF Enqueue
<1>3. i # 0 => i \in DOMAIN q
  <2>1. CASE I # {}
    <3>1. I \in SUBSET Nat  OBVIOUS
    <3>2. Min(I) \in I  BY <2>1, <3>1, MinIsSmallest
    <3> HIDE DEF i
    <3>3. i \in I  BY <1>1, <2>1, <3>2
    <3> QED BY <3>3
  <2>2. CASE I = {}  BY <1>1, <2>2
  <2> QED BY <2>1, <2>2
<1> HIDE DEF i
<1>4. CASE edf /\ i # 0
  <2>1. i \in DOMAIN q  BY <1>3, <1>4
  <2>2. Enqueue(q, item, edf) = InsertAt(q, i, item)  BY <1>2, <1>4
  <2> QED BY <2>1, <2>2, CountInsertAt DEF Enqueued, OneIf
<1>5. CASE ~(edf /\ i # 0)
  <2>1. Enqueue(q, item, edf) = Append(q, item)  BY <1>2, <1>5
  <2>2. Append(q, item) \in Seq(S) /\ Len(Append(q, item)) = Len(q) + 1
    BY PushBack
  <2>3. \A T : Count(Append(q, item), T) = Count(q, T) + OneIf(item \in T)
    BY CountPushBack DEF OneIf
  <2> QED BY <2>1, <2>2, <2>3 DEF Enqueued
<1> QED BY <1>4, <1>5

LEMMA AskOnce ==
  ASSUME NEW p, NEW r, NEW v \in State(p, r), NEW b \in Balancers, NEW m \in Pulls(p, b),
         m.server = r
  PROVE  /\ Asks(p, r, v, Post(v, b, m), 1)
         /\ Posts(p, r, v, [to |-> b, msg |-> m], Post(v, b, m))
         /\ [to |-> b, msg |-> m] \in PullSends(p, r)
<1> DEFINE o == [to |-> b, msg |-> m]
           u == Post(v, b, m)
<1>1. b \in Places /\ m \in Mail(p, b) /\ m.kind = "pull"
  BY MailIs DEF Places, Pulls, Pull
<1>2. Posts(p, r, v, o, u)  BY <1>1, PostSends
<1>3. o \in PullSends(p, r)  BY <1>1, <1>2 DEF Posts, PullSends
<1>4. \A a : o \notin SentAbout(a)  BY <1>1 DEF SentAbout, About, HopsOf, Hop
<1> HIDE DEF o, u
<1>5. \A a : Count(u.out, SentAbout(a)) = Count(v.out, SentAbout(a))
  BY <1>2, <1>4 DEF Posts, OneIf
<1>6. Count(u.out, PullSends(p, r)) = Count(v.out, PullSends(p, r)) + 1
  BY <1>2, <1>3 DEF Posts, OneIf
<1>7. u \in State(p, r) /\ ButSends(v, u)  BY <1>2 DEF Posts
<1>8. \A a : Load(u, a) = Load(v, a)  BY <1>5, <1>7 DEF Load, ButSends
<1>9. Asks(p, r, v, u, 1)  BY <1>6, <1>7, <1>8 DEF Asks, ButSends
<1> QED BY <1>2, <1>3, <1>9 DEF u, o

LEMMA CentralPullIs ==
  ASSUME config \in Configs, policy \in CentralPullPolicies, NEW r \in PullTargets
  PROVE  /\ PullFrom(r) \in Balancers /\ PullFrom(r) \in Used[policy]
         /\ CentralPull(r) \in Pulls(policy, PullFrom(r)) /\ CentralPull(r).server = r
<1>1. ValidSharedSubset(policy) /\ policy \in Policies  BY PolicyIs
<1>2. r \in Replicas /\ PullFrom(r) \in Used[policy] /\ r \in ServersOf[PullFrom(r)]
  BY <1>1, PullsFrom DEF PullTargets
<1>3. PullFrom(r) \in Balancers  BY <1>1, <1>2, UsedAre
<1> QED BY <1>2, <1>3 DEF CentralPull, Pulls, Pull, PullPolicies

LEMMA JbsqPullsFill ==
  ASSUME config \in Configs, policy = "jbsq", NEW r \in PullTargets, NEW v \in State(policy, r),
         NEW most \in Nat
  PROVE  Filled(policy, r, v, JbsqPulls(v, r, most), most)
<1> DEFINE p == policy
           k == PullsUpTo(v, most)
           o == [to |-> PullFrom(r), msg |-> CentralPull(r)]
           s == [i \in 1 .. k |-> o]
           u == JbsqPulls(v, r, most)
<1>1. Short(v) \in Int
  <2>1. JbsqOccupancy(v) \in Nat
    <3>1. JbsqOccupancy(v) = v.in_flight + Count(v.queue, Upstreams)
      BY OccupancyIs
    <3>2. v.in_flight \in Nat /\ Count(v.queue, Upstreams) \in Nat  BY StateIs
    <3> QED BY <3>1, <3>2
  <2>2. v.pending_pulls \in Nat /\ JbsqN \in Nat
    BY StateIs, MicroservicesAssumption
  <2> QED BY <2>1, <2>2 DEF Short
<1>2. k = IF Short(v) <= 0 THEN 0 ELSE IF Short(v) < most THEN Short(v) ELSE most
  BY <1>1, UpToMost DEF PullsUpTo
<1>3. k \in Nat  BY <1>1, <1>2
<1>4. u = [v EXCEPT !.pending_pulls = v.pending_pulls + k, !.out = v.out \o s]
  BY DEF JbsqPulls, State, PullsUpTo, Short
<1>5. o \in PullSends(p, r)
  <2>1. p \in CentralPullPolicies  BY DEF CentralPullPolicies
  <2>2. /\ PullFrom(r) \in Balancers /\ CentralPull(r) \in Pulls(p, PullFrom(r)) /\ CentralPull(r).server = r
    BY <2>1, CentralPullIs
  <2> QED BY <2>2, AskOnce
<1> HIDE DEF k, o
<1>6. s \in Seq(PullSends(p, r)) /\ Len(s) = k /\ \A i \in DOMAIN s : s[i] = o
  BY <1>3, <1>5
<1>7. s \in Seq(OutSends(p, r))  BY <1>6 DEF PullSends
<1> HIDE DEF s, u
<1>8. v.out \in Seq(OutSends(p, r)) /\ v.pending_pulls \in Nat  BY StateIs
<1>9. \A T : Count(v.out \o s, T) = Count(v.out, T) + Count(s, T)
  BY <1>7, <1>8, CountConcat
<1>10. u \in State(p, r)
  <2>1. v.out \o s \in Seq(OutSends(p, r))  BY <1>7, <1>8, ConcatProperties
  <2>2. v.pending_pulls + k \in Nat  BY <1>3, <1>8
  <2> DEFINE f == v.out \o s
             c == v.pending_pulls + k
  <2> HIDE DEF f, c
  <2> QED BY <1>4, <2>1, <2>2 DEF State, f, c
<1>11. /\ u.queue = v.queue /\ u.in_flight = v.in_flight /\ u.serving = v.serving /\ u.warm = v.warm
       /\ u.pending_pulls = v.pending_pulls + k /\ u.pull_intents = v.pull_intents
       /\ u.out = v.out \o s
  BY <1>4 DEF State
<1>12. Count(s, PullSends(p, r)) = k  BY <1>6, CountAll
<1>13. ASSUME NEW a
       PROVE  Load(u, a) = Load(v, a)
  <2>1. o \notin SentAbout(a)
    BY <1>5 DEF PullSends, SentAbout, About, HopsOf, Hop
  <2>2. Count(s, SentAbout(a)) = 0  BY <1>6, <2>1, CountNone
  <2>3. Count(u.out, SentAbout(a)) = Count(v.out, SentAbout(a))
    <3>1. Count(v.out, SentAbout(a)) \in Nat  BY StateIs
    <3> QED BY <1>9, <1>11, <2>2, <3>1
  <2> QED BY <1>11, <2>3 DEF Load
<1>14. Asks(p, r, v, u, k)  BY <1>3, <1>9, <1>10, <1>11, <1>12, <1>13 DEF Asks
<1>15. Filled(p, r, v, u, most)  BY <1>1, <1>2, <1>11, <1>14 DEF Filled
<1> QED BY <1>15 DEF u

LEMMA DrainPullIntentsDraws ==
  ASSUME NEW p \in Policies, NEW r \in Replicas, NEW v \in State(p, r)
  PROVE  Drawn(p, r, v, DrainPullIntents(v, r))
<1> DEFINE u == DrainPullIntents(v, r)
           m == Head(v.pull_intents)
           t == Tail(v.pull_intents)
           k == v.pending_pulls + 1
           c == [v EXCEPT !.pending_pulls = k, !.pull_intents = t]
           x == [kind |-> "pull", server |-> r, req |-> m.req]
<1>1. v.pull_intents \in Seq(Intents(p, r)) /\ v.in_flight \in Nat /\ v.pending_pulls \in Nat
  BY StateIs
<1>2. CASE v.in_flight + v.pending_pulls >= MaxConcurrency \/ v.pull_intents = <<>>
  BY <1>2 DEF DrainPullIntents, Drawn
<1>3. CASE ~(v.in_flight + v.pending_pulls >= MaxConcurrency \/ v.pull_intents = <<>>)
  <2>1. u = Post(c, m.lb, x)  BY <1>3 DEF DrainPullIntents, State
  <2>2. m \in Intents(p, r) /\ t \in Seq(Intents(p, r))
    BY <1>1, <1>3, PopFront
  <2>3. \A T : Count(v.pull_intents, T) = Count(t, T) + OneIf(m \in T)
    BY <1>1, <1>3, CountPopFront DEF OneIf
  <2>4. Len(t) = Len(v.pull_intents) - 1  BY <1>1, <1>3
  <2>5. v.in_flight + v.pending_pulls < MaxConcurrency
    BY <1>1, <1>3, MicroservicesAssumption
  <2> DEFINE b == m.lb
  <2>6. /\ b \in Used[p] /\ b \in Balancers /\ r \in ServersOf[b] /\ p = "amphiqueue" /\ m.req \in Requests
        /\ m \in PullIntent
    <3>1. b \in Used[p] /\ r \in ServersOf[b] /\ p = "amphiqueue" /\ m \in PullIntent
      BY <2>2 DEF Intents
    <3> QED BY <3>1, UsedAre DEF PullIntent
  <2>7. x \in Pulls(p, b) /\ x.server = r /\ x.req = m.req
    BY <2>6 DEF Pulls, Pull, PullPolicies
  <2> HIDE DEF t, m, x, u
  <2>8. k \in Nat  BY <1>1
  <2> HIDE DEF k
  <2>9. c \in State(p, r)  BY <2>2, <2>8 DEF State
  <2>10. /\ c.queue = v.queue /\ c.in_flight = v.in_flight /\ c.serving = v.serving /\ c.warm = v.warm
         /\ c.out = v.out /\ c.pending_pulls = k /\ c.pull_intents = t
    BY DEF State
  <2> HIDE DEF c, b
  <2> DEFINE o == [to |-> b, msg |-> x]
  <2>11. Asks(p, r, c, u, 1) /\ Posts(p, r, c, o, u) /\ o \in PullSends(p, r)
    <3>1. u = Post(c, b, x)  BY <2>1 DEF b
    <3> QED BY <2>6, <2>7, <2>9, <3>1, AskOnce
  <2>12. \A d, Q : o \in AskTo(p, r, d, Q) <=> m \in Ann(d, Q)
    BY <2>6, <2>7, <2>11 DEF AskTo, Ann, b
  <2> HIDE DEF o
  <2>13. u.pull_intents = t /\ u.pending_pulls = k
    BY <2>10, <2>11 DEF Posts, ButSends
  <2>14. ASSUME NEW d, NEW Q
         PROVE  Announced(p, r, u, d, Q) = Announced(p, r, v, d, Q)
    <3>1. Count(u.out, AskTo(p, r, d, Q)) = Count(v.out, AskTo(p, r, d, Q)) + OneIf(o \in AskTo(p, r, d, Q))
      BY <2>10, <2>11 DEF Posts
    <3>2. Count(v.pull_intents, Ann(d, Q)) = Count(t, Ann(d, Q)) + OneIf(m \in Ann(d, Q))
      BY <2>3
    <3>3. OneIf(o \in AskTo(p, r, d, Q)) = OneIf(m \in Ann(d, Q)) /\ OneIf(m \in Ann(d, Q)) \in Nat
      BY <2>12 DEF OneIf
    <3>4. Count(t, Ann(d, Q)) \in Nat  BY <2>2, CountFinite
    <3>5. Count(v.out, AskTo(p, r, d, Q)) \in Nat  BY StateIs
    <3> QED BY <2>13, <3>1, <3>2, <3>3, <3>4, <3>5 DEF Announced
  <2>15. Asks(p, r, v, u, 1)
    <3>1. \A a : Load(c, a) = Load(v, a)  BY <2>10 DEF Load
    <3> QED BY <2>10, <2>11, <3>1 DEF Asks
  <2>16. Drawn(p, r, v, u)
    BY <1>3, <2>4, <2>5, <2>13, <2>14, <2>15 DEF Drawn, k
  <2> QED BY <2>16 DEF u
<1> QED BY <1>2, <1>3

-----------------------------------------------------------------------------
LEMMA PullNoPush ==
  /\ \A p \in PullPolicies : p \notin PushPolicies
  /\ \A p \in CentralPullPolicies : p \notin PushPolicies
  /\ "amphiqueue" \notin PushPolicies /\ "jbsq" \notin PushPolicies /\ "centralized" \notin PushPolicies
BY DEF PullPolicies, CentralPullPolicies, PushPolicies

LEMMA ReadyIs ==
  ASSUME NEW p, NEW r, NEW v, NEW in, Ready(p, r, v, in)
  PROVE  /\ v \in State(p, r) /\ v.out = <<>> /\ Exact(v) /\ Busy(v)
         /\ \A T : Count(v.out, T) = 0
BY CountEmpty DEF Ready

LEMMA Fresh ==
  ASSUME NEW p, NEW r, NEW v, NEW h \in Hopping, Ready(p, r, v, <<h>>)
  PROVE  h \notin v.serving
<1> DEFINE a == h.req
<1>1. a \in Requests /\ h \in About(a)  BY DEF Hopping, Hop, About, HopsOf
<1>2. Count(<<h>>, About(a)) = 1
  <2>1. Count(<<h>>, About(a)) = OneIf(h \in About(a))  BY CountOne
  <2> QED BY <1>1, <2>1 DEF OneIf
<1> HIDE DEF a
<1>3. Load(v, a) + Count(<<h>>, About(a)) <= 1 /\ v \in State(p, r)
  BY <1>1 DEF Ready
<1>4. /\ Count(v.queue, About(a)) \in Nat /\ Cardinality(v.serving \cap About(a)) \in Nat
      /\ Count(v.out, SentAbout(a)) \in Nat
  BY <1>3, StateIs
<1>5. Cardinality(v.serving \cap About(a)) = 0  BY <1>2, <1>3, <1>4 DEF Load
<1>6. IsFiniteSet(v.serving \cap About(a))
  <2>1. IsFiniteSet(v.serving)  BY <1>3, StateIs
  <2> QED BY <2>1, SetPart
<1>7. v.serving \cap About(a) = {}  BY <1>5, <1>6, FS_EmptySet
<1> QED BY <1>1, <1>7

(* A hop that is not counted among the intents *)
LEMMA HopIsNoIntent ==
  ASSUME NEW h \in Hop
  PROVE  \A b, Q : Count(<<h>>, Ann(b, Q)) = 0
<1>1. \A b, Q : h \notin Ann(b, Q)  BY DEF Ann, PullIntent, Hop
<1>2. \A T : Count(<<h>>, T) = OneIf(h \in T)  BY CountOne
<1> QED BY <1>1, <1>2 DEF OneIf

LEMMA DecIs ==
  ASSUME NEW n \in Nat
  PROVE  /\ SaturatingDec(n) \in Nat /\ SaturatingDec(n) <= n
         /\ n # 0 => SaturatingDec(n) + 1 = n
         /\ n <= SaturatingDec(n) + 1
BY DEF SaturatingDec

LEMMA StartPulledHandles ==
  ASSUME config \in Configs, NEW r \in Replicas, NEW h \in Work(policy, r), h.slot, ~UsesJbsq(r),
         NEW v, Ready(policy, r, v, <<h>>)
  PROVE  Done(policy, r, v, <<h>>,
              BeginService(IF policy = "amphiqueue"
                           THEN [v EXCEPT !.pending_pulls = SaturatingDec(@)] ELSE v, h))
<1> DEFINE p == policy
           d == IF p = "amphiqueue" THEN SaturatingDec(v.pending_pulls) ELSE v.pending_pulls
           c == IF p = "amphiqueue" THEN [v EXCEPT !.pending_pulls = SaturatingDec(@)] ELSE v
           w == BeginService(c, h)
           in == <<h>>
<1>1. v \in State(p, r) /\ v.out = <<>> /\ Exact(v) /\ Busy(v) /\ \A T : Count(v.out, T) = 0
  BY ReadyIs
<1>2. /\ h \in Hopping /\ h \in Hop /\ h.kind = "upstream" /\ r \in Serving[p] /\ p \in PullPolicies
      /\ p # "jbsq"
  BY DEF Work, Hopping, UsesJbsq, PullTargets
<1>3. /\ v.in_flight \in Nat /\ v.pending_pulls \in Nat /\ v.warm \in Nat
      /\ IsFiniteSet(v.serving)
  BY <1>1, StateIs
<1>4. d \in Nat  BY <1>3, DecIs
<1>5. c = [v EXCEPT !.pending_pulls = d]  BY <1>1 DEF State
<1> HIDE DEF d, c
<1>6. c \in State(p, r)  BY <1>1, <1>4, <1>5 DEF State
<1>7. /\ c.queue = v.queue /\ c.in_flight = v.in_flight /\ c.serving = v.serving /\ c.warm = v.warm
      /\ c.out = v.out /\ c.pending_pulls = d /\ c.pull_intents = v.pull_intents
  BY <1>1, <1>5 DEF State
<1>8. h \notin c.serving  BY <1>2, <1>7, Fresh
<1>9. Begun(p, r, c, h, w)  BY <1>2, <1>6, <1>8, BeginServiceBegins
<1> HIDE DEF w
<1>10. /\ w \in State(p, r) /\ w.queue = v.queue /\ w.pending_pulls = d /\ w.pull_intents = v.pull_intents
       /\ w.warm = v.warm /\ w.out = v.out /\ w.in_flight = v.in_flight + 1
       /\ Cardinality(w.serving) = Cardinality(v.serving) + 1
  BY <1>7, <1>9 DEF Begun
<1>11. ASSUME NEW a
       PROVE  Load(w, a) = Load(v, a) + Count(in, About(a))
  <2>1. Load(w, a) = Load(c, a) + OneIf(h \in About(a))  BY <1>9 DEF Begun
  <2>2. Load(c, a) = Load(v, a)  BY <1>7 DEF Load
  <2>3. Count(in, About(a)) = OneIf(h \in About(a))  BY CountOne
  <2> QED BY <2>1, <2>2, <2>3
<1>12. Exact(w) /\ Busy(w)
  <2>1. MaxConcurrency \in Nat  BY MicroservicesAssumption
  <2> QED BY <1>1, <1>3, <1>10, <2>1 DEF Exact, Busy
<1>13. ASSUME NEW b, NEW Q
       PROVE  Announced(p, r, w, b, Q) = Announced(p, r, v, b, Q) + Count(in, Ann(b, Q))
  <2>1. Count(in, Ann(b, Q)) = 0  BY <1>2, HopIsNoIntent
  <2>2. Announced(p, r, w, b, Q) = Announced(p, r, v, b, Q)
    BY <1>10 DEF Announced
  <2>3. Count(v.pull_intents, Ann(b, Q)) \in Nat /\ Count(v.out, AskTo(p, r, b, Q)) \in Nat
    BY <1>1, StateIs
  <2> QED BY <2>1, <2>2, <2>3 DEF Announced
<1>14. Handled(p, r, v, in, w)  BY <1>3, <1>10, <1>11, <1>12, <1>13 DEF Handled
<1>15. ASSUME NEW o1 \in Nat, NEW o2 \in Nat, Accounts(p, r, v, o1),
              o2 + Count(in, Pulled) = o1 + Count(w.out, PullSends(p, r))
       PROVE  Accounts(p, r, w, o2)
  <2>1. Count(in, Pulled) = 1
    <3>1. h \in Pulled  BY <1>2 DEF Pulled
    <3>2. Count(in, Pulled) = OneIf(h \in Pulled)  BY CountOne
    <3> QED BY <3>1, <3>2 DEF OneIf
  <2>2. Count(w.out, PullSends(p, r)) = 0  BY <1>1, <1>10
  <2>3. o2 + 1 = o1  BY <1>15, <2>1, <2>2
  <2>4. MaxConcurrency \in Nat  BY MicroservicesAssumption
  <2>5. CASE p = "centralized"
    <3>1. v.warm + o1 + v.in_flight = MaxConcurrency
      BY <1>2, <1>15, <2>5 DEF Accounts
    <3>2. w.warm + o2 + w.in_flight = MaxConcurrency /\ w.in_flight <= MaxConcurrency
      BY <1>3, <1>10, <2>3, <2>4, <3>1
    <3> QED BY <2>5, <3>2 DEF Accounts
  <2>6. CASE p = "amphiqueue"
    <3>1. /\ v.pending_pulls = o1 /\ v.in_flight + v.pending_pulls <= MaxConcurrency
          /\ v.pull_intents # <<>> => v.in_flight + v.pending_pulls >= MaxConcurrency
      BY <1>2, <1>15, <2>6 DEF Accounts
    <3>2. w.pending_pulls + 1 = v.pending_pulls
      BY <1>3, <1>10, <2>3, <2>6, <3>1, DecIs DEF d
    <3>3. /\ w.pending_pulls = o2 /\ w.in_flight + w.pending_pulls <= MaxConcurrency
          /\ w.in_flight <= MaxConcurrency
          /\ w.pull_intents # <<>> => w.in_flight + w.pending_pulls >= MaxConcurrency
      <4>1. w.pending_pulls \in Nat  BY <1>10, StateIs
      <4> QED BY <1>3, <1>10, <2>3, <2>4, <3>1, <3>2, <4>1
    <3> QED BY <2>6, <3>3 DEF Accounts
  <2> QED BY <1>2, <2>5, <2>6 DEF PullPolicies, CentralPullPolicies
<1>16. Done(p, r, v, in, w)  BY <1>2, <1>14, <1>15, PullNoPush DEF Done, Keeps
<1> QED BY <1>16 DEF w, c

LEMMA QueuedNotServed ==
  ASSUME NEW p, NEW r, NEW v \in State(p, r), \A a \in Requests : Load(v, a) <= 1
  PROVE  \A i \in DOMAIN v.queue : v.queue[i] \notin v.serving
<1> SUFFICES ASSUME NEW i \in DOMAIN v.queue, v.queue[i] \in v.serving
             PROVE  FALSE
  OBVIOUS
<1> DEFINE h == v.queue[i]
           a == h.req
<1>1. v.queue \in Seq(Queued(p, r)) /\ IsFiniteSet(v.serving)  BY StateIs
<1>2. h \in Hop  BY <1>1 DEF Queued, Work, Hopping
<1>3. a \in Requests /\ h \in About(a)  BY <1>2 DEF Hop, About, HopsOf
<1>4. Count(v.queue, About(a)) # 0  BY <1>1, <1>3, CountSome
<1>5. Cardinality(v.serving \cap About(a)) # 0
  <2>1. IsFiniteSet(v.serving \cap About(a))  BY <1>1, SetPart
  <2>2. h \in v.serving \cap About(a)  BY <1>3
  <2> QED BY <2>1, <2>2, FS_EmptySet
<1> HIDE DEF a
<1>6. /\ Count(v.queue, About(a)) \in Nat /\ Cardinality(v.serving \cap About(a)) \in Nat
      /\ Count(v.out, SentAbout(a)) \in Nat
  BY StateIs
<1>7. Load(v, a) <= 1  BY <1>3
<1> QED BY <1>4, <1>5, <1>6, <1>7 DEF Load

LEMMA Joins ==
  ASSUME config \in Configs, NEW r \in Replicas, NEW h \in Queued(policy, r),
         NEW v, Ready(policy, r, v, <<h>>), NEW d \in Nat, NEW e
  PROVE  Joined(policy, r, v, h, d,
                DrainQueue([v EXCEPT !.pending_pulls = d, !.queue = Enqueue(@, h, e)], r))
<1> DEFINE p == policy
           q == Enqueue(v.queue, h, e)
           c == [v EXCEPT !.pending_pulls = d, !.queue = q]
           w == DrainQueue(c, r)
<1>1. v \in State(p, r) /\ v.out = <<>> /\ Exact(v) /\ Busy(v) /\ \A T : Count(v.out, T) = 0
  BY ReadyIs
<1>2. [v EXCEPT !.pending_pulls = d, !.queue = Enqueue(@, h, e)] = c
  BY <1>1 DEF State
<1>3. /\ v.queue \in Seq(Queued(p, r)) /\ v.in_flight \in Nat /\ IsFiniteSet(v.serving)
  BY <1>1, StateIs
<1>4. Enqueued(Queued(p, r), v.queue, h, q)  BY <1>3, EnqueueAdds
<1> HIDE DEF q
<1>5. /\ q \in Seq(Queued(p, r)) /\ Len(q) = Len(v.queue) + 1
      /\ \A T : Count(q, T) = Count(v.queue, T) + OneIf(h \in T)
  BY <1>4 DEF Enqueued
<1>6. c \in State(p, r)  BY <1>1, <1>5 DEF State
<1>7. /\ c.queue = q /\ c.in_flight = v.in_flight /\ c.serving = v.serving /\ c.warm = v.warm
      /\ c.out = v.out /\ c.pending_pulls = d /\ c.pull_intents = v.pull_intents
  BY <1>1 DEF State
<1> HIDE DEF c
<1>8. ASSUME NEW a
      PROVE  Load(c, a) = Load(v, a) + Count(<<h>>, About(a))
  <2>1. Count(<<h>>, About(a)) = OneIf(h \in About(a))  BY CountOne
  <2>2. /\ Count(v.queue, About(a)) \in Nat /\ Cardinality(v.serving \cap About(a)) \in Nat
        /\ Count(v.out, SentAbout(a)) \in Nat
    BY <1>1, StateIs
  <2>3. OneIf(h \in About(a)) \in Nat  BY DEF OneIf
  <2> QED BY <1>5, <1>7, <2>1, <2>2, <2>3 DEF Load
<1>18. \A a \in Requests : Load(c, a) <= 1  BY <1>8 DEF Ready
<1>9. \A i \in DOMAIN c.queue : c.queue[i] \notin c.serving
  BY <1>6, <1>18, QueuedNotServed
<1>10. Drained(p, r, c, w)  BY <1>6, <1>9, DrainQueueDrains
<1> HIDE DEF w
<1>11. /\ w \in State(p, r) /\ w.pending_pulls = d /\ w.pull_intents = v.pull_intents /\ w.warm = v.warm
       /\ w.in_flight = v.in_flight \/ (w.in_flight = v.in_flight + 1 /\ w.in_flight <= MaxConcurrency)
  BY <1>7, <1>10 DEF Drained
<1>12. \A T \in SUBSET PullSends(p, r) : Count(w.out, T) = 0
  BY <1>1, <1>7, <1>10 DEF Drained
<1>13. \A a : Load(w, a) = Load(v, a) + Count(<<h>>, About(a))
  BY <1>8, <1>10 DEF Drained
<1>14. Exact(w)
  <2>1. w.in_flight + Cardinality(v.serving) = v.in_flight + Cardinality(w.serving)
    BY <1>7, <1>10 DEF Drained
  <2>2. w.in_flight \in Nat /\ Cardinality(w.serving) \in Nat /\ Cardinality(v.serving) \in Nat
    BY <1>1, <1>11, StateIs, FS_CardinalityType
  <2> QED BY <1>1, <1>3, <2>1, <2>2 DEF Exact
<1>15. Busy(w)
  <2>1. (c.in_flight + 1 >= MaxConcurrency \/ Len(c.queue) <= 1) /\ w.queue # <<>>
          => w.in_flight >= MaxConcurrency
    BY <1>10 DEF Drained
  <2>2. MaxConcurrency \in Nat  BY MicroservicesAssumption
  <2>3. CASE v.queue = <<>>
    <3>1. Len(c.queue) <= 1
      <4>1. Len(v.queue) = 0  BY <2>3
      <4>2. Len(q) = Len(v.queue) + 1 /\ c.queue = q  BY <1>5, <1>7
      <4>3. Len(q) = 1  BY ONLY <4>1, <4>2
      <4>4. Len(c.queue) = 1  BY ONLY <4>2, <4>3, Zenon
      <4> QED BY ONLY <4>4
    <3> QED BY <2>1, <3>1 DEF Busy
  <2>4. CASE v.queue # <<>>
    <3>1. v.in_flight >= MaxConcurrency  BY <1>1, <2>4 DEF Busy
    <3>2. c.in_flight + 1 >= MaxConcurrency  BY <1>3, <1>7, <2>2, <3>1
    <3> QED BY <2>1, <3>2 DEF Busy
  <2> QED BY <2>3, <2>4
<1>16. JbsqOccupancy(w) = JbsqOccupancy(v) + OneIf(h \in Upstreams)
  <2>1. /\ JbsqOccupancy(w) = w.in_flight + Count(w.queue, Upstreams)
        /\ JbsqOccupancy(v) = v.in_flight + Count(v.queue, Upstreams)
    BY <1>1, <1>11, OccupancyIs
  <2>2. w.in_flight + Count(w.queue, Upstreams) = v.in_flight + Count(q, Upstreams)
    BY <1>7, <1>10 DEF Drained
  <2>3. Count(v.queue, Upstreams) \in Nat /\ OneIf(h \in Upstreams) \in Nat
    BY <1>1, StateIs DEF OneIf
  <2> QED BY <1>3, <1>5, <2>1, <2>2, <2>3
<1>19. Moves(p, r, v, h, w)
  <2>1. Clears(p, r, c, w)  BY <1>6, <1>10, <1>18, PaysClears DEF Drained
  <2>2. Takes(p, r, v, h, c)  BY <1>1, <1>5, <1>7, QueuedTakes
  <2> QED BY <2>1, <2>2, TakesThenClears
<1>17. Joined(p, r, v, h, d, w)
  BY <1>11, <1>12, <1>13, <1>14, <1>15, <1>16, <1>19 DEF Joined
<1> QED BY <1>2, <1>17 DEF w

(* Under centralized and amphiqueue no call waits in the queue of a replica that pulls. *)
LEMMA NoCallQueued ==
  ASSUME EntriesApart, NEW p \in PullPolicies, p # "jbsq", NEW r \in Serving[p], NEW v \in State(p, r)
  PROVE  JbsqOccupancy(v) = v.in_flight
<1>1. v.queue \in Seq(Queued(p, r)) /\ v.in_flight \in Nat  BY StateIs
<1>2. \A i \in DOMAIN v.queue : v.queue[i] \notin Upstreams
  <2> TAKE i \in DOMAIN v.queue
  <2>1. v.queue[i] \in Queued(p, r)  BY <1>1
  <2> QED BY <2>1 DEF Queued, Work, Upstreams
<1>3. Count(v.queue, Upstreams) = 0  BY <1>2, CountNone
<1>4. JbsqOccupancy(v) = v.in_flight + Count(v.queue, Upstreams)
  BY OccupancyIs
<1> QED BY <1>1, <1>3, <1>4

LEMMA EnqueuePulledHandles ==
  ASSUME config \in Configs, NEW r \in Replicas, NEW h \in Work(policy, r), h.slot, UsesJbsq(r),
         NEW v, Ready(policy, r, v, <<h>>), NEW e
  PROVE  Done(policy, r, v, <<h>>,
              DrainQueue([v EXCEPT !.pending_pulls = SaturatingDec(@), !.queue = Enqueue(@, h, e)], r))
<1> DEFINE p == policy
           d == SaturatingDec(v.pending_pulls)
           w == DrainQueue([v EXCEPT !.pending_pulls = d, !.queue = Enqueue(@, h, e)], r)
           in == <<h>>
<1>1. v \in State(p, r) /\ v.out = <<>> /\ Exact(v) /\ Busy(v) /\ \A T : Count(v.out, T) = 0
  BY ReadyIs
<1>2. /\ h \in Hop /\ h.kind = "upstream" /\ r \in Serving[p] /\ p = "jbsq" /\ h \in Queued(p, r)
      /\ h \in Upstreams /\ h \in Pulled
  BY DEF Work, Hopping, UsesJbsq, PullTargets, Queued, Upstreams, Pulled
<1>3. /\ v.in_flight \in Nat /\ v.pending_pulls \in Nat /\ v.warm \in Nat /\ d \in Nat
  BY <1>1, StateIs, DecIs
<1>4. [v EXCEPT !.pending_pulls = SaturatingDec(@), !.queue = Enqueue(@, h, e)]
        = [v EXCEPT !.pending_pulls = d, !.queue = Enqueue(@, h, e)]
  BY <1>1 DEF State
<1> HIDE DEF d
<1>5. Joined(p, r, v, h, d, w)  BY <1>2, <1>3, Joins
<1> HIDE DEF w
<1>6. Handled(p, r, v, in, w)  BY <1>2, <1>3, <1>5 DEF Handled, Joined
<1>7. ASSUME NEW o1 \in Nat, NEW o2 \in Nat, Accounts(p, r, v, o1),
             o2 + Count(in, Pulled) = o1 + Count(w.out, PullSends(p, r))
      PROVE  Accounts(p, r, w, o2)
  <2>1. Count(in, Pulled) = 1
    <3>1. Count(in, Pulled) = OneIf(h \in Pulled)  BY CountOne
    <3> QED BY <1>2, <3>1 DEF OneIf
  <2>2. Count(w.out, PullSends(p, r)) = 0  BY <1>5 DEF Joined
  <2>3. o2 + 1 = o1  BY <1>7, <2>1, <2>2
  <2>4. v.in_flight <= MaxConcurrency /\ v.pending_pulls = o1 /\ Short(v) >= 0 /\ v.warm >= Short(v)
    BY <1>2, <1>7 DEF Accounts
  <2>5. d + 1 = v.pending_pulls  BY <1>3, <2>3, <2>4, DecIs DEF d
  <2>6. JbsqOccupancy(w) = JbsqOccupancy(v) + 1
    BY <1>2, <1>5 DEF Joined, OneIf
  <2>7. w.pending_pulls = d /\ w.warm = v.warm
        /\ (w.in_flight = v.in_flight \/ w.in_flight <= MaxConcurrency)
    BY <1>5 DEF Joined
  <2>8. JbsqOccupancy(v) \in Nat /\ JbsqN \in Nat
    <3>1. JbsqOccupancy(v) = v.in_flight + Count(v.queue, Upstreams) /\ Count(v.queue, Upstreams) \in Nat
      BY <1>1, OccupancyIs, StateIs
    <3> QED BY <1>3, <3>1, MicroservicesAssumption
  <2>9. Short(w) = Short(v)  BY <1>3, <2>5, <2>6, <2>7, <2>8 DEF Short
  <2>10. w.in_flight <= MaxConcurrency /\ w.pending_pulls = o2
    BY <1>3, <2>3, <2>4, <2>5, <2>7
  <2> QED BY <1>2, <2>4, <2>7, <2>9, <2>10 DEF Accounts
<1>8. Done(p, r, v, in, w)  BY <1>2, <1>6, <1>7, PullNoPush DEF Done, Keeps
<1> QED BY <1>4, <1>8 DEF w

LEMMA EnqueueWorkHandles ==
  ASSUME config \in Configs, NEW r \in Replicas, NEW h \in Work(policy, r), ~h.slot,
         NEW v, Ready(policy, r, v, <<h>>), NEW e
  PROVE  Done(policy, r, v, <<h>>, DrainQueue([v EXCEPT !.queue = Enqueue(@, h, e)], r))
<1> DEFINE p == policy
           d == v.pending_pulls
           w == DrainQueue([v EXCEPT !.pending_pulls = d, !.queue = Enqueue(@, h, e)], r)
           in == <<h>>
<1>1. v \in State(p, r) /\ v.out = <<>> /\ Exact(v) /\ Busy(v) /\ \A T : Count(v.out, T) = 0
  BY ReadyIs
<1>2. h \in Hop /\ h \in Queued(p, r) /\ h \notin Pulled
  BY DEF Work, Hopping, Queued, Pulled
<1>3. v.in_flight \in Nat /\ v.pending_pulls \in Nat /\ v.warm \in Nat /\ d \in Nat
  BY <1>1, StateIs
<1>4. [v EXCEPT !.queue = Enqueue(@, h, e)]
        = [v EXCEPT !.pending_pulls = d, !.queue = Enqueue(@, h, e)]
  BY <1>1 DEF State
<1>5. Joined(p, r, v, h, d, w)  BY <1>2, <1>3, Joins
<1> HIDE DEF w, d
<1>6. Handled(p, r, v, in, w)
  <2>1. ASSUME p = "amphiqueue", NEW b, NEW Q
        PROVE  Announced(p, r, w, b, Q) = Announced(p, r, v, b, Q) + Count(in, Ann(b, Q))
    <3>1. Count(in, Ann(b, Q)) = 0  BY <1>2, HopIsNoIntent
    <3>2. AskTo(p, r, b, Q) \in SUBSET PullSends(p, r)  BY DEF AskTo
    <3>3. Count(w.out, AskTo(p, r, b, Q)) = 0 /\ w.pull_intents = v.pull_intents
      BY <1>5, <3>2 DEF Joined
    <3>4. Count(v.out, AskTo(p, r, b, Q)) = 0  BY <1>1
    <3>5. Count(v.pull_intents, Ann(b, Q)) \in Nat  BY <1>1, StateIs
    <3> QED BY <3>1, <3>3, <3>4, <3>5 DEF Announced
  <2> QED BY <1>3, <1>5, <2>1 DEF Handled, Joined
<1>7. ASSUME EntriesApart, NEW o1 \in Nat, NEW o2 \in Nat, Accounts(p, r, v, o1),
             o2 + Count(in, Pulled) = o1 + Count(w.out, PullSends(p, r))
      PROVE  Accounts(p, r, w, o2)
  <2>1. Count(in, Pulled) = 0
    <3>1. Count(in, Pulled) = OneIf(h \in Pulled)  BY CountOne
    <3> QED BY <1>2, <3>1 DEF OneIf
  <2>2. Count(w.out, PullSends(p, r)) = 0  BY <1>5 DEF Joined
  <2>3. o2 = o1  BY <1>7, <2>1, <2>2
  <2>4. w.in_flight <= MaxConcurrency  BY <1>5, <1>7 DEF Accounts, Joined
  <2>5. w.pending_pulls = v.pending_pulls /\ w.warm = v.warm /\ w.pull_intents = v.pull_intents
    BY <1>5 DEF Joined, d
  <2>6. ASSUME r \in Serving[p], p \in PullPolicies
        PROVE  JbsqOccupancy(w) = JbsqOccupancy(v)
    <3>1. h \notin Upstreams  BY <1>7, <2>6 DEF Work, Upstreams
    <3>2. JbsqOccupancy(v) \in Nat
      <4>1. JbsqOccupancy(v) = v.in_flight + Count(v.queue, Upstreams) /\ Count(v.queue, Upstreams) \in Nat
        BY <1>1, OccupancyIs, StateIs
      <4> QED BY <1>3, <4>1
    <3> QED BY <1>5, <3>1, <3>2 DEF Joined, OneIf
  <2>7. ASSUME r \in Serving[p], p \in PullPolicies, p # "jbsq"
        PROVE  w.in_flight = v.in_flight
    <3>1. JbsqOccupancy(w) = w.in_flight /\ JbsqOccupancy(v) = v.in_flight
      <4>1. w \in State(p, r)  BY <1>5 DEF Joined
      <4> QED BY <1>1, <1>7, <2>7, <4>1, NoCallQueued
    <3> QED BY <2>6, <2>7, <3>1
  <2>8. ASSUME r \in Serving[p], p = "jbsq"
        PROVE  Short(w) = Short(v)
    BY <2>5, <2>6, <2>8 DEF Short, PullPolicies, CentralPullPolicies
  <2> QED
    BY <1>7, <2>3, <2>4, <2>5, <2>7, <2>8 DEF Accounts, PullPolicies, CentralPullPolicies
<1>9. Squared(p, r, v, in, w)
  <2>1. Moves(p, r, v, h, w)  BY <1>5 DEF Joined
  <2> QED BY <1>1, <2>1, MovedSquares
<1>8. Done(p, r, v, in, w)  BY <1>6, <1>7, <1>9 DEF Done, Keeps
<1> QED BY <1>4, <1>8 DEF w

LEMMA ReceivePullIntentHandles ==
  ASSUME config \in Configs, NEW r \in Replicas, NEW m \in Intents(policy, r),
         NEW v, Ready(policy, r, v, <<m>>), NEW e
  PROVE  Done(policy, r, v, <<m>>,
              DrainPullIntents([v EXCEPT !.pull_intents = Enqueue(@, m, e)], r))
<1> DEFINE p == policy
           q == Enqueue(v.pull_intents, m, e)
           c == [v EXCEPT !.pull_intents = q]
           w == DrainPullIntents(c, r)
           in == <<m>>
<1>1. v \in State(p, r) /\ v.out = <<>> /\ Exact(v) /\ Busy(v) /\ \A T : Count(v.out, T) = 0
  BY ReadyIs
<1>2. /\ m \in PullIntent /\ p = "amphiqueue" /\ p \in Policies
      /\ r \in Serving[p]
  <2>1. p \in Policies  BY PolicyIs
  <2>2. m \in PullIntent /\ p = "amphiqueue" /\ m.lb \in Used[p] /\ r \in ServersOf[m.lb]
    BY DEF Intents
  <2> QED BY <2>1, <2>2, UsedAre
<1>3. /\ v.pull_intents \in Seq(Intents(p, r)) /\ v.in_flight \in Nat /\ v.pending_pulls \in Nat
      /\ v.warm \in Nat
  BY <1>1, StateIs
<1>4. [v EXCEPT !.pull_intents = Enqueue(@, m, e)] = c  BY <1>1 DEF State
<1>5. Enqueued(Intents(p, r), v.pull_intents, m, q)  BY <1>3, EnqueueAdds
<1> HIDE DEF q
<1>6. /\ q \in Seq(Intents(p, r)) /\ Len(q) = Len(v.pull_intents) + 1
      /\ \A T : Count(q, T) = Count(v.pull_intents, T) + OneIf(m \in T)
  BY <1>5 DEF Enqueued
<1>7. c \in State(p, r)  BY <1>1, <1>6 DEF State
<1>8. /\ c.queue = v.queue /\ c.in_flight = v.in_flight /\ c.serving = v.serving /\ c.warm = v.warm
      /\ c.out = v.out /\ c.pending_pulls = v.pending_pulls /\ c.pull_intents = q
  BY <1>1 DEF State
<1> HIDE DEF c
<1>9. Drawn(p, r, c, w)  BY <1>2, <1>7, DrainPullIntentsDraws
<1> HIDE DEF w
<1>10. /\ w \in State(p, r) /\ w.queue = v.queue /\ w.in_flight = v.in_flight
       /\ w.serving = v.serving /\ w.warm = v.warm
       /\ \A a : Load(w, a) = Load(c, a)
       /\ \A b, Q : Announced(p, r, w, b, Q) = Announced(p, r, c, b, Q)
  BY <1>7, <1>8, <1>9 DEF Drawn, Asks
<1>11. ASSUME NEW a
       PROVE  Load(w, a) = Load(v, a) + Count(in, About(a))
  <2>1. m \notin About(a)  BY <1>2 DEF PullIntent, About, HopsOf, Hop
  <2>2. Count(in, About(a)) = 0  BY <2>1, CountOne DEF OneIf
  <2>3. Load(c, a) = Load(v, a)  BY <1>8 DEF Load
  <2>4. Load(v, a) \in Nat
    <3>1. /\ Count(v.queue, About(a)) \in Nat /\ Cardinality(v.serving \cap About(a)) \in Nat
          /\ Count(v.out, SentAbout(a)) \in Nat
      BY <1>1, StateIs
    <3> QED BY <3>1 DEF Load
  <2> QED BY <1>10, <2>2, <2>3, <2>4
<1>12. Exact(w) /\ Busy(w)  BY <1>1, <1>10 DEF Exact, Busy
<1>13. ASSUME NEW b, NEW Q
       PROVE  Announced(p, r, w, b, Q) = Announced(p, r, v, b, Q) + Count(in, Ann(b, Q))
  <2>1. Count(in, Ann(b, Q)) = OneIf(m \in Ann(b, Q))  BY CountOne
  <2>2. Announced(p, r, w, b, Q) = Announced(p, r, c, b, Q)  BY <1>10
  <2>3. Count(v.pull_intents, Ann(b, Q)) \in Nat /\ Count(v.out, AskTo(p, r, b, Q)) \in Nat
    BY <1>1, StateIs
  <2>4. Count(q, Ann(b, Q)) = Count(v.pull_intents, Ann(b, Q)) + OneIf(m \in Ann(b, Q))
    BY <1>6
  <2>5. OneIf(m \in Ann(b, Q)) \in Nat  BY DEF OneIf
  <2> QED BY <1>8, <2>1, <2>2, <2>3, <2>4, <2>5 DEF Announced
<1>14. Handled(p, r, v, in, w)  BY <1>3, <1>10, <1>11, <1>12, <1>13 DEF Handled
<1>15. ASSUME NEW o1 \in Nat, NEW o2 \in Nat, Accounts(p, r, v, o1),
              o2 + Count(in, Pulled) = o1 + Count(w.out, PullSends(p, r))
       PROVE  Accounts(p, r, w, o2)
  <2>1. Count(in, Pulled) = 0
    <3>1. m \notin Pulled  BY <1>2 DEF Pulled, PullIntent, Hop
    <3>2. Count(in, Pulled) = OneIf(m \in Pulled)  BY CountOne
    <3> QED BY <3>1, <3>2 DEF OneIf
  <2>2. /\ v.in_flight <= MaxConcurrency /\ v.pending_pulls = o1
        /\ v.in_flight + v.pending_pulls <= MaxConcurrency
        /\ v.pull_intents # <<>> => v.in_flight + v.pending_pulls >= MaxConcurrency
    BY <1>2, <1>15 DEF Accounts
  <2>3. MaxConcurrency \in Nat  BY MicroservicesAssumption
  <2>4. CASE w = c /\ (c.in_flight + c.pending_pulls >= MaxConcurrency \/ c.pull_intents = <<>>)
    <3>1. Count(w.out, PullSends(p, r)) = 0  BY <1>1, <1>8, <2>4
    <3>2. o2 = o1  BY <1>15, <2>1, <3>1
    <3> QED BY <1>2, <1>8, <2>2, <2>4, <3>2 DEF Accounts
  <2>5. CASE /\ c.in_flight + c.pending_pulls < MaxConcurrency
             /\ Asks(p, r, c, w, 1) /\ w.pending_pulls = c.pending_pulls + 1
             /\ Len(w.pull_intents) = Len(c.pull_intents) - 1
    <3>1. Count(w.out, PullSends(p, r)) = 1  BY <1>1, <1>8, <2>5 DEF Asks
    <3>2. o2 = o1 + 1  BY <1>15, <2>1, <3>1
    <3>3. v.pull_intents = <<>>  BY <1>3, <1>8, <2>2, <2>3, <2>5
    <3>4. w.pull_intents = <<>>
      <4>1. Len(v.pull_intents) = 0  BY <3>3
      <4>2. Len(w.pull_intents) = 0  BY <1>6, <1>8, <2>5, <4>1
      <4>3. w.pull_intents \in Seq(Intents(p, r))  BY <1>10, StateIs
      <4> QED BY <4>2, <4>3
    <3>5. /\ w.in_flight <= MaxConcurrency /\ w.pending_pulls = o2
          /\ w.in_flight + w.pending_pulls <= MaxConcurrency
      BY <1>3, <1>8, <1>10, <2>2, <2>3, <2>5, <3>2
    <3> QED BY <1>2, <3>4, <3>5 DEF Accounts
  <2> QED BY <1>9, <2>4, <2>5 DEF Drawn
<1>16. Done(p, r, v, in, w)  BY <1>2, <1>14, <1>15, PullNoPush DEF Done, Keeps
<1> QED BY <1>4, <1>16 DEF w

LEMMA LoadIs ==
  ASSUME NEW p, NEW r, NEW v \in State(p, r), NEW a
  PROVE  Load(v, a) \in Nat
<1>1. /\ Count(v.queue, About(a)) \in Nat /\ Cardinality(v.serving \cap About(a)) \in Nat
      /\ Count(v.out, SentAbout(a)) \in Nat
  BY StateIs
<1> QED BY <1>1 DEF Load

LEMMA RequestPullHandles ==
  ASSUME config \in Configs, NEW r \in Replicas, NEW v, Ready(policy, r, v, <<>>),
         v.warm > 0, Warms(policy, r, v)
  PROVE  Done(policy, r, v, <<>>, RequestPullState(v, r))
<1> DEFINE p == policy
           k == v.warm - 1
           u == [v EXCEPT !.warm = k]
           w == RequestPullState(v, r)
<1>1. v \in State(p, r) /\ v.out = <<>> /\ Exact(v) /\ Busy(v) /\ \A T : Count(v.out, T) = 0
  BY ReadyIs
<1>2. r \in Serving[p] /\ r \in PullTargets /\ p \in CentralPullPolicies /\ p # "amphiqueue"
  BY DEF Warms, PullTargets, CentralPullPolicies
<1>3. v.in_flight \in Nat /\ v.pending_pulls \in Nat /\ v.warm \in Nat /\ k \in Nat
  BY <1>1, StateIs
<1>4. w = IF UsesJbsq(r) THEN JbsqPulls(u, r, 1)
          ELSE IF v.in_flight < MaxConcurrency THEN Post(u, PullFrom(r), CentralPull(r)) ELSE u
  BY <1>1 DEF RequestPullState, State
<1> HIDE DEF k
<1>5. u \in State(p, r)  BY <1>1, <1>3 DEF State
<1>6. /\ u.queue = v.queue /\ u.in_flight = v.in_flight /\ u.serving = v.serving /\ u.warm = k
      /\ u.out = v.out /\ u.pending_pulls = v.pending_pulls /\ u.pull_intents = v.pull_intents
  BY <1>1 DEF State
<1> HIDE DEF u, w
<1>7. \A a : Load(u, a) = Load(v, a)  BY <1>6 DEF Load
<1>8. \A a : Load(v, a) + Count(<<>>, About(a)) = Load(v, a)
  <2> TAKE a
  <2>1. Count(<<>>, About(a)) = 0  BY CountNoMessage
  <2>2. Load(v, a) \in Nat  BY <1>1, LoadIs
  <2> QED BY <2>1, <2>2
<1>9. ASSUME NEW j, Asks(p, r, u, w, j)
      PROVE  Handled(p, r, v, <<>>, w)
  <2>1. /\ w \in State(p, r) /\ w.queue = v.queue /\ w.in_flight = v.in_flight
        /\ w.serving = v.serving /\ w.warm = k
        /\ \A a : Load(w, a) = Load(v, a)
    BY <1>6, <1>7, <1>9 DEF Asks
  <2>2. Exact(w) /\ Busy(w)  BY <1>1, <2>1 DEF Exact, Busy
  <2>3. w.warm <= v.warm  BY <1>3, <2>1 DEF k
  <2> QED BY <1>2, <1>8, <2>1, <2>2, <2>3 DEF Handled
<1>10. ASSUME p = "jbsq"
       PROVE  Done(p, r, v, <<>>, w)
  <2>1. w = JbsqPulls(u, r, 1)  BY <1>2, <1>4, <1>10 DEF UsesJbsq
  <2>2. Filled(p, r, u, w, 1)  BY <1>2, <1>5, <1>10, <2>1, JbsqPullsFill
  <2> DEFINE j == IF Short(u) <= 0 THEN 0 ELSE IF Short(u) < 1 THEN Short(u) ELSE 1
  <2>3. Asks(p, r, u, w, j) /\ w.pending_pulls = u.pending_pulls + j /\ Short(u) \in Int
    BY <2>2 DEF Filled
  <2>4. j = IF Short(u) <= 0 THEN 0 ELSE 1  BY <2>3
  <2> HIDE DEF j
  <2>5. Short(u) = Short(v)  BY <1>6 DEF Short, JbsqOccupancy
  <2>6. Short(w) = Short(u) - j
    <3>1. JbsqOccupancy(w) = JbsqOccupancy(u)  BY <2>3 DEF Asks, JbsqOccupancy
    <3>2. JbsqOccupancy(u) \in Nat
      <4>1. JbsqOccupancy(u) = u.in_flight + Count(u.queue, Upstreams) /\ Count(u.queue, Upstreams) \in Nat
        BY <1>5, OccupancyIs, StateIs
      <4> QED BY <1>3, <1>6, <4>1
    <3>3. j \in Nat /\ u.pending_pulls \in Nat /\ JbsqN \in Nat
      BY <1>3, <1>6, <2>3, MicroservicesAssumption DEF Asks
    <3> QED BY <2>3, <3>1, <3>2, <3>3 DEF Short
  <2>7. ASSUME NEW o1 \in Nat, NEW o2 \in Nat, Accounts(p, r, v, o1),
               o2 + Count(<<>>, Pulled) = o1 + Count(w.out, PullSends(p, r))
        PROVE  Accounts(p, r, w, o2)
    <3>1. Count(<<>>, Pulled) = 0  BY CountNoMessage
    <3>2. Count(w.out, PullSends(p, r)) = j  BY <1>1, <1>6, <2>3 DEF Asks
    <3>3. v.in_flight <= MaxConcurrency /\ v.pending_pulls = o1 /\ Short(v) >= 0 /\ v.warm >= Short(v)
      BY <1>2, <1>10, <2>7 DEF Accounts
    <3>4. w.in_flight <= MaxConcurrency /\ w.warm = k
      BY <1>6, <2>3, <3>3 DEF Asks
    <3>5. w.pending_pulls = o2  BY <1>6, <2>3, <2>7, <3>1, <3>2, <3>3
    <3>6. Short(w) >= 0 /\ w.warm >= Short(w)
      BY <1>3, <2>3, <2>4, <2>5, <2>6, <3>3, <3>4 DEF k
    <3> QED BY <1>10, <3>4, <3>5, <3>6 DEF Accounts
  <2> QED BY <1>2, <1>9, <2>3, <2>7, PullNoPush DEF Done, Keeps
<1>11. ASSUME p = "centralized"
       PROVE  Done(p, r, v, <<>>, w)
  <2>1. w = IF v.in_flight < MaxConcurrency THEN Post(u, PullFrom(r), CentralPull(r)) ELSE u
    BY <1>4, <1>11 DEF UsesJbsq
  <2>2. \E j : Asks(p, r, u, w, j) /\ (v.in_flight < MaxConcurrency => j = 1)
    <3>1. CASE v.in_flight < MaxConcurrency
      <4>1. w = Post(u, PullFrom(r), CentralPull(r))  BY <2>1, <3>1
      <4>2. /\ PullFrom(r) \in Balancers /\ CentralPull(r) \in Pulls(p, PullFrom(r))
            /\ CentralPull(r).server = r
        BY <1>2, CentralPullIs
      <4> QED BY <1>5, <4>1, <4>2, AskOnce
    <3>2. CASE ~(v.in_flight < MaxConcurrency)
      <4>1. w = u  BY <2>1, <3>2
      <4>2. \A a : Load(u, a) = Load(u, a)  OBVIOUS
      <4>3. Count(u.out, PullSends(p, r)) = Count(u.out, PullSends(p, r)) + 0
        BY <1>1, <1>6
      <4>4. Asks(p, r, u, u, 0)  BY <1>5, <4>2, <4>3 DEF Asks
      <4> QED BY <3>2, <4>1, <4>4
    <3> QED BY <3>1, <3>2
  <2>3. PICK j : Asks(p, r, u, w, j) /\ (v.in_flight < MaxConcurrency => j = 1)
    BY <2>2
  <2>4. ASSUME NEW o1 \in Nat, NEW o2 \in Nat, Accounts(p, r, v, o1),
               o2 + Count(<<>>, Pulled) = o1 + Count(w.out, PullSends(p, r))
        PROVE  Accounts(p, r, w, o2)
    <3>1. Count(<<>>, Pulled) = 0  BY CountNoMessage
    <3>2. v.warm + o1 + v.in_flight = MaxConcurrency
      BY <1>2, <1>11, <2>4 DEF Accounts
    <3>3. v.in_flight < MaxConcurrency  BY <1>3, <3>2
    <3>4. Count(w.out, PullSends(p, r)) = 1  BY <1>1, <1>6, <2>3, <3>3 DEF Asks
    <3>5. o2 = o1 + 1  BY <2>4, <3>1, <3>4
    <3>6. w.in_flight = v.in_flight /\ w.warm = k  BY <1>6, <2>3 DEF Asks
    <3>7. w.warm + o2 + w.in_flight = MaxConcurrency /\ w.in_flight <= MaxConcurrency
      BY <1>3, <3>2, <3>3, <3>5, <3>6, MicroservicesAssumption DEF k
    <3> QED BY <1>11, <3>7 DEF Accounts
  <2> QED BY <1>2, <1>9, <2>3, <2>4, PullNoPush DEF Done, Keeps
<1>12. Done(p, r, v, <<>>, w)  BY <1>2, <1>10, <1>11 DEF CentralPullPolicies
<1> QED BY <1>12 DEF w

LEMMA ServiceEnds ==
  ASSUME NEW p, NEW r, NEW v \in State(p, r), Exact(v), NEW h \in v.serving
  PROVE  Ended(p, r, v, h, [v EXCEPT !.in_flight = SaturatingDec(@), !.serving = @ \ {h}])
<1> DEFINE S == v.serving \ {h}
           k == SaturatingDec(v.in_flight)
           c == [v EXCEPT !.in_flight = k, !.serving = S]
<1>1. /\ v.serving \subseteq Work(p, r) /\ IsFiniteSet(v.serving) /\ v.in_flight \in Nat
      /\ \A x \in v.serving : x.kind = "upstream"
  BY StateIs, ServingIs
<1>2. /\ IsFiniteSet(S) /\ Cardinality(v.serving) = Cardinality(S) + 1
      /\ \A T : Cardinality(v.serving \cap T) = Cardinality(S \cap T) + OneIf(h \in T)
  BY <1>1, SetDrop
<1>3. S \in FiniteWork(p, r)  BY <1>1, <1>2 DEF FiniteWork
<1>4. [v EXCEPT !.in_flight = SaturatingDec(@), !.serving = @ \ {h}] = c
  BY DEF State
<1>5. Cardinality(S) \in Nat  BY <1>2, FS_CardinalityType
<1>6. \A T : Cardinality(S \cap T) \in Nat  BY <1>2, SetPart
<1> HIDE DEF S
<1>7. k \in Nat /\ k + 1 = v.in_flight /\ k = Cardinality(S)
  BY <1>1, <1>2, <1>5, DecIs DEF Exact
<1> HIDE DEF k
<1>8. c \in State(p, r)  BY <1>3, <1>7 DEF State
<1>9. /\ c.queue = v.queue /\ c.pending_pulls = v.pending_pulls /\ c.pull_intents = v.pull_intents
      /\ c.warm = v.warm /\ c.out = v.out /\ c.in_flight = k /\ c.serving = S
  BY DEF State
<1> HIDE DEF c
<1>10. ASSUME NEW a
       PROVE  Load(c, a) + OneIf(h \in About(a)) = Load(v, a)
  <2>1. Cardinality(v.serving \cap About(a)) = Cardinality(S \cap About(a)) + OneIf(h \in About(a))
    BY <1>2
  <2>2. /\ Count(v.queue, About(a)) \in Nat /\ Count(v.out, SentAbout(a)) \in Nat
    BY StateIs
  <2>3. Cardinality(S \cap About(a)) \in Nat /\ OneIf(h \in About(a)) \in Nat
    BY <1>6 DEF OneIf
  <2> QED BY <1>9, <2>1, <2>2, <2>3 DEF Load
<1>12. ASSUME NEW b, NEW s, NEW a
       PROVE  Owing(p, r, c, b, s, a) + OneIf(h \in Marked(p, b, s, a)) = Owing(p, r, v, b, s, a)
  <2> DEFINE M == Marked(p, b, s, a)
             x == Count(v.queue, M)
             y == Count(v.queue, Freed(p, b, s, a, r))
             o == SentOpen(p, b, s, a, v.out)
  <2>1. Cardinality(v.serving \cap M) = Cardinality(S \cap M) + OneIf(h \in M)
    BY <1>2
  <2>2. x \in Nat /\ y \in Nat /\ o \in Nat  BY OwingNat
  <2>3. Cardinality(S \cap M) \in Nat /\ OneIf(h \in M) \in Nat
    BY <1>6 DEF OneIf
  <2>4. /\ Owing(p, r, v, b, s, a) = x + y + Cardinality(v.serving \cap M) + o
        /\ Owing(p, r, c, b, s, a) = x + y + Cardinality(S \cap M) + o
    BY <1>9 DEF Owing
  <2> HIDE DEF M, x, y, o
  <2>5. Owing(p, r, c, b, s, a) + OneIf(h \in M) = Owing(p, r, v, b, s, a)
    BY ONLY <2>1, <2>2, <2>3, <2>4
  <2> QED BY <2>5 DEF M
<1>11. Ended(p, r, v, h, c)  BY <1>7, <1>8, <1>9, <1>10, <1>12 DEF Ended, Exact
<1> QED BY <1>4, <1>11

LEMMA PulledIsFollowed ==
  ASSUME config \in Configs, NEW r \in Replicas, NEW c \in State(policy, r),
         NEW h \in Work(policy, r)
  PROVE  Followed(policy, r, h, c, IF h.slot THEN AfterPulled(ReleaseOutbound(c, r, r), r) ELSE c)
<1> DEFINE p == policy
           x == ReleaseOutbound(c, r, r)
           b == AfterPulled(x, r)
<1>1. p \in Policies  BY PolicyIs
<1>2. ASSUME ~h.slot
      PROVE  Followed(p, r, h, c, c)
  <2>1. \A a : Load(c, a) = Load(c, a)  OBVIOUS
  <2>2. \A d, Q : Announced(p, r, c, d, Q) = Announced(p, r, c, d, Q)  OBVIOUS
  <2> QED BY <1>2, <2>1, <2>2 DEF Followed, Silent
<1>3. ASSUME h.slot
      PROVE  Followed(p, r, h, c, b)
  <2>1. r \in PullTargets  BY <1>3 DEF Work, PullTargets
  <2>2. Sent(p, r, c, x, h.req, 0)  BY ReleaseOutboundSends
  <2>3. b = IF p = "centralized" THEN Post(x, PullFrom(r), CentralPull(r))
            ELSE IF p = "amphiqueue" THEN DrainPullIntents(x, r) ELSE x
    BY DEF AfterPulled
  <2> HIDE DEF x, b
  <2>4. /\ x \in State(p, r) /\ ButSends(c, x)
        /\ \A T \in SUBSET PullSends(p, r) : Count(x.out, T) = Count(c.out, T)
    BY <2>2 DEF Sent
  <2>5. \A a : Load(x, a) = Load(c, a)
    <3> TAKE a
    <3>1. Count(x.out, SentAbout(a)) = Count(c.out, SentAbout(a)) + (IF a = h.req THEN 0 ELSE 0)
      BY <2>2 DEF Sent
    <3>2. Count(c.out, SentAbout(a)) \in Nat  BY StateIs
    <3>3. Count(x.out, SentAbout(a)) = Count(c.out, SentAbout(a))
      BY <3>1, <3>2
    <3> QED BY <2>4, <3>3 DEF Load, ButSends
  <2>6. PullCount(p, r, x) = PullCount(p, r, c)  BY <2>4 DEF PullCount
  <2>7. \A d, Q : Announced(p, r, x, d, Q) = Announced(p, r, c, d, Q)
    <3> TAKE d, Q
    <3>1. AskTo(p, r, d, Q) \in SUBSET PullSends(p, r)  BY DEF AskTo
    <3> QED BY <2>4, <3>1 DEF Announced, ButSends
  <2>8. CASE p \notin {"centralized", "amphiqueue"}
    BY <1>3, <2>3, <2>4, <2>5, <2>6, <2>7, <2>8 DEF Followed, Silent, ButSends
  <2>9. CASE p = "centralized"
    <3>1. b = Post(x, PullFrom(r), CentralPull(r))  BY <2>3, <2>9
    <3>2. /\ PullFrom(r) \in Balancers /\ CentralPull(r) \in Pulls(p, PullFrom(r))
          /\ CentralPull(r).server = r
      <4>1. p \in CentralPullPolicies  BY <2>9 DEF CentralPullPolicies
      <4> QED BY <2>1, <4>1, CentralPullIs
    <3>3. Asks(p, r, x, b, 1)  BY <2>4, <3>1, <3>2, AskOnce
    <3> QED
      BY <1>3, <2>4, <2>5, <2>6, <2>9, <3>3 DEF Followed, Asks, PullCount, ButSends
  <2>10. CASE p = "amphiqueue"
    <3>1. Drawn(p, r, x, b)  BY <1>1, <2>3, <2>4, <2>10, DrainPullIntentsDraws
    <3>2. /\ x.in_flight = c.in_flight /\ x.pending_pulls = c.pending_pulls
          /\ x.pull_intents = c.pull_intents
      BY <2>4 DEF ButSends
    <3>3. CASE b = x /\ (x.in_flight + x.pending_pulls >= MaxConcurrency \/ x.pull_intents = <<>>)
      BY <1>3, <2>4, <2>5, <2>6, <2>7, <2>10, <3>2, <3>3 DEF Followed, Silent, ButSends
    <3>4. CASE /\ x.in_flight + x.pending_pulls < MaxConcurrency /\ x.pull_intents # <<>>
               /\ Asks(p, r, x, b, 1) /\ b.pending_pulls = x.pending_pulls + 1
               /\ \A d, Q : Announced(p, r, b, d, Q) = Announced(p, r, x, d, Q)
      BY <1>3, <2>4, <2>5, <2>6, <2>7, <2>10, <3>2, <3>4 DEF Followed, Asks, PullCount, ButSends
    <3> QED BY <3>1, <3>3, <3>4 DEF Drawn
  <2> QED BY <2>8, <2>9, <2>10
<1> QED BY <1>2, <1>3

LEMMA GoingOn ==
  ASSUME config \in Configs, NEW r \in Replicas, NEW b \in State(policy, r), Exact(b), OneFree(b),
         NEW h \in Work(policy, r), h.kind = "upstream",
         \A a \in Requests : Load(b, a) + OneIf(h \in About(a)) <= 1
  PROVE  GoesOn(policy, r, h, b, GoneOn(b, r, h))
<1> DEFINE p == policy
           k == [h EXCEPT !.slot = FALSE, !.sibling = 0]
           d == Advance(b, r, k)
           s == DrainQueue(d, r)
<1>1. h \in Hop /\ h.callers \in Seq(Frames) /\ ServiceOf[h.endpoint] = r[1]
  BY DEF Work, Hopping
<1>2. k \in Hopping /\ k.endpoint = h.endpoint /\ ~k.slot /\ k.req = h.req /\ k.callers = h.callers
  BY <1>1 DEF Hopping, Hop
<1>16. \A x, y, a : k \in Marked(p, x, y, a) <=> h \in Marked(p, x, y, a)
  BY <1>1, <1>2 DEF Marked, Hopping
<1> HIDE DEF k
<1>17. Forwards(p, r, b, k, d)  BY <1>1, <1>2, AdvanceForwards
<1>3. Sent(p, r, b, d, h.req, 1)  BY <1>2, <1>17 DEF Forwards
<1> HIDE DEF d
<1>4. /\ d \in State(p, r) /\ ButSends(b, d)
      /\ \A T \in SUBSET PullSends(p, r) : Count(d.out, T) = Count(b.out, T)
  BY <1>3 DEF Sent
<1>5. ASSUME NEW a
      PROVE  Load(d, a) = Load(b, a) + OneIf(h \in About(a))
  <2>1. Count(d.out, SentAbout(a)) = Count(b.out, SentAbout(a)) + (IF a = h.req THEN 1 ELSE 0)
    BY <1>3 DEF Sent
  <2>2. h \in About(a) <=> a = h.req  BY <1>1 DEF About, HopsOf, Hop
  <2>3. Count(d.out, SentAbout(a)) = Count(b.out, SentAbout(a)) + OneIf(h \in About(a))
    BY <2>1, <2>2 DEF OneIf
  <2>4. /\ Count(b.queue, About(a)) \in Nat /\ Cardinality(b.serving \cap About(a)) \in Nat
        /\ Count(b.out, SentAbout(a)) \in Nat /\ OneIf(h \in About(a)) \in Nat
    BY StateIs DEF OneIf
  <2>5. d.queue = b.queue /\ d.serving = b.serving  BY <1>4 DEF ButSends
  <2> QED BY <2>3, <2>4, <2>5 DEF Load
<1>18. \A a \in Requests : Load(d, a) <= 1  BY <1>5
<1>6. \A i \in DOMAIN d.queue : d.queue[i] \notin d.serving
  BY <1>4, <1>18, QueuedNotServed
<1>7. Drained(p, r, d, s)  BY <1>4, <1>6, DrainQueueDrains
<1> HIDE DEF s
<1>8. /\ s \in State(p, r)
      /\ s.pending_pulls = b.pending_pulls /\ s.pull_intents = b.pull_intents /\ s.warm = b.warm
      /\ s.in_flight = b.in_flight \/ (s.in_flight = b.in_flight + 1 /\ s.in_flight <= MaxConcurrency)
  BY <1>4, <1>7 DEF Drained, ButSends
<1>9. \A T \in SUBSET PullSends(p, r) : Count(s.out, T) = Count(b.out, T)
  BY <1>4, <1>7 DEF Drained
<1>10. \A a : Load(s, a) = Load(b, a) + OneIf(h \in About(a))
  BY <1>5, <1>7 DEF Drained
<1>11. b.in_flight \in Nat /\ d.in_flight = b.in_flight /\ d.queue = b.queue /\ d.serving = b.serving
  BY <1>4, StateIs DEF ButSends
<1>12. Exact(s)
  <2>1. s.in_flight + Cardinality(b.serving) = b.in_flight + Cardinality(s.serving)
    BY <1>7, <1>11 DEF Drained
  <2>2. s.in_flight \in Nat /\ Cardinality(s.serving) \in Nat
    BY <1>8, StateIs, FS_CardinalityType
  <2> QED BY <1>11, <2>1, <2>2 DEF Exact
<1>13. Busy(s)
  <2>1. (d.in_flight + 1 >= MaxConcurrency \/ Len(d.queue) <= 1) /\ s.queue # <<>>
          => s.in_flight >= MaxConcurrency
    BY <1>7 DEF Drained
  <2>2. CASE b.queue = <<>>
    <3>1. Len(d.queue) = 0  BY <1>11, <2>2
    <3>2. Len(d.queue) <= 1  BY ONLY <3>1
    <3> QED BY <2>1, <3>2 DEF Busy
  <2>3. CASE b.queue # <<>>  BY <1>11, <2>1, <2>3 DEF Busy, OneFree
  <2> QED BY <2>2, <2>3
<1>14. JbsqOccupancy(s) = JbsqOccupancy(b)
  <2>1. /\ JbsqOccupancy(s) = s.in_flight + Count(s.queue, Upstreams)
        /\ JbsqOccupancy(b) = b.in_flight + Count(b.queue, Upstreams)
    BY <1>8, OccupancyIs
  <2>2. s.in_flight + Count(s.queue, Upstreams) = b.in_flight + Count(b.queue, Upstreams)
    BY <1>7, <1>11 DEF Drained
  <2> QED BY <2>1, <2>2
<1>19. Moves(p, r, b, h, s)
  <2>1. Clears(p, r, d, s)  BY <1>4, <1>7, <1>18, PaysClears DEF Drained
  <2>2. Takes(p, r, b, h, d)  BY <1>16, <1>17, AdvancedTakes
  <2> QED BY <2>1, <2>2, TakesThenClears
<1>15. GoesOn(p, r, h, b, s)
  BY <1>8, <1>9, <1>10, <1>12, <1>13, <1>14, <1>19 DEF GoesOn
<1> QED BY <1>15 DEF s, d, k, GoneOn

LEMMA CompleteGoes ==
  ASSUME config \in Configs, NEW r \in Replicas, NEW v, Ready(policy, r, v, <<>>), NEW h \in v.serving
  PROVE  \E s : /\ Goes(policy, r, v, h, s)
                /\ CompleteState(v, r, h) = IF UsesJbsq(r) THEN JbsqPulls(s, r, JbsqN) ELSE s
<1> DEFINE p == policy
           c == [v EXCEPT !.in_flight = SaturatingDec(@), !.serving = @ \ {h}]
           b == IF h.slot THEN AfterPulled(ReleaseOutbound(c, r, r), r) ELSE c
           s == GoneOn(b, r, h)
<1>1. v \in State(p, r) /\ v.out = <<>> /\ Exact(v) /\ Busy(v)  BY ReadyIs
<1>2. h \in Work(p, r) /\ h.kind = "upstream"  BY <1>1, ServingIs
<1>3. CompleteState(v, r, h) = IF UsesJbsq(r) THEN JbsqPulls(s, r, JbsqN) ELSE s
  BY DEF CompleteState
<1>4. Ended(p, r, v, h, c)  BY <1>1, ServiceEnds
<1> HIDE DEF c
<1>5. c \in State(p, r)  BY <1>4 DEF Ended
<1>6. Followed(p, r, h, c, b)  BY <1>2, <1>5, PulledIsFollowed
<1> HIDE DEF b
<1>7. b \in State(p, r) /\ Exact(b)  BY <1>4, <1>6 DEF Followed, Ended, Exact
<1>8. OneFree(b)
  <2>1. b.queue = v.queue /\ b.in_flight + 1 = v.in_flight
    BY <1>4, <1>6 DEF Followed, Ended
  <2> QED BY <1>1, <2>1 DEF Busy, OneFree
<1>9. \A a \in Requests : Load(b, a) + OneIf(h \in About(a)) <= 1
  <2> TAKE a \in Requests
  <2>1. Load(b, a) = Load(c, a)  BY <1>6 DEF Followed
  <2>2. Load(c, a) + OneIf(h \in About(a)) = Load(v, a)  BY <1>4 DEF Ended
  <2>3. Load(v, a) + Count(<<>>, About(a)) <= 1  BY DEF Ready
  <2>4. Count(<<>>, About(a)) = 0 /\ Load(v, a) \in Nat
    BY <1>1, LoadIs, CountNoMessage
  <2> QED BY <2>1, <2>2, <2>3, <2>4
<1>10. GoesOn(p, r, h, b, s)  BY <1>2, <1>7, <1>8, <1>9, GoingOn
<1> HIDE DEF s
<1>11. Goes(p, r, v, h, s)  BY <1>4, <1>6, <1>10 DEF Goes
<1> QED BY <1>3, <1>11

LEMMA GoesHandles ==
  ASSUME NEW p, NEW r, NEW v, Ready(p, r, v, <<>>), NEW h \in v.serving, NEW s, Goes(p, r, v, h, s)
  PROVE  Handled(p, r, v, <<>>, s)
<1>1. PICK c, b : Ended(p, r, v, h, c) /\ Followed(p, r, h, c, b) /\ GoesOn(p, r, h, b, s)
  BY DEF Goes
<1>2. v \in State(p, r) /\ v.out = <<>> /\ \A T : Count(v.out, T) = 0
  BY ReadyIs
<1>3. s \in State(p, r) /\ Exact(s) /\ Busy(s)  BY <1>1 DEF GoesOn
<1>4. s.warm = v.warm /\ v.warm \in Nat
  BY <1>1, <1>2, StateIs DEF Ended, Followed, GoesOn
<1>5. ASSUME NEW a
      PROVE  Load(s, a) = Load(v, a) + Count(<<>>, About(a))
  <2>1. Load(s, a) = Load(b, a) + OneIf(h \in About(a))  BY <1>1 DEF GoesOn
  <2>2. Load(b, a) = Load(c, a)  BY <1>1 DEF Followed
  <2>3. Load(c, a) + OneIf(h \in About(a)) = Load(v, a)  BY <1>1 DEF Ended
  <2>4. Count(<<>>, About(a)) = 0 /\ Load(v, a) \in Nat
    BY <1>2, LoadIs, CountNoMessage
  <2> QED BY <2>1, <2>2, <2>3, <2>4
<1>6. ASSUME p = "amphiqueue", NEW d, NEW Q
      PROVE  Announced(p, r, s, d, Q) = Announced(p, r, v, d, Q) + Count(<<>>, Ann(d, Q))
  <2>1. Announced(p, r, b, d, Q) = Announced(p, r, c, d, Q)
    BY <1>1, <1>6 DEF Followed
  <2>2. Announced(p, r, s, d, Q) = Announced(p, r, b, d, Q)
    <3>1. AskTo(p, r, d, Q) \in SUBSET PullSends(p, r)  BY DEF AskTo
    <3> QED BY <1>1, <3>1 DEF Announced, GoesOn
  <2>3. Announced(p, r, c, d, Q) = Announced(p, r, v, d, Q)
    BY <1>1 DEF Announced, Ended
  <2>4. Announced(p, r, v, d, Q) \in Nat
    <3>1. Count(v.pull_intents, Ann(d, Q)) \in Nat /\ Count(v.out, AskTo(p, r, d, Q)) \in Nat
      BY <1>2, StateIs
    <3> QED BY <3>1 DEF Announced
  <2>5. Count(<<>>, Ann(d, Q)) = 0  BY CountNoMessage
  <2> QED BY <2>1, <2>2, <2>3, <2>4, <2>5
<1> QED BY <1>3, <1>4, <1>5, <1>6 DEF Handled

LEMMA GoesFits ==
  ASSUME NEW p, NEW r, NEW v, Ready(p, r, v, <<>>), NEW h \in v.serving, NEW s, Goes(p, r, v, h, s),
         v.in_flight <= MaxConcurrency
  PROVE  s.in_flight <= MaxConcurrency
<1>1. PICK c, b : Ended(p, r, v, h, c) /\ Followed(p, r, h, c, b) /\ GoesOn(p, r, h, b, s)
  BY DEF Goes
<1>2. v.in_flight \in Nat /\ b.in_flight \in Nat /\ b.in_flight + 1 = v.in_flight /\ MaxConcurrency \in Nat
  BY <1>1, StateIs, MicroservicesAssumption DEF Ready, Ended, Followed
<1>3. s.in_flight = b.in_flight \/ s.in_flight <= MaxConcurrency
  BY <1>1 DEF GoesOn
<1> QED BY <1>2, <1>3

LEMMA GoesKeeps ==
  ASSUME NEW p, NEW r \in Replicas, NEW v, Ready(p, r, v, <<>>), NEW h \in v.serving,
         NEW s, Goes(p, r, v, h, s), p # "jbsq", EntriesApart
  PROVE  Keeps(p, r, v, <<>>, s)
<1>1. PICK c, b : Ended(p, r, v, h, c) /\ Followed(p, r, h, c, b) /\ GoesOn(p, r, h, b, s)
  BY DEF Goes
<1>2. v \in State(p, r) /\ v.out = <<>> /\ \A T : Count(v.out, T) = 0
  BY ReadyIs
<1>3. h \in Work(p, r) /\ h.kind = "upstream"  BY <1>2, ServingIs
<1>4. /\ v.in_flight \in Nat /\ v.pending_pulls \in Nat /\ v.warm \in Nat
      /\ c.in_flight \in Nat /\ c.in_flight + 1 = v.in_flight /\ c.pending_pulls = v.pending_pulls
      /\ c.pull_intents = v.pull_intents /\ b.warm = v.warm /\ b.in_flight = c.in_flight
  <2>1. v.in_flight \in Nat /\ v.pending_pulls \in Nat /\ v.warm \in Nat
    BY <1>2, StateIs
  <2>2. c.in_flight \in Nat  BY <1>1, StateIs DEF Ended
  <2> QED BY <1>1, <2>1, <2>2 DEF Ended, Followed
<1>5. s.pending_pulls = b.pending_pulls /\ s.pull_intents = b.pull_intents /\ s.warm = v.warm
  BY <1>1, <1>4 DEF GoesOn
<1>6. PullCount(p, r, c) = 0 /\ PullCount(p, r, s) = PullCount(p, r, b)
  BY <1>1, <1>2 DEF PullCount, Ended, GoesOn
<1>7. ASSUME NEW o1 \in Nat, NEW o2 \in Nat, Accounts(p, r, v, o1),
             o2 + Count(<<>>, Pulled) = o1 + Count(s.out, PullSends(p, r))
      PROVE  Accounts(p, r, s, o2)
  <2>1. o2 = o1 + PullCount(p, r, b)
    <3>1. Count(<<>>, Pulled) = 0  BY CountNoMessage
    <3> QED BY <1>6, <1>7, <3>1 DEF PullCount
  <2>2. s.in_flight <= MaxConcurrency
    <3>1. v.in_flight <= MaxConcurrency  BY <1>7 DEF Accounts
    <3> QED BY <3>1, GoesFits
  <2>3. ASSUME r \in Serving[p], p \in PullPolicies
        PROVE  h.slot /\ s.in_flight + 1 = v.in_flight
    <3>1. h.slot  BY <1>3, <2>3 DEF Work
    <3>2. JbsqOccupancy(s) = s.in_flight /\ JbsqOccupancy(b) = b.in_flight
      <4>1. s \in State(p, r) /\ b \in State(p, r)
        BY <1>1 DEF GoesOn, Followed
      <4> QED BY <2>3, <4>1, NoCallQueued
    <3>3. JbsqOccupancy(s) = JbsqOccupancy(b)  BY <1>1 DEF GoesOn
    <3> QED BY <1>4, <3>1, <3>2, <3>3
  <2>4. ASSUME r \in Serving[p], p = "centralized"
        PROVE  s.warm + o2 + s.in_flight = MaxConcurrency
    <3>1. h.slot /\ s.in_flight + 1 = v.in_flight
      BY <2>3, <2>4 DEF PullPolicies, CentralPullPolicies
    <3>2. PullCount(p, r, b) = PullCount(p, r, c) + 1
      BY <1>1, <2>4, <3>1 DEF Followed
    <3>3. v.warm + o1 + v.in_flight = MaxConcurrency
      BY <1>7, <2>4 DEF Accounts
    <3>4. s.in_flight \in Nat  BY <1>1, StateIs DEF GoesOn
    <3> QED BY <1>4, <1>5, <1>6, <2>1, <3>1, <3>2, <3>3, <3>4
  <2>5. ASSUME r \in Serving[p], p = "amphiqueue"
        PROVE  /\ s.pending_pulls = o2 /\ s.in_flight + s.pending_pulls <= MaxConcurrency
               /\ s.pull_intents # <<>> => s.in_flight + s.pending_pulls >= MaxConcurrency
    <3>1. h.slot /\ s.in_flight + 1 = v.in_flight
      BY <2>3, <2>5 DEF PullPolicies
    <3>2. /\ v.pending_pulls = o1 /\ v.in_flight + v.pending_pulls <= MaxConcurrency
          /\ v.pull_intents # <<>> => v.in_flight + v.pending_pulls >= MaxConcurrency
      BY <1>7, <2>5 DEF Accounts
    <3>3. s.in_flight \in Nat /\ MaxConcurrency \in Nat
      BY <1>1, StateIs, MicroservicesAssumption DEF GoesOn
    <3>4. CASE /\ Silent(p, r, c, b)
               /\ c.in_flight + c.pending_pulls >= MaxConcurrency \/ c.pull_intents = <<>>
      <4>1. b.pending_pulls = v.pending_pulls /\ b.pull_intents = v.pull_intents /\ PullCount(p, r, b) = 0
        BY <1>4, <1>6, <3>4 DEF Silent
      <4>2. v.pull_intents = <<>>  BY <1>4, <3>2, <3>3, <3>4
      <4>3. s.pending_pulls = b.pending_pulls /\ s.pull_intents = b.pull_intents  BY <1>5
      <4>4. o2 = o1  BY <2>1, <4>1
      <4>5. s.pending_pulls = o1 /\ s.pull_intents = <<>>
        BY ONLY <3>2, <4>1, <4>2, <4>3
      <4>6. s.in_flight + o1 <= MaxConcurrency
        BY ONLY <3>1, <3>2, <3>3, o1 \in Nat, v.in_flight \in Nat
      <4> QED BY ONLY <4>4, <4>5, <4>6
    <3>5. CASE /\ c.in_flight + c.pending_pulls < MaxConcurrency /\ c.pull_intents # <<>>
               /\ b.pending_pulls = c.pending_pulls + 1
               /\ PullCount(p, r, b) = PullCount(p, r, c) + 1
      <4>1. o2 = o1 + 1  BY <1>6, <2>1, <3>5
      <4>2. s.pending_pulls = o2 /\ v.pull_intents # <<>>  BY <1>4, <1>5, <3>2, <3>5, <4>1
      <4>3. s.in_flight + o2 = v.in_flight + o1
        BY ONLY <3>1, <3>3, <4>1, o1 \in Nat, v.in_flight \in Nat
      <4> QED BY ONLY <3>2, <4>2, <4>3
    <3> QED BY <1>1, <2>5, <3>1, <3>4, <3>5 DEF Followed
  <2> QED BY <2>2, <2>4, <2>5 DEF Accounts
<1> QED BY <1>7 DEF Keeps

LEMMA GoesFills ==
  ASSUME NEW p, p = "jbsq", NEW r \in Replicas, NEW v, Ready(p, r, v, <<>>), NEW h \in v.serving,
         NEW s, Goes(p, r, v, h, s), NEW w, Filled(p, r, s, w, JbsqN)
  PROVE  Keeps(p, r, v, <<>>, w)
<1>1. PICK c, b : Ended(p, r, v, h, c) /\ Followed(p, r, h, c, b) /\ GoesOn(p, r, h, b, s)
  BY DEF Goes
<1>2. v \in State(p, r) /\ v.out = <<>> /\ \A T : Count(v.out, T) = 0
  BY ReadyIs
<1>3. v.in_flight \in Nat /\ v.pending_pulls \in Nat /\ v.warm \in Nat /\ JbsqN \in Nat
  BY <1>2, StateIs, MicroservicesAssumption
<1>4. Silent(p, r, c, b)  BY <1>1 DEF Followed
<1>5. s.pending_pulls = v.pending_pulls /\ s.warm = v.warm /\ PullCount(p, r, s) = 0
  BY <1>1, <1>2, <1>4 DEF Silent, PullCount, Ended, Followed, GoesOn
<1>6. JbsqOccupancy(s) + 1 = JbsqOccupancy(v) /\ JbsqOccupancy(s) \in Nat /\ JbsqOccupancy(v) \in Nat
  <2>1. JbsqOccupancy(s) = JbsqOccupancy(b)  BY <1>1 DEF GoesOn
  <2>2. b \in State(p, r) /\ b.queue = v.queue /\ b.in_flight + 1 = v.in_flight
    BY <1>1 DEF Ended, Followed
  <2>3. /\ JbsqOccupancy(b) = b.in_flight + Count(v.queue, Upstreams)
        /\ JbsqOccupancy(v) = v.in_flight + Count(v.queue, Upstreams)
    BY <1>2, <2>2, OccupancyIs
  <2>4. b.in_flight \in Nat /\ Count(v.queue, Upstreams) \in Nat
    BY <1>2, <2>2, StateIs
  <2> QED BY <1>3, <2>1, <2>2, <2>3, <2>4
<1>7. Short(s) = Short(v) + 1 /\ Short(s) <= JbsqN /\ Short(s) \in Int /\ Short(v) \in Int
  BY <1>3, <1>5, <1>6 DEF Short
<1> DEFINE j == IF Short(s) <= 0 THEN 0 ELSE IF Short(s) < JbsqN THEN Short(s) ELSE JbsqN
<1>8. Asks(p, r, s, w, j) /\ w.pending_pulls = s.pending_pulls + j
  BY DEF Filled
<1>9. Short(v) >= 0 => j = Short(s)  BY <1>3, <1>7
<1> HIDE DEF j
<1>10. Short(w) = Short(s) - j
  <2>1. JbsqOccupancy(w) = JbsqOccupancy(s)  BY <1>8 DEF Asks, JbsqOccupancy
  <2>2. j \in Nat  BY <1>8 DEF Asks
  <2> QED BY <1>3, <1>5, <1>6, <1>8, <2>1, <2>2 DEF Short
<1>11. ASSUME NEW o1 \in Nat, NEW o2 \in Nat, Accounts(p, r, v, o1),
              o2 + Count(<<>>, Pulled) = o1 + Count(w.out, PullSends(p, r))
       PROVE  Accounts(p, r, w, o2)
  <2>1. Count(<<>>, Pulled) = 0  BY CountNoMessage
  <2>2. Count(w.out, PullSends(p, r)) = j /\ j \in Nat
    BY <1>5, <1>8 DEF Asks, PullCount
  <2>3. o2 = o1 + j  BY <1>11, <2>1, <2>2
  <2>4. w.in_flight <= MaxConcurrency
    <3>1. v.in_flight <= MaxConcurrency  BY <1>11 DEF Accounts
    <3>2. s.in_flight <= MaxConcurrency  BY <3>1, GoesFits
    <3> QED BY <1>8, <3>2 DEF Asks
  <2>5. ASSUME r \in Serving[p]
        PROVE  w.pending_pulls = o2 /\ Short(w) >= 0 /\ w.warm >= Short(w)
    <3>1. v.pending_pulls = o1 /\ Short(v) >= 0  BY <1>11, <2>5 DEF Accounts
    <3>2. Short(w) = 0  BY <1>7, <1>9, <1>10, <3>1
    <3>3. w.warm = v.warm  BY <1>5, <1>8 DEF Asks
    <3> QED BY <1>3, <1>5, <1>8, <2>3, <3>1, <3>2, <3>3
  <2> QED BY <2>4, <2>5 DEF Accounts
<1> QED BY <1>11 DEF Keeps

LEMMA GoesSquares ==
  ASSUME NEW p \in PushPolicies, NEW r, NEW v, Ready(p, r, v, <<>>), NEW h \in v.serving,
         NEW s, Goes(p, r, v, h, s)
  PROVE  Squared(p, r, v, <<>>, s)
<1>1. PICK c, b : Ended(p, r, v, h, c) /\ Followed(p, r, h, c, b) /\ GoesOn(p, r, h, b, s)
  BY DEF Goes
<1>2. v \in State(p, r) /\ \A T : Count(v.out, T) = 0  BY ReadyIs
<1>3. h \in Work(p, r) /\ h.kind = "upstream"  BY <1>2, ServingIs
<1>4. ~h.slot  BY <1>3, PullNoPush DEF Work
<1>5. Moves(p, r, c, h, s)  BY <1>1, <1>4 DEF Followed, GoesOn
<1>6. /\ c \in State(p, r) /\ c.out = v.out
      /\ \A x, y, a : Owing(p, r, c, x, y, a) + OneIf(h \in Marked(p, x, y, a)) = Owing(p, r, v, x, y, a)
  BY <1>1 DEF Ended
<1> QED BY <1>2, <1>3, <1>5, <1>6, ServedSquares

LEMMA CompleteHandles ==
  ASSUME config \in Configs, NEW r \in Replicas, NEW v, Ready(policy, r, v, <<>>), NEW h \in v.serving
  PROVE  Done(policy, r, v, <<>>, CompleteState(v, r, h))
<1> DEFINE p == policy
           w == CompleteState(v, r, h)
<1>1. PICK s : /\ Goes(p, r, v, h, s)
               /\ w = IF UsesJbsq(r) THEN JbsqPulls(s, r, JbsqN) ELSE s
  BY CompleteGoes
<1> HIDE DEF w
<1>2. Handled(p, r, v, <<>>, s)  BY <1>1, GoesHandles
<1>3. ASSUME UsesJbsq(r)
      PROVE  Done(p, r, v, <<>>, w)
  <2>1. p = "jbsq" /\ r \in PullTargets /\ s \in State(p, r) /\ JbsqN \in Nat
    BY <1>2, <1>3, MicroservicesAssumption DEF UsesJbsq, Handled
  <2>2. Filled(p, r, s, w, JbsqN)  BY <1>1, <1>3, <2>1, JbsqPullsFill
  <2>3. Handled(p, r, v, <<>>, w)
    <3>1. /\ w \in State(p, r) /\ w.queue = s.queue /\ w.in_flight = s.in_flight
          /\ w.serving = s.serving /\ w.warm = s.warm /\ \A a : Load(w, a) = Load(s, a)
      BY <2>2 DEF Filled, Asks
    <3> QED BY <1>2, <2>1, <3>1 DEF Handled, Exact, Busy
  <2>4. Keeps(p, r, v, <<>>, w)  BY <1>1, <2>1, <2>2, GoesFills
  <2> QED BY <2>1, <2>3, <2>4, PullNoPush DEF Done
<1>4. ASSUME ~UsesJbsq(r)
      PROVE  Done(p, r, v, <<>>, w)
  <2>1. w = s  BY <1>1, <1>4
  <2>2. ASSUME EntriesApart, p # "jbsq"
        PROVE  Keeps(p, r, v, <<>>, s)
    BY <1>1, <2>2, GoesKeeps
  <2>3. ASSUME p = "jbsq", r \notin Serving[p], NEW o1 \in Nat, NEW o2 \in Nat, Accounts(p, r, v, o1)
        PROVE  Accounts(p, r, s, o2)
    <3>1. v.in_flight <= MaxConcurrency  BY <2>3 DEF Accounts
    <3>2. s.in_flight <= MaxConcurrency  BY <1>1, <3>1, GoesFits
    <3> QED BY <2>3, <3>2 DEF Accounts
  <2>4. p = "jbsq" => r \notin Serving[p]  BY <1>4 DEF UsesJbsq, PullTargets
  <2>5. EntriesApart => Keeps(p, r, v, <<>>, s)  BY <2>2, <2>3, <2>4 DEF Keeps
  <2>6. p \in PushPolicies => Squared(p, r, v, <<>>, s)  BY <1>1, GoesSquares
  <2> QED BY <1>2, <2>1, <2>5, <2>6 DEF Done
<1>5. Done(p, r, v, <<>>, w)  BY <1>3, <1>4
<1> QED BY <1>5 DEF w

-----------------------------------------------------------------------------
(* How many elements of several sets are in T: f[d] for every d of D *)

-----------------------------------------------------------------------------
(* A handler's message, and what it sends *)

LEMMA TakenIs ==
  ASSUME NEW p, NEW bx, Boxes(p, bx), NEW x \in Places, NEW in, NEW boxes, Taken(bx, x, in, boxes)
  PROVE  /\ Boxes(p, boxes)
         /\ \A T : /\ Count(in, T) \in Nat
                   /\ Count(bx[x], T) = Count(boxes[x], T) + Count(in, T)
                   /\ Count(boxes[x], T) \in Nat
         /\ \A o \in Places \ {x} : boxes[o] = bx[o]
<1>1. bx = [o \in Places |-> bx[o]] /\ \A o \in Places : bx[o] \in Seq(Mail(p, o))
  BY DEF Boxes
<1>2. CASE in = <<>> /\ boxes = bx
  <2>1. \A T : Count(in, T) = 0  BY <1>2, CountNoMessage
  <2>2. \A T : Count(bx[x], T) \in Nat  BY <1>1, CountFinite
  <2> QED BY <1>2, <2>1, <2>2
<1>3. CASE bx[x] # <<>> /\ in = <<Head(bx[x])>> /\ boxes = [bx EXCEPT ![x] = Tail(@)]
  <2> DEFINE t == Tail(bx[x])
             m == Head(bx[x])
  <2>1. /\ t \in Seq(Mail(p, x)) /\ m \in Mail(p, x)
        /\ \A T : Count(bx[x], T) = Count(t, T) + OneIf(m \in T)
    BY <1>1, <1>3, PopFront, CountPopFront DEF OneIf
  <2>2. \A T : Count(in, T) = OneIf(m \in T) /\ OneIf(m \in T) \in Nat
    BY <1>3, CountOne DEF OneIf
  <2>3. \A T : Count(t, T) \in Nat  BY <2>1, CountFinite
  <2>4. boxes = [bx EXCEPT ![x] = t]  BY <1>3
  <2> HIDE DEF t, m
  <2>5. boxes[x] = t /\ boxes = [o \in Places |-> boxes[o]] /\ \A o \in Places \ {x} : boxes[o] = bx[o]
    BY <1>1, <2>4
  <2>6. Boxes(p, boxes)  BY <1>1, <2>1, <2>5 DEF Boxes
  <2> QED BY <2>1, <2>2, <2>3, <2>5, <2>6
<1> QED BY <1>2, <1>3 DEF Taken

LEMMA LedgerTaken ==
  ASSUME NEW p, NEW bx, Boxes(p, bx), NEW x \in Places, NEW in, NEW boxes, Taken(bx, x, in, boxes),
         NEW out \in Seq(Sends(p))
  PROVE  Ledger(p, x, in, out, bx, Deliver(boxes, out))
<1> DEFINE by == Deliver(boxes, out)
<1>1. /\ Boxes(p, boxes)
      /\ \A T : /\ Count(in, T) \in Nat
                /\ Count(bx[x], T) = Count(boxes[x], T) + Count(in, T)
                /\ Count(boxes[x], T) \in Nat
      /\ \A o \in Places \ {x} : boxes[o] = bx[o]
  BY TakenIs
<1>2. /\ Boxes(p, by)
      /\ \A D \in SUBSET Places : \A T :
           Across(by, D, T) = Across(boxes, D, T) + Count(out, [to : D, msg : T])
  BY <1>1, Delivered
<1> HIDE DEF by
<1>3. ASSUME NEW D \in SUBSET Places, NEW T
      PROVE  Across(by, D, T) + (IF x \in D THEN Count(in, T) ELSE 0)
               = Across(bx, D, T) + Count(out, [to : D, msg : T])
  <2>1. /\ IsFiniteSet(D) /\ AreQueues(bx, D, Mails(p)) /\ AreQueues(boxes, D, Mails(p))
        /\ Across(bx, D, T) \in Nat /\ Across(boxes, D, T) \in Nat
    BY <1>1, BoxesCounted
  <2>2. Count(out, [to : D, msg : T]) \in Nat  BY CountFinite
  <2>3. Across(by, D, T) = Across(boxes, D, T) + Count(out, [to : D, msg : T])
    BY <1>2
  <2>4. CASE x \in D
    <3>1. KeepsApart(bx, boxes, D, x)  BY <1>1 DEF KeepsApart
    <3>2. Across(boxes, D, T) + Count(bx[x], T) = Across(bx, D, T) + Count(boxes[x], T)
      BY <2>1, <2>4, <3>1, AcrossChanges
    <3>3. /\ Count(in, T) \in Nat /\ Count(bx[x], T) = Count(boxes[x], T) + Count(in, T)
          /\ Count(boxes[x], T) \in Nat
      BY <1>1
    <3> QED BY <2>1, <2>2, <2>3, <2>4, <3>2, <3>3
  <2>5. CASE x \notin D
    <3>1. \A d \in D : boxes[d] = bx[d]  BY <1>1, <2>5
    <3>2. Across(boxes, D, T) = Across(bx, D, T)  BY <3>1, AcrossSame
    <3> QED BY <2>1, <2>2, <2>3, <2>5, <3>2
  <2> QED BY <2>4, <2>5
<1>4. Ledger(p, x, in, out, bx, by)  BY <1>2, <1>3 DEF Ledger
<1> QED BY <1>4 DEF by

(* One message, sent without a handler *)
LEMMA LedgerSent ==
  ASSUME NEW p, NEW bx, Boxes(p, bx), NEW x \in Places, NEW m \in Mail(p, x)
  PROVE  Ledger(p, x, <<>>, <<[to |-> x, msg |-> m]>>, bx, [bx EXCEPT ![x] = Append(@, m)])
<1> DEFINE o == [to |-> x, msg |-> m]
           M == [y \in Places |-> Mail(p, y)]
<1>1. Boxed(bx, Places, M) /\ o \in Letters(Places, M) /\ IsFiniteSet(Places)
  BY BoxesAre, SendIs, PlacesFinite
<1>2. [bx EXCEPT ![x] = Append(@, m)] = Put(bx, o)  BY DEF Put
<1>3. \A y : Boxes(p, y) <=> Boxed(y, Places, M)  BY BoxesAre
<1> HIDE DEF M, o
<1>4. ASSUME NEW D \in SUBSET Places, NEW T
      PROVE  /\ Boxed(Put(bx, o), Places, M)
             /\ Across(Put(bx, o), D, T) + (IF x \in D THEN Count(<<>>, T) ELSE 0)
                  = Across(bx, D, T) + Count(<<o>>, [to : D, msg : T])
  <2>1. /\ Boxed(Put(bx, o), Places, M)
        /\ Across(Put(bx, o), D, T) = Across(bx, D, T) + OneIf(o \in [to : D, msg : T])
    BY <1>1, PutCounted
  <2>2. Count(<<o>>, [to : D, msg : T]) = OneIf(o \in [to : D, msg : T]) /\ Count(<<>>, T) = 0
    BY CountOne, CountNoMessage
  <2>3. Across(Put(bx, o), D, T) \in Nat  BY <1>3, <2>1, BoxesCounted
  <2> QED BY <2>1, <2>2, <2>3
<1>5. {} \in SUBSET Places  OBVIOUS
<1>6. Ledger(p, x, <<>>, <<o>>, bx, Put(bx, o))  BY <1>3, <1>4, <1>5 DEF Ledger
<1> QED BY <1>2, <1>6 DEF o

-----------------------------------------------------------------------------
LEMMA LbIs ==
  ASSUME NEW p, NEW lb, BalancersTyped(p, lb), NEW b \in Balancers
  PROVE  /\ lb[b] \in Lb(p, b)
         /\ lb[b].queue \in Seq(Held(p, b)) /\ lb[b].waiting \in Seq(Parked(p, b))
         /\ lb[b].inflight \in [ServersOf[b] -> Nat]
         /\ lb[b].pull_intent_load \in [ServersOf[b] -> Nat]
BY DEF BalancersTyped, Lb

LEMMA RestingIs ==
  ASSUME NEW p, NEW r, NEW v, Resting(p, r, v)
  PROVE  v \in State(p, r) /\ v.out = <<>>
BY DEF Resting

LEMMA ReplicaRests ==
  ASSUME NEW p, NEW rp, ReplicasTyped(p, rp), NEW r \in Replicas
  PROVE  Resting(p, r, rp[r])
BY DEF ReplicasTyped

LEMMA ReplicaTyped ==
  ASSUME NEW p, NEW rp, ReplicasTyped(p, rp), NEW r \in Replicas
  PROVE  rp[r] \in State(p, r)
BY ReplicaRests DEF Resting

LEMMA ReplicaQueues ==
  ASSUME NEW p, NEW rp, ReplicasTyped(p, rp)
  PROVE  /\ AreQueues(QueuesOf(rp, Replicas), Replicas, Hop)
         /\ AreFinite(ServingSets(rp), Replicas)
<1>1. ASSUME NEW d \in Replicas
      PROVE  rp[d].queue \in Seq(Hop) /\ IsFiniteSet(rp[d].serving)
  <2>0. rp[d] \in State(p, d)  BY ReplicaTyped
  <2>1. rp[d].queue \in Seq(Queued(p, d)) /\ IsFiniteSet(rp[d].serving)
    BY <2>0, StateIs
  <2>2. Queued(p, d) \subseteq Hop  BY DEF Queued, Work, Hopping
  <2> QED BY <2>1, <2>2
<1> QED BY <1>1 DEF AreQueues, AreFinite, QueuesOf, ServingSets

LEMMA BalancerQueues ==
  ASSUME NEW p, NEW lb, BalancersTyped(p, lb)
  PROVE  AreQueues(QueuesOf(lb, Balancers), Balancers, Hop)
<1>1. ASSUME NEW d \in Balancers
      PROVE  lb[d].queue \in Seq(Hop)
  <2>1. lb[d].queue \in Seq(Held(p, d))  BY LbIs
  <2>2. Held(p, d) \subseteq Hop  BY DEF Held, Calls, Hopping
  <2> QED BY <2>1, <2>2
<1> QED BY <1>1 DEF AreQueues, QueuesOf

(* What is counted across a run *)
LEMMA RunCounted ==
  ASSUME NEW p, NEW rp, ReplicasTyped(p, rp), NEW lb, BalancersTyped(p, lb), NEW bx, Boxes(p, bx),
         NEW a
  PROVE  /\ Across(bx, Places, About(a)) \in Nat
         /\ Across(QueuesOf(rp, Replicas), Replicas, About(a)) \in Nat
         /\ Across(QueuesOf(lb, Balancers), Balancers, About(a)) \in Nat
         /\ Within(ServingSets(rp), Replicas, About(a)) \in Nat
<1> DEFINE T == About(a)
           Q == QueuesOf(rp, Replicas)
           B == QueuesOf(lb, Balancers)
           S == ServingSets(rp)
<1>1. Across(bx, Places, T) \in Nat  BY BoxesCounted
<1>4. AreQueues(Q, Replicas, Hop) /\ AreQueues(B, Balancers, Hop) /\ AreFinite(S, Replicas)
  BY ReplicaQueues, BalancerQueues
<1> HIDE DEF Q, B, S, T
<1>5. Across(Q, Replicas, T) \in Nat /\ Across(B, Balancers, T) \in Nat
  <2>1. IsFiniteSet(UNION {Matches(Q, d, T) : d \in Replicas})
    BY <1>4, ReplicasFinite, MatchesFinite
  <2>2. IsFiniteSet(UNION {Matches(B, d, T) : d \in Balancers})
    BY <1>4, BalancersFinite, MatchesFinite
  <2> QED BY <2>1, <2>2, FS_CardinalityType DEF Across
<1>6. Within(S, Replicas, T) \in Nat  BY <1>4, ReplicasFinite, WithinFewer
<1> QED BY <1>1, <1>5, <1>6 DEF Q, B, S, T

(* One replica's share of where a request is *)
LEMMA HereIsPart ==
  ASSUME NEW p, NEW rp, ReplicasTyped(p, rp), NEW lb, BalancersTyped(p, lb), NEW bx, Boxes(p, bx),
         NEW r \in Replicas, NEW in, NEW boxes, Taken(bx, r, in, boxes), NEW a
  PROVE  Load(rp[r], a) + Count(in, About(a)) <= Where(rp, lb, bx, a)
<1> DEFINE T == About(a)
           v == rp[r]
           Q == QueuesOf(rp, Replicas)
           S == ServingSets(rp)
<1>1. v \in State(p, r) /\ v.out = <<>>  BY ReplicaRests, RestingIs
<1>2. /\ Count(v.queue, T) \in Nat /\ Cardinality(v.serving \cap T) \in Nat
      /\ Count(v.out, SentAbout(a)) = 0
  BY <1>1, StateIs, CountNoMessage
<1>3. /\ Across(bx, Places, T) \in Nat /\ Across(Q, Replicas, T) \in Nat
      /\ Across(QueuesOf(lb, Balancers), Balancers, T) \in Nat
      /\ Within(S, Replicas, T) \in Nat
  BY RunCounted
<1>5. Q[r] = v.queue /\ S[r] = v.serving  BY DEF QueuesOf, ServingSets
<1>6. AreQueues(Q, Replicas, Hop) /\ AreFinite(S, Replicas)  BY ReplicaQueues
<1>7. r \in Places /\ IsFiniteSet(Places) /\ AreQueues(bx, Places, Mails(p))
  BY BoxesCounted DEF Places
<1>8. Count(in, T) \in Nat /\ Count(bx[r], T) = Count(boxes[r], T) + Count(in, T) /\ Count(boxes[r], T) \in Nat
  <2>1. r \in Places  BY <1>7
  <2> QED BY <2>1, TakenIs
<1> HIDE DEF Q, S, v, T
<1>9. Across(bx, Places \ {r}, T) \in Nat /\ Across(bx, Places, T) = Across(bx, Places \ {r}, T) + Count(bx[r], T)
  BY <1>7, AcrossParts
<1>10. Across(Q, Replicas \ {r}, T) \in Nat /\ Across(Q, Replicas, T) = Across(Q, Replicas \ {r}, T) + Count(v.queue, T)
  BY <1>5, <1>6, ReplicasFinite, AcrossParts
<1>11. Within(S, Replicas \ {r}, T) \in Nat /\ Within(S, Replicas, T) = Within(S, Replicas \ {r}, T) + Cardinality(v.serving \cap T)
  <2>1. /\ Within(S, Replicas \ {r}, T) \in Nat
        /\ Within(S, Replicas, T) = Within(S, Replicas \ {r}, T) + Cardinality(S[r] \cap T)
    BY <1>6, ReplicasFinite, WithinParts
  <2>2. S[r] \cap T = v.serving \cap T  BY <1>5
  <2> QED BY <2>1, <2>2, Zenon
<1>12. Load(v, a) = Count(v.queue, T) + Cardinality(v.serving \cap T)
  BY <1>2 DEF Load, T
<1>13. Where(rp, lb, bx, a) = Across(bx, Places, T) + Across(Q, Replicas, T)
                              + Across(QueuesOf(lb, Balancers), Balancers, T) + Within(S, Replicas, T)
  BY DEF Where, Q, S, T
<1>14. Load(v, a) + Count(in, T) <= Where(rp, lb, bx, a)
  BY <1>2, <1>3, <1>8, <1>9, <1>10, <1>11, <1>12, <1>13
<1> QED BY <1>14 DEF v, T

LEMMA Cleared ==
  ASSUME NEW p, NEW r, NEW w \in State(p, r)
  PROVE  LET c == [w EXCEPT !.out = <<>>] IN
         /\ c \in State(p, r) /\ c.out = <<>> /\ ButSends(w, c)
<1> DEFINE c == [w EXCEPT !.out = <<>>]
           O == OutSends(p, r)
           F == FiniteWork(p, r)
<1>1. <<>> \in Seq(O)  OBVIOUS
<1> HIDE DEF O, F
<1>2. c \in State(p, r)  BY <1>1 DEF State, O, F
<1>3. c.out = <<>> /\ ButSends(w, c)  BY DEF State, ButSends
<1> QED BY <1>2, <1>3

LEMMA BecameIs ==
  ASSUME NEW p, NEW rp, ReplicasTyped(p, rp), NEW r \in Replicas, NEW w \in State(p, r)
  PROVE  /\ ReplicasTyped(p, Became(rp, r, w))
         /\ Became(rp, r, w)[r] \in State(p, r) /\ ButSends(w, Became(rp, r, w)[r])
         /\ \A o \in Replicas \ {r} : Became(rp, r, w)[o] = rp[o]
<1> DEFINE c == [w EXCEPT !.out = <<>>]
<1>1. c \in State(p, r) /\ c.out = <<>> /\ ButSends(w, c)  BY Cleared
<1>2. Became(rp, r, w) = [rp EXCEPT ![r] = c]  BY DEF Became
<1> HIDE DEF c
<1>3. FunOn(rp, Replicas)  BY DEF ReplicasTyped
<1>4. /\ FunOn(Became(rp, r, w), Replicas) /\ Became(rp, r, w)[r] = c
      /\ \A o \in Replicas \ {r} : Became(rp, r, w)[o] = rp[o]
  BY <1>2, <1>3 DEF FunOn
<1>5. Resting(p, r, c)  BY <1>1 DEF Resting
<1>6. \A o \in Replicas : Resting(p, o, Became(rp, r, w)[o])
  BY <1>4, <1>5 DEF ReplicasTyped
<1> QED BY <1>1, <1>4, <1>6 DEF ReplicasTyped

LEMMA ReplicaKeepsPlaces ==
  ASSUME NEW p, NEW rp, ReplicasTyped(p, rp), NEW lb, BalancersTyped(p, lb), NEW bx, Boxes(p, bx),
         NEW r \in Replicas, NEW in, NEW boxes, Taken(bx, r, in, boxes),
         NEW w, Handled(p, r, rp[r], in, w)
  PROVE  /\ ReplicasTyped(p, Became(rp, r, w))
         /\ Ledger(p, r, in, w.out, bx, Deliver(boxes, w.out))
         /\ \A a : Where(Became(rp, r, w), lb, Deliver(boxes, w.out), a) = Where(rp, lb, bx, a)
<1> DEFINE v == rp[r]
           rq == Became(rp, r, w)
           by == Deliver(boxes, w.out)
           Q == QueuesOf(rp, Replicas)
           S == ServingSets(rp)
           Q2 == QueuesOf(rq, Replicas)
           S2 == ServingSets(rq)
<1>1. v \in State(p, r) /\ v.out = <<>> /\ w \in State(p, r)
  <2>1. Resting(p, r, v)  BY ReplicaRests
  <2>2. v \in State(p, r) /\ v.out = <<>>  BY ONLY <2>1, RestingIs
  <2>3. w \in State(p, r)  BY DEF Handled
  <2> QED BY <2>2, <2>3
<1>2. /\ ReplicasTyped(p, rq) /\ rq[r].queue = w.queue /\ rq[r].serving = w.serving
      /\ \A o \in Replicas \ {r} : rq[o] = rp[o]
  BY <1>1, BecameIs DEF ButSends
<1>3. w.out \in Seq(Sends(p)) /\ r \in Places
  <2>1. w.out \in Seq(OutSends(p, r))  BY <1>1, StateIs
  <2>2. OutSends(p, r) \subseteq Sends(p)  BY DEF OutSends
  <2> QED BY <2>1, <2>2 DEF Places
<1>4. Ledger(p, r, in, w.out, bx, by)  BY <1>3, LedgerTaken
<1> HIDE DEF rq, by
<1>5. Boxes(p, by)  BY <1>4 DEF Ledger
<1>7. /\ AreQueues(Q, Replicas, Hop) /\ AreFinite(S, Replicas)
      /\ AreQueues(Q2, Replicas, Hop) /\ AreFinite(S2, Replicas)
  BY <1>2, ReplicaQueues
<1>8. /\ Q[r] = v.queue /\ S[r] = v.serving /\ Q2[r] = w.queue /\ S2[r] = w.serving
      /\ KeepsApart(Q, Q2, Replicas, r) /\ KeepsApart(S, S2, Replicas, r)
  BY <1>2 DEF QueuesOf, ServingSets, KeepsApart
<1> HIDE DEF Q, S, Q2, S2, v
<1>9. ASSUME NEW a
      PROVE  Where(rq, lb, by, a) = Where(rp, lb, bx, a)
  <2> DEFINE T == About(a)
             B == Across(QueuesOf(lb, Balancers), Balancers, T)
  <2>1. /\ Across(bx, Places, T) \in Nat /\ Across(Q, Replicas, T) \in Nat
        /\ B \in Nat /\ Within(S, Replicas, T) \in Nat
    BY RunCounted DEF Q, S
  <2>2. /\ Across(by, Places, T) \in Nat /\ Across(Q2, Replicas, T) \in Nat
        /\ Within(S2, Replicas, T) \in Nat
    BY <1>2, <1>5, RunCounted DEF Q2, S2
  <2>3. Across(by, Places, T) + Count(in, T) = Across(bx, Places, T) + Count(w.out, SentAbout(a))
    <3>1. Places \in SUBSET Places  OBVIOUS
    <3> QED BY <1>3, <1>4, <3>1 DEF Ledger, SentAbout
  <2>4. Across(Q2, Replicas, T) + Count(v.queue, T) = Across(Q, Replicas, T) + Count(w.queue, T)
    BY <1>7, <1>8, ReplicasFinite, AcrossChanges
  <2>5. Within(S2, Replicas, T) + Cardinality(v.serving \cap T)
          = Within(S, Replicas, T) + Cardinality(w.serving \cap T)
    BY <1>7, <1>8, ReplicasFinite, WithinChanges
  <2>6. Load(w, a) = Load(v, a) + Count(in, T)  BY DEF Handled, v
  <2>7. /\ Count(v.queue, T) \in Nat /\ Cardinality(v.serving \cap T) \in Nat
        /\ Count(w.queue, T) \in Nat /\ Cardinality(w.serving \cap T) \in Nat
        /\ Count(w.out, SentAbout(a)) \in Nat
    BY <1>1, StateIs DEF v
  <2>8. Count(v.out, SentAbout(a)) = 0  BY <1>1, CountNoMessage DEF v
  <2>9. Count(in, T) \in Nat  BY <1>3, TakenIs
  <2>10. /\ Load(v, a) = Count(v.queue, T) + Cardinality(v.serving \cap T)
         /\ Load(w, a) = Count(w.queue, T) + Cardinality(w.serving \cap T) + Count(w.out, SentAbout(a))
    BY <2>7, <2>8 DEF Load
  <2>11. /\ Where(rp, lb, bx, a) = Across(bx, Places, T) + Across(Q, Replicas, T) + B + Within(S, Replicas, T)
         /\ Where(rq, lb, by, a) = Across(by, Places, T) + Across(Q2, Replicas, T) + B + Within(S2, Replicas, T)
    BY DEF Where, Q, S, Q2, S2
  <2> HIDE DEF T, B
  <2>12. Count(w.queue, T) + Cardinality(w.serving \cap T) + Count(w.out, SentAbout(a))
           = Count(v.queue, T) + Cardinality(v.serving \cap T) + Count(in, T)
    BY <2>6, <2>10, Zenon
  <2>13. Across(by, Places, T) + Across(Q2, Replicas, T) + B + Within(S2, Replicas, T)
           = Across(bx, Places, T) + Across(Q, Replicas, T) + B + Within(S, Replicas, T)
    BY ONLY <2>1, <2>2, <2>3, <2>4, <2>5, <2>7, <2>9, <2>12, SumStays
  <2> QED BY <2>11, <2>13, Zenon
<1> QED BY <1>2, <1>4, <1>9 DEF rq, by

LEMMA ReadyHere ==
  ASSUME Basics, NEW r \in Replicas, NEW in, NEW boxes, Taken(inbox, r, in, boxes)
  PROVE  Ready(policy, r, replica[r], in)
<1>1. /\ ReplicasTyped(policy, replica) /\ BalancersTyped(policy, balancer) /\ Boxes(policy, inbox)
      /\ Steady(policy, r, replica[r])
      /\ \A a \in Requests : Where(replica, balancer, inbox, a) = OneIf(a \in arrived)
  BY DEF Basics, AllSteady, Placed
<1>2. Resting(policy, r, replica[r])  BY <1>1, ReplicaRests
<1>3. ASSUME NEW a \in Requests
      PROVE  Load(replica[r], a) + Count(in, About(a)) <= 1
  <2>1. Load(replica[r], a) + Count(in, About(a)) <= Where(replica, balancer, inbox, a)
    BY <1>1, HereIsPart
  <2>2. Where(replica, balancer, inbox, a) = 0 \/ Where(replica, balancer, inbox, a) = 1
    BY <1>1 DEF OneIf
  <2>3. Load(replica[r], a) \in Nat  BY <1>1, ReplicaTyped, LoadIs
  <2>4. Count(in, About(a)) \in Nat
    <3>1. r \in Places  BY DEF Places
    <3> QED BY <1>1, <3>1, TakenIs
  <2> QED BY <2>1, <2>2, <2>3, <2>4
<1> QED BY <1>1, <1>2, <1>3 DEF Resting, Ready, Steady

LEMMA HeadReceived ==
  ASSUME Basics, NEW r \in Replicas, inbox[r] # <<>>
  PROVE  LET m == Head(inbox[r]) IN
         /\ m \in Work(policy, r) \cup Intents(policy, r)
         /\ Taken(inbox, r, <<m>>, Rest(r))
         /\ Ready(policy, r, replica[r], <<m>>)
<1>1. Taken(inbox, r, <<Head(inbox[r])>>, Rest(r))  BY DEF Taken, Rest
<1>2. Ready(policy, r, replica[r], <<Head(inbox[r])>>)  BY <1>1, ReadyHere
<1>3. inbox[r] \in Seq(Mail(policy, r))  BY DEF Basics, Boxes, Places
<1>4. Head(inbox[r]) \in Mail(policy, r)  BY <1>3, PopFront
<1> QED BY <1>1, <1>2, <1>4, MailIs

LEMMA KindsApart ==
  ASSUME NEW r, NEW m
  PROVE  /\ m \in Work(policy, r) => m.kind \in {"upstream", "return"}
         /\ m \in Intents(policy, r) => m.kind = "intent"
BY DEF Work, Intents, PullIntent

LEMMA StartPulledSteps ==
  ASSUME Basics, NEW r \in Replicas, StartPulled(r)
  PROVE  \E in, boxes, w : Handles(r, in, boxes, w)
<1> DEFINE h == Head(inbox[r])
           w == BeginService(IF policy = "amphiqueue"
                    THEN [replica[r] EXCEPT !.pending_pulls = SaturatingDec(@)] ELSE replica[r], h)
<1>1. inbox[r] # <<>> /\ h.kind = "upstream" /\ h.slot /\ ~UsesJbsq(r) /\ Becomes(r, w, Rest(r))
  BY DEF StartPulled, Receives
<1>2. h \in Work(policy, r) /\ Taken(inbox, r, <<h>>, Rest(r)) /\ Ready(policy, r, replica[r], <<h>>)
  BY <1>1, HeadReceived, KindsApart
<1>3. config \in Configs  BY DEF Basics
<1>4. Done(policy, r, replica[r], <<h>>, w)
  BY <1>1, <1>2, <1>3, StartPulledHandles
<1> HIDE DEF h, w
<1> QED BY <1>1, <1>2, <1>4 DEF Handles

LEMMA EnqueuePulledSteps ==
  ASSUME Basics, NEW r \in Replicas, EnqueuePulled(r)
  PROVE  \E in, boxes, w : Handles(r, in, boxes, w)
<1> DEFINE h == Head(inbox[r])
           w == DrainQueue([replica[r] EXCEPT !.pending_pulls = SaturatingDec(@),
                            !.queue = Enqueue(@, h, config.scheduling = "edf")], r)
<1>1. inbox[r] # <<>> /\ h.kind = "upstream" /\ h.slot /\ UsesJbsq(r) /\ Becomes(r, w, Rest(r))
  BY DEF EnqueuePulled, Receives
<1>2. h \in Work(policy, r) /\ Taken(inbox, r, <<h>>, Rest(r)) /\ Ready(policy, r, replica[r], <<h>>)
  BY <1>1, HeadReceived, KindsApart
<1>3. config \in Configs  BY DEF Basics
<1>4. Done(policy, r, replica[r], <<h>>, w)
  BY <1>1, <1>2, <1>3, EnqueuePulledHandles
<1> HIDE DEF h, w
<1> QED BY <1>1, <1>2, <1>4 DEF Handles

LEMMA EnqueueWorkSteps ==
  ASSUME Basics, NEW r \in Replicas, EnqueueWork(r)
  PROVE  \E in, boxes, w : Handles(r, in, boxes, w)
<1> DEFINE h == Head(inbox[r])
           w == DrainQueue([replica[r] EXCEPT !.queue = Enqueue(@, h, config.scheduling = "edf")], r)
<1>1. inbox[r] # <<>> /\ h.kind \in {"upstream", "return"} /\ ~h.slot /\ Becomes(r, w, Rest(r))
  BY DEF EnqueueWork, Receives
<1>2. h \in Work(policy, r) /\ Taken(inbox, r, <<h>>, Rest(r)) /\ Ready(policy, r, replica[r], <<h>>)
  BY <1>1, HeadReceived, KindsApart
<1>3. config \in Configs  BY DEF Basics
<1>4. Done(policy, r, replica[r], <<h>>, w)
  BY <1>1, <1>2, <1>3, EnqueueWorkHandles
<1> HIDE DEF h, w
<1> QED BY <1>1, <1>2, <1>4 DEF Handles

LEMMA ReceivePullIntentSteps ==
  ASSUME Basics, NEW r \in Replicas, ReceivePullIntent(r)
  PROVE  \E in, boxes, w : Handles(r, in, boxes, w)
<1> DEFINE h == Head(inbox[r])
           w == DrainPullIntents(
                  [replica[r] EXCEPT !.pull_intents = Enqueue(@, h, config.pull_sched = "edf+")], r)
<1>1. inbox[r] # <<>> /\ h.kind = "intent" /\ Becomes(r, w, Rest(r))
  BY DEF ReceivePullIntent, Receives
<1>2. h \in Intents(policy, r) /\ Taken(inbox, r, <<h>>, Rest(r)) /\ Ready(policy, r, replica[r], <<h>>)
  BY <1>1, HeadReceived, KindsApart
<1>3. config \in Configs  BY DEF Basics
<1>4. Done(policy, r, replica[r], <<h>>, w)
  BY <1>2, <1>3, ReceivePullIntentHandles
<1> HIDE DEF h, w
<1> QED BY <1>1, <1>2, <1>4 DEF Handles

LEMMA RequestPullSteps ==
  ASSUME Basics, NEW r \in Replicas, RequestPull(r)
  PROVE  \E in, boxes, w : Handles(r, in, boxes, w)
<1> DEFINE w == RequestPullState(replica[r], r)
<1>1. replica[r].warm > 0 /\ Becomes(r, w, inbox)
  BY DEF RequestPull, RequestPullState
<1>2. Taken(inbox, r, <<>>, inbox)  BY DEF Taken
<1>3. Ready(policy, r, replica[r], <<>>) /\ config \in Configs /\ Warms(policy, r, replica[r])
  BY <1>2, ReadyHere DEF Basics, AllSteady, Steady
<1> HIDE DEF w
<1>4. Done(policy, r, replica[r], <<>>, w)
  BY <1>1, <1>3, RequestPullHandles DEF w
<1> QED BY <1>1, <1>2, <1>4 DEF Handles

LEMMA CompleteSteps ==
  ASSUME Basics, NEW r \in Replicas, NEW h \in replica[r].serving, Complete(r, h)
  PROVE  \E in, boxes, w : Handles(r, in, boxes, w)
<1> DEFINE w == CompleteState(replica[r], r, h)
<1>1. Becomes(r, w, inbox)  BY DEF Complete, Served, CompleteState, GoneOn
<1>2. Taken(inbox, r, <<>>, inbox)  BY DEF Taken
<1>3. Ready(policy, r, replica[r], <<>>) /\ config \in Configs
  BY <1>2, ReadyHere DEF Basics
<1> HIDE DEF w
<1>4. Done(policy, r, replica[r], <<>>, w)  BY <1>3, CompleteHandles DEF w
<1> QED BY <1>1, <1>2, <1>4 DEF Handles

LEMMA ReplicaSteps ==
  ASSUME Basics, NEW r \in Replicas,
         Handle(r) \/ RequestPull(r) \/ \E h \in replica[r].serving : Complete(r, h)
  PROVE  \E in, boxes, w : Handles(r, in, boxes, w)
BY StartPulledSteps, EnqueuePulledSteps, EnqueueWorkSteps, ReceivePullIntentSteps, RequestPullSteps,
   CompleteSteps DEF Handle

-----------------------------------------------------------------------------
(* What a balancer's handlers are made of *)

LEMMA AboutHop ==
  ASSUME NEW h \in Hop
  PROVE  \A a : h \in About(a) <=> h.req = a
BY DEF About, HopsOf, Hop

LEMMA AboutOther ==
  ASSUME NEW m, m.kind \in {"pull", "release", "intent"}
  PROVE  \A a : m \notin About(a)
BY DEF About, HopsOf, Hop

LEMMA FramesMarked ==
  ASSUME NEW c \in Seq(Frames), NEW s \in Replicas
  PROVE  [c EXCEPT ![1].server = s] \in Seq(Frames)
<1>1. CASE c = <<>>
  <2>1. [c EXCEPT ![1].server = s] = c  BY <1>1
  <2> QED BY <2>1
<1>2. CASE c # <<>>
  <2> DEFINE f == [c[1] EXCEPT !.server = s]
  <2>1. c[1] \in Frames /\ 1 \in 1 .. Len(c)  BY <1>2
  <2>2. f \in Frames  BY <2>1 DEF Frames, Frame
  <2>3. [c EXCEPT ![1].server = s] = [c EXCEPT ![1] = f]  OBVIOUS
  <2> HIDE DEF f
  <2>4. [c EXCEPT ![1] = f] \in Seq(Frames)  BY <2>1, <2>2
  <2> QED BY <2>3, <2>4
<1> QED BY <1>1, <1>2

LEMMA DispatchedIs ==
  ASSUME config \in Configs, NEW b \in Balancers, NEW h \in Calls(policy, b), NEW s \in ServersOf[b]
  PROVE  Dispatch(policy, h, s, Dispatched(h, s))
<1> DEFINE d == Dispatched(h, s)
<1>1. policy \in Policies  BY PolicyIs
<1>2. s \in Replicas /\ s[1] = TargetOf(b)  BY BalancerServes
<1>3. h \in Hop /\ h.callers \in Seq(Frames) /\ ~h.slot /\ b \in Used[policy]
      /\ ServiceOf[h.endpoint] = TargetOf(b)
  BY DEF Calls, Hopping
<1>4. s \in Serving[policy]  BY <1>1, <1>3, UsedAre
<1>5. policy \in PushPolicies <=> policy \notin PullPolicies
  BY <1>1, PoliciesAre DEF PushPolicies, PullPolicies, CentralPullPolicies
<1>6. /\ d \in Hopping /\ d.kind = "upstream" /\ d.req = h.req /\ d.endpoint = h.endpoint
      /\ d.slot <=> policy \in PullPolicies
  <2>1. CASE policy \in PushPolicies
    <3> DEFINE c == [h.callers EXCEPT ![1].server = s]
    <3>1. c \in Seq(Frames)  BY <1>2, <1>3, FramesMarked
    <3>2. d = [h EXCEPT !.kind = "upstream", !.callers = c]
      BY <2>1 DEF Dispatched
    <3>3. Frames \subseteq Frame  BY DEF Frames
    <3>4. c \in Seq(Frame)  BY <3>1, <3>3
    <3> HIDE DEF c, d
    <3>5. d \in Hop /\ d.callers = c /\ d.kind = "upstream" /\ d.req = h.req
          /\ d.endpoint = h.endpoint /\ d.slot = h.slot
      BY <1>3, <3>2, <3>4 DEF Hop
    <3> QED BY <1>3, <1>5, <2>1, <3>1, <3>5 DEF Hopping
  <2>2. CASE policy \notin PushPolicies
    <3>1. d = [h EXCEPT !.kind = "upstream", !.slot = TRUE]
      BY <2>2 DEF Dispatched
    <3> HIDE DEF d
    <3>2. d \in Hop /\ d.callers = h.callers /\ d.kind = "upstream" /\ d.req = h.req
          /\ d.endpoint = h.endpoint /\ d.slot
      BY <1>3, <3>1 DEF Hop
    <3> QED BY <1>3, <1>5, <2>2, <3>2 DEF Hopping
  <2> QED BY <2>1, <2>2
<1> HIDE DEF d
<1>7. d \in Work(policy, s)
  <2>1. ServiceOf[d.endpoint] = s[1] /\ d.kind \in {"upstream", "return"}
    BY <1>2, <1>3, <1>6
  <2>2. /\ d.slot => d.kind = "upstream" /\ s \in Serving[policy] /\ policy \in PullPolicies
        /\ (d.kind = "upstream" /\ s \in Serving[policy] /\ policy \in PullPolicies /\ EntriesApart) => d.slot
    BY <1>4, <1>6
  <2> QED BY ONLY <1>6, <2>1, <2>2 DEF Work
<1>8. s \in Places  BY <1>2 DEF Places
<1>9. [to |-> s, msg |-> d] \in Sends(policy)
  <2>0. Mail(policy, s) = Work(policy, s) \cup Intents(policy, s)
    BY ONLY <1>2, MailIs
  <2>1. d \in Mail(policy, s)  BY ONLY <1>7, <2>0
  <2> QED BY <1>8, <2>1, SendIs
<1>10. Dispatch(policy, h, s, d)  BY <1>2, <1>6, <1>7, <1>8, <1>9 DEF Dispatch
<1> QED BY <1>10 DEF d

-----------------------------------------------------------------------------
LEMMA LbFields ==
  ASSUME NEW p, NEW b, NEW u \in Lb(p, b)
  PROVE  /\ u.queue \in Seq(Held(p, b)) /\ u.waiting \in Seq(Parked(p, b))
         /\ u.inflight \in [ServersOf[b] -> Nat] /\ u.pull_intent_load \in [ServersOf[b] -> Nat]
         /\ \A T : Count(u.queue, T) \in Nat /\ Count(u.waiting, T) \in Nat
<1>1. /\ u.queue \in Seq(Held(p, b)) /\ u.waiting \in Seq(Parked(p, b))
      /\ u.inflight \in [ServersOf[b] -> Nat] /\ u.pull_intent_load \in [ServersOf[b] -> Nat]
  BY DEF Lb
<1>2. \A T : Count(u.queue, T) \in Nat /\ Count(u.waiting, T) \in Nat
  <2> TAKE T
  <2> QED BY <1>1, CountFinite
<1> QED BY <1>1, <1>2

(* Nothing waits but under the policies where it may. *)
LEMMA WhatWaits ==
  ASSUME NEW p, NEW b, NEW u \in Lb(p, b)
  PROVE  /\ p \notin CentralPullPolicies => u.waiting = <<>>
         /\ p \notin PullPolicies => u.queue = <<>>
<1>1. u.queue \in Seq(Held(p, b)) /\ u.waiting \in Seq(Parked(p, b))
  BY LbFields
<1>2. p \notin CentralPullPolicies => Parked(p, b) = {}  BY DEF Parked
<1>3. p \notin PullPolicies => Held(p, b) = {}  BY DEF Held
<1>4. \A q \in Seq({}) : q = <<>>  OBVIOUS
<1> QED BY <1>1, <1>2, <1>3, <1>4

LEMMA DispatchSends ==
  ASSUME NEW p, NEW h \in Hop, NEW s, NEW d, Dispatch(p, h, s, d)
  PROVE  SendsCall(p, h, s, <<[to |-> s, msg |-> d]>>)
<1> DEFINE o == [to |-> s, msg |-> d]
           out == <<o>>
<1>1. o \in Sends(p) /\ o.to = s /\ o.msg = d  BY DEF Dispatch
<1>2. d \in Hop /\ d.kind = "upstream" /\ d.req = h.req /\ s \in Places /\ (d.slot <=> p \in PullPolicies)
  BY DEF Dispatch, Work, Hopping
<1>3. \A T : Count(out, T) = OneIf(o \in T)  BY CountOne
<1>4. out \in Seq(Sends(p))  BY <1>1
<1>5. \A a : o \in SentAbout(a) <=> h \in About(a)
  <2>1. \A a : d \in About(a) <=> h \in About(a)  BY <1>2, AboutHop
  <2> QED BY <1>2, <2>1 DEF SentAbout
<1>6. \A x : o \in [to : {x}, msg : Pulled] <=> x = s /\ p \in PullPolicies
  BY <1>2 DEF Pulled
<1>7. \A D, x : o \notin [to : D, msg : AskBy(x)]  BY <1>2 DEF AskBy, Pull
<1> HIDE DEF o, out
<1>8. \A a : Count(out, SentAbout(a)) = OneIf(h \in About(a))
  BY <1>3, <1>5 DEF OneIf
<1>9. \A x : Count(out, [to : {x}, msg : Pulled]) = OneIf(x = s /\ p \in PullPolicies)
  BY <1>3, <1>6 DEF OneIf
<1>10. \A D, x : Count(out, [to : D, msg : AskBy(x)]) = 0
  BY <1>3, <1>7 DEF OneIf
<1> QED BY <1>4, <1>8, <1>9, <1>10 DEF out, o, SendsCall

LEMMA CallIs ==
  ASSUME NEW p, NEW b, NEW m \in Calls(p, b)
  PROVE  /\ m \in Hop /\ m.kind = "call" /\ ~m.slot /\ b \in Used[p]
         /\ \A s : OneIf(m \in AskBy(s)) = 0
BY DEF Calls, Hopping, AskBy, Pull, OneIf

LEMMA PullIs ==
  ASSUME NEW p, NEW b, NEW m \in Pulls(p, b)
  PROVE  /\ m.kind = "pull" /\ m.server \in ServersOf[b] /\ b \in Used[p] /\ p \in PullPolicies
         /\ \A a : OneIf(m \in About(a)) = 0
         /\ \A s : OneIf(m \in AskBy(s)) = OneIf(m.server = s)
<1>1. m \in Pull /\ m.kind = "pull" /\ m.server \in ServersOf[b] /\ b \in Used[p] /\ p \in PullPolicies
  BY DEF Pulls, Pull
<1>2. \A a : m \notin About(a)  BY <1>1, AboutOther
<1>3. \A s : m \in AskBy(s) <=> m.server = s  BY <1>1 DEF AskBy
<1> QED BY <1>1, <1>2, <1>3 DEF OneIf

LEMMA PushCallRoutes ==
  ASSUME config \in Configs, policy \in PushPolicies, NEW b \in Balancers, NEW m \in Calls(policy, b),
         NEW u \in Lb(policy, b), NEW s \in ServersOf[b]
  PROVE  Routed(policy, b, u, m, [u EXCEPT !.inflight[s] = @ + 1],
                << [to |-> s, msg |-> Dispatched(m, s)] >>)
<1> DEFINE p == policy
           d == Dispatched(m, s)
           out == <<[to |-> s, msg |-> d]>>
           v == [u EXCEPT !.inflight[s] = @ + 1]
           n == [u.inflight EXCEPT ![s] = @ + 1]
<1>1. m \in Hop /\ \A x : OneIf(m \in AskBy(x)) = 0  BY CallIs
<1>2. Dispatch(p, m, s, d)  BY DispatchedIs
<1> HIDE DEF d
<1>3. /\ out \in Seq(Sends(p))
      /\ \A a : Count(out, SentAbout(a)) = OneIf(m \in About(a))
      /\ \A x : Count(out, [to : {x}, msg : Pulled]) = OneIf(x = s /\ p \in PullPolicies)
      /\ \A D, x : Count(out, [to : D, msg : AskBy(x)]) = 0
  <2>1. SendsCall(p, m, s, out)  BY <1>1, <1>2, DispatchSends
  <2> QED BY <2>1 DEF SendsCall
<1>4. /\ u.inflight \in [ServersOf[b] -> Nat]
      /\ \A T : Count(u.queue, T) \in Nat /\ Count(u.waiting, T) \in Nat
  BY LbFields
<1>5. p \notin PullPolicies /\ u.waiting = <<>>
  BY WhatWaits DEF PushPolicies, PullPolicies, CentralPullPolicies
<1>6. n \in [ServersOf[b] -> Nat]  BY <1>4
<1>7. v = [u EXCEPT !.inflight = n]  BY DEF Lb
<1> HIDE DEF v, n, out
<1>8. v \in Lb(p, b) /\ v.queue = u.queue /\ v.waiting = u.waiting
  BY <1>6, <1>7 DEF Lb
<1>9. Apart(v)  BY <1>5, <1>8 DEF Apart
<1>10. \A x : OneIf(x = s /\ p \in PullPolicies) = 0  BY <1>5 DEF OneIf
<1>11. \A a : OneIf(m \in About(a)) \in Nat  BY DEF OneIf
<1>12. \A a : Count(v.queue, About(a)) + Count(out, SentAbout(a))
                = Count(u.queue, About(a)) + OneIf(m \in About(a))
  BY <1>3, <1>8
<1>13. \A x \in Replicas : OneIf(m \in AskBy(x)) + Count(u.waiting, {x})
                = Count(v.waiting, {x}) + Count(out, [to : {x}, msg : Pulled])
  <2> TAKE x \in Replicas
  <2>1. Count(u.waiting, {x}) \in Nat  BY <1>4
  <2>2. Count(out, [to : {x}, msg : Pulled]) = 0  BY <1>3, <1>10
  <2> QED BY <1>1, <1>8, <2>1, <2>2
<1> QED BY <1>3, <1>8, <1>9, <1>12, <1>13 DEF Routed, v, out, d

LEMMA AnnounceCallRoutes ==
  ASSUME config \in Configs, policy = "amphiqueue", NEW b \in Balancers, NEW m \in Calls(policy, b),
         NEW u \in Lb(policy, b), NEW s \in ServersOf[b], NEW e
  PROVE  Routed(policy, b, u, m,
                [u EXCEPT !.queue = Enqueue(@, m, e), !.pull_intent_load[s] = @ + 1],
                << [to |-> s, msg |-> [kind |-> "intent", lb |-> b, req |-> m.req]] >>)
<1> DEFINE p == policy
           i == [kind |-> "intent", lb |-> b, req |-> m.req]
           o == [to |-> s, msg |-> i]
           out == <<o>>
           q == Enqueue(u.queue, m, e)
           v == [u EXCEPT !.queue = Enqueue(@, m, e), !.pull_intent_load[s] = @ + 1]
           n == [u.pull_intent_load EXCEPT ![s] = @ + 1]
<1>1. m \in Hop /\ (\A x : OneIf(m \in AskBy(x)) = 0) /\ b \in Used[p]
  BY CallIs
<1>2. /\ u.queue \in Seq(Held(p, b)) /\ u.pull_intent_load \in [ServersOf[b] -> Nat]
      /\ \A T : Count(u.queue, T) \in Nat /\ Count(u.waiting, T) \in Nat
  BY LbFields
<1>3. u.waiting = <<>>  BY WhatWaits DEF CentralPullPolicies
<1>4. m \in Held(p, b)  BY DEF Held, PullPolicies
<1>5. Enqueued(Held(p, b), u.queue, m, q)  BY <1>2, <1>4, EnqueueAdds
<1> HIDE DEF q
<1>6. q \in Seq(Held(p, b)) /\ \A T : Count(q, T) = Count(u.queue, T) + OneIf(m \in T)
  BY <1>5 DEF Enqueued
<1>7. n \in [ServersOf[b] -> Nat]  BY <1>2
<1>8. v = [u EXCEPT !.queue = q, !.pull_intent_load = n]  BY DEF Lb, q
<1> HIDE DEF v, n
<1>9. v \in Lb(p, b) /\ v.queue = q /\ v.waiting = u.waiting
  BY <1>6, <1>7, <1>8 DEF Lb
<1>10. s \in Replicas /\ s \in Places  BY BalancerServes DEF Places
<1>11. i \in Intents(p, s)
  <2>1. m.req \in Requests  BY <1>1 DEF Hop
  <2> QED BY <1>1, <2>1 DEF Intents, PullIntent
<1>12. o \in Sends(p)
  <2>1. i \in Mail(p, s)  BY <1>10, <1>11, MailIs
  <2> QED BY <1>10, <2>1, SendIs
<1>13. out \in Seq(Sends(p))  BY <1>12
<1>14. \A T : Count(out, T) = OneIf(o \in T)  BY CountOne
<1>15. i.kind = "intent" /\ o.msg = i  OBVIOUS
<1>16. \A a : o \notin SentAbout(a)  BY <1>15, AboutOther DEF SentAbout
<1>17. \A x : o \notin [to : {x}, msg : Pulled]  BY <1>15 DEF Pulled
<1>18. \A D, x : o \notin [to : D, msg : AskBy(x)]  BY <1>15 DEF AskBy, Pull
<1> HIDE DEF o, out, i
<1>19. /\ \A a : Count(out, SentAbout(a)) = 0
       /\ \A x : Count(out, [to : {x}, msg : Pulled]) = 0
       /\ \A D, x : Count(out, [to : D, msg : AskBy(x)]) = 0
  BY <1>14, <1>16, <1>17, <1>18 DEF OneIf
<1>20. Apart(v)  BY <1>3, <1>9 DEF Apart
<1>21. \A a : Count(v.queue, About(a)) + Count(out, SentAbout(a))
                = Count(u.queue, About(a)) + OneIf(m \in About(a))
  <2> TAKE a
  <2>1. OneIf(m \in About(a)) \in Nat /\ Count(u.queue, About(a)) \in Nat
    BY <1>2 DEF OneIf
  <2>2. Count(q, About(a)) = Count(u.queue, About(a)) + OneIf(m \in About(a)) /\ v.queue = q
    BY <1>6, <1>9
  <2>3. Count(out, SentAbout(a)) = 0  BY <1>19
  <2> QED BY <2>1, <2>2, <2>3
<1>22. \A x \in Replicas : OneIf(m \in AskBy(x)) + Count(u.waiting, {x})
                = Count(v.waiting, {x}) + Count(out, [to : {x}, msg : Pulled])
  <2> TAKE x \in Replicas
  <2>1. Count(u.waiting, {x}) \in Nat  BY <1>2
  <2> QED BY <1>1, <1>9, <1>19, <2>1
<1> QED BY <1>9, <1>13, <1>19, <1>20, <1>21, <1>22 DEF Routed, v, out, o, i

(* A pull that takes a call *)
LEMMA PullAnswered ==
  ASSUME config \in Configs, NEW b \in Balancers, NEW m \in Pulls(policy, b),
         NEW u \in Lb(policy, b), u.waiting = <<>>, NEW h \in Held(policy, b),
         NEW v \in Lb(policy, b), v.waiting = <<>>,
         \A T : Count(u.queue, T) = Count(v.queue, T) + OneIf(h \in T)
  PROVE  Routed(policy, b, u, m, v, << [to |-> m.server, msg |-> Dispatched(h, m.server)] >>)
<1> DEFINE p == policy
           s == m.server
           out == <<[to |-> s, msg |-> Dispatched(h, s)]>>
<1>1. /\ s \in ServersOf[b] /\ p \in PullPolicies
      /\ \A a : OneIf(m \in About(a)) = 0
      /\ \A x : OneIf(m \in AskBy(x)) = OneIf(s = x)
  BY PullIs
<1>2. h \in Calls(p, b) /\ h \in Hop  BY DEF Held, Calls, Hopping
<1> HIDE DEF s
<1>3. SendsCall(p, h, s, out)
  <2>1. Dispatch(p, h, s, Dispatched(h, s))  BY <1>1, <1>2, DispatchedIs
  <2> QED BY <1>2, <2>1, DispatchSends
<1> HIDE DEF out
<1>4. /\ out \in Seq(Sends(p))
      /\ \A a : Count(out, SentAbout(a)) = OneIf(h \in About(a))
      /\ \A x : Count(out, [to : {x}, msg : Pulled]) = OneIf(x = s /\ p \in PullPolicies)
      /\ \A D, x : Count(out, [to : D, msg : AskBy(x)]) = 0
  BY <1>3 DEF SendsCall
<1>5. Apart(v)  BY DEF Apart
<1>6. \A a : Count(v.queue, About(a)) + Count(out, SentAbout(a))
                = Count(u.queue, About(a)) + OneIf(m \in About(a))
  <2> TAKE a
  <2>1. Count(v.queue, About(a)) \in Nat /\ OneIf(h \in About(a)) \in Nat
    BY LbFields DEF OneIf
  <2>2. Count(u.queue, About(a)) = Count(v.queue, About(a)) + OneIf(h \in About(a))
    OBVIOUS
  <2> QED BY <1>1, <1>4, <2>1, <2>2
<1>7. \A x \in Replicas : OneIf(m \in AskBy(x)) + Count(u.waiting, {x})
                = Count(v.waiting, {x}) + Count(out, [to : {x}, msg : Pulled])
  <2> TAKE x \in Replicas
  <2>1. Count(u.waiting, {x}) = 0 /\ Count(v.waiting, {x}) = 0
    BY CountNoMessage
  <2>2. OneIf(m \in AskBy(x)) = OneIf(s = x) /\ Count(out, [to : {x}, msg : Pulled]) = OneIf(s = x)
    BY <1>1, <1>4 DEF OneIf
  <2>3. OneIf(s = x) \in Nat  BY DEF OneIf
  <2> QED BY <2>1, <2>2, <2>3
<1> QED BY <1>4, <1>5, <1>6, <1>7 DEF Routed, out, s

(* A pull that is parked *)
LEMMA PullParked ==
  ASSUME config \in Configs, policy \in CentralPullPolicies, NEW b \in Balancers,
         NEW m \in Pulls(policy, b), NEW u \in Lb(policy, b), u.queue = <<>>
  PROVE  Routed(policy, b, u, m, [u EXCEPT !.waiting = Append(@, m.server)], <<>>)
<1> DEFINE p == policy
           s == m.server
           v == [u EXCEPT !.waiting = Append(@, m.server)]
           w == Append(u.waiting, s)
<1>1. /\ s \in ServersOf[b] /\ p \in PullPolicies /\ b \in Used[p]
      /\ \A a : OneIf(m \in About(a)) = 0
      /\ \A x : OneIf(m \in AskBy(x)) = OneIf(s = x)
  BY PullIs
<1>2. s \in Parked(p, b)  BY <1>1 DEF Parked
<1>3. u.waiting \in Seq(Parked(p, b)) /\ \A T : Count(u.waiting, T) \in Nat /\ Count(u.queue, T) \in Nat
  BY LbFields
<1> HIDE DEF s
<1>4. w \in Seq(Parked(p, b)) /\ \A T : Count(w, T) = Count(u.waiting, T) + OneIf(s \in T)
  BY <1>2, <1>3, PushBack, CountPushBack DEF OneIf
<1>5. v = [u EXCEPT !.waiting = w]  BY DEF Lb, s
<1> HIDE DEF v, w
<1>6. v \in Lb(p, b) /\ v.queue = u.queue /\ v.waiting = w
  BY <1>4, <1>5 DEF Lb
<1>7. Apart(v)  BY <1>6 DEF Apart
<1>8. \A a : Count(v.queue, About(a)) + Count(<<>>, SentAbout(a))
                = Count(u.queue, About(a)) + OneIf(m \in About(a))
  <2> TAKE a
  <2>1. Count(u.queue, About(a)) \in Nat /\ Count(<<>>, SentAbout(a)) = 0
    BY <1>3, CountNoMessage
  <2> QED BY <1>1, <1>6, <2>1
<1>9. \A x \in Replicas : OneIf(m \in AskBy(x)) + Count(u.waiting, {x})
                = Count(v.waiting, {x}) + Count(<<>>, [to : {x}, msg : Pulled])
  <2> TAKE x \in Replicas
  <2>1. Count(u.waiting, {x}) \in Nat /\ Count(<<>>, [to : {x}, msg : Pulled]) = 0
    BY <1>3, CountNoMessage
  <2>2. OneIf(m \in AskBy(x)) = OneIf(s = x) /\ OneIf(s \in {x}) = OneIf(s = x)
    BY <1>1 DEF OneIf
  <2>3. OneIf(s = x) \in Nat  BY DEF OneIf
  <2>4. Count(v.waiting, {x}) = Count(u.waiting, {x}) + OneIf(s = x)
    BY <1>4, <1>6, <2>2
  <2> QED BY <2>1, <2>2, <2>3, <2>4
<1>10. <<>> \in Seq(Sends(p)) /\ \A D, x : Count(<<>>, [to : D, msg : AskBy(x)]) = 0
  BY CountNoMessage
<1> QED BY <1>6, <1>7, <1>8, <1>9, <1>10 DEF Routed, v

(* A call that waits *)
LEMMA CallParked ==
  ASSUME config \in Configs, policy \in CentralPullPolicies, NEW b \in Balancers,
         NEW m \in Calls(policy, b), NEW u \in Lb(policy, b), NEW v \in Lb(policy, b),
         u.waiting = <<>>, v.waiting = <<>>,
         Enqueued(Held(policy, b), u.queue, m, v.queue)
  PROVE  Routed(policy, b, u, m, v, <<>>)
<1> DEFINE p == policy
<1>1. \A x : OneIf(m \in AskBy(x)) = 0  BY CallIs
<1>2. \A T : Count(v.queue, T) = Count(u.queue, T) + OneIf(m \in T)
  BY DEF Enqueued
<1>3. Apart(v)  BY DEF Apart
<1>4. \A a : Count(v.queue, About(a)) + Count(<<>>, SentAbout(a))
                = Count(u.queue, About(a)) + OneIf(m \in About(a))
  <2> TAKE a
  <2>1. Count(u.queue, About(a)) \in Nat /\ Count(<<>>, SentAbout(a)) = 0
    BY LbFields, CountNoMessage
  <2>2. OneIf(m \in About(a)) \in Nat  BY DEF OneIf
  <2> QED BY <1>2, <2>1, <2>2
<1>5. \A x \in Replicas : OneIf(m \in AskBy(x)) + Count(u.waiting, {x})
                = Count(v.waiting, {x}) + Count(<<>>, [to : {x}, msg : Pulled])
  BY <1>1, CountNoMessage
<1>6. <<>> \in Seq(Sends(p)) /\ \A D, x : Count(<<>>, [to : D, msg : AskBy(x)]) = 0
  BY CountNoMessage
<1> QED BY <1>3, <1>4, <1>5, <1>6 DEF Routed

(* A call that a parked pull takes *)
LEMMA CallAnswered ==
  ASSUME config \in Configs, policy \in CentralPullPolicies, NEW b \in Balancers,
         NEW m \in Calls(policy, b), NEW u \in Lb(policy, b), NEW v \in Lb(policy, b),
         u.queue = <<>>, v.queue = <<>>, u.waiting # <<>>, v.waiting = Tail(u.waiting)
  PROVE  Routed(policy, b, u, m, v,
                <<[to |-> Head(u.waiting), msg |-> Dispatched(m, Head(u.waiting))]>>)
<1> DEFINE p == policy
           s == Head(u.waiting)
           out == <<[to |-> s, msg |-> Dispatched(m, s)]>>
<1>1. m \in Hop /\ \A x : OneIf(m \in AskBy(x)) = 0  BY CallIs
<1>2. u.waiting \in Seq(Parked(p, b)) /\ v.waiting \in Seq(Parked(p, b))
  BY LbFields
<1>3. s \in ServersOf[b] /\ \A T : Count(u.waiting, T) = Count(v.waiting, T) + OneIf(s \in T)
  BY <1>2, PopFront, CountPopFront DEF OneIf, Parked
<1>4. p \in PullPolicies  BY DEF PullPolicies
<1> HIDE DEF s
<1>5. SendsCall(p, m, s, out)
  <2>1. Dispatch(p, m, s, Dispatched(m, s))  BY <1>3, DispatchedIs
  <2> QED BY <1>1, <2>1, DispatchSends
<1> HIDE DEF out
<1>6. /\ out \in Seq(Sends(p))
      /\ \A a : Count(out, SentAbout(a)) = OneIf(m \in About(a))
      /\ \A x : Count(out, [to : {x}, msg : Pulled]) = OneIf(x = s /\ p \in PullPolicies)
      /\ \A D, x : Count(out, [to : D, msg : AskBy(x)]) = 0
  BY <1>5 DEF SendsCall
<1>7. Apart(v)  BY DEF Apart
<1>8. \A a : Count(v.queue, About(a)) + Count(out, SentAbout(a))
                = Count(u.queue, About(a)) + OneIf(m \in About(a))
  BY <1>6
<1>9. \A x \in Replicas : OneIf(m \in AskBy(x)) + Count(u.waiting, {x})
                = Count(v.waiting, {x}) + Count(out, [to : {x}, msg : Pulled])
  <2> TAKE x \in Replicas
  <2>1. Count(v.waiting, {x}) \in Nat  BY LbFields
  <2>2. Count(out, [to : {x}, msg : Pulled]) = OneIf(s \in {x})
    BY <1>4, <1>6 DEF OneIf
  <2>3. OneIf(s \in {x}) \in Nat  BY DEF OneIf
  <2>4. Count(u.waiting, {x}) = Count(v.waiting, {x}) + OneIf(s \in {x})
    BY <1>3
  <2> QED BY <1>1, <2>1, <2>2, <2>3, <2>4
<1> QED BY <1>6, <1>7, <1>8, <1>9 DEF Routed, out, s

LEMMA QueuedStateIs ==
  ASSUME NEW p, NEW b, NEW u \in Lb(p, b), NEW q \in Seq(Held(p, b)), NEW k \in 0 .. Len(q),
         k <= Len(u.waiting)
  PROVE  Behind(p, b, QueuedState(u, q, u.waiting, k), q, u.waiting, k)
<1> DEFINE v == QueuedState(u, q, u.waiting, k)
           x == SubSeq(q, k + 1, Len(q))
           y == SubSeq(u.waiting, k + 1, Len(u.waiting))
           n == [s \in DOMAIN u.inflight |->
                   u.inflight[s] + Cardinality({i \in 1 .. k : u.waiting[i] = s})]
<1>1. u.waiting \in Seq(Parked(p, b)) /\ u.inflight \in [ServersOf[b] -> Nat]
  BY LbFields
<1>2. x \in Seq(Held(p, b)) /\ y \in Seq(Parked(p, b))
  <2>1. k \in 0 .. Len(u.waiting)  BY <1>1
  <2> QED BY <1>1, <2>1, RestOf
<1>3. n \in [ServersOf[b] -> Nat]
  <2>1. \A s : Cardinality({i \in 1 .. k : u.waiting[i] = s}) \in Nat
    <3> TAKE s
    <3>1. IsFiniteSet(1 .. k)  BY FS_Interval
    <3>2. IsFiniteSet({i \in 1 .. k : u.waiting[i] = s})  BY <3>1, FS_Subset
    <3> QED BY <3>2, FS_CardinalityType
  <2> DEFINE c == [s \in ServersOf[b] |-> Cardinality({i \in 1 .. k : u.waiting[i] = s})]
  <2>2. c \in [ServersOf[b] -> Nat]  BY <2>1
  <2>3. n = [s \in ServersOf[b] |-> u.inflight[s] + c[s]]  BY <1>1
  <2> HIDE DEF c, n
  <2> QED BY <1>1, <2>2, <2>3
<1>4. v = [u EXCEPT !.queue = x, !.waiting = y, !.inflight = n]
  BY DEF QueuedState, Lb
<1> HIDE DEF v, x, y, n
<1>5. v \in Lb(p, b) /\ v.queue = x /\ v.waiting = y
  BY <1>2, <1>3, <1>4 DEF Lb
<1> QED BY <1>5 DEF v, x, y, Behind

LEMMA QueuedSendsAre ==
  ASSUME NEW q, NEW w
  PROVE  /\ QueuedSends(q, w, 0) = <<>>
         /\ QueuedSends(q, w, 1) = <<[to |-> w[1], msg |-> Dispatched(q[1], w[1])]>>
<1> DEFINE f == [i \in 1 .. 1 |-> [to |-> w[i], msg |-> Dispatched(q[i], w[i])]]
           o == [to |-> w[1], msg |-> Dispatched(q[1], w[1])]
<1>1. QueuedSends(q, w, 0) = <<>>
  <2>1. 1 .. 0 = {}  OBVIOUS
  <2>2. [i \in {} |-> [to |-> w[i], msg |-> Dispatched(q[i], w[i])]] = <<>>
    OBVIOUS
  <2> QED BY <2>1, <2>2 DEF QueuedSends
<1>2. f = <<o>>
  <2>1. f[1] = o  OBVIOUS
  <2>2. f = [i \in 1 .. 1 |-> f[i]] /\ DOMAIN f = 1 .. 1  OBVIOUS
  <2>3. DOMAIN <<o>> = 1 .. 1 /\ <<o>>[1] = o  OBVIOUS
  <2> HIDE DEF f, o
  <2>4. f = [i \in 1 .. 1 |-> o]  BY <2>1, <2>2
  <2> QED BY <2>4
<1> QED BY <1>1, <1>2 DEF QueuedSends

LEMMA QueuedRoutes ==
  ASSUME config \in Configs, policy \in CentralPullPolicies, NEW b \in Balancers,
         NEW m \in Calls(policy, b), NEW u \in Lb(policy, b), Apart(u),
         NEW q, Enqueued(Held(policy, b), u.queue, m, q), NEW k, Pairs(q, u.waiting, k)
  PROVE  Routed(policy, b, u, m, QueuedState(u, q, u.waiting, k), QueuedSends(q, u.waiting, k))
<1> DEFINE p == policy
           w == u.waiting
           v == QueuedState(u, q, w, k)
           out == QueuedSends(q, w, k)
<1>1. u.queue \in Seq(Held(p, b)) /\ w \in Seq(Parked(p, b)) /\ Len(w) \in Nat
  BY LbFields
<1>4. q \in Seq(Held(p, b)) /\ Len(q) = Len(u.queue) + 1 /\ Len(u.queue) \in Nat /\ Len(q) \in Nat
  BY <1>1 DEF Enqueued
<1>5. k = IF Len(q) <= Len(w) THEN Len(q) ELSE Len(w)  BY DEF Pairs
<1>6. k \in 0 .. Len(q) /\ k <= Len(w)  BY <1>1, <1>4, <1>5
<1>7. Behind(p, b, v, q, w, k)  BY <1>4, <1>6, QueuedStateIs
<1> HIDE DEF v, out
<1>8. ASSUME w = <<>>
      PROVE  Routed(p, b, u, m, v, out)
  <2>1. k = 0  BY <1>4, <1>5, <1>8
  <2>2. v \in Lb(p, b) /\ v.queue = q
    BY <1>4, <1>7, <2>1, RestOfNone DEF Behind
  <2>3. v.waiting = w  BY <1>1, <1>7, <2>1, RestOfNone DEF Behind
  <2>4. out = <<>>  BY <2>1, QueuedSendsAre DEF out
  <2>5. Enqueued(Held(p, b), u.queue, m, v.queue)  BY <2>2
  <2>6. v.waiting = <<>>  BY <1>8, <2>3
  <2>7. Routed(p, b, u, m, v, <<>>)  BY <1>8, <2>2, <2>5, <2>6, CallParked
  <2> QED BY <2>4, <2>7
<1>9. ASSUME w # <<>>
      PROVE  Routed(p, b, u, m, v, out)
  <2>1. u.queue = <<>> /\ Len(q) = 1 /\ Len(w) >= 1
    BY <1>1, <1>4, <1>9 DEF Apart
  <2>2. k = 1  BY <1>1, <1>5, <2>1
  <2>3. q[1] = m
    <3>1. Count(q, {m}) = Count(u.queue, {m}) + OneIf(m \in {m})
      BY DEF Enqueued
    <3>2. Count(u.queue, {m}) = 0 /\ OneIf(m \in {m}) = 1
      BY <2>1, CountNoMessage DEF OneIf
    <3>3. Count(q, {m}) # 0  BY <3>1, <3>2
    <3>4. \E i \in DOMAIN q : q[i] \in {m}
      <4>1. SUFFICES ASSUME \A i \in DOMAIN q : q[i] \notin {m}
                     PROVE  FALSE
        OBVIOUS
      <4>2. {i \in DOMAIN q : q[i] \in {m}} = {}  BY <4>1
      <4>3. Count(q, {m}) = 0  BY <4>2, FS_EmptySet DEF Count
      <4> QED BY <3>3, <4>3
    <3>5. DOMAIN q = {1}  BY <1>4, <2>1
    <3> QED BY <3>4, <3>5
  <2>4. v \in Lb(p, b) /\ v.queue = <<>>
    <3>1. SubSeq(q, 1 + 1, Len(q)) = <<>>  BY <1>4, <2>1
    <3> QED BY <1>7, <2>2, <3>1 DEF Behind
  <2>5. v.waiting = Tail(w)  BY <1>1, <1>7, <1>9, <2>2, RestOfNone DEF Behind
  <2>6. Head(w) = w[1]  BY <1>1, <1>9, PopFront
  <2>7. out = <<[to |-> Head(w), msg |-> Dispatched(m, Head(w))]>>
    BY <2>2, <2>3, <2>6, QueuedSendsAre DEF out
  <2>8. Routed(p, b, u, m, v, <<[to |-> Head(w), msg |-> Dispatched(m, Head(w))]>>)
    BY <1>9, <2>1, <2>4, <2>5, CallAnswered
  <2> QED BY <2>7, <2>8
<1> QED BY <1>8, <1>9 DEF v, out

LEMMA QueueCallRoutes ==
  ASSUME config \in Configs, policy \in CentralPullPolicies, NEW b \in Balancers,
         NEW m \in Calls(policy, b), NEW u \in Lb(policy, b), Apart(u), NEW e
  PROVE  LET q == Enqueue(u.queue, m, e)
             k == Min({Len(q), Len(u.waiting)})
         IN Routed(policy, b, u, m, QueuedState(u, q, u.waiting, k), QueuedSends(q, u.waiting, k))
<1> DEFINE p == policy
           q == Enqueue(u.queue, m, e)
           k == Min({Len(q), Len(u.waiting)})
<1>1. u.queue \in Seq(Held(p, b)) /\ u.waiting \in Seq(Parked(p, b)) /\ Len(u.waiting) \in Nat
  BY LbFields
<1>2. m \in Held(p, b)  BY DEF Held, PullPolicies
<1>3. Enqueued(Held(p, b), u.queue, m, q)  BY <1>1, <1>2, EnqueueAdds
<1> HIDE DEF q
<1>4. Len(q) \in Nat  BY <1>3 DEF Enqueued
<1>5. Pairs(q, u.waiting, k)  BY <1>1, <1>4, MinOf DEF Pairs
<1> HIDE DEF k
<1>6. Routed(p, b, u, m, QueuedState(u, q, u.waiting, k), QueuedSends(q, u.waiting, k))
  BY <1>3, <1>5, QueuedRoutes
<1> QED BY <1>6 DEF q, k

LEMMA TakenStateIs ==
  ASSUME NEW p, NEW b, NEW u \in Lb(p, b), NEW i \in DOMAIN u.queue, NEW s \in ServersOf[b]
  PROVE  WithoutCall(p, b, u, i, s, TakenState(u, i, s))
<1> DEFINE v == TakenState(u, i, s)
           q == RemoveAt(u.queue, i)
           l == [u.pull_intent_load EXCEPT ![s] = SaturatingDec(@)]
           n == [u.inflight EXCEPT ![s] = @ + 1]
<1>1. /\ u.queue \in Seq(Held(p, b)) /\ u.inflight \in [ServersOf[b] -> Nat]
      /\ u.pull_intent_load \in [ServersOf[b] -> Nat]
  BY LbFields
<1>2. /\ q \in Seq(Held(p, b)) /\ Len(q) = Len(u.queue) - 1 /\ u.queue[i] \in Held(p, b)
      /\ Len(u.queue) \in Nat /\ Len(q) \in Nat
  <2>1. q \in Seq(Held(p, b)) /\ Len(q) = Len(u.queue) - 1
    BY <1>1, RemoveAtProperties
  <2>2. u.queue[i] \in Held(p, b) /\ Len(u.queue) \in Nat  BY <1>1
  <2> HIDE DEF q
  <2>3. Len(q) \in Nat  BY <2>1
  <2> QED BY <2>1, <2>2, <2>3
<1>3. \A T : Count(u.queue, T) = Count(q, T) + OneIf(u.queue[i] \in T)
  BY <1>1, CountRemoveAt DEF OneIf
<1>4. n \in [ServersOf[b] -> Nat]  BY <1>1
<1>5. l \in [ServersOf[b] -> Nat]
  <2>1. u.pull_intent_load[s] \in Nat  BY <1>1
  <2>2. SaturatingDec(u.pull_intent_load[s]) \in Nat  BY <2>1, DecIs
  <2> QED BY <1>1, <2>2
<1>6. v = [u EXCEPT !.queue = q, !.pull_intent_load = l, !.inflight = n]
  BY DEF Lb, TakenState
<1> HIDE DEF v, q, l, n
<1>7. v \in Lb(p, b) /\ v.queue = q /\ v.waiting = u.waiting /\ v.pull_intent_load = l
  BY <1>2, <1>4, <1>5, <1>6 DEF Lb
<1>8. Len(u.queue) = Len(q) + 1  BY <1>2
<1>9. v.pull_intent_load = [u.pull_intent_load EXCEPT ![s] = SaturatingDec(@)]
  BY <1>7 DEF l
<1>10. \A T : Count(u.queue, T) = Count(v.queue, T) + OneIf(u.queue[i] \in T)
  BY <1>3, <1>7
<1> QED BY <1>2, <1>7, <1>8, <1>9, <1>10 DEF WithoutCall, v

LEMMA AmphiPullRoutes ==
  ASSUME config \in Configs, policy = "amphiqueue", NEW b \in Balancers, NEW m \in Pulls(policy, b),
         NEW u \in Lb(policy, b), NEW i \in DOMAIN u.queue
  PROVE  Routed(policy, b, u, m, TakenState(u, i, m.server),
                << [to |-> m.server, msg |-> Dispatched(u.queue[i], m.server)] >>)
<1> DEFINE v == TakenState(u, i, m.server)
           h == u.queue[i]
<1>1. m.server \in ServersOf[b]  BY PullIs
<1>2. WithoutCall(policy, b, u, i, m.server, v)  BY <1>1, TakenStateIs
<1> HIDE DEF v
<1>3. u.waiting = <<>>  BY WhatWaits DEF CentralPullPolicies
<1>4. /\ v \in Lb(policy, b) /\ v.waiting = <<>> /\ h \in Held(policy, b)
      /\ \A T : Count(u.queue, T) = Count(v.queue, T) + OneIf(h \in T)
  BY <1>2, <1>3 DEF WithoutCall
<1> HIDE DEF h
<1>5. Routed(policy, b, u, m, v, << [to |-> m.server, msg |-> Dispatched(h, m.server)] >>)
  BY <1>3, <1>4, PullAnswered
<1> QED BY <1>5 DEF v, h

LEMMA CentralPullRoutes ==
  ASSUME config \in Configs, policy \in CentralPullPolicies, NEW b \in Balancers,
         NEW m \in Pulls(policy, b), NEW u \in Lb(policy, b), Apart(u), u.queue # <<>>
  PROVE  Routed(policy, b, u, m, [u EXCEPT !.queue = Tail(@), !.inflight[m.server] = @ + 1],
                << [to |-> m.server, msg |-> Dispatched(Head(u.queue), m.server)] >>)
<1> DEFINE s == m.server
           v == [u EXCEPT !.queue = Tail(@), !.inflight[s] = @ + 1]
           h == Head(u.queue)
           q == Tail(u.queue)
           n == [u.inflight EXCEPT ![s] = @ + 1]
           p == policy
<1>1. s \in ServersOf[b]  BY PullIs
<1>2. u.queue \in Seq(Held(p, b)) /\ u.inflight \in [ServersOf[b] -> Nat]
  BY LbFields
<1>3. q \in Seq(Held(p, b)) /\ h \in Held(p, b) /\ \A T : Count(u.queue, T) = Count(q, T) + OneIf(h \in T)
  BY <1>2, PopFront, CountPopFront DEF OneIf
<1>4. n \in [ServersOf[b] -> Nat]
  <2>1. u.inflight \in [ServersOf[b] -> Nat]  BY <1>2
  <2> HIDE DEF s
  <2> QED BY ONLY <1>1, <2>1
<1>5. v = [u EXCEPT !.queue = q, !.inflight = n]  BY DEF Lb
<1> HIDE DEF v, q, n, h
<1>6. v \in Lb(p, b) /\ v.queue = q /\ v.waiting = u.waiting
  BY <1>3, <1>4, <1>5 DEF Lb
<1>7. u.waiting = <<>>  BY DEF Apart
<1>8. v.waiting = <<>>  BY <1>6, <1>7
<1>9. \A T : Count(u.queue, T) = Count(v.queue, T) + OneIf(h \in T)
  BY <1>3, <1>6
<1>10. Routed(p, b, u, m, v, << [to |-> s, msg |-> Dispatched(h, s)] >>)
  BY <1>3, <1>6, <1>7, <1>8, <1>9, PullAnswered
<1> QED BY <1>10 DEF v, h

LEMMA ReleaseRoutes ==
  ASSUME NEW p, NEW b \in Balancers, NEW m \in Releases(p, b), NEW u \in Lb(p, b), Apart(u), NEW s
  PROVE  Routed(p, b, u, m, [u EXCEPT !.inflight[s] = SaturatingDec(@)], <<>>)
<1> DEFINE v == [u EXCEPT !.inflight[s] = SaturatingDec(@)]
           n == [u.inflight EXCEPT ![s] = SaturatingDec(@)]
<1>1. u.inflight \in [ServersOf[b] -> Nat] /\ \A T : Count(u.queue, T) \in Nat /\ Count(u.waiting, T) \in Nat
  BY LbFields
<1>2. n \in [ServersOf[b] -> Nat]
  <2>1. CASE s \in ServersOf[b]
    <3>1. SaturatingDec(u.inflight[s]) \in Nat  BY <1>1, <2>1, DecIs
    <3> QED BY <1>1, <3>1
  <2>2. CASE s \notin ServersOf[b]
    <3>1. n = u.inflight  BY <1>1, <2>2
    <3> QED BY <1>1, <3>1
  <2> QED BY <2>1, <2>2
<1>3. v = [u EXCEPT !.inflight = n]  BY DEF Lb
<1> HIDE DEF v, n
<1>4. v \in Lb(p, b) /\ v.queue = u.queue /\ v.waiting = u.waiting
  BY <1>2, <1>3 DEF Lb
<1>5. m.kind = "release"  BY DEF Releases, Release
<1>6. /\ \A a : OneIf(m \in About(a)) = 0
      /\ \A x : OneIf(m \in AskBy(x)) = 0
  BY <1>5, AboutOther DEF OneIf, AskBy, Pull
<1>7. Apart(v)  BY <1>4 DEF Apart
<1>8. \A a : Count(v.queue, About(a)) + Count(<<>>, SentAbout(a))
                = Count(u.queue, About(a)) + OneIf(m \in About(a))
  <2> TAKE a
  <2>1. Count(<<>>, SentAbout(a)) = 0 /\ Count(u.queue, About(a)) \in Nat
    BY <1>1, CountNoMessage
  <2> QED BY <1>4, <1>6, <2>1
<1>9. \A x \in Replicas : OneIf(m \in AskBy(x)) + Count(u.waiting, {x})
                = Count(v.waiting, {x}) + Count(<<>>, [to : {x}, msg : Pulled])
  <2> TAKE x \in Replicas
  <2>1. Count(<<>>, [to : {x}, msg : Pulled]) = 0 /\ Count(u.waiting, {x}) \in Nat
    BY <1>1, CountNoMessage
  <2> QED BY <1>4, <1>6, <2>1
<1>10. <<>> \in Seq(Sends(p)) /\ \A D, x : Count(<<>>, [to : D, msg : AskBy(x)]) = 0
  BY CountNoMessage
<1> QED BY <1>4, <1>7, <1>8, <1>9, <1>10 DEF Routed, v

-----------------------------------------------------------------------------
LEMMA HeadAtBalancer ==
  ASSUME Basics, NEW b \in Balancers, inbox[b] # <<>>
  PROVE  LET m == Head(inbox[b]) IN
         /\ config \in Configs
         /\ balancer[b] \in Lb(policy, b) /\ Apart(balancer[b])
         /\ m.kind = "call" => m \in Calls(policy, b)
         /\ m.kind = "pull" => m \in Pulls(policy, b)
         /\ m.kind = "release" => m \in Releases(policy, b)
<1> DEFINE m == Head(inbox[b])
<1>1. /\ config \in Configs /\ BalancersTyped(policy, balancer) /\ Boxes(policy, inbox)
      /\ Apart(balancer[b])
  BY DEF Basics, AllApart
<1>2. b \in Places  BY DEF Places
<1>3. inbox[b] \in Seq(Mail(policy, b))  BY <1>1, <1>2 DEF Boxes
<1>4. m \in Mail(policy, b)  BY <1>3, PopFront
<1>5. m \in Calls(policy, b) \cup Pulls(policy, b) \cup Releases(policy, b)
  BY <1>4, MailIs
<1> HIDE DEF m
<1>6. /\ m \in Calls(policy, b) => m.kind = "call"
      /\ m \in Pulls(policy, b) => m.kind = "pull"
      /\ m \in Releases(policy, b) => m.kind = "release"
  BY DEF Calls, Pulls, Pull, Releases, Release
<1>7. balancer[b] \in Lb(policy, b)  BY <1>1, LbIs
<1> QED BY <1>1, <1>5, <1>6, <1>7 DEF m

LEMMA PullPositionsIn ==
  ASSUME NEW S, NEW q \in Seq(S), NEW id, PullPositions(q, id) # {}
  PROVE  Min(PullPositions(q, id)) \in PullPositions(q, id) /\ PullPositions(q, id) \subseteq DOMAIN q
<1>1. PullPositions(q, id) \subseteq DOMAIN q  BY DEF PullPositions
<1>2. PullPositions(q, id) \in SUBSET Nat  BY <1>1
<1> QED BY <1>1, <1>2, MinIsSmallest

LEMMA PushCallSteps ==
  ASSUME Basics, NEW b \in Balancers, PushCall(b)
  PROVE  \E m, v, out : RoutesFrom(b, m, v, out)
<1> DEFINE m == Head(inbox[b])
           u == balancer[b]
<1>1. inbox[b] # <<>> /\ m.kind = "call" /\ policy \in PushPolicies
  BY DEF PushCall, Receives
<1>2. PICK s \in ServersOf[b] :
        Routes(b, [u EXCEPT !.inflight[s] = @ + 1], << [to |-> s, msg |-> Dispatched(m, s)] >>)
  BY DEF PushCall
<1>3. config \in Configs /\ u \in Lb(policy, b) /\ m \in Calls(policy, b)
  BY <1>1, HeadAtBalancer
<1> DEFINE v == [u EXCEPT !.inflight[s] = @ + 1]
           out == << [to |-> s, msg |-> Dispatched(m, s)] >>
<1>4. Routed(policy, b, u, m, v, out)  BY <1>1, <1>3, PushCallRoutes
<1>5. Routes(b, v, out)  BY <1>2
<1> HIDE DEF v, out
<1> QED BY <1>1, <1>4, <1>5 DEF RoutesFrom

LEMMA AnnounceCallSteps ==
  ASSUME Basics, NEW b \in Balancers, AnnounceCall(b)
  PROVE  \E m, v, out : RoutesFrom(b, m, v, out)
<1> DEFINE m == Head(inbox[b])
           u == balancer[b]
           e == config.pull_sched \in {"edf", "edf+"}
           w(s) == [u EXCEPT !.queue = Enqueue(@, m, e), !.pull_intent_load[s] = @ + 1]
           o(s) == << [to |-> s, msg |-> [kind |-> "intent", lb |-> b, req |-> m.req]] >>
<1>1. inbox[b] # <<>> /\ m.kind = "call" /\ policy = "amphiqueue"
  BY DEF AnnounceCall, Receives
<1>2. PICK s \in ServersOf[b] : Routes(b, w(s), o(s))  BY DEF AnnounceCall
<1>3. config \in Configs /\ u \in Lb(policy, b) /\ m \in Calls(policy, b)
  BY <1>1, HeadAtBalancer
<1>4. Routed(policy, b, u, m, w(s), o(s))  BY <1>1, <1>3, AnnounceCallRoutes
<1> HIDE DEF w, o
<1> QED BY <1>1, <1>2, <1>4 DEF RoutesFrom

LEMMA QueueCallSteps ==
  ASSUME Basics, NEW b \in Balancers, QueueCall(b)
  PROVE  \E m, v, out : RoutesFrom(b, m, v, out)
<1> DEFINE m == Head(inbox[b])
           u == balancer[b]
           e == config.central = "edf"
           q == Enqueue(u.queue, m, e)
           k == Min({Len(q), Len(u.waiting)})
           v == QueuedState(u, q, u.waiting, k)
           out == QueuedSends(q, u.waiting, k)
<1>1. inbox[b] # <<>> /\ m.kind = "call" /\ policy \in CentralPullPolicies /\ Routes(b, v, out)
  BY DEF QueueCall, Receives, QueuedState, QueuedSends
<1>2. config \in Configs /\ u \in Lb(policy, b) /\ Apart(u) /\ m \in Calls(policy, b)
  BY <1>1, HeadAtBalancer
<1>3. Routed(policy, b, u, m, v, out)  BY <1>1, <1>2, QueueCallRoutes
<1> HIDE DEF v, out
<1> QED BY <1>1, <1>3 DEF RoutesFrom

LEMMA CentralPullSteps ==
  ASSUME Basics, NEW b \in Balancers, CentralPullArrives(b)
  PROVE  \E m, v, out : RoutesFrom(b, m, v, out)
<1> DEFINE m == Head(inbox[b])
           u == balancer[b]
           v1 == [u EXCEPT !.waiting = Append(@, m.server)]
           v2 == [u EXCEPT !.queue = Tail(@), !.inflight[m.server] = @ + 1]
           o2 == << [to |-> m.server, msg |-> Dispatched(Head(u.queue), m.server)] >>
<1>1. inbox[b] # <<>> /\ m.kind = "pull" /\ policy \in CentralPullPolicies
  BY DEF CentralPullArrives, Receives
<1>2. config \in Configs /\ u \in Lb(policy, b) /\ Apart(u) /\ m \in Pulls(policy, b)
  BY <1>1, HeadAtBalancer
<1>3. CASE u.queue = <<>> /\ Routes(b, v1, <<>>)
  <2>1. Routed(policy, b, u, m, v1, <<>>)  BY <1>1, <1>2, <1>3, PullParked
  <2>2. RoutesFrom(b, m, v1, <<>>)  BY <1>1, <1>3, <2>1 DEF RoutesFrom
  <2> QED BY <2>2
<1>4. CASE u.queue # <<>> /\ Routes(b, v2, o2)
  <2>1. Routed(policy, b, u, m, v2, o2)  BY <1>1, <1>2, <1>4, CentralPullRoutes
  <2> HIDE DEF v2, o2
  <2>2. RoutesFrom(b, m, v2, o2)  BY <1>1, <1>4, <2>1 DEF RoutesFrom
  <2> QED BY <2>2
<1> QED BY <1>3, <1>4 DEF CentralPullArrives

LEMMA AmphiPullSteps ==
  ASSUME Basics, NEW b \in Balancers, AmphiPullArrives(b)
  PROVE  \E m, v, out : RoutesFrom(b, m, v, out)
<1> DEFINE m == Head(inbox[b])
           u == balancer[b]
           i == Min(PullPositions(u.queue, m.req))
           v == TakenState(u, i, m.server)
           out == << [to |-> m.server, msg |-> Dispatched(u.queue[i], m.server)] >>
<1>1. inbox[b] # <<>> /\ m.kind = "pull" /\ policy = "amphiqueue"
      /\ PullPositions(u.queue, m.req) # {} /\ Routes(b, v, out)
  BY DEF AmphiPullArrives, Receives, TakenState
<1>2. config \in Configs /\ u \in Lb(policy, b) /\ m \in Pulls(policy, b)
  BY <1>1, HeadAtBalancer
<1>3. i \in DOMAIN u.queue
  <2>1. u.queue \in Seq(Held(policy, b))  BY <1>2, LbFields
  <2> QED BY <1>1, <2>1, PullPositionsIn
<1> HIDE DEF i
<1>4. Routed(policy, b, u, m, v, out)  BY <1>1, <1>2, <1>3, AmphiPullRoutes
<1> HIDE DEF v, out
<1> QED BY <1>1, <1>4 DEF RoutesFrom

LEMMA ReleaseSteps ==
  ASSUME Basics, NEW b \in Balancers, ReleaseArrives(b)
  PROVE  \E m, v, out : RoutesFrom(b, m, v, out)
<1> DEFINE m == Head(inbox[b])
           u == balancer[b]
           v == [u EXCEPT !.inflight[m.server] = SaturatingDec(@)]
<1>1. inbox[b] # <<>> /\ m.kind = "release" /\ Routes(b, v, <<>>)
  BY DEF ReleaseArrives, Receives
<1>2. u \in Lb(policy, b) /\ Apart(u) /\ m \in Releases(policy, b)
  BY <1>1, HeadAtBalancer
<1>3. Routed(policy, b, u, m, v, <<>>)  BY <1>2, ReleaseRoutes
<1> HIDE DEF v
<1> QED BY <1>1, <1>3 DEF RoutesFrom

LEMMA RouteSteps ==
  ASSUME Basics, NEW b \in Balancers, Route(b)
  PROVE  \E m, v, out : RoutesFrom(b, m, v, out)
BY PushCallSteps, AnnounceCallSteps, QueueCallSteps, CentralPullSteps, AmphiPullSteps, ReleaseSteps
   DEF Route

-----------------------------------------------------------------------------
(* What a balancer's handler changes *)

LEMMA ReroutedIs ==
  ASSUME NEW p, NEW lb, BalancersTyped(p, lb), NEW b \in Balancers, NEW v \in Lb(p, b)
  PROVE  /\ BalancersTyped(p, Rerouted(lb, b, v))
         /\ Rerouted(lb, b, v)[b] = v
         /\ \A o \in Balancers \ {b} : Rerouted(lb, b, v)[o] = lb[o]
<1>1. FunOn(lb, Balancers) /\ \A o \in Balancers : lb[o] \in Lb(p, o)
  BY DEF BalancersTyped
<1>2. /\ FunOn(Rerouted(lb, b, v), Balancers) /\ Rerouted(lb, b, v)[b] = v
      /\ \A o \in Balancers \ {b} : Rerouted(lb, b, v)[o] = lb[o]
  BY <1>1 DEF FunOn, Rerouted
<1>3. \A o \in Balancers : Rerouted(lb, b, v)[o] \in Lb(p, o)  BY <1>1, <1>2
<1> QED BY <1>2, <1>3 DEF BalancersTyped

LEMMA HeadTaken ==
  ASSUME NEW bx, NEW x, bx[x] # <<>>
  PROVE  Taken(bx, x, <<Head(bx[x])>>, [bx EXCEPT ![x] = Tail(@)])
BY DEF Taken

LEMMA BalancerKeepsPlaces ==
  ASSUME NEW p, NEW rp, ReplicasTyped(p, rp), NEW lb, BalancersTyped(p, lb), NEW bx, Boxes(p, bx),
         NEW b \in Balancers, NEW m, NEW boxes, Taken(bx, b, <<m>>, boxes),
         NEW v, NEW out, Routed(p, b, lb[b], m, v, out)
  PROVE  /\ BalancersTyped(p, Rerouted(lb, b, v))
         /\ Ledger(p, b, <<m>>, out, bx, Deliver(boxes, out))
         /\ \A a : Where(rp, Rerouted(lb, b, v), Deliver(boxes, out), a) = Where(rp, lb, bx, a)
<1> DEFINE u == lb[b]
           lq == Rerouted(lb, b, v)
           by == Deliver(boxes, out)
           B == QueuesOf(lb, Balancers)
           B2 == QueuesOf(lq, Balancers)
<1>1. u \in Lb(p, b) /\ v \in Lb(p, b) /\ out \in Seq(Sends(p))
  BY LbIs DEF Routed
<1>2. BalancersTyped(p, lq) /\ lq[b] = v /\ \A o \in Balancers \ {b} : lq[o] = lb[o]
  BY <1>1, ReroutedIs
<1>3. b \in Places  BY DEF Places
<1>4. Ledger(p, b, <<m>>, out, bx, by)  BY <1>1, <1>3, LedgerTaken
<1> HIDE DEF lq, by
<1>5. Boxes(p, by)  BY <1>4 DEF Ledger
<1>7. AreQueues(B, Balancers, Hop) /\ AreQueues(B2, Balancers, Hop)
  BY <1>2, BalancerQueues
<1>8. B[b] = u.queue /\ B2[b] = v.queue /\ KeepsApart(B, B2, Balancers, b)
  BY <1>2 DEF QueuesOf, KeepsApart
<1> HIDE DEF B, B2, u
<1>9. ASSUME NEW a
      PROVE  Where(rp, lq, by, a) = Where(rp, lb, bx, a)
  <2> DEFINE T == About(a)
             R == Across(QueuesOf(rp, Replicas), Replicas, T)
             S == Within(ServingSets(rp), Replicas, T)
  <2>1. Across(bx, Places, T) \in Nat /\ R \in Nat /\ Across(B, Balancers, T) \in Nat /\ S \in Nat
    BY RunCounted DEF B
  <2>2. Across(by, Places, T) \in Nat /\ Across(B2, Balancers, T) \in Nat
    BY <1>2, <1>5, RunCounted DEF B2
  <2>3. Across(by, Places, T) + Count(<<m>>, T) = Across(bx, Places, T) + Count(out, SentAbout(a))
    <3>1. Places \in SUBSET Places  OBVIOUS
    <3> QED BY <1>3, <1>4, <3>1 DEF Ledger, SentAbout
  <2>4. Across(B2, Balancers, T) + Count(u.queue, T) = Across(B, Balancers, T) + Count(v.queue, T)
    BY <1>7, <1>8, BalancersFinite, AcrossChanges
  <2>5. Count(v.queue, T) + Count(out, SentAbout(a)) = Count(u.queue, T) + OneIf(m \in T)
    BY DEF Routed, u
  <2>6. Count(<<m>>, T) = OneIf(m \in T) /\ OneIf(m \in T) \in Nat
    BY CountOne DEF OneIf
  <2>7. Count(u.queue, T) \in Nat /\ Count(v.queue, T) \in Nat /\ Count(out, SentAbout(a)) \in Nat
    <3>1. Count(out, SentAbout(a)) \in Nat  BY <1>1, CountFinite
    <3> QED BY <1>1, <3>1, LbFields
  <2>8. /\ Where(rp, lb, bx, a) = Across(bx, Places, T) + R + Across(B, Balancers, T) + S
        /\ Where(rp, lq, by, a) = Across(by, Places, T) + R + Across(B2, Balancers, T) + S
    BY DEF Where, B, B2
  <2> HIDE DEF T, R, S
  <2>9. Across(by, Places, T) + Across(B2, Balancers, T) = Across(bx, Places, T) + Across(B, Balancers, T)
    BY ONLY <2>1, <2>2, <2>3, <2>4, <2>5, <2>6, <2>7
  <2>10. Across(by, Places, T) + R + Across(B2, Balancers, T) + S
           = Across(bx, Places, T) + R + Across(B, Balancers, T) + S
    BY ONLY <2>1, <2>2, <2>9
  <2> QED BY <2>8, <2>10, Zenon
<1> QED BY <1>2, <1>4, <1>9 DEF lq, by

-----------------------------------------------------------------------------
(* The initial state *)

LEMMA NewReplicaIs ==
  ASSUME NEW p, NEW r, NEW n \in Nat, n > 0 => r \in Serving[p] /\ p \in CentralPullPolicies
  PROVE  Resting(p, r, NewReplica(n)) /\ Steady(p, r, NewReplica(n))
<1> DEFINE v == NewReplica(n)
           Q == Queued(p, r)
           I == Intents(p, r)
           O == OutSends(p, r)
           F == FiniteWork(p, r)
<1>1. /\ v.queue = <<>> /\ v.in_flight = 0 /\ v.serving = {} /\ v.warm = n /\ v.out = <<>>
  BY DEF NewReplica
<1>2. {} \in F  BY FS_EmptySet DEF FiniteWork
<1>3. v \in State(p, r)
  <2>1. <<>> \in Seq(Q) /\ <<>> \in Seq(I) /\ <<>> \in Seq(O)  OBVIOUS
  <2> HIDE DEF Q, I, O, F
  <2>2. v \in [queue : Seq(Q), in_flight : Nat, pending_pulls : Nat, pull_intents : Seq(I),
               serving : F, warm : Nat, out : Seq(O)]
    BY <1>2, <2>1 DEF NewReplica
  <2> QED BY <2>2 DEF State, Q, I, O, F
<1> HIDE DEF v
<1>4. Exact(v) /\ Busy(v) /\ Warms(p, r, v)
  BY <1>1, FS_EmptySet DEF Exact, Busy, Warms
<1> QED BY <1>1, <1>3, <1>4 DEF Resting, Steady, v

LEMMA NewBalancerIs ==
  ASSUME NEW p, NEW b
  PROVE  NewBalancer(b) \in Lb(p, b) /\ Apart(NewBalancer(b))
<1> DEFINE H == Held(p, b)
           P == Parked(p, b)
           z == [s \in ServersOf[b] |-> 0]
<1>1. <<>> \in Seq(H) /\ <<>> \in Seq(P) /\ z \in [ServersOf[b] -> Nat]
  OBVIOUS
<1> HIDE DEF H, P
<1>2. NewBalancer(b) \in [queue : Seq(H), inflight : [ServersOf[b] -> Nat],
                          pull_intent_load : [ServersOf[b] -> Nat], waiting : Seq(P)]
  BY <1>1 DEF NewBalancer
<1> QED BY <1>2 DEF Lb, H, P, Apart, NewBalancer

LEMMA NewReplicaEmpty ==
  ASSUME NEW n
  PROVE  NewReplica(n).queue = <<>> /\ NewReplica(n).serving = {}
BY DEF NewReplica

LEMMA NewBalancerEmpty ==
  ASSUME NEW b
  PROVE  NewBalancer(b).queue = <<>>
BY DEF NewBalancer

LEMMA WarmPullsAre ==
  ASSUME NEW r
  PROVE  /\ WarmPulls(r) \in Nat
         /\ WarmPulls(r) > 0 => r \in Serving[policy] /\ policy \in CentralPullPolicies
BY MicroservicesAssumption DEF WarmPulls, PullTargets

LEMMA BasicsInit == Init => Basics
<1> SUFFICES ASSUME Init
             PROVE  Basics
  OBVIOUS
<1>1. /\ config \in Configs /\ arrived = {}
      /\ replica = [r \in Replicas |-> NewReplica(WarmPulls(r))]
      /\ balancer = [b \in Balancers |-> NewBalancer(b)]
      /\ inbox = [x \in Places |-> <<>>]
  BY DEF Init, NewReplica, NewBalancer, Places
<1>2. /\ \A r \in Replicas : replica[r] = NewReplica(WarmPulls(r))
      /\ \A b \in Balancers : balancer[b] = NewBalancer(b)
      /\ \A x \in Places : inbox[x] = <<>>
      /\ FunOn(replica, Replicas) /\ FunOn(balancer, Balancers)
  BY <1>1 DEF FunOn
<1>3. \A r \in Replicas : Resting(policy, r, replica[r]) /\ Steady(policy, r, replica[r])
  BY <1>2, WarmPullsAre, NewReplicaIs
<1>4. \A b \in Balancers : balancer[b] \in Lb(policy, b) /\ Apart(balancer[b])
  BY <1>2, NewBalancerIs
<1>5. Boxes(policy, inbox)
  <2>1. inbox = [x \in Places |-> inbox[x]]  BY <1>1
  <2>2. \A x \in Places : inbox[x] \in Seq(Mail(policy, x))
    <3> TAKE x \in Places
    <3>1. <<>> \in Seq(Mail(policy, x))  OBVIOUS
    <3>2. inbox[x] = <<>>  BY <1>2
    <3> QED BY ONLY <3>1, <3>2, Zenon
  <2> QED BY <2>1, <2>2 DEF Boxes
<1>6. ReplicasTyped(policy, replica) /\ BalancersTyped(policy, balancer)
  BY <1>2, <1>3, <1>4 DEF ReplicasTyped, BalancersTyped
<1>7. Placed(arrived, replica, balancer, inbox)
  <2>1. ASSUME NEW a \in Requests
        PROVE  Where(replica, balancer, inbox, a) = OneIf(a \in arrived)
    <3> DEFINE T == About(a)
               Q == QueuesOf(replica, Replicas)
               B == QueuesOf(balancer, Balancers)
               S == ServingSets(replica)
    <3>1. \A d \in Replicas : Q[d] = <<>> /\ S[d] = {}
      <4> TAKE d \in Replicas
      <4>1. Q[d] = replica[d].queue /\ S[d] = replica[d].serving
        BY DEF QueuesOf, ServingSets
      <4>2. replica[d] = NewReplica(WarmPulls(d))  BY <1>2
      <4> QED BY ONLY <4>1, <4>2, NewReplicaEmpty, Zenon
    <3>2. \A d \in Balancers : B[d] = <<>>
      <4> TAKE d \in Balancers
      <4>1. B[d] = balancer[d].queue  BY DEF QueuesOf
      <4>2. balancer[d] = NewBalancer(d)  BY <1>2
      <4> QED BY ONLY <4>1, <4>2, NewBalancerEmpty, Zenon
    <3> HIDE DEF Q, B, S, T
    <3>3. /\ Across(inbox, Places, T) = 0 /\ Across(Q, Replicas, T) = 0
          /\ Across(B, Balancers, T) = 0 /\ Within(S, Replicas, T) = 0
      BY <1>2, <3>1, <3>2, AcrossEmpty, WithinEmpty
    <3>4. Where(replica, balancer, inbox, a) = Across(inbox, Places, T) + Across(Q, Replicas, T)
            + Across(B, Balancers, T) + Within(S, Replicas, T)
      BY DEF Where, Q, B, S, T
    <3> QED BY <1>1, <3>3, <3>4 DEF OneIf
  <2> QED BY <2>1 DEF Placed
<1> QED BY <1>1, <1>3, <1>4, <1>5, <1>6, <1>7 DEF Basics, AllSteady, AllApart

-----------------------------------------------------------------------------
(* An arrival *)

LEMMA ArrivalIs ==
  ASSUME config \in Configs, NEW q \in Requests, NEW r \in ReplicasOf[Root[q]]
  PROVE  /\ r \in Replicas /\ ArrivalAt(q) \in Work(policy, r)
         /\ ArrivalAt(q) \in Mail(policy, r) /\ r \in Places
<1> DEFINE h == ArrivalAt(q)
           e == Root[q]
<1>1. e \in Entries /\ e \in Endpoints /\ ServiceOf[e] \in Services
  BY MicroservicesAssumption, TopologyAssumption
<1>2. r \in Replicas /\ r[1] = ServiceOf[e]
  <2>1. r \in ServicesWithReplicas[ServiceOf[e]]  BY <1>1 DEF ReplicasOf
  <2> QED BY <1>1, <2>1, ReplicaAt
<1>3. h \in Hop /\ h.kind = "upstream" /\ ~h.slot /\ h.endpoint = e /\ h.callers = <<>>
  <2>1. <<>> \in Seq(Frame)  OBVIOUS
  <2> QED BY <1>1, <2>1 DEF ArrivalAt, Hop
<1>4. h \in Hopping
  <2>1. <<>> \in Seq(Frames)  OBVIOUS
  <2> QED BY <1>3, <2>1 DEF Hopping
<1>5. ASSUME r \in Serving[policy], EntriesApart
      PROVE  FALSE
  <2>1. policy \in Policies  BY PolicyIs
  <2>2. PICK b \in Used[policy] : r \in ServersOf[b]  BY <1>5, <2>1, UsedAre
  <2>3. b \in Balancers  BY <2>1, UsedAre
  <2>4. r[1] = TargetOf(b) /\ TargetOf(b) \in AllTargets
    BY <2>2, <2>3, BalancerServes
  <2> QED BY <1>1, <1>2, <1>5, <2>4 DEF EntriesApart
<1> HIDE DEF h
<1>6. h \in Work(policy, r)  BY <1>2, <1>3, <1>4, <1>5 DEF Work
<1>7. h \in Mail(policy, r) /\ r \in Places  BY <1>2, <1>6, MailIs DEF Places
<1> QED BY <1>2, <1>6, <1>7 DEF h

LEMMA WhereMoves ==
  ASSUME NEW rp, NEW lb, NEW bx, NEW by, NEW a, NEW n,
         Across(bx, Places, About(a)) \in Nat, Across(by, Places, About(a)) = Across(bx, Places, About(a)) + n,
         n \in Nat,
         Across(QueuesOf(rp, Replicas), Replicas, About(a)) \in Nat,
         Across(QueuesOf(lb, Balancers), Balancers, About(a)) \in Nat,
         Within(ServingSets(rp), Replicas, About(a)) \in Nat
  PROVE  Where(rp, lb, by, a) = Where(rp, lb, bx, a) + n
BY DEF Where

LEMMA BasicsArrive ==
  ASSUME Basics, NEW q \in Requests, Arrive(q)
  PROVE  Basics'
<1> DEFINE m == ArrivalAt(q)
<1>1. /\ q \notin arrived /\ arrived' = arrived \cup {q} /\ config' = config
      /\ replica' = replica /\ balancer' = balancer
  BY DEF Arrive
<1>2. PICK r \in ReplicasOf[Root[q]] : inbox' = [inbox EXCEPT ![r] = Append(@, m)]
  BY DEF Arrive, ArrivalAt
<1>3. /\ config \in Configs /\ arrived \subseteq Requests
      /\ ReplicasTyped(policy, replica) /\ BalancersTyped(policy, balancer) /\ Boxes(policy, inbox)
      /\ AllSteady(policy, replica) /\ AllApart(balancer)
      /\ \A a \in Requests : Where(replica, balancer, inbox, a) = OneIf(a \in arrived)
  BY DEF Basics, Placed
<1>4. m \in Work(policy, r) /\ m \in Mail(policy, r) /\ r \in Places
  BY <1>3, ArrivalIs
<1>5. m \in Hop /\ m.req = q  BY <1>4 DEF Work, Hopping, ArrivalAt
<1> HIDE DEF m
<1>6. Ledger(policy, r, <<>>, <<[to |-> r, msg |-> m]>>, inbox, inbox')
  BY <1>2, <1>3, <1>4, LedgerSent
<1>7. Boxes(policy, inbox')  BY <1>6 DEF Ledger
<1>8. ASSUME NEW a \in Requests
      PROVE  Where(replica, balancer, inbox', a) = OneIf(a \in arrived')
  <2> DEFINE T == About(a)
             o == [to |-> r, msg |-> m]
  <2>1. Across(inbox', Places, T) + Count(<<>>, T) = Across(inbox, Places, T) + Count(<<o>>, [to : Places, msg : T])
    <3>1. Places \in SUBSET Places  OBVIOUS
    <3> QED BY <1>4, <1>6, <3>1 DEF Ledger
  <2>2. Count(<<>>, T) = 0 /\ Count(<<o>>, [to : Places, msg : T]) = OneIf(o \in [to : Places, msg : T])
    BY CountNoMessage, CountOne
  <2>3. o \in [to : Places, msg : T] <=> q = a  BY <1>4, <1>5, AboutHop
  <2>4. OneIf(o \in [to : Places, msg : T]) = OneIf(q = a) /\ OneIf(q = a) \in Nat
    BY <2>3 DEF OneIf
  <2>5. /\ Across(inbox, Places, T) \in Nat
        /\ Across(QueuesOf(replica, Replicas), Replicas, T) \in Nat
        /\ Across(QueuesOf(balancer, Balancers), Balancers, T) \in Nat
        /\ Within(ServingSets(replica), Replicas, T) \in Nat
    BY <1>3, RunCounted
  <2>6. Across(inbox', Places, T) \in Nat  BY <1>3, <1>7, RunCounted
  <2>7. Across(inbox', Places, T) = Across(inbox, Places, T) + OneIf(q = a)
    BY <2>1, <2>2, <2>4, <2>5, <2>6
  <2>8. Where(replica, balancer, inbox', a) = Where(replica, balancer, inbox, a) + OneIf(q = a)
    BY <2>4, <2>5, <2>7, WhereMoves
  <2>9. OneIf(a \in arrived') = OneIf(a \in arrived) + OneIf(q = a)
    BY <1>1 DEF OneIf
  <2> QED BY <1>3, <2>8, <2>9
<1>9. policy' = policy  BY <1>1 DEF policy
<1>10. Placed(arrived', replica', balancer', inbox')  BY <1>1, <1>8 DEF Placed
<1>11. arrived' \subseteq Requests /\ config' \in Configs  BY <1>1, <1>3
<1>12. /\ ReplicasTyped(policy', replica') /\ BalancersTyped(policy', balancer')
       /\ Boxes(policy', inbox') /\ AllSteady(policy', replica') /\ AllApart(balancer')
  BY <1>1, <1>3, <1>7, <1>9
<1> QED BY <1>10, <1>11, <1>12 DEF Basics

-----------------------------------------------------------------------------
(* Every step keeps the basics. *)

LEMMA SteadyStays ==
  ASSUME NEW p, NEW r, NEW v \in State(p, r), NEW in, NEW w, NEW c, Steady(p, r, v),
         Handled(p, r, v, in, w), ButSends(w, c)
  PROVE  Steady(p, r, c)
<1>1. /\ w \in State(p, r) /\ Exact(w) /\ Busy(w) /\ w.warm <= v.warm
  BY DEF Handled
<1>2. w.warm \in Nat /\ v.warm \in Nat  BY <1>1, StateIs
<1>3. /\ c.queue = w.queue /\ c.in_flight = w.in_flight /\ c.serving = w.serving
      /\ c.warm = w.warm
  BY DEF ButSends
<1>4. Warms(p, r, v)  BY DEF Steady
<1>5. Exact(c)  BY <1>1, <1>3 DEF Exact
<1>6. Busy(c)  BY <1>1, <1>3 DEF Busy
<1>7. c.warm > 0 => v.warm > 0  BY <1>1, <1>2, <1>3
<1>8. Warms(p, r, c)  BY <1>4, <1>7 DEF Warms
<1> QED BY <1>5, <1>6, <1>8 DEF Steady

LEMMA BecomesIs ==
  ASSUME NEW r, NEW w, NEW boxes, Becomes(r, w, boxes)
  PROVE  /\ replica' = Became(replica, r, w) /\ inbox' = Deliver(boxes, w.out)
         /\ config' = config /\ arrived' = arrived /\ balancer' = balancer /\ policy' = policy
BY DEF Becomes, Became, policy

LEMMA BasicsReplica ==
  ASSUME Basics, NEW r \in Replicas, NEW in, NEW boxes, NEW w, Handles(r, in, boxes, w)
  PROVE  Basics'
<1>1. /\ config \in Configs /\ arrived \subseteq Requests
      /\ ReplicasTyped(policy, replica) /\ BalancersTyped(policy, balancer) /\ Boxes(policy, inbox)
      /\ AllSteady(policy, replica) /\ AllApart(balancer)
      /\ Placed(arrived, replica, balancer, inbox)
  BY DEF Basics
<1>2. /\ Taken(inbox, r, in, boxes) /\ Handled(policy, r, replica[r], in, w)
      /\ Becomes(r, w, boxes)
  BY DEF Handles, Done
<1>3. /\ replica' = Became(replica, r, w) /\ inbox' = Deliver(boxes, w.out)
      /\ config' = config /\ arrived' = arrived /\ balancer' = balancer /\ policy' = policy
  BY <1>2, BecomesIs
<1>4. /\ ReplicasTyped(policy, replica')
      /\ Ledger(policy, r, in, w.out, inbox, inbox')
      /\ \A a : Where(replica', balancer', inbox', a) = Where(replica, balancer, inbox, a)
  <2>1. /\ ReplicasTyped(policy, Became(replica, r, w))
        /\ Ledger(policy, r, in, w.out, inbox, Deliver(boxes, w.out))
        /\ \A a : Where(Became(replica, r, w), balancer, Deliver(boxes, w.out), a)
                    = Where(replica, balancer, inbox, a)
    BY ONLY <1>1, <1>2, r \in Replicas, ReplicaKeepsPlaces
  <2> QED BY ONLY <1>3, <2>1
<1>5. Boxes(policy, inbox')  BY <1>4 DEF Ledger
<1>6. Placed(arrived', replica', balancer', inbox')
  BY <1>1, <1>3, <1>4 DEF Placed
<1>7. w \in State(policy, r)  BY <1>2 DEF Handled
<1>8. /\ ButSends(w, replica'[r])
      /\ \A o \in Replicas \ {r} : replica'[o] = replica[o]
  BY <1>1, <1>3, <1>7, BecameIs
<1>9. AllSteady(policy, replica')
  <2>1. ASSUME NEW o \in Replicas
        PROVE  Steady(policy, o, replica'[o])
    <3>1. CASE o = r
      <4>1. /\ replica[r] \in State(policy, r) /\ Steady(policy, r, replica[r])
        BY <1>1, ReplicaTyped DEF AllSteady
      <4>2. Steady(policy, r, replica'[r])
        BY ONLY <1>2, <1>8, <4>1, SteadyStays
      <4> QED BY <3>1, <4>2
    <3>2. CASE o # r  BY <1>1, <1>8, <3>2 DEF AllSteady
    <3> QED BY <3>1, <3>2
  <2> QED BY <2>1 DEF AllSteady
<1>10. /\ config' \in Configs /\ arrived' \subseteq Requests
       /\ ReplicasTyped(policy', replica') /\ BalancersTyped(policy', balancer')
       /\ Boxes(policy', inbox') /\ AllSteady(policy', replica') /\ AllApart(balancer')
  BY <1>1, <1>3, <1>4, <1>5, <1>9
<1> QED BY <1>6, <1>10 DEF Basics

LEMMA RoutesIs ==
  ASSUME NEW b, NEW v, NEW out, Routes(b, v, out)
  PROVE  /\ balancer' = Rerouted(balancer, b, v) /\ inbox' = Deliver(Rest(b), out)
         /\ config' = config /\ arrived' = arrived /\ replica' = replica /\ policy' = policy
BY DEF Routes, Rerouted, policy

LEMMA BasicsBalancer ==
  ASSUME Basics, NEW b \in Balancers, NEW m, NEW v, NEW out, RoutesFrom(b, m, v, out)
  PROVE  /\ Basics'
         /\ Ledger(policy, b, <<m>>, out, inbox, inbox')
<1>1. /\ config \in Configs /\ arrived \subseteq Requests
      /\ ReplicasTyped(policy, replica) /\ BalancersTyped(policy, balancer) /\ Boxes(policy, inbox)
      /\ AllSteady(policy, replica) /\ AllApart(balancer)
      /\ Placed(arrived, replica, balancer, inbox)
  BY DEF Basics
<1>2. /\ inbox[b] # <<>> /\ m = Head(inbox[b])
      /\ Routed(policy, b, balancer[b], m, v, out) /\ Routes(b, v, out)
  BY DEF RoutesFrom
<1>3. /\ balancer' = Rerouted(balancer, b, v) /\ inbox' = Deliver(Rest(b), out)
      /\ config' = config /\ arrived' = arrived /\ replica' = replica /\ policy' = policy
  BY <1>2, RoutesIs
<1>4. Taken(inbox, b, <<m>>, Rest(b))  BY <1>2, HeadTaken DEF Rest
<1>5. /\ BalancersTyped(policy, balancer')
      /\ Ledger(policy, b, <<m>>, out, inbox, inbox')
      /\ \A a : Where(replica', balancer', inbox', a) = Where(replica, balancer, inbox, a)
  <2>1. /\ BalancersTyped(policy, Rerouted(balancer, b, v))
        /\ Ledger(policy, b, <<m>>, out, inbox, Deliver(Rest(b), out))
        /\ \A a : Where(replica, Rerouted(balancer, b, v), Deliver(Rest(b), out), a)
                    = Where(replica, balancer, inbox, a)
    BY ONLY <1>1, <1>2, <1>4, b \in Balancers, BalancerKeepsPlaces
  <2> QED BY ONLY <1>3, <2>1
<1>6. Boxes(policy, inbox')  BY <1>5 DEF Ledger
<1>7. Placed(arrived', replica', balancer', inbox')
  BY <1>1, <1>3, <1>5 DEF Placed
<1>8. v \in Lb(policy, b) /\ Apart(v)  BY <1>2 DEF Routed
<1>9. /\ balancer'[b] = v
      /\ \A o \in Balancers \ {b} : balancer'[o] = balancer[o]
  BY <1>1, <1>3, <1>8, ReroutedIs
<1>10. AllApart(balancer')  BY <1>1, <1>8, <1>9 DEF AllApart
<1>11. /\ config' \in Configs /\ arrived' \subseteq Requests
       /\ ReplicasTyped(policy', replica') /\ BalancersTyped(policy', balancer')
       /\ Boxes(policy', inbox') /\ AllSteady(policy', replica') /\ AllApart(balancer')
  BY <1>1, <1>3, <1>5, <1>6, <1>10
<1> QED BY <1>5, <1>7, <1>11 DEF Basics

LEMMA BasicsUnchanged ==
  ASSUME Basics, UNCHANGED vars
  PROVE  Basics'
<1>1. /\ config' = config /\ arrived' = arrived /\ replica' = replica /\ balancer' = balancer
      /\ inbox' = inbox /\ policy' = policy
  BY DEF vars, policy
<1>2. /\ config \in Configs /\ arrived \subseteq Requests
      /\ ReplicasTyped(policy, replica) /\ BalancersTyped(policy, balancer) /\ Boxes(policy, inbox)
      /\ AllSteady(policy, replica) /\ AllApart(balancer)
      /\ Placed(arrived, replica, balancer, inbox)
  BY DEF Basics
<1>3. /\ config' \in Configs /\ arrived' \subseteq Requests
      /\ ReplicasTyped(policy', replica') /\ BalancersTyped(policy', balancer')
      /\ Boxes(policy', inbox') /\ AllSteady(policy', replica') /\ AllApart(balancer')
      /\ Placed(arrived', replica', balancer', inbox')
  BY <1>1, <1>2
<1> QED BY <1>3 DEF Basics

(* What a step is: an arrival, a handler of a replica or of a balancer *)
LEMMA StepIs ==
  ASSUME Basics, [Next]_vars
  PROVE  \/ UNCHANGED vars
         \/ \E q \in Requests : Arrive(q)
         \/ \E r \in Replicas : \E in, boxes, w : Handles(r, in, boxes, w)
         \/ \E b \in Balancers : Route(b) /\ \E m, v, out : RoutesFrom(b, m, v, out)
<1>1. CASE UNCHANGED vars  BY <1>1
<1>2. CASE Finished  BY <1>2 DEF Finished
<1>3. CASE \E q \in Requests : Arrive(q)  BY <1>3
<1>4. ASSUME NEW r \in Replicas,
             Handle(r) \/ RequestPull(r) \/ \E h \in replica[r].serving : Complete(r, h)
      PROVE  \E in, boxes, w : Handles(r, in, boxes, w)
  BY <1>4, ReplicaSteps
<1>5. ASSUME NEW b \in Balancers, Route(b)
      PROVE  \E m, v, out : RoutesFrom(b, m, v, out)
  BY <1>5, RouteSteps
<1> QED BY <1>1, <1>2, <1>3, <1>4, <1>5 DEF Next, Step

LEMMA BasicsStep == Basics /\ [Next]_vars => Basics'
BY StepIs, BasicsArrive, BasicsReplica, BasicsBalancer, BasicsUnchanged

LEMMA BasicsInvariant == Spec => []Basics
<1>1. Init => Basics  BY BasicsInit
<1> QED BY <1>1, BasicsStep, PTL DEF Spec, Safety

-----------------------------------------------------------------------------
(* Types *)

LEMMA ReplicaTypes ==
  ASSUME NEW p, NEW r \in Replicas, NEW v, Resting(p, r, v)
  PROVE  /\ v.queue \in Seq(Hop) /\ v.serving \subseteq Hop
         /\ v.pull_intents \in Seq(PullIntent)
         /\ v.in_flight \in Nat /\ v.pending_pulls \in Nat /\ v.warm \in Nat
         /\ v.out = <<>>
<1>1. v \in State(p, r) /\ v.out = <<>>  BY RestingIs
<1>2. /\ v.queue \in Seq(Queued(p, r)) /\ v.in_flight \in Nat /\ v.pending_pulls \in Nat
      /\ v.pull_intents \in Seq(Intents(p, r)) /\ v.warm \in Nat
      /\ v.serving \subseteq Work(p, r)
  BY <1>1, StateIs
<1>3. Queued(p, r) \subseteq Hop /\ Work(p, r) \subseteq Hop
  BY DEF Queued, Work, Hopping
<1>4. Intents(p, r) \subseteq PullIntent  BY DEF Intents
<1>5. v.queue \in Seq(Hop)  BY ONLY <1>2, <1>3, SeqWider
<1>6. v.pull_intents \in Seq(PullIntent)  BY ONLY <1>2, <1>4, SeqWider
<1> QED BY <1>1, <1>2, <1>3, <1>5, <1>6

LEMMA BalancerTypes ==
  ASSUME NEW p, NEW b, NEW u \in Lb(p, b)
  PROVE  /\ u.queue \in Seq(Hop) /\ u.waiting \in Seq(ServersOf[b])
         /\ u.inflight \in [ServersOf[b] -> Nat]
         /\ u.pull_intent_load \in [ServersOf[b] -> Nat]
<1>1. /\ u.queue \in Seq(Held(p, b)) /\ u.waiting \in Seq(Parked(p, b))
      /\ u.inflight \in [ServersOf[b] -> Nat] /\ u.pull_intent_load \in [ServersOf[b] -> Nat]
  BY LbFields
<1>2. Held(p, b) \subseteq Hop  BY DEF Held, Calls, Hopping
<1>3. Parked(p, b) \subseteq ServersOf[b]  BY DEF Parked
<1>4. u.queue \in Seq(Hop)  BY ONLY <1>1, <1>2, SeqWider
<1>5. u.waiting \in Seq(ServersOf[b])  BY ONLY <1>1, <1>3, SeqWider
<1> QED BY <1>1, <1>4, <1>5

LEMMA BoxTypes ==
  ASSUME NEW p, NEW bx, Boxes(p, bx)
  PROVE  /\ \A r \in Replicas : bx[r] \in Seq(Hop \cup PullIntent)
         /\ \A b \in Balancers : bx[b] \in Seq(Hop \cup Pull \cup Release)
         /\ bx[Sink] \in Seq([kind : {"completed"}, req : Requests])
<1>1. \A x \in Places : bx[x] \in Seq(Mail(p, x))  BY DEF Boxes
<1>2. ASSUME NEW r \in Replicas
      PROVE  bx[r] \in Seq(Hop \cup PullIntent)
  <2>1. bx[r] \in Seq(Mail(p, r))  BY <1>1 DEF Places
  <2>2. Mail(p, r) \subseteq Hop \cup PullIntent
    <3>1. Mail(p, r) = Work(p, r) \cup Intents(p, r)  BY MailIs
    <3>2. Work(p, r) \subseteq Hop  BY DEF Work, Hopping
    <3>3. Intents(p, r) \subseteq PullIntent  BY DEF Intents
    <3> QED BY ONLY <3>1, <3>2, <3>3
  <2> QED BY ONLY <2>1, <2>2, SeqWider
<1>3. ASSUME NEW b \in Balancers
      PROVE  bx[b] \in Seq(Hop \cup Pull \cup Release)
  <2>1. bx[b] \in Seq(Mail(p, b))  BY <1>1 DEF Places
  <2>2. Mail(p, b) \subseteq Hop \cup Pull \cup Release
    <3>1. Mail(p, b) = Calls(p, b) \cup Pulls(p, b) \cup Releases(p, b)
      BY MailIs
    <3>2. Calls(p, b) \subseteq Hop  BY DEF Calls, Hopping
    <3>3. Pulls(p, b) \subseteq Pull  BY DEF Pulls
    <3>4. Releases(p, b) \subseteq Release  BY DEF Releases
    <3> QED BY ONLY <3>1, <3>2, <3>3, <3>4
  <2> QED BY ONLY <2>1, <2>2, SeqWider
<1>4. bx[Sink] \in Seq([kind : {"completed"}, req : Requests])
  BY <1>1, MailIs DEF Places, Completions
<1> QED BY <1>2, <1>3, <1>4

LEMMA BasicsTyped == Basics => TypeOK
<1> SUFFICES ASSUME Basics PROVE TypeOK  OBVIOUS
<1>1. /\ config \in Configs /\ arrived \subseteq Requests
      /\ ReplicasTyped(policy, replica) /\ BalancersTyped(policy, balancer) /\ Boxes(policy, inbox)
  BY DEF Basics
<1>2. \A r \in Replicas : Resting(policy, r, replica[r])  BY <1>1, ReplicaRests
<1>3. \A b \in Balancers : balancer[b] \in Lb(policy, b)  BY <1>1, LbIs
<1>4. \A r \in Replicas :
        LET v == replica[r] IN
        /\ v.queue \in Seq(Hop) /\ v.serving \subseteq Hop
        /\ v.pull_intents \in Seq(PullIntent)
        /\ v.in_flight \in Nat /\ v.pending_pulls \in Nat /\ v.warm \in Nat
        /\ v.out = <<>>
  BY ONLY <1>2, ReplicaTypes
<1>5. \A b \in Balancers :
        LET v == balancer[b] IN
        /\ v.queue \in Seq(Hop) /\ v.waiting \in Seq(ServersOf[b])
        /\ v.inflight \in [ServersOf[b] -> Nat]
        /\ v.pull_intent_load \in [ServersOf[b] -> Nat]
  BY ONLY <1>3, BalancerTypes
<1>6. /\ \A r \in Replicas : inbox[r] \in Seq(Hop \cup PullIntent)
      /\ \A b \in Balancers : inbox[b] \in Seq(Hop \cup Pull \cup Release)
      /\ inbox[Sink] \in Seq([kind : {"completed"}, req : Requests])
  BY ONLY <1>1, BoxTypes
<1> QED BY <1>1, <1>4, <1>5, <1>6 DEF TypeOK

(* In every state of a run the variables have their types. *)
THEOREM TypeCorrect == Spec => []TypeOK
BY BasicsInvariant, BasicsTyped, PTL

-----------------------------------------------------------------------------
(* A request is in one place. *)

LEMMA AboutIs ==
  ASSUME NEW q \in Requests
  PROVE  /\ \A m \in Hop : (m.req = q <=> m \in About(q)) /\ m.kind \in Hops
         /\ \A m \in Completions : m.req = q <=> m \in About(q)
         /\ \A m : m \in About(q) => m.kind \in Hops \cup {"completed"} /\ m.req = q
BY DEF About, HopsOf, Hop, Completions, Hops

LEMMA AboutMail ==
  ASSUME NEW p, NEW x \in Places, NEW m \in Mail(p, x), NEW q \in Requests
  PROVE  m \in About(q) <=> m.kind \in Hops \cup {"completed"} /\ m.req = q
<1>1. CASE m \in Hop  BY <1>1, AboutIs
<1>2. CASE m \in Completions  BY <1>2, AboutIs
<1>3. CASE m.kind \in {"pull", "release", "intent"}
  BY <1>3, AboutOther DEF Hops
<1>4. CASE x = Sink  BY <1>2, <1>4, MailIs
<1>5. CASE x \in Replicas
  <2>1. m \in Work(p, x) \cup Intents(p, x)  BY <1>5, MailIs
  <2>2. m \in Work(p, x) => m \in Hop  BY DEF Work, Hopping
  <2>3. m \in Intents(p, x) => m.kind \in {"pull", "release", "intent"}
    BY DEF Intents, PullIntent
  <2> QED BY <1>1, <1>3, <2>1, <2>2, <2>3
<1>6. CASE x \in Balancers
  <2>1. m \in Calls(p, x) \cup Pulls(p, x) \cup Releases(p, x)  BY <1>6, MailIs
  <2>2. m \in Calls(p, x) => m \in Hop  BY DEF Calls, Hopping
  <2>3. m \in Pulls(p, x) \cup Releases(p, x) => m.kind \in {"pull", "release", "intent"}
    BY DEF Pulls, Pull, Releases, Release
  <2> QED BY <1>1, <1>3, <2>1, <2>2, <2>3
<1> QED BY <1>4, <1>5, <1>6 DEF Places

(* A request is where its hops are counted. *)
LEMMA PlacedOnce ==
  ASSUME Basics, NEW q \in arrived
  PROVE  Where(replica, balancer, inbox, q) = 1
BY DEF Basics, Placed, OneIf

LEMMA OnePlace == Basics => OneAtATime
<1> SUFFICES ASSUME Basics, NEW q \in arrived
             PROVE  LET isHop(x) == x.kind \in Hops \cup {"completed"} /\ x.req = q
                        isOfQ(x) == x.req = q
                    IN CountIn(inbox, isHop) + CountIn(WorkQueues, isOfQ) + CountIn(CallQueues, isOfQ)
                         + Cardinality({r \in Replicas : \E h \in replica[r].serving : h.req = q}) = 1
  BY DEF OneAtATime
<1> DEFINE isHop(x) == x.kind \in Hops \cup {"completed"} /\ x.req = q
           isOfQ(x) == x.req = q
           T == About(q)
<1>1. /\ config \in Configs /\ arrived \subseteq Requests
      /\ ReplicasTyped(policy, replica) /\ BalancersTyped(policy, balancer) /\ Boxes(policy, inbox)
  BY DEF Basics
<1>2. q \in Requests  BY <1>1
<1>3. CountIn(inbox, isHop) = Across(inbox, Places, T)
  <2>1. DOMAIN inbox = Places  BY <1>1 DEF Boxes
  <2>2. ASSUME NEW x \in Places
        PROVE  {<<x, i>> : i \in {j \in DOMAIN inbox[x] : isHop(inbox[x][j])}} = Matches(inbox, x, T)
    <3>1. inbox[x] \in Seq(Mail(policy, x))  BY <1>1 DEF Boxes
    <3>2. \A j \in DOMAIN inbox[x] : inbox[x][j] \in Mail(policy, x)  BY <3>1
    <3>3. \A j \in DOMAIN inbox[x] : isHop(inbox[x][j]) <=> inbox[x][j] \in T
      BY <1>2, <3>2, AboutMail
    <3> QED BY <3>3 DEF Matches
  <2>3. Positions(inbox, isHop) = UNION {Matches(inbox, x, T) : x \in Places}
    BY <2>1, <2>2 DEF Positions
  <2> QED BY <2>3 DEF CountIn, Across
<1>4. CountIn(WorkQueues, isOfQ) = Across(QueuesOf(replica, Replicas), Replicas, T)
  <2> DEFINE f == QueuesOf(replica, Replicas)
  <2>1. WorkQueues = f /\ DOMAIN f = Replicas  BY DEF WorkQueues, QueuesOf
  <2>2. ASSUME NEW x \in Replicas
        PROVE  {<<x, i>> : i \in {j \in DOMAIN f[x] : isOfQ(f[x][j])}} = Matches(f, x, T)
    <3>1. f[x] = replica[x].queue  BY DEF QueuesOf
    <3>2. replica[x].queue \in Seq(Hop)  BY <1>1, ReplicaRests, ReplicaTypes
    <3>3. \A j \in DOMAIN f[x] : f[x][j] \in Hop  BY <3>1, <3>2
    <3>4. \A j \in DOMAIN f[x] : isOfQ(f[x][j]) <=> f[x][j] \in T
      BY <1>2, <3>3, AboutIs
    <3> QED BY <3>4 DEF Matches
  <2> HIDE DEF f
  <2>3. Positions(f, isOfQ) = UNION {Matches(f, x, T) : x \in Replicas}
    BY <2>1, <2>2 DEF Positions
  <2>4. CountIn(f, isOfQ) = Across(f, Replicas, T)  BY <2>3 DEF CountIn, Across
  <2> QED BY <2>1, <2>4 DEF f
<1>5. CountIn(CallQueues, isOfQ) = Across(QueuesOf(balancer, Balancers), Balancers, T)
  <2> DEFINE f == QueuesOf(balancer, Balancers)
  <2>1. CallQueues = f /\ DOMAIN f = Balancers  BY DEF CallQueues, QueuesOf
  <2>2. ASSUME NEW x \in Balancers
        PROVE  {<<x, i>> : i \in {j \in DOMAIN f[x] : isOfQ(f[x][j])}} = Matches(f, x, T)
    <3>1. f[x] = balancer[x].queue  BY DEF QueuesOf
    <3>2. balancer[x].queue \in Seq(Hop)  BY <1>1, LbIs, BalancerTypes
    <3>3. \A j \in DOMAIN f[x] : f[x][j] \in Hop  BY <3>1, <3>2
    <3>4. \A j \in DOMAIN f[x] : isOfQ(f[x][j]) <=> f[x][j] \in T
      BY <1>2, <3>3, AboutIs
    <3> QED BY <3>4 DEF Matches
  <2> HIDE DEF f
  <2>3. Positions(f, isOfQ) = UNION {Matches(f, x, T) : x \in Balancers}
    BY <2>1, <2>2 DEF Positions
  <2>4. CountIn(f, isOfQ) = Across(f, Balancers, T)
    BY <2>3 DEF CountIn, Across
  <2> QED BY <2>1, <2>4 DEF f
<1>6. /\ Across(inbox, Places, T) \in Nat
      /\ Across(QueuesOf(replica, Replicas), Replicas, T) \in Nat
      /\ Across(QueuesOf(balancer, Balancers), Balancers, T) \in Nat
      /\ Within(ServingSets(replica), Replicas, T) \in Nat
  BY <1>1, RunCounted
<1>7. Across(inbox, Places, T) + Across(QueuesOf(replica, Replicas), Replicas, T)
        + Across(QueuesOf(balancer, Balancers), Balancers, T)
        + Within(ServingSets(replica), Replicas, T) = 1
  BY PlacedOnce DEF Where
<1>8. Cardinality({r \in Replicas : \E h \in replica[r].serving : h.req = q})
        = Within(ServingSets(replica), Replicas, T)
  <2> DEFINE f == ServingSets(replica)
  <2>1. \A r \in Replicas : f[r] = replica[r].serving  BY DEF ServingSets
  <2>2. \A r \in Replicas : IsFiniteSet(replica[r].serving) /\ replica[r].serving \subseteq Hop
    BY <1>1, ReplicaTyped, ReplicaRests, StateIs, ReplicaTypes
  <2>3. AreFinite(f, Replicas)  BY <2>1, <2>2 DEF AreFinite
  <2>4. ASSUME NEW r \in Replicas
        PROVE  (\E h \in replica[r].serving : h.req = q) <=> f[r] \cap T # {}
    BY <1>2, <2>1, <2>2, AboutIs
  <2>5. {r \in Replicas : \E h \in replica[r].serving : h.req = q} = {r \in Replicas : f[r] \cap T # {}}
    BY <2>4
  <2>6. Within(f, Replicas, T) <= 1  BY <1>6, <1>7
  <2> HIDE DEF f, T
  <2>7. Cardinality({d \in Replicas : f[d] \cap T # {}}) = Within(f, Replicas, T)
    BY ONLY ReplicasFinite, <2>3, <2>6, WithinOne
  <2> QED BY <2>5, <2>7 DEF f
<1> QED BY <1>3, <1>4, <1>5, <1>7, <1>8

(***************************************************************************)
(* Calls are synchronous: a request that arrived is in exactly one place,  *)
(* a mailbox, a queue, a service or the sink, however deep its call tree   *)
(* and whatever the policy: no handler drops it, forks it or completes it  *)
(* a second time.                                                          *)
(***************************************************************************)
THEOREM RequestsAreInOnePlace == Spec => []OneAtATime
BY BasicsInvariant, OnePlace, PTL

-----------------------------------------------------------------------------
LEMMA OpenCounted ==
  ASSUME NEW p \in Policies, NEW lb, BalancersTyped(p, lb), NEW bx, Boxes(p, bx), NEW s \in Replicas
  PROVE  /\ Across(bx, Used[p], AskBy(s)) \in Nat /\ Across(Waits(lb), Used[p], {s}) \in Nat
         /\ Across(bx, {s}, Pulled) \in Nat
         /\ Open(p, lb, bx, s) \in Nat
         /\ IsFiniteSet(Used[p]) /\ AreQueues(Waits(lb), Used[p], Replicas)
<1>1. Used[p] \subseteq Balancers  BY UsedAre
<1>2. Used[p] \in SUBSET Places /\ {s} \in SUBSET Places  BY <1>1 DEF Places
<1>3. Across(bx, Used[p], AskBy(s)) \in Nat /\ IsFiniteSet(Used[p])
  BY <1>2, BoxesCounted
<1>4. Across(bx, {s}, Pulled) \in Nat  BY <1>2, BoxesCounted
<1>5. ASSUME NEW b \in Used[p]
      PROVE  Waits(lb)[b] \in Seq(Replicas)
  <2>1. b \in Balancers  BY <1>1
  <2>2. lb[b].waiting \in Seq(Parked(p, b))  BY <2>1, LbIs
  <2>3. Parked(p, b) \subseteq Replicas  BY <2>1, BalancerServes DEF Parked
  <2>4. lb[b].waiting \in Seq(Replicas)  BY ONLY <2>2, <2>3, SeqWider
  <2> QED BY <2>1, <2>4 DEF Waits
<1>6. AreQueues(Waits(lb), Used[p], Replicas)  BY <1>5 DEF AreQueues
<1>7. \A T : Across(Waits(lb), Used[p], T) \in Nat
  <2>1. CASE Used[p] = {}  BY <2>1, AcrossEmpty
  <2>2. CASE Used[p] # {}
    <3>1. PICK d \in Used[p] : TRUE  BY <2>2
    <3> QED BY ONLY <1>3, <1>6, <3>1, AcrossParts
  <2> QED BY <2>1, <2>2
<1>8. Across(Waits(lb), Used[p], {s}) \in Nat  BY <1>7
<1> QED BY <1>3, <1>4, <1>6, <1>8 DEF Open

(* What a balancer's handler asks for and answers *)
LEMMA BalancerKeepsOpen ==
  ASSUME NEW p \in Policies, NEW lb, BalancersTyped(p, lb), NEW bx, Boxes(p, bx), NEW by,
         NEW b \in Used[p], NEW m, NEW v, NEW out, Routed(p, b, lb[b], m, v, out),
         Ledger(p, b, <<m>>, out, bx, by), NEW s \in Replicas
  PROVE  Open(p, Rerouted(lb, b, v), by, s) = Open(p, lb, bx, s)
<1> DEFINE lc == Rerouted(lb, b, v)
<1>1. b \in Balancers /\ Used[p] \subseteq Balancers  BY UsedAre
<1>2. /\ v \in Lb(p, b)
      /\ OneIf(m \in AskBy(s)) + Count(lb[b].waiting, {s})
           = Count(v.waiting, {s}) + Count(out, [to : {s}, msg : Pulled])
      /\ \A D, x : Count(out, [to : D, msg : AskBy(x)]) = 0
      /\ out \in Seq(Sends(p))
  BY DEF Routed
<1>3. /\ BalancersTyped(p, lc) /\ lc[b] = v
      /\ \A o \in Balancers \ {b} : lc[o] = lb[o]
  BY <1>1, <1>2, ReroutedIs
<1>4. /\ Boxes(p, by)
      /\ \A D \in SUBSET Places : \A T :
           Across(by, D, T) + (IF b \in D THEN Count(<<m>>, T) ELSE 0)
             = Across(bx, D, T) + Count(out, [to : D, msg : T])
  BY DEF Ledger
<1>5. Used[p] \in SUBSET Places /\ {s} \in SUBSET Places /\ b \notin {s}
  BY <1>1, PlacesDiffer DEF Places
<1>6. Across(by, Used[p], AskBy(s)) + OneIf(m \in AskBy(s)) = Across(bx, Used[p], AskBy(s)) + 0
  <2>1. Across(by, Used[p], AskBy(s)) + Count(<<m>>, AskBy(s))
          = Across(bx, Used[p], AskBy(s)) + Count(out, [to : Used[p], msg : AskBy(s)])
    BY <1>4, <1>5
  <2>2. Count(<<m>>, AskBy(s)) = OneIf(m \in AskBy(s))  BY CountOne
  <2> QED BY <1>2, <2>1, <2>2
<1>7. Across(by, {s}, Pulled) + 0 = Across(bx, {s}, Pulled) + Count(out, [to : {s}, msg : Pulled])
  BY <1>4, <1>5
<1>8. /\ Across(bx, Used[p], AskBy(s)) \in Nat /\ Across(Waits(lb), Used[p], {s}) \in Nat
      /\ Across(bx, {s}, Pulled) \in Nat
      /\ IsFiniteSet(Used[p]) /\ AreQueues(Waits(lb), Used[p], Replicas)
  BY OpenCounted
<1>9. /\ Across(by, Used[p], AskBy(s)) \in Nat /\ Across(Waits(lc), Used[p], {s}) \in Nat
      /\ Across(by, {s}, Pulled) \in Nat
      /\ AreQueues(Waits(lc), Used[p], Replicas)
  BY <1>3, <1>4, OpenCounted
<1>10. KeepsApart(Waits(lb), Waits(lc), Used[p], b)
  BY <1>1, <1>3 DEF KeepsApart, Waits
<1>11. Across(Waits(lc), Used[p], {s}) + Count(Waits(lb)[b], {s})
         = Across(Waits(lb), Used[p], {s}) + Count(Waits(lc)[b], {s})
  BY ONLY <1>8, <1>9, <1>10, b \in Used[p], AcrossChanges
<1>12. Waits(lb)[b] = lb[b].waiting /\ Waits(lc)[b] = v.waiting
  BY <1>1, <1>3 DEF Waits
<1>13. Count(lb[b].waiting, {s}) \in Nat /\ Count(v.waiting, {s}) \in Nat
  BY <1>1, <1>2, LbIs, LbFields
<1>14. Count(out, [to : {s}, msg : Pulled]) \in Nat  BY <1>2, CountFinite
<1>15. OneIf(m \in AskBy(s)) \in Nat  BY DEF OneIf
<1> HIDE DEF lc
<1>16. Across(by, Used[p], AskBy(s)) + Across(Waits(lc), Used[p], {s}) + Across(by, {s}, Pulled)
         = Across(bx, Used[p], AskBy(s)) + Across(Waits(lb), Used[p], {s}) + Across(bx, {s}, Pulled)
  <2>1. Across(Waits(lc), Used[p], {s}) + Count(lb[b].waiting, {s})
          = Across(Waits(lb), Used[p], {s}) + Count(v.waiting, {s})
    BY <1>11, <1>12
  <2> QED
    <3>1. PICK i \in Nat, u \in Nat, z \in Nat, o \in Nat :
            /\ i = OneIf(m \in AskBy(s)) /\ u = Count(lb[b].waiting, {s})
            /\ z = Count(v.waiting, {s}) /\ o = Count(out, [to : {s}, msg : Pulled])
      BY <1>13, <1>14, <1>15
    <3>2. PICK a \in Nat, a2 \in Nat, w \in Nat, w2 \in Nat, c \in Nat, c2 \in Nat :
            /\ a = Across(bx, Used[p], AskBy(s)) /\ a2 = Across(by, Used[p], AskBy(s))
            /\ w = Across(Waits(lb), Used[p], {s}) /\ w2 = Across(Waits(lc), Used[p], {s})
            /\ c = Across(bx, {s}, Pulled) /\ c2 = Across(by, {s}, Pulled)
      BY <1>8, <1>9
    <3>3. i + u = z + o /\ a2 + i = a + 0 /\ c2 + 0 = c + o /\ w2 + u = w + z
      BY <1>2, <1>6, <1>7, <2>1, <3>1, <3>2
    <3>4. a2 + w2 + c2 = a + w + c  BY ONLY <3>3, SixStay
    <3> QED BY <3>2, <3>4
<1> QED BY <1>16 DEF Open, lc

LEMMA OutAsks ==
  ASSUME NEW p, NEW r \in Replicas, NEW out \in Seq(OutSends(p, r))
  PROVE  OutCounts(p, r, out)
<1>1. \A i \in DOMAIN out : out[i] \in OutSends(p, r)  OBVIOUS
<1>2. ASSUME NEW o \in OutSends(p, r)
      PROVE  /\ o.msg.kind = "pull" => o.to \in Used[p] /\ o.msg \in AskBy(r)
             /\ o.msg.kind \notin {"upstream", "intent"}
             /\ o = [to |-> o.to, msg |-> o.msg]
  <2>1. /\ o \in Sends(p) /\ o.msg.kind \in {"call", "return", "completed", "release", "pull"}
        /\ o.msg.kind = "pull" => o.msg.server = r
    BY DEF OutSends
  <2>2. o = [to |-> o.to, msg |-> o.msg] /\ o.to \in Places /\ o.msg \in Mail(p, o.to)
    BY <2>1 DEF Sends
  <2>3. ASSUME o.msg.kind = "pull"
        PROVE  o.to \in Used[p] /\ o.msg \in Pull
    <3>1. CASE o.to = Sink
      <4>1. Mail(p, Sink) = Completions  BY MailIs
      <4> QED BY <2>2, <2>3, <3>1, <4>1 DEF Completions
    <3>2. CASE o.to \in Replicas
      <4>1. o.msg \in Work(p, o.to) \cup Intents(p, o.to)
        BY <2>2, <3>2, MailIs
      <4> QED BY <2>3, <4>1 DEF Work, Intents, PullIntent
    <3>3. CASE o.to \in Balancers
      <4>1. o.msg \in Calls(p, o.to) \cup Pulls(p, o.to) \cup Releases(p, o.to)
        BY <2>2, <3>3, MailIs
      <4>2. o.msg \notin Calls(p, o.to) /\ o.msg \notin Releases(p, o.to)
        BY <2>3 DEF Calls, Releases, Release
      <4>3. o.msg \in Pulls(p, o.to)  BY <4>1, <4>2
      <4> QED BY <4>3 DEF Pulls
    <3> QED BY <2>2, <3>1, <3>2, <3>3 DEF Places
  <2> QED BY <2>1, <2>2, <2>3 DEF AskBy
<1>3. ASSUME NEW s
      PROVE  Count(out, [to : Used[p], msg : AskBy(s)]) = IF s = r THEN Count(out, PullSends(p, r)) ELSE 0
  <2>1. CASE s = r
    <3>1. \A i \in DOMAIN out : out[i] \in [to : Used[p], msg : AskBy(s)] <=> out[i] \in PullSends(p, r)
      <4>1. ASSUME NEW o \in OutSends(p, r)
            PROVE  o \in [to : Used[p], msg : AskBy(s)] <=> o \in PullSends(p, r)
        <5>1. o \in PullSends(p, r) <=> o.msg.kind = "pull"  BY DEF PullSends
        <5>2. o \in [to : Used[p], msg : AskBy(s)] => o.msg.kind = "pull"
          BY DEF AskBy, Pull
        <5> QED BY <1>2, <2>1, <5>1, <5>2
      <4> QED BY <1>1, <4>1
    <3>2. {i \in DOMAIN out : out[i] \in [to : Used[p], msg : AskBy(s)]}
            = {i \in DOMAIN out : out[i] \in PullSends(p, r)}
      BY <3>1
    <3> QED BY <2>1, <3>2 DEF Count
  <2>2. CASE s # r
    <3>1. \A i \in DOMAIN out : out[i] \notin [to : Used[p], msg : AskBy(s)]
      <4>1. ASSUME NEW o \in OutSends(p, r)
            PROVE  o \notin [to : Used[p], msg : AskBy(s)]
        <5>1. o \in [to : Used[p], msg : AskBy(s)] => o.msg.kind = "pull" /\ o.msg.server = s
          BY DEF AskBy, Pull
        <5>2. o.msg.kind = "pull" => o.msg.server = r  BY DEF OutSends
        <5> QED BY <2>2, <5>1, <5>2
      <4> QED BY <1>1, <4>1
    <3> QED BY <2>2, <3>1, CountNone
  <2> QED BY <2>1, <2>2
<1>4. ASSUME NEW D
      PROVE  Count(out, [to : D, msg : Pulled]) = 0
  <2>1. \A i \in DOMAIN out : out[i] \notin [to : D, msg : Pulled]
    BY <1>1, <1>2 DEF Pulled
  <2> QED BY <2>1, CountNone
<1>5. ASSUME NEW D, NEW b, NEW Q
      PROVE  Count(out, [to : D, msg : Ann(b, Q)]) = 0
  <2>1. \A i \in DOMAIN out : out[i] \notin [to : D, msg : Ann(b, Q)]
    BY <1>1, <1>2 DEF Ann, PullIntent
  <2> QED BY <2>1, CountNone
<1>6. Count(out, PullSends(p, r)) \in Nat  BY CountFinite
<1> QED BY <1>3, <1>4, <1>5, <1>6 DEF OutCounts

LEMMA ReplicaOpens ==
  ASSUME NEW p \in Policies, NEW lb, BalancersTyped(p, lb), NEW bx, Boxes(p, bx), NEW by,
         NEW r \in Replicas, NEW in, NEW out \in Seq(OutSends(p, r)),
         Count(in, Pulled) \in Nat,
         Ledger(p, r, in, out, bx, by), NEW s \in Replicas
  PROVE  Opens(p, r, in, out, lb, bx, by, s)
<1>1. /\ Boxes(p, by)
      /\ \A D \in SUBSET Places : \A T :
           Across(by, D, T) + (IF r \in D THEN Count(in, T) ELSE 0)
             = Across(bx, D, T) + Count(out, [to : D, msg : T])
  BY DEF Ledger
<1>2. Used[p] \in SUBSET Places /\ {s} \in SUBSET Places /\ r \notin Used[p]
  BY UsedAre, PlacesDiffer DEF Places
<1>3. /\ Across(bx, Used[p], AskBy(s)) \in Nat /\ Across(Waits(lb), Used[p], {s}) \in Nat
      /\ Across(bx, {s}, Pulled) \in Nat
  BY OpenCounted
<1>4. /\ Across(by, Used[p], AskBy(s)) \in Nat /\ Across(by, {s}, Pulled) \in Nat
  BY <1>1, OpenCounted
<1>5. Across(by, Used[p], AskBy(s)) + 0
        = Across(bx, Used[p], AskBy(s)) + Count(out, [to : Used[p], msg : AskBy(s)])
  BY <1>1, <1>2
<1>6. Across(by, {s}, Pulled) + (IF s = r THEN Count(in, Pulled) ELSE 0)
        = Across(bx, {s}, Pulled) + Count(out, [to : {s}, msg : Pulled])
  BY <1>1, <1>2
<1>7. /\ Count(out, [to : Used[p], msg : AskBy(s)]) = IF s = r THEN Count(out, PullSends(p, r)) ELSE 0
      /\ Count(out, [to : {s}, msg : Pulled]) = 0 /\ Count(out, PullSends(p, r)) \in Nat
  <2>1. OutCounts(p, r, out)  BY OutAsks
  <2> QED BY <2>1 DEF OutCounts
<1> DEFINE a == Across(bx, Used[p], AskBy(s))
           a2 == Across(by, Used[p], AskBy(s))
           w == Across(Waits(lb), Used[p], {s})
           c == Across(bx, {s}, Pulled)
           c2 == Across(by, {s}, Pulled)
           i == IF s = r THEN Count(in, Pulled) ELSE 0
           o == IF s = r THEN Count(out, PullSends(p, r)) ELSE 0
<1>8. a \in Nat /\ a2 \in Nat /\ w \in Nat /\ c \in Nat /\ c2 \in Nat /\ i \in Nat /\ o \in Nat
  BY <1>3, <1>4, <1>7
<1>9. a2 = a + o /\ c2 + i = c + 0  BY <1>3, <1>4, <1>5, <1>6, <1>7
<1>10. Open(p, lb, bx, s) = a + w + c /\ Open(p, lb, by, s) = a2 + w + c2
  BY DEF Open
<1> HIDE DEF a, a2, w, c, c2, i, o
<1>11. (a2 + w + c2) + i = (a + w + c) + o  BY ONLY <1>8, <1>9
<1> QED BY <1>10, <1>11 DEF i, o, Opens

-----------------------------------------------------------------------------
(* Slots and pulls are accounted for. *)

LEMMA BasicsAre ==
  ASSUME Basics
  PROVE  /\ policy \in Policies /\ ValidSharedSubset(policy)
         /\ config \in Configs /\ arrived \subseteq Requests
         /\ ReplicasTyped(policy, replica) /\ BalancersTyped(policy, balancer)
         /\ Boxes(policy, inbox) /\ AllSteady(policy, replica) /\ AllApart(balancer)
BY PolicyIs DEF Basics

(* Accounts are about the fields of a replica, not what it sends. *)
LEMMA AccountsSends ==
  ASSUME NEW p, NEW r, NEW w \in State(p, r), NEW c \in State(p, r), ButSends(w, c), NEW n \in Nat,
         Accounts(p, r, w, n)
  PROVE  Accounts(p, r, c, n)
<1>1. /\ c.queue = w.queue /\ c.in_flight = w.in_flight /\ c.pending_pulls = w.pending_pulls
      /\ c.pull_intents = w.pull_intents /\ c.warm = w.warm
  BY DEF ButSends
<1>2. JbsqOccupancy(c) = JbsqOccupancy(w)  BY <1>1 DEF JbsqOccupancy
<1>3. Short(c) = Short(w)  BY <1>1, <1>2 DEF Short
<1> QED BY <1>1, <1>3 DEF Accounts

LEMMA SlotsReplica ==
  ASSUME EntriesApart, Basics, Slots, NEW r \in Replicas, NEW in, NEW boxes, NEW w,
         Handles(r, in, boxes, w)
  PROVE  Slots'
<1>1. /\ policy \in Policies /\ ReplicasTyped(policy, replica) /\ BalancersTyped(policy, balancer)
      /\ Boxes(policy, inbox)
  BY BasicsAre
<1>2. /\ Taken(inbox, r, in, boxes) /\ Handled(policy, r, replica[r], in, w)
      /\ Keeps(policy, r, replica[r], in, w)
      /\ Becomes(r, w, boxes)
  BY DEF Handles, Done
<1>3. /\ replica' = Became(replica, r, w) /\ inbox' = Deliver(boxes, w.out)
      /\ balancer' = balancer /\ policy' = policy
  BY <1>2, BecomesIs
<1>4. Ledger(policy, r, in, w.out, inbox, inbox')
  <2>1. Ledger(policy, r, in, w.out, inbox, Deliver(boxes, w.out))
    BY ONLY <1>1, <1>2, r \in Replicas, ReplicaKeepsPlaces
  <2> QED BY ONLY <1>3, <2>1
<1>5. w \in State(policy, r) /\ w.out \in Seq(OutSends(policy, r))
  BY <1>2, StateIs DEF Handled
<1>6. /\ ReplicasTyped(policy, replica')
      /\ replica'[r] \in State(policy, r) /\ ButSends(w, replica'[r])
      /\ \A o \in Replicas \ {r} : replica'[o] = replica[o]
  BY <1>1, <1>3, <1>5, BecameIs
<1>7. Count(in, Pulled) \in Nat
  <2>1. r \in Places  BY DEF Places
  <2> QED BY <1>1, <1>2, <2>1, TakenIs
<1>8. Count(w.out, PullSends(policy, r)) \in Nat  BY <1>5, CountFinite
<1>9. Boxes(policy, inbox')  BY <1>4 DEF Ledger
<1>10. ASSUME NEW s \in Replicas
       PROVE  /\ Open(policy, balancer, inbox, s) \in Nat /\ Open(policy, balancer, inbox', s) \in Nat
              /\ Open(policy, balancer, inbox', s) + (IF s = r THEN Count(in, Pulled) ELSE 0)
                   = Open(policy, balancer, inbox, s)
                       + (IF s = r THEN Count(w.out, PullSends(policy, r)) ELSE 0)
  <2>1. Open(policy, balancer, inbox, s) \in Nat /\ Open(policy, balancer, inbox', s) \in Nat
    BY <1>1, <1>9, OpenCounted
  <2>2. Open(policy, balancer, inbox', s) + (IF s = r THEN Count(in, Pulled) ELSE 0)
          = Open(policy, balancer, inbox, s)
              + (IF s = r THEN Count(w.out, PullSends(policy, r)) ELSE 0)
    <3>1. Opens(policy, r, in, w.out, balancer, inbox, inbox', s)
      BY ONLY <1>1, <1>4, <1>5, <1>7, r \in Replicas, s \in Replicas, ReplicaOpens
    <3> QED BY <3>1 DEF Opens
  <2> QED BY <2>1, <2>2
<1>11. \A s \in Replicas : Accounts(policy, s, replica[s], Open(policy, balancer, inbox, s))
  BY DEF Slots, Accounted
<1>12. Accounts(policy, r, replica'[r], Open(policy, balancer, inbox', r))
  <2>1. PICK o1 \in Nat, o2 \in Nat : o1 = Open(policy, balancer, inbox, r) /\ o2 = Open(policy, balancer, inbox', r)
    BY <1>10
  <2>2. o2 + Count(in, Pulled) = o1 + Count(w.out, PullSends(policy, r))
    BY <1>10, <2>1
  <2>3. Accounts(policy, r, replica[r], o1)  BY <1>11, <2>1
  <2>4. Accounts(policy, r, w, o2)  BY <1>2, <2>2, <2>3 DEF Keeps
  <2>5. Accounts(policy, r, replica'[r], o2)
    BY ONLY <1>5, <1>6, <2>4, o2 \in Nat, AccountsSends
  <2> QED BY <2>1, <2>5
<1>13. ASSUME NEW s \in Replicas, s # r
       PROVE  Accounts(policy, s, replica'[s], Open(policy, balancer, inbox', s))
  <2>1. Open(policy, balancer, inbox', s) = Open(policy, balancer, inbox, s)
    BY <1>10, <1>13
  <2>2. replica'[s] = replica[s]  BY <1>6, <1>13
  <2> QED BY <1>11, <2>1, <2>2
<1>14. \A s \in Replicas : Accounts(policy, s, replica'[s], Open(policy, balancer, inbox', s))
  BY <1>12, <1>13
<1> QED BY <1>3, <1>14 DEF Slots, Accounted

(* A message comes only to a balancer that is used. *)
LEMMA BalancerUsed ==
  ASSUME Basics, NEW b \in Balancers, inbox[b] # <<>>
  PROVE  b \in Used[policy] /\ Head(inbox[b]) \in Mail(policy, b)
<1>1. inbox[b] \in Seq(Mail(policy, b))  BY BasicsAre DEF Boxes, Places
<1>2. Head(inbox[b]) \in Mail(policy, b)  BY <1>1
<1>3. Head(inbox[b]) \in Calls(policy, b) \cup Pulls(policy, b) \cup Releases(policy, b)
  BY <1>2, MailIs
<1> QED BY <1>2, <1>3 DEF Calls, Pulls, Releases

LEMMA SlotsBalancer ==
  ASSUME Basics, Slots, NEW b \in Balancers, NEW m, NEW v, NEW out, RoutesFrom(b, m, v, out)
  PROVE  Slots'
<1>1. /\ policy \in Policies /\ ReplicasTyped(policy, replica) /\ BalancersTyped(policy, balancer)
      /\ Boxes(policy, inbox)
  BY BasicsAre
<1>2. /\ inbox[b] # <<>> /\ m = Head(inbox[b])
      /\ Routed(policy, b, balancer[b], m, v, out) /\ Routes(b, v, out)
  BY DEF RoutesFrom
<1>3. /\ balancer' = Rerouted(balancer, b, v) /\ replica' = replica /\ policy' = policy
  BY <1>2, RoutesIs
<1>4. Ledger(policy, b, <<m>>, out, inbox, inbox')  BY BasicsBalancer
<1>5. b \in Used[policy]  BY <1>2, BalancerUsed
<1>6. ASSUME NEW s \in Replicas
      PROVE  Open(policy, balancer', inbox', s) = Open(policy, balancer, inbox, s)
  <2>1. Open(policy, Rerouted(balancer, b, v), inbox', s) = Open(policy, balancer, inbox, s)
    BY ONLY <1>1, <1>2, <1>4, <1>5, s \in Replicas, BalancerKeepsOpen
  <2> QED BY ONLY <1>3, <2>1
<1>7. \A s \in Replicas : Accounts(policy, s, replica[s], Open(policy, balancer, inbox, s))
  BY DEF Slots, Accounted
<1> QED BY <1>3, <1>6, <1>7 DEF Slots, Accounted

LEMMA SlotsArrive ==
  ASSUME Basics, Slots, NEW q \in Requests, Arrive(q)
  PROVE  Slots'
<1> DEFINE m == ArrivalAt(q)
<1>1. config' = config /\ replica' = replica /\ balancer' = balancer /\ policy' = policy
  BY DEF Arrive, policy
<1>2. PICK r \in ReplicasOf[Root[q]] : inbox' = [inbox EXCEPT ![r] = Append(@, m)]
  BY DEF Arrive, ArrivalAt
<1>3. /\ policy \in Policies /\ config \in Configs /\ BalancersTyped(policy, balancer)
      /\ Boxes(policy, inbox)
  BY BasicsAre
<1>4. m \in Mail(policy, r) /\ r \in Places /\ r \in Replicas
  BY <1>3, ArrivalIs
<1>5. m.kind = "upstream" /\ m.slot = FALSE  BY DEF ArrivalAt
<1> HIDE DEF m
<1>6. Ledger(policy, r, <<>>, <<[to |-> r, msg |-> m]>>, inbox, inbox')
  BY <1>2, <1>3, <1>4, LedgerSent
<1>7. Boxes(policy, inbox')  BY <1>6 DEF Ledger
<1>8. ASSUME NEW D \in SUBSET Places, NEW T, m \notin T
      PROVE  Across(inbox', D, T) = Across(inbox, D, T)
  <2>1. Across(inbox', D, T) + (IF r \in D THEN Count(<<>>, T) ELSE 0)
          = Across(inbox, D, T) + Count(<<[to |-> r, msg |-> m]>>, [to : D, msg : T])
    BY <1>6 DEF Ledger
  <2>2. Count(<<>>, T) = 0  BY CountNoMessage
  <2>3. Count(<<[to |-> r, msg |-> m]>>, [to : D, msg : T]) = 0
    <3>1. [to |-> r, msg |-> m] \notin [to : D, msg : T]  BY <1>8
    <3> QED BY <3>1, CountOne DEF OneIf
  <2>4. Across(inbox', D, T) \in Nat /\ Across(inbox, D, T) \in Nat
    BY <1>3, <1>7, BoxesCounted
  <2> QED BY <2>1, <2>2, <2>3, <2>4
<1>9. m \notin Pulled /\ \A s : m \notin AskBy(s)
  BY <1>5 DEF Pulled, AskBy, Pull
<1>10. ASSUME NEW s \in Replicas
       PROVE  Open(policy, balancer, inbox', s) = Open(policy, balancer, inbox, s)
  <2>1. Used[policy] \in SUBSET Places /\ {s} \in SUBSET Places
    BY <1>3, UsedAre DEF Places
  <2>2. Across(inbox', Used[policy], AskBy(s)) = Across(inbox, Used[policy], AskBy(s))
    BY <1>8, <1>9, <2>1
  <2>3. Across(inbox', {s}, Pulled) = Across(inbox, {s}, Pulled)
    BY <1>8, <1>9, <2>1
  <2> QED BY <2>2, <2>3 DEF Open
<1>11. \A s \in Replicas : Accounts(policy, s, replica[s], Open(policy, balancer, inbox, s))
  BY DEF Slots, Accounted
<1> QED BY <1>1, <1>10, <1>11 DEF Slots, Accounted

LEMMA SlotsStep ==
  ASSUME EntriesApart, Basics, Slots, [Next]_vars
  PROVE  Slots'
<1>1. CASE UNCHANGED vars
  <2>1. replica' = replica /\ balancer' = balancer /\ inbox' = inbox /\ policy' = policy
    BY <1>1 DEF vars, policy
  <2> QED BY <2>1 DEF Slots, Accounted
<1>2. ASSUME NEW q \in Requests, Arrive(q)
      PROVE  Slots'
  BY <1>2, SlotsArrive
<1>3. ASSUME NEW r \in Replicas, NEW in, NEW boxes, NEW w, Handles(r, in, boxes, w)
      PROVE  Slots'
  BY <1>3, SlotsReplica
<1>4. ASSUME NEW b \in Balancers, NEW m, NEW v, NEW out, RoutesFrom(b, m, v, out)
      PROVE  Slots'
  BY <1>4, SlotsBalancer
<1>5. \/ UNCHANGED vars
      \/ \E q \in Requests : Arrive(q)
      \/ \E r \in Replicas : \E in, boxes, w : Handles(r, in, boxes, w)
      \/ \E b \in Balancers : Route(b) /\ \E m, v, out : RoutesFrom(b, m, v, out)
  BY StepIs
<1> QED BY <1>1, <1>2, <1>3, <1>4, <1>5

LEMMA NewAccounts ==
  ASSUME NEW r \in Replicas
  PROVE  Accounts(policy, r, NewReplica(WarmPulls(r)), 0)
<1> DEFINE n == WarmPulls(r)
           v == NewReplica(n)
<1>1. /\ v.queue = <<>> /\ v.in_flight = 0 /\ v.pending_pulls = 0 /\ v.pull_intents = <<>>
      /\ v.warm = n
  BY DEF NewReplica
<1>2. MaxConcurrency \in Nat \ {0} /\ JbsqN \in Nat \ {0}
  BY MicroservicesAssumption
<1>3. JbsqOccupancy(v) = 0
  <2>1. {i \in DOMAIN v.queue : v.queue[i].kind = "upstream"} = {}  BY <1>1
  <2>2. Cardinality({i \in DOMAIN v.queue : v.queue[i].kind = "upstream"}) = 0
    BY <2>1, FS_EmptySet, Zenon
  <2> QED BY <1>1, <2>2 DEF JbsqOccupancy
<1>4. Short(v) = JbsqN  BY <1>1, <1>2, <1>3 DEF Short
<1>5. policy = "centralized" /\ r \in Serving[policy] => n = MaxConcurrency
  BY DEF WarmPulls, CentralPullPolicies, PullTargets
<1>6. policy = "jbsq" /\ r \in Serving[policy] => n = JbsqN
  BY DEF WarmPulls, CentralPullPolicies, PullTargets
<1> HIDE DEF n, v
<1>7. Accounts(policy, r, v, 0)  BY <1>1, <1>2, <1>4, <1>5, <1>6 DEF Accounts
<1> QED BY <1>7 DEF n, v

LEMMA SlotsInit == Init => Slots
<1> SUFFICES ASSUME Init PROVE Slots  OBVIOUS
<1>1. /\ config \in Configs
      /\ replica = [r \in Replicas |-> NewReplica(WarmPulls(r))]
      /\ balancer = [b \in Balancers |-> NewBalancer(b)]
      /\ inbox = [x \in Places |-> <<>>]
  BY DEF Init, NewReplica, NewBalancer, Places
<1>2. policy \in Policies  BY <1>1, PolicyIs
<1>3. Used[policy] \subseteq Balancers  BY <1>2, UsedAre
<1>4. ASSUME NEW r \in Replicas
      PROVE  Open(policy, balancer, inbox, r) = 0
  <2>1. \A d \in Used[policy] : inbox[d] = <<>>  BY <1>1, <1>3 DEF Places
  <2>2. \A d \in {r} : inbox[d] = <<>>  BY <1>1 DEF Places
  <2>3. \A d \in Used[policy] : Waits(balancer)[d] = <<>>
    BY <1>1, <1>3 DEF Waits, NewBalancer
  <2>4. Across(inbox, Used[policy], AskBy(r)) = 0  BY <2>1, AcrossEmpty
  <2>5. Across(inbox, {r}, Pulled) = 0  BY <2>2, AcrossEmpty
  <2>6. Across(Waits(balancer), Used[policy], {r}) = 0  BY <2>3, AcrossEmpty
  <2> QED BY <2>4, <2>5, <2>6 DEF Open
<1> QED BY <1>1, <1>4, NewAccounts DEF Slots, Accounted

LEMMA SlotsInvariant ==
  ASSUME EntriesApart
  PROVE  Spec => [](Basics /\ Slots)
<1>1. Init => Basics /\ Slots  BY BasicsInit, SlotsInit
<1>2. Basics /\ Slots /\ [Next]_vars => Basics' /\ Slots'
  BY BasicsStep, SlotsStep
<1> QED BY <1>1, <1>2, PTL DEF Spec, Safety

-----------------------------------------------------------------------------
(* What the runs check *)

LEMMA SlotsFit == Basics /\ Slots => CapacityRespected
<1> SUFFICES ASSUME Basics, Slots, NEW r \in Replicas
             PROVE  /\ replica[r].in_flight = Cardinality(replica[r].serving)
                    /\ replica[r].in_flight <= MaxConcurrency
  BY DEF CapacityRespected
<1>1. Exact(replica[r])  BY BasicsAre DEF AllSteady, Steady
<1>2. Accounts(policy, r, replica[r], Open(policy, balancer, inbox, r))
  BY DEF Slots, Accounted
<1> QED BY <1>1, <1>2 DEF Exact, Accounts

(***************************************************************************)
(* No replica serves more hops than it has slots, and in_flight is their   *)
(* number: a pulled call is started without a test of the slots, because   *)
(* every pull was sent for a slot that nothing else can take.              *)
(***************************************************************************)
THEOREM CapacityHolds ==
  ASSUME EntriesApart
  PROVE  Spec => []CapacityRespected
BY SlotsInvariant, SlotsFit, PTL

LEMMA IntentHere ==
  ASSUME NEW p \in Policies, NEW r, NEW m \in Intents(p, r)
  PROVE  p = "amphiqueue" /\ m.lb \in Used[p] /\ r \in ServersOf[m.lb] /\ r \in Serving[p]
BY UsedAre DEF Intents

LEMMA NothingWaits == Basics /\ Slots => WorkConserving
<1> SUFFICES ASSUME Basics, Slots PROVE WorkConserving  OBVIOUS
<1>1. /\ policy \in Policies /\ ReplicasTyped(policy, replica) /\ AllSteady(policy, replica)
      /\ AllApart(balancer)
  BY BasicsAre
<1>2. ASSUME NEW r \in Replicas, replica[r].queue # <<>>
      PROVE  replica[r].in_flight >= MaxConcurrency
  BY <1>1, <1>2 DEF AllSteady, Steady, Busy
<1>3. ASSUME NEW r \in Replicas, replica[r].pull_intents # <<>>
      PROVE  replica[r].in_flight + replica[r].pending_pulls >= MaxConcurrency
  <2>1. replica[r].pull_intents \in Seq(Intents(policy, r))
    BY <1>1, ReplicaTyped, StateIs
  <2>2. Head(replica[r].pull_intents) \in Intents(policy, r)  BY <1>3, <2>1
  <2>3. policy = "amphiqueue" /\ r \in Serving[policy]
    BY <1>1, <2>2, IntentHere
  <2>4. Accounts(policy, r, replica[r], Open(policy, balancer, inbox, r))
    BY DEF Slots, Accounted
  <2> QED BY <1>3, <2>3, <2>4 DEF Accounts
<1>4. \A b \in Balancers : balancer[b].queue = <<>> \/ balancer[b].waiting = <<>>
  BY <1>1 DEF AllApart, Apart
<1> QED BY <1>2, <1>3, <1>4 DEF WorkConserving, IntentsDrained

(***************************************************************************)
(* No slot is idle while something waits for it: work in a replica, an     *)
(* intent that drain_pull_intents_async could turn into a pull, or a call  *)
(* at a balancer where a server is parked.                                 *)
(***************************************************************************)
THEOREM NoIdleSlot ==
  ASSUME EntriesApart
  PROVE  Spec => []WorkConserving
BY SlotsInvariant, NothingWaits, PTL

(* Pulls among a balancer's mail, and pulled calls among a replica's *)
LEMMA AskMail ==
  ASSUME NEW p, NEW b \in Balancers, NEW m \in Mail(p, b), NEW s
  PROVE  m \in AskBy(s) <=> m.kind = "pull" /\ m.server = s
<1>1. m \in Calls(p, b) \cup Pulls(p, b) \cup Releases(p, b)  BY MailIs
<1>2. CASE m \in Pulls(p, b)  BY <1>2 DEF Pulls, Pull, AskBy
<1>3. CASE m \in Calls(p, b)  BY <1>3 DEF Calls, Pull, AskBy
<1>4. CASE m \in Releases(p, b)  BY <1>4 DEF Releases, Release, Pull, AskBy
<1> QED BY <1>1, <1>2, <1>3, <1>4

LEMMA PulledMail ==
  ASSUME NEW p, NEW r \in Replicas, NEW m \in Mail(p, r)
  PROVE  m \in Pulled <=> m.kind = "upstream" /\ m.slot
<1>1. m \in Work(p, r) \cup Intents(p, r)  BY MailIs
<1>2. CASE m \in Work(p, r)  BY <1>2 DEF Work, Hopping, Pulled
<1>3. CASE m \in Intents(p, r)  BY <1>3 DEF Intents, PullIntent, Pulled, Hop
<1> QED BY <1>1, <1>2, <1>3

LEMMA OpenIs ==
  ASSUME Basics, NEW r \in Replicas
  PROVE  LET asks(x)   == x.kind = "pull" /\ x.server = r
             isSelf(x) == x = r
             asked     == CountIn([b \in InUse |-> inbox[b]], asks)
                            + CountIn([b \in InUse |-> balancer[b].waiting], isSelf)
             pulled(x) == x.kind = "upstream" /\ x.slot
             coming    == CountIn([s \in {r} |-> inbox[s]], pulled)
         IN /\ Open(policy, balancer, inbox, r) = asked + coming
            /\ asked \in Nat /\ coming \in Nat
<1> DEFINE asks(x)   == x.kind = "pull" /\ x.server = r
           isSelf(x) == x = r
           pulled(x) == x.kind = "upstream" /\ x.slot
           D == Used[policy]
<1>1. /\ policy \in Policies /\ BalancersTyped(policy, balancer) /\ Boxes(policy, inbox)
  BY BasicsAre
<1>2. D \subseteq Balancers /\ InUse = D  BY <1>1, UsedAre DEF InUse
<1>3. CountIn([b \in InUse |-> inbox[b]], asks) = Across(inbox, D, AskBy(r))
  <2> DEFINE f == [b \in D |-> inbox[b]]
  <2>1. DOMAIN f = D /\ f = [b \in InUse |-> inbox[b]]  BY <1>2
  <2>2. ASSUME NEW x \in D
        PROVE  {<<x, i>> : i \in {j \in DOMAIN f[x] : asks(f[x][j])}} = Matches(inbox, x, AskBy(r))
    <3>1. x \in Balancers /\ f[x] = inbox[x]  BY <1>2
    <3>2. inbox[x] \in Seq(Mail(policy, x))  BY <1>1, <3>1 DEF Boxes, Places
    <3>3. \A j \in DOMAIN inbox[x] : inbox[x][j] \in Mail(policy, x)  BY <3>2
    <3>4. \A j \in DOMAIN inbox[x] : asks(inbox[x][j]) <=> inbox[x][j] \in AskBy(r)
      BY <3>1, <3>3, AskMail
    <3> QED BY <3>1, <3>4 DEF Matches
  <2> HIDE DEF f
  <2>3. Positions(f, asks) = UNION {Matches(inbox, x, AskBy(r)) : x \in D}
    BY <2>1, <2>2 DEF Positions
  <2>4. CountIn(f, asks) = Across(inbox, D, AskBy(r))
    BY <2>3 DEF CountIn, Across
  <2> QED BY <2>1, <2>4
<1>4. CountIn([b \in InUse |-> balancer[b].waiting], isSelf) = Across(Waits(balancer), D, {r})
  <2> DEFINE f == [b \in D |-> balancer[b].waiting]
             g == Waits(balancer)
  <2>1. DOMAIN f = D /\ f = [b \in InUse |-> balancer[b].waiting]  BY <1>2
  <2>2. ASSUME NEW x \in D
        PROVE  {<<x, i>> : i \in {j \in DOMAIN f[x] : isSelf(f[x][j])}} = Matches(g, x, {r})
    <3>1. f[x] = g[x]  BY <1>2 DEF Waits
    <3> QED BY <3>1 DEF Matches
  <2> HIDE DEF f, g
  <2>3. Positions(f, isSelf) = UNION {Matches(g, x, {r}) : x \in D}
    <3>1. Positions(f, isSelf)
            = UNION {{<<x, i>> : i \in {j \in DOMAIN f[x] : isSelf(f[x][j])}} : x \in D}
      BY <2>1 DEF Positions
    <3>2. {{<<x, i>> : i \in {j \in DOMAIN f[x] : isSelf(f[x][j])}} : x \in D}
            = {Matches(g, x, {r}) : x \in D}
      BY <2>2
    <3> QED BY <3>1, <3>2
  <2>4. CountIn(f, isSelf) = Across(g, D, {r})  BY <2>3 DEF CountIn, Across
  <2> QED BY <2>1, <2>4 DEF g
<1>5. CountIn([s \in {r} |-> inbox[s]], pulled) = Across(inbox, {r}, Pulled)
  <2> DEFINE f == [s \in {r} |-> inbox[s]]
  <2>1. DOMAIN f = {r}  OBVIOUS
  <2>2. ASSUME NEW x \in {r}
        PROVE  {<<x, i>> : i \in {j \in DOMAIN f[x] : pulled(f[x][j])}} = Matches(inbox, x, Pulled)
    <3>1. x \in Replicas /\ f[x] = inbox[x]  OBVIOUS
    <3>2. inbox[x] \in Seq(Mail(policy, x))  BY <1>1, <3>1 DEF Boxes, Places
    <3>3. \A j \in DOMAIN inbox[x] : inbox[x][j] \in Mail(policy, x)  BY <3>2
    <3>4. \A j \in DOMAIN inbox[x] : pulled(inbox[x][j]) <=> inbox[x][j] \in Pulled
      BY <3>1, <3>3, PulledMail
    <3> QED BY <3>1, <3>4 DEF Matches
  <2> HIDE DEF f
  <2>3. Positions(f, pulled) = UNION {Matches(inbox, x, Pulled) : x \in {r}}
    BY <2>1, <2>2 DEF Positions
  <2>4. CountIn(f, pulled) = Across(inbox, {r}, Pulled)
    BY <2>3 DEF CountIn, Across
  <2> QED BY <2>4 DEF f
<1>6. /\ Across(inbox, D, AskBy(r)) \in Nat /\ Across(Waits(balancer), D, {r}) \in Nat
      /\ Across(inbox, {r}, Pulled) \in Nat
  BY <1>1, OpenCounted
<1> QED BY <1>3, <1>4, <1>5, <1>6 DEF Open

(* What Accounts says in terms of a replica's fields *)
LEMMA AccountsSay ==
  ASSUME NEW p, NEW r \in Serving[p], NEW v \in State(p, r), NEW n \in Nat, Accounts(p, r, v, n)
  PROVE  /\ p = "centralized" => v.warm + n + v.in_flight = MaxConcurrency
         /\ p \in {"jbsq", "amphiqueue"} => v.pending_pulls = n
         /\ p = "amphiqueue" => v.in_flight + v.pending_pulls <= MaxConcurrency
         /\ p = "jbsq" => /\ JbsqOccupancy(v) + v.pending_pulls <= JbsqN
                          /\ v.warm = 0 => JbsqOccupancy(v) + v.pending_pulls = JbsqN
<1>1. JbsqN \in Nat  BY MicroservicesAssumption
<1>2. v.in_flight \in Nat /\ v.pending_pulls \in Nat /\ v.warm \in Nat /\ Count(v.queue, Upstreams) \in Nat
  BY StateIs
<1>3. JbsqOccupancy(v) \in Nat  BY <1>2, OccupancyIs
<1>4. p = "jbsq" => Short(v) >= 0 /\ v.warm >= Short(v)  BY DEF Accounts
<1>5. Short(v) = JbsqN - JbsqOccupancy(v) - v.pending_pulls  BY DEF Short
<1>6. p = "jbsq" => /\ JbsqOccupancy(v) + v.pending_pulls <= JbsqN
                    /\ v.warm = 0 => JbsqOccupancy(v) + v.pending_pulls = JbsqN
  BY <1>1, <1>2, <1>3, <1>4, <1>5
<1>7. /\ p = "centralized" => v.warm + n + v.in_flight = MaxConcurrency
      /\ p \in {"jbsq", "amphiqueue"} => v.pending_pulls = n
      /\ p = "amphiqueue" => v.in_flight + v.pending_pulls <= MaxConcurrency
  BY DEF Accounts
<1> QED BY <1>6, <1>7

LEMMA SlotsAsked == Basics /\ Slots => PullsAccounted
<1> SUFFICES ASSUME Basics, Slots, NEW r \in PullTargets
             PROVE  LET v == replica[r]
                        asks(x)   == x.kind = "pull" /\ x.server = r
                        isSelf(x) == x = r
                        asked  == CountIn([b \in InUse |-> inbox[b]], asks)
                                    + CountIn([b \in InUse |-> balancer[b].waiting], isSelf)
                        pulled(x) == x.kind = "upstream" /\ x.slot
                        coming == CountIn([s \in {r} |-> inbox[s]], pulled)
                    IN
                    /\ policy = "centralized" => v.warm + asked + coming + v.in_flight = MaxConcurrency
                    /\ policy \in {"jbsq", "amphiqueue"} => v.pending_pulls = asked + coming
                    /\ policy = "amphiqueue" => v.in_flight + v.pending_pulls <= MaxConcurrency
                    /\ policy = "jbsq" => /\ JbsqOccupancy(v) + v.pending_pulls <= JbsqN
                                          /\ v.warm = 0 => JbsqOccupancy(v) + v.pending_pulls = JbsqN
  BY DEF PullsAccounted
<1> DEFINE asks(x)   == x.kind = "pull" /\ x.server = r
           isSelf(x) == x = r
           pulled(x) == x.kind = "upstream" /\ x.slot
           asked == CountIn([b \in InUse |-> inbox[b]], asks)
                      + CountIn([b \in InUse |-> balancer[b].waiting], isSelf)
           coming == CountIn([s \in {r} |-> inbox[s]], pulled)
           n == Open(policy, balancer, inbox, r)
           v == replica[r]
<1>1. /\ policy \in Policies /\ ReplicasTyped(policy, replica) /\ BalancersTyped(policy, balancer)
      /\ Boxes(policy, inbox)
  BY BasicsAre
<1>2. r \in Serving[policy] /\ r \in Replicas
  <2>1. r \in Serving[policy]  BY DEF PullTargets
  <2>2. \E b \in Used[policy] : r \in ServersOf[b]  BY <1>1, <2>1, UsedAre
  <2> QED BY <1>1, <2>1, <2>2, UsedAre, BalancerServes
<1>3. n \in Nat  BY <1>1, <1>2, OpenCounted
<1>4. Accounts(policy, r, v, n) /\ v \in State(policy, r)
  BY <1>1, <1>2, ReplicaTyped DEF Slots, Accounted
<1>5. n = asked + coming  BY <1>2, OpenIs
<1>8. asked \in Nat /\ coming \in Nat  BY <1>2, OpenIs
<1>9. v.warm \in Nat /\ v.in_flight \in Nat  BY <1>4, StateIs
<1> HIDE DEF n, v, asked, coming
<1>6. /\ policy = "centralized" => v.warm + n + v.in_flight = MaxConcurrency
      /\ policy \in {"jbsq", "amphiqueue"} => v.pending_pulls = n
      /\ policy = "amphiqueue" => v.in_flight + v.pending_pulls <= MaxConcurrency
      /\ policy = "jbsq" => /\ JbsqOccupancy(v) + v.pending_pulls <= JbsqN
                            /\ v.warm = 0 => JbsqOccupancy(v) + v.pending_pulls = JbsqN
  BY ONLY <1>2, <1>3, <1>4, AccountsSay
<1>7. policy = "centralized" => v.warm + asked + coming + v.in_flight = MaxConcurrency
  BY <1>5, <1>6, <1>8, <1>9
<1> QED BY <1>5, <1>6, <1>7 DEF v, asked, coming

(***************************************************************************)
(* A pull stands for one slot until the pulled call is at the replica:     *)
(* under centralized every slot is in service or is asked for exactly      *)
(* once, under amphiqueue and jbsq pending_pulls counts the pulls that are *)
(* not answered, and a replica never asks for more than it may hold.       *)
(***************************************************************************)
THEOREM PullsAreAccounted ==
  ASSUME EntriesApart
  PROVE  Spec => []PullsAccounted
BY SlotsInvariant, SlotsAsked, PTL

-----------------------------------------------------------------------------
LEMMA OwedCounted ==
  ASSUME NEW p, NEW rp, ReplicasTyped(p, rp), NEW bx, Boxes(p, bx), NEW b \in Balancers,
         NEW S \in SUBSET Replicas, NEW Q
  PROVE  /\ S \in SUBSET Places /\ {b} \in SUBSET Places /\ IsFiniteSet(S)
         /\ AreQueues(IntentsOf(rp), S, PullIntent)
         /\ Across(bx, S, Ann(b, Q)) \in Nat /\ Across(IntentsOf(rp), S, Ann(b, Q)) \in Nat
         /\ Across(bx, {b}, Ask(S, Q)) \in Nat
         /\ Owed(rp, bx, b, S, Q) \in Nat
<1>1. S \in SUBSET Places /\ {b} \in SUBSET Places  BY DEF Places
<1>2. Across(bx, S, Ann(b, Q)) \in Nat /\ IsFiniteSet(S)  BY <1>1, BoxesCounted
<1>3. Across(bx, {b}, Ask(S, Q)) \in Nat  BY <1>1, BoxesCounted
<1>4. ASSUME NEW s \in S
      PROVE  IntentsOf(rp)[s] \in Seq(PullIntent)
  <2>1. s \in Replicas  OBVIOUS
  <2>2. Resting(p, s, rp[s])  BY <2>1, ReplicaRests
  <2>3. rp[s].pull_intents \in Seq(PullIntent)  BY <2>1, <2>2, ReplicaTypes
  <2> QED BY <2>1, <2>3 DEF IntentsOf
<1>5. AreQueues(IntentsOf(rp), S, PullIntent)  BY <1>4 DEF AreQueues
<1>6. \A T : Across(IntentsOf(rp), S, T) \in Nat
  <2>1. CASE S = {}  BY <2>1, AcrossEmpty
  <2>2. CASE S # {}
    <3>1. PICK d \in S : TRUE  BY <2>2
    <3> QED BY ONLY <1>2, <1>5, <3>1, AcrossParts
  <2> QED BY <2>1, <2>2
<1>7. Across(IntentsOf(rp), S, Ann(b, Q)) \in Nat  BY <1>6
<1> QED BY <1>1, <1>2, <1>3, <1>5, <1>7 DEF Owed

LEMMA OutAsksTo ==
  ASSUME NEW p, NEW r \in Replicas, NEW out \in Seq(OutSends(p, r)), NEW b, NEW S, NEW Q
  PROVE  AskedTo(p, r, out, b, S, Q)
<1>1. \A i \in DOMAIN out : out[i] \in OutSends(p, r)  OBVIOUS
<1>2. ASSUME NEW o \in OutSends(p, r)
      PROVE  /\ o.msg.kind = "pull" => o.msg \in Pull /\ o.msg.server = r
             /\ o = [to |-> o.to, msg |-> o.msg]
  <2>1. /\ o \in Sends(p) /\ o.msg.kind \in {"call", "return", "completed", "release", "pull"}
        /\ o.msg.kind = "pull" => o.msg.server = r
    BY DEF OutSends
  <2>2. o = [to |-> o.to, msg |-> o.msg] /\ o.to \in Places /\ o.msg \in Mail(p, o.to)
    BY <2>1 DEF Sends
  <2>3. ASSUME o.msg.kind = "pull"
        PROVE  o.msg \in Pull
    <3>1. CASE o.to = Sink
      <4>1. Mail(p, Sink) = Completions  BY MailIs
      <4> QED BY <2>2, <2>3, <3>1, <4>1 DEF Completions
    <3>2. CASE o.to \in Replicas
      <4>1. o.msg \in Work(p, o.to) \cup Intents(p, o.to)
        BY <2>2, <3>2, MailIs
      <4> QED BY <2>3, <4>1 DEF Work, Intents, PullIntent
    <3>3. CASE o.to \in Balancers
      <4>1. o.msg \in Calls(p, o.to) \cup Pulls(p, o.to) \cup Releases(p, o.to)
        BY <2>2, <3>3, MailIs
      <4>2. o.msg \notin Calls(p, o.to) /\ o.msg \notin Releases(p, o.to)
        BY <2>3 DEF Calls, Releases, Release
      <4> QED BY <4>1, <4>2 DEF Pulls
    <3> QED BY <2>2, <3>1, <3>2, <3>3 DEF Places
  <2> QED BY <2>1, <2>2, <2>3
<1>3. CASE r \in S
  <2>1. ASSUME NEW o \in OutSends(p, r)
        PROVE  o \in [to : {b}, msg : Ask(S, Q)] <=> o \in AskTo(p, r, b, Q)
    <3>1. o \in AskTo(p, r, b, Q) <=> o.msg.kind = "pull" /\ o.to = b /\ o.msg.req \in Q
      BY DEF AskTo, PullSends
    <3>2. o \in [to : {b}, msg : Ask(S, Q)] => o.msg.kind = "pull" /\ o.to = b /\ o.msg.req \in Q
      BY DEF Ask, Pull
    <3>3. o.msg.kind = "pull" /\ o.to = b /\ o.msg.req \in Q => o \in [to : {b}, msg : Ask(S, Q)]
      BY <1>2, <1>3 DEF Ask
    <3> QED BY <3>1, <3>2, <3>3
  <2>2. {i \in DOMAIN out : out[i] \in [to : {b}, msg : Ask(S, Q)]}
          = {i \in DOMAIN out : out[i] \in AskTo(p, r, b, Q)}
    BY <1>1, <2>1
  <2> QED BY <1>3, <2>2 DEF Count, AskedTo
<1>4. CASE r \notin S
  <2>1. ASSUME NEW o \in OutSends(p, r)
        PROVE  o \notin [to : {b}, msg : Ask(S, Q)]
    <3>1. o \in [to : {b}, msg : Ask(S, Q)] => o.msg.kind = "pull" /\ o.msg.server \in S
      BY DEF Ask, Pull
    <3> QED BY <1>2, <1>4, <3>1
  <2>2. \A i \in DOMAIN out : out[i] \notin [to : {b}, msg : Ask(S, Q)]
    BY <1>1, <2>1
  <2>3. Count(out, [to : {b}, msg : Ask(S, Q)]) = 0  BY <2>2, CountNone
  <2> QED BY <1>4, <2>3 DEF AskedTo
<1> QED BY <1>3, <1>4 DEF AskedTo

(* A replica's handler loses no intent: one it takes is kept or becomes a pull. *)
LEMMA ReplicaKeepsOwed ==
  ASSUME NEW p, p = "amphiqueue", NEW rp, ReplicasTyped(p, rp), NEW bx, Boxes(p, bx), NEW by,
         NEW r \in Replicas, NEW in, NEW w, Handled(p, r, rp[r], in, w),
         NEW rq, ReplicasTyped(p, rq), ButSends(w, rq[r]), KeepsApart(rp, rq, Replicas, r),
         IsQueue(in),
         Ledger(p, r, in, w.out, bx, by),
         NEW b \in Balancers, NEW S \in SUBSET Replicas, NEW Q
  PROVE  Owed(rq, by, b, S, Q) = Owed(rp, bx, b, S, Q)
<1> DEFINE T == Ann(b, Q)
<1>1. /\ Boxes(p, by)
      /\ \A D \in SUBSET Places : \A U :
           Across(by, D, U) + (IF r \in D THEN Count(in, U) ELSE 0)
             = Across(bx, D, U) + Count(w.out, [to : D, msg : U])
  BY DEF Ledger
<1>2. /\ S \in SUBSET Places /\ {b} \in SUBSET Places /\ r \notin {b} /\ IsFiniteSet(S)
  BY OwedCounted, PlacesDiffer
<1>3. /\ AreQueues(IntentsOf(rp), S, PullIntent)
      /\ Across(bx, S, T) \in Nat /\ Across(IntentsOf(rp), S, T) \in Nat
      /\ Across(bx, {b}, Ask(S, Q)) \in Nat
  BY OwedCounted
<1>4. /\ AreQueues(IntentsOf(rq), S, PullIntent)
      /\ Across(by, S, T) \in Nat /\ Across(IntentsOf(rq), S, T) \in Nat
      /\ Across(by, {b}, Ask(S, Q)) \in Nat
  BY <1>1, OwedCounted
<1>5. w \in State(p, r) /\ Announced(p, r, w, b, Q) = Announced(p, r, rp[r], b, Q) + Count(in, T)
  BY DEF Handled
<1>6. rp[r] \in State(p, r) /\ rp[r].out = <<>>  BY ReplicaRests, RestingIs
<1>7. /\ w.out \in Seq(OutSends(p, r)) /\ Count(w.pull_intents, T) \in Nat
      /\ Count(w.out, AskTo(p, r, b, Q)) \in Nat
  BY <1>5, StateIs
<1>8. Count(rp[r].pull_intents, T) \in Nat /\ Count(rp[r].out, AskTo(p, r, b, Q)) = 0
  BY <1>6, StateIs, CountEmpty
<1>9. Count(w.pull_intents, T) + Count(w.out, AskTo(p, r, b, Q))
        = Count(rp[r].pull_intents, T) + Count(in, T)
  BY <1>5, <1>7, <1>8 DEF Announced
<1>17. Count(in, T) \in Nat  BY DEF IsQueue
<1>10. Count(w.out, [to : S, msg : T]) = 0
  <2>1. OutCounts(p, r, w.out)  BY <1>7, OutAsks
  <2> QED BY <2>1 DEF OutCounts
<1>11. Count(w.out, [to : {b}, msg : Ask(S, Q)]) = IF r \in S THEN Count(w.out, AskTo(p, r, b, Q)) ELSE 0
  <2>1. AskedTo(p, r, w.out, b, S, Q)  BY <1>7, OutAsksTo
  <2> QED BY <2>1 DEF AskedTo
<1>12. Across(by, S, T) + (IF r \in S THEN Count(in, T) ELSE 0) = Across(bx, S, T) + 0
  BY <1>1, <1>2, <1>10
<1>13. Across(by, {b}, Ask(S, Q)) + 0
         = Across(bx, {b}, Ask(S, Q)) + (IF r \in S THEN Count(w.out, AskTo(p, r, b, Q)) ELSE 0)
  BY <1>1, <1>2, <1>11
<1>14. /\ IntentsOf(rp)[r] = rp[r].pull_intents /\ IntentsOf(rq)[r] = w.pull_intents
       /\ \A o \in Replicas \ {r} : IntentsOf(rq)[o] = IntentsOf(rp)[o]
  BY DEF IntentsOf, ButSends, KeepsApart
<1>15. CASE r \in S
  <2>1. KeepsApart(IntentsOf(rp), IntentsOf(rq), S, r)  BY <1>14 DEF KeepsApart
  <2>2. Across(IntentsOf(rq), S, T) + Count(IntentsOf(rp)[r], T)
          = Across(IntentsOf(rp), S, T) + Count(IntentsOf(rq)[r], T)
    BY ONLY <1>2, <1>3, <1>4, <1>15, <2>1, AcrossChanges
  <2>3. Across(IntentsOf(rq), S, T) + Count(rp[r].pull_intents, T)
          = Across(IntentsOf(rp), S, T) + Count(w.pull_intents, T)
    BY <1>14, <2>2
  <2>4. /\ Across(by, S, T) + Count(in, T) = Across(bx, S, T) + 0
        /\ Across(by, {b}, Ask(S, Q)) + 0 = Across(bx, {b}, Ask(S, Q)) + Count(w.out, AskTo(p, r, b, Q))
    BY <1>12, <1>13, <1>15
  <2>5. PICK i \in Nat, u \in Nat, v \in Nat, o \in Nat :
          /\ i = Count(in, T) /\ u = Count(rp[r].pull_intents, T)
          /\ v = Count(w.pull_intents, T) /\ o = Count(w.out, AskTo(p, r, b, Q))
    BY <1>7, <1>8, <1>17
  <2>6. PICK a \in Nat, a2 \in Nat, x \in Nat, x2 \in Nat, c \in Nat, c2 \in Nat :
          /\ a = Across(bx, S, T) /\ a2 = Across(by, S, T)
          /\ x = Across(IntentsOf(rp), S, T) /\ x2 = Across(IntentsOf(rq), S, T)
          /\ c = Across(bx, {b}, Ask(S, Q)) /\ c2 = Across(by, {b}, Ask(S, Q))
    BY <1>3, <1>4
  <2>7. a2 + i = a + 0 /\ x2 + u = x + v /\ c2 + 0 = c + o /\ v + o = u + i
    BY <1>9, <2>3, <2>4, <2>5, <2>6
  <2>8. a2 + x2 + c2 = a + x + c  BY ONLY <2>7, ThreeStay
  <2> QED BY <2>6, <2>8 DEF Owed
<1>16. CASE r \notin S
  <2>1. Across(IntentsOf(rq), S, T) = Across(IntentsOf(rp), S, T)
    <3>1. \A d \in S : IntentsOf(rq)[d] = IntentsOf(rp)[d]  BY <1>14, <1>16
    <3> QED BY <3>1, AcrossSame
  <2>2. Across(by, S, T) = Across(bx, S, T) /\ Across(by, {b}, Ask(S, Q)) = Across(bx, {b}, Ask(S, Q))
    BY <1>3, <1>4, <1>12, <1>13, <1>16
  <2> QED BY <2>1, <2>2 DEF Owed
<1> QED BY <1>15, <1>16

LEMMA OwedMoves ==
  ASSUME NEW p, NEW rp, ReplicasTyped(p, rp), NEW bx, Boxes(p, bx), NEW by,
         NEW d \in Balancers, NEW u, NEW m, NEW v, NEW out \in Seq(Sends(p)), NEW bound,
         Settles(d, u, m, v, out, bound),
         Ledger(p, d, <<m>>, out, bx, by),
         NEW b \in Balancers, NEW S \in SUBSET Replicas, NEW Q
  PROVE  OwedMoved(rp, bx, by, d, m, out, b, S, Q)
<1> DEFINE T == Ann(b, Q)
<1>1. /\ Boxes(p, by)
      /\ \A D \in SUBSET Places : \A U :
           Across(by, D, U) + (IF d \in D THEN Count(<<m>>, U) ELSE 0)
             = Across(bx, D, U) + Count(out, [to : D, msg : U])
  BY DEF Ledger
<1>2. /\ S \in SUBSET Places /\ {b} \in SUBSET Places /\ d \notin S
  BY OwedCounted, PlacesDiffer
<1>3. /\ Across(bx, S, T) \in Nat /\ Across(IntentsOf(rp), S, T) \in Nat
      /\ Across(bx, {b}, Ask(S, Q)) \in Nat /\ Owed(rp, bx, b, S, Q) \in Nat
  BY OwedCounted
<1>4. /\ Across(by, S, T) \in Nat /\ Across(by, {b}, Ask(S, Q)) \in Nat
      /\ Owed(rp, by, b, S, Q) \in Nat
  BY <1>1, OwedCounted
<1>5. /\ Count(out, [to : S, msg : T]) \in Nat /\ Count(out, [to : S, msg : Ann(d, Q)]) \in Nat
      /\ OneIf(m \in Ask(S, Q)) \in Nat
  BY CountFinite DEF OneIf
<1>6. Across(by, S, T) + 0 = Across(bx, S, T) + Count(out, [to : S, msg : T])
  BY <1>1, <1>2
<1>7. Count(out, [to : {b}, msg : Ask(S, Q)]) = 0 /\ (b # d => Count(out, [to : S, msg : T]) = 0)
  BY DEF Settles
<1>8. Across(by, {b}, Ask(S, Q)) + (IF d = b THEN Count(<<m>>, Ask(S, Q)) ELSE 0)
        = Across(bx, {b}, Ask(S, Q)) + 0
  BY <1>1, <1>2, <1>7
<1>9. Count(<<m>>, Ask(S, Q)) = OneIf(m \in Ask(S, Q))  BY CountOne
<1>10. ASSUME b # d
       PROVE  Owed(rp, by, b, S, Q) = Owed(rp, bx, b, S, Q)
  BY <1>3, <1>4, <1>6, <1>7, <1>8, <1>10 DEF Owed
<1>11. ASSUME b = d
       PROVE  Owed(rp, by, b, S, Q) + OneIf(m \in Ask(S, Q))
                = Owed(rp, bx, b, S, Q) + Count(out, [to : S, msg : Ann(d, Q)])
  <2>1. /\ Across(by, {b}, Ask(S, Q)) + OneIf(m \in Ask(S, Q)) = Across(bx, {b}, Ask(S, Q)) + 0
        /\ Across(by, S, T) + 0 = Across(bx, S, T) + Count(out, [to : S, msg : Ann(d, Q)])
    BY <1>6, <1>8, <1>9, <1>11
  <2>2. PICK i \in Nat, o \in Nat :
          i = OneIf(m \in Ask(S, Q)) /\ o = Count(out, [to : S, msg : Ann(d, Q)])
    BY <1>5
  <2>3. PICK e \in Nat, e2 \in Nat, x \in Nat, c \in Nat, c2 \in Nat :
          /\ e = Across(bx, S, T) /\ e2 = Across(by, S, T) /\ x = Across(IntentsOf(rp), S, T)
          /\ c = Across(bx, {b}, Ask(S, Q)) /\ c2 = Across(by, {b}, Ask(S, Q))
    BY <1>3, <1>4
  <2>4. c2 + i = c + 0 /\ e2 + 0 = e + o  BY <2>1, <2>2, <2>3
  <2>5. (e2 + x + c2) + i = (e + x + c) + o  BY ONLY <2>4
  <2> QED BY <2>2, <2>3, <2>5 DEF Owed
<1> QED BY <1>3, <1>4, <1>5, <1>10, <1>11 DEF OwedMoved

LEMMA MetMoves ==
  ASSUME NEW p, NEW rp, ReplicasTyped(p, rp), NEW bx, Boxes(p, bx), NEW by,
         NEW d \in Balancers, NEW u \in Lb(p, d), NEW m, NEW v \in Lb(p, d), NEW out \in Seq(Sends(p)),
         NEW bound, Settles(d, u, m, v, out, bound),
         Ledger(p, d, <<m>>, out, bx, by), Met(u, rp, bx, d, bound)
  PROVE  Met(v, rp, by, d, bound)
<1>1. ASSUME NEW S \in SUBSET Replicas, NEW Q
      PROVE  /\ Owed(rp, by, d, S, Q) + OneIf(m \in Ask(S, Q))
                  = Owed(rp, bx, d, S, Q) + Count(out, [to : S, msg : Ann(d, Q)])
             /\ Owed(rp, by, d, S, Q) \in Nat /\ Owed(rp, bx, d, S, Q) \in Nat
             /\ Count(out, [to : S, msg : Ann(d, Q)]) \in Nat /\ OneIf(m \in Ask(S, Q)) \in Nat
  <2>1. OwedMoved(rp, bx, by, d, m, out, d, S, Q)
    BY ONLY <1>1, ReplicasTyped(p, rp), Boxes(p, bx), d \in Balancers, out \in Seq(Sends(p)),
       Settles(d, u, m, v, out, bound), Ledger(p, d, <<m>>, out, bx, by), OwedMoves
  <2> QED BY <2>1 DEF OwedMoved
<1>2. ServersOf[d] \in SUBSET Replicas /\ \A s \in ServersOf[d] : {s} \in SUBSET Replicas
  BY BalancerServes
<1>3. /\ \A s \in ServersOf[d] : u.pull_intent_load[s] \in Nat /\ v.pull_intent_load[s] \in Nat
      /\ Len(u.queue) \in Nat /\ Len(v.queue) \in Nat
      /\ \A T : Count(u.queue, T) \in Nat /\ Count(v.queue, T) \in Nat
  <2>1. /\ u.queue \in Seq(Held(p, d)) /\ v.queue \in Seq(Held(p, d))
        /\ u.pull_intent_load \in [ServersOf[d] -> Nat] /\ v.pull_intent_load \in [ServersOf[d] -> Nat]
    BY LbFields
  <2>2. \A T : Count(u.queue, T) \in Nat /\ Count(v.queue, T) \in Nat
    BY LbFields
  <2>3. \A s \in ServersOf[d] : u.pull_intent_load[s] \in Nat /\ v.pull_intent_load[s] \in Nat
    BY <2>1
  <2>4. Len(u.queue) \in Nat /\ Len(v.queue) \in Nat  BY <2>1
  <2> QED BY <2>2, <2>3, <2>4
<1>4. ASSUME NEW s \in ServersOf[d]
      PROVE  v.pull_intent_load[s] = Owed(rp, by, d, {s}, Ids)
  <2>1. v.pull_intent_load[s] + OneIf(m \in Ask({s}, Ids))
          = u.pull_intent_load[s] + Count(out, [to : {s}, msg : Ann(d, Ids)])
    BY DEF Settles
  <2>2. u.pull_intent_load[s] = Owed(rp, bx, d, {s}, Ids)  BY DEF Met
  <2>3. u.pull_intent_load[s] \in Nat /\ v.pull_intent_load[s] \in Nat  BY <1>3
  <2>4. /\ Owed(rp, by, d, {s}, Ids) + OneIf(m \in Ask({s}, Ids))
             = Owed(rp, bx, d, {s}, Ids) + Count(out, [to : {s}, msg : Ann(d, Ids)])
        /\ Owed(rp, by, d, {s}, Ids) \in Nat /\ Owed(rp, bx, d, {s}, Ids) \in Nat
        /\ Count(out, [to : {s}, msg : Ann(d, Ids)]) \in Nat /\ OneIf(m \in Ask({s}, Ids)) \in Nat
    BY <1>1, <1>2
  <2> QED BY ONLY <2>1, <2>2, <2>3, <2>4, Settled
<1>5. Len(v.queue) = Owed(rp, by, d, ServersOf[d], Ids)
  <2>1. Len(v.queue) + OneIf(m \in Ask(ServersOf[d], Ids))
          = Len(u.queue) + Count(out, [to : ServersOf[d], msg : Ann(d, Ids)])
    BY DEF Settles
  <2>2. Len(u.queue) = Owed(rp, bx, d, ServersOf[d], Ids)  BY DEF Met
  <2>3. Len(u.queue) \in Nat /\ Len(v.queue) \in Nat  BY <1>3
  <2>4. /\ Owed(rp, by, d, ServersOf[d], Ids) + OneIf(m \in Ask(ServersOf[d], Ids))
             = Owed(rp, bx, d, ServersOf[d], Ids) + Count(out, [to : ServersOf[d], msg : Ann(d, Ids)])
        /\ Owed(rp, by, d, ServersOf[d], Ids) \in Nat /\ Owed(rp, bx, d, ServersOf[d], Ids) \in Nat
        /\ Count(out, [to : ServersOf[d], msg : Ann(d, Ids)]) \in Nat
        /\ OneIf(m \in Ask(ServersOf[d], Ids)) \in Nat
    BY <1>1, <1>2
  <2> QED BY ONLY <2>1, <2>2, <2>3, <2>4, Settled
<1>6. ASSUME bound, NEW q \in Ids
      PROVE  Count(v.queue, HopsOf(q)) = Owed(rp, by, d, ServersOf[d], {q})
  <2>1. Count(v.queue, HopsOf(q)) + OneIf(m \in Ask(ServersOf[d], {q}))
          = Count(u.queue, HopsOf(q)) + Count(out, [to : ServersOf[d], msg : Ann(d, {q})])
    BY <1>6 DEF Settles
  <2>2. Count(u.queue, HopsOf(q)) = Owed(rp, bx, d, ServersOf[d], {q})
    BY <1>6 DEF Met
  <2>3. Count(u.queue, HopsOf(q)) \in Nat /\ Count(v.queue, HopsOf(q)) \in Nat
    BY <1>3
  <2>4. /\ Owed(rp, by, d, ServersOf[d], {q}) + OneIf(m \in Ask(ServersOf[d], {q}))
             = Owed(rp, bx, d, ServersOf[d], {q}) + Count(out, [to : ServersOf[d], msg : Ann(d, {q})])
        /\ Owed(rp, by, d, ServersOf[d], {q}) \in Nat /\ Owed(rp, bx, d, ServersOf[d], {q}) \in Nat
        /\ Count(out, [to : ServersOf[d], msg : Ann(d, {q})]) \in Nat
        /\ OneIf(m \in Ask(ServersOf[d], {q})) \in Nat
    BY <1>1, <1>2
  <2> QED BY ONLY <2>1, <2>2, <2>3, <2>4, Settled
<1> QED BY <1>4, <1>5, <1>6 DEF Met

(* The intents of another balancer *)
LEMMA MetElsewhere ==
  ASSUME NEW p, NEW rp, ReplicasTyped(p, rp), NEW bx, Boxes(p, bx), NEW by,
         NEW d \in Balancers, NEW u, NEW m, NEW v, NEW out \in Seq(Sends(p)), NEW bound,
         Settles(d, u, m, v, out, bound), Ledger(p, d, <<m>>, out, bx, by),
         NEW b \in Balancers, b # d, NEW x, Met(x, rp, bx, b, bound)
  PROVE  Met(x, rp, by, b, bound)
<1>1. \A S \in SUBSET Replicas : \A Q : Owed(rp, by, b, S, Q) = Owed(rp, bx, b, S, Q)
  <2>1. ASSUME NEW S \in SUBSET Replicas, NEW Q
        PROVE  OwedMoved(rp, bx, by, d, m, out, b, S, Q)
    BY ONLY <2>1, ReplicasTyped(p, rp), Boxes(p, bx), d \in Balancers, b \in Balancers,
       out \in Seq(Sends(p)),
       Settles(d, u, m, v, out, bound), Ledger(p, d, <<m>>, out, bx, by), OwedMoves
  <2> QED BY <2>1 DEF OwedMoved
<1>2. ServersOf[b] \in SUBSET Replicas /\ \A s \in ServersOf[b] : {s} \in SUBSET Replicas
  BY BalancerServes
<1> QED BY <1>1, <1>2 DEF Met

(* Who is asked by a message *)
LEMMA AskOf ==
  ASSUME NEW m
  PROVE  /\ m.kind # "pull" => \A S, Q : OneIf(m \in Ask(S, Q)) = 0
         /\ m \in Pull => \A S, Q : m \in Ask(S, Q) <=> m.server \in S /\ m.req \in Q
BY DEF Ask, Pull, OneIf

(* Sends that are neither intents nor pulls *)
LEMMA NeitherAnnouncedNorAsked ==
  ASSUME NEW o, o.msg.kind \notin {"intent", "pull"}
  PROVE  /\ \A b, S, Q : Count(<<o>>, [to : S, msg : Ann(b, Q)]) = 0
         /\ \A b, S, Q : Count(<<o>>, [to : {b}, msg : Ask(S, Q)]) = 0
<1>1. \A b, S, Q : o \notin [to : S, msg : Ann(b, Q)] /\ o \notin [to : {b}, msg : Ask(S, Q)]
  BY DEF Ann, PullIntent, Ask, Pull
<1>2. \A T : Count(<<o>>, T) = OneIf(o \in T)  BY CountOne
<1> QED BY <1>1, <1>2 DEF OneIf

LEMMA AnnounceCounts ==
  ASSUME NEW d \in Balancers, NEW s, NEW q \in Requests
  PROVE  AnnouncedOnce(d, s, q, <<Announce(d, s, q)>>)
<1> DEFINE o == Announce(d, s, q)
<1>1. \A T : Count(<<o>>, T) = OneIf(o \in T)  BY CountOne
<1>2. ASSUME NEW b, NEW S, NEW Q
      PROVE  o \in [to : S, msg : Ann(b, Q)] <=> (b = d /\ s \in S /\ q \in Q)
  <2>1. o.msg \in PullIntent /\ o.msg.lb = d /\ o.msg.req = q /\ o.to = s
    BY DEF PullIntent, Announce
  <2>2. o.msg \in Ann(b, Q) <=> b = d /\ q \in Q  BY <2>1 DEF Ann
  <2>3. o = [to |-> o.to, msg |-> o.msg]  BY DEF Announce
  <2> HIDE DEF o
  <2> QED BY <2>1, <2>2, <2>3
<1>3. ASSUME NEW b, NEW S, NEW Q
      PROVE  o \notin [to : {b}, msg : Ask(S, Q)]
  BY DEF Announce, Ask, Pull
<1> HIDE DEF o
<1>4. ASSUME NEW b, NEW S, NEW Q
      PROVE  Count(<<o>>, [to : S, msg : Ann(b, Q)]) = OneIf(b = d /\ s \in S /\ q \in Q)
  <2> DEFINE T == [to : S, msg : Ann(b, Q)]
  <2>1. o \in T <=> (b = d /\ s \in S /\ q \in Q)  BY <1>2
  <2> HIDE DEF T
  <2>2. Count(<<o>>, T) = OneIf(o \in T)  BY <1>1
  <2>3. Count(<<o>>, T) = OneIf(b = d /\ s \in S /\ q \in Q)
    BY <2>1, <2>2 DEF OneIf
  <2> QED BY <2>3 DEF T
<1>5. ASSUME NEW b, NEW S, NEW Q
      PROVE  Count(<<o>>, [to : {b}, msg : Ask(S, Q)]) = 0
  BY <1>1, <1>3 DEF OneIf
<1> QED BY <1>4, <1>5 DEF o, AnnouncedOnce

LEMMA AnnounceSettles ==
  ASSUME NEW p, p = "amphiqueue", NEW d \in Balancers, NEW m \in Calls(p, d), NEW u \in Lb(p, d),
         NEW s \in ServersOf[d], NEW e, NEW bound
  PROVE  Settles(d, u, m, [u EXCEPT !.queue = Enqueue(@, m, e), !.pull_intent_load[s] = @ + 1],
                 << Announce(d, s, m.req) >>, bound)
<1> DEFINE out == << Announce(d, s, m.req) >>
           q == Enqueue(u.queue, m, e)
           v == [u EXCEPT !.queue = Enqueue(@, m, e), !.pull_intent_load[s] = @ + 1]
           n == [u.pull_intent_load EXCEPT ![s] = @ + 1]
<1>1. m \in Hop /\ m.kind = "call" /\ m.req \in Requests  BY CallIs DEF Hop
<1>2. /\ u.queue \in Seq(Held(p, d)) /\ u.pull_intent_load \in [ServersOf[d] -> Nat]
      /\ \A T : Count(u.queue, T) \in Nat
  BY LbFields
<1>3. m \in Held(p, d)  BY DEF Held, PullPolicies
<1>4. Enqueued(Held(p, d), u.queue, m, q)  BY <1>2, <1>3, EnqueueAdds
<1> HIDE DEF q
<1>5. /\ q \in Seq(Held(p, d)) /\ Len(q) = Len(u.queue) + 1
      /\ \A T : Count(q, T) = Count(u.queue, T) + OneIf(m \in T)
  BY <1>4 DEF Enqueued
<1>6. \A x \in ServersOf[d] : n[x] = u.pull_intent_load[x] + OneIf(x = s)
  BY <1>2 DEF OneIf
<1>7. v = [u EXCEPT !.queue = q, !.pull_intent_load = n]  BY DEF Lb, q
<1> HIDE DEF v, n
<1>8. v.queue = q /\ v.pull_intent_load = n  BY <1>5, <1>7 DEF Lb
<1>9. /\ \A b, S, Q : Count(out, [to : S, msg : Ann(b, Q)]) = OneIf(b = d /\ s \in S /\ m.req \in Q)
      /\ \A b, S, Q : Count(out, [to : {b}, msg : Ask(S, Q)]) = 0
  <2>1. AnnouncedOnce(d, s, m.req, out)  BY <1>1, AnnounceCounts
  <2> QED BY <2>1 DEF AnnouncedOnce
<1>10. \A S, Q : OneIf(m \in Ask(S, Q)) = 0  BY <1>1, AskOf
<1> HIDE DEF out
<1>11. ASSUME NEW x \in ServersOf[d]
       PROVE  v.pull_intent_load[x] + OneIf(m \in Ask({x}, Ids))
                = u.pull_intent_load[x] + Count(out, [to : {x}, msg : Ann(d, Ids)])
  <2>1. Count(out, [to : {x}, msg : Ann(d, Ids)]) = OneIf(x = s)
    BY <1>1, <1>9 DEF Ids, OneIf
  <2>2. v.pull_intent_load[x] = u.pull_intent_load[x] + OneIf(x = s)
    BY <1>6, <1>8
  <2>3. u.pull_intent_load[x] \in Nat /\ OneIf(x = s) \in Nat
    BY <1>2 DEF OneIf
  <2> QED BY <1>10, <2>1, <2>2, <2>3
<1>12. Len(v.queue) + OneIf(m \in Ask(ServersOf[d], Ids))
         = Len(u.queue) + Count(out, [to : ServersOf[d], msg : Ann(d, Ids)])
  <2>0. m.req \in Ids  BY ONLY <1>1 DEF Ids
  <2>1. Count(out, [to : ServersOf[d], msg : Ann(d, Ids)]) = 1
    BY ONLY s \in ServersOf[d], <1>9, <2>0 DEF OneIf
  <2>2. Len(u.queue) \in Nat  BY <1>2
  <2> QED BY <1>5, <1>8, <1>10, <2>1, <2>2
<1>13. ASSUME NEW a \in Ids
       PROVE  Count(v.queue, HopsOf(a)) + OneIf(m \in Ask(ServersOf[d], {a}))
                = Count(u.queue, HopsOf(a)) + Count(out, [to : ServersOf[d], msg : Ann(d, {a})])
  <2>1. Count(out, [to : ServersOf[d], msg : Ann(d, {a})]) = OneIf(m.req = a)
    BY <1>9 DEF OneIf
  <2>2. OneIf(m \in HopsOf(a)) = OneIf(m.req = a) /\ OneIf(m.req = a) \in Nat
    BY <1>1 DEF HopsOf, OneIf
  <2>3. Count(u.queue, HopsOf(a)) \in Nat  BY <1>2
  <2>4. Count(v.queue, HopsOf(a)) = Count(u.queue, HopsOf(a)) + OneIf(m.req = a)
    BY <1>5, <1>8, <2>2
  <2> QED BY <1>10, <2>1, <2>2, <2>3, <2>4
<1>14. \A b, S, Q : b # d => Count(out, [to : S, msg : Ann(b, Q)]) = 0
  BY <1>9 DEF OneIf
<1>15. Settles(d, u, m, v, out, bound)
  BY <1>9, <1>11, <1>12, <1>13, <1>14 DEF Settles
<1> QED BY <1>15 DEF v, out

(* A pull takes the call it asks for, and its intent is no longer counted. *)
LEMMA PullSettles ==
  ASSUME NEW p, NEW d \in Balancers, NEW m \in Pulls(p, d), NEW u \in Lb(p, d),
         NEW i \in DOMAIN u.queue, NEW v, WithoutCall(p, d, u, i, m.server, v),
         u.pull_intent_load[m.server] # 0,
         NEW o, o.msg.kind \notin {"intent", "pull"}, NEW bound,
         bound => u.queue[i].req = m.req
  PROVE  Settles(d, u, m, v, <<o>>, bound)
<1> DEFINE out == <<o>>
           h == u.queue[i]
           s == m.server
           n == [u.pull_intent_load EXCEPT ![s] = SaturatingDec(@)]
<1>1. m \in Pull /\ s \in ServersOf[d] /\ m.req \in Ids
  BY DEF Pulls, Pull, Ids
<1>2. /\ u.queue \in Seq(Held(p, d)) /\ u.pull_intent_load \in [ServersOf[d] -> Nat]
  BY LbFields
<1>3. /\ v \in Lb(p, d) /\ v.pull_intent_load = n /\ h \in Held(p, d)
      /\ \A T : Count(u.queue, T) = Count(v.queue, T) + OneIf(h \in T)
      /\ Len(u.queue) = Len(v.queue) + 1 /\ Len(v.queue) \in Nat
  BY DEF WithoutCall
<1>4. \A T : Count(v.queue, T) \in Nat  BY <1>3, LbFields
<1>5. \A S, Q : m \in Ask(S, Q) <=> s \in S /\ m.req \in Q  BY <1>1, AskOf
<1>6. /\ \A b, S, Q : Count(out, [to : S, msg : Ann(b, Q)]) = 0
      /\ \A b, S, Q : Count(out, [to : {b}, msg : Ask(S, Q)]) = 0
  BY NeitherAnnouncedNorAsked
<1>7. h \in Hop  BY <1>3 DEF Held, Calls, Hopping
<1>8. \A x \in ServersOf[d] : n[x] + OneIf(x = s) = u.pull_intent_load[x]
  BY <1>1, <1>2 DEF OneIf, SaturatingDec
<1> HIDE DEF out, n, h, s
<1>9. ASSUME NEW x \in ServersOf[d]
      PROVE  v.pull_intent_load[x] + OneIf(m \in Ask({x}, Ids))
               = u.pull_intent_load[x] + Count(out, [to : {x}, msg : Ann(d, Ids)])
  <2>1. OneIf(m \in Ask({x}, Ids)) = OneIf(x = s)  BY <1>1, <1>5 DEF OneIf
  <2>2. v.pull_intent_load[x] + OneIf(x = s) = u.pull_intent_load[x]
    BY <1>3, <1>8
  <2>3. u.pull_intent_load[x] \in Nat /\ Count(out, [to : {x}, msg : Ann(d, Ids)]) = 0
    BY <1>2, <1>6
  <2> QED BY <2>1, <2>2, <2>3
<1>10. Len(v.queue) + OneIf(m \in Ask(ServersOf[d], Ids))
         = Len(u.queue) + Count(out, [to : ServersOf[d], msg : Ann(d, Ids)])
  <2>1. OneIf(m \in Ask(ServersOf[d], Ids)) = 1  BY <1>1, <1>5 DEF OneIf
  <2>2. Count(out, [to : ServersOf[d], msg : Ann(d, Ids)]) = 0  BY <1>6
  <2> QED BY <1>3, <2>1, <2>2
<1>11. ASSUME bound, NEW a \in Ids
       PROVE  Count(v.queue, HopsOf(a)) + OneIf(m \in Ask(ServersOf[d], {a}))
                = Count(u.queue, HopsOf(a)) + Count(out, [to : ServersOf[d], msg : Ann(d, {a})])
  <2>1. h.req = m.req  BY <1>11 DEF h
  <2>2. OneIf(m \in Ask(ServersOf[d], {a})) = OneIf(h.req = a)
    BY <1>1, <1>5, <2>1 DEF OneIf
  <2>3. OneIf(h \in HopsOf(a)) = OneIf(h.req = a) /\ OneIf(h.req = a) \in Nat
    BY <1>7 DEF HopsOf, OneIf
  <2>4. Count(out, [to : ServersOf[d], msg : Ann(d, {a})]) = 0  BY <1>6
  <2>5. Count(u.queue, HopsOf(a)) = Count(v.queue, HopsOf(a)) + OneIf(h \in HopsOf(a))
    BY <1>3
  <2>6. Count(v.queue, HopsOf(a)) \in Nat  BY <1>4
  <2> QED BY <2>2, <2>3, <2>4, <2>5, <2>6
<1>12. Settles(d, u, m, v, out, bound)  BY <1>6, <1>9, <1>10, <1>11 DEF Settles
<1> QED BY <1>12 DEF out

LEMMA ReleaseSettles ==
  ASSUME NEW p, NEW d \in Balancers, NEW m \in Releases(p, d), NEW u \in Lb(p, d),
         NEW v, v.queue = u.queue, v.pull_intent_load = u.pull_intent_load, NEW bound
  PROVE  Settles(d, u, m, v, <<>>, bound)
<1>1. \A S, Q : OneIf(m \in Ask(S, Q)) = 0  BY AskOf DEF Releases, Release
<1>2. \A T : Count(<<>>, T) = 0  BY CountNoMessage
<1>3. /\ \A b, S, Q : Count(<<>>, [to : S, msg : Ann(b, Q)]) = 0
      /\ \A b, S, Q : Count(<<>>, [to : {b}, msg : Ask(S, Q)]) = 0
  BY <1>2
<1>4. /\ u.queue \in Seq(Held(p, d)) /\ u.pull_intent_load \in [ServersOf[d] -> Nat]
      /\ \A T : Count(u.queue, T) \in Nat
  BY LbFields
<1>5. Len(u.queue) \in Nat /\ \A s \in ServersOf[d] : u.pull_intent_load[s] \in Nat
  BY <1>4
<1> QED BY <1>1, <1>3, <1>4, <1>5 DEF Settles

-----------------------------------------------------------------------------
(* Every step keeps the intents and the calls together. *)

LEMMA TicketsInit == Init => Tickets
<1> SUFFICES ASSUME Init, NEW b \in Balancers
             PROVE  Met(balancer[b], replica, inbox, b, Bound)
  BY DEF Tickets
<1>1. /\ replica = [r \in Replicas |-> NewReplica(WarmPulls(r))]
      /\ balancer = [x \in Balancers |-> NewBalancer(x)]
      /\ inbox = [x \in Places |-> <<>>]
  BY DEF Init, NewReplica, NewBalancer, Places
<1>2. ASSUME NEW S \in SUBSET Replicas, NEW Q
      PROVE  Owed(replica, inbox, b, S, Q) = 0
  <2>1. \A d \in S : inbox[d] = <<>>  BY <1>1 DEF Places
  <2>2. \A d \in {b} : inbox[d] = <<>>  BY <1>1 DEF Places
  <2>3. \A d \in S : IntentsOf(replica)[d] = <<>>
    BY <1>1 DEF IntentsOf, NewReplica
  <2>4. Across(inbox, S, Ann(b, Q)) = 0  BY <2>1, AcrossEmpty
  <2>5. Across(inbox, {b}, Ask(S, Q)) = 0  BY <2>2, AcrossEmpty
  <2>6. Across(IntentsOf(replica), S, Ann(b, Q)) = 0  BY <2>3, AcrossEmpty
  <2> QED BY <2>4, <2>5, <2>6 DEF Owed
<1>3. ServersOf[b] \in SUBSET Replicas /\ \A s \in ServersOf[b] : {s} \in SUBSET Replicas
  BY BalancerServes
<1>4. balancer[b].queue = <<>> /\ \A s \in ServersOf[b] : balancer[b].pull_intent_load[s] = 0
  BY <1>1 DEF NewBalancer
<1>5. Len(balancer[b].queue) = 0  BY <1>4
<1>6. \A q \in Ids : Count(balancer[b].queue, HopsOf(q)) = 0
  BY <1>4, CountEmpty
<1> QED BY <1>2, <1>3, <1>4, <1>5, <1>6 DEF Met

LEMMA MetSame ==
  ASSUME NEW u, NEW rp, NEW bx, NEW rq, NEW by, NEW b \in Balancers, NEW bound,
         \A S \in SUBSET Replicas : \A Q : Owed(rq, by, b, S, Q) = Owed(rp, bx, b, S, Q),
         Met(u, rp, bx, b, bound)
  PROVE  Met(u, rq, by, b, bound)
<1>1. ServersOf[b] \in SUBSET Replicas /\ \A s \in ServersOf[b] : {s} \in SUBSET Replicas
  BY BalancerServes
<1> QED BY <1>1 DEF Met

LEMMA TicketsReplica ==
  ASSUME Basics, Tickets, NEW r \in Replicas, NEW in, NEW boxes, NEW w, Handles(r, in, boxes, w)
  PROVE  Tickets'
<1>1. /\ policy \in Policies /\ ReplicasTyped(policy, replica) /\ BalancersTyped(policy, balancer)
      /\ Boxes(policy, inbox)
  BY BasicsAre
<1>2. /\ Taken(inbox, r, in, boxes) /\ Handled(policy, r, replica[r], in, w)
      /\ Becomes(r, w, boxes)
  BY DEF Handles, Done
<1>3. /\ replica' = Became(replica, r, w) /\ inbox' = Deliver(boxes, w.out) /\ config' = config
      /\ balancer' = balancer /\ policy' = policy
  BY <1>2, BecomesIs
<1>4. Ledger(policy, r, in, w.out, inbox, inbox')
  <2>1. Ledger(policy, r, in, w.out, inbox, Deliver(boxes, w.out))
    BY ONLY <1>1, <1>2, r \in Replicas, ReplicaKeepsPlaces
  <2> QED BY ONLY <1>3, <2>1
<1>5. w \in State(policy, r)  BY <1>2 DEF Handled
<1>6. /\ ReplicasTyped(policy, replica') /\ ButSends(w, replica'[r])
      /\ \A o \in Replicas \ {r} : replica'[o] = replica[o]
  BY <1>1, <1>3, <1>5, BecameIs
<1>7. KeepsApart(replica, replica', Replicas, r)  BY <1>6 DEF KeepsApart
<1>8. IsQueue(in)
  <2>1. r \in Places  BY DEF Places
  <2> QED BY <1>1, <1>2, <2>1, TakenIs DEF IsQueue
<1>9. SUFFICES ASSUME policy = "amphiqueue", NEW b \in Balancers
               PROVE  Met(balancer[b], replica', inbox', b, Bound)
  BY <1>3 DEF Tickets, Bound
<1>10. ASSUME NEW S \in SUBSET Replicas, NEW Q
       PROVE  Owed(replica', inbox', b, S, Q) = Owed(replica, inbox, b, S, Q)
  <2>1. /\ policy = "amphiqueue" /\ ReplicasTyped(policy, replica) /\ Boxes(policy, inbox)
        /\ Handled(policy, r, replica[r], in, w) /\ ReplicasTyped(policy, replica')
        /\ ButSends(w, replica'[r]) /\ KeepsApart(replica, replica', Replicas, r)
        /\ IsQueue(in) /\ Ledger(policy, r, in, w.out, inbox, inbox')
        /\ r \in Replicas /\ b \in Balancers /\ S \in SUBSET Replicas
    BY <1>1, <1>2, <1>4, <1>6, <1>7, <1>8, <1>9
  <2> QED BY ONLY <2>1, ReplicaKeepsOwed
<1>11. Met(balancer[b], replica, inbox, b, Bound)  BY <1>9 DEF Tickets
<1> QED BY ONLY <1>9, <1>10, <1>11, MetSame

LEMMA TicketsArrive ==
  ASSUME Basics, Tickets, NEW q \in Requests, Arrive(q)
  PROVE  Tickets'
<1> DEFINE m == ArrivalAt(q)
<1>1. config' = config /\ replica' = replica /\ balancer' = balancer /\ policy' = policy
  BY DEF Arrive, policy
<1>2. PICK r \in ReplicasOf[Root[q]] : inbox' = [inbox EXCEPT ![r] = Append(@, m)]
  BY DEF Arrive, ArrivalAt
<1>3. /\ policy \in Policies /\ config \in Configs /\ Boxes(policy, inbox)
  BY BasicsAre
<1>4. m \in Mail(policy, r) /\ r \in Places /\ r \in Replicas
  BY <1>3, ArrivalIs
<1>5. m.kind = "upstream"  BY DEF ArrivalAt
<1> HIDE DEF m
<1>6. Ledger(policy, r, <<>>, <<[to |-> r, msg |-> m]>>, inbox, inbox')
  BY <1>2, <1>3, <1>4, LedgerSent
<1>7. Boxes(policy, inbox')  BY <1>6 DEF Ledger
<1>8. ASSUME NEW D \in SUBSET Places, NEW T, m \notin T
      PROVE  Across(inbox', D, T) = Across(inbox, D, T)
  <2>1. Across(inbox', D, T) + (IF r \in D THEN Count(<<>>, T) ELSE 0)
          = Across(inbox, D, T) + Count(<<[to |-> r, msg |-> m]>>, [to : D, msg : T])
    BY <1>6 DEF Ledger
  <2>2. Count(<<>>, T) = 0  BY CountNoMessage
  <2>3. Count(<<[to |-> r, msg |-> m]>>, [to : D, msg : T]) = 0
    <3>1. [to |-> r, msg |-> m] \notin [to : D, msg : T]  BY <1>8
    <3> QED BY <3>1, CountOne DEF OneIf
  <2>4. Across(inbox', D, T) \in Nat /\ Across(inbox, D, T) \in Nat
    BY <1>3, <1>7, BoxesCounted
  <2> QED BY <2>1, <2>2, <2>3, <2>4
<1>9. SUFFICES ASSUME policy = "amphiqueue", NEW b \in Balancers
               PROVE  Met(balancer[b], replica, inbox', b, Bound)
  BY <1>1 DEF Tickets, Bound
<1>10. \A Q : m \notin Ann(b, Q) /\ \A S : m \notin Ask(S, Q)
  BY <1>5 DEF Ann, PullIntent, Ask, Pull
<1>11. ASSUME NEW S \in SUBSET Replicas, NEW Q
       PROVE  Owed(replica, inbox', b, S, Q) = Owed(replica, inbox, b, S, Q)
  <2>1. S \in SUBSET Places /\ {b} \in SUBSET Places  BY DEF Places
  <2>2. Across(inbox', S, Ann(b, Q)) = Across(inbox, S, Ann(b, Q))
    BY <1>8, <1>10, <2>1
  <2>3. Across(inbox', {b}, Ask(S, Q)) = Across(inbox, {b}, Ask(S, Q))
    BY <1>8, <1>10, <2>1
  <2> QED BY <2>2, <2>3 DEF Owed
<1>12. Met(balancer[b], replica, inbox, b, Bound)  BY <1>9 DEF Tickets
<1> QED BY ONLY <1>9, <1>11, <1>12, MetSame

(* A pull that comes is counted in the load of its server. *)
LEMMA PullIsCounted ==
  ASSUME NEW p, NEW rp, ReplicasTyped(p, rp), NEW bx, Boxes(p, bx), NEW b \in Balancers,
         NEW u, NEW bound, Met(u, rp, bx, b, bound),
         bx[b] # <<>>, Head(bx[b]) \in Pulls(p, b)
  PROVE  u.pull_intent_load[Head(bx[b]).server] # 0
<1> DEFINE m == Head(bx[b])
           s == m.server
           T == Ask({s}, Ids)
<1>1. s \in ServersOf[b] /\ m \in T  BY DEF Pulls, Pull, Ask, Ids
<1>2. {s} \in SUBSET Replicas  BY <1>1, BalancerServes
<1> HIDE DEF s
<1>3. /\ Across(bx, {s}, Ann(b, Ids)) \in Nat /\ Across(IntentsOf(rp), {s}, Ann(b, Ids)) \in Nat
      /\ Across(bx, {b}, T) \in Nat
  BY <1>2, OwedCounted
<1>4. bx[b] \in Seq(Mail(p, b))  BY DEF Boxes, Places
<1>5. Across(bx, {b}, T) = Count(bx[b], T)  BY <1>4, AcrossOne
<1>6. Count(bx[b], T) >= 1  BY <1>1, <1>4, HeadCounted
<1>7. Owed(rp, bx, b, {s}, Ids) # 0  BY <1>3, <1>5, <1>6 DEF Owed
<1>8. u.pull_intent_load[s] = Owed(rp, bx, b, {s}, Ids)  BY <1>1 DEF Met
<1> QED BY <1>7, <1>8 DEF s

LEMMA AnnounceCallSettles ==
  ASSUME Basics, NEW b \in Balancers, AnnounceCall(b)
  PROVE  \E m, v, out : Settling(b, m, v, out)
<1> DEFINE m == Head(inbox[b])
           u == balancer[b]
           e == config.pull_sched \in {"edf", "edf+"}
<1>1. inbox[b] # <<>> /\ m.kind = "call" /\ policy = "amphiqueue"
  BY DEF AnnounceCall, Receives
<1>2. PICK s \in ServersOf[b] :
        Routes(b, [u EXCEPT !.queue = Enqueue(@, m, e), !.pull_intent_load[s] = @ + 1],
               << [to |-> s, msg |-> [kind |-> "intent", lb |-> b, req |-> m.req]] >>)
  BY DEF AnnounceCall
<1> DEFINE v == [u EXCEPT !.queue = Enqueue(@, m, e), !.pull_intent_load[s] = @ + 1]
           out == << [to |-> s, msg |-> [kind |-> "intent", lb |-> b, req |-> m.req]] >>
<1>3. config \in Configs /\ u \in Lb(policy, b) /\ m \in Calls(policy, b)
  BY <1>1, HeadAtBalancer
<1> HIDE DEF m, u, e
<1>4. Routed(policy, b, u, m, v, out)  BY <1>1, <1>3, AnnounceCallRoutes
<1>5. out = << Announce(b, s, m.req) >>  BY DEF Announce
<1>6. Settles(b, u, m, v, << Announce(b, s, m.req) >>, Bound)
  BY <1>1, <1>3, AnnounceSettles
<1> HIDE DEF v, out
<1>7. Settles(b, u, m, v, out, Bound)  BY <1>5, <1>6
<1>8. Routes(b, v, out)  BY <1>2 DEF v, out
<1>9. RoutesFrom(b, m, v, out)  BY <1>1, <1>4, <1>8 DEF RoutesFrom, m, u
<1>10. Settling(b, m, v, out)  BY <1>7, <1>9 DEF Settling, u
<1> QED BY <1>10

LEMMA AmphiPullSettles ==
  ASSUME Basics, Tickets, NEW b \in Balancers, AmphiPullArrives(b)
  PROVE  \E m, v, out : Settling(b, m, v, out)
<1> DEFINE m == Head(inbox[b])
           u == balancer[b]
           i == Min(PullPositions(u.queue, m.req))
           v == TakenState(u, i, m.server)
           o == [to |-> m.server, msg |-> Dispatched(u.queue[i], m.server)]
<1>1. inbox[b] # <<>> /\ m.kind = "pull" /\ policy = "amphiqueue"
      /\ PullPositions(u.queue, m.req) # {} /\ Routes(b, v, <<o>>)
  BY DEF AmphiPullArrives, Receives, TakenState
<1>2. config \in Configs /\ u \in Lb(policy, b) /\ m \in Pulls(policy, b)
  BY <1>1, HeadAtBalancer
<1>3. /\ i \in DOMAIN u.queue /\ i \in PullPositions(u.queue, m.req)
      /\ u.queue[i] \in Held(policy, b)
  <2>1. u.queue \in Seq(Held(policy, b))  BY <1>2, LbFields
  <2>2. i \in DOMAIN u.queue /\ i \in PullPositions(u.queue, m.req)
    BY <1>1, <2>1, PullPositionsIn
  <2> HIDE DEF i
  <2> QED BY <2>1, <2>2
<1>4. Bound => u.queue[i].req = m.req
  <2> HIDE DEF i
  <2> QED BY <1>3 DEF PullPositions, Bound
<1> HIDE DEF i
<1>5. Routed(policy, b, u, m, v, <<o>>)  BY <1>1, <1>2, <1>3, AmphiPullRoutes
<1>6. m.server \in ServersOf[b]  BY <1>2, PullIs
<1>7. WithoutCall(policy, b, u, i, m.server, v)
  BY <1>2, <1>3, <1>6, TakenStateIs
<1>8. u.pull_intent_load[m.server] # 0
  <2>1. Met(u, replica, inbox, b, Bound)  BY <1>1 DEF Tickets
  <2>2. ReplicasTyped(policy, replica) /\ Boxes(policy, inbox)  BY BasicsAre
  <2> QED BY ONLY <1>1, <1>2, <2>1, <2>2, b \in Balancers, PullIsCounted
<1>9. o.msg.kind = "upstream"
  <2>1. u.queue[i] \in Calls(policy, b)  BY <1>3 DEF Held
  <2>2. Dispatch(policy, u.queue[i], m.server, Dispatched(u.queue[i], m.server))
    BY <1>2, <1>6, <2>1, DispatchedIs
  <2> QED BY <2>2 DEF Dispatch
<1> HIDE DEF v, o, m, u
<1>10. o.msg.kind \notin {"intent", "pull"}  BY <1>9
<1>11. Settles(b, u, m, v, <<o>>, Bound)
  BY ONLY <1>2, <1>3, <1>4, <1>7, <1>8, <1>10, b \in Balancers, PullSettles
<1>12. RoutesFrom(b, m, v, <<o>>)  BY <1>1, <1>5 DEF RoutesFrom, m, u
<1>13. Settling(b, m, v, <<o>>)  BY <1>11, <1>12 DEF Settling, u
<1> QED BY <1>13

LEMMA ReleaseArrivesSettles ==
  ASSUME Basics, NEW b \in Balancers, ReleaseArrives(b)
  PROVE  \E m, v, out : Settling(b, m, v, out)
<1> DEFINE m == Head(inbox[b])
           u == balancer[b]
           v == [u EXCEPT !.inflight[m.server] = SaturatingDec(@)]
<1>1. inbox[b] # <<>> /\ m.kind = "release" /\ Routes(b, v, <<>>)
  BY DEF ReleaseArrives, Receives
<1>2. u \in Lb(policy, b) /\ Apart(u) /\ m \in Releases(policy, b)
  BY <1>1, HeadAtBalancer
<1>3. Routed(policy, b, u, m, v, <<>>)  BY <1>2, ReleaseRoutes
<1>4. v.queue = u.queue /\ v.pull_intent_load = u.pull_intent_load
  BY <1>2 DEF Lb
<1> HIDE DEF v, u, m
<1>5. Settles(b, u, m, v, <<>>, Bound)  BY <1>2, <1>4, ReleaseSettles
<1>6. RoutesFrom(b, m, v, <<>>)  BY <1>1, <1>3 DEF RoutesFrom, m, u
<1>7. Settling(b, m, v, <<>>)  BY <1>5, <1>6 DEF Settling, u
<1> QED BY <1>7

LEMMA RouteSettles ==
  ASSUME Basics, Tickets, policy = "amphiqueue", NEW b \in Balancers, Route(b)
  PROVE  \E m, v, out : Settling(b, m, v, out)
<1>1. "amphiqueue" \notin PushPolicies /\ "amphiqueue" \notin CentralPullPolicies
  BY DEF PushPolicies, CentralPullPolicies
<1>2. ~PushCall(b) /\ ~QueueCall(b) /\ ~CentralPullArrives(b)
  BY <1>1 DEF PushCall, QueueCall, CentralPullArrives
<1> QED
  BY <1>2, AnnounceCallSettles, AmphiPullSettles, ReleaseArrivesSettles DEF Route

LEMMA TicketsBalancer ==
  ASSUME Basics, Tickets, NEW d \in Balancers, Route(d)
  PROVE  Tickets'
<1>1. /\ policy \in Policies /\ ReplicasTyped(policy, replica) /\ BalancersTyped(policy, balancer)
      /\ Boxes(policy, inbox)
  BY BasicsAre
<1>2. config' = config /\ policy' = policy
  <2>1. PICK m, v, out : RoutesFrom(d, m, v, out)  BY RouteSteps
  <2> QED BY <2>1, RoutesIs DEF RoutesFrom
<1>3. SUFFICES ASSUME policy = "amphiqueue"
               PROVE  \A b \in Balancers : Met(balancer'[b], replica', inbox', b, Bound)
  BY <1>2 DEF Tickets, Bound
<1>4. PICK m, v, out : Settling(d, m, v, out)  BY <1>3, RouteSettles
<1>5. /\ RoutesFrom(d, m, v, out) /\ Settles(d, balancer[d], m, v, out, Bound)
  BY <1>4 DEF Settling
<1>6. /\ Routed(policy, d, balancer[d], m, v, out) /\ Routes(d, v, out)
  BY <1>5 DEF RoutesFrom
<1>7. /\ balancer' = Rerouted(balancer, d, v) /\ replica' = replica
  BY <1>6, RoutesIs
<1>8. Ledger(policy, d, <<m>>, out, inbox, inbox')  BY <1>5, BasicsBalancer
<1>9. v \in Lb(policy, d) /\ out \in Seq(Sends(policy)) /\ balancer[d] \in Lb(policy, d)
  BY <1>1, <1>6, LbIs DEF Routed
<1>10. balancer'[d] = v /\ \A o \in Balancers \ {d} : balancer'[o] = balancer[o]
  BY <1>1, <1>7, <1>9, ReroutedIs
<1>11. \A b \in Balancers : Met(balancer[b], replica, inbox, b, Bound)
  BY <1>3 DEF Tickets
<1>12. Met(v, replica, inbox', d, Bound)
  <2>1. Met(balancer[d], replica, inbox, d, Bound)  BY <1>11
  <2> QED BY ONLY <1>1, <1>5, <1>8, <1>9, <2>1, d \in Balancers, MetMoves
<1>13. ASSUME NEW b \in Balancers, b # d
       PROVE  Met(balancer[b], replica, inbox', b, Bound)
  <2>1. Met(balancer[b], replica, inbox, b, Bound)  BY <1>11
  <2> QED
    BY ONLY <1>1, <1>5, <1>8, <1>9, <1>13, <2>1, d \in Balancers, MetElsewhere
<1> QED BY <1>7, <1>10, <1>12, <1>13

LEMMA TicketsStep ==
  ASSUME Basics, Tickets, [Next]_vars
  PROVE  Tickets'
<1>1. CASE UNCHANGED vars
  <2>1. /\ replica' = replica /\ balancer' = balancer /\ inbox' = inbox /\ policy' = policy
        /\ config' = config
    BY <1>1 DEF vars, policy
  <2> QED BY <2>1 DEF Tickets, Bound
<1>2. ASSUME NEW q \in Requests, Arrive(q)
      PROVE  Tickets'
  BY <1>2, TicketsArrive
<1>3. ASSUME NEW r \in Replicas, NEW in, NEW boxes, NEW w, Handles(r, in, boxes, w)
      PROVE  Tickets'
  BY <1>3, TicketsReplica
<1>4. ASSUME NEW b \in Balancers, Route(b)
      PROVE  Tickets'
  BY <1>4, TicketsBalancer
<1>5. \/ UNCHANGED vars
      \/ \E q \in Requests : Arrive(q)
      \/ \E r \in Replicas : \E in, boxes, w : Handles(r, in, boxes, w)
      \/ \E b \in Balancers : Route(b) /\ \E m, v, out : RoutesFrom(b, m, v, out)
  BY StepIs
<1> QED BY <1>1, <1>2, <1>3, <1>4, <1>5

LEMMA TicketsInvariant == Spec => [](Basics /\ Tickets)
<1>1. Init => Basics /\ Tickets  BY BasicsInit, TicketsInit
<1>2. Basics /\ Tickets /\ [Next]_vars => Basics' /\ Tickets'
  BY BasicsStep, TicketsStep
<1> QED BY <1>1, <1>2, PTL DEF Spec, Safety

(* Intents among a replica's mail, and pulls among a balancer's *)
LEMMA AnnMail ==
  ASSUME NEW p, NEW s \in Replicas, NEW m \in Mail(p, s), NEW b, NEW Q
  PROVE  /\ m \in Ann(b, Q) <=> m.kind = "intent" /\ m.lb = b /\ m.req \in Q
         /\ m.kind = "intent" => m.req \in Ids
<1>1. m \in Work(p, s) \cup Intents(p, s)  BY MailIs
<1>2. CASE m \in Work(p, s)  BY <1>2 DEF Work, Hopping, Ann, PullIntent
<1>3. CASE m \in Intents(p, s)  BY <1>3 DEF Intents, PullIntent, Ann, Ids
<1> QED BY <1>1, <1>2, <1>3

LEMMA AnnIntent ==
  ASSUME NEW m \in PullIntent, NEW b, NEW Q
  PROVE  /\ m \in Ann(b, Q) <=> m.kind = "intent" /\ m.lb = b /\ m.req \in Q
         /\ m.req \in Ids
BY DEF Ann, PullIntent, Ids

LEMMA AskMailTo ==
  ASSUME NEW p, NEW b \in Balancers, NEW m \in Mail(p, b), NEW S, NEW Q
  PROVE  /\ m \in Ask(S, Q) <=> m.kind = "pull" /\ m.server \in S /\ m.req \in Q
         /\ m.kind = "pull" => m.req \in Ids /\ m.server \in ServersOf[b]
<1>1. m \in Calls(p, b) \cup Pulls(p, b) \cup Releases(p, b)  BY MailIs
<1>2. CASE m \in Pulls(p, b)  BY <1>2 DEF Pulls, Pull, Ask, Ids
<1>3. CASE m \in Calls(p, b)  BY <1>3 DEF Calls, Pull, Ask
<1>4. CASE m \in Releases(p, b)  BY <1>4 DEF Releases, Release, Pull, Ask
<1> QED BY <1>1, <1>2, <1>3, <1>4

(* What IntentsMatchCalls counts *)
LEMMA OwedIs ==
  ASSUME Basics, NEW b \in Balancers, NEW S \in SUBSET ServersOf[b]
  PROVE  LET announced(x) == x.kind = "intent" /\ x.lb = b
         IN CountIn([s \in S |-> inbox[s]], announced)
              + CountIn([s \in S |-> replica[s].pull_intents], announced)
              + CountIn([d \in {b} |-> inbox[d]], LAMBDA x : x.kind = "pull" /\ x.server \in S)
              = Owed(replica, inbox, b, S, Ids)
<1> DEFINE announced(x) == x.kind = "intent" /\ x.lb = b
           asked(x) == x.kind = "pull" /\ x.server \in S
           T == Ann(b, Ids)
<1>1. /\ policy \in Policies /\ ReplicasTyped(policy, replica) /\ Boxes(policy, inbox)
  BY BasicsAre
<1>2. S \subseteq Replicas  BY BalancerServes
<1>3. CountIn([s \in S |-> inbox[s]], announced) = Across(inbox, S, T)
  <2> DEFINE f == [s \in S |-> inbox[s]]
  <2>1. DOMAIN f = S  OBVIOUS
  <2>2. ASSUME NEW x \in S
        PROVE  {<<x, i>> : i \in {j \in DOMAIN f[x] : announced(f[x][j])}} = Matches(inbox, x, T)
    <3>1. x \in Replicas /\ f[x] = inbox[x]  BY <1>2
    <3>2. inbox[x] \in Seq(Mail(policy, x))  BY <1>1, <3>1 DEF Boxes, Places
    <3>3. \A j \in DOMAIN inbox[x] : inbox[x][j] \in Mail(policy, x)  BY <3>2
    <3>4. \A j \in DOMAIN inbox[x] : announced(inbox[x][j]) <=> inbox[x][j] \in T
      BY <3>1, <3>3, AnnMail
    <3> QED BY <3>1, <3>4 DEF Matches
  <2> HIDE DEF f
  <2>3. Positions(f, announced) = UNION {Matches(inbox, x, T) : x \in S}
    BY <2>1, <2>2 DEF Positions
  <2>4. CountIn(f, announced) = Across(inbox, S, T)
    BY <2>3 DEF CountIn, Across
  <2> QED BY <2>4 DEF f
<1>4. CountIn([s \in S |-> replica[s].pull_intents], announced) = Across(IntentsOf(replica), S, T)
  <2> DEFINE f == [s \in S |-> replica[s].pull_intents]
             g == IntentsOf(replica)
  <2>1. DOMAIN f = S  OBVIOUS
  <2>2. ASSUME NEW x \in S
        PROVE  {<<x, i>> : i \in {j \in DOMAIN f[x] : announced(f[x][j])}} = Matches(g, x, T)
    <3>1. x \in Replicas /\ f[x] = replica[x].pull_intents /\ g[x] = f[x]
      BY <1>2 DEF IntentsOf
    <3>2. f[x] \in Seq(PullIntent)  BY <1>1, <3>1, ReplicaRests, ReplicaTypes
    <3>3. \A j \in DOMAIN f[x] : f[x][j] \in PullIntent  BY <3>2
    <3>4. \A j \in DOMAIN f[x] : announced(f[x][j]) <=> f[x][j] \in T
      BY <3>3, AnnIntent
    <3> QED BY <3>1, <3>4 DEF Matches
  <2> HIDE DEF f, g
  <2>3. Positions(f, announced) = UNION {Matches(g, x, T) : x \in S}
    BY <2>1, <2>2 DEF Positions
  <2>4. CountIn(f, announced) = Across(g, S, T)  BY <2>3 DEF CountIn, Across
  <2> QED BY <2>4 DEF f, g
<1>5. CountIn([d \in {b} |-> inbox[d]], asked) = Across(inbox, {b}, Ask(S, Ids))
  <2> DEFINE f == [d \in {b} |-> inbox[d]]
  <2>1. DOMAIN f = {b}  OBVIOUS
  <2>2. ASSUME NEW x \in {b}
        PROVE  {<<x, i>> : i \in {j \in DOMAIN f[x] : asked(f[x][j])}} = Matches(inbox, x, Ask(S, Ids))
    <3>1. x \in Balancers /\ f[x] = inbox[x]  OBVIOUS
    <3>2. inbox[x] \in Seq(Mail(policy, x))  BY <1>1, <3>1 DEF Boxes, Places
    <3>3. \A j \in DOMAIN inbox[x] : inbox[x][j] \in Mail(policy, x)  BY <3>2
    <3>4. \A j \in DOMAIN inbox[x] : asked(inbox[x][j]) <=> inbox[x][j] \in Ask(S, Ids)
      BY <3>1, <3>3, AskMailTo
    <3> QED BY <3>1, <3>4 DEF Matches
  <2> HIDE DEF f
  <2>3. Positions(f, asked) = UNION {Matches(inbox, x, Ask(S, Ids)) : x \in {b}}
    BY <2>1, <2>2 DEF Positions
  <2>4. CountIn(f, asked) = Across(inbox, {b}, Ask(S, Ids))
    BY <2>3 DEF CountIn, Across
  <2> QED BY <2>4 DEF f
<1> QED BY <1>3, <1>4, <1>5 DEF Owed

LEMMA OwedSome ==
  ASSUME NEW p, NEW rp, ReplicasTyped(p, rp), NEW bx, Boxes(p, bx), NEW b \in Balancers,
         NEW S \in SUBSET ServersOf[b], NEW Q
  PROVE  Owed(rp, bx, b, S, Q) # 0 <=>
           \/ \E s \in S : \E i \in DOMAIN bx[s] : bx[s][i] \in Ann(b, Q)
           \/ \E s \in S : \E i \in DOMAIN rp[s].pull_intents : rp[s].pull_intents[i] \in Ann(b, Q)
           \/ \E i \in DOMAIN bx[b] : bx[b][i] \in Ask(S, Q)
<1> DEFINE X == \E s \in S : \E i \in DOMAIN bx[s] : bx[s][i] \in Ann(b, Q)
           Y == \E s \in S : \E i \in DOMAIN rp[s].pull_intents : rp[s].pull_intents[i] \in Ann(b, Q)
           Z == \E i \in DOMAIN bx[b] : bx[b][i] \in Ask(S, Q)
           g == IntentsOf(rp)
<1>1. S \in SUBSET Replicas  BY BalancerServes
<1>2. /\ S \in SUBSET Places /\ {b} \in SUBSET Places /\ IsFiniteSet(S)
      /\ AreQueues(g, S, PullIntent)
      /\ Across(bx, S, Ann(b, Q)) \in Nat /\ Across(g, S, Ann(b, Q)) \in Nat
      /\ Across(bx, {b}, Ask(S, Q)) \in Nat
  BY ONLY ReplicasTyped(p, rp), Boxes(p, bx), b \in Balancers, <1>1, OwedCounted
<1>3. AreQueues(bx, S, Mails(p)) /\ AreQueues(bx, {b}, Mails(p))
  BY ONLY <1>2, Boxes(p, bx), BoxesCounted
<1>4. Across(bx, S, Ann(b, Q)) # 0 <=> X  BY <1>2, <1>3, AcrossSome
<1>5. Across(g, S, Ann(b, Q)) # 0 <=> Y
  <2>1. \A s \in S : g[s] = rp[s].pull_intents  BY <1>1 DEF IntentsOf
  <2> HIDE DEF g
  <2>2. Across(g, S, Ann(b, Q)) # 0 <=> \E s \in S : \E i \in DOMAIN g[s] : g[s][i] \in Ann(b, Q)
    BY <1>2, AcrossSome
  <2> QED BY <2>1, <2>2
<1>6. Across(bx, {b}, Ask(S, Q)) # 0 <=> Z
  <2>1. IsFiniteSet({b})  BY FS_Singleton
  <2>2. Across(bx, {b}, Ask(S, Q)) # 0 <=> \E d \in {b} : \E i \in DOMAIN bx[d] : bx[d][i] \in Ask(S, Q)
    BY <1>3, <2>1, AcrossSome
  <2> QED BY <2>2
<1>7. Owed(rp, bx, b, S, Q) = Across(bx, S, Ann(b, Q)) + Across(g, S, Ann(b, Q)) + Across(bx, {b}, Ask(S, Q))
  BY DEF Owed
<1> HIDE DEF X, Y, Z, g
<1>8. Owed(rp, bx, b, S, Q) # 0 <=> X \/ Y \/ Z
  BY <1>2, <1>4, <1>5, <1>6, <1>7
<1> QED BY <1>8 DEF X, Y, Z

(* The requests of the calls a queue holds *)
LEMMA RequestsQueued ==
  ASSUME NEW q \in Seq(Hop), NEW a
  PROVE  /\ a \in {h.req : h \in ToSet(q)} <=> Count(q, HopsOf(a)) # 0
         /\ a \in {h.req : h \in ToSet(q)} => a \in Ids
<1>1. \A i \in DOMAIN q : q[i] \in Hop  OBVIOUS
<1>2. Count(q, HopsOf(a)) # 0 <=> \E i \in DOMAIN q : q[i] \in HopsOf(a)
  BY CountSome
<1>3. a \in {h.req : h \in ToSet(q)} <=> \E i \in DOMAIN q : q[i].req = a
  BY DEF ToSet
<1>4. \A h \in Hop : h.req \in Ids  BY DEF Hop, Ids
<1> QED BY <1>1, <1>2, <1>3, <1>4 DEF HopsOf

(* The requests of the intents that are open at b *)
LEMMA IdsOpen ==
  ASSUME Basics, NEW b \in Balancers, NEW a
  PROVE  LET announced(x) == x.kind = "intent" /\ x.lb = b
             ids == {x.req : x \in {y \in UNION {ToSet(inbox[s]) \cup ToSet(replica[s].pull_intents) :
                                                 s \in ServersOf[b]} : announced(y)}}
                      \cup {x.req : x \in {y \in ToSet(inbox[b]) : y.kind = "pull"}}
         IN a \in ids <=> a \in Ids /\ Owed(replica, inbox, b, ServersOf[b], {a}) # 0
<1> DEFINE S == ServersOf[b]
           announced(x) == x.kind = "intent" /\ x.lb = b
           near == UNION {ToSet(inbox[s]) \cup ToSet(replica[s].pull_intents) : s \in S}
           back == ToSet(inbox[b])
           ids == {x.req : x \in {y \in near : announced(y)}}
                    \cup {x.req : x \in {y \in back : y.kind = "pull"}}
           X == \E s \in S : \E i \in DOMAIN inbox[s] : inbox[s][i] \in Ann(b, {a})
           Y == \E s \in S : \E i \in DOMAIN replica[s].pull_intents :
                  replica[s].pull_intents[i] \in Ann(b, {a})
           Z == \E i \in DOMAIN inbox[b] : inbox[b][i] \in Ask(S, {a})
<1>1. /\ policy \in Policies /\ ReplicasTyped(policy, replica) /\ Boxes(policy, inbox)
  BY BasicsAre
<1>2. S \subseteq Replicas  BY BalancerServes
<1>3. Owed(replica, inbox, b, S, {a}) # 0 <=> X \/ Y \/ Z  BY <1>1, OwedSome
<1>4. \A s \in S : \A i \in DOMAIN inbox[s] : inbox[s][i] \in Mail(policy, s)
  <2> TAKE s \in S
  <2>1. s \in Replicas  BY <1>2
  <2>2. inbox[s] \in Seq(Mail(policy, s))  BY <1>1, <2>1 DEF Boxes, Places
  <2> QED BY <2>2
<1>5. \A s \in S : \A i \in DOMAIN replica[s].pull_intents : replica[s].pull_intents[i] \in PullIntent
  <2> TAKE s \in S
  <2>1. s \in Replicas  BY <1>2
  <2>2. replica[s].pull_intents \in Seq(PullIntent)
    BY <1>1, <2>1, ReplicaRests, ReplicaTypes
  <2> QED BY <2>2
<1>6. \A i \in DOMAIN inbox[b] : inbox[b][i] \in Mail(policy, b)
  <2>1. inbox[b] \in Seq(Mail(policy, b))  BY <1>1 DEF Boxes, Places
  <2> QED BY <2>1
<1>7. X <=> \E s \in S : \E m \in ToSet(inbox[s]) : announced(m) /\ m.req = a
  <2>1. \A s \in S : \A i \in DOMAIN inbox[s] :
          inbox[s][i] \in Ann(b, {a}) <=> announced(inbox[s][i]) /\ inbox[s][i].req \in {a}
    BY <1>2, <1>4, AnnMail
  <2> QED BY <2>1 DEF ToSet
<1>8. Y <=> \E s \in S : \E m \in ToSet(replica[s].pull_intents) : announced(m) /\ m.req = a
  <2>1. \A s \in S : \A i \in DOMAIN replica[s].pull_intents :
          replica[s].pull_intents[i] \in Ann(b, {a})
            <=> announced(replica[s].pull_intents[i]) /\ replica[s].pull_intents[i].req \in {a}
    BY <1>5, AnnIntent
  <2> QED BY <2>1 DEF ToSet
<1>9. Z <=> \E m \in back : m.kind = "pull" /\ m.req = a
  <2>1. \A i \in DOMAIN inbox[b] :
          /\ inbox[b][i] \in Ask(S, {a})
               <=> inbox[b][i].kind = "pull" /\ inbox[b][i].server \in S /\ inbox[b][i].req \in {a}
          /\ inbox[b][i].kind = "pull" => inbox[b][i].server \in S
    BY <1>6, AskMailTo
  <2> QED BY <2>1 DEF ToSet
<1>10. X \/ Y \/ Z => a \in Ids
  <2>1. X => a \in Ids  BY <1>2, <1>4, AnnMail
  <2>2. Y => a \in Ids  BY <1>5, AnnIntent
  <2>3. Z => a \in Ids  BY <1>6, AskMailTo
  <2> QED BY <2>1, <2>2, <2>3
<1> HIDE DEF X, Y, Z
<1>11. a \in ids <=> X \/ Y \/ Z
  <2>1. a \in ids <=> \/ \E m \in near : announced(m) /\ m.req = a
                      \/ \E m \in back : m.kind = "pull" /\ m.req = a
    OBVIOUS
  <2>2. \A m : m \in near <=> \E s \in S : m \in ToSet(inbox[s]) \/ m \in ToSet(replica[s].pull_intents)
    OBVIOUS
  <2> HIDE DEF near, back, announced, S, ids
  <2>3. (\E m \in near : announced(m) /\ m.req = a) <=> X \/ Y
    BY <1>7, <1>8, <2>2
  <2> QED BY <1>9, <2>1, <2>3
<1>12. a \in ids <=> a \in Ids /\ Owed(replica, inbox, b, S, {a}) # 0
  BY <1>3, <1>10, <1>11
<1> QED BY <1>12

LEMMA TicketsMatch == Basics /\ Tickets => IntentsMatchCalls
<1> SUFFICES ASSUME Basics, Tickets, policy = "amphiqueue", NEW b \in InUse
             PROVE  LET v == balancer[b]
                        announced(x) == x.kind = "intent" /\ x.lb = b
                        open(S) == CountIn([s \in S |-> inbox[s]], announced)
                                     + CountIn([s \in S |-> replica[s].pull_intents], announced)
                                     + CountIn([d \in {b} |-> inbox[d]],
                                               LAMBDA x : x.kind = "pull" /\ x.server \in S)
                        ids == {x.req : x \in {y \in UNION {ToSet(inbox[s]) \cup ToSet(replica[s].pull_intents) :
                                                            s \in ServersOf[b]} : announced(y)}}
                                 \cup {x.req : x \in {y \in ToSet(inbox[b]) : y.kind = "pull"}}
                    IN /\ \A s \in ServersOf[b] : v.pull_intent_load[s] = open({s})
                       /\ Len(v.queue) = open(ServersOf[b])
                       /\ config.pull_sched = "bound" => ids = {h.req : h \in ToSet(v.queue)}
  BY DEF IntentsMatchCalls
<1> DEFINE v == balancer[b]
           announced(x) == x.kind = "intent" /\ x.lb = b
           open(S) == CountIn([s \in S |-> inbox[s]], announced)
                        + CountIn([s \in S |-> replica[s].pull_intents], announced)
                        + CountIn([d \in {b} |-> inbox[d]], LAMBDA x : x.kind = "pull" /\ x.server \in S)
           ids == {x.req : x \in {y \in UNION {ToSet(inbox[s]) \cup ToSet(replica[s].pull_intents) :
                                               s \in ServersOf[b]} : announced(y)}}
                    \cup {x.req : x \in {y \in ToSet(inbox[b]) : y.kind = "pull"}}
<1>1. policy \in Policies /\ BalancersTyped(policy, balancer)  BY BasicsAre
<1>2. b \in Balancers  BY <1>1, UsedAre DEF InUse
<1>3. Met(v, replica, inbox, b, Bound)  BY <1>2 DEF Tickets
<1>4. /\ \A s \in ServersOf[b] : v.pull_intent_load[s] = Owed(replica, inbox, b, {s}, Ids)
      /\ Len(v.queue) = Owed(replica, inbox, b, ServersOf[b], Ids)
      /\ Bound => \A q \in Ids : Count(v.queue, HopsOf(q)) = Owed(replica, inbox, b, ServersOf[b], {q})
  BY <1>3 DEF Met
<1>5. \A S \in SUBSET ServersOf[b] : open(S) = Owed(replica, inbox, b, S, Ids)
  BY <1>2, OwedIs
<1>6. v.queue \in Seq(Hop)  BY <1>1, <1>2, BalancerTypes DEF BalancersTyped
<1>7. \A a : a \in ids <=> a \in Ids /\ Owed(replica, inbox, b, ServersOf[b], {a}) # 0
  BY <1>2, IdsOpen
<1> HIDE DEF v, open, ids
<1>8. \A s \in ServersOf[b] : v.pull_intent_load[s] = open({s})
  <2> TAKE s \in ServersOf[b]
  <2>1. {s} \in SUBSET ServersOf[b]  OBVIOUS
  <2>2. open({s}) = Owed(replica, inbox, b, {s}, Ids)  BY <1>5, <2>1
  <2> QED BY <1>4, <2>2
<1>9. Len(v.queue) = open(ServersOf[b])
  <2>1. ServersOf[b] \in SUBSET ServersOf[b]  OBVIOUS
  <2> QED BY <1>4, <1>5, <2>1
<1>10. config.pull_sched = "bound" => ids = {h.req : h \in ToSet(v.queue)}
  <2> SUFFICES ASSUME config.pull_sched = "bound"
               PROVE  ids = {h.req : h \in ToSet(v.queue)}
    OBVIOUS
  <2> DEFINE held == {h.req : h \in ToSet(v.queue)}
  <2>1. \A a : (a \in held <=> Count(v.queue, HopsOf(a)) # 0) /\ (a \in held => a \in Ids)
    BY <1>6, RequestsQueued
  <2>2. \A q \in Ids : Count(v.queue, HopsOf(q)) = Owed(replica, inbox, b, ServersOf[b], {q})
    BY <1>4 DEF Bound
  <2> HIDE DEF held
  <2>3. \A a : a \in ids <=> a \in held  BY <1>7, <2>1, <2>2
  <2>4. ids = held  BY <2>3
  <2> QED BY <2>4 DEF held
<1> QED BY <1>8, <1>9, <1>10 DEF v, open, ids

(***************************************************************************)
(* Under amphiqueue every intent stands for one call in the balancer's     *)
(* queue: pull_intent_load counts a server's intents wherever they are, on *)
(* the way to the replica, in its pull_intents or coming back as a pull,   *)
(* and a bound pull names a call that is still there to be sent.           *)
(***************************************************************************)
THEOREM IntentsMatch == Spec => []IntentsMatchCalls
<1>1. Spec => [](Basics /\ Tickets)  BY TicketsInvariant
<1>2. Basics /\ Tickets => IntentsMatchCalls  BY TicketsMatch
<1> QED BY <1>1, <1>2, PTL

-----------------------------------------------------------------------------
(* When nothing is under way *)

LEMMA QuietReplica ==
  ASSUME Basics, Quiet, NEW r \in Replicas
  PROVE  /\ replica[r].queue = <<>> /\ replica[r].in_flight = 0
         /\ replica[r].warm = 0 /\ replica[r].serving = {}
         /\ JbsqOccupancy(replica[r]) = 0
<1>1. /\ ReplicasTyped(policy, replica) /\ AllSteady(policy, replica)
  BY BasicsAre
<1>2. Exact(replica[r]) /\ Busy(replica[r])  BY <1>1 DEF AllSteady, Steady
<1>3. replica[r].serving = {} /\ replica[r].warm = 0  BY DEF Quiet
<1>4. replica[r].in_flight = 0  BY <1>2, <1>3, FS_EmptySet DEF Exact
<1>5. MaxConcurrency \in Nat \ {0}  BY MicroservicesAssumption
<1>6. replica[r].queue = <<>>  BY <1>2, <1>4, <1>5 DEF Busy
<1>7. {i \in DOMAIN replica[r].queue : replica[r].queue[i].kind = "upstream"} = {}
  BY <1>6
<1>8. JbsqOccupancy(replica[r]) = 0
  BY <1>4, <1>7, FS_EmptySet DEF JbsqOccupancy
<1> QED BY <1>3, <1>4, <1>6, <1>8

(* Only parked servers have open pulls then. *)
LEMMA OpenIsParked ==
  ASSUME Basics, Quiet, NEW r \in Replicas
  PROVE  Open(policy, balancer, inbox, r) = Across(Waits(balancer), Used[policy], {r})
<1>1. policy \in Policies /\ BalancersTyped(policy, balancer) /\ Boxes(policy, inbox)
  BY BasicsAre
<1>2. Used[policy] \subseteq Balancers  BY <1>1, UsedAre
<1>3. \A d \in Used[policy] : inbox[d] = <<>>  BY <1>2 DEF Quiet
<1>4. \A d \in {r} : inbox[d] = <<>>  BY DEF Quiet
<1>5. Across(inbox, Used[policy], AskBy(r)) = 0  BY <1>3, AcrossEmpty
<1>6. Across(inbox, {r}, Pulled) = 0  BY <1>4, AcrossEmpty
<1>7. Across(Waits(balancer), Used[policy], {r}) \in Nat  BY <1>1, OpenCounted
<1>8. Open(policy, balancer, inbox, r) =
        Across(inbox, Used[policy], AskBy(r)) + Across(Waits(balancer), Used[policy], {r})
          + Across(inbox, {r}, Pulled)
  BY DEF Open
<1> QED BY <1>5, <1>6, <1>7, <1>8

(* No server is parked under amphiqueue. *)
LEMMA NobodyParks ==
  ASSUME NEW p \in Policies, p \notin CentralPullPolicies, NEW lb, BalancersTyped(p, lb),
         NEW r
  PROVE  Across(Waits(lb), Used[p], {r}) = 0
<1>1. ASSUME NEW b \in Used[p]
      PROVE  Waits(lb)[b] = <<>>
  <2>1. b \in Balancers  BY UsedAre
  <2>2. lb[b].waiting \in Seq(Parked(p, b))  BY <2>1, LbIs
  <2>3. Parked(p, b) = {}  BY DEF Parked
  <2>4. lb[b].waiting = <<>>  BY ONLY <2>2, <2>3
  <2> QED BY <2>1, <2>4 DEF Waits
<1> QED BY <1>1, AcrossEmpty

LEMMA QuietIntents ==
  ASSUME Basics, Slots, Quiet, NEW r \in Replicas
  PROVE  replica[r].pull_intents = <<>>
<1> SUFFICES ASSUME replica[r].pull_intents # <<>>
             PROVE  FALSE
  OBVIOUS
<1>1. policy \in Policies /\ ReplicasTyped(policy, replica) /\ BalancersTyped(policy, balancer)
  BY BasicsAre
<1>2. replica[r].pull_intents \in Seq(Intents(policy, r))
  BY <1>1, ReplicaTyped, StateIs
<1>3. Head(replica[r].pull_intents) \in Intents(policy, r)  BY <1>2
<1>4. policy = "amphiqueue" /\ r \in Serving[policy]  BY <1>1, <1>3, IntentHere
<1>5. policy \notin CentralPullPolicies  BY <1>4 DEF CentralPullPolicies
<1>6. Across(Waits(balancer), Used[policy], {r}) = 0
  BY <1>1, <1>5, NobodyParks
<1>7. Open(policy, balancer, inbox, r) = 0  BY <1>6, OpenIsParked
<1>8. Accounts(policy, r, replica[r], Open(policy, balancer, inbox, r))
  BY DEF Slots, Accounted
<1>9. /\ replica[r].pending_pulls = 0
      /\ replica[r].in_flight + replica[r].pending_pulls >= MaxConcurrency
  BY <1>4, <1>7, <1>8 DEF Accounts
<1>10. replica[r].in_flight = 0 /\ MaxConcurrency \in Nat \ {0}
  BY QuietReplica, MicroservicesAssumption
<1> QED BY <1>9, <1>10

(* A server of a balancer with calls is parked nowhere. *)
LEMMA NotParked ==
  ASSUME Basics, policy \in CentralPullPolicies, NEW b \in Used[policy], balancer[b].queue # <<>>,
         NEW r \in ServersOf[b]
  PROVE  r \in Serving[policy] /\ Across(Waits(balancer), Used[policy], {r}) = 0
<1>1. /\ policy \in Policies /\ ValidSharedSubset(policy) /\ BalancersTyped(policy, balancer)
      /\ AllApart(balancer)
  BY BasicsAre
<1>2. b \in Balancers /\ r \in Replicas /\ r \in Serving[policy]
  BY <1>1, UsedAre, BalancerServes
<1>3. \A o \in Used[policy] : r \in ServersOf[o] => o = b
  BY <1>1, <1>2, PullsFrom
<1>4. ASSUME NEW o \in Used[policy], NEW i \in DOMAIN Waits(balancer)[o]
      PROVE  Waits(balancer)[o][i] # r
  <2>1. o \in Balancers  BY <1>1, UsedAre
  <2>2. Waits(balancer)[o] = balancer[o].waiting  BY <2>1 DEF Waits
  <2>3. balancer[o].waiting \in Seq(Parked(policy, o))  BY <1>1, <2>1, LbIs
  <2>4. i \in DOMAIN balancer[o].waiting /\ balancer[o].waiting[i] \in Parked(policy, o)
    BY <1>4, <2>2, <2>3
  <2>5. balancer[o].waiting[i] \in ServersOf[o]  BY <2>4 DEF Parked
  <2>6. balancer[o].waiting # <<>>  BY <2>4
  <2>7. balancer[o].queue = <<>>  BY <1>1, <2>1, <2>6 DEF AllApart, Apart
  <2> QED BY <1>3, <2>2, <2>5, <2>7
<1>5. IsFiniteSet(Used[policy]) /\ AreQueues(Waits(balancer), Used[policy], Replicas)
  <2>1. Boxes(policy, inbox)  BY BasicsAre
  <2> QED BY <1>1, <1>2, <2>1, OpenCounted
<1>6. Across(Waits(balancer), Used[policy], {r}) # 0 <=>
        \E d \in Used[policy] : \E i \in DOMAIN Waits(balancer)[d] : Waits(balancer)[d][i] \in {r}
  BY <1>5, AcrossSome
<1>7. Across(Waits(balancer), Used[policy], {r}) = 0  BY <1>4, <1>6
<1> QED BY <1>2, <1>7

LEMMA NothingOwed ==
  ASSUME Basics, Slots, Quiet, NEW b \in Balancers
  PROVE  Owed(replica, inbox, b, ServersOf[b], Ids) = 0
<1>1. ReplicasTyped(policy, replica) /\ Boxes(policy, inbox)  BY BasicsAre
<1>2. \A s \in ServersOf[b] : s \in Replicas  BY BalancerServes
<1>3. \A s \in ServersOf[b] : DOMAIN inbox[s] = {} /\ DOMAIN replica[s].pull_intents = {}
  <2> TAKE s \in ServersOf[b]
  <2>1. inbox[s] = <<>>  BY <1>2 DEF Quiet
  <2>2. replica[s].pull_intents = <<>>  BY <1>2, QuietIntents
  <2> QED BY <2>1, <2>2
<1>4. DOMAIN inbox[b] = {}
  <2>1. inbox[b] = <<>>  BY DEF Quiet
  <2> QED BY <2>1
<1>5. ServersOf[b] \in SUBSET ServersOf[b]  OBVIOUS
<1>6. Owed(replica, inbox, b, ServersOf[b], Ids) # 0 <=>
        \/ \E s \in ServersOf[b] : \E i \in DOMAIN inbox[s] : inbox[s][i] \in Ann(b, Ids)
        \/ \E s \in ServersOf[b] : \E i \in DOMAIN replica[s].pull_intents :
             replica[s].pull_intents[i] \in Ann(b, Ids)
        \/ \E i \in DOMAIN inbox[b] : inbox[b][i] \in Ask(ServersOf[b], Ids)
  BY <1>1, <1>5, OwedSome
<1> QED BY <1>3, <1>4, <1>6

LEMMA QuietQueue ==
  ASSUME Basics, Slots, Tickets, Quiet, NEW b \in Balancers
  PROVE  balancer[b].queue = <<>>
<1> SUFFICES ASSUME balancer[b].queue # <<>>
             PROVE  FALSE
  OBVIOUS
<1>1. policy \in Policies /\ BalancersTyped(policy, balancer)  BY BasicsAre
<1>2. balancer[b].queue \in Seq(Held(policy, b))  BY <1>1, LbIs
<1>3. Head(balancer[b].queue) \in Held(policy, b)  BY <1>2
<1>4. policy \in PullPolicies /\ b \in Used[policy]  BY <1>3 DEF Held, Calls
<1>5. CASE policy = "amphiqueue"
  <2>1. Met(balancer[b], replica, inbox, b, Bound)  BY <1>5 DEF Tickets
  <2>2. Len(balancer[b].queue) = 0  BY <2>1, NothingOwed DEF Met
  <2> QED BY <1>2, <2>2
<1>6. CASE policy \in CentralPullPolicies
  <2>1. PICK r \in ServersOf[b] : TRUE  BY BalancerServes
  <2>2. r \in Replicas  BY BalancerServes
  <2>3. r \in Serving[policy] /\ Across(Waits(balancer), Used[policy], {r}) = 0
    BY <1>4, <1>6, NotParked
  <2>4. Open(policy, balancer, inbox, r) = 0  BY <2>2, <2>3, OpenIsParked
  <2>5. Accounts(policy, r, replica[r], Open(policy, balancer, inbox, r))
    BY <2>2 DEF Slots, Accounted
  <2>6. /\ replica[r].in_flight = 0 /\ replica[r].warm = 0 /\ JbsqOccupancy(replica[r]) = 0
    BY <2>2, QuietReplica
  <2>7. MaxConcurrency \in Nat \ {0} /\ JbsqN \in Nat \ {0}
    BY MicroservicesAssumption
  <2>8. CASE policy = "centralized"
    BY <2>3, <2>4, <2>5, <2>6, <2>7, <2>8 DEF Accounts
  <2>9. CASE policy = "jbsq"
    <3>1. replica[r].pending_pulls = 0 /\ replica[r].warm >= Short(replica[r])
      BY <2>3, <2>4, <2>5, <2>9 DEF Accounts
    <3>2. Short(replica[r]) = JbsqN  BY <2>6, <2>7, <3>1 DEF Short
    <3> QED BY <2>6, <2>7, <3>1, <3>2
  <2> QED BY <1>6, <2>8, <2>9 DEF CentralPullPolicies
<1> QED BY <1>4, <1>5, <1>6 DEF PullPolicies

(* A request that is nowhere else is at the sink. *)
LEMMA QuietCompletes ==
  ASSUME Basics, Slots, Tickets, Quiet, NEW q \in Requests, q \in arrived
  PROVE  Completed(q)
<1> DEFINE T == About(q)
           Q == QueuesOf(replica, Replicas)
           B == QueuesOf(balancer, Balancers)
           S == ServingSets(replica)
<1>1. ReplicasTyped(policy, replica) /\ BalancersTyped(policy, balancer) /\ Boxes(policy, inbox)
  BY BasicsAre
<1>2. \A d \in Replicas : Q[d] = <<>> /\ S[d] = {}
  <2> TAKE d \in Replicas
  <2>1. Q[d] = replica[d].queue /\ S[d] = replica[d].serving
    BY DEF QueuesOf, ServingSets
  <2> QED BY <2>1, QuietReplica
<1>3. \A d \in Balancers : B[d] = <<>>
  <2> TAKE d \in Balancers
  <2>1. B[d] = balancer[d].queue  BY DEF QueuesOf
  <2> QED BY <2>1, QuietQueue
<1>4. Where(replica, balancer, inbox, q) = 1  BY PlacedOnce
<1>5. Where(replica, balancer, inbox, q) =
        Across(inbox, Places, T) + Across(Q, Replicas, T) + Across(B, Balancers, T) + Within(S, Replicas, T)
  BY DEF Where
<1>6. Across(inbox, Places, T) \in Nat  BY <1>1, RunCounted
<1>7. Places \in SUBSET Places  OBVIOUS
<1>8. IsFiniteSet(Places) /\ AreQueues(inbox, Places, Mails(policy))
  BY ONLY <1>1, <1>7, BoxesCounted
<1> HIDE DEF T, Q, B, S
<1>9. Across(Q, Replicas, T) = 0 /\ Across(B, Balancers, T) = 0 /\ Within(S, Replicas, T) = 0
  BY <1>2, <1>3, AcrossEmpty, WithinEmpty
<1>10. Across(inbox, Places, T) # 0  BY <1>4, <1>5, <1>6, <1>9
<1>11. PICK x \in Places : \E i \in DOMAIN inbox[x] : inbox[x][i] \in T
  BY <1>8, <1>10, AcrossSome
<1>12. PICK i \in DOMAIN inbox[x] : inbox[x][i] \in T  BY <1>11
<1>13. inbox[x] # <<>>  BY <1>11
<1>14. x = Sink  BY <1>13 DEF Places, Quiet
<1>15. inbox[x][i].req = q  BY <1>12, AboutIs DEF T
<1> QED BY <1>12, <1>14, <1>15 DEF Completed

LEMMA QuietStrandsNothing == Basics /\ Slots /\ Tickets => NothingStranded
BY QuietCompletes, QuietReplica, QuietIntents, QuietQueue DEF NothingStranded

(***************************************************************************)
(* When every mailbox is empty and nobody serves, every request that       *)
(* arrived has been completed and no call, hop or intent is left in a      *)
(* queue: pulls that are not answered, parked servers and announced calls  *)
(* never end up waiting for each other.                                    *)
(***************************************************************************)
THEOREM NothingIsLeftBehind ==
  ASSUME EntriesApart
  PROVE  Spec => []NothingStranded
<1>1. Spec => [](Basics /\ Slots)  BY SlotsInvariant
<1>2. Spec => [](Basics /\ Tickets)  BY TicketsInvariant
<1>3. Basics /\ Slots /\ Tickets => NothingStranded  BY QuietStrandsNothing
<1> QED BY <1>1, <1>2, <1>3, PTL
-----------------------------------------------------------------------------
(* The load that a balancer compares *)

LEMMA CallersAre ==
  ASSUME NEW p, NEW b
  PROVE  Callers(p, b) \in SUBSET Replicas /\ Callers(p, b) \in SUBSET Places /\ Replicas \in SUBSET Places
         /\ IsFiniteSet(Callers(p, b))
<1>1. Callers(p, b) \in SUBSET Replicas /\ Callers(p, b) \in SUBSET Places /\ Replicas \in SUBSET Places
  BY DEF Callers, Places
<1> QED BY <1>1, ReplicasFinite, FS_Subset

LEMMA HoldingCounted ==
  ASSUME NEW p, NEW rp, ReplicasTyped(p, rp), NEW bx, Boxes(p, bx), NEW C \in SUBSET Replicas,
         NEW M, NEW U
  PROVE  /\ Across(bx, Places, M) \in Nat /\ Across(QueuesOf(rp, Replicas), Replicas, M) \in Nat
         /\ Within(ServingSets(rp), Replicas, M) \in Nat
         /\ Across(bx, C, U) \in Nat /\ Across(QueuesOf(rp, Replicas), C, U) \in Nat
         /\ Carried(rp, bx, M) \in Nat /\ Due(rp, bx, C, U) \in Nat
<1> DEFINE Q == QueuesOf(rp, Replicas)
           S == ServingSets(rp)
           x1 == Across(bx, Places, M)
           x2 == Across(Q, Replicas, M)
           x3 == Within(S, Replicas, M)
           x4 == Across(bx, C, U)
           x5 == Across(Q, C, U)
<1>1. AreQueues(Q, Replicas, Hop) /\ AreFinite(S, Replicas)  BY ReplicaQueues
<1>2. C \in SUBSET Places /\ Places \in SUBSET Places /\ IsFiniteSet(C)
  BY ReplicasFinite, FS_Subset DEF Places
<1> HIDE DEF Q, S
<1>3. AreQueues(Q, C, Hop)  BY <1>1 DEF AreQueues
<1>4. x1 \in Nat /\ x4 \in Nat  BY <1>2, BoxesCounted
<1>5. x2 \in Nat
  BY <1>1, ReplicasFinite, MatchesFinite, FS_CardinalityType DEF Across
<1>6. x5 \in Nat  BY <1>2, <1>3, MatchesFinite, FS_CardinalityType DEF Across
<1>7. x3 \in Nat  BY <1>1, ReplicasFinite, WithinFewer
<1>8. Carried(rp, bx, M) = x1 + x2 + x3 /\ Due(rp, bx, C, U) = x4 + x5
  BY DEF Carried, Due, Q, S
<1> HIDE DEF x1, x2, x3, x4, x5
<1>9. Carried(rp, bx, M) \in Nat /\ Due(rp, bx, C, U) \in Nat
  BY <1>4, <1>5, <1>6, <1>7, <1>8
<1> QED BY <1>4, <1>5, <1>6, <1>7, <1>9 DEF x1, x2, x3, x4, x5, Q, S

(* One hop holds a call open: it is below it, or returns from it. *)
LEMMA BelowOrBack ==
  ASSUME NEW p, NEW b, NEW s, NEW a
  PROVE  /\ Marked(p, b, s, a) \subseteq About(a[1]) /\ Unpaid(s, a) \subseteq About(a[1])
         /\ Marked(p, b, s, a) \cap Unpaid(s, a) = {}
<1>1. Marked(p, b, s, a) \subseteq About(a[1]) /\ Unpaid(s, a) \subseteq About(a[1])
  BY AboutHop DEF Marked, Unpaid
<1>2. ASSUME NEW h \in Marked(p, b, s, a), h \in Unpaid(s, a)
      PROVE  FALSE
  <2>1. h \in Hop /\ a[2] \in Depths(p, b, s, h.callers) /\ Len(h.callers) = a[2]
    BY <1>2 DEF Marked, Unpaid
  <2>2. a[2] \in 0 .. Len(h.callers) - 1  BY <2>1 DEF Depths, FromEnd
  <2>3. h.callers \in Seq(Frame)  BY <2>1 DEF Hop
  <2> QED BY <2>1, <2>2, <2>3
<1> QED BY <1>1, <1>2

LEMMA HoldingWithin ==
  ASSUME NEW p, NEW rp, ReplicasTyped(p, rp), NEW lb, BalancersTyped(p, lb), NEW bx, Boxes(p, bx),
         NEW b, NEW s, NEW a
  PROVE  /\ Holding(p, rp, bx, b, s, a) \in Nat
         /\ Holding(p, rp, bx, b, s, a) <= Where(rp, lb, bx, a[1])
<1> DEFINE T == About(a[1])
           M == Marked(p, b, s, a)
           U == Unpaid(s, a)
           C == Callers(p, b)
           Q == QueuesOf(rp, Replicas)
           S == ServingSets(rp)
           x1 == Across(bx, Places, M)
           x2 == Across(Q, Replicas, M)
           x3 == Within(S, Replicas, M)
           x4 == Across(bx, C, U)
           x5 == Across(Q, C, U)
           y1 == Across(bx, Places, T)
           y2 == Across(Q, Replicas, T)
           y3 == Across(QueuesOf(lb, Balancers), Balancers, T)
           y4 == Within(S, Replicas, T)
<1>1. M \subseteq T /\ U \subseteq T /\ M \cap U = {}  BY BelowOrBack
<1>2. C \in SUBSET Replicas /\ C \in SUBSET Places  BY CallersAre
<1>3. AreQueues(Q, Replicas, Hop) /\ AreFinite(S, Replicas)  BY ReplicaQueues
<1>4. Places \in SUBSET Places  OBVIOUS
<1>5. IsFiniteSet(Places) /\ AreQueues(bx, Places, Mails(p))
  BY <1>4, BoxesCounted
<1>6. y1 \in Nat /\ y2 \in Nat /\ y3 \in Nat /\ y4 \in Nat  BY RunCounted
<1> HIDE DEF M, U, C
<1>7. x1 \in Nat /\ x2 \in Nat /\ x3 \in Nat /\ x4 \in Nat /\ x5 \in Nat
  BY <1>2, HoldingCounted
<1>8. /\ Holding(p, rp, bx, b, s, a) = (x1 + x2 + x3) + (x4 + x5)
      /\ Where(rp, lb, bx, a[1]) = y1 + y2 + y3 + y4
  BY DEF Holding, Carried, Due, Where, M, U, C
<1> HIDE DEF T, Q, S
<1>9. x1 + x4 <= y1  BY <1>1, <1>2, <1>5, AcrossTwo
<1>10. x2 + x5 <= y2  BY <1>1, <1>2, <1>3, ReplicasFinite, AcrossTwo
<1>11. x3 <= y4  BY <1>1, <1>3, ReplicasFinite, WithinFewer
<1> HIDE DEF x1, x2, x3, x4, x5, y1, y2, y3, y4
<1> QED BY <1>6, <1>7, <1>8, <1>9, <1>10, <1>11
LEMMA CallsClosed ==
  ASSUME NEW p, NEW lb, BalancersTyped(p, lb), NEW lc, BalancersTyped(p, lc),
         NEW rp, ReplicasTyped(p, rp), NEW bx, Boxes(p, bx), AtMostOnce(rp, lb, bx),
         NEW rq, ReplicasTyped(p, rq), NEW by, Boxes(p, by),
         NEW b, NEW s, NEW F \in SUBSET Keys, IsFiniteSet(F), Closes(p, rp, bx, rq, by, b, s, F),
         IsFiniteSet(NonZero(HoldsOpen(p, rp, bx, b, s), Keys))
  PROVE  /\ IsFiniteSet(NonZero(HoldsOpen(p, rq, by, b, s), Keys))
         /\ Cardinality(NonZero(HoldsOpen(p, rp, bx, b, s), Keys))
              = Cardinality(NonZero(HoldsOpen(p, rq, by, b, s), Keys)) + Cardinality(F)
<1> DEFINE w == HoldsOpen(p, rp, bx, b, s)
           n == HoldsOpen(p, rq, by, b, s)
<1>1. \A a \in Keys : w[a] = Holding(p, rp, bx, b, s, a) /\ n[a] = Holding(p, rq, by, b, s, a)
  BY DEF HoldsOpen
<1>2. \A a \in Keys : Holding(p, rp, bx, b, s, a) \in Nat /\ Holding(p, rq, by, b, s, a) \in Nat
  BY HoldingWithin
<1>3. w \in [Keys -> Nat] /\ n \in [Keys -> Nat]  BY <1>2 DEF HoldsOpen
<1>4. ASSUME NEW a \in Keys
      PROVE  Holding(p, rp, bx, b, s, a) <= 1
  <2>1. a[1] \in Requests  BY DEF Keys
  <2>2. Where(rp, lb, bx, a[1]) <= 1  BY <2>1 DEF AtMostOnce
  <2>3. Where(rp, lb, bx, a[1]) \in Nat  BY RunCounted DEF Where
  <2>4. Holding(p, rp, bx, b, s, a) \in Nat /\ Holding(p, rp, bx, b, s, a) <= Where(rp, lb, bx, a[1])
    BY HoldingWithin
  <2> QED BY ONLY <2>2, <2>3, <2>4
<1>5. OnceGone(w, n, Keys, F)  BY <1>1, <1>4 DEF OnceGone, Closes
<1> HIDE DEF w, n
<1>6. IsFiniteSet(NonZero(w, Keys))  BY DEF w
<1>7. /\ IsFiniteSet(NonZero(n, Keys))
      /\ Cardinality(NonZero(w, Keys)) = Cardinality(NonZero(n, Keys)) + Cardinality(F)
  BY <1>3, <1>5, <1>6, KeysGone
<1> QED BY <1>7 DEF w, n

(* A replica's handler, that closes the calls it frees servers for *)
LEMMA ReplicaCloses ==
  ASSUME NEW p, NEW rp, ReplicasTyped(p, rp), NEW bx, Boxes(p, bx), NEW r \in Replicas,
         NEW in, NEW boxes, Taken(bx, r, in, boxes),
         NEW w \in State(p, r), NEW by, Ledger(p, r, in, w.out, bx, by),
         NEW b, NEW s, NEW a, NEW f \in Nat,
         Owing(p, r, w, b, s, a) + f
           = Owing(p, r, rp[r], b, s, a) + Count(in, Marked(p, b, s, a)) + Count(in, Freed(p, b, s, a, r))
  PROVE  Holding(p, Became(rp, r, w), by, b, s, a) + f = Holding(p, rp, bx, b, s, a)
<1> DEFINE M == Marked(p, b, s, a)
           U == Unpaid(s, a)
           X == Freed(p, b, s, a, r)
           C == Callers(p, b)
           v == rp[r]
           rq == Became(rp, r, w)
           Q == QueuesOf(rp, Replicas)
           S == ServingSets(rp)
           Q2 == QueuesOf(rq, Replicas)
           S2 == ServingSets(rq)
           x1 == Across(bx, Places, M)
           x2 == Across(Q, Replicas, M)
           x3 == Within(S, Replicas, M)
           x4 == Across(bx, C, U)
           x5 == Across(Q, C, U)
           y1 == Across(by, Places, M)
           y2 == Across(Q2, Replicas, M)
           y3 == Within(S2, Replicas, M)
           y4 == Across(by, C, U)
           y5 == Across(Q2, C, U)
           i1 == Count(in, M)
           i2 == Count(in, X)
           o1 == Count(w.out, [to : Places, msg : M])
           o2 == Count(w.out, [to : C, msg : U])
           a1 == Count(v.queue, M)
           a2 == Count(w.queue, M)
           b1 == Cardinality(v.serving \cap M)
           b2 == Cardinality(w.serving \cap M)
           c1 == Count(v.queue, X)
           c2 == Count(w.queue, X)
<1>1. v \in State(p, r) /\ v.out = <<>>  BY ReplicaRests, RestingIs
<1>2. /\ ReplicasTyped(p, rq) /\ rq[r].queue = w.queue /\ rq[r].serving = w.serving
      /\ \A o \in Replicas \ {r} : rq[o] = rp[o]
  BY BecameIs DEF ButSends
<1>3. Boxes(p, by)  BY DEF Ledger
<1>4. C \in SUBSET Replicas /\ C \in SUBSET Places /\ IsFiniteSet(C) /\ r \in Places
  BY CallersAre DEF Places
<1>5. (r \in C => X = U) /\ (r \notin C => X = {})  BY DEF Freed
<1>6. /\ Owing(p, r, w, b, s, a) = a2 + c2 + b2 + (o1 + o2)
      /\ Owing(p, r, v, b, s, a) = a1 + c1 + b1 + 0
  <2>1. SentOpen(p, b, s, a, v.out) = 0  BY <1>1, CountNoMessage DEF SentOpen
  <2>2. SentOpen(p, b, s, a, w.out) = o1 + o2
    BY DEF SentOpen, SentMarked, SentUnpaid
  <2> QED BY <2>1, <2>2 DEF Owing
<1>7. /\ a1 \in Nat /\ a2 \in Nat /\ b1 \in Nat /\ b2 \in Nat /\ c1 \in Nat /\ c2 \in Nat
      /\ o1 \in Nat /\ o2 \in Nat
  BY <1>1, StateIs
<1>8. i1 \in Nat /\ i2 \in Nat  BY <1>4, TakenIs
<1>9. (a2 + c2 + b2 + (o1 + o2)) + f = (a1 + c1 + b1 + 0) + i1 + i2
  <2>1. Owing(p, r, w, b, s, a) + f = Owing(p, r, v, b, s, a) + i1 + i2
    OBVIOUS
  <2> QED BY ONLY <1>6, <2>1
<1>10. /\ Q[r] = v.queue /\ S[r] = v.serving /\ Q2[r] = w.queue /\ S2[r] = w.serving
       /\ KeepsApart(Q, Q2, Replicas, r) /\ KeepsApart(S, S2, Replicas, r)
  BY <1>2 DEF QueuesOf, ServingSets, KeepsApart
<1>11. /\ AreQueues(Q, Replicas, Hop) /\ AreFinite(S, Replicas)
       /\ AreQueues(Q2, Replicas, Hop) /\ AreFinite(S2, Replicas)
  BY <1>2, ReplicaQueues
<1> HIDE DEF M, U, X, C, rq
<1>12. x1 \in Nat /\ x2 \in Nat /\ x3 \in Nat /\ x4 \in Nat /\ x5 \in Nat
  BY <1>4, HoldingCounted
<1>13. y1 \in Nat /\ y2 \in Nat /\ y3 \in Nat /\ y4 \in Nat /\ y5 \in Nat
  BY <1>2, <1>3, <1>4, HoldingCounted
<1>14. /\ Holding(p, rp, bx, b, s, a) = (x1 + x2 + x3) + (x4 + x5)
       /\ Holding(p, rq, by, b, s, a) = (y1 + y2 + y3) + (y4 + y5)
  BY DEF Holding, Carried, Due, M, U, C
<1> HIDE DEF Q, S, Q2, S2, v
<1>15. y1 + i1 = x1 + o1
  <2>1. Places \in SUBSET Places  OBVIOUS
  <2> QED BY <1>4, <2>1 DEF Ledger
<1>16. y4 + i2 = x4 + o2
  <2>1. y4 + (IF r \in C THEN Count(in, U) ELSE 0) = x4 + o2
    BY <1>4 DEF Ledger
  <2>2. r \notin C => Count(in, X) = 0
    <3>1. {i \in DOMAIN in : in[i] \in {}} = {}  OBVIOUS
    <3> QED BY <1>5, <3>1, FS_EmptySet DEF Count
  <2>3. (IF r \in C THEN Count(in, U) ELSE 0) = i2  BY <1>5, <2>2
  <2> QED BY <2>1, <2>3, Zenon
<1>17. y2 + a1 = x2 + a2  BY <1>10, <1>11, ReplicasFinite, AcrossChanges
<1>18. y3 + b1 = x3 + b2  BY <1>10, <1>11, ReplicasFinite, WithinChanges
<1>19. y5 + c1 = x5 + c2
  <2>1. AreQueues(Q, C, Hop) /\ AreQueues(Q2, C, Hop) /\ KeepsApart(Q, Q2, C, r)
    BY <1>4, <1>10, <1>11 DEF AreQueues, KeepsApart
  <2> QED BY <1>4, <1>5, <1>10, <2>1, AcrossShare
<1> HIDE DEF x1, x2, x3, x4, x5, y1, y2, y3, y4, y5, i1, i2, o1, o2, a1, a2, b1, b2, c1, c2
<1>20. ((y1 + y2 + y3) + (y4 + y5)) + f = (x1 + x2 + x3) + (x4 + x5)
  BY ONLY <1>7, <1>8, <1>9, <1>12, <1>13, <1>15, <1>16, <1>17, <1>18, <1>19, f \in Nat, FiveMove
<1>21. Holding(p, rq, by, b, s, a) + f = Holding(p, rp, bx, b, s, a)
  BY ONLY <1>14, <1>20
<1> QED BY <1>21 DEF rq
LEMMA OnceIs ==
  ASSUME NEW arr, NEW rp, NEW lb, NEW bx, Placed(arr, rp, lb, bx)
  PROVE  AtMostOnce(rp, lb, bx)
BY DEF AtMostOnce, Placed, OneIf

LEMMA ReleasesCounted ==
  ASSUME NEW p, NEW bx, Boxes(p, bx), NEW b \in Balancers, NEW s
  PROVE  {b} \in SUBSET Places /\ Across(bx, {b}, Freer(s)) \in Nat
<1>1. {b} \in SUBSET Places  BY DEF Places
<1> QED BY <1>1, BoxesCounted

LEMMA LoadsReplica ==
  ASSUME Basics, Loads, policy \in PushPolicies, NEW r \in Replicas, NEW in, NEW boxes, NEW w,
         Handles(r, in, boxes, w), NEW b \in Balancers, NEW s \in ServersOf[b]
  PROVE  Loaded(policy, replica', balancer', inbox', b, s)
<1>1. /\ policy \in Policies /\ ReplicasTyped(policy, replica) /\ BalancersTyped(policy, balancer)
      /\ Boxes(policy, inbox)
  BY BasicsAre
<1>2. /\ Taken(inbox, r, in, boxes) /\ Handled(policy, r, replica[r], in, w)
      /\ Squared(policy, r, replica[r], in, w)
      /\ Becomes(r, w, boxes)
  BY DEF Handles, Done
<1>3. /\ replica' = Became(replica, r, w) /\ inbox' = Deliver(boxes, w.out)
      /\ balancer' = balancer
  BY <1>2, BecomesIs
<1>4. Ledger(policy, r, in, w.out, inbox, inbox')
  <2>1. Ledger(policy, r, in, w.out, inbox, Deliver(boxes, w.out))
    BY ONLY <1>1, <1>2, r \in Replicas, ReplicaKeepsPlaces
  <2> QED BY ONLY <1>3, <2>1
<1>5. w \in State(policy, r)  BY <1>2 DEF Handled
<1>6. ReplicasTyped(policy, replica') /\ Boxes(policy, inbox')
  BY <1>1, <1>3, <1>4, <1>5, BecameIs DEF Ledger
<1>7. PICK F \in SUBSET Keys :
        /\ IsFiniteSet(F)
        /\ Count(w.out, Freeing(b, s)) = Cardinality(F)
        /\ \A a \in Keys : Owing(policy, r, w, b, s, a) + OneIf(a \in F)
                             = Owing(policy, r, replica[r], b, s, a) + Count(in, Marked(policy, b, s, a))
                                 + Count(in, Freed(policy, b, s, a, r))
  BY <1>2 DEF Squared
<1>8. Closes(policy, replica, inbox, replica', inbox', b, s, F)
  <2>1. ASSUME NEW a \in Keys
        PROVE  Holding(policy, replica', inbox', b, s, a) + OneIf(a \in F)
                 = Holding(policy, replica, inbox, b, s, a)
    <3>1. OneIf(a \in F) \in Nat  BY DEF OneIf
    <3>2. Owing(policy, r, w, b, s, a) + OneIf(a \in F)
            = Owing(policy, r, replica[r], b, s, a) + Count(in, Marked(policy, b, s, a))
                + Count(in, Freed(policy, b, s, a, r))
      BY <1>7
    <3>3. Holding(policy, Became(replica, r, w), inbox', b, s, a) + OneIf(a \in F)
            = Holding(policy, replica, inbox, b, s, a)
      BY ONLY <1>1, <1>2, <1>4, <1>5, <3>1, <3>2, r \in Replicas, ReplicaCloses
    <3> QED BY ONLY <1>3, <3>3
  <2> QED BY <2>1 DEF Closes
<1> DEFINE old == NonZero(HoldsOpen(policy, replica, inbox, b, s), Keys)
           new == NonZero(HoldsOpen(policy, replica', inbox', b, s), Keys)
           l == balancer[b].inflight[s]
           x == Across(inbox, {b}, Freer(s))
           y == Across(inbox', {b}, Freer(s))
<1>9. IsFiniteSet(old) /\ l = Cardinality(old) + x  BY DEF Loads, Loaded
<1>10. IsFiniteSet(new) /\ Cardinality(old) = Cardinality(new) + Cardinality(F)
  <2>1. AtMostOnce(replica, balancer, inbox)  BY OnceIs DEF Basics
  <2> QED BY <1>1, <1>6, <1>7, <1>8, <1>9, <2>1, CallsClosed
<1>11. x \in Nat /\ y \in Nat /\ {b} \in SUBSET Places
  BY <1>1, <1>6, ReleasesCounted
<1>12. y = x + Cardinality(F)
  <2>1. r \notin {b}  BY PlacesDiffer
  <2>2. y + (IF r \in {b} THEN Count(in, Freer(s)) ELSE 0) = x + Count(w.out, [to : {b}, msg : Freer(s)])
    BY <1>4, <1>11 DEF Ledger
  <2>3. Count(w.out, [to : {b}, msg : Freer(s)]) = Cardinality(F)
    BY <1>7 DEF Freeing, Freer
  <2> DEFINE k == Count(in, Freer(s))
             c == Count(w.out, [to : {b}, msg : Freer(s)])
  <2>4. y + 0 = x + c  BY <2>1, <2>2
  <2> QED BY <1>11, <2>3, <2>4
<1>13. Cardinality(old) \in Nat /\ Cardinality(new) \in Nat /\ Cardinality(F) \in Nat
  BY <1>7, <1>9, <1>10, FS_CardinalityType
<1> HIDE DEF old, new, l, x, y
<1>14. l = Cardinality(new) + y  BY ONLY <1>9, <1>10, <1>11, <1>12, <1>13
<1> QED BY <1>3, <1>10, <1>14 DEF Loaded, new, l, y
(* Another step: `in` is taken at x, where no return is counted, and none is sent. *)
LEMMA MailHolds ==
  ASSUME NEW p, NEW rp, ReplicasTyped(p, rp), NEW bx, Boxes(p, bx), NEW x, NEW in, NEW out, NEW by,
         Ledger(p, x, in, out, bx, by), NEW b, NEW s, NEW a,
         NEW i \in Nat, Count(in, Marked(p, b, s, a)) = i,
         NEW o \in Nat, Count(out, [to : Places, msg : Marked(p, b, s, a)]) = o,
         x \in Callers(p, b) => Count(in, Unpaid(s, a)) = 0,
         Count(out, [to : Callers(p, b), msg : Unpaid(s, a)]) = 0, x \in Places
  PROVE  Holding(p, rp, by, b, s, a) + i = Holding(p, rp, bx, b, s, a) + o
<1> DEFINE M == Marked(p, b, s, a)
           U == Unpaid(s, a)
           C == Callers(p, b)
           Q == QueuesOf(rp, Replicas)
           x1 == Across(bx, Places, M)
           x2 == Across(Q, Replicas, M)
           x3 == Within(ServingSets(rp), Replicas, M)
           x4 == Across(bx, C, U)
           x5 == Across(Q, C, U)
           y1 == Across(by, Places, M)
           y4 == Across(by, C, U)
<1>1. Boxes(p, by)  BY DEF Ledger
<1>2. C \in SUBSET Replicas /\ C \in SUBSET Places /\ Places \in SUBSET Places
  BY CallersAre
<1>3. /\ Holding(p, rp, bx, b, s, a) = (x1 + x2 + x3) + (x4 + x5)
      /\ Holding(p, rp, by, b, s, a) = (y1 + x2 + x3) + (y4 + x5)
  BY DEF Holding, Carried, Due
<1> HIDE DEF M, U, C, Q
<1>4. x1 \in Nat /\ x2 \in Nat /\ x3 \in Nat /\ x4 \in Nat /\ x5 \in Nat
  BY <1>2, HoldingCounted DEF Q
<1>5. y1 \in Nat /\ y4 \in Nat  BY <1>1, <1>2, HoldingCounted
<1>6. y1 + i = x1 + o
  <2>1. y1 + (IF x \in Places THEN Count(in, M) ELSE 0) = x1 + Count(out, [to : Places, msg : M])
    BY <1>2 DEF Ledger
  <2>2. (IF x \in Places THEN Count(in, M) ELSE 0) = i /\ Count(out, [to : Places, msg : M]) = o
    BY DEF M
  <2> QED BY <2>1, <2>2, Zenon
<1>7. y4 = x4
  <2> DEFINE k == IF x \in C THEN Count(in, U) ELSE 0
             l == Count(out, [to : C, msg : U])
  <2>1. y4 + k = x4 + l  BY <1>2 DEF Ledger
  <2>2. k = 0 /\ l = 0  BY DEF C, U
  <2> HIDE DEF k, l
  <2> QED BY <1>4, <1>5, <2>1, <2>2
<1> HIDE DEF x1, x2, x3, x4, x5, y1, y4
<1> QED BY <1>3, <1>4, <1>5, <1>6, <1>7

LEMMA CallOfIs ==
  ASSUME NEW p, NEW b, NEW m \in Calls(p, b)
  PROVE  CallOf(m) \in Keys
<1>1. m.callers \in Seq(Frame) /\ m.callers # <<>> /\ m.req \in Requests
  BY DEF Calls, Hopping, Hop, Called
<1> QED BY <1>1 DEF Keys, CallOf

LEMMA DispatchMarks ==
  ASSUME config \in Configs, policy \in PushPolicies, NEW b0 \in Balancers, NEW m \in Calls(policy, b0),
         NEW s0 \in ServersOf[b0], NEW b \in Balancers, NEW s \in ServersOf[b], NEW a \in Keys
  PROVE  OpensCall(policy, m, Dispatched(m, s0), b0, s0, b, s, a)
<1> DEFINE p == policy
           d == Dispatched(m, s0)
           c == m.callers
           e == [c EXCEPT ![1].server = s0]
           n == Len(c) - 1
           T == Naming(p, b, s)
<1>1. p \in Policies  BY PolicyIs
<1>2. /\ m \in Hop /\ m.kind = "call" /\ c \in Seq(Frame) /\ m.req \in Requests
      /\ ServiceOf[m.endpoint] = TargetOf(b0) /\ Called(p, b0, m)
  BY DEF Calls, Hopping, Hop
<1>3. c # <<>> /\ c[1].server = NoServer /\ c[1].replica \in Replicas
      /\ m.endpoint \in Targets[c[1].replica] /\ LbOf[p][c[1].replica][m.endpoint] = b0
  BY <1>2 DEF Called
<1>4. d \in Hop /\ d.kind = "upstream" /\ d.req = m.req
  BY DispatchedIs DEF Dispatch, Work, Hopping
<1>5. d.callers = e  BY <1>2 DEF Dispatched, Hop
<1>6. s \in Replicas /\ s[1] = TargetOf(b) /\ s0 \in Replicas /\ s0[1] = TargetOf(b0)
  BY BalancerServes
<1>7. c[1] \notin T  BY <1>3, <1>6, MicroservicesAssumption DEF Naming
<1>8. SameBehind(c, e) /\ c[1] \in Frame /\ e[1] = [c[1] EXCEPT !.server = s0]
  BY <1>2, <1>3 DEF SameBehind
<1>9. e[1] \in T <=> b = b0 /\ s = s0
  <2>1. e[1] \in Frame /\ e[1].server = s0 /\ e[1].replica = c[1].replica
    BY <1>6, <1>8 DEF Frame
  <2>2. e[1] \in T <=> s = s0 /\ c[1].replica \in Callers(p, b)
    BY <2>1 DEF Naming
  <2>3. ASSUME s = s0
        PROVE  LbOf[p][c[1].replica][m.endpoint] = b <=> c[1].replica \in Callers(p, b)
    <3>1. ServiceOf[m.endpoint] = s[1]  BY <1>2, <1>6, <2>3
    <3> QED BY <1>1, <1>3, <3>1, OneBalancer
  <2> QED BY <1>3, <2>2, <2>3
<1> HIDE DEF e, d, T
<1>11. /\ \A k : k \in FromEnd(e, T) <=> k \in FromEnd(c, T) \/ (k = Len(c) - 1 /\ e[1] \in T)
       /\ Len(c) - 1 \notin FromEnd(c, T)
  BY <1>2, <1>3, <1>7, <1>8, FromEndChanged
<1>12. /\ m \in Marked(p, b, s, a) <=> m.req = a[1] /\ a[2] \in FromEnd(c, T)
       /\ d \in Marked(p, b, s, a) <=> m.req = a[1] /\ a[2] \in FromEnd(e, T)
  BY <1>2, <1>4, <1>5 DEF Marked, Depths, T
<1>13. a = <<m.req, n>> <=> a[1] = m.req /\ a[2] = n  BY DEF Keys
<1>14. m \notin Unpaid(s, a) /\ d \notin Unpaid(s, a)  BY <1>2, <1>4 DEF Unpaid
<1> HIDE DEF c, n
<1>15. d \in Marked(p, b, s, a) <=> m \in Marked(p, b, s, a) \/ (b = b0 /\ s = s0 /\ a = <<m.req, n>>)
  BY <1>9, <1>11, <1>12, <1>13 DEF n
<1>16. m \in Marked(p, b, s, a) => ~(b = b0 /\ s = s0 /\ a = <<m.req, n>>)
  BY <1>11, <1>12, <1>13 DEF n
<1> QED BY <1>14, <1>15, <1>16 DEF OpensCall, CallOf, d, n, c
LEMMA LoadsPushCall ==
  ASSUME Basics, Loads, NEW b0 \in Balancers, PushCall(b0),
         NEW b \in Balancers, NEW s \in ServersOf[b]
  PROVE  Loaded(policy, replica', balancer', inbox', b, s)
<1> DEFINE p == policy
           m == Head(inbox[b0])
           u == balancer[b0]
<1>1. inbox[b0] # <<>> /\ m.kind = "call" /\ policy \in PushPolicies
  BY DEF PushCall, Receives
<1>2. PICK s0 \in ServersOf[b0] :
        Routes(b0, [u EXCEPT !.inflight[s0] = @ + 1], << [to |-> s0, msg |-> Dispatched(m, s0)] >>)
  BY DEF PushCall
<1>3. config \in Configs /\ u \in Lb(p, b0) /\ m \in Calls(p, b0)
  BY <1>1, HeadAtBalancer
<1> DEFINE v == [u EXCEPT !.inflight[s0] = @ + 1]
           d == Dispatched(m, s0)
           snd == [to |-> s0, msg |-> d]
           out == <<snd>>
           F == {a \in Keys : b = b0 /\ s = s0 /\ a = CallOf(m)}
<1>4. RoutesFrom(b0, m, v, out)
  <2>1. Routed(p, b0, u, m, v, out)  BY <1>1, <1>3, PushCallRoutes
  <2> QED BY <1>1, <1>2, <2>1 DEF RoutesFrom
<1>5. Basics' /\ Ledger(p, b0, <<m>>, out, inbox, inbox')
  BY <1>4, BasicsBalancer
<1>6. balancer' = Rerouted(balancer, b0, v) /\ replica' = replica /\ policy' = policy
  BY <1>2, RoutesIs
<1>7. /\ ReplicasTyped(p, replica) /\ BalancersTyped(p, balancer) /\ Boxes(p, inbox)
      /\ BalancersTyped(p, balancer') /\ Boxes(p, inbox') /\ AtMostOnce(replica', balancer', inbox')
  BY <1>5, <1>6, BasicsAre, OnceIs DEF Basics
<1>8. v.inflight = [u.inflight EXCEPT ![s0] = @ + 1] /\ u.inflight \in [ServersOf[b0] -> Nat]
  BY <1>3 DEF Lb
<1>9. /\ balancer'[b0] = v /\ \A o \in Balancers \ {b0} : balancer'[o] = balancer[o]
  BY <1>6, <1>7 DEF BalancersTyped, FunOn, Rerouted
<1>10. s0 \in Places  BY BalancerServes DEF Places
<1>11. d.kind = "upstream" /\ m \in Hop
  BY <1>3, DispatchedIs DEF Dispatch, Calls, Hopping
<1>12. b0 \in Places /\ b0 \notin Callers(p, b)
  BY CallersAre, PlacesDiffer DEF Places
<1> DEFINE old == NonZero(HoldsOpen(p, replica, inbox, b, s), Keys)
           new == NonZero(HoldsOpen(p, replica', inbox', b, s), Keys)
           x == Across(inbox, {b}, Freer(s))
           y == Across(inbox', {b}, Freer(s))
<1> HIDE DEF v
<1>13. F \in SUBSET Keys /\ IsFiniteSet(F) /\ Cardinality(F) = OneIf(b = b0 /\ s = s0)
  <2> DEFINE k == CallOf(m)
  <2>1. k \in Keys  BY <1>3, CallOfIs
  <2> HIDE DEF k
  <2>2. F = IF b = b0 /\ s = s0 THEN {k} ELSE {}  BY <2>1 DEF k
  <2> HIDE DEF F
  <2>3. IsFiniteSet(F) /\ Cardinality(F) = OneIf(b = b0 /\ s = s0)
    BY <2>2, FS_Singleton, FS_EmptySet DEF OneIf
  <2> QED BY <2>3 DEF F
<1>14. Closes(p, replica', inbox', replica, inbox, b, s, F)
  <2>1. ASSUME NEW a \in Keys
        PROVE  Holding(p, replica, inbox, b, s, a) + OneIf(a \in F) = Holding(p, replica', inbox', b, s, a)
    <3> DEFINE M == Marked(p, b, s, a)
               U == Unpaid(s, a)
               C == Callers(p, b)
               i == OneIf(m \in M)
               o == OneIf(d \in M)
               f == OneIf(a \in F)
               h == Holding(p, replica, inbox, b, s, a)
               g == Holding(p, replica, inbox', b, s, a)
    <3>1. /\ d \in M <=> m \in M \/ a \in F
          /\ m \in M => a \notin F
          /\ m \notin U /\ d \notin U
      <4>1. OpensCall(p, m, d, b0, s0, b, s, a)
        BY ONLY <1>1, <1>3, b0 \in Balancers, b \in Balancers, s0 \in ServersOf[b0], s \in ServersOf[b],
                a \in Keys, DispatchMarks
      <4> QED BY <4>1 DEF OpensCall
    <3>2. Count(<<m>>, M) = i /\ Count(<<m>>, U) = 0
      BY <3>1, CountOne DEF OneIf
    <3>3. Count(out, [to : Places, msg : M]) = o /\ Count(out, [to : C, msg : U]) = 0
      <4>1. snd \in [to : Places, msg : M] <=> d \in M  BY <1>10
      <4>2. snd \notin [to : C, msg : U]  BY <3>1
      <4> QED BY <4>1, <4>2, CountOne DEF OneIf
    <3>4. i \in Nat /\ o \in Nat /\ f \in Nat  BY DEF OneIf
    <3> HIDE DEF M, U, C, F
    <3>5. o = i + f  BY <3>1 DEF OneIf
    <3> HIDE DEF i, o, f
    <3>6. g + i = h + o
      BY <1>5, <1>7, <1>12, <3>2, <3>3, <3>4, MailHolds DEF M, U, C
    <3>7. g \in Nat /\ h \in Nat  BY <1>7, HoldingWithin
    <3> HIDE DEF g, h
    <3>8. h + f = g  BY ONLY <3>4, <3>5, <3>6, <3>7
    <3> QED BY <1>6, <3>8 DEF h, g, f
  <2> QED BY <2>1 DEF Closes
<1>15. IsFiniteSet(old) /\ balancer[b].inflight[s] = Cardinality(old) + x
  BY <1>1 DEF Loads, Loaded
<1> HIDE DEF F
<1>16. IsFiniteSet(new)
  <2>1. ASSUME NEW a \in new
        PROVE  a \in old \cup F
    <3>1. a \in Keys /\ Holding(p, replica', inbox', b, s, a) # 0
      BY <2>1 DEF NonZero, HoldsOpen
    <3>2. Holding(p, replica, inbox, b, s, a) + OneIf(a \in F) = Holding(p, replica', inbox', b, s, a)
      BY <1>14, <3>1 DEF Closes
    <3>3. a \notin F => OneIf(a \in F) = 0 /\ Holding(p, replica, inbox, b, s, a) \in Nat
      BY <1>7, HoldingWithin DEF OneIf
    <3>4. a \notin F => Holding(p, replica, inbox, b, s, a) # 0
      BY <3>1, <3>2, <3>3
    <3> QED BY <3>1, <3>4 DEF NonZero, HoldsOpen
  <2>2. new \subseteq old \cup F  BY <2>1
  <2> QED BY <1>13, <1>15, <2>2, FS_Subset, FS_Union
<1>17. Cardinality(new) = Cardinality(old) + Cardinality(F)
  BY <1>6, <1>7, <1>13, <1>14, <1>16, CallsClosed
<1>18. x \in Nat /\ y \in Nat /\ {b} \in SUBSET Places
  BY <1>7, ReleasesCounted
<1>19. y = x
  <2>1. m \notin Freer(s) /\ snd \notin [to : {b}, msg : Freer(s)]
    BY <1>1, <1>11 DEF Freer
  <2>2. Count(<<m>>, Freer(s)) = 0 /\ Count(out, [to : {b}, msg : Freer(s)]) = 0
    BY <2>1, CountOne DEF OneIf
  <2> DEFINE k == IF b0 \in {b} THEN Count(<<m>>, Freer(s)) ELSE 0
             l == Count(out, [to : {b}, msg : Freer(s)])
  <2>3. y + k = x + l  BY <1>5, <1>18 DEF Ledger
  <2>4. k = 0 /\ l = 0  BY <2>2
  <2> HIDE DEF k, l
  <2> QED BY <1>18, <2>3, <2>4
<1>20. balancer'[b].inflight[s] = balancer[b].inflight[s] + OneIf(b = b0 /\ s = s0)
       /\ balancer[b].inflight[s] \in Nat
  <2>1. balancer[b].inflight \in [ServersOf[b] -> Nat]  BY <1>7, LbIs
  <2> QED BY <1>8, <1>9, <2>1 DEF OneIf
<1>21. Cardinality(old) \in Nat /\ Cardinality(new) \in Nat /\ Cardinality(F) \in Nat
  BY <1>13, <1>15, <1>16, FS_CardinalityType
<1>22. balancer'[b].inflight[s] = Cardinality(new) + y
  <2> DEFINE c0 == Cardinality(old)
             c1 == Cardinality(new)
             f == Cardinality(F)
             l0 == balancer[b].inflight[s]
             l1 == balancer'[b].inflight[s]
  <2>1. l0 = c0 + x /\ c1 = c0 + f /\ y = x /\ l1 = l0 + f
    BY <1>13, <1>15, <1>17, <1>19, <1>20
  <2>2. c0 \in Nat /\ c1 \in Nat /\ f \in Nat  BY <1>21
  <2> HIDE DEF c0, c1, f, l0, l1, x, y
  <2>3. l1 = c1 + y  BY ONLY <1>18, <2>1, <2>2
  <2> QED BY <2>3 DEF l1, c1
<1> QED BY <1>16, <1>22 DEF Loaded
LEMMA IdleHolds ==
  ASSUME NEW p, NEW rp, ReplicasTyped(p, rp), NEW bx, Boxes(p, bx), NEW x \in Places, NEW in, NEW out,
         NEW by, Ledger(p, x, in, out, bx, by), NEW b, NEW s, NEW a, Idle(p, x, in, out, b, s, a)
  PROVE  Holding(p, rp, by, b, s, a) = Holding(p, rp, bx, b, s, a)
<1>1. PICK i \in Nat : i = 0  OBVIOUS
<1>2. /\ Count(in, Marked(p, b, s, a)) = i
      /\ Count(out, [to : Places, msg : Marked(p, b, s, a)]) = i
      /\ x \in Callers(p, b) => Count(in, Unpaid(s, a)) = 0
      /\ Count(out, [to : Callers(p, b), msg : Unpaid(s, a)]) = 0
  BY <1>1 DEF Idle
<1>3. Holding(p, rp, by, b, s, a) + i = Holding(p, rp, bx, b, s, a) + i
  BY <1>2, MailHolds
<1>4. Boxes(p, by)  BY DEF Ledger
<1>5. Holding(p, rp, by, b, s, a) \in Nat /\ Holding(p, rp, bx, b, s, a) \in Nat
  BY <1>4, CallersAre, HoldingCounted DEF Holding
<1> QED BY <1>3, <1>5

LEMMA NothingOpens ==
  ASSUME NEW p, NEW rp, ReplicasTyped(p, rp), NEW bx, NEW by, NEW b, NEW s,
         \A a \in Keys : Holding(p, rp, by, b, s, a) = Holding(p, rp, bx, b, s, a)
  PROVE  HoldsOpen(p, rp, by, b, s) = HoldsOpen(p, rp, bx, b, s)
BY DEF HoldsOpen

LEMMA LoadsRelease ==
  ASSUME Basics, Loads, policy \in PushPolicies, NEW b0 \in Balancers, ReleaseArrives(b0),
         NEW b \in Balancers, NEW s \in ServersOf[b]
  PROVE  Loaded(policy, replica', balancer', inbox', b, s)
<1> DEFINE p == policy
           m == Head(inbox[b0])
           u == balancer[b0]
           s0 == m.server
           v == [u EXCEPT !.inflight[s0] = SaturatingDec(@)]
<1>1. inbox[b0] # <<>> /\ m.kind = "release" /\ Routes(b0, v, <<>>)
  BY DEF ReleaseArrives, Receives
<1>2. u \in Lb(p, b0) /\ Apart(u) /\ m \in Releases(p, b0)
  BY <1>1, HeadAtBalancer
<1>3. RoutesFrom(b0, m, v, <<>>)  BY <1>1, <1>2, ReleaseRoutes DEF RoutesFrom
<1>4. Basics' /\ Ledger(p, b0, <<m>>, <<>>, inbox, inbox')
  BY <1>3, BasicsBalancer
<1>5. balancer' = Rerouted(balancer, b0, v) /\ replica' = replica /\ policy' = policy
  BY <1>1, RoutesIs
<1>6. ReplicasTyped(p, replica) /\ BalancersTyped(p, balancer) /\ Boxes(p, inbox) /\ Boxes(p, inbox')
  BY <1>4, BasicsAre DEF Ledger
<1>7. v.inflight = [u.inflight EXCEPT ![s0] = SaturatingDec(@)] /\ u.inflight \in [ServersOf[b0] -> Nat]
  BY <1>2 DEF Lb
<1>8. balancer'[b0] = v /\ \A o \in Balancers \ {b0} : balancer'[o] = balancer[o]
  BY <1>5, <1>6 DEF BalancersTyped, FunOn, Rerouted
<1>9. m = [kind |-> "release", server |-> s0]  BY <1>2 DEF Releases, Release
<1>10. b0 \in Places /\ b0 \notin Callers(p, b)
  BY CallersAre, PlacesDiffer DEF Places
<1> DEFINE x == Across(inbox, {b}, Freer(s))
           y == Across(inbox', {b}, Freer(s))
           open == NonZero(HoldsOpen(p, replica, inbox, b, s), Keys)
<1> HIDE DEF v
<1>11. HoldsOpen(p, replica', inbox', b, s) = HoldsOpen(p, replica, inbox, b, s)
  <2>1. ASSUME NEW a \in Keys
        PROVE  Holding(p, replica, inbox', b, s, a) = Holding(p, replica, inbox, b, s, a)
    <3>1. m \notin Marked(p, b, s, a)  BY <1>1 DEF Marked, Hop
    <3>2. Count(<<m>>, Marked(p, b, s, a)) = 0  BY <3>1, CountOne DEF OneIf
    <3>3. /\ Count(<<>>, [to : Places, msg : Marked(p, b, s, a)]) = 0
          /\ Count(<<>>, [to : Callers(p, b), msg : Unpaid(s, a)]) = 0
      BY CountNoMessage
    <3>4. Idle(p, b0, <<m>>, <<>>, b, s, a)  BY <1>10, <3>2, <3>3 DEF Idle
    <3> QED BY <1>4, <1>6, <1>10, <3>4, IdleHolds
  <2>2. HoldsOpen(p, replica, inbox', b, s) = HoldsOpen(p, replica, inbox, b, s)
    BY <1>6, <2>1, NothingOpens
  <2> QED BY <1>5, <2>2
<1>12. IsFiniteSet(open) /\ balancer[b].inflight[s] = Cardinality(open) + x
  BY DEF Loads, Loaded
<1>13. x \in Nat /\ y \in Nat /\ {b} \in SUBSET Places /\ Cardinality(open) \in Nat
  BY <1>6, <1>12, ReleasesCounted, FS_CardinalityType
<1>14. y + OneIf(b = b0 /\ s = s0) = x
  <2>1. m \in Freer(s) <=> s = s0  BY <1>9 DEF Freer
  <2> DEFINE k == IF b0 \in {b} THEN Count(<<m>>, Freer(s)) ELSE 0
             l == Count(<<>>, [to : {b}, msg : Freer(s)])
  <2>2. y + k = x + l  BY <1>4, <1>13 DEF Ledger
  <2>3. k = OneIf(b = b0 /\ s = s0) /\ l = 0
    BY <2>1, CountOne, CountNoMessage DEF OneIf
  <2> HIDE DEF k, l
  <2> QED BY <1>13, <2>2, <2>3
<1>15. balancer'[b].inflight[s] = Cardinality(open) + y
  <2>1. balancer[b].inflight \in [ServersOf[b] -> Nat]  BY <1>6, LbIs
  <2>2. CASE b = b0 /\ s = s0
    <3>1. balancer'[b].inflight[s] = SaturatingDec(balancer[b].inflight[s])
      BY <1>7, <1>8, <2>1, <2>2
    <3>2. y + 1 = x  BY <1>14, <2>2 DEF OneIf
    <3> DEFINE c == Cardinality(open)
               l == balancer[b].inflight[s]
    <3>3. l = c + x /\ c \in Nat /\ l \in Nat  BY <1>12, <1>13, <2>1
    <3> HIDE DEF c, l, x, y
    <3>4. SaturatingDec(l) = c + y  BY ONLY <1>13, <3>2, <3>3 DEF SaturatingDec
    <3> QED BY <3>1, <3>4 DEF c, l
  <2>3. CASE ~(b = b0 /\ s = s0)
    <3>1. balancer'[b].inflight[s] = balancer[b].inflight[s]
      BY <1>7, <1>8, <2>1, <2>3
    <3>2. y = x  BY <1>13, <1>14, <2>3 DEF OneIf
    <3> QED BY <1>12, <3>1, <3>2
  <2> QED BY <2>2, <2>3
<1> QED BY <1>11, <1>12, <1>15 DEF Loaded

LEMMA LoadsArrive ==
  ASSUME Basics, Loads, policy \in PushPolicies, NEW q \in Requests, Arrive(q),
         NEW b \in Balancers, NEW s \in ServersOf[b]
  PROVE  Loaded(policy, replica', balancer', inbox', b, s)
<1> DEFINE p == policy
           m == ArrivalAt(q)
<1>1. replica' = replica /\ balancer' = balancer  BY DEF Arrive
<1>2. PICK r \in ReplicasOf[Root[q]] : inbox' = [inbox EXCEPT ![r] = Append(@, m)]
  BY DEF Arrive, ArrivalAt
<1>3. /\ config \in Configs /\ ReplicasTyped(p, replica) /\ BalancersTyped(p, balancer)
      /\ Boxes(p, inbox)
  BY BasicsAre
<1>4. m \in Mail(p, r) /\ r \in Places /\ r \in Replicas  BY <1>3, ArrivalIs
<1>5. m.kind = "upstream" /\ m.callers = <<>>  BY DEF ArrivalAt
<1> HIDE DEF m
<1> DEFINE snd == [to |-> r, msg |-> m]
           out == <<snd>>
<1>6. Ledger(p, r, <<>>, out, inbox, inbox')  BY <1>2, <1>3, <1>4, LedgerSent
<1>7. Boxes(p, inbox')  BY <1>6 DEF Ledger
<1> DEFINE x == Across(inbox, {b}, Freer(s))
           y == Across(inbox', {b}, Freer(s))
<1>8. HoldsOpen(p, replica, inbox', b, s) = HoldsOpen(p, replica, inbox, b, s)
  <2>1. ASSUME NEW a \in Keys
        PROVE  Holding(p, replica, inbox', b, s, a) = Holding(p, replica, inbox, b, s, a)
    <3>1. m \notin Marked(p, b, s, a)  BY <1>5 DEF Marked, Depths, FromEnd
    <3>2. m \notin Unpaid(s, a)  BY <1>5 DEF Unpaid
    <3>3. snd \notin [to : Places, msg : Marked(p, b, s, a)] /\ snd \notin [to : Callers(p, b), msg : Unpaid(s, a)]
      BY <3>1, <3>2
    <3>4. /\ Count(out, [to : Places, msg : Marked(p, b, s, a)]) = 0
          /\ Count(out, [to : Callers(p, b), msg : Unpaid(s, a)]) = 0
      BY <3>3, CountOne DEF OneIf
    <3>5. Count(<<>>, Marked(p, b, s, a)) = 0 /\ Count(<<>>, Unpaid(s, a)) = 0
      BY CountNoMessage
    <3>6. Idle(p, r, <<>>, out, b, s, a)  BY <3>4, <3>5 DEF Idle
    <3> QED BY <1>3, <1>4, <1>6, <3>6, IdleHolds
  <2> QED BY <1>3, <2>1, NothingOpens
<1>9. x \in Nat /\ y \in Nat /\ {b} \in SUBSET Places
  BY <1>3, <1>7, ReleasesCounted
<1>10. y = x
  <2>1. snd \notin [to : {b}, msg : Freer(s)]  BY <1>5 DEF Freer
  <2> DEFINE k == IF r \in {b} THEN Count(<<>>, Freer(s)) ELSE 0
             l == Count(out, [to : {b}, msg : Freer(s)])
  <2>2. y + k = x + l  BY <1>6, <1>9 DEF Ledger
  <2>3. k = 0 /\ l = 0  BY <2>1, CountOne, CountNoMessage DEF OneIf
  <2> HIDE DEF k, l
  <2> QED BY <1>9, <2>2, <2>3
<1>11. Loaded(p, replica, balancer, inbox, b, s)  BY DEF Loads
<1> QED BY <1>1, <1>8, <1>10, <1>11 DEF Loaded

LEMMA LoadsInit == Init => Loads
<1> SUFFICES ASSUME Init, NEW b \in Balancers, NEW s \in ServersOf[b]
             PROVE  Loaded(policy, replica, balancer, inbox, b, s)
  BY DEF Loads
<1>1. /\ \A r \in Replicas : replica[r] = NewReplica(WarmPulls(r))
      /\ balancer[b] = NewBalancer(b)
      /\ \A x \in Places : inbox[x] = <<>>
  BY DEF Init, NewReplica, NewBalancer, Places
<1> DEFINE Q == QueuesOf(replica, Replicas)
           S == ServingSets(replica)
           C == Callers(policy, b)
<1>2. \A d \in Replicas : Q[d] = <<>> /\ S[d] = {}
  <2> TAKE d \in Replicas
  <2>1. Q[d] = replica[d].queue /\ S[d] = replica[d].serving
    BY DEF QueuesOf, ServingSets
  <2>2. replica[d] = NewReplica(WarmPulls(d))  BY <1>1
  <2> QED BY ONLY <2>1, <2>2, NewReplicaEmpty, Zenon
<1> HIDE DEF Q, S, C
<1>3. C \in SUBSET Replicas /\ C \in SUBSET Places  BY CallersAre DEF C
<1>4. ASSUME NEW M, NEW U
      PROVE  /\ Across(inbox, Places, M) = 0 /\ Across(Q, Replicas, M) = 0
             /\ Within(S, Replicas, M) = 0
             /\ Across(inbox, C, U) = 0 /\ Across(Q, C, U) = 0
  <2>1. (\A d \in C : inbox[d] = <<>>) /\ (\A d \in C : Q[d] = <<>>)
    BY <1>1, <1>2, <1>3
  <2> QED BY <1>1, <1>2, <2>1, AcrossEmpty, WithinEmpty
<1>5. \A a \in Keys : Holding(policy, replica, inbox, b, s, a) = 0
  BY <1>4 DEF Holding, Carried, Due, Q, S, C
<1>6. NonZero(HoldsOpen(policy, replica, inbox, b, s), Keys) = {}
  BY <1>5 DEF NonZero, HoldsOpen
<1>7. Across(inbox, {b}, Freer(s)) = 0
  <2>1. \A d \in {b} : inbox[d] = <<>>  BY <1>1 DEF Places
  <2> QED BY <2>1, AcrossEmpty
<1>8. balancer[b].inflight[s] = 0  BY <1>1 DEF NewBalancer
<1> QED BY <1>6, <1>7, <1>8, FS_EmptySet DEF Loaded

(* Under push, a balancer's handler is a dispatch or a release. *)
LEMMA PushRoutes ==
  ASSUME policy \in PushPolicies, NEW b \in Balancers, Route(b)
  PROVE  PushCall(b) \/ ReleaseArrives(b)
<1>1. ~AnnounceCall(b)
  <2>1. AnnounceCall(b) => policy = "amphiqueue"  BY DEF AnnounceCall
  <2> QED BY <2>1, PullNoPush
<1>2. ~QueueCall(b)  BY PullNoPush DEF QueueCall
<1>3. ~CentralPullArrives(b)  BY PullNoPush DEF CentralPullArrives
<1>4. ~AmphiPullArrives(b)  BY PullNoPush DEF AmphiPullArrives
<1> QED BY <1>1, <1>2, <1>3, <1>4 DEF Route

LEMMA LoadsStep ==
  ASSUME Basics, Loads, [Next]_vars
  PROVE  Loads'
<1>1. policy' = policy
  <2>1. config' = config
    BY StepIs, RoutesIs DEF vars, Arrive, Handles, RoutesFrom, Becomes, Routes
  <2> QED BY <2>1 DEF policy
<1> SUFFICES ASSUME policy \in PushPolicies, NEW b \in Balancers, NEW s \in ServersOf[b]
             PROVE  Loaded(policy, replica', balancer', inbox', b, s)
  BY <1>1 DEF Loads
<1>2. CASE UNCHANGED vars
  <2>1. replica' = replica /\ balancer' = balancer /\ inbox' = inbox
    BY <1>2 DEF vars
  <2>2. Loaded(policy, replica, balancer, inbox, b, s)  BY DEF Loads
  <2> QED BY <2>1, <2>2
<1>3. ASSUME NEW q \in Requests, Arrive(q)
      PROVE  Loaded(policy, replica', balancer', inbox', b, s)
  BY <1>3, LoadsArrive
<1>4. ASSUME NEW r \in Replicas, NEW in, NEW boxes, NEW w, Handles(r, in, boxes, w)
      PROVE  Loaded(policy, replica', balancer', inbox', b, s)
  BY <1>4, LoadsReplica
<1>5. ASSUME NEW b0 \in Balancers, Route(b0)
      PROVE  Loaded(policy, replica', balancer', inbox', b, s)
  BY <1>5, PushRoutes, LoadsPushCall, LoadsRelease
<1>6. \/ UNCHANGED vars
      \/ \E q \in Requests : Arrive(q)
      \/ \E r \in Replicas : \E in, boxes, w : Handles(r, in, boxes, w)
      \/ \E d \in Balancers : Route(d) /\ \E m, v, out : RoutesFrom(d, m, v, out)
  BY StepIs
<1> QED BY <1>2, <1>3, <1>4, <1>5, <1>6

LEMMA LoadsInvariant == Spec => [](Basics /\ Loads)
<1>1. Init => Basics /\ Loads  BY BasicsInit, LoadsInit
<1>2. Basics /\ Loads /\ [Next]_vars => Basics' /\ Loads'
  BY BasicsStep, LoadsStep
<1> QED BY <1>1, <1>2, PTL DEF Spec, Safety

LEMMA LocatedAt ==
  ASSUME Basics, policy \in PushPolicies, NEW l
  PROVE  l \in Located <=> \E x \in Places : \E h : /\ l = [to |-> x, msg |-> h] /\ h.kind \in Hops
                                                    /\ HeldAt(replica, inbox, x, h)
<1> DEFINE at(x) == IF x \in Replicas THEN ToSet(replica[x].queue) \cup replica[x].serving
                    ELSE IF x \in Balancers THEN ToSet(balancer[x].queue) ELSE {}
           here(x) == ToSet(inbox[x]) \cup at(x)
<1>1. BalancersTyped(policy, balancer) /\ Boxes(policy, inbox)  BY BasicsAre
<1>2. DOMAIN inbox = Places  BY <1>1 DEF Boxes
<1>3. \A x \in Balancers : ToSet(balancer[x].queue) = {}
  <2> TAKE x \in Balancers
  <2>1. balancer[x] \in Lb(policy, x) /\ policy \notin PullPolicies
    BY <1>1, LbIs, PullNoPush
  <2>2. balancer[x].queue = <<>>  BY <2>1, WhatWaits
  <2> QED BY <2>2 DEF ToSet
<1>4. ASSUME NEW x \in Places, NEW h
      PROVE  h \in here(x) <=> HeldAt(replica, inbox, x, h)
  <2>1. h \in at(x) <=> x \in Replicas /\ (h \in ToSet(replica[x].queue) \/ h \in replica[x].serving)
    BY <1>3
  <2> HIDE DEF at
  <2>2. h \in here(x) <=> h \in ToSet(inbox[x]) \/ h \in at(x)  OBVIOUS
  <2>3. /\ h \in ToSet(inbox[x]) <=> \E i \in DOMAIN inbox[x] : inbox[x][i] = h
        /\ h \in ToSet(replica[x].queue) <=> \E i \in DOMAIN replica[x].queue : replica[x].queue[i] = h
    BY DEF ToSet
  <2> QED BY <2>1, <2>2, <2>3 DEF HeldAt
<1>5. Located = UNION {{[to |-> x, msg |-> h] : h \in {m \in here(x) : m.kind \in Hops}} : x \in Places}
  BY <1>2 DEF Located
<1> HIDE DEF here
<1> QED BY <1>4, <1>5

LEMMA OpenCallsAre ==
  ASSUME NEW p, NEW x, NEW h \in Hop, NEW b, NEW s, NEW n
  PROVE  n \in OpenCalls([to |-> x, msg |-> h], Callers(p, b), s)
           <=> n \in Nat /\ OpenAt(p, x, h, b, s, <<h.req, n>>)
<1> DEFINE c == h.callers
           C == Callers(p, b)
           marked == {i \in DOMAIN c : c[i].server = s /\ c[i].replica \in C}
           T == Naming(p, b, s)
           back == h.kind = "return" /\ h.release = s /\ x \in C
<1>1. c \in Seq(Frame)  BY DEF Hop
<1>2. n \in OpenCalls([to |-> x, msg |-> h], C, s)
        <=> n \in {Len(c) - i : i \in marked} \/ (n = Len(c) /\ back)
  BY DEF OpenCalls
<1>3. \A i \in DOMAIN c : c[i] \in T <=> c[i].server = s /\ c[i].replica \in C
  BY <1>1 DEF Naming
<1>4. OpenAt(p, x, h, b, s, <<h.req, n>>) <=> n \in FromEnd(c, T) \/ (n = Len(c) /\ back)
  BY DEF OpenAt, Marked, Unpaid, Depths
<1> HIDE DEF c, T, C, back
<1>5. n \in {Len(c) - i : i \in marked} <=> n \in FromEnd(c, T)
  <2>1. ASSUME NEW i \in marked, n = Len(c) - i
        PROVE  n \in FromEnd(c, T)
    <3>1. i \in 1 .. Len(c) /\ c[i] \in T /\ Len(c) \in Nat  BY <1>1, <1>3
    <3>2. n \in 0 .. Len(c) - 1 /\ Len(c) - n = i  BY <2>1, <3>1
    <3> QED BY <3>1, <3>2 DEF FromEnd
  <2>2. ASSUME n \in FromEnd(c, T)
        PROVE  n \in {Len(c) - i : i \in marked}
    <3>1. n \in 0 .. Len(c) - 1 /\ c[Len(c) - n] \in T /\ Len(c) \in Nat
      BY <1>1, <2>2 DEF FromEnd
    <3>2. Len(c) - n \in DOMAIN c /\ n = Len(c) - (Len(c) - n)  BY <1>1, <3>1
    <3>3. Len(c) - n \in marked  BY <1>3, <3>1, <3>2
    <3> QED BY <3>2, <3>3
  <2> QED BY <2>1, <2>2
<1>6. n \in FromEnd(c, T) \/ (n = Len(c) /\ back) => n \in Nat
  BY <1>1 DEF FromEnd
<1> QED BY <1>2, <1>4, <1>5, <1>6 DEF C

LEMMA HoldingSome ==
  ASSUME NEW p, NEW rp, ReplicasTyped(p, rp), NEW bx, Boxes(p, bx), NEW b, NEW s, NEW a
  PROVE  Holding(p, rp, bx, b, s, a) # 0
           <=> \E x \in Places : \E h : HeldAt(rp, bx, x, h) /\ OpenAt(p, x, h, b, s, a)
<1> DEFINE C == Callers(p, b)
           M == Marked(p, b, s, a)
           U == Unpaid(s, a)
           Q == QueuesOf(rp, Replicas)
           S == ServingSets(rp)
           x1 == Across(bx, Places, M)
           x2 == Across(Q, Replicas, M)
           x3 == Within(S, Replicas, M)
           x4 == Across(bx, C, U)
           x5 == Across(Q, C, U)
           queued(x, h) == \E i \in DOMAIN rp[x].queue : rp[x].queue[i] = h
           mailed(x, h) == \E i \in DOMAIN bx[x] : bx[x][i] = h
<1>1. /\ C \in SUBSET Replicas /\ C \in SUBSET Places /\ Replicas \in SUBSET Places
      /\ Places \in SUBSET Places /\ IsFiniteSet(C) /\ IsFiniteSet(Replicas)
  BY CallersAre, ReplicasFinite
<1>2. x1 \in Nat /\ x2 \in Nat /\ x3 \in Nat /\ x4 \in Nat /\ x5 \in Nat
  BY <1>1, HoldingCounted
<1>3. Holding(p, rp, bx, b, s, a) = x1 + x2 + x3 + (x4 + x5)
  BY DEF Holding, Carried, Due
<1>4. AreQueues(Q, Replicas, Hop) /\ AreFinite(S, Replicas)  BY ReplicaQueues
<1>5. AreQueues(Q, C, Hop)  BY <1>1, <1>4 DEF AreQueues
<1>6. AreQueues(bx, Places, Mails(p)) /\ AreQueues(bx, C, Mails(p)) /\ IsFiniteSet(Places)
  BY <1>1, BoxesCounted
<1>7. \A x \in Replicas : Q[x] = rp[x].queue /\ S[x] = rp[x].serving
  BY DEF QueuesOf, ServingSets
<1> HIDE DEF C, M, U, Q, S
<1>8. x1 # 0 <=> \E x \in Places : \E h \in M : mailed(x, h)
  <2>1. x1 # 0 <=> \E x \in Places : \E i \in DOMAIN bx[x] : bx[x][i] \in M
    BY <1>6, AcrossSome
  <2> QED BY <2>1
<1>9. x2 # 0 <=> \E x \in Replicas : \E h \in M : queued(x, h)
  <2>1. x2 # 0 <=> \E x \in Replicas : \E i \in DOMAIN Q[x] : Q[x][i] \in M
    BY <1>1, <1>4, AcrossSome
  <2> QED BY <1>7, <2>1
<1>10. x3 # 0 <=> \E x \in Replicas : \E h \in M : h \in rp[x].serving
  <2>1. x3 # 0 <=> \E x \in Replicas : \E h \in S[x] : h \in M
    BY <1>1, <1>4, WithinSome
  <2> QED BY <1>7, <2>1
<1>11. x4 # 0 <=> \E x \in C : \E h \in U : mailed(x, h)
  <2>1. x4 # 0 <=> \E x \in C : \E i \in DOMAIN bx[x] : bx[x][i] \in U
    BY <1>1, <1>6, AcrossSome
  <2> QED BY <2>1
<1>12. x5 # 0 <=> \E x \in C : \E h \in U : queued(x, h)
  <2>1. x5 # 0 <=> \E x \in C : \E i \in DOMAIN Q[x] : Q[x][i] \in U
    BY <1>1, <1>5, AcrossSome
  <2> QED BY <1>1, <1>7, <2>1
<1>13. \A x \in Replicas : \A h \in U : h \notin rp[x].serving
  <2> TAKE x \in Replicas
  <2>1. rp[x] \in State(p, x)  BY ReplicaTyped
  <2>2. \A h \in rp[x].serving : h.kind = "upstream"  BY <2>1, ServingIs
  <2> QED BY <2>2 DEF U, Unpaid
<1> HIDE DEF x1, x2, x3, x4, x5, queued, mailed
<1>14. Holding(p, rp, bx, b, s, a) # 0 <=> x1 # 0 \/ x2 # 0 \/ x3 # 0 \/ x4 # 0 \/ x5 # 0
  BY <1>2, <1>3
<1>15. \A x, h : HeldAt(rp, bx, x, h) <=> mailed(x, h) \/ (x \in Replicas /\ (h \in rp[x].serving \/ queued(x, h)))
  BY DEF HeldAt, mailed, queued
<1>16. \A x, h : OpenAt(p, x, h, b, s, a) <=> h \in M \/ (x \in C /\ h \in U)
  BY DEF OpenAt, M, U, C
<1> QED BY <1>1, <1>8, <1>9, <1>10, <1>11, <1>12, <1>13, <1>14, <1>15, <1>16

(* What is held is one of the run's hops, or has no call open. *)
LEMMA HeldHops ==
  ASSUME NEW p, NEW rp, ReplicasTyped(p, rp), NEW bx, Boxes(p, bx), NEW x \in Places, NEW h,
         HeldAt(rp, bx, x, h), h.kind \in Hops
  PROVE  h \in Hop
<1>1. CASE \E i \in DOMAIN bx[x] : bx[x][i] = h
  <2>1. /\ \A r \in Replicas : bx[r] \in Seq(Hop \cup PullIntent)
        /\ \A b \in Balancers : bx[b] \in Seq(Hop \cup Pull \cup Release)
        /\ bx[Sink] \in Seq([kind : {"completed"}, req : Requests])
    BY BoxTypes
  <2>2. x \in Replicas => h \in Hop \cup PullIntent  BY <1>1, <2>1
  <2>3. x \in Balancers => h \in Hop \cup Pull \cup Release  BY <1>1, <2>1
  <2>4. x = Sink => h.kind = "completed"
    <3> DEFINE T == [kind : {"completed"}, req : Requests]
    <3>1. \A m \in T : m.kind = "completed"  OBVIOUS
    <3>2. bx[Sink] \in Seq(T)  BY <2>1
    <3> HIDE DEF T
    <3> QED BY <1>1, <3>1, <3>2
  <2> QED BY <2>2, <2>3, <2>4 DEF Places, Hops, PullIntent, Pull, Release
<1>2. CASE x \in Replicas /\ (h \in rp[x].serving \/ \E i \in DOMAIN rp[x].queue : rp[x].queue[i] = h)
  <2>1. rp[x].queue \in Seq(Hop) /\ rp[x].serving \subseteq Hop
    BY <1>2, ReplicaRests, ReplicaTypes
  <2> QED BY <1>2, <2>1
<1> QED BY <1>1, <1>2 DEF HeldAt

(* The calls that InflightExact counts *)
LEMMA OpenIsHeld ==
  ASSUME Basics, policy \in PushPolicies, NEW b, NEW s
  PROVE  UNION {{<<l.msg.req, n>> : n \in OpenCalls(l, CallersAt(b), s)} : l \in Located}
           = NonZero(HoldsOpen(policy, replica, inbox, b, s), Keys)
<1> DEFINE open == UNION {{<<l.msg.req, n>> : n \in OpenCalls(l, CallersAt(b), s)} : l \in Located}
           held == NonZero(HoldsOpen(policy, replica, inbox, b, s), Keys)
           C == Callers(policy, b)
<1>1. ReplicasTyped(policy, replica) /\ Boxes(policy, inbox)  BY BasicsAre
<1>2. CallersAt(b) = C  BY DEF CallersAt, Callers
<1>3. \A a : a \in held <=> a \in Keys /\ \E x \in Places : \E h :
                                HeldAt(replica, inbox, x, h) /\ OpenAt(policy, x, h, b, s, a)
  <2>1. \A a : a \in held <=> a \in Keys /\ Holding(policy, replica, inbox, b, s, a) # 0
    BY DEF NonZero, HoldsOpen
  <2> QED BY <1>1, <2>1, HoldingSome
<1>4. \A a : a \in open <=> \E l \in Located : \E n \in OpenCalls(l, C, s) : a = <<l.msg.req, n>>
  BY <1>2
<1> HIDE DEF open, held, C
<1>5. ASSUME NEW a \in open
      PROVE  a \in held
  <2>1. PICK l \in Located : \E n \in OpenCalls(l, C, s) : a = <<l.msg.req, n>>
    BY <1>4
  <2>2. PICK n \in OpenCalls(l, C, s) : a = <<l.msg.req, n>>  BY <2>1
  <2>3. PICK x \in Places : \E h : /\ l = [to |-> x, msg |-> h] /\ h.kind \in Hops
                                   /\ HeldAt(replica, inbox, x, h)
    BY LocatedAt
  <2>4. PICK h : l = [to |-> x, msg |-> h] /\ h.kind \in Hops /\ HeldAt(replica, inbox, x, h)
    BY <2>3
  <2>5. h \in Hop /\ h.req \in Requests  BY <1>1, <2>4, HeldHops DEF Hop
  <2>6. l.msg = h  BY <2>4
  <2>7. n \in Nat /\ OpenAt(policy, x, h, b, s, <<h.req, n>>)
    BY <2>2, <2>4, <2>5, OpenCallsAre DEF C
  <2>8. a = <<h.req, n>> /\ a \in Keys  BY <2>2, <2>5, <2>6, <2>7 DEF Keys
  <2> QED BY <1>3, <2>4, <2>7, <2>8
<1>6. ASSUME NEW a \in held
      PROVE  a \in open
  <2>1. a \in Keys  BY <1>3
  <2>2. PICK x \in Places : \E h : HeldAt(replica, inbox, x, h) /\ OpenAt(policy, x, h, b, s, a)
    BY <1>3
  <2>3. PICK h : HeldAt(replica, inbox, x, h) /\ OpenAt(policy, x, h, b, s, a)
    BY <2>2
  <2>4. h \in Hop /\ h.req = a[1]  BY <2>3 DEF OpenAt, Marked, Unpaid
  <2>5. h.kind \in Hops  BY <2>4 DEF Hop, Hops
  <2> DEFINE l == [to |-> x, msg |-> h]
             n == a[2]
  <2>6. l \in Located /\ l.msg.req = a[1]  BY <2>3, <2>4, <2>5, LocatedAt
  <2>7. a = <<h.req, n>> /\ n \in Nat  BY <2>1, <2>4 DEF Keys
  <2>8. n \in OpenCalls(l, C, s)  BY <2>3, <2>4, <2>7, OpenCallsAre DEF C
  <2> HIDE DEF l, n
  <2> QED BY <1>4, <2>4, <2>6, <2>7, <2>8
<1>7. \A a : a \in open <=> a \in held  BY <1>5, <1>6
<1>8. open = held  BY <1>7
<1> QED BY <1>8 DEF open, held

(* A balancer's mail: the releases for server s *)
LEMMA FreerMail ==
  ASSUME NEW p, NEW b \in Balancers, NEW m \in Mail(p, b), NEW s
  PROVE  m \in Freer(s) <=> m.kind = "release" /\ m.server = s
<1>1. m \in Calls(p, b) \cup Pulls(p, b) \cup Releases(p, b)  BY MailIs
<1>2. CASE m \in Releases(p, b)  BY <1>2 DEF Releases, Release, Freer
<1>3. CASE m \in Pulls(p, b)  BY <1>3 DEF Pulls, Pull, Freer
<1>4. CASE m \in Calls(p, b)  BY <1>4 DEF Calls, Freer
<1> QED BY <1>1, <1>2, <1>3, <1>4

LEMMA OwesAre ==
  ASSUME Basics, NEW b \in Balancers, NEW s
  PROVE  CountIn([d \in {b} |-> inbox[d]], LAMBDA x : x.kind = "release" /\ x.server = s)
           = Across(inbox, {b}, Freer(s))
<1> DEFINE owes(x) == x.kind = "release" /\ x.server = s
           f == [d \in {b} |-> inbox[d]]
<1>1. Boxes(policy, inbox)  BY BasicsAre
<1>2. DOMAIN f = {b}  OBVIOUS
<1>3. ASSUME NEW x \in {b}
      PROVE  {<<x, i>> : i \in {j \in DOMAIN f[x] : owes(f[x][j])}} = Matches(inbox, x, Freer(s))
  <2>1. x \in Balancers /\ f[x] = inbox[x]  OBVIOUS
  <2>2. inbox[x] \in Seq(Mail(policy, x))  BY <1>1, <2>1 DEF Boxes, Places
  <2>3. \A j \in DOMAIN inbox[x] : inbox[x][j] \in Mail(policy, x)  BY <2>2
  <2>4. \A j \in DOMAIN inbox[x] : owes(inbox[x][j]) <=> inbox[x][j] \in Freer(s)
    BY <2>1, <2>3, FreerMail
  <2> QED BY <2>1, <2>4 DEF Matches
<1> HIDE DEF f
<1>4. Positions(f, owes) = UNION {Matches(inbox, x, Freer(s)) : x \in {b}}
  BY <1>2, <1>3 DEF Positions
<1>5. CountIn(f, owes) = Across(inbox, {b}, Freer(s))
  BY <1>4 DEF CountIn, Across
<1> QED BY <1>5 DEF f

LEMMA LoadsSay == Basics /\ Loads => InflightExact
<1> SUFFICES ASSUME Basics, Loads, policy \in PushPolicies, NEW b \in InUse, NEW s \in ServersOf[b]
             PROVE  LET open    == UNION {{<<l.msg.req, n>> : n \in OpenCalls(l, CallersAt(b), s)} : l \in Located}
                        owes(x) == x.kind = "release" /\ x.server = s
                    IN balancer[b].inflight[s] = Cardinality(open) + CountIn([d \in {b} |-> inbox[d]], owes)
  BY DEF InflightExact
<1> DEFINE open == UNION {{<<l.msg.req, n>> : n \in OpenCalls(l, CallersAt(b), s)} : l \in Located}
           owes(x) == x.kind = "release" /\ x.server = s
<1>1. b \in Balancers
  <2>1. policy \in Policies  BY BasicsAre
  <2> QED BY <2>1, UsedAre DEF InUse
<1>2. open = NonZero(HoldsOpen(policy, replica, inbox, b, s), Keys)
  BY OpenIsHeld
<1>3. CountIn([d \in {b} |-> inbox[d]], owes) = Across(inbox, {b}, Freer(s))
  BY <1>1, OwesAre
<1>4. balancer[b].inflight[s] = Cardinality(NonZero(HoldsOpen(policy, replica, inbox, b, s), Keys))
                                  + Across(inbox, {b}, Freer(s))
  BY <1>1 DEF Loads, Loaded
<1> HIDE DEF open
<1>5. balancer[b].inflight[s] = Cardinality(open) + CountIn([d \in {b} |-> inbox[d]], owes)
  BY <1>2, <1>3, <1>4
<1> QED BY <1>5 DEF open

(***************************************************************************)
(* Under push policies the load that a balancer compares for a server is   *)
(* exact: it counts each call it dispatched there, from its dispatch until *)
(* its caller has handled the return, once for every depth at which a path *)
(* comes back to the server, and the releases that are on their way.       *)
(***************************************************************************)
THEOREM LoadsAreOpenCalls == Spec => []InflightExact
<1>1. Spec => [](Basics /\ Loads)  BY LoadsInvariant
<1>2. Basics /\ Loads => InflightExact  BY LoadsSay
<1> QED BY <1>1, <1>2, PTL
=============================================================================
