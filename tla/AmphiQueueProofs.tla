-------------------------- MODULE AmphiQueueProofs --------------------------
(***************************************************************************)
(* Proofs about the pull-intent protocol for every number of balancers,    *)
(* servers, slots and tasks, with bound and unbound pulls, and about the   *)
(* audit that follows it (the last part).                                  *)
(***************************************************************************)
EXTENDS LbPullAudit, QueueLemmas, FiniteSetTheorems

-----------------------------------------------------------------------------
(* The inductive invariant *)

(* Tasks of l that are queued, on the way to a server, in service, finished. *)
Queued(l)  == Elements(queue[l])
Kept(s)    == Elements(pull_intent_queue[s])
Asking     == {m \in network : m.type \in {"intent", "pull"}}
Travelling == {m \in network : m.type = "task"}

(* Ids name tasks that have arrived. *)
IdsKnown ==
  /\ \A l \in LBs : \A id \in Queued(l) : id < next_task_id[l]
  /\ \A m \in network : m.id < next_task_id[m.lb]
  /\ \A s \in Servers : \A p \in Kept(s) : p[2] < next_task_id[p[1]]
  /\ \A s \in Servers : \A t \in serving[s] : t[2] < next_task_id[t[1]]

(* A task has at most one unanswered intent: sent, kept or turned into a pull. *)
OneIntent ==
  /\ \A m, n \in Asking : m.lb = n.lb /\ m.id = n.id => m = n
  /\ \A m \in Asking, s \in Servers : <<m.lb, m.id>> \notin Kept(s)
  /\ \A s \in Servers : NoDuplicates(pull_intent_queue[s])
  /\ \A s1, s2 \in Servers : s1 # s2 => Kept(s1) \cap Kept(s2) = {}

(* A task is in at most one place: queued, travelling or in service. *)
OnePlace ==
  /\ \A l \in LBs : NoDuplicates(queue[l])
  /\ \A m, n \in Travelling : m.lb = n.lb /\ m.id = n.id => m = n
  /\ \A m \in Travelling : m.id \notin Queued(m.lb)
  /\ \A s \in Servers : \A t \in serving[s] : t[2] \notin Queued(t[1])
  /\ \A m \in Travelling, s \in Servers : <<m.lb, m.id>> \notin serving[s]
  /\ \A s1, s2 \in Servers : s1 # s2 => serving[s1] \cap serving[s2] = {}

Finite ==
  /\ IsFiniteSet(network)
  /\ \A s \in Servers : IsFiniteSet(serving[s])

(* The ids of l's unanswered intents. *)
Announced(l) ==
  {m.id : m \in {n \in Asking : n.lb = l}}
    \cup {p[2] : p \in {q \in UNION {Kept(s) : s \in Servers} : q[1] = l}}

(* There are as many unanswered intents as queued tasks. *)
AnnouncedQueued ==
  \A l \in LBs :
    /\ Cardinality(Announced(l)) = Cardinality(Queued(l))
    /\ bound => Announced(l) = Queued(l)

PlacesInv ==
  /\ TypeOK
  /\ Finite
  /\ IdsKnown
  /\ OneIntent
  /\ OnePlace
  /\ CapacityRespected
  /\ AnnouncedQueued
  /\ NoPullAbort

-----------------------------------------------------------------------------
(* Facts about one state *)

(* The members of the sets above have the types of the queues. *)
LEMMA Members ==
  ASSUME TypeOK
  PROVE  /\ \A l \in LBs : Queued(l) \subseteq Nat
         /\ \A s \in Servers : Kept(s) \subseteq Task
         /\ \A s \in Servers : serving[s] \subseteq Task
         /\ \A t \in Task : t[1] \in LBs /\ t[2] \in Nat /\ t = <<t[1], t[2]>>
         /\ \A m \in network : m.lb \in LBs /\ m.server \in Servers /\ m.id \in Nat
         /\ \A l \in LBs : next_task_id[l] \in Nat
<1>1. ASSUME NEW S, NEW q \in Seq(S) PROVE Elements(q) \subseteq S
  BY DEF Elements
<1>2. \A t \in Task : t[1] \in LBs /\ t[2] \in Nat /\ t = <<t[1], t[2]>>
  BY DEF Task
<1>3. \A m \in network : m.lb \in LBs /\ m.server \in Servers /\ m.id \in Nat
  BY DEF TypeOK, Message
<1>4. \A l \in LBs : Queued(l) \subseteq Nat
  BY <1>1 DEF TypeOK, Queued
<1>5. \A s \in Servers : Kept(s) \subseteq Task
  BY <1>1 DEF TypeOK, Kept
<1> QED
  BY <1>2, <1>3, <1>4, <1>5 DEF TypeOK

(* Ids of arrived tasks are bounded, so the sets that count them are finite. *)
LEMMA CountsFinite ==
  ASSUME TypeOK, IdsKnown, NEW l \in LBs
  PROVE  /\ IsFiniteSet(Queued(l)) /\ IsFiniteSet(Announced(l))
         /\ next_task_id[l] \notin Queued(l)
         /\ next_task_id[l] \notin Announced(l)
<1>1. next_task_id[l] \in Nat
  BY DEF TypeOK
<1>2. \A id \in Queued(l) : id \in Nat /\ id < next_task_id[l]
  BY DEF TypeOK, IdsKnown, Queued, Elements
<1>3. \A id \in Announced(l) : id \in Nat /\ id < next_task_id[l]
  <2> SUFFICES ASSUME NEW id \in Announced(l)
               PROVE  id \in Nat /\ id < next_task_id[l]
    OBVIOUS
  <2>1. CASE \E m \in Asking : m.lb = l /\ m.id = id
    BY <2>1 DEF TypeOK, IdsKnown, Asking, Message
  <2>2. CASE \E s \in Servers : \E p \in Kept(s) : p[1] = l /\ p[2] = id
    BY <2>2, Members DEF IdsKnown
  <2> QED
    BY <2>1, <2>2 DEF Announced
<1>4. IsFiniteSet(0 .. next_task_id[l] - 1)
  BY <1>1, FS_Interval
<1>5. /\ Queued(l) \subseteq 0 .. next_task_id[l] - 1
      /\ Announced(l) \subseteq 0 .. next_task_id[l] - 1
  BY <1>1, <1>2, <1>3
<1> QED
  BY <1>1, <1>2, <1>3, <1>4, <1>5, FS_Subset

(* Init establishes the invariant. *)
LEMMA InitPlaces == Init => PlacesInv
<1> SUFFICES ASSUME Init PROVE PlacesInv
  OBVIOUS
<1> USE DEF Init
<1>1. TypeOK
  BY AmphiQueueAssumption DEF TypeOK, Message
<1>2. /\ \A l \in LBs : Queued(l) = {} /\ Announced(l) = {}
      /\ \A s \in Servers : Kept(s) = {} /\ Claims(s) = {}
  BY DEF Queued, Kept, Elements, Announced, Asking, Claims
<1>3. Finite
  BY FS_EmptySet DEF Finite
<1>4. IdsKnown /\ OneIntent /\ OnePlace /\ NoPullAbort
  BY <1>2 DEF IdsKnown, OneIntent, OnePlace, Asking, Travelling, NoPullAbort, NoDuplicates
<1>5. CapacityRespected
  <2> SUFFICES ASSUME NEW s \in Servers
               PROVE  /\ in_flight[s] = 0 /\ Cardinality(serving[s]) = 0
                      /\ pending_pulls[s] = 0 /\ Cardinality(Claims(s)) = 0
                      /\ 0 <= MaxConcurrency
    BY DEF CapacityRespected
  <2>1. 0 <= MaxConcurrency
    BY AmphiQueueAssumption
  <2>2. serving[s] = {} /\ Claims(s) = {} /\ in_flight[s] = 0 /\ pending_pulls[s] = 0
    BY <1>2
  <2> QED
    BY <2>1, <2>2, FS_EmptySet
<1>6. AnnouncedQueued
  BY <1>2 DEF AnnouncedQueued
<1> QED
  BY <1>1, <1>3, <1>4, <1>5, <1>6 DEF PlacesInv

-----------------------------------------------------------------------------
(* One lemma per action *)

LEMMA InputPlaces ==
  ASSUME PlacesInv, NEW l \in LBs, Input(l)
  PROVE  PlacesInv'
<1>0. bound' = bound
  BY DEF Input
<1> USE <1>0
<1> USE DEF PlacesInv
<1> DEFINE id == next_task_id[l]
<1>1. PICK s \in Subset[l] :
        /\ network' = network \cup {PullIntent(l, s, id)}
        /\ pull_intent_load' = [pull_intent_load EXCEPT ![l][s] = @ + 1]
  BY DEF Input
<1>2. s \in Servers /\ id \in Nat
  BY AmphiQueueAssumption DEF TypeOK
<1>3. TypeOK'
  <2>1. network' \subseteq Message
    BY <1>1, <1>2 DEF TypeOK, PullIntent, Message
  <2>2. next_task_id' \in [LBs -> Nat] /\ queue' \in [LBs -> Seq(Nat)]
    BY <1>2 DEF TypeOK, Input
  <2>3. pull_intent_load' \in [LBs -> [Servers -> Nat]]
    BY <1>1, <1>2 DEF TypeOK
  <2> QED
    BY <2>1, <2>2, <2>3 DEF TypeOK, Input, serverVars
<1>4. Finite'
  BY <1>1, FS_AddElement DEF Finite, Input, serverVars
<1>5. /\ Queued(l)' = Queued(l) \cup {id} /\ NoDuplicates(queue[l])'
      /\ \A k \in LBs \ {l} : queue'[k] = queue[k]
  <2>1. queue[l] \in Seq(Nat) /\ queue'[l] = Append(queue[l], id)
    BY DEF TypeOK, Input
  <2>2. id \notin Elements(queue[l]) /\ NoDuplicates(queue[l])
    BY CountsFinite DEF Queued, OnePlace
  <2>3. \A k \in LBs \ {l} : queue'[k] = queue[k]
    BY DEF TypeOK, Input
  <2> HIDE DEF id
  <2> QED
    BY <1>2, <2>1, <2>2, <2>3, PushBack, PushBackNew DEF Queued
<1>6. \A k \in LBs : /\ next_task_id[k] \in Nat /\ next_task_id'[k] \in Nat
                     /\ next_task_id[k] <= next_task_id'[k]
  BY DEF TypeOK, Input
<1>7. IdsKnown'
  <2>1. next_task_id'[l] = id + 1
    BY DEF TypeOK, Input
  <2>2. \A k \in LBs : \A n \in Queued(k)' : n < next_task_id'[k]
    BY <1>2, <1>5, <1>6, <2>1, Members DEF IdsKnown, Queued
  <2>3. \A m \in network' : m.id < next_task_id'[m.lb]
    BY <1>1, <1>2, <1>6, <2>1, Members DEF IdsKnown, PullIntent
  <2>4. \A r \in Servers : \A p \in Kept(r) : p[2] < next_task_id'[p[1]]
    BY <1>6, Members DEF IdsKnown
  <2>5. \A r \in Servers : \A t \in serving[r] : t[2] < next_task_id'[t[1]]
    BY <1>6, Members DEF IdsKnown
  <2> QED
    BY <2>2, <2>3, <2>4, <2>5 DEF IdsKnown, Kept, Input, serverVars
<1>8. /\ Asking' = Asking \cup {PullIntent(l, s, id)}
      /\ Travelling' = Travelling
      /\ \A r \in Servers : Claims(r)' = Claims(r) /\ Kept(r)' = Kept(r)
  BY <1>1 DEF Asking, Travelling, Claims, Kept, Input, PullIntent, serverVars
<1>9. OneIntent'
  <2>1. \A m \in Asking : m.lb = l => m.id # id
    BY <1>2, Members DEF IdsKnown, Asking
  <2>2. \A r \in Servers : <<l, id>> \notin Kept(r)
    BY <1>2 DEF IdsKnown
  <2> QED
    BY <1>8, <2>1, <2>2 DEF OneIntent, PullIntent, Input, serverVars
<1>10. OnePlace'
  <2>1. \A m \in Travelling : m.lb = l => m.id # id
    BY <1>2, Members DEF IdsKnown, Travelling
  <2>2. \A r \in Servers : \A t \in serving[r] : t[1] = l => t[2] # id
    BY <1>2, Members DEF IdsKnown
  <2>3. serving' = serving
    BY DEF Input, serverVars
  <2>4. \A k \in LBs : NoDuplicates(queue[k])'
    BY <1>5 DEF OnePlace
  <2>5. \A k \in LBs : Queued(k)' = IF k = l THEN Queued(k) \cup {id} ELSE Queued(k)
    BY <1>5 DEF Queued
  <2>6. \A m \in Travelling : m.id \notin Queued(m.lb)'
    BY <2>1, <2>5, Members DEF OnePlace, Travelling
  <2>7. \A r \in Servers : \A t \in serving[r] : t[2] \notin Queued(t[1])'
    BY <2>2, <2>5, Members DEF OnePlace
  <2> QED
    BY <1>8, <2>3, <2>4, <2>6, <2>7 DEF OnePlace
<1>11. CapacityRespected'
  BY <1>8 DEF CapacityRespected, Input, serverVars
<1>12. AnnouncedQueued'
  <2>1. Announced(l)' = Announced(l) \cup {id}
    <3>1. {n \in Asking' : n.lb = l}
            = {n \in Asking : n.lb = l} \cup {PullIntent(l, s, id)}
      BY <1>8 DEF PullIntent
    <3>2. PullIntent(l, s, id).id = id
      BY DEF PullIntent
    <3> HIDE DEF id
    <3> QED
      BY <1>8, <3>1, <3>2 DEF Announced
  <2>2. \A k \in LBs \ {l} : Announced(k)' = Announced(k) /\ Queued(k)' = Queued(k)
    <3>1. \A k \in LBs \ {l} : {n \in Asking' : n.lb = k} = {n \in Asking : n.lb = k}
      BY <1>8 DEF PullIntent
    <3> QED
      BY <1>5, <1>8, <3>1 DEF Announced, Queued
  <2>3. /\ Cardinality(Announced(l)') = Cardinality(Announced(l)) + 1
        /\ Cardinality(Queued(l)') = Cardinality(Queued(l)) + 1
    BY <1>5, <2>1, CountsFinite, FS_AddElement
  <2> QED
    BY <1>5, <2>1, <2>2, <2>3 DEF AnnouncedQueued
<1>13. NoPullAbort'
  BY DEF NoPullAbort, Input
<1> QED
  BY <1>3, <1>4, <1>7, <1>9, <1>10, <1>11, <1>12, <1>13

(* The server's two counters bound finite sets. *)
LEMMA ClaimsFinite ==
  ASSUME Finite, NEW s \in Servers
  PROVE  IsFiniteSet(Claims(s))
BY FS_Subset DEF Finite, Claims

(* A pull always finds a task: its id is announced, so something is queued. *)
LEMMA PullFinds ==
  ASSUME PlacesInv, NEW m \in network, m.type = "pull"
  PROVE  PullPositions(m.lb, m.id) # {}
<1> USE DEF PlacesInv
<1> DEFINE l == m.lb
<1>1. l \in LBs /\ m.id \in Announced(l)
  BY Members DEF Announced, Asking
<1>2. queue[l] \in Seq(Nat)
  BY <1>1 DEF TypeOK
<1>3. CASE bound
  <2>1. m.id \in Queued(l)
    BY <1>1, <1>3 DEF AnnouncedQueued
  <2> QED
    BY <1>3, <2>1 DEF PullPositions, Queued, Elements
<1>4. CASE ~bound
  <2>1. Cardinality(Announced(l)) # 0
    BY <1>1, CountsFinite, FS_EmptySet
  <2>2. Queued(l) # {}
    BY <1>1, <2>1, FS_EmptySet DEF AnnouncedQueued
  <2>3. 1 \in DOMAIN queue[l]
    BY <1>2, <2>2, PopFront DEF Queued, Elements
  <2> QED
    BY <1>4, <2>3 DEF PullPositions
<1> QED
  BY <1>3, <1>4

LEMMA PullPlaces ==
  ASSUME PlacesInv, NEW m \in network, Pull(m)
  PROVE  PlacesInv'
<1>0. bound' = bound
  BY DEF Pull
<1> USE <1>0
<1> USE DEF PlacesInv
<1> DEFINE l == m.lb
           s == m.server
<1>1. PICK i \in PullPositions(l, m.id) :
        /\ queue' = [queue EXCEPT ![l] = RemoveAt(@, i)]
        /\ pull_intent_load' = [pull_intent_load EXCEPT ![l][s] = SaturatingDec(@)]
        /\ local_inflight' = [local_inflight EXCEPT ![l][s] = @ + 1]
        /\ network' = (network \ {m}) \cup {TaskMessage(l, s, queue[l][i])}
        /\ status' = status
  BY PullFinds DEF Pull
<1> DEFINE e  == queue[l][i]
           tm == TaskMessage(l, s, e)
<1>2. /\ m.type = "pull" /\ m \in Asking
      /\ UNCHANGED <<next_task_id, pull_intent_queue, pending_pulls, in_flight,
                     serving, finished>>
  BY DEF Pull, serverVars, Asking
<1>3. /\ l \in LBs /\ s \in Servers /\ m.id \in Nat
      /\ i \in DOMAIN queue[l] /\ queue[l] \in Seq(Nat)
      /\ bound => e = m.id
  BY Members DEF PullPositions, TypeOK
<1>4. e \in Queued(l) /\ e \in Nat
  BY <1>3, Members DEF Queued, Elements
<1>5. /\ queue'[l] \in Seq(Nat) /\ NoDuplicates(queue[l])'
      /\ Queued(l)' = Queued(l) \ {e}
      /\ \A k \in LBs \ {l} : queue'[k] = queue[k] /\ Queued(k)' = Queued(k)
  <2>1. queue'[l] = RemoveAt(queue[l], i) /\ \A k \in LBs \ {l} : queue'[k] = queue[k]
    BY <1>1, <1>3 DEF TypeOK
  <2>2. NoDuplicates(queue[l])
    BY <1>3 DEF OnePlace
  <2> QED
    BY <1>3, <2>1, <2>2, RemoveAtProperties, RemoveAtElements DEF Queued
<1>6. tm.type = "task" /\ tm.lb = l /\ tm.server = s /\ tm.id = e
  BY DEF TaskMessage
<1>7. tm \notin network /\ tm # m
  BY <1>2, <1>4, <1>6 DEF OnePlace, Travelling
<1>8. network' = (network \ {m}) \cup {tm}
  BY <1>1
<1>9. tm \in Message
  BY <1>3, <1>4 DEF TaskMessage, Message
<1> HIDE DEF l, s, e, tm
<1>10. /\ Asking' = Asking \ {m}
       /\ Travelling' = Travelling \cup {tm}
       /\ \A r \in Servers : Kept(r)' = Kept(r)
  BY <1>2, <1>6, <1>8 DEF Asking, Travelling, Kept
<1>11. TypeOK'
  <2>1. network' \subseteq Message
    BY <1>8, <1>9 DEF TypeOK
  <2>2. queue' \in [LBs -> Seq(Nat)]
    BY <1>1, <1>3, <1>5 DEF TypeOK
  <2>3. /\ pull_intent_load' \in [LBs -> [Servers -> Nat]]
        /\ local_inflight' \in [LBs -> [Servers -> Nat]]
    BY <1>1, <1>3 DEF TypeOK, SaturatingDec
  <2> QED
    BY <1>1, <1>2, <2>1, <2>2, <2>3 DEF TypeOK
<1>12. Finite'
  BY <1>2, <1>8, FS_AddElement, FS_RemoveElement DEF Finite
<1>13. IdsKnown'
  <2>1. \A k \in LBs : \A n \in Queued(k)' : n < next_task_id'[k]
    BY <1>2, <1>5 DEF IdsKnown
  <2>2. \A n \in network' : n.id < next_task_id'[n.lb]
    BY <1>2, <1>3, <1>4, <1>6, <1>8 DEF IdsKnown
  <2> QED
    BY <1>2, <1>10, <2>1, <2>2 DEF IdsKnown
<1>14. OneIntent'
  BY <1>2, <1>10 DEF OneIntent
<1>15. OnePlace'
  <2>1. \A k \in LBs : Queued(k)' \subseteq Queued(k) /\ NoDuplicates(queue[k])'
    BY <1>5 DEF OnePlace
  <2>2. \A n \in Travelling : ~(n.lb = tm.lb /\ n.id = tm.id)
    BY <1>4, <1>6 DEF OnePlace
  <2>3. \A n \in Travelling' : n.id \notin Queued(n.lb)'
    BY <1>3, <1>5, <1>6, <1>10, <2>1, Members DEF OnePlace, Travelling
  <2>4. \A r \in Servers : <<l, e>> \notin serving[r]
    BY <1>4 DEF OnePlace
  <2>5. \A r \in Servers : \A t \in serving[r] : t[2] \notin Queued(t[1])'
    BY <2>1, Members DEF OnePlace
  <2> QED
    BY <1>2, <1>6, <1>10, <2>1, <2>2, <2>3, <2>4, <2>5 DEF OnePlace
<1>16. CapacityRespected'
  <2>1. Claims(s)' = (Claims(s) \ {m}) \cup {tm} /\ m \in Claims(s) /\ tm \notin Claims(s)
    BY <1>2, <1>6, <1>7, <1>8 DEF Claims, s
  <2>2. \A r \in Servers \ {s} : Claims(r)' = Claims(r)
    BY <1>6, <1>8 DEF Claims, s
  <2>3. Cardinality(Claims(s)') = Cardinality(Claims(s))
    <3>1. IsFiniteSet(Claims(s)) /\ Cardinality(Claims(s)) \in Nat
      BY <1>3, ClaimsFinite, FS_CardinalityType
    <3>2. /\ IsFiniteSet(Claims(s) \ {m})
          /\ Cardinality(Claims(s) \ {m}) = Cardinality(Claims(s)) - 1
      BY <2>1, <3>1, FS_RemoveElement
    <3>3. Cardinality(Claims(s)') = Cardinality(Claims(s) \ {m}) + 1
      BY <2>1, <3>2, FS_AddElement
    <3> QED
      BY <3>1, <3>2, <3>3
  <2>4. \A r \in Servers : Cardinality(Claims(r)') = Cardinality(Claims(r))
    BY <2>2, <2>3
  <2> QED
    BY <1>2, <2>4 DEF CapacityRespected
<1>17. AnnouncedQueued'
  <2>1. Announced(l)' = Announced(l) \ {m.id} /\ m.id \in Announced(l)
    <3>1. \A n \in Asking \ {m} : n.lb = l => n.id # m.id
      BY <1>2 DEF OneIntent, l
    <3>2. \A r \in Servers : \A p \in Kept(r) : p[1] = l => p[2] # m.id
      BY <1>2, Members DEF OneIntent, l
    <3> QED
      BY <1>2, <1>10, <3>1, <3>2 DEF Announced, l
  <2>2. \A k \in LBs \ {l} : Announced(k)' = Announced(k)
    BY <1>10 DEF Announced, l
  <2>3. /\ Cardinality(Announced(l)') = Cardinality(Announced(l)) - 1
        /\ Cardinality(Queued(l)') = Cardinality(Queued(l)) - 1
    <3>1. IsFiniteSet(Announced(l)) /\ IsFiniteSet(Queued(l))
      BY <1>3, CountsFinite
    <3>2. Cardinality(Announced(l)') = Cardinality(Announced(l)) - 1
      BY <2>1, <3>1, FS_RemoveElement
    <3>3. Cardinality(Queued(l)') = Cardinality(Queued(l)) - 1
      BY <1>4, <1>5, <3>1, FS_RemoveElement
    <3> QED
      BY <3>2, <3>3
  <2>4. \A k \in LBs : Cardinality(Announced(k)') = Cardinality(Queued(k)')
    BY <1>5, <2>2, <2>3 DEF AnnouncedQueued
  <2>5. bound => \A k \in LBs : Announced(k)' = Queued(k)'
    BY <1>3, <1>5, <2>1, <2>2 DEF AnnouncedQueued
  <2> QED
    BY <1>0, <2>4, <2>5 DEF AnnouncedQueued
<1>18. NoPullAbort'
  BY <1>1 DEF NoPullAbort
<1> QED
  BY <1>11, <1>12, <1>13, <1>14, <1>15, <1>16, <1>17, <1>18

LEMMA ReleasePlaces ==
  ASSUME PlacesInv, NEW m \in network, Release(m)
  PROVE  PlacesInv'
<1>0. bound' = bound
  BY DEF Release
<1> USE <1>0
<1> USE DEF PlacesInv
<1>1. /\ network' = network \ {m} /\ m.type = "release"
      /\ UNCHANGED <<next_task_id, queue, pull_intent_load, pull_intent_queue,
                     pending_pulls, in_flight, serving, finished, status>>
      /\ local_inflight' =
           [local_inflight EXCEPT ![m.lb][m.server] = SaturatingDec(@)]
  BY DEF Release, serverVars
<1>2. /\ Asking' = Asking /\ Travelling' = Travelling
      /\ \A l \in LBs : Queued(l)' = Queued(l)
      /\ \A s \in Servers : Kept(s)' = Kept(s) /\ Claims(s)' = Claims(s)
  BY <1>1 DEF Asking, Travelling, Queued, Kept, Claims
<1>3. TypeOK'
  <2>1. local_inflight \in [LBs -> [Servers -> Nat]]
    BY DEF TypeOK
  <2>2. \A n \in Nat : SaturatingDec(n) \in Nat
    BY DEF SaturatingDec
  <2>3. m.lb \in LBs /\ m.server \in Servers
    BY Members
  <2>4. local_inflight[m.lb] \in [Servers -> Nat]
    BY <2>1, <2>3
  <2>5. [local_inflight[m.lb] EXCEPT ![m.server] = SaturatingDec(@)]
          \in [Servers -> Nat]
    BY <2>2, <2>3, <2>4
  <2>6. local_inflight' \in [LBs -> [Servers -> Nat]]
    BY <1>1, <2>1, <2>3, <2>5
  <2> QED
    BY <1>1, <2>6 DEF TypeOK
<1>4. Finite'
  BY <1>1, FS_RemoveElement DEF Finite
<1>5. IdsKnown' /\ OneIntent' /\ NoPullAbort'
  BY <1>1, <1>2 DEF IdsKnown, OneIntent, NoPullAbort
<1>6. OnePlace'
  <2>1. \A l \in LBs : NoDuplicates(queue[l])'
    BY <1>1 DEF OnePlace
  <2>2. \A n \in Travelling : n.id \notin Queued(n.lb)'
    BY <1>2, Members DEF OnePlace, Travelling
  <2>3. \A s \in Servers : \A t \in serving[s] : t[2] \notin Queued(t[1])'
    BY <1>2, Members DEF OnePlace
  <2> QED
    BY <1>1, <1>2, <2>1, <2>2, <2>3 DEF OnePlace
<1>7. CapacityRespected'
  BY <1>1, <1>2 DEF CapacityRespected
<1>8. AnnouncedQueued'
  BY <1>2 DEF AnnouncedQueued, Announced
<1> QED
  BY <1>3, <1>4, <1>5, <1>6, <1>7, <1>8

LEMMA ServerInputPlaces ==
  ASSUME PlacesInv, NEW m \in network, ServerInput(m)
  PROVE  PlacesInv'
<1>0. bound' = bound
  BY DEF ServerInput
<1> USE <1>0
<1> USE DEF PlacesInv
<1> DEFINE s == m.server
           t == <<m.lb, m.id>>
<1>1. /\ m.type = "task" /\ network' = network \ {m}
      /\ pending_pulls' = [pending_pulls EXCEPT ![s] = SaturatingDec(@)]
      /\ in_flight' = [in_flight EXCEPT ![s] = @ + 1]
      /\ serving' = [serving EXCEPT ![s] = @ \cup {t}]
      /\ UNCHANGED <<next_task_id, queue, pull_intent_load, local_inflight,
                     pull_intent_queue, finished, status>>
  BY DEF ServerInput, lbVars
<1>2. /\ s \in Servers /\ m.lb \in LBs /\ m.id \in Nat
      /\ t \in Task /\ t[1] = m.lb /\ t[2] = m.id
  BY Members DEF Task
<1>3. m \in Travelling
  BY <1>1 DEF Travelling
<1>4. /\ \A r \in Servers : t \notin serving[r]
      /\ m.id \notin Queued(m.lb)
  BY <1>3 DEF OnePlace
<1>5. m.id < next_task_id[m.lb]
  BY DEF IdsKnown
<1> HIDE DEF s, t
<1>6. /\ Asking' = Asking /\ Travelling' = Travelling \ {m}
      /\ \A l \in LBs : Queued(l)' = Queued(l)
      /\ \A r \in Servers : Kept(r)' = Kept(r)
  BY <1>1 DEF Asking, Travelling, Queued, Kept
<1>7. /\ serving'[s] = serving[s] \cup {t}
      /\ \A r \in Servers \ {s} : serving'[r] = serving[r]
  BY <1>1, <1>2 DEF TypeOK
<1>8. TypeOK'
  <2>1. pending_pulls' \in [Servers -> Nat] /\ in_flight' \in [Servers -> Nat]
    BY <1>1, <1>2 DEF TypeOK, SaturatingDec
  <2>2. serving' \in [Servers -> SUBSET Task]
    BY <1>1, <1>2 DEF TypeOK
  <2> QED
    BY <1>1, <2>1, <2>2 DEF TypeOK
<1>9. Finite'
  BY <1>1, <1>7, FS_RemoveElement, FS_AddElement DEF Finite
<1>10. IdsKnown'
  BY <1>1, <1>2, <1>5, <1>6, <1>7 DEF IdsKnown
<1>11. OneIntent' /\ NoPullAbort'
  BY <1>1, <1>6 DEF OneIntent, NoPullAbort
<1>12. OnePlace'
  <2>1. \A l \in LBs : NoDuplicates(queue[l])'
    BY <1>1 DEF OnePlace
  <2>2. \A n \in Travelling : n.id \notin Queued(n.lb)'
    BY <1>6, Members DEF OnePlace, Travelling
  <2>3. \A r \in Servers : \A u \in serving'[r] : u[2] \notin Queued(u[1])'
    BY <1>2, <1>4, <1>6, <1>7, Members DEF OnePlace
  <2>4. \A n \in Travelling \ {m} : <<n.lb, n.id>> # t
    BY <1>2, <1>3 DEF OnePlace
  <2>5. \A n \in Travelling', r \in Servers : <<n.lb, n.id>> \notin serving'[r]
    BY <1>6, <1>7, <2>4 DEF OnePlace
  <2>6. \A r1, r2 \in Servers : r1 # r2 => serving'[r1] \cap serving'[r2] = {}
    BY <1>2, <1>4, <1>7 DEF OnePlace
  <2> QED
    BY <1>6, <2>1, <2>2, <2>3, <2>5, <2>6 DEF OnePlace
<1>13. CapacityRespected'
  <2>1. Claims(s)' = Claims(s) \ {m} /\ m \in Claims(s)
    BY <1>1 DEF Claims, s
  <2>2. \A r \in Servers \ {s} : Claims(r)' = Claims(r)
    BY <1>1 DEF Claims, s
  <2>3. /\ Cardinality(Claims(s)) \in Nat
        /\ Cardinality(Claims(s) \ {m}) \in Nat
        /\ Cardinality(Claims(s) \ {m}) = Cardinality(Claims(s)) - 1
    BY <1>2, <2>1, ClaimsFinite, FS_RemoveElement, FS_CardinalityType
  <2>4. Cardinality(serving'[s]) = Cardinality(serving[s]) + 1
    BY <1>2, <1>4, <1>7, FS_AddElement DEF Finite
  <2>5. /\ pending_pulls[s] \in Nat /\ in_flight[s] \in Nat
        /\ pending_pulls[s] = Cardinality(Claims(s))
        /\ in_flight[s] = Cardinality(serving[s])
        /\ in_flight[s] + pending_pulls[s] <= MaxConcurrency
    BY <1>2 DEF CapacityRespected, TypeOK
  <2>6. /\ pending_pulls'[s] = pending_pulls[s] - 1
        /\ in_flight'[s] = in_flight[s] + 1
        /\ \A r \in Servers \ {s} : /\ pending_pulls'[r] = pending_pulls[r]
                                    /\ in_flight'[r] = in_flight[r]
    BY <1>1, <1>2, <2>3, <2>5 DEF TypeOK, SaturatingDec
  <2>7. MaxConcurrency \in Nat
    BY AmphiQueueAssumption
  <2>8. /\ in_flight'[s] = Cardinality(serving'[s])
        /\ pending_pulls'[s] = Cardinality(Claims(s)')
        /\ in_flight'[s] + pending_pulls'[s] <= MaxConcurrency
    BY <2>1, <2>3, <2>4, <2>5, <2>6, <2>7
  <2> QED
    BY <1>7, <2>2, <2>6, <2>8 DEF CapacityRespected
<1>14. AnnouncedQueued'
  BY <1>6 DEF AnnouncedQueued, Announced
<1> QED
  BY <1>8, <1>9, <1>10, <1>11, <1>12, <1>13, <1>14

-----------------------------------------------------------------------------
(* No intent is answered. *)
DrainsNothing(s, intents, net) ==
  /\ Kept(s)' = Elements(intents)
  /\ network' = net
  /\ pending_pulls'[s] = pending_pulls[s]

(* Intent p becomes a pull. *)
Drains(s, intents, running, net, p) ==
  /\ Kept(s)' = Elements(intents) \ {p}
  /\ network' = net \cup {PullRequest(p[1], s, p[2])}
  /\ pending_pulls'[s] = pending_pulls[s] + 1
  /\ HasSpareCapacity(s, running)

(***************************************************************************)
(* What drain_pull_intents_async does with the intents and messages that   *)
(* the handler hands it: either nothing, or the head intent p becomes a    *)
(* pull of a server that had a free slot.                                  *)
(***************************************************************************)
LEMMA DrainCases ==
  ASSUME TypeOK, NEW s \in Servers, NEW intents \in Seq(Task), NoDuplicates(intents),
         NEW running, NEW net, DrainPullIntents(s, intents, running, net)
  PROVE  /\ pull_intent_queue' \in [Servers -> Seq(Task)]
         /\ pending_pulls' \in [Servers -> Nat]
         /\ NoDuplicates(pull_intent_queue[s])'
         /\ \A r \in Servers \ {s} : /\ pull_intent_queue'[r] = pull_intent_queue[r]
                                     /\ Kept(r)' = Kept(r)
                                     /\ pending_pulls'[r] = pending_pulls[r]
         /\ \/ DrainsNothing(s, intents, net)
            \/ \E p \in Elements(intents) : Drains(s, intents, running, net, p)
<1>1. CASE /\ HasSpareCapacity(s, running)
           /\ intents # <<>>
           /\ pull_intent_queue' = [pull_intent_queue EXCEPT ![s] = Tail(intents)]
           /\ pending_pulls' = [pending_pulls EXCEPT ![s] = @ + 1]
           /\ network' = net \cup {PullRequest(Head(intents)[1], s, Head(intents)[2])}
  <2>1. /\ Tail(intents) \in Seq(Task) /\ NoDuplicates(Tail(intents))
        /\ Elements(Tail(intents)) = Elements(intents) \ {Head(intents)}
        /\ Head(intents) \in Elements(intents)
    BY <1>1, PopFront, PopFrontNew
  <2> QED
    <3>1. pull_intent_queue' \in [Servers -> Seq(Task)]
          /\ pull_intent_queue'[s] = Tail(intents)
          /\ \A r \in Servers \ {s} : pull_intent_queue'[r] = pull_intent_queue[r]
      BY <1>1, <2>1 DEF TypeOK
    <3>2. pending_pulls' \in [Servers -> Nat]
          /\ pending_pulls'[s] = pending_pulls[s] + 1
          /\ \A r \in Servers \ {s} : pending_pulls'[r] = pending_pulls[r]
      BY <1>1 DEF TypeOK
    <3> QED
      BY <1>1, <2>1, <3>1, <3>2 DEF Kept, Drains
<1>2. CASE /\ pull_intent_queue' = [pull_intent_queue EXCEPT ![s] = intents]
           /\ network' = net
           /\ UNCHANGED pending_pulls
  BY <1>2 DEF TypeOK, Kept, DrainsNothing
<1> QED
  BY <1>1, <1>2 DEF DrainPullIntents

(* The part of `net` that asks for a task, and the claims of s in it. *)
AskingIn(net)    == {m \in net : m.type \in {"intent", "pull"}}
ClaimsIn(net, s) == {m \in net : m.server = s /\ m.type \in {"pull", "task"}}

(***************************************************************************)
(* Turning the head intent into a pull keeps every count: the pull is new, *)
(* it takes the place of the intent, and it is counted in pending_pulls.   *)
(***************************************************************************)
LEMMA DrainPlaces ==
  ASSUME PlacesInv, NEW s \in Servers, NEW intents \in Seq(Task), NoDuplicates(intents),
         NEW running \in Nat, NEW net \in SUBSET Message, IsFiniteSet(net),
         DrainPullIntents(s, intents, running, net),
         \A m, n \in AskingIn(net) : m.lb = n.lb /\ m.id = n.id => m = n,
         \A m \in AskingIn(net) : <<m.lb, m.id>> \notin Elements(intents),
         \A m \in AskingIn(net), r \in Servers \ {s} : <<m.lb, m.id>> \notin Kept(r),
         \A r \in Servers \ {s} : Elements(intents) \cap Kept(r) = {},
         running + pending_pulls[s] <= MaxConcurrency,
         \A r \in Servers : pending_pulls[r] = Cardinality(ClaimsIn(net, r))
  PROVE  /\ pull_intent_queue' \in [Servers -> Seq(Task)]
         /\ pending_pulls' \in [Servers -> Nat]
         /\ network' \subseteq Message /\ IsFiniteSet(network')
         /\ OneIntent'
         /\ Travelling' = {m \in net : m.type = "task"}
         /\ running + pending_pulls'[s] <= MaxConcurrency
         /\ \A r \in Servers \ {s} : pending_pulls'[r] = pending_pulls[r]
         /\ \A r \in Servers : pending_pulls'[r] = Cardinality(Claims(r)')
         /\ \A l \in LBs :
              Announced(l)' =
                {m.id : m \in {n \in AskingIn(net) : n.lb = l}}
                  \cup {p[2] : p \in {q \in Elements(intents)
                                       \cup UNION {Kept(r) : r \in Servers \ {s}} : q[1] = l}}
         /\ \A m \in network' : m \in net \/ \E p \in Elements(intents) :
                                                m.lb = p[1] /\ m.id = p[2]
         /\ Kept(s)' \subseteq Elements(intents)
         /\ \A r \in Servers \ {s} : Kept(r)' = Kept(r)
<1>1. TypeOK /\ MaxConcurrency \in Nat
  BY AmphiQueueAssumption DEF PlacesInv
<1>2. /\ pull_intent_queue' \in [Servers -> Seq(Task)]
      /\ pending_pulls' \in [Servers -> Nat]
      /\ NoDuplicates(pull_intent_queue[s])'
      /\ \A r \in Servers \ {s} : /\ pull_intent_queue'[r] = pull_intent_queue[r]
                                  /\ Kept(r)' = Kept(r)
                                  /\ pending_pulls'[r] = pending_pulls[r]
  BY <1>1, DrainCases
<1>3. \A r \in Servers : NoDuplicates(pull_intent_queue[r])'
  BY <1>2 DEF PlacesInv, OneIntent
<1>4. \A r1, r2 \in Servers \ {s} : r1 # r2 => Kept(r1)' \cap Kept(r2)' = {}
  BY <1>2 DEF PlacesInv, OneIntent
<1>5. Elements(intents) \subseteq Task
  BY DEF Elements
<1>6. CASE /\ Kept(s)' = Elements(intents)
           /\ network' = net
           /\ pending_pulls'[s] = pending_pulls[s]
  <2>1. /\ Asking' = AskingIn(net)
        /\ \A r \in Servers : Claims(r)' = ClaimsIn(net, r)
        /\ Travelling' = {m \in net : m.type = "task"}
    BY <1>6 DEF Asking, AskingIn, Claims, ClaimsIn, Travelling
  <2>2. OneIntent'
    BY <1>2, <1>3, <1>4, <1>6, <2>1 DEF OneIntent, Kept
  <2>3. UNION {Kept(r)' : r \in Servers}
          = Elements(intents) \cup UNION {Kept(r) : r \in Servers \ {s}}
    <3>1. \A r \in Servers \ {s} : Kept(r)' = Kept(r)
      BY <1>2
    <3> HIDE DEF Kept
    <3> QED
      BY <1>6, <3>1, Zenon
  <2>4. \A l \in LBs :
          Announced(l)' =
            {m.id : m \in {n \in AskingIn(net) : n.lb = l}}
              \cup {p[2] : p \in {q \in Elements(intents)
                                   \cup UNION {Kept(r) : r \in Servers \ {s}} : q[1] = l}}
    BY <2>1, <2>3 DEF Announced
  <2> QED
    BY <1>2, <1>6, <2>1, <2>2, <2>4
<1>7. ASSUME NEW p \in Elements(intents),
             Kept(s)' = Elements(intents) \ {p},
             network' = net \cup {PullRequest(p[1], s, p[2])},
             pending_pulls'[s] = pending_pulls[s] + 1,
             HasSpareCapacity(s, running)
      PROVE  /\ network' \subseteq Message /\ IsFiniteSet(network')
             /\ OneIntent'
             /\ Travelling' = {m \in net : m.type = "task"}
             /\ running + pending_pulls'[s] <= MaxConcurrency
             /\ \A r \in Servers : pending_pulls'[r] = Cardinality(Claims(r)')
             /\ \A l \in LBs :
                  Announced(l)' =
                    {m.id : m \in {n \in AskingIn(net) : n.lb = l}}
                      \cup {q[2] : q \in {q \in Elements(intents)
                                     \cup UNION {Kept(r) : r \in Servers \ {s}} : q[1] = l}}
             /\ \A m \in network' : m \in net \/ \E q \in Elements(intents) :
                                                    m.lb = q[1] /\ m.id = q[2]
  <2> DEFINE pm == PullRequest(p[1], s, p[2])
  <2>1. /\ pm.type = "pull" /\ pm.lb = p[1] /\ pm.id = p[2] /\ pm.server = s
        /\ p \in Task /\ p[1] \in LBs /\ p[2] \in Nat /\ p = <<p[1], p[2]>>
        /\ pm \in Message
    BY <1>1, <1>5, Members DEF PullRequest, Message
  <2>2. network' = net \cup {pm}
    BY <1>7
  <2> HIDE DEF pm
  <2>3. \A m \in AskingIn(net) : ~(m.lb = pm.lb /\ m.id = pm.id)
    BY <2>1
  <2>4. pm \notin net
    BY <2>1, <2>3 DEF AskingIn
  <2>5. /\ Asking' = AskingIn(net) \cup {pm}
        /\ Travelling' = {m \in net : m.type = "task"}
        /\ Claims(s)' = ClaimsIn(net, s) \cup {pm}
        /\ \A r \in Servers \ {s} : Claims(r)' = ClaimsIn(net, r)
    BY <2>1, <2>2 DEF Asking, AskingIn, Claims, ClaimsIn, Travelling
  <2>6. network' \subseteq Message /\ IsFiniteSet(network')
    BY <2>1, <2>2, FS_AddElement
  <2>7. OneIntent'
    <3>1. \A m, n \in Asking' : m.lb = n.lb /\ m.id = n.id => m = n
      BY <2>3, <2>5
    <3>2. \A m \in Asking', r \in Servers : <<m.lb, m.id>> \notin Kept(r)'
      <4>1. ASSUME NEW m \in AskingIn(net), NEW r \in Servers
            PROVE  <<m.lb, m.id>> \notin Kept(r)'
        BY <1>2, <1>7 DEF Kept
      <4>2. ASSUME NEW r \in Servers PROVE p \notin Kept(r)'
        BY <1>2, <1>7 DEF Kept
      <4>3. \A r \in Servers : <<pm.lb, pm.id>> \notin Kept(r)'
        BY <2>1, <4>2
      <4> QED
        BY <2>5, <4>1, <4>3, Zenon
    <3>3. \A r1, r2 \in Servers : r1 # r2 => Kept(r1)' \cap Kept(r2)' = {}
      <4>1. \A r \in Servers \ {s} : Kept(s)' \cap Kept(r)' = {}
        BY <1>2, <1>7
      <4> HIDE DEF Kept
      <4> QED
        BY <1>4, <4>1, Zenon
    <3> QED
      BY <1>3, <3>1, <3>2, <3>3 DEF OneIntent
  <2>8. running + pending_pulls'[s] <= MaxConcurrency
    BY <1>1, <1>7 DEF HasSpareCapacity, TypeOK
  <2>9. \A r \in Servers : pending_pulls'[r] = Cardinality(Claims(r)')
    <3>1. IsFiniteSet(ClaimsIn(net, s)) /\ pm \notin ClaimsIn(net, s)
      BY <2>4, FS_Subset DEF ClaimsIn
    <3>2. Cardinality(Claims(s)') = Cardinality(ClaimsIn(net, s)) + 1
      BY <2>5, <3>1, FS_AddElement
    <3>3. \A r \in Servers \ {s} : pending_pulls'[r] = Cardinality(Claims(r)')
      BY <1>2, <2>5
    <3>4. pending_pulls'[s] = Cardinality(Claims(s)')
      BY <1>7, <3>2
    <3> QED
      BY <3>3, <3>4
  <2>10. ASSUME NEW l \in LBs
         PROVE  Announced(l)' =
                  {m.id : m \in {n \in AskingIn(net) : n.lb = l}}
                    \cup {q[2] : q \in {q \in Elements(intents)
                                  \cup UNION {Kept(r) : r \in Servers \ {s}} : q[1] = l}}
    <3>1. UNION {Kept(r)' : r \in Servers}
            = (Elements(intents) \ {p}) \cup UNION {Kept(r) : r \in Servers \ {s}}
      <4>1. Kept(s)' = Elements(intents) \ {p}
        BY <1>7
      <4>2. \A r \in Servers \ {s} : Kept(r)' = Kept(r)
        BY <1>2
      <4> HIDE DEF Kept
      <4> QED
        BY <4>1, <4>2, Zenon
    <3>2. CASE l = p[1]
      <4>1. {n \in Asking' : n.lb = l} = {n \in AskingIn(net) : n.lb = l} \cup {pm}
        BY <2>1, <2>5, <3>2
      <4> QED
        BY <2>1, <3>1, <3>2, <4>1 DEF Announced
    <3>3. CASE l # p[1]
      <4>1. {n \in Asking' : n.lb = l} = {n \in AskingIn(net) : n.lb = l}
        BY <2>1, <2>5, <3>3
      <4> QED
        BY <3>1, <3>3, <4>1 DEF Announced
    <3> QED
      BY <3>2, <3>3
  <2>11. \A m \in network' : m \in net \/ \E q \in Elements(intents) :
                                             m.lb = q[1] /\ m.id = q[2]
    BY <2>1, <2>2
  <2> QED
    BY <2>5, <2>6, <2>7, <2>8, <2>9, <2>10, <2>11
<1>8. \/ DrainsNothing(s, intents, net)
      \/ \E p \in Elements(intents) : Drains(s, intents, running, net, p)
  BY <1>1, DrainCases
<1>9. Kept(s)' \subseteq Elements(intents)
  BY <1>8 DEF Drains, DrainsNothing
<1> QED
  BY <1>2, <1>6, <1>7, <1>8, <1>9 DEF Drains, DrainsNothing

LEMMA ReceivePullIntentPlaces ==
  ASSUME PlacesInv, NEW m \in network, ReceivePullIntent(m)
  PROVE  PlacesInv'
<1>0. bound' = bound
  BY DEF ReceivePullIntent
<1> USE <1>0
<1> DEFINE s == m.server
           t == <<m.lb, m.id>>
           intents == Append(pull_intent_queue[s], t)
           net == network \ {m}
<1>1. /\ m.type = "intent"
      /\ DrainPullIntents(s, intents, in_flight[s], net)
      /\ UNCHANGED <<next_task_id, queue, pull_intent_load, local_inflight,
                     in_flight, serving, finished, status>>
  BY DEF ReceivePullIntent, lbVars
<1>2. /\ TypeOK /\ Finite /\ IdsKnown /\ OneIntent /\ OnePlace /\ CapacityRespected
      /\ AnnouncedQueued /\ NoPullAbort
  BY DEF PlacesInv
<1>3. /\ s \in Servers /\ m.lb \in LBs /\ m.id \in Nat
      /\ t \in Task /\ t[1] = m.lb /\ t[2] = m.id
      /\ m \in Asking
  BY <1>1, <1>2, Members DEF Task, Asking
<1>4. pull_intent_queue[s] \in Seq(Task) /\ NoDuplicates(pull_intent_queue[s])
      /\ t \notin Kept(s)
  BY <1>2, <1>3 DEF TypeOK, OneIntent
<1>5. /\ intents \in Seq(Task) /\ NoDuplicates(intents)
      /\ Elements(intents) = Kept(s) \cup {t}
  BY <1>3, <1>4, PushBack, PushBackNew DEF Kept
<1>6. net \in SUBSET Message /\ IsFiniteSet(net)
  BY <1>2, FS_RemoveElement DEF TypeOK, Finite
<1>7. /\ AskingIn(net) = Asking \ {m}
      /\ \A r \in Servers : ClaimsIn(net, r) = Claims(r)
      /\ {n \in net : n.type = "task"} = Travelling
  BY <1>1 DEF AskingIn, Asking, ClaimsIn, Claims, Travelling
<1>8. /\ in_flight[s] \in Nat
      /\ in_flight[s] + pending_pulls[s] <= MaxConcurrency
      /\ \A r \in Servers : pending_pulls[r] = Cardinality(ClaimsIn(net, r))
  BY <1>2, <1>3, <1>7 DEF CapacityRespected, TypeOK
<1> HIDE DEF s, t, intents, net
<1>9. /\ \A n1, n2 \in AskingIn(net) : n1.lb = n2.lb /\ n1.id = n2.id => n1 = n2
      /\ \A n \in AskingIn(net) : <<n.lb, n.id>> \notin Elements(intents)
      /\ \A n \in AskingIn(net), r \in Servers \ {s} : <<n.lb, n.id>> \notin Kept(r)
      /\ \A r \in Servers \ {s} : Elements(intents) \cap Kept(r) = {}
  <2>1. \A n \in Asking \ {m} : <<n.lb, n.id>> # t
    BY <1>2, <1>3 DEF OneIntent, t
  <2>2. \A r \in Servers : t \notin Kept(r)
    BY <1>2, <1>3 DEF OneIntent, t
  <2> QED
    BY <1>2, <1>3, <1>5, <1>7, <2>1, <2>2 DEF OneIntent
<1>10. /\ pull_intent_queue' \in [Servers -> Seq(Task)]
       /\ pending_pulls' \in [Servers -> Nat]
       /\ network' \subseteq Message /\ IsFiniteSet(network')
       /\ OneIntent'
       /\ Travelling' = {n \in net : n.type = "task"}
       /\ in_flight[s] + pending_pulls'[s] <= MaxConcurrency
       /\ \A r \in Servers \ {s} : pending_pulls'[r] = pending_pulls[r]
       /\ \A r \in Servers : pending_pulls'[r] = Cardinality(Claims(r)')
       /\ \A l \in LBs :
            Announced(l)' =
              {n.id : n \in {n \in AskingIn(net) : n.lb = l}}
                \cup {p[2] : p \in {q \in Elements(intents)
                                     \cup UNION {Kept(r) : r \in Servers \ {s}} : q[1] = l}}
       /\ \A n \in network' : n \in net \/ \E p \in Elements(intents) :
                                              n.lb = p[1] /\ n.id = p[2]
       /\ Kept(s)' \subseteq Elements(intents)
       /\ \A r \in Servers \ {s} : Kept(r)' = Kept(r)
  BY <1>1, <1>3, <1>5, <1>6, <1>8, <1>9, DrainPlaces
<1>11. TypeOK' /\ Finite' /\ NoPullAbort'
  BY <1>1, <1>2, <1>10 DEF TypeOK, Finite, NoPullAbort
<1>12. IdsKnown'
  <2>1. \A p \in Elements(intents) : p[2] < next_task_id[p[1]]
    BY <1>2, <1>3, <1>5 DEF IdsKnown
  <2>2. \A n \in net : n.id < next_task_id[n.lb]
    BY <1>2 DEF IdsKnown, net
  <2>3. \A n \in network' : n.id < next_task_id[n.lb]
    BY <1>10, <2>1, <2>2
  <2>4. ASSUME NEW r \in Servers PROVE \A p \in Kept(r)' : p[2] < next_task_id[p[1]]
    BY <1>2, <1>10, <2>1 DEF IdsKnown
  <2>5. \A l \in LBs : Queued(l)' = Queued(l)
    BY <1>1 DEF Queued
  <2> QED
    BY <1>1, <1>2, <2>3, <2>4, <2>5 DEF IdsKnown
<1>13. OnePlace'
  <2>1. Travelling' = Travelling
    BY <1>7, <1>10
  <2>2. /\ \A l \in LBs : Queued(l)' = Queued(l) /\ NoDuplicates(queue[l])'
        /\ serving' = serving
    BY <1>1, <1>2 DEF Queued, OnePlace
  <2>3. \A n \in Travelling : n.id \notin Queued(n.lb)'
    BY <1>2, <2>2, Members DEF OnePlace, Travelling
  <2>4. \A r \in Servers : \A u \in serving[r] : u[2] \notin Queued(u[1])'
    BY <1>2, <2>2, Members DEF OnePlace
  <2> QED
    BY <1>2, <2>1, <2>2, <2>3, <2>4 DEF OnePlace
<1>14. CapacityRespected'
  BY <1>1, <1>2, <1>10 DEF CapacityRespected
<1>15. AnnouncedQueued'
  <2>1. ASSUME NEW l \in LBs PROVE Announced(l)' = Announced(l)
    <3> DEFINE asks   == {n \in AskingIn(net) : n.lb = l}
               others == UNION {Kept(r) : r \in Servers \ {s}}
               kept   == UNION {Kept(r) : r \in Servers}
    <3>1. kept = Kept(s) \cup others
      BY <1>3
    <3>2. Announced(l)' = {n.id : n \in asks}
                            \cup {p[2] : p \in {q \in Elements(intents) \cup others : q[1] = l}}
      BY <1>10
    <3>3. Announced(l)
            = {n.id : n \in {n \in Asking : n.lb = l}} \cup {p[2] : p \in {q \in kept : q[1] = l}}
      BY DEF Announced
    <3> HIDE DEF kept, others
    <3>4. Elements(intents) \cup others = kept \cup {t}
      BY <1>5, <3>1
    <3>5. CASE l = m.lb
      <4>1. {n \in Asking : n.lb = l} = asks \cup {m}
        BY <1>3, <1>7, <3>5
      <4>2. {q \in kept \cup {t} : q[1] = l} = {q \in kept : q[1] = l} \cup {t}
        BY <1>3, <3>5
      <4> QED
        BY <1>3, <3>2, <3>3, <3>4, <4>1, <4>2
    <3>6. CASE l # m.lb
      <4>1. {n \in Asking : n.lb = l} = asks
        BY <1>7, <3>6
      <4>2. {q \in kept \cup {t} : q[1] = l} = {q \in kept : q[1] = l}
        BY <1>3, <3>6
      <4> QED
        BY <3>2, <3>3, <3>4, <4>1, <4>2
    <3> QED
      BY <3>5, <3>6
  <2>2. \A l \in LBs : Queued(l)' = Queued(l)
    BY <1>1 DEF Queued
  <2> QED
    BY <1>2, <2>1, <2>2 DEF AnnouncedQueued
<1> QED
  BY <1>10, <1>11, <1>12, <1>13, <1>14, <1>15 DEF PlacesInv

LEMMA CompletePlaces ==
  ASSUME PlacesInv, NEW s \in Servers, NEW t \in serving[s], Complete(s, t)
  PROVE  PlacesInv'
<1>0. bound' = bound
  BY DEF Complete
<1> USE <1>0
<1> DEFINE intents == pull_intent_queue[s]
           rel == ReleaseOf(t[1], s, t[2])
           net == network \cup {rel}
<1>1. /\ serving' = [serving EXCEPT ![s] = @ \ {t}]
      /\ finished' = finished \cup {t}
      /\ in_flight' = [in_flight EXCEPT ![s] = @ - 1]
      /\ DrainPullIntents(s, intents, in_flight[s] - 1, net)
      /\ UNCHANGED <<next_task_id, queue, pull_intent_load, local_inflight, status>>
  BY DEF Complete, lbVars
<1>2. /\ TypeOK /\ Finite /\ IdsKnown /\ OneIntent /\ OnePlace /\ CapacityRespected
      /\ AnnouncedQueued /\ NoPullAbort
  BY DEF PlacesInv
<1>3. t \in Task /\ t[1] \in LBs /\ t[2] \in Nat
  BY <1>2, Members
<1>4. rel \in Message /\ rel.type = "release" /\ rel.lb = t[1] /\ rel.id = t[2]
  BY <1>3 DEF ReleaseOf, Message
<1>5. /\ intents \in Seq(Task) /\ NoDuplicates(intents)
      /\ Elements(intents) = Kept(s)
  BY <1>2 DEF TypeOK, OneIntent, Kept
<1> HIDE DEF intents, rel
<1>6. net \in SUBSET Message /\ IsFiniteSet(net)
  BY <1>2, <1>4, FS_AddElement DEF TypeOK, Finite
<1>7. /\ AskingIn(net) = Asking
      /\ \A r \in Servers : ClaimsIn(net, r) = Claims(r)
      /\ {n \in net : n.type = "task"} = Travelling
  BY <1>4 DEF AskingIn, Asking, ClaimsIn, Claims, Travelling
<1>8. /\ serving'[s] = serving[s] \ {t}
      /\ \A r \in Servers \ {s} : serving'[r] = serving[r]
      /\ in_flight'[s] = in_flight[s] - 1
      /\ \A r \in Servers \ {s} : in_flight'[r] = in_flight[r]
  BY <1>1, <1>2 DEF TypeOK
<1>9. /\ Cardinality(serving'[s]) = Cardinality(serving[s]) - 1
      /\ Cardinality(serving'[s]) \in Nat
      /\ in_flight'[s] = Cardinality(serving'[s])
      /\ in_flight'[s] \in Nat /\ in_flight'[s] = in_flight[s] - 1
  <2>1. IsFiniteSet(serving[s])
    BY <1>2 DEF Finite
  <2>2. /\ IsFiniteSet(serving'[s])
        /\ Cardinality(serving'[s]) = Cardinality(serving[s]) - 1
    BY <1>8, <2>1, FS_RemoveElement
  <2> QED
    BY <1>2, <1>8, <2>2, FS_CardinalityType DEF CapacityRespected
<1>10. /\ in_flight[s] - 1 \in Nat
       /\ in_flight[s] - 1 + pending_pulls[s] <= MaxConcurrency
       /\ \A r \in Servers : pending_pulls[r] = Cardinality(ClaimsIn(net, r))
  <2>1. /\ in_flight[s] \in Nat /\ pending_pulls[s] \in Nat /\ MaxConcurrency \in Nat
        /\ in_flight[s] + pending_pulls[s] <= MaxConcurrency
    BY <1>2, AmphiQueueAssumption DEF TypeOK, CapacityRespected
  <2>2. in_flight[s] - 1 \in Nat
    BY <1>9
  <2>3. \A r \in Servers : pending_pulls[r] = Cardinality(ClaimsIn(net, r))
    BY <1>2, <1>7 DEF CapacityRespected
  <2>4. in_flight[s] - 1 + pending_pulls[s] <= MaxConcurrency
    BY <2>1
  <2> QED
    BY <2>2, <2>3, <2>4
<1> HIDE DEF net
<1>11. /\ \A n1, n2 \in AskingIn(net) : n1.lb = n2.lb /\ n1.id = n2.id => n1 = n2
       /\ \A n \in AskingIn(net) : <<n.lb, n.id>> \notin Elements(intents)
       /\ \A n \in AskingIn(net), r \in Servers \ {s} : <<n.lb, n.id>> \notin Kept(r)
       /\ \A r \in Servers \ {s} : Elements(intents) \cap Kept(r) = {}
  BY <1>2, <1>5, <1>7 DEF OneIntent
<1>12. /\ pull_intent_queue' \in [Servers -> Seq(Task)]
       /\ pending_pulls' \in [Servers -> Nat]
       /\ network' \subseteq Message /\ IsFiniteSet(network')
       /\ OneIntent'
       /\ Travelling' = {n \in net : n.type = "task"}
       /\ in_flight[s] - 1 + pending_pulls'[s] <= MaxConcurrency
       /\ \A r \in Servers \ {s} : pending_pulls'[r] = pending_pulls[r]
       /\ \A r \in Servers : pending_pulls'[r] = Cardinality(Claims(r)')
       /\ \A l \in LBs :
            Announced(l)' =
              {n.id : n \in {n \in AskingIn(net) : n.lb = l}}
                \cup {p[2] : p \in {q \in Elements(intents)
                                     \cup UNION {Kept(r) : r \in Servers \ {s}} : q[1] = l}}
       /\ \A n \in network' : n \in net \/ \E p \in Elements(intents) :
                                              n.lb = p[1] /\ n.id = p[2]
       /\ Kept(s)' \subseteq Elements(intents)
       /\ \A r \in Servers \ {s} : Kept(r)' = Kept(r)
  BY <1>1, <1>5, <1>6, <1>10, <1>11, DrainPlaces
<1>13. TypeOK' /\ Finite' /\ NoPullAbort'
  <2>1. in_flight' \in [Servers -> Nat]
    BY <1>1, <1>2, <1>9 DEF TypeOK
  <2>2. serving' \in [Servers -> SUBSET Task] /\ finished' \subseteq Task
    BY <1>1, <1>2, <1>3 DEF TypeOK
  <2>3. \A r \in Servers : IsFiniteSet(serving'[r])
    BY <1>2, <1>8, FS_RemoveElement DEF Finite
  <2> QED
    BY <1>1, <1>2, <1>12, <2>1, <2>2, <2>3 DEF TypeOK, Finite, NoPullAbort
<1>14. IdsKnown'
  <2>1. \A p \in Elements(intents) : p[2] < next_task_id[p[1]]
    BY <1>2, <1>5 DEF IdsKnown
  <2>2. \A n \in net : n.id < next_task_id[n.lb]
    BY <1>2, <1>4 DEF IdsKnown, net
  <2>3. \A n \in network' : n.id < next_task_id[n.lb]
    BY <1>12, <2>1, <2>2
  <2>4. ASSUME NEW r \in Servers PROVE \A p \in Kept(r)' : p[2] < next_task_id[p[1]]
    BY <1>2, <1>12, <2>1 DEF IdsKnown
  <2>5. \A l \in LBs : Queued(l)' = Queued(l)
    BY <1>1 DEF Queued
  <2>6. \A r \in Servers : \A u \in serving'[r] : u[2] < next_task_id[u[1]]
    BY <1>2, <1>8 DEF IdsKnown
  <2> QED
    BY <1>1, <1>2, <2>3, <2>4, <2>5, <2>6 DEF IdsKnown
<1>15. OnePlace'
  <2>1. Travelling' = Travelling
    BY <1>7, <1>12
  <2>2. /\ \A l \in LBs : Queued(l)' = Queued(l) /\ NoDuplicates(queue[l])'
        /\ \A r \in Servers : serving'[r] \subseteq serving[r]
    BY <1>1, <1>2, <1>8 DEF Queued, OnePlace
  <2>3. \A n \in Travelling : n.id \notin Queued(n.lb)'
    BY <1>2, <2>2, Members DEF OnePlace, Travelling
  <2>4. \A r \in Servers : \A u \in serving[r] : u[2] \notin Queued(u[1])'
    BY <1>2, <2>2, Members DEF OnePlace
  <2>5. \A r1, r2 \in Servers : r1 # r2 => serving'[r1] \cap serving'[r2] = {}
    BY <1>2, <2>2 DEF OnePlace
  <2> QED
    BY <1>2, <2>1, <2>2, <2>3, <2>4, <2>5 DEF OnePlace
<1>16. CapacityRespected'
  <2>1. in_flight'[s] + pending_pulls'[s] <= MaxConcurrency
    BY <1>8, <1>12
  <2> QED
    BY <1>2, <1>8, <1>9, <1>12, <2>1 DEF CapacityRespected
<1>17. AnnouncedQueued'
  <2>1. ASSUME NEW l \in LBs PROVE Announced(l)' = Announced(l)
    <3>1. UNION {Kept(r) : r \in Servers}
            = Elements(intents) \cup UNION {Kept(r) : r \in Servers \ {s}}
      BY <1>5
    <3> QED
      BY <1>7, <1>12, <3>1 DEF Announced
  <2>2. \A l \in LBs : Queued(l)' = Queued(l)
    BY <1>1 DEF Queued
  <2> QED
    BY <1>2, <2>1, <2>2 DEF AnnouncedQueued
<1> QED
  BY <1>12, <1>13, <1>14, <1>15, <1>16, <1>17 DEF PlacesInv

-----------------------------------------------------------------------------
(* The theorems *)

LEMMA NextPlaces == PlacesInv /\ [Next]_vars => PlacesInv'
<1> SUFFICES ASSUME PlacesInv, [Next]_vars PROVE PlacesInv'
  OBVIOUS
<1>1. ASSUME NEW l \in LBs, Input(l) PROVE PlacesInv'
  BY <1>1, InputPlaces
<1>2. ASSUME NEW m \in network, Deliver(m) PROVE PlacesInv'
  BY <1>2, ReceivePullIntentPlaces, PullPlaces, ServerInputPlaces, ReleasePlaces
  DEF Deliver
<1>3. ASSUME NEW s \in Servers, NEW t \in serving[s], Complete(s, t) PROVE PlacesInv'
  BY <1>3, CompletePlaces
<1>4. CASE UNCHANGED vars
  <2>1. UNCHANGED <<bound, next_task_id, queue, pull_intent_load, local_inflight,
                    pull_intent_queue, pending_pulls, in_flight, serving,
                    network, finished, status>>
    BY <1>4 DEF vars, lbVars, serverVars
  <2>2. TypeOK' /\ Finite' /\ NoPullAbort'
    BY <2>1 DEF PlacesInv, TypeOK, Finite, NoPullAbort
  <2>3. IdsKnown'
    BY <2>1 DEF PlacesInv, IdsKnown, Queued, Kept
  <2>4. OneIntent'
    BY <2>1 DEF PlacesInv, OneIntent, Kept, Asking
  <2>5. OnePlace'
    BY <2>1 DEF PlacesInv, OnePlace, Queued, Travelling
  <2>6. CapacityRespected'
    BY <2>1 DEF PlacesInv, CapacityRespected, Claims
  <2>7. AnnouncedQueued'
    BY <2>1 DEF PlacesInv, AnnouncedQueued, Announced, Queued, Kept, Asking
  <2> QED
    BY <2>2, <2>3, <2>4, <2>5, <2>6, <2>7 DEF PlacesInv
<1> QED
  BY <1>1, <1>2, <1>3, <1>4 DEF Next, Finished

(* Every reachable state has each task and each intent in one place only. *)
THEOREM PlacesInvariant == Safety => []PlacesInv
BY InitPlaces, NextPlaces, PTL DEF Safety

(***************************************************************************)
(* The state keeps its types; in particular in_flight -= 1 of `complete`,  *)
(* which does not saturate, never underflows.                              *)
(***************************************************************************)
THEOREM TypeCorrect == Safety => []TypeOK
<1>1. PlacesInv => TypeOK
  BY DEF PlacesInv
<1> QED
  BY <1>1, PlacesInvariant, PTL

(***************************************************************************)
(* No server ever holds more than MaxConcurrency tasks and pulls, and its  *)
(* two counters say how many, although `input` never looks at them.        *)
(***************************************************************************)
THEOREM CapacityCorrect == Safety => []CapacityRespected
<1>1. PlacesInv => CapacityRespected
  BY DEF PlacesInv
<1> QED
  BY <1>1, PlacesInvariant, PTL

(***************************************************************************)
(* fatal_pull_abort is unreachable, with bound pulls and without.          *)
(***************************************************************************)
THEOREM PullNeverAborts == Safety => []NoPullAbort
<1>1. PlacesInv => NoPullAbort
  BY DEF PlacesInv
<1> QED
  BY <1>1, PlacesInvariant, PTL

-----------------------------------------------------------------------------
(***************************************************************************)
(* The accounts: the counters a balancer keeps are those of the messages,  *)
(* queues and services they stand for, and the protocol implements the     *)
(* safety part of TaskService.  This rests on a task being in one place.   *)
(***************************************************************************)

(* The ids of l's intents that are in `net` or in `kept` of server s. *)
UnansweredIn(net, kept, l, s) ==
  {m.id : m \in {n \in net : n.lb = l /\ n.server = s /\ n.type \in {"intent", "pull"}}}
    \cup {p[2] : p \in {q \in kept : q[1] = l}}
Unanswered(l, s) == UnansweredIn(network, Kept(s), l, s)

(* What local_inflight[l][s] counts. *)
Due(l, s) ==
  {m \in network : m.lb = l /\ m.server = s /\ m.type \in {"task", "release"}}
ServingOf(l, s) == {t \in serving[s] : t[1] = l}

(* A balancer deals only with servers of its subset, and they with it. *)
InSubset ==
  /\ \A m \in network : m.server \in Subset[m.lb]
  /\ \A s \in Servers : \A p \in Kept(s) : s \in Subset[p[1]]
  /\ \A s \in Servers : \A t \in serving[s] : s \in Subset[t[1]]

(* A finished task is nowhere else, and only finished tasks are released. *)
FinishedOnce ==
  /\ \A t \in finished : t[2] < next_task_id[t[1]] /\ t[2] \notin Queued(t[1])
  /\ \A m \in Travelling : <<m.lb, m.id>> \notin finished
  /\ \A s \in Servers : serving[s] \cap finished = {}
  /\ \A m \in network : m.type = "release" => <<m.lb, m.id>> \in finished

ArrivalsBounded == \A l \in LBs : next_task_id[l] <= TaskCount[l]

(* pull_intent_load counts ids, which is what survives an intent's moves. *)
LoadsCounted ==
  \A l \in LBs, s \in Servers : pull_intent_load[l][s] = Cardinality(Unanswered(l, s))

AccountsInv ==
  /\ PlacesInv
  /\ InSubset
  /\ FinishedOnce
  /\ ArrivalsBounded
  /\ LoadsCounted
  /\ InFlightAccounting

-----------------------------------------------------------------------------
(* Facts about one state *)

LEMMA UnansweredMeans ==
  ASSUME NEW net, NEW kept \in SUBSET Task, NEW l, NEW s, NEW id
  PROVE  id \in UnansweredIn(net, kept, l, s)
           <=> \/ \E m \in net : /\ m.lb = l /\ m.server = s /\ m.id = id
                                 /\ m.type \in {"intent", "pull"}
               \/ <<l, id>> \in kept
<1>1. \A p \in kept : p = <<p[1], p[2]>>
  BY DEF Task
<1>2. (\E p \in kept : p[1] = l /\ p[2] = id) <=> <<l, id>> \in kept
  BY <1>1
<1> QED
  BY <1>2 DEF UnansweredIn

(* The sets that are counted are finite. *)
LEMMA AccountsFinite ==
  ASSUME PlacesInv, NEW l \in LBs, NEW s \in Servers
  PROVE  /\ IsFiniteSet(Unanswered(l, s))
         /\ IsFiniteSet(Due(l, s))
         /\ IsFiniteSet(ServingOf(l, s))
<1>1. Unanswered(l, s) \subseteq Announced(l)
  BY DEF Unanswered, UnansweredIn, Announced, Asking
<1>2. IsFiniteSet(Announced(l))
  BY CountsFinite DEF PlacesInv
<1>3. IsFiniteSet(network) /\ IsFiniteSet(serving[s])
  BY DEF PlacesInv, Finite
<1> QED
  BY <1>1, <1>2, <1>3, FS_Subset DEF Due, ServingOf

(***************************************************************************)
(* Draining moves an intent but answers none: the unanswered ids are those *)
(* the handler left, and no other message is touched.                      *)
(***************************************************************************)
LEMMA DrainUnanswered ==
  ASSUME TypeOK, NEW s \in Servers, NEW intents \in Seq(Task), NoDuplicates(intents),
         NEW running, NEW net \in SUBSET Message,
         DrainPullIntents(s, intents, running, net)
  PROVE  /\ \A m : m.type \notin {"intent", "pull"} => (m \in network' <=> m \in net)
         /\ \A l \in LBs : Unanswered(l, s)' = UnansweredIn(net, Elements(intents), l, s)
         /\ \A l \in LBs, r \in Servers \ {s} :
              Unanswered(l, r)' = UnansweredIn(net, Kept(r), l, r)
         /\ \A m \in network' : m \in net \/ \E p \in Elements(intents) :
                                     m.server = s /\ m.lb = p[1] /\ m.id = p[2]
         /\ Kept(s)' \subseteq Elements(intents)
<1>1. Elements(intents) \subseteq Task
  BY DEF Elements
<1>2. \A r \in Servers \ {s} : Kept(r)' = Kept(r) /\ Kept(r) \subseteq Task
  BY DrainCases, Members
<1>3. CASE DrainsNothing(s, intents, net)
  <2>1. Kept(s)' = Elements(intents) /\ network' = net
    BY <1>3 DEF DrainsNothing
  <2> QED
    BY <1>2, <2>1 DEF Unanswered
<1>4. ASSUME NEW p \in Elements(intents), Drains(s, intents, running, net, p)
      PROVE  /\ \A m : m.type \notin {"intent", "pull"} => (m \in network' <=> m \in net)
             /\ \A l \in LBs : Unanswered(l, s)' = UnansweredIn(net, Elements(intents), l, s)
             /\ \A l \in LBs, r \in Servers \ {s} :
                  Unanswered(l, r)' = UnansweredIn(net, Kept(r), l, r)
             /\ \A m \in network' : m \in net \/ \E q \in Elements(intents) :
                                         m.server = s /\ m.lb = q[1] /\ m.id = q[2]
             /\ Kept(s)' \subseteq Elements(intents)
  <2> DEFINE pull == PullRequest(p[1], s, p[2])
  <2>1. /\ pull.type = "pull" /\ pull.lb = p[1] /\ pull.server = s /\ pull.id = p[2]
        /\ p \in Task /\ p = <<p[1], p[2]>>
    BY <1>1 DEF PullRequest, Task
  <2>2. Kept(s)' = Elements(intents) \ {p} /\ network' = net \cup {pull}
    BY <1>4 DEF Drains
  <2> HIDE DEF pull
  <2>3. ASSUME NEW l \in LBs
        PROVE  Unanswered(l, s)' = UnansweredIn(net, Elements(intents), l, s)
    <3>1. PICK after, kept : after = network' /\ kept = Kept(s)'
      OBVIOUS
    <3>2. kept \in SUBSET Task
      BY <1>1, <2>2, <3>1
    <3>3. ASSUME NEW id
          PROVE  id \in UnansweredIn(after, kept, l, s)
                   <=> id \in UnansweredIn(net, Elements(intents), l, s)
      <4>1. id \in UnansweredIn(after, kept, l, s)
              <=> \/ \E m \in after : /\ m.lb = l /\ m.server = s /\ m.id = id
                                      /\ m.type \in {"intent", "pull"}
                  \/ <<l, id>> \in kept
        BY <3>2, UnansweredMeans
      <4>2. id \in UnansweredIn(net, Elements(intents), l, s)
              <=> \/ \E m \in net : /\ m.lb = l /\ m.server = s /\ m.id = id
                                    /\ m.type \in {"intent", "pull"}
                  \/ <<l, id>> \in Elements(intents)
        BY <1>1, UnansweredMeans
      <4>3. <<l, id>> = p <=> pull.lb = l /\ pull.id = id
        BY <2>1
      <4> QED
        BY <2>1, <2>2, <3>1, <4>1, <4>2, <4>3
    <3> QED
      BY <3>1, <3>3 DEF Unanswered, UnansweredIn
  <2>4. ASSUME NEW l \in LBs, NEW r \in Servers \ {s}
        PROVE  Unanswered(l, r)' = UnansweredIn(net, Kept(r), l, r)
    <3>1. {n \in network' : n.lb = l /\ n.server = r /\ n.type \in {"intent", "pull"}}
            = {n \in net : n.lb = l /\ n.server = r /\ n.type \in {"intent", "pull"}}
      BY <2>1, <2>2
    <3> QED
      BY <1>2, <3>1 DEF Unanswered, UnansweredIn
  <2> QED
    BY <2>1, <2>2, <2>3, <2>4
<1> QED
  BY <1>3, <1>4, DrainCases

-----------------------------------------------------------------------------
(* What the steps of the server do to the unanswered intents: nothing. *)

LEMMA ReceivePullIntentUnanswered ==
  ASSUME PlacesInv, NEW m \in network, ReceivePullIntent(m)
  PROVE  /\ \A l \in LBs, r \in Servers : Unanswered(l, r)' = Unanswered(l, r)
         /\ \A n : n.type \notin {"intent", "pull"} => (n \in network' <=> n \in network)
         /\ InSubset => InSubset'
<1> DEFINE s == m.server
           e == <<m.lb, m.id>>
           intents == Append(pull_intent_queue[s], e)
           net == network \ {m}
<1>1. /\ TypeOK /\ OneIntent
      /\ m.type = "intent" /\ m.lb \in LBs /\ s \in Servers /\ m.id \in Nat
      /\ DrainPullIntents(s, intents, in_flight[s], net)
  BY Members DEF PlacesInv, ReceivePullIntent
<1>2. /\ pull_intent_queue[s] \in Seq(Task) /\ e \in Task
      /\ NoDuplicates(pull_intent_queue[s]) /\ e \notin Kept(s)
  BY <1>1 DEF TypeOK, OneIntent, Asking, Task
<1>3. /\ intents \in Seq(Task) /\ NoDuplicates(intents)
      /\ Elements(intents) = Kept(s) \cup {e}
  <2> HIDE DEF e, s
  <2> QED
    BY <1>2, PushBack, PushBackNew DEF Kept
<1>4. net \in SUBSET Message
  BY <1>1 DEF TypeOK
<1> HIDE DEF intents, net, s
<1>5. /\ \A n : n.type \notin {"intent", "pull"} => (n \in network' <=> n \in net)
      /\ \A l \in LBs : Unanswered(l, s)' = UnansweredIn(net, Elements(intents), l, s)
      /\ \A l \in LBs, r \in Servers \ {s} :
           Unanswered(l, r)' = UnansweredIn(net, Kept(r), l, r)
      /\ \A n \in network' : n \in net \/ \E p \in Elements(intents) :
                                  n.server = s /\ n.lb = p[1] /\ n.id = p[2]
      /\ Kept(s)' \subseteq Elements(intents)
      /\ \A r \in Servers \ {s} : Kept(r)' = Kept(r)
  <2>1. /\ TypeOK /\ s \in Servers /\ intents \in Seq(Task) /\ NoDuplicates(intents)
        /\ net \in SUBSET Message
    BY <1>1, <1>3, <1>4
  <2>2. PICK running : DrainPullIntents(s, intents, running, net)
    BY <1>1
  <2>3. \A r \in Servers \ {s} : Kept(r)' = Kept(r)
    BY <2>1, <2>2, DrainCases
  <2> QED
    BY <2>1, <2>2, <2>3, DrainUnanswered
<1>6. ASSUME NEW l \in LBs PROVE UnansweredIn(net, Elements(intents), l, s) = Unanswered(l, s)
  <2>1. Kept(s) \in SUBSET Task /\ Elements(intents) \in SUBSET Task
    BY <1>1, <1>2, <1>3, Members
  <2>2. ASSUME NEW id
        PROVE  id \in UnansweredIn(net, Elements(intents), l, s)
                 <=> id \in UnansweredIn(network, Kept(s), l, s)
    <3>1. id \in UnansweredIn(net, Elements(intents), l, s)
            <=> \/ \E n \in net : /\ n.lb = l /\ n.server = s /\ n.id = id
                                  /\ n.type \in {"intent", "pull"}
                \/ <<l, id>> \in Elements(intents)
      BY <2>1, UnansweredMeans
    <3>2. id \in UnansweredIn(network, Kept(s), l, s)
            <=> \/ \E n \in network : /\ n.lb = l /\ n.server = s /\ n.id = id
                                      /\ n.type \in {"intent", "pull"}
                \/ <<l, id>> \in Kept(s)
      BY <2>1, UnansweredMeans
    <3> QED
      BY <1>1, <1>3, <3>1, <3>2 DEF net, s
  <2> QED
    BY <2>2 DEF Unanswered, UnansweredIn
<1>7. ASSUME NEW l \in LBs, NEW r \in Servers \ {s}
      PROVE  UnansweredIn(net, Kept(r), l, r) = Unanswered(l, r)
  <2>1. {n \in net : n.lb = l /\ n.server = r /\ n.type \in {"intent", "pull"}}
          = {n \in network : n.lb = l /\ n.server = r /\ n.type \in {"intent", "pull"}}
    BY DEF net, s
  <2> QED
    BY <2>1 DEF Unanswered, UnansweredIn
<1>8. ASSUME InSubset PROVE InSubset'
  <2>1. \A p \in Elements(intents) : s \in Subset[p[1]]
    BY <1>1, <1>3, <1>8 DEF InSubset, s
  <2>2. \A n \in network' : n.server \in Subset[n.lb]
    BY <1>5, <1>8, <2>1 DEF InSubset, net
  <2>3. \A r \in Servers : \A p \in Kept(r)' : r \in Subset[p[1]]
    BY <1>5, <1>8, <2>1 DEF InSubset
  <2>4. serving' = serving
    BY DEF ReceivePullIntent
  <2> QED
    BY <1>8, <2>2, <2>3, <2>4 DEF InSubset
<1>9. \A l \in LBs, r \in Servers : Unanswered(l, r)' = Unanswered(l, r)
  <2> SUFFICES ASSUME NEW l \in LBs, NEW r \in Servers
               PROVE  Unanswered(l, r)' = Unanswered(l, r)
    OBVIOUS
  <2>1. CASE r = s
    BY <1>5, <1>6, <2>1
  <2>2. CASE r # s
    BY <1>5, <1>7, <2>2
  <2> QED
    BY <2>1, <2>2
<1>10. \A n : n.type \notin {"intent", "pull"} => (n \in network' <=> n \in network)
  <2>1. \A n : n \in net <=> n \in network /\ n # m
    BY DEF net
  <2> QED
    BY <1>1, <1>5, <2>1
<1> QED
  BY <1>8, <1>9, <1>10

LEMMA CompleteUnanswered ==
  ASSUME PlacesInv, NEW s \in Servers, NEW t \in serving[s], Complete(s, t)
  PROVE  /\ \A l \in LBs, r \in Servers : Unanswered(l, r)' = Unanswered(l, r)
         /\ \A n : n.type \notin {"intent", "pull"} =>
              (n \in network' <=> n \in network \/ n = ReleaseOf(t[1], s, t[2]))
         /\ InSubset => InSubset'
<1> DEFINE intents == pull_intent_queue[s]
           rel == ReleaseOf(t[1], s, t[2])
           net == network \cup {rel}
<1>1. /\ TypeOK /\ OneIntent /\ t \in Task
      /\ DrainPullIntents(s, intents, in_flight[s] - 1, net)
      /\ serving' = [serving EXCEPT ![s] = @ \ {t}]
  BY Members DEF PlacesInv, Complete
<1>2. /\ intents \in Seq(Task) /\ NoDuplicates(intents) /\ Elements(intents) = Kept(s)
  BY <1>1 DEF TypeOK, OneIntent, Kept
<1>3. /\ rel \in Message /\ rel.type = "release" /\ rel.lb = t[1] /\ rel.server = s
  BY <1>1 DEF ReleaseOf, Message, Task
<1>4. net \in SUBSET Message
  BY <1>1, <1>3 DEF TypeOK
<1> HIDE DEF intents, net, rel
<1>5. /\ \A n : n.type \notin {"intent", "pull"} => (n \in network' <=> n \in net)
      /\ \A l \in LBs : Unanswered(l, s)' = UnansweredIn(net, Elements(intents), l, s)
      /\ \A l \in LBs, r \in Servers \ {s} :
           Unanswered(l, r)' = UnansweredIn(net, Kept(r), l, r)
      /\ \A n \in network' : n \in net \/ \E p \in Elements(intents) :
                                  n.server = s /\ n.lb = p[1] /\ n.id = p[2]
      /\ Kept(s)' \subseteq Elements(intents)
      /\ \A r \in Servers \ {s} : Kept(r)' = Kept(r)
  BY <1>1, <1>2, <1>4, DrainUnanswered, DrainCases
<1>6. ASSUME NEW l \in LBs, NEW r \in Servers
      PROVE  UnansweredIn(net, Kept(r), l, r) = Unanswered(l, r)
  <2>1. {n \in net : n.lb = l /\ n.server = r /\ n.type \in {"intent", "pull"}}
          = {n \in network : n.lb = l /\ n.server = r /\ n.type \in {"intent", "pull"}}
    BY <1>3 DEF net
  <2> QED
    BY <2>1 DEF Unanswered, UnansweredIn
<1>7. ASSUME InSubset PROVE InSubset'
  <2>1. s \in Subset[t[1]] /\ \A p \in Elements(intents) : s \in Subset[p[1]]
    BY <1>2, <1>7 DEF InSubset
  <2>2. \A n \in network' : n.server \in Subset[n.lb]
    BY <1>3, <1>5, <1>7, <2>1 DEF InSubset, net
  <2>3. \A r \in Servers : \A p \in Kept(r)' : r \in Subset[p[1]]
    BY <1>5, <1>7, <2>1 DEF InSubset
  <2>4. \A r \in Servers : serving'[r] \subseteq serving[r]
    BY <1>1 DEF TypeOK
  <2> QED
    BY <1>7, <2>2, <2>3, <2>4 DEF InSubset
<1> QED
  BY <1>2, <1>5, <1>6, <1>7 DEF net, rel

-----------------------------------------------------------------------------
(* The invariant is preserved, one lemma per action *)

(* The counters are numbers, and so are the sizes they are compared with. *)
LEMMA AccountTypes ==
  ASSUME PlacesInv, NEW l \in LBs, NEW s \in Servers
  PROVE  /\ pull_intent_load[l][s] \in Nat /\ local_inflight[l][s] \in Nat
         /\ Cardinality(Unanswered(l, s)) \in Nat
         /\ Cardinality(Due(l, s)) \in Nat
         /\ Cardinality(ServingOf(l, s)) \in Nat
BY AccountsFinite, FS_CardinalityType DEF PlacesInv, TypeOK

(* One more, or one fewer, of what a counter counts. *)
LEMMA CountUp ==
  ASSUME NEW S, IsFiniteSet(S), NEW x, x \notin S
  PROVE  Cardinality(S \cup {x}) = Cardinality(S) + 1
BY FS_AddElement

LEMMA CountDown ==
  ASSUME NEW S, IsFiniteSet(S), NEW x \in S
  PROVE  /\ Cardinality(S \ {x}) = Cardinality(S) - 1
         /\ Cardinality(S) \in Nat \ {0}
         /\ SaturatingDec(Cardinality(S)) = Cardinality(S) - 1
<1>1. Cardinality(S \ {x}) = Cardinality(S) - 1 /\ IsFiniteSet(S \ {x})
  BY FS_RemoveElement
<1>2. Cardinality(S) \in Nat /\ Cardinality(S) # 0
  BY FS_CardinalityType, FS_EmptySet
<1> QED
  BY <1>1, <1>2 DEF SaturatingDec

(* InFlightAccounting with its two sets named. *)
LEMMA InFlightMeans ==
  InFlightAccounting
    <=> \A l \in LBs, s \in Servers :
          local_inflight[l][s] = Cardinality(Due(l, s)) + Cardinality(ServingOf(l, s))
BY DEF InFlightAccounting, Due, ServingOf

LEMMA InitAccounts == Init => AccountsInv
<1> SUFFICES ASSUME Init PROVE AccountsInv
  OBVIOUS
<1>1. PlacesInv
  BY InitPlaces
<1>2. /\ \A s \in Servers : Kept(s) = {} /\ serving[s] = {}
      /\ network = {} /\ finished = {}
  BY DEF Init, Kept, Elements
<1>3. \A l \in LBs, s \in Servers : /\ Unanswered(l, s) = {} /\ Due(l, s) = {}
                                    /\ ServingOf(l, s) = {}
                                    /\ pull_intent_load[l][s] = 0
                                    /\ local_inflight[l][s] = 0
  BY <1>2 DEF Unanswered, UnansweredIn, Due, ServingOf, Init
<1>4. LoadsCounted /\ InFlightAccounting
  <2>1. Cardinality({}) = 0
    BY FS_EmptySet
  <2>2. LoadsCounted
    BY <1>3, <2>1 DEF LoadsCounted
  <2>3. InFlightAccounting
    BY <1>3, <2>1, InFlightMeans
  <2> QED
    BY <2>2, <2>3
<1>5. InSubset /\ FinishedOnce
  BY <1>2 DEF InSubset, FinishedOnce, Travelling
<1>6. ArrivalsBounded
  BY AmphiQueueAssumption DEF ArrivalsBounded, Init
<1> QED
  BY <1>1, <1>4, <1>5, <1>6 DEF AccountsInv

LEMMA InputAccounts ==
  ASSUME AccountsInv, NEW l \in LBs, Input(l)
  PROVE  AccountsInv'
<1> USE DEF AccountsInv
<1>0. PICK id \in Nat : id = next_task_id[l]
  BY DEF PlacesInv, TypeOK
<1>1. PICK s \in Subset[l] :
        /\ network' = network \cup {PullIntent(l, s, id)}
        /\ pull_intent_load' = [pull_intent_load EXCEPT ![l][s] = @ + 1]
  BY <1>0 DEF Input
<1> DEFINE m == PullIntent(l, s, id)
<1>2. /\ m.type = "intent" /\ m.lb = l /\ m.server = s /\ m.id = id
      /\ s \in Servers
  BY AmphiQueueAssumption DEF PullIntent
<1>3. network' = network \cup {m}
  BY <1>1
<1> HIDE DEF m
<1>4. /\ id < TaskCount[l]
      /\ next_task_id' = [next_task_id EXCEPT ![l] = id + 1]
      /\ queue' = [queue EXCEPT ![l] = Append(@, id)]
      /\ UNCHANGED <<local_inflight, pull_intent_queue, serving, finished>>
  BY <1>0 DEF Input, serverVars
<1>5. PlacesInv'
  BY InputPlaces
<1>6. \A k \in LBs : /\ next_task_id[k] \in Nat
                     /\ next_task_id'[k] = IF k = l THEN id + 1 ELSE next_task_id[k]
  BY <1>4 DEF PlacesInv, TypeOK
<1>7. \A r \in Servers : Kept(r)' = Kept(r)
  BY <1>4 DEF Kept
<1>8. InSubset'
  BY <1>1, <1>2, <1>3, <1>4, <1>7 DEF InSubset
<1>9. \A k \in LBs : Queued(k)' \subseteq Queued(k) \cup {IF k = l THEN id ELSE -1}
  <2>1. \A k \in LBs : queue[k] \in Seq(Nat)
    BY DEF PlacesInv, TypeOK
  <2>2. queue'[l] = Append(queue[l], id) /\ \A k \in LBs \ {l} : queue'[k] = queue[k]
    BY <1>4 DEF PlacesInv, TypeOK
  <2>3. Elements(queue'[l]) = Elements(queue[l]) \cup {id}
    BY <1>0, <2>1, <2>2, PushBack
  <2> QED
    BY <2>2, <2>3 DEF Queued
<1>10. FinishedOnce'
  <2>1. finished \subseteq Task
    BY DEF PlacesInv, TypeOK
  <2>2. \A t \in finished : t[1] \in LBs /\ t[2] \in Nat
    BY <2>1 DEF Task
  <2>3. \A t \in finished : t[2] < next_task_id'[t[1]] /\ t[2] \notin Queued(t[1])'
    BY <1>0, <1>6, <1>9, <2>2 DEF FinishedOnce
  <2>4. Travelling' = Travelling
    BY <1>2, <1>3 DEF Travelling
  <2> QED
    BY <1>2, <1>3, <1>4, <2>3, <2>4 DEF FinishedOnce
<1>11. ArrivalsBounded'
  <2>1. TaskCount[l] \in Nat
    BY AmphiQueueAssumption
  <2> QED
    BY <1>4, <1>6, <2>1 DEF ArrivalsBounded
<1>12. LoadsCounted'
  <2>1. id \notin Unanswered(l, s)
    <3>1. Unanswered(l, s) \subseteq Announced(l)
      BY <1>2 DEF Unanswered, UnansweredIn, Announced, Asking
    <3> QED
      BY <1>0, <3>1, CountsFinite DEF PlacesInv
  <2>2. Unanswered(l, s)' = Unanswered(l, s) \cup {id}
    <3>1. {n \in network' : n.lb = l /\ n.server = s /\ n.type \in {"intent", "pull"}}
            = {n \in network : n.lb = l /\ n.server = s /\ n.type \in {"intent", "pull"}}
              \cup {m}
      BY <1>2, <1>3
    <3> QED
      BY <1>2, <1>7, <3>1 DEF Unanswered, UnansweredIn
  <2>3. ASSUME NEW k \in LBs, NEW r \in Servers, k # l \/ r # s
        PROVE  Unanswered(k, r)' = Unanswered(k, r)
    <3>1. {n \in network' : n.lb = k /\ n.server = r /\ n.type \in {"intent", "pull"}}
            = {n \in network : n.lb = k /\ n.server = r /\ n.type \in {"intent", "pull"}}
      BY <1>2, <1>3, <2>3
    <3> QED
      BY <1>7, <3>1 DEF Unanswered, UnansweredIn
  <2>4. \A k \in LBs, r \in Servers :
          pull_intent_load'[k][r] =
            IF k = l /\ r = s THEN pull_intent_load[k][r] + 1 ELSE pull_intent_load[k][r]
    BY <1>1, <1>2 DEF PlacesInv, TypeOK
  <2>5. Cardinality(Unanswered(l, s)') = Cardinality(Unanswered(l, s)) + 1
    BY <1>2, <2>1, <2>2, AccountsFinite, CountUp
  <2> QED
    BY <1>2, <2>3, <2>4, <2>5 DEF LoadsCounted
<1>13. InFlightAccounting'
  BY <1>2, <1>3, <1>4 DEF InFlightAccounting
<1> QED
  BY <1>5, <1>8, <1>10, <1>11, <1>12, <1>13

LEMMA PullAccounts ==
  ASSUME AccountsInv, NEW m \in network, Pull(m)
  PROVE  AccountsInv'
<1> USE DEF AccountsInv
<1> DEFINE l == m.lb
           s == m.server
<1>1. PICK i \in PullPositions(l, m.id) :
        /\ queue' = [queue EXCEPT ![l] = RemoveAt(@, i)]
        /\ pull_intent_load' = [pull_intent_load EXCEPT ![l][s] = SaturatingDec(@)]
        /\ local_inflight' = [local_inflight EXCEPT ![l][s] = @ + 1]
        /\ network' = (network \ {m}) \cup {TaskMessage(l, s, queue[l][i])}
  BY PullFinds DEF Pull
<1> DEFINE e  == queue[l][i]
           tm == TaskMessage(l, s, e)
<1>2. /\ m.type = "pull"
      /\ UNCHANGED <<next_task_id, pull_intent_queue, serving, finished>>
  BY DEF Pull, serverVars
<1>3. /\ l \in LBs /\ s \in Servers /\ m.id \in Nat
      /\ i \in DOMAIN queue[l] /\ queue[l] \in Seq(Nat) /\ NoDuplicates(queue[l])
  BY Members DEF PlacesInv, PullPositions, TypeOK, OnePlace
<1>4. /\ tm.type = "task" /\ tm.lb = l /\ tm.server = s /\ tm.id = e
      /\ network' = (network \ {m}) \cup {tm}
  BY <1>1 DEF TaskMessage
<1>5. e \in Queued(l) /\ \A k \in LBs : Queued(k)' \subseteq Queued(k) /\ e \notin Queued(l)'
  <2>1. queue'[l] = RemoveAt(queue[l], i) /\ \A k \in LBs \ {l} : queue'[k] = queue[k]
    BY <1>1, <1>3 DEF PlacesInv, TypeOK
  <2>2. Elements(RemoveAt(queue[l], i)) = Elements(queue[l]) \ {e}
    BY <1>3, RemoveAtElements
  <2>3. e \in Elements(queue[l])
    BY <1>3 DEF Elements
  <2> HIDE DEF e, tm, l
  <2> QED
    BY <1>3, <2>1, <2>2, <2>3 DEF Queued
<1>6. PlacesInv'
  BY PullPlaces
<1>7. tm \notin network
  BY <1>4, <1>5 DEF PlacesInv, OnePlace, Travelling
<1> HIDE DEF e, tm
<1>8. \A r \in Servers : Kept(r)' = Kept(r)
  BY <1>2 DEF Kept
<1>9. InSubset'
  BY <1>2, <1>4, <1>8 DEF InSubset
<1>10. FinishedOnce'
  <2>1. finished \subseteq Task
    BY DEF PlacesInv, TypeOK
  <2>2. \A t \in finished : t[1] \in LBs
    BY <2>1 DEF Task
  <2>3. \A t \in finished : t[2] < next_task_id'[t[1]] /\ t[2] \notin Queued(t[1])'
    BY <1>2, <1>5, <2>2 DEF FinishedOnce
  <2>4. <<l, e>> \notin finished
    BY <1>5 DEF FinishedOnce
  <2>5. Travelling' = Travelling \cup {tm}
    BY <1>2, <1>4 DEF Travelling
  <2> HIDE DEF l
  <2> QED
    BY <1>2, <1>4, <2>3, <2>4, <2>5 DEF FinishedOnce
<1>11. ArrivalsBounded'
  BY <1>2 DEF ArrivalsBounded
<1> HIDE DEF l, s
<1>12. LoadsCounted'
  <2>1. m.id \in Unanswered(l, s)
    BY <1>2 DEF Unanswered, UnansweredIn, l, s
  <2>2. Unanswered(l, s)' = Unanswered(l, s) \ {m.id}
    <3>1. {n \in network' : n.lb = l /\ n.server = s /\ n.type \in {"intent", "pull"}}
            = {n \in network : n.lb = l /\ n.server = s /\ n.type \in {"intent", "pull"}}
              \ {m}
      BY <1>2, <1>4 DEF l, s
    <3>2. \A n \in network : n.lb = l /\ n.type \in {"intent", "pull"} /\ n.id = m.id => n = m
      BY <1>2 DEF PlacesInv, OneIntent, Asking, l
    <3>3. \A p \in Kept(s) : p[1] = l => p[2] # m.id
      <4>1. <<l, m.id>> \notin Kept(s) /\ Kept(s) \subseteq Task
        BY <1>2, <1>3, Members DEF PlacesInv, OneIntent, Asking, l
      <4> QED
        BY <4>1 DEF Task
    <3> QED
      BY <1>8, <1>3, <3>1, <3>2, <3>3 DEF Unanswered, UnansweredIn
  <2>3. ASSUME NEW k \in LBs, NEW r \in Servers, k # l \/ r # s
        PROVE  Unanswered(k, r)' = Unanswered(k, r)
    <3>1. {n \in network' : n.lb = k /\ n.server = r /\ n.type \in {"intent", "pull"}}
            = {n \in network : n.lb = k /\ n.server = r /\ n.type \in {"intent", "pull"}}
      BY <1>2, <1>4, <2>3 DEF l, s
    <3> QED
      BY <1>8, <3>1 DEF Unanswered, UnansweredIn
  <2>4. \A k \in LBs, r \in Servers :
          pull_intent_load'[k][r] =
            IF k = l /\ r = s THEN SaturatingDec(pull_intent_load[k][r])
            ELSE pull_intent_load[k][r]
    BY <1>1, <1>3 DEF PlacesInv, TypeOK
  <2>5. /\ Cardinality(Unanswered(l, s)') = Cardinality(Unanswered(l, s)) - 1
        /\ SaturatingDec(Cardinality(Unanswered(l, s))) = Cardinality(Unanswered(l, s)) - 1
    BY <1>3, <2>1, <2>2, AccountsFinite, CountDown
  <2> QED
    BY <1>3, <2>3, <2>4, <2>5 DEF LoadsCounted
<1>13. InFlightAccounting'
  <2>1. Due(l, s)' = Due(l, s) \cup {tm} /\ tm \notin Due(l, s)
    BY <1>2, <1>4, <1>7 DEF Due
  <2>2. ASSUME NEW k \in LBs, NEW r \in Servers, k # l \/ r # s
        PROVE  Due(k, r)' = Due(k, r)
    BY <1>2, <1>4, <2>2 DEF Due
  <2>3. \A k \in LBs, r \in Servers : ServingOf(k, r)' = ServingOf(k, r)
    BY <1>2 DEF ServingOf
  <2>4. \A k \in LBs, r \in Servers :
          local_inflight'[k][r] =
            IF k = l /\ r = s THEN local_inflight[k][r] + 1 ELSE local_inflight[k][r]
    BY <1>1, <1>3 DEF PlacesInv, TypeOK
  <2>5. Cardinality(Due(l, s)') = Cardinality(Due(l, s)) + 1
    BY <1>3, <2>1, AccountsFinite, CountUp
  <2>6. \A k \in LBs, r \in Servers :
          local_inflight[k][r] = Cardinality(Due(k, r)) + Cardinality(ServingOf(k, r))
    BY InFlightMeans
  <2>7. ASSUME NEW k \in LBs, NEW r \in Servers
        PROVE  local_inflight'[k][r]
                 = Cardinality(Due(k, r)') + Cardinality(ServingOf(k, r)')
    <3>1. CASE k = l /\ r = s
      <4>1. /\ Cardinality(Due(l, s)) \in Nat /\ Cardinality(ServingOf(l, s)) \in Nat
        BY <1>3, AccountTypes
      <4>2. local_inflight'[l][s] = local_inflight[l][s] + 1
        BY <1>3, <2>4
      <4>3. local_inflight[l][s] = Cardinality(Due(l, s)) + Cardinality(ServingOf(l, s))
        BY <1>3, <2>6
      <4>4. Cardinality(ServingOf(l, s)') = Cardinality(ServingOf(l, s))
        BY <1>3, <2>3
      <4>5. local_inflight'[l][s] = Cardinality(Due(l, s)') + Cardinality(ServingOf(l, s)')
        BY <2>5, <4>1, <4>2, <4>3, <4>4
      <4> QED
        BY <3>1, <4>5
    <3>2. CASE k # l \/ r # s
      BY <2>2, <2>3, <2>4, <2>6, <3>2
    <3> QED
      BY <3>1, <3>2
  <2> QED
    BY <2>7 DEF InFlightAccounting, Due, ServingOf
<1> QED
  BY <1>6, <1>9, <1>10, <1>11, <1>12, <1>13

LEMMA ReleaseAccounts ==
  ASSUME AccountsInv, NEW m \in network, Release(m)
  PROVE  AccountsInv'
<1> USE DEF AccountsInv
<1> DEFINE l == m.lb
           s == m.server
<1>1. /\ m.type = "release" /\ network' = network \ {m}
      /\ local_inflight' = [local_inflight EXCEPT ![l][s] = SaturatingDec(@)]
      /\ UNCHANGED <<next_task_id, queue, pull_intent_load, pull_intent_queue, serving,
                     finished>>
  BY DEF Release, serverVars
<1>2. l \in LBs /\ s \in Servers
  BY Members DEF PlacesInv
<1>3. PlacesInv'
  BY ReleasePlaces
<1>4. /\ Travelling' = Travelling
      /\ \A k \in LBs : Queued(k)' = Queued(k)
      /\ \A r \in Servers : Kept(r)' = Kept(r)
  BY <1>1 DEF Travelling, Queued, Kept
<1>5. InSubset'
  BY <1>1, <1>4 DEF InSubset
<1>6. FinishedOnce'
  <2>1. finished \subseteq Task
    BY DEF PlacesInv, TypeOK
  <2>2. \A t \in finished : t[1] \in LBs
    BY <2>1 DEF Task
  <2> QED
    BY <1>1, <1>4, <2>2 DEF FinishedOnce
<1>7. ArrivalsBounded'
  BY <1>1 DEF ArrivalsBounded
<1>8. LoadsCounted'
  <2>1. ASSUME NEW k \in LBs, NEW r \in Servers PROVE Unanswered(k, r)' = Unanswered(k, r)
    <3>1. {n \in network' : n.lb = k /\ n.server = r /\ n.type \in {"intent", "pull"}}
            = {n \in network : n.lb = k /\ n.server = r /\ n.type \in {"intent", "pull"}}
      BY <1>1
    <3> QED
      BY <1>4, <3>1 DEF Unanswered, UnansweredIn
  <2> QED
    BY <1>1, <2>1 DEF LoadsCounted
<1>9. InFlightAccounting'
  <2>1. m \in Due(l, s) /\ Due(l, s)' = Due(l, s) \ {m}
    BY <1>1 DEF Due
  <2>2. ASSUME NEW k \in LBs, NEW r \in Servers, k # l \/ r # s
        PROVE  Due(k, r)' = Due(k, r)
    BY <1>1, <2>2 DEF Due
  <2> HIDE DEF l, s
  <2>3. \A k \in LBs, r \in Servers : ServingOf(k, r)' = ServingOf(k, r)
    BY <1>1 DEF ServingOf
  <2>4. \A k \in LBs, r \in Servers :
          local_inflight'[k][r] =
            IF k = l /\ r = s THEN SaturatingDec(local_inflight[k][r])
            ELSE local_inflight[k][r]
    BY <1>1, <1>2 DEF PlacesInv, TypeOK
  <2>5. \A k \in LBs, r \in Servers :
          local_inflight[k][r] = Cardinality(Due(k, r)) + Cardinality(ServingOf(k, r))
    BY InFlightMeans
  <2>6. local_inflight'[l][s] = Cardinality(Due(l, s)') + Cardinality(ServingOf(l, s)')
    <3>1. /\ Cardinality(Due(l, s)') = Cardinality(Due(l, s)) - 1
          /\ Cardinality(Due(l, s)) \in Nat \ {0}
      BY <1>2, <2>1, AccountsFinite, CountDown
    <3>2. Cardinality(ServingOf(l, s)) \in Nat
      BY <1>2, AccountTypes
    <3>3. /\ local_inflight'[l][s] = SaturatingDec(local_inflight[l][s])
          /\ local_inflight[l][s] = Cardinality(Due(l, s)) + Cardinality(ServingOf(l, s))
          /\ Cardinality(ServingOf(l, s)') = Cardinality(ServingOf(l, s))
      BY <1>2, <2>3, <2>4, <2>5
    <3> QED
      BY <3>1, <3>2, <3>3 DEF SaturatingDec
  <2>7. ASSUME NEW k \in LBs, NEW r \in Servers
        PROVE  local_inflight'[k][r]
                 = Cardinality(Due(k, r)') + Cardinality(ServingOf(k, r)')
    <3>1. CASE k = l /\ r = s
      BY <2>6, <3>1
    <3>2. CASE k # l \/ r # s
      BY <2>2, <2>3, <2>4, <2>5, <3>2
    <3> QED
      BY <3>1, <3>2
  <2> QED
    BY <2>7 DEF InFlightAccounting, Due, ServingOf
<1> QED
  BY <1>3, <1>5, <1>6, <1>7, <1>8, <1>9

LEMMA ServerInputAccounts ==
  ASSUME AccountsInv, NEW m \in network, ServerInput(m)
  PROVE  AccountsInv'
<1> USE DEF AccountsInv
<1> DEFINE l == m.lb
           s == m.server
           t == <<l, m.id>>
<1>1. /\ m.type = "task" /\ network' = network \ {m}
      /\ serving' = [serving EXCEPT ![s] = @ \cup {t}]
      /\ UNCHANGED <<next_task_id, queue, pull_intent_load, local_inflight,
                     pull_intent_queue, finished>>
  BY DEF ServerInput, lbVars
<1>2. l \in LBs /\ s \in Servers /\ m \in Travelling
  BY <1>1, Members DEF PlacesInv, Travelling
<1>3. PlacesInv'
  BY ServerInputPlaces
<1>4. /\ Travelling' = Travelling \ {m}
      /\ \A k \in LBs : Queued(k)' = Queued(k)
      /\ \A r \in Servers : Kept(r)' = Kept(r)
  BY <1>1 DEF Travelling, Queued, Kept
<1>5. \A r \in Servers : serving'[r] = IF r = s THEN serving[r] \cup {t} ELSE serving[r]
  BY <1>1, <1>2 DEF PlacesInv, TypeOK
<1>6. t \notin finished /\ t \notin serving[s] /\ s \in Subset[l]
  BY <1>2 DEF FinishedOnce, InSubset, PlacesInv, OnePlace
<1>7. InSubset'
  BY <1>1, <1>4, <1>5, <1>6 DEF InSubset
<1>8. FinishedOnce'
  <2>1. finished \subseteq Task
    BY DEF PlacesInv, TypeOK
  <2>2. \A u \in finished : u[1] \in LBs
    BY <2>1 DEF Task
  <2> QED
    BY <1>1, <1>4, <1>5, <1>6, <2>2 DEF FinishedOnce
<1>9. ArrivalsBounded'
  BY <1>1 DEF ArrivalsBounded
<1>10. LoadsCounted'
  <2>1. ASSUME NEW k \in LBs, NEW r \in Servers PROVE Unanswered(k, r)' = Unanswered(k, r)
    <3>1. {n \in network' : n.lb = k /\ n.server = r /\ n.type \in {"intent", "pull"}}
            = {n \in network : n.lb = k /\ n.server = r /\ n.type \in {"intent", "pull"}}
      BY <1>1
    <3> QED
      BY <1>4, <3>1 DEF Unanswered, UnansweredIn
  <2> QED
    BY <1>1, <2>1 DEF LoadsCounted
<1>11. InFlightAccounting'
  <2>1. m \in Due(l, s) /\ Due(l, s)' = Due(l, s) \ {m}
    BY <1>1 DEF Due
  <2>2. ServingOf(l, s)' = ServingOf(l, s) \cup {t} /\ t \notin ServingOf(l, s)
    <3>1. t[1] = l
      OBVIOUS
    <3> HIDE DEF l, s, t
    <3> QED
      BY <1>2, <1>5, <1>6, <3>1 DEF ServingOf
  <2>3. ASSUME NEW k \in LBs, NEW r \in Servers, k # l \/ r # s
        PROVE  Due(k, r)' = Due(k, r) /\ ServingOf(k, r)' = ServingOf(k, r)
    BY <1>1, <1>5, <2>3 DEF Due, ServingOf
  <2> HIDE DEF l, s, t
  <2>4. \A k \in LBs, r \in Servers :
          local_inflight[k][r] = Cardinality(Due(k, r)) + Cardinality(ServingOf(k, r))
    BY InFlightMeans
  <2>5. local_inflight'[l][s] = Cardinality(Due(l, s)') + Cardinality(ServingOf(l, s)')
    <3>1. /\ Cardinality(Due(l, s)') = Cardinality(Due(l, s)) - 1
          /\ Cardinality(Due(l, s)) \in Nat
      BY <1>2, <2>1, AccountsFinite, CountDown
    <3>2. /\ Cardinality(ServingOf(l, s)') = Cardinality(ServingOf(l, s)) + 1
          /\ Cardinality(ServingOf(l, s)) \in Nat
      BY <1>2, <2>2, AccountsFinite, AccountTypes, CountUp
    <3>3. /\ local_inflight'[l][s] = local_inflight[l][s]
          /\ local_inflight[l][s] = Cardinality(Due(l, s)) + Cardinality(ServingOf(l, s))
      BY <1>1, <1>2, <2>4
    <3> QED
      BY <3>1, <3>2, <3>3
  <2>6. ASSUME NEW k \in LBs, NEW r \in Servers
        PROVE  local_inflight'[k][r]
                 = Cardinality(Due(k, r)') + Cardinality(ServingOf(k, r)')
    <3>1. CASE k = l /\ r = s
      BY <2>5, <3>1
    <3>2. CASE k # l \/ r # s
      BY <1>1, <2>3, <2>4, <3>2
    <3> QED
      BY <3>1, <3>2
  <2> QED
    BY <2>6 DEF InFlightAccounting, Due, ServingOf
<1> QED
  BY <1>3, <1>7, <1>8, <1>9, <1>10, <1>11

LEMMA ReceivePullIntentAccounts ==
  ASSUME AccountsInv, NEW m \in network, ReceivePullIntent(m)
  PROVE  AccountsInv'
<1> USE DEF AccountsInv
<1>1. /\ \A l \in LBs, r \in Servers : Unanswered(l, r)' = Unanswered(l, r)
      /\ \A n : n.type \notin {"intent", "pull"} => (n \in network' <=> n \in network)
      /\ InSubset'
  BY ReceivePullIntentUnanswered
<1>2. UNCHANGED <<next_task_id, queue, pull_intent_load, local_inflight, serving, finished>>
  BY DEF ReceivePullIntent, lbVars
<1>3. PlacesInv'
  BY ReceivePullIntentPlaces
<1>4. Travelling' = Travelling /\ \A k \in LBs : Queued(k)' = Queued(k)
  BY <1>1, <1>2 DEF Travelling, Queued
<1>5. FinishedOnce'
  <2>1. finished \subseteq Task
    BY DEF PlacesInv, TypeOK
  <2>2. \A t \in finished : t[1] \in LBs
    BY <2>1 DEF Task
  <2> QED
    BY <1>1, <1>2, <1>4, <2>2 DEF FinishedOnce
<1>6. ArrivalsBounded'
  BY <1>2 DEF ArrivalsBounded
<1>7. LoadsCounted'
  BY <1>1, <1>2 DEF LoadsCounted
<1>8. InFlightAccounting'
  <2>1. \A l \in LBs, s \in Servers : Due(l, s)' = Due(l, s)
    BY <1>1 DEF Due
  <2>2. \A l \in LBs, s \in Servers : ServingOf(l, s)' = ServingOf(l, s)
    BY <1>2 DEF ServingOf
  <2>3. \A l \in LBs, s \in Servers :
          local_inflight[l][s] = Cardinality(Due(l, s)) + Cardinality(ServingOf(l, s))
    BY InFlightMeans
  <2>4. \A l \in LBs, s \in Servers :
          local_inflight'[l][s] = Cardinality(Due(l, s)') + Cardinality(ServingOf(l, s)')
    BY <1>2, <2>1, <2>2, <2>3
  <2> QED
    BY <2>4 DEF InFlightAccounting, Due, ServingOf
<1> QED
  BY <1>1, <1>3, <1>5, <1>6, <1>7, <1>8

LEMMA CompleteAccounts ==
  ASSUME AccountsInv, NEW s \in Servers, NEW t \in serving[s], Complete(s, t)
  PROVE  AccountsInv'
<1> USE DEF AccountsInv
<1> DEFINE rel == ReleaseOf(t[1], s, t[2])
<1>1. /\ \A l \in LBs, r \in Servers : Unanswered(l, r)' = Unanswered(l, r)
      /\ \A n : n.type \notin {"intent", "pull"} =>
           (n \in network' <=> n \in network \/ n = rel)
      /\ InSubset'
  BY CompleteUnanswered
<1>2. /\ serving' = [serving EXCEPT ![s] = @ \ {t}]
      /\ finished' = finished \cup {t}
      /\ UNCHANGED <<next_task_id, queue, pull_intent_load, local_inflight>>
  BY DEF Complete, lbVars
<1>3. PlacesInv'
  BY CompletePlaces
<1>4. t \in Task /\ t[1] \in LBs /\ t[2] \in Nat /\ t = <<t[1], t[2]>>
  BY Members DEF PlacesInv
<1>5. /\ rel.type = "release" /\ rel.lb = t[1] /\ rel.server = s /\ rel.id = t[2]
  BY DEF ReleaseOf
<1> HIDE DEF rel
<1>6. Travelling' = Travelling /\ \A k \in LBs : Queued(k)' = Queued(k)
  BY <1>1, <1>2, <1>5 DEF Travelling, Queued
<1>7. \A r \in Servers : serving'[r] = IF r = s THEN serving[r] \ {t} ELSE serving[r]
  BY <1>2 DEF PlacesInv, TypeOK
<1>8. /\ t \notin finished /\ t[2] < next_task_id[t[1]] /\ t[2] \notin Queued(t[1])
      /\ \A m \in Travelling : <<m.lb, m.id>> # t
      /\ \A r \in Servers \ {s} : t \notin serving[r]
  <2>1. t \notin finished
    BY DEF FinishedOnce
  <2>2. t[2] < next_task_id[t[1]] /\ t[2] \notin Queued(t[1])
    BY DEF PlacesInv, IdsKnown, OnePlace
  <2>3. \A m \in Travelling : <<m.lb, m.id>> # t
    BY DEF PlacesInv, OnePlace
  <2>4. \A r \in Servers \ {s} : t \notin serving[r]
    BY DEF PlacesInv, OnePlace
  <2> QED
    BY <2>1, <2>2, <2>3, <2>4
<1>9. FinishedOnce'
  <2>1. finished \subseteq Task
    BY DEF PlacesInv, TypeOK
  <2>2. \A u \in finished' : u[1] \in LBs
    BY <1>2, <1>4, <2>1 DEF Task
  <2>3. \A u \in finished' : u[2] < next_task_id'[u[1]] /\ u[2] \notin Queued(u[1])'
    BY <1>2, <1>6, <1>8, <2>2 DEF FinishedOnce
  <2>4. \A m \in network' : m.type = "release" => <<m.lb, m.id>> \in finished'
    BY <1>1, <1>2, <1>4, <1>5 DEF FinishedOnce
  <2>5. \A r \in Servers : serving'[r] \cap finished' = {}
    BY <1>2, <1>7, <1>8 DEF FinishedOnce
  <2> QED
    BY <1>2, <1>6, <1>8, <2>3, <2>4, <2>5 DEF FinishedOnce
<1>10. ArrivalsBounded'
  BY <1>2 DEF ArrivalsBounded
<1>11. LoadsCounted'
  BY <1>1, <1>2 DEF LoadsCounted
<1>12. InFlightAccounting'
  <2> DEFINE l == t[1]
  <2>1. rel \notin network
    BY <1>4, <1>5, <1>8 DEF FinishedOnce
  <2>2. Due(l, s)' = Due(l, s) \cup {rel} /\ rel \notin Due(l, s)
    <3>1. \A n : n \in Due(l, s)' <=> n \in Due(l, s) \/ n = rel
      BY <1>1, <1>5 DEF Due
    <3> QED
      BY <2>1, <3>1 DEF Due
  <2>3. t \in ServingOf(l, s) /\ ServingOf(l, s)' = ServingOf(l, s) \ {t}
    BY <1>7 DEF ServingOf
  <2>4. ASSUME NEW k \in LBs, NEW r \in Servers, k # l \/ r # s
        PROVE  Due(k, r)' = Due(k, r) /\ ServingOf(k, r)' = ServingOf(k, r)
    <3>1. \A n : n \in Due(k, r)' <=> n \in Due(k, r)
      BY <1>1, <1>5, <2>4 DEF Due
    <3>2. ServingOf(k, r)' = ServingOf(k, r)
      BY <1>7, <2>4 DEF ServingOf
    <3> QED
      BY <3>1, <3>2 DEF Due
  <2>5. l \in LBs
    BY <1>4
  <2> HIDE DEF l
  <2>6. \A k \in LBs, r \in Servers :
          local_inflight[k][r] = Cardinality(Due(k, r)) + Cardinality(ServingOf(k, r))
    BY InFlightMeans
  <2>7. local_inflight'[l][s] = Cardinality(Due(l, s)') + Cardinality(ServingOf(l, s)')
    <3>1. /\ Cardinality(Due(l, s)') = Cardinality(Due(l, s)) + 1
          /\ Cardinality(Due(l, s)) \in Nat
      BY <2>2, <2>5, AccountsFinite, AccountTypes, CountUp
    <3>2. /\ Cardinality(ServingOf(l, s)') = Cardinality(ServingOf(l, s)) - 1
          /\ Cardinality(ServingOf(l, s)) \in Nat
      BY <2>3, <2>5, AccountsFinite, CountDown
    <3>3. /\ local_inflight'[l][s] = local_inflight[l][s]
          /\ local_inflight[l][s] = Cardinality(Due(l, s)) + Cardinality(ServingOf(l, s))
      BY <1>2, <2>5, <2>6
    <3> QED
      BY <3>1, <3>2, <3>3
  <2>8. ASSUME NEW k \in LBs, NEW r \in Servers
        PROVE  local_inflight'[k][r]
                 = Cardinality(Due(k, r)') + Cardinality(ServingOf(k, r)')
    <3>1. CASE k = l /\ r = s
      BY <2>7, <3>1
    <3>2. CASE k # l \/ r # s
      BY <1>2, <2>4, <2>6, <3>2
    <3> QED
      BY <3>1, <3>2
  <2> QED
    BY <2>8 DEF InFlightAccounting, Due, ServingOf
<1> QED
  BY <1>1, <1>3, <1>9, <1>10, <1>11, <1>12

-----------------------------------------------------------------------------
(* The theorems about the accounts *)

LEMMA NextAccounts == AccountsInv /\ [Next]_vars => AccountsInv'
<1> SUFFICES ASSUME AccountsInv, [Next]_vars PROVE AccountsInv'
  OBVIOUS
<1>1. ASSUME NEW l \in LBs, Input(l) PROVE AccountsInv'
  BY <1>1, InputAccounts
<1>2. ASSUME NEW m \in network, Deliver(m) PROVE AccountsInv'
  BY <1>2, ReceivePullIntentAccounts, PullAccounts, ServerInputAccounts, ReleaseAccounts
  DEF Deliver
<1>3. ASSUME NEW s \in Servers, NEW t \in serving[s], Complete(s, t) PROVE AccountsInv'
  BY <1>3, CompleteAccounts
<1>4. CASE UNCHANGED vars
  <2>1. UNCHANGED <<next_task_id, queue, pull_intent_load, local_inflight,
                    pull_intent_queue, serving, network, finished>>
    BY <1>4 DEF vars, lbVars, serverVars
  <2>2. PlacesInv'
    BY <1>4, NextPlaces DEF AccountsInv
  <2>3. InSubset' /\ FinishedOnce' /\ ArrivalsBounded'
    BY <2>1 DEF AccountsInv, InSubset, FinishedOnce, ArrivalsBounded, Kept, Queued, Travelling
  <2>4. LoadsCounted' /\ InFlightAccounting'
    BY <2>1 DEF AccountsInv, LoadsCounted, InFlightAccounting, Unanswered, Kept
  <2> QED
    BY <2>2, <2>3, <2>4 DEF AccountsInv
<1> QED
  BY <1>1, <1>2, <1>3, <1>4 DEF Next, Finished

(* Every reachable state keeps the accounts. *)
THEOREM AccountsInvariant == Safety => []AccountsInv
BY InitAccounts, NextAccounts, PTL DEF Safety

(***************************************************************************)
(* local_inflight counts the tasks sent and not yet released, so the       *)
(* saturating_sub of LoadBalancer::release never meets a zero.             *)
(***************************************************************************)
THEOREM InFlightCorrect == Safety => []InFlightAccounting
<1>1. AccountsInv => InFlightAccounting
  BY DEF AccountsInv
<1> QED
  BY <1>1, AccountsInvariant, PTL

(* A function that pairs off two sets shows that they have the same size. *)
LEMMA SameSize ==
  ASSUME NEW S, NEW T, IsFiniteSet(T), NEW f \in [S -> T],
         \A x, y \in S : f[x] = f[y] => x = y,
         \A z \in T : \E x \in S : f[x] = z
  PROVE  IsFiniteSet(S) /\ Cardinality(S) = Cardinality(T)
<1>1. f \in Injection(S, T) /\ f \in Surjection(S, T)
  BY DEF Injection, Surjection, IsInjective
<1> QED
  BY <1>1, FS_Injection

LEMMA DisjointSizes ==
  ASSUME NEW S, IsFiniteSet(S), NEW T, IsFiniteSet(T), S \cap T = {}
  PROVE  Cardinality(S \cup T) = Cardinality(S) + Cardinality(T)
<1>1. Cardinality(S \cap T) = 0
  BY FS_EmptySet
<1>2. Cardinality(S) \in Nat /\ Cardinality(T) \in Nat
  BY FS_CardinalityType
<1>3. Cardinality(S \cup T) = Cardinality(S) + Cardinality(T) - Cardinality(S \cap T)
  BY FS_Union
<1> QED
  BY <1>1, <1>2, <1>3

(***************************************************************************)
(* The intents of l at the servers of W, in messages and in the servers'   *)
(* queues, are as many as the ids they name.                               *)
(***************************************************************************)
IntentsIn(l, W) == UNION {IntentMessages(l, s) : s \in W}
KeptIn(l, W) == UNION {{s} \X KeptIntents(l, s) : s \in W}
NamedIn(l, W) == {m.id : m \in IntentsIn(l, W)}
NamedKept(l, W) == {pull_intent_queue[p[1]][p[2]][2] : p \in KeptIn(l, W)}

LEMMA IntentsCounted ==
  ASSUME PlacesInv, NEW l \in LBs, NEW W \in SUBSET Servers
  PROVE  /\ NamedIn(l, W) \subseteq Announced(l) /\ NamedKept(l, W) \subseteq Announced(l)
         /\ IsFiniteSet(IntentsIn(l, W)) /\ IsFiniteSet(KeptIn(l, W))
         /\ Cardinality(IntentsIn(l, W)) \in Nat /\ Cardinality(KeptIn(l, W)) \in Nat
         /\ Cardinality(IntentsIn(l, W)) + Cardinality(KeptIn(l, W))
              = Cardinality(NamedIn(l, W) \cup NamedKept(l, W))
<1> USE DEF PlacesInv
<1> DEFINE sent == IntentsIn(l, W)
           kept == KeptIn(l, W)
           at(p) == pull_intent_queue[p[1]][p[2]]
<1>1. IsFiniteSet(Announced(l))
  BY CountsFinite
<1>2. \A m \in sent : m \in Asking /\ m.lb = l
  BY DEF IntentsIn, IntentMessages, Asking
<1>3. ASSUME NEW p \in kept
      PROVE  /\ p[1] \in Servers /\ p[2] \in DOMAIN pull_intent_queue[p[1]]
             /\ p = <<p[1], p[2]>>
             /\ at(p) \in Kept(p[1]) /\ at(p) = <<l, at(p)[2]>>
  <2>1. PICK s \in W : p \in {s} \X KeptIntents(l, s)
    BY <1>3 DEF KeptIn
  <2>2. /\ p[1] = s /\ p[2] \in DOMAIN pull_intent_queue[s] /\ p = <<p[1], p[2]>>
        /\ pull_intent_queue[s][p[2]][1] = l
    BY <2>1 DEF KeptIntents
  <2>3. at(p) \in Kept(s)
    BY <2>2 DEF Kept, Elements
  <2>4. at(p) = <<at(p)[1], at(p)[2]>>
    BY <2>3, Members
  <2> QED
    BY <2>2, <2>3, <2>4
<1>4. NamedIn(l, W) \subseteq Announced(l)
  BY <1>2 DEF NamedIn, Announced
<1>5. NamedKept(l, W) \subseteq Announced(l)
  <2>1. \A p \in kept : at(p)[2] \in Announced(l)
    <3> SUFFICES ASSUME NEW p \in kept PROVE at(p)[2] \in Announced(l)
      OBVIOUS
    <3>1. p[1] \in Servers /\ at(p) \in Kept(p[1]) /\ at(p)[1] = l
      BY <1>3
    <3> QED
      BY <3>1 DEF Announced
  <2> QED
    BY <2>1 DEF NamedKept
<1>6. IsFiniteSet(NamedIn(l, W)) /\ IsFiniteSet(NamedKept(l, W))
  BY <1>1, <1>4, <1>5, FS_Subset
<1>7. IsFiniteSet(sent) /\ Cardinality(sent) = Cardinality(NamedIn(l, W))
  <2> DEFINE f == [m \in sent |-> m.id]
  <2>1. f \in [sent -> NamedIn(l, W)] /\ \A z \in NamedIn(l, W) : \E m \in sent : f[m] = z
    BY DEF NamedIn
  <2>2. \A m, n \in sent : f[m] = f[n] => m = n
    BY <1>2 DEF OneIntent
  <2> HIDE DEF f, sent
  <2> QED
    BY <1>6, <2>1, <2>2, SameSize
<1>8. IsFiniteSet(kept) /\ Cardinality(kept) = Cardinality(NamedKept(l, W))
  <2> DEFINE f == [p \in kept |-> at(p)[2]]
  <2>1. f \in [kept -> NamedKept(l, W)] /\ \A z \in NamedKept(l, W) : \E p \in kept : f[p] = z
    BY DEF NamedKept
  <2>2. ASSUME NEW p \in kept, NEW q \in kept, f[p] = f[q] PROVE p = q
    <3>1. at(p) = at(q)
      BY <1>3, <2>2
    <3>2. p[1] = q[1]
      BY <1>3, <3>1 DEF OneIntent
    <3>3. p[2] = q[2]
      BY <1>3, <3>1, <3>2 DEF OneIntent, NoDuplicates
    <3> QED
      BY <1>3, <3>2, <3>3
  <2> HIDE DEF f, kept
  <2> QED
    BY <1>6, <2>1, <2>2, SameSize
<1>9. NamedIn(l, W) \cap NamedKept(l, W) = {}
  <2> SUFFICES ASSUME NEW m \in sent, NEW p \in kept, m.id = at(p)[2] PROVE FALSE
    BY DEF NamedIn, NamedKept
  <2>1. <<m.lb, m.id>> \in Kept(p[1]) /\ p[1] \in Servers
    BY <1>2, <1>3
  <2> QED
    BY <1>2, <2>1 DEF OneIntent
<1>10. Cardinality(NamedIn(l, W) \cup NamedKept(l, W))
         = Cardinality(NamedIn(l, W)) + Cardinality(NamedKept(l, W))
  BY <1>6, <1>9, DisjointSizes
<1> QED
  BY <1>4, <1>5, <1>7, <1>8, <1>10, FS_CardinalityType

(***************************************************************************)
(* pull_intent_load is the number of unanswered intents at the server: the *)
(* saturating_sub of LoadBalancer::pull never meets a zero.                *)
(***************************************************************************)
THEOREM PullIntentLoadCorrect == Safety => []PullIntentLoadExact
<1>1. ASSUME AccountsInv PROVE PullIntentLoadExact
  <2> SUFFICES ASSUME NEW l \in LBs, NEW s \in Servers
               PROVE  pull_intent_load[l][s] =
                        Cardinality(IntentMessages(l, s)) + Cardinality(KeptIntents(l, s))
    BY DEF PullIntentLoadExact
  <2>1. PlacesInv /\ pull_intent_load[l][s] = Cardinality(Unanswered(l, s))
    BY <1>1 DEF AccountsInv, LoadsCounted
  <2>2. IntentsIn(l, {s}) = IntentMessages(l, s) /\ KeptIn(l, {s}) = {s} \X KeptIntents(l, s)
    BY DEF IntentsIn, KeptIn
  <2>3. Cardinality(KeptIn(l, {s})) = Cardinality(KeptIntents(l, s))
    <3> DEFINE kept == KeptIntents(l, s)
               f == [i \in kept |-> <<s, i>>]
    <3>1. IsFiniteSet({s} \X kept)
      BY <2>1, <2>2, IntentsCounted
    <3>2. /\ f \in [kept -> {s} \X kept]
          /\ \A i, j \in kept : f[i] = f[j] => i = j
          /\ \A z \in {s} \X kept : \E i \in kept : f[i] = z
      OBVIOUS
    <3> HIDE DEF f, kept
    <3>3. Cardinality(kept) = Cardinality({s} \X kept)
      BY <3>1, <3>2, SameSize
    <3> QED
      BY <2>2, <3>3 DEF kept
  <2>4. NamedIn(l, {s}) \cup NamedKept(l, {s}) = Unanswered(l, s)
    <3>1. NamedIn(l, {s})
            = {m.id : m \in {n \in network : /\ n.lb = l /\ n.server = s
                                             /\ n.type \in {"intent", "pull"}}}
      BY <2>2 DEF NamedIn, IntentMessages
    <3>2. NamedKept(l, {s}) = {p[2] : p \in {q \in Kept(s) : q[1] = l}}
      <4>1. NamedKept(l, {s}) = {pull_intent_queue[s][i][2] : i \in KeptIntents(l, s)}
        <5>1. \A p \in KeptIn(l, {s}) : p[1] = s /\ p[2] \in KeptIntents(l, s)
          BY <2>2
        <5>2. \A i \in KeptIntents(l, s) :
                /\ <<s, i>> \in KeptIn(l, {s}) /\ <<s, i>>[1] = s /\ <<s, i>>[2] = i
          BY <2>2
        <5> QED
          BY <5>1, <5>2 DEF NamedKept
      <4> QED
        BY <4>1 DEF KeptIntents, Kept, Elements
    <3> QED
      BY <3>1, <3>2 DEF Unanswered, UnansweredIn
  <2>5. Cardinality(IntentsIn(l, {s})) + Cardinality(KeptIn(l, {s}))
          = Cardinality(NamedIn(l, {s}) \cup NamedKept(l, {s}))
    BY <2>1, IntentsCounted
  <2> QED
    BY <2>1, <2>2, <2>3, <2>4, <2>5
<1> QED
  BY <1>1, AccountsInvariant, PTL

(***************************************************************************)
(* A balancer has as many unanswered intents as queued tasks, and bound    *)
(* ones name exactly those tasks: no task is forgotten or asked for twice. *)
(***************************************************************************)
THEOREM IntentsMatch == Safety => []IntentsMatchQueue
<1>1. ASSUME PlacesInv PROVE IntentsMatchQueue
  <2> SUFFICES ASSUME NEW l \in LBs
               PROVE  LET inFlight == UNION {IntentMessages(l, s) : s \in Servers}
                          named == {m.id : m \in inFlight}
                                     \cup {pull_intent_queue[p[1]][p[2]][2] : p \in KeptPositions(l)}
                      IN /\ Len(queue[l]) = Cardinality(inFlight) + Cardinality(KeptPositions(l))
                         /\ bound => named = {queue[l][i] : i \in DOMAIN queue[l]}
    BY DEF IntentsMatchQueue
  <2> DEFINE inFlight == IntentsIn(l, Servers)
             kept == KeptIn(l, Servers)
             named == NamedIn(l, Servers) \cup NamedKept(l, Servers)
  <2>1. /\ Cardinality(Announced(l)) = Cardinality(Queued(l))
        /\ bound => Announced(l) = Queued(l)
        /\ queue[l] \in Seq(Nat) /\ NoDuplicates(queue[l])
        /\ IsFiniteSet(Queued(l))
    BY <1>1, CountsFinite DEF PlacesInv, AnnouncedQueued, OnePlace, TypeOK
  <2>2. Len(queue[l]) = Cardinality(Queued(l))
    <3>1. /\ queue[l] \in [1 .. Len(queue[l]) -> Queued(l)]
          /\ \A i, j \in 1 .. Len(queue[l]) : queue[l][i] = queue[l][j] => i = j
          /\ \A z \in Queued(l) : \E i \in 1 .. Len(queue[l]) : queue[l][i] = z
      BY <2>1 DEF Queued, Elements, NoDuplicates
    <3>2. PICK q \in Seq(Nat), n \in Nat : q = queue[l] /\ n = Len(queue[l])
      BY <2>1
    <3>3. Cardinality(1 .. n) = Cardinality(Queued(l))
      <4> DEFINE S == 1 .. n
                 T == Queued(l)
      <4>1. q \in [S -> T] /\ IsFiniteSet(T)
        BY <2>1, <3>1, <3>2
      <4>2. \A i, j \in S : q[i] = q[j] => i = j
        BY <3>1, <3>2
      <4>3. \A z \in T : \E i \in S : q[i] = z
        BY <3>1, <3>2
      <4> HIDE DEF S, T
      <4>4. Cardinality(S) = Cardinality(T)
        BY <4>1, <4>2, <4>3, SameSize
      <4> QED
        BY <4>4 DEF S, T
    <3>4. Cardinality(1 .. n) = n
      <4>1. Cardinality(1 .. n) = IF 1 > n THEN 0 ELSE n - 1 + 1
        BY FS_Interval
      <4> QED
        BY <4>1
    <3> QED
      BY <3>2, <3>3, <3>4
  <2>3. named = Announced(l)
    <3>1. named \subseteq Announced(l)
      BY <1>1, IntentsCounted
    <3>2. ASSUME NEW m \in Asking, m.lb = l PROVE m.id \in NamedIn(l, Servers)
      <4>1. m.server \in Servers
        BY <1>1, Members DEF PlacesInv, Asking
      <4>2. m \in IntentMessages(l, m.server)
        BY <3>2 DEF IntentMessages, Asking
      <4> QED
        BY <4>1, <4>2 DEF NamedIn, IntentsIn
    <3>3. ASSUME NEW s \in Servers, NEW p \in Kept(s), p[1] = l
          PROVE  p[2] \in NamedKept(l, Servers)
      <4>1. PICK i \in DOMAIN pull_intent_queue[s] : p = pull_intent_queue[s][i]
        BY DEF Kept, Elements
      <4>2. <<s, i>> \in KeptIn(l, Servers)
        BY <3>3, <4>1 DEF KeptIn, KeptIntents
      <4>3. pull_intent_queue[<<s, i>>[1]][<<s, i>>[2]] = p
        BY <4>1
      <4> QED
        BY <4>2, <4>3 DEF NamedKept
    <3> QED
      BY <3>1, <3>2, <3>3 DEF Announced
  <2>4. Cardinality(inFlight) + Cardinality(kept) = Cardinality(named)
    BY <1>1, IntentsCounted
  <2>5. Len(queue[l]) = Cardinality(inFlight) + Cardinality(kept)
    BY <2>1, <2>2, <2>3, <2>4
  <2>6. bound => named = {queue[l][i] : i \in DOMAIN queue[l]}
    BY <2>1, <2>3 DEF Queued, Elements
  <2> QED
    BY <2>5, <2>6 DEF IntentsIn, KeptIn, NamedIn, NamedKept, KeptPositions
<1> QED
  BY <1>1, PlacesInvariant, PTL

-----------------------------------------------------------------------------
(* No slot is idle while an intent is kept *)

(***************************************************************************)
(* Only full servers keep intents.  That is inductive although a handler   *)
(* answers at most one intent: a handler frees at most one slot.           *)
(***************************************************************************)
KeptByFull ==
  \A s \in Servers : pull_intent_queue[s] # <<>> => ~HasSpareCapacity(s, in_flight[s])

(* A handler whose queue had a free slot to offer to at most one intent. *)
LEMMA DrainKeepsFull ==
  ASSUME TypeOK, NEW s \in Servers, NEW intents \in Seq(Task), NEW running \in Nat, NEW net,
         DrainPullIntents(s, intents, running, net),
         running + 1 + pending_pulls[s] >= MaxConcurrency \/ Len(intents) <= 1
  PROVE  /\ pull_intent_queue'[s] # <<>> => running + pending_pulls'[s] >= MaxConcurrency
         /\ \A r \in Servers \ {s} : /\ pull_intent_queue'[r] = pull_intent_queue[r]
                                     /\ pending_pulls'[r] = pending_pulls[r]
<1>1. pending_pulls[s] \in Nat /\ MaxConcurrency \in Nat
  BY AmphiQueueAssumption DEF TypeOK
<1>2. CASE /\ HasSpareCapacity(s, running)
           /\ intents # <<>>
           /\ pull_intent_queue' = [pull_intent_queue EXCEPT ![s] = Tail(intents)]
           /\ pending_pulls' = [pending_pulls EXCEPT ![s] = @ + 1]
  <2>1. /\ pull_intent_queue'[s] = Tail(intents)
        /\ pending_pulls'[s] = pending_pulls[s] + 1
        /\ \A r \in Servers \ {s} : /\ pull_intent_queue'[r] = pull_intent_queue[r]
                                    /\ pending_pulls'[r] = pending_pulls[r]
    BY <1>2 DEF TypeOK
  <2>2. Tail(intents) # <<>> => Len(intents) > 1
    BY <1>2
  <2> QED
    BY <1>1, <2>1, <2>2
<1>3. CASE /\ ~HasSpareCapacity(s, running) \/ intents = <<>>
           /\ pull_intent_queue' = [pull_intent_queue EXCEPT ![s] = intents]
           /\ UNCHANGED pending_pulls
  <2>1. pull_intent_queue'[s] = intents
        /\ \A r \in Servers \ {s} : pull_intent_queue'[r] = pull_intent_queue[r]
    BY <1>3 DEF TypeOK
  <2> QED
    BY <1>1, <1>3, <2>1 DEF HasSpareCapacity
<1> QED
  BY <1>2, <1>3 DEF DrainPullIntents

LEMMA NextKeptByFull ==
  ASSUME PlacesInv, KeptByFull, [Next]_vars
  PROVE  KeptByFull'
<1>1. /\ TypeOK /\ MaxConcurrency \in Nat
      /\ \A s \in Servers : /\ in_flight[s] \in Nat /\ pending_pulls[s] \in Nat
                            /\ pull_intent_queue[s] \in Seq(Task)
  BY AmphiQueueAssumption DEF PlacesInv, TypeOK
<1>2. ASSUME UNCHANGED <<pull_intent_queue, pending_pulls, in_flight>> PROVE KeptByFull'
  BY <1>2 DEF KeptByFull, HasSpareCapacity
<1>3. ASSUME NEW m \in network, ReceivePullIntent(m) PROVE KeptByFull'
  <2> DEFINE s == m.server
             intents == Append(pull_intent_queue[s], <<m.lb, m.id>>)
  <2>1. /\ s \in Servers /\ <<m.lb, m.id>> \in Task /\ in_flight' = in_flight
        /\ DrainPullIntents(s, intents, in_flight[s], network \ {m})
    BY <1>3, Members DEF ReceivePullIntent, PlacesInv, Task
  <2> HIDE DEF s
  <2>2. intents \in Seq(Task) /\ (pull_intent_queue[s] = <<>> => Len(intents) = 1)
    BY <1>1, <2>1
  <2>3. in_flight[s] + 1 + pending_pulls[s] >= MaxConcurrency \/ Len(intents) <= 1
    BY <1>1, <2>1, <2>2 DEF KeptByFull, HasSpareCapacity
  <2> HIDE DEF intents
  <2>4. /\ pull_intent_queue'[s] # <<>> => in_flight[s] + pending_pulls'[s] >= MaxConcurrency
        /\ \A r \in Servers \ {s} : /\ pull_intent_queue'[r] = pull_intent_queue[r]
                                    /\ pending_pulls'[r] = pending_pulls[r]
    BY <1>1, <2>1, <2>2, <2>3, DrainKeepsFull
  <2>5. pending_pulls'[s] \in Nat
    BY <1>3, <2>1, ReceivePullIntentPlaces DEF PlacesInv, TypeOK
  <2> QED
    BY <1>1, <2>1, <2>4, <2>5 DEF KeptByFull, HasSpareCapacity
<1>4. ASSUME NEW m \in network, ServerInput(m) PROVE KeptByFull'
  <2> DEFINE s == m.server
  <2>1. /\ s \in Servers /\ m \in Claims(s)
        /\ pending_pulls' = [pending_pulls EXCEPT ![s] = SaturatingDec(@)]
        /\ in_flight' = [in_flight EXCEPT ![s] = @ + 1]
        /\ pull_intent_queue' = pull_intent_queue
    BY <1>4, Members DEF ServerInput, PlacesInv, Claims
  <2> HIDE DEF s
  <2>2. pending_pulls[s] # 0
    BY <2>1, ClaimsFinite, FS_EmptySet DEF PlacesInv, CapacityRespected
  <2>3. /\ pending_pulls'[s] = pending_pulls[s] - 1 /\ in_flight'[s] = in_flight[s] + 1
        /\ \A r \in Servers \ {s} : /\ pending_pulls'[r] = pending_pulls[r]
                                    /\ in_flight'[r] = in_flight[r]
    BY <1>1, <2>1, <2>2 DEF TypeOK, SaturatingDec
  <2> QED
    BY <1>1, <2>1, <2>3 DEF KeptByFull, HasSpareCapacity
<1>5. ASSUME NEW s \in Servers, NEW t \in serving[s], Complete(s, t) PROVE KeptByFull'
  <2> DEFINE running == in_flight[s] - 1
             intents == pull_intent_queue[s]
  <2>1. /\ in_flight' = [in_flight EXCEPT ![s] = @ - 1]
        /\ DrainPullIntents(s, intents, running, network \cup {ReleaseOf(t[1], s, t[2])})
    BY <1>5 DEF Complete
  <2>2. in_flight'[s] = running /\ \A r \in Servers \ {s} : in_flight'[r] = in_flight[r]
    BY <1>1, <2>1 DEF TypeOK
  <2>3. running \in Nat /\ pending_pulls'[s] \in Nat
    BY <1>5, <2>2, CompletePlaces DEF PlacesInv, TypeOK
  <2>4. running + 1 + pending_pulls[s] >= MaxConcurrency \/ Len(intents) <= 1
    BY <1>1 DEF KeptByFull, HasSpareCapacity
  <2> HIDE DEF running, intents
  <2>5. intents \in Seq(Task)
    BY <1>1 DEF intents
  <2>6. /\ pull_intent_queue'[s] # <<>> => running + pending_pulls'[s] >= MaxConcurrency
        /\ \A r \in Servers \ {s} : /\ pull_intent_queue'[r] = pull_intent_queue[r]
                                    /\ pending_pulls'[r] = pending_pulls[r]
    BY <1>1, <2>1, <2>3, <2>4, <2>5, DrainKeepsFull
  <2> QED
    BY <1>1, <2>2, <2>3, <2>6 DEF KeptByFull, HasSpareCapacity
<1>6. ASSUME NEW l \in LBs, Input(l) PROVE KeptByFull'
  BY <1>2, <1>6 DEF Input, serverVars
<1>7. ASSUME NEW m \in network, Pull(m) \/ Release(m) PROVE KeptByFull'
  BY <1>2, <1>7 DEF Pull, Release, serverVars
<1>8. ASSUME Finished \/ UNCHANGED vars PROVE KeptByFull'
  BY <1>2, <1>8 DEF Finished, vars, serverVars
<1> QED
  BY <1>3, <1>4, <1>5, <1>6, <1>7, <1>8 DEF Next, Deliver

(***************************************************************************)
(* Whenever simulated time may advance, waiting tasks have an intent at a  *)
(* server of their subset whose slots are all busy: no wake-up is lost.    *)
(***************************************************************************)
THEOREM OnlyBusyServersKeepTasksWaiting == Safety => []TasksWaitOnlyForBusyServers
<1>1. Init => KeptByFull
  BY DEF Init, KeptByFull
<1>2. KeptByFull /\ PlacesInv /\ [Next]_vars => KeptByFull'
  BY NextKeptByFull
<1>3. ASSUME AccountsInv, KeptByFull PROVE TasksWaitOnlyForBusyServers
  <2> SUFFICES ASSUME network = {}
               PROVE  /\ \A l \in LBs : queue[l] # <<>> =>
                           \E s \in Subset[l] : KeptIntents(l, s) # {}
                      /\ \A s \in Servers : pull_intent_queue[s] # <<>> =>
                           Cardinality(serving[s]) = MaxConcurrency
    BY DEF TasksWaitOnlyForBusyServers
  <2>1. PlacesInv /\ TypeOK /\ MaxConcurrency \in Nat
    BY <1>3, AmphiQueueAssumption DEF AccountsInv, PlacesInv
  <2>2. ASSUME NEW l \in LBs, queue[l] # <<>>
        PROVE  \E s \in Subset[l] : KeptIntents(l, s) # {}
    <3>1. queue[l][1] \in Queued(l)
      BY <2>1, <2>2, PopFront DEF TypeOK, Queued, Elements
    <3>2. Cardinality(Queued(l)) # 0
      BY <2>1, <3>1, CountsFinite, FS_EmptySet DEF PlacesInv
    <3>3. Announced(l) # {}
      BY <2>1, <3>2, FS_EmptySet DEF PlacesInv, AnnouncedQueued
    <3>4. PICK s \in Servers : \E p \in Kept(s) : p[1] = l
      BY <3>3 DEF Announced, Asking
    <3>5. PICK i \in DOMAIN pull_intent_queue[s] : pull_intent_queue[s][i][1] = l
      BY <3>4 DEF Kept, Elements
    <3>6. s \in Subset[l] /\ i \in KeptIntents(l, s)
      BY <1>3, <3>4, <3>5 DEF AccountsInv, InSubset, KeptIntents
    <3> QED
      BY <3>6
  <2>3. ASSUME NEW s \in Servers, pull_intent_queue[s] # <<>>
        PROVE  Cardinality(serving[s]) = MaxConcurrency
    <3>1. Claims(s) = {} /\ pending_pulls[s] = 0
      BY <2>1, FS_EmptySet DEF Claims, PlacesInv, CapacityRespected
    <3>2. /\ in_flight[s] = Cardinality(serving[s]) /\ in_flight[s] \in Nat
          /\ in_flight[s] + pending_pulls[s] <= MaxConcurrency
          /\ in_flight[s] + pending_pulls[s] >= MaxConcurrency
      <4>1. in_flight[s] \in Nat /\ pending_pulls[s] \in Nat
        BY <2>1 DEF TypeOK
      <4>2. ~(in_flight[s] + pending_pulls[s] < MaxConcurrency)
        BY <1>3, <2>3 DEF KeptByFull, HasSpareCapacity
      <4> QED
        BY <2>1, <4>1, <4>2 DEF PlacesInv, CapacityRespected
    <3> QED
      BY <2>1, <3>1, <3>2
  <2> QED
    BY <2>2, <2>3
<1> QED
  BY <1>1, <1>2, <1>3, PlacesInvariant, AccountsInvariant, PTL DEF Safety

-----------------------------------------------------------------------------
(* The steps of the protocol are steps of TaskService. *)

Submitted == UNION {{l} \X (0 .. next_task_id[l] - 1) : l \in LBs}

(* The instance of TaskService has a Cardinality of its own. *)
LEMMA SameCardinality ==
  ASSUME NEW S
  PROVE  Service!Cardinality(S) = Cardinality(S)
BY DEF Cardinality, Service!Cardinality, IsFiniteSet, Service!IsFiniteSet

(* Submitted tasks are those whose id has been given out. *)
LEMMA SubmittedMeans ==
  ASSUME TypeOK, NEW t \in Task
  PROVE  t \in Submitted <=> t[2] < next_task_id[t[1]]
<1>1. t[1] \in LBs /\ t[2] \in Nat /\ t = <<t[1], t[2]>>
  BY DEF Task
<1>2. \A l \in LBs : next_task_id[l] \in Nat
  BY DEF TypeOK
<1>3. \A l \in LBs : t \in {l} \X (0 .. next_task_id[l] - 1)
                       <=> t[1] = l /\ t[2] < next_task_id[l]
  BY <1>1, <1>2
<1> QED
  BY <1>1, <1>3 DEF Submitted

LEMMA AllTasksMeans ==
  ASSUME NEW t \in Task, t[2] < TaskCount[t[1]]
  PROVE  t \in AllTasks
<1>1. t[1] \in LBs /\ t[2] \in Nat /\ t = <<t[1], t[2]>> /\ TaskCount[t[1]] \in Nat
  BY AmphiQueueAssumption DEF Task
<1>2. t \in {t[1]} \X (0 .. TaskCount[t[1]] - 1)
  BY <1>1
<1> QED
  BY <1>1, <1>2 DEF AllTasks

(* A step of one task is a step of the service. *)
LEMMA ServiceSteps ==
  ASSUME NEW t \in AllTasks
  PROVE  /\ Service!Submit(t) => Service!Next
         /\ Service!Starts(t) => Service!Next
         /\ Service!Finishes(t) => Service!Next
BY DEF Service!Next

(* A task whose id has been given out is one of the run. *)
LEMMA ArrivedMeans ==
  ASSUME AccountsInv, NEW t \in Task, t[2] < next_task_id[t[1]]
  PROVE  t \in AllTasks /\ t \in Submitted
<1>1. /\ t[1] \in LBs /\ t[2] \in Nat
  BY DEF Task
<1>2. /\ next_task_id[t[1]] \in Nat /\ TaskCount[t[1]] \in Nat
      /\ next_task_id[t[1]] <= TaskCount[t[1]]
  BY <1>1, AmphiQueueAssumption DEF AccountsInv, PlacesInv, TypeOK, ArrivalsBounded
<1>3. t[2] < TaskCount[t[1]]
  BY <1>1, <1>2
<1> QED
  BY <1>3, AllTasksMeans, SubmittedMeans DEF AccountsInv, PlacesInv

LEMMA InputSubmits ==
  ASSUME AccountsInv, NEW l \in LBs, Input(l)
  PROVE  Service!Next
<1> USE DEF AccountsInv, PlacesInv
<1>0. PICK id \in Nat : id = next_task_id[l]
  BY DEF TypeOK
<1> DEFINE t == <<l, id>>
<1>1. /\ id < TaskCount[l] /\ id \in Nat
      /\ next_task_id' = [next_task_id EXCEPT ![l] = id + 1]
      /\ UNCHANGED <<serving, finished>>
  BY <1>0 DEF Input, serverVars
<1>2. t \in Task /\ t \in AllTasks
  BY <1>1, AllTasksMeans DEF Task
<1>3. \A k \in LBs : /\ next_task_id[k] \in Nat
                     /\ next_task_id'[k] = IF k = l THEN id + 1 ELSE next_task_id[k]
  BY <1>1 DEF TypeOK
<1>4. t \notin Submitted
  BY <1>0, <1>2, SubmittedMeans
<1>5. Submitted' = Submitted \cup {t}
  <2>1. \A k \in LBs : {k} \X (0 .. next_task_id'[k] - 1) =
                         IF k = l THEN ({k} \X (0 .. next_task_id[k] - 1)) \cup {t}
                         ELSE {k} \X (0 .. next_task_id[k] - 1)
    <3>1. ASSUME NEW k \in LBs, k = l
          PROVE  {k} \X (0 .. next_task_id'[k] - 1) =
                   ({k} \X (0 .. next_task_id[k] - 1)) \cup {t}
      <4>1. 0 .. next_task_id'[k] - 1 = (0 .. next_task_id[k] - 1) \cup {id}
        BY <1>0, <1>1, <1>3, <3>1
      <4> QED
        BY <3>1, <4>1
    <3>2. ASSUME NEW k \in LBs, k # l
          PROVE  {k} \X (0 .. next_task_id'[k] - 1) = {k} \X (0 .. next_task_id[k] - 1)
      BY <1>3, <3>2
    <3> QED
      BY <3>1, <3>2
  <2> HIDE DEF t
  <2> QED
    BY <2>1 DEF Submitted
<1>6. Service!Submit(t)
  BY <1>1, <1>2, <1>4, <1>5 DEF Service!Submit, Submitted
<1> QED
  BY <1>2, <1>6, ServiceSteps

LEMMA ServerInputStarts ==
  ASSUME AccountsInv, NEW m \in network, ServerInput(m)
  PROVE  Service!Next
<1> USE DEF AccountsInv, PlacesInv
<1> DEFINE s == m.server
           t == <<m.lb, m.id>>
<1>1. /\ m.type = "task" /\ m \in Travelling
      /\ s \in Servers /\ m.lb \in LBs /\ m.id \in Nat /\ t \in Task
  BY Members DEF ServerInput, Travelling, Task
<1>2. t \in AllTasks /\ t \in Submitted
  BY <1>1, ArrivedMeans DEF IdsKnown
<1>3. t \notin finished /\ \A r \in Servers : t \notin serving[r]
  BY <1>1 DEF FinishedOnce, OnePlace
<1>4. /\ serving' = [serving EXCEPT ![s] = @ \cup {t}]
      /\ UNCHANGED <<next_task_id, finished>>
  BY DEF ServerInput, lbVars
<1>5. Cardinality(serving[s]) < MaxConcurrency
  <2>1. m \in Claims(s) /\ IsFiniteSet(Claims(s))
    BY <1>1, ClaimsFinite DEF Claims
  <2>2. Cardinality(Claims(s)) # 0 /\ Cardinality(Claims(s)) \in Nat
    BY <2>1, FS_EmptySet, FS_CardinalityType
  <2>3. /\ in_flight[s] = Cardinality(serving[s]) /\ pending_pulls[s] = Cardinality(Claims(s))
        /\ in_flight[s] + pending_pulls[s] <= MaxConcurrency
        /\ in_flight[s] \in Nat /\ MaxConcurrency \in Nat
    BY <1>1, AmphiQueueAssumption DEF CapacityRespected, TypeOK
  <2> QED
    BY <2>2, <2>3
<1>6. Submitted' = Submitted
  BY <1>4 DEF Submitted
<1>7. <<t, s>> \in {p \in AllTasks \X Servers : p[2] \in Subset[p[1][1]]}
  BY <1>1, <1>2 DEF InSubset
<1> HIDE DEF t, s
<1>8. Service!Waiting(t)
  BY <1>2, <1>3 DEF Service!Waiting, Submitted
<1>9. Service!Start(t, s)
  BY <1>4, <1>5, <1>6, <1>7, <1>8, SameCardinality DEF Service!Start, Submitted
<1> QED
  BY <1>1, <1>2, <1>9, ServiceSteps DEF Service!Starts, s

LEMMA CompleteFinishes ==
  ASSUME AccountsInv, NEW s \in Servers, NEW t \in serving[s], Complete(s, t)
  PROVE  Service!Next
<1>1. t \in Task /\ t[2] < next_task_id[t[1]]
  BY Members DEF AccountsInv, PlacesInv, IdsKnown
<1>2. t \in AllTasks
  BY <1>1, ArrivedMeans
<1>3. /\ serving' = [serving EXCEPT ![s] = @ \ {t}]
      /\ finished' = finished \cup {t}
      /\ next_task_id' = next_task_id
  BY DEF Complete, lbVars
<1>4. Service!Finish(t, s)
  BY <1>3 DEF Service!Finish
<1> QED
  BY <1>2, <1>4, ServiceSteps DEF Service!Finishes

(***************************************************************************)
(* The protocol implements the safety part of TaskService: an arrival is a *)
(* submission, Server::input starts a waiting task in a free slot of its   *)
(* client's subset, a completion finishes it, and intents, pulls and       *)
(* releases are not visible.                                               *)
(***************************************************************************)
THEOREM AmphiImplementsService == Safety => Service!Safety
<1>1. Init => Service!Init
  <2> SUFFICES ASSUME Init PROVE Service!Init
    OBVIOUS
  <2>1. \A l \in LBs : 0 .. next_task_id[l] - 1 = {}
    BY DEF Init
  <2>2. UNION {{l} \X (0 .. next_task_id[l] - 1) : l \in LBs} = {}
    BY <2>1
  <2> QED
    BY <2>2 DEF Init, Service!Init
<1>2. ASSUME AccountsInv, [Next]_vars PROVE [Service!Next]_(Service!vars)
  <2>1. ASSUME NEW l \in LBs, Input(l) PROVE Service!Next
    BY <1>2, <2>1, InputSubmits
  <2>2. ASSUME NEW m \in network, ServerInput(m) PROVE Service!Next
    BY <1>2, <2>2, ServerInputStarts
  <2>3. ASSUME NEW s \in Servers, NEW t \in serving[s], Complete(s, t) PROVE Service!Next
    BY <1>2, <2>3, CompleteFinishes
  <2>4. ASSUME UNCHANGED <<next_task_id, serving, finished>> PROVE UNCHANGED Service!vars
    BY <2>4 DEF Service!vars
  <2>5. ASSUME NEW m \in network, ReceivePullIntent(m) \/ Pull(m) \/ Release(m)
        PROVE  UNCHANGED Service!vars
    BY <2>4, <2>5 DEF ReceivePullIntent, Pull, Release, lbVars, serverVars
  <2>6. ASSUME Finished \/ UNCHANGED vars PROVE UNCHANGED Service!vars
    BY <2>4, <2>6 DEF Finished, vars, lbVars, serverVars
  <2> QED
    BY <1>2, <2>1, <2>2, <2>3, <2>5, <2>6 DEF Next, Deliver
<1> QED
  BY <1>1, <1>2, AccountsInvariant, PTL DEF Safety, Service!Safety

-----------------------------------------------------------------------------
(* What the audit has read *)

AuditState ==
  [tasks : [LBs -> Seq(Nat)], intents : [Servers -> Seq(Task)],
   sent : Nat, queued : Nat, drained : Nat, fulfilled : Nat,
   saw_mismatch : BOOLEAN, rejected : BOOLEAN]

(* The validators accepted the events so far, rebuilt these queues and *)
(* counted c intents sent, q queued, d drained and f pulls fulfilled.  *)
Reads(a, tasks, intents, c, q, d, f) ==
  /\ a \in AuditState
  /\ ~a.rejected
  /\ a.tasks = tasks /\ a.intents = intents
  /\ a.sent = c /\ a.queued = q /\ a.drained = d /\ a.fulfilled = f

(* The events of a handler, replayed one by one. *)
LEMMA RecordNone ==
  ASSUME NEW w
  PROVE  FoldLeft(Replay, w, <<>>) = w
<1> DEFINE g == [s \in SUBSET {} |-> w]
<1>1. DOMAIN <<>> = {}
  OBVIOUS
<1> HIDE DEF Replay
<1>2. g = [s \in SUBSET {} |->
             IF s = {} THEN w ELSE Replay(g[s \ {Max(s)}], <<>>[Max(s)])]
  OBVIOUS
<1> QED
  BY <1>1, <1>2 DEF FoldLeft, MapThenFoldSet

LEMMA RecordOne ==
  ASSUME NEW w, NEW t
  PROVE  FoldLeft(Replay, w, <<t>>) = Replay(w, t)
<1> DEFINE g == [s \in SUBSET {1} |-> IF s = {} THEN w ELSE Replay(w, t)]
           Folds(f) == f = [s \in SUBSET {1} |->
                              IF s = {} THEN w
                              ELSE Replay(f[s \ {Max(s)}], <<t>>[Max(s)])]
<1>1. DOMAIN <<t>> = {1} /\ <<t>>[1] = t
  OBVIOUS
<1>2. Max({1}) = 1
  BY DEF Max
<1>3. {1} \ {1} = {} /\ {} \in SUBSET {1} /\ {1} \in SUBSET {1} /\ {1} # {}
  OBVIOUS
<1> HIDE DEF Replay
<1>4. Folds(g)
  <2>1. \A s \in SUBSET {1} : s = {} \/ s = {1}
    OBVIOUS
  <2>2. g[{}] = w
    OBVIOUS
  <2> HIDE DEF g
  <2>3. ASSUME NEW s \in SUBSET {1}
        PROVE  (IF s = {} THEN w ELSE Replay(w, t))
                 = (IF s = {} THEN w ELSE Replay(g[s \ {Max(s)}], <<t>>[Max(s)]))
    <3>1. CASE s = {}
      BY <3>1
    <3>2. CASE s = {1}
      <4>1. Replay(g[s \ {Max(s)}], <<t>>[Max(s)]) = Replay(w, t)
        BY <1>1, <1>2, <1>3, <2>2, <3>2, Zenon
      <4> QED
        BY <3>2, <4>1
    <3> QED
      BY <2>1, <3>1, <3>2
  <2> QED
    BY <2>3, Zenon DEF g
<1> HIDE DEF g
<1>5. ASSUME NEW h, Folds(h)
      PROVE  h[{1}] = Replay(w, t)
  <2>1. h[{}] = w
    BY <1>3, <1>5, Zenon
  <2>2. h[{1}] = Replay(h[{1} \ {Max({1})}], <<t>>[Max({1})])
    BY <1>3, <1>5, Zenon
  <2> QED
    BY <1>1, <1>2, <1>3, <2>1, <2>2, Zenon
<1> QED
  BY <1>1, <1>4, <1>5, ZenonT(60) DEF FoldLeft, MapThenFoldSet

(* Two events q, t and then u, take w where the first and the second take it. *)
IsPair(q, t, u)        == q = <<t, u>>
ReplaysPair(w, q, t, u) == FoldLeft(Replay, w, q) = Replay(Replay(w, t), u)

LEMMA RecordTwo ==
  ASSUME NEW w, NEW t, NEW u, NEW q, IsPair(q, t, u)
  PROVE  ReplaysPair(w, q, t, u)
<1> DEFINE P == {{}, {1}, {2}, {1, 2}}
           g == [s \in SUBSET {1, 2} |->
                   IF s = {} THEN w
                   ELSE IF s = {1} THEN Replay(w, t)
                   ELSE IF s = {2} THEN Replay(w, u)
                   ELSE Replay(Replay(w, t), u)]
           Folds(f) == f = [s \in SUBSET {1, 2} |->
                              IF s = {} THEN w
                              ELSE Replay(f[s \ {Max(s)}], q[Max(s)])]
<1>1. DOMAIN q = {1, 2} /\ q[1] = t /\ q[2] = u
  BY DEF IsPair
<1>2. Max({1}) = 1 /\ Max({2}) = 2 /\ Max({1, 2}) = 2
  BY DEF Max
<1>3. /\ {1} \ {1} = {} /\ {2} \ {2} = {} /\ {1, 2} \ {2} = {1}
      /\ {1} # {} /\ {2} # {} /\ {1, 2} # {} /\ {1} # {2} /\ {1, 2} # {1} /\ {1, 2} # {2}
  OBVIOUS
<1>4. SUBSET {1, 2} = P
  <2>1. ASSUME NEW s \in SUBSET {1, 2} PROVE s \in P
    <3>1. CASE 1 \in s /\ 2 \in s
      BY <3>1
    <3>2. CASE 1 \in s /\ 2 \notin s
      <4>1. s = {1}
        BY <3>2
      <4> QED
        BY <4>1
    <3>3. CASE 1 \notin s /\ 2 \in s
      <4>1. s = {2}
        BY <3>3
      <4> QED
        BY <4>1
    <3>4. CASE 1 \notin s /\ 2 \notin s
      <4>1. s = {}
        BY <3>4
      <4> QED
        BY <4>1
    <3> QED
      BY <3>1, <3>2, <3>3, <3>4
  <2>2. P \subseteq SUBSET {1, 2}
    OBVIOUS
  <2> QED
    BY <2>1, <2>2
<1>m. {} \in P /\ {1} \in P /\ {2} \in P /\ {1, 2} \in P
  OBVIOUS
<1> HIDE DEF Replay
<1>5. g[{}] = w /\ g[{1}] = Replay(w, t) /\ g[{2}] = Replay(w, u)
      /\ g[{1, 2}] = Replay(Replay(w, t), u)
  BY <1>3, <1>4, <1>m
<1>6. Folds(g)
  <2> DEFINE k(s) == IF s = {} THEN w ELSE Replay(g[s \ {Max(s)}], q[Max(s)])
  <2>1. k({}) = w
    OBVIOUS
  <2>2. k({1}) = Replay(w, t)
    <3> HIDE DEF g
    <3> QED
      BY <1>1, <1>2, <1>3, <1>5, Zenon
  <2>3. k({2}) = Replay(w, u)
    <3> HIDE DEF g
    <3> QED
      BY <1>1, <1>2, <1>3, <1>5, Zenon
  <2>4. k({1, 2}) = Replay(Replay(w, t), u)
    <3> HIDE DEF g
    <3> QED
      BY <1>1, <1>2, <1>3, <1>5, Zenon
  <2>5. \A s \in SUBSET {1, 2} : g[s] = k(s)
    <3> SUFFICES ASSUME NEW s \in SUBSET {1, 2} PROVE g[s] = k(s)
      OBVIOUS
    <3>1. s = {} \/ s = {1} \/ s = {2} \/ s = {1, 2}
      BY <1>4
    <3> HIDE DEF g, k
    <3> QED
      BY <1>5, <2>1, <2>2, <2>3, <2>4, <3>1, Zenon
  <2>6. g = [s \in SUBSET {1, 2} |-> g[s]]
    OBVIOUS
  <2>7. g = [s \in SUBSET {1, 2} |-> k(s)]
    <3> HIDE DEF g, k
    <3> QED
      BY <2>5, <2>6
  <2> QED
    BY <2>7, Zenon
<1> HIDE DEF g
<1>7. ASSUME NEW h, Folds(h)
      PROVE  h[{1, 2}] = Replay(Replay(w, t), u)
  <2>0. \A s \in P : h[s] = IF s = {} THEN w ELSE Replay(h[s \ {Max(s)}], q[Max(s)])
    <3> HIDE DEF P
    <3> QED
      BY <1>4, <1>7, Zenon
  <2> HIDE DEF P
  <2>1. h[{}] = w
    BY <1>m, <2>0, Zenon
  <2>2. h[{1}] = Replay(w, t)
    <3>1. h[{1}] = Replay(h[{1} \ {Max({1})}], q[Max({1})])
      BY <1>m, <1>3, <2>0, Zenon
    <3> QED
      BY <1>1, <1>2, <1>3, <2>1, <3>1, Zenon
  <2>3. h[{1, 2}] = Replay(h[{1, 2} \ {Max({1, 2})}], q[Max({1, 2})])
    BY <1>m, <1>3, <2>0, Zenon
  <2> QED
    BY <1>1, <1>2, <1>3, <2>2, <2>3, Zenon
<1>8. FoldLeft(Replay, w, q) = Replay(Replay(w, t), u)
  BY <1>1, <1>6, <1>7, ZenonT(60) DEF FoldLeft, MapThenFoldSet
<1> QED
  BY <1>8 DEF ReplaysPair

-----------------------------------------------------------------------------
(* One lemma per event *)

LEMMA ReadsEnqueued ==
  ASSUME NEW T, NEW I, NEW c, NEW q, NEW d, NEW f, NEW a, Reads(a, T, I, c, q, d, f),
         NEW l \in LBs, NEW i \in Nat
  PROVE  Reads(Replay(a, TaskEnqueued(l, i, Len(T[l]))),
               [T EXCEPT ![l] = Append(@, i)], I, c, q, d, f)
<1> DEFINE e == TaskEnqueued(l, i, Len(T[l]))
<1>1. /\ a \in AuditState /\ ~a.rejected /\ a.tasks = T /\ T \in [LBs -> Seq(Nat)]
      /\ e.kind = "TaskEnqueued" /\ e.lb = l /\ e.id = i /\ e.queue_len_before = Len(T[l])
  BY DEF Reads, AuditState, TaskEnqueued
<1> HIDE DEF e
<1>2. Fits(a, e)
  BY <1>1 DEF Fits, FitsCommon
<1>3. Replay(a, e) = [a EXCEPT !.tasks[l] = Append(@, i)]
  BY <1>1, <1>2 DEF Replay
<1>4. T[l] \in Seq(Nat) /\ Append(T[l], i) \in Seq(Nat)
  BY <1>1
<1>5. Reads([a EXCEPT !.tasks[l] = Append(@, i)], [T EXCEPT ![l] = Append(@, i)], I, c, q, d, f)
  BY <1>1, <1>4 DEF Reads, AuditState
<1> QED
  BY <1>3, <1>5 DEF e

LEMMA ReadsSent ==
  ASSUME NEW T, NEW I, NEW c, NEW q, NEW d, NEW f, NEW a, Reads(a, T, I, c, q, d, f),
         NEW l \in LBs
  PROVE  Reads(Replay(a, IntentSent(l)), T, I, c + 1, q, d, f)
<1> DEFINE e == IntentSent(l)
<1>1. /\ a \in AuditState /\ ~a.rejected /\ a.sent = c /\ c \in Nat
      /\ e.kind = "IntentSent"
  BY DEF Reads, AuditState, IntentSent
<1> HIDE DEF e
<1>2. Fits(a, e)
  BY <1>1 DEF Fits, FitsCommon
<1>3. Replay(a, e) = [a EXCEPT !.sent = @ + 1]
  BY <1>1, <1>2 DEF Replay
<1>4. Reads([a EXCEPT !.sent = @ + 1], T, I, c + 1, q, d, f)
  <2>1. PICK n \in Nat : n = c + 1
    BY <1>1
  <2>2. Reads([a EXCEPT !.sent = n], T, I, n, q, d, f)
    BY DEF Reads, AuditState
  <2> QED
    BY <1>1, <2>1, <2>2
<1> QED
  BY <1>3, <1>4 DEF e

LEMMA ReadsQueued ==
  ASSUME NEW T, NEW I, NEW c, NEW q, NEW d, NEW f, NEW a, Reads(a, T, I, c, q, d, f),
         NEW s \in Servers, NEW l \in LBs, NEW i \in Nat
  PROVE  Reads(Replay(a, IntentQueued(s, l, i, Len(I[s]))),
               T, [I EXCEPT ![s] = Append(@, <<l, i>>)], c, q + 1, d, f)
<1> DEFINE e == IntentQueued(s, l, i, Len(I[s]))
<1>1. /\ a \in AuditState /\ ~a.rejected /\ a.intents = I /\ I \in [Servers -> Seq(Task)]
      /\ a.queued = q /\ q \in Nat
      /\ e.kind = "IntentQueued" /\ e.server = s /\ e.intent = <<l, i>>
      /\ e.queue_len_before = Len(I[s])
  BY DEF Reads, AuditState, IntentQueued
<1> HIDE DEF e
<1>2. Fits(a, e)
  BY <1>1 DEF Fits, FitsCommon
<1>3. Replay(a, e) = [a EXCEPT !.intents[s] = Append(@, <<l, i>>), !.queued = @ + 1]
  BY <1>1, <1>2 DEF Replay
<1>4. /\ I[s] \in Seq(Task) /\ <<l, i>> \in Task /\ Append(I[s], <<l, i>>) \in Seq(Task)
      /\ q + 1 \in Nat
  BY <1>1 DEF Task
<1>5. Reads([a EXCEPT !.intents[s] = Append(@, <<l, i>>), !.queued = @ + 1],
            T, [I EXCEPT ![s] = Append(@, <<l, i>>)], c, q + 1, d, f)
  BY <1>1, <1>4 DEF Reads, AuditState
<1> QED
  BY <1>3, <1>5 DEF e

LEMMA ReadsDrained ==
  ASSUME NEW T, NEW I, NEW c, NEW q, NEW d, NEW f, NEW a, Reads(a, T, I, c, q, d, f),
         NEW s \in Servers, I[s] # <<>>, NEW pending \in Nat, NEW running \in Nat,
         pending + running < MaxConcurrency
  PROVE  Reads(Replay(a, IntentDrained(s, Head(I[s]), Len(I[s]), pending, running)),
               T, [I EXCEPT ![s] = Tail(@)], c, q, d + 1, f)
<1> DEFINE e == IntentDrained(s, Head(I[s]), Len(I[s]), pending, running)
<1>1. /\ a \in AuditState /\ ~a.rejected /\ a.intents = I /\ I \in [Servers -> Seq(Task)]
      /\ a.drained = d /\ d \in Nat
      /\ e.kind = "IntentDrained" /\ e.server = s /\ e.intent = Head(I[s])
      /\ e.queue_len_before = Len(I[s]) /\ e.claimed = pending + running
  BY DEF Reads, AuditState, IntentDrained
<1> HIDE DEF e
<1>2. Fits(a, e)
  BY <1>1 DEF Fits, FitsCommon
<1>3. Replay(a, e) = [a EXCEPT !.intents[s] = Tail(@), !.drained = @ + 1]
  BY <1>1, <1>2 DEF Replay
<1>4. I[s] \in Seq(Task) /\ Tail(I[s]) \in Seq(Task) /\ d + 1 \in Nat
  BY <1>1
<1>5. Reads([a EXCEPT !.intents[s] = Tail(@), !.drained = @ + 1],
            T, [I EXCEPT ![s] = Tail(@)], c, q, d + 1, f)
  BY <1>1, <1>4 DEF Reads, AuditState
<1> QED
  BY <1>3, <1>5 DEF e

(* A pull takes position i: the task it announced, or the head of the queue. *)
LEMMA ReadsFulfilled ==
  ASSUME NEW T, NEW I, NEW c, NEW q, NEW d, NEW f, NEW a, Reads(a, T, I, c, q, d, f),
         NEW l \in LBs, NEW i \in DOMAIN T[l], NoDuplicates(T[l]), NEW request,
         IF bound THEN T[l][i] = request ELSE i = 1
  PROVE  Reads(Replay(a, PullFulfilled(l, request, T[l][i], T[l])),
               [T EXCEPT ![l] = RemoveAt(@, i)], I, c, q, d, f + 1)
<1> DEFINE e == PullFulfilled(l, request, T[l][i], T[l])
<1>1. /\ a \in AuditState /\ ~a.rejected /\ a.tasks = T /\ T \in [LBs -> Seq(Nat)]
      /\ a.fulfilled = f /\ f \in Nat
      /\ e.kind = "PullFulfilled" /\ e.lb = l /\ e.intent = request /\ e.id = T[l][i]
      /\ e.queue_len_before = Len(T[l]) /\ e.head = Head(T[l])
  BY DEF Reads, AuditState, PullFulfilled
<1>2. /\ T[l] \in Seq(Nat) /\ T[l] # <<>> /\ Len(T[l]) \in Nat /\ Head(T[l]) = T[l][1]
      /\ i \in 1 .. Len(T[l]) /\ DOMAIN T[l] = 1 .. Len(T[l])
  BY <1>1
<1> HIDE DEF e
<1>3. Fits(a, e)
  <2>1. FitsCommon(a, e)
    BY <1>1, <1>2 DEF FitsCommon
  <2>2. CASE bound
    BY <1>1, <2>1, <2>2 DEF Fits, FitsBound, Range
  <2>3. CASE ~bound
    BY <1>1, <1>2, <2>1, <2>3 DEF Fits, FitsNoBind
  <2> QED
    BY <2>2, <2>3
<1>4. Replay(a, e) = [a EXCEPT !.tasks[l] = RemoveFirst(@, T[l][i]), !.fulfilled = @ + 1,
                               !.saw_mismatch = @ \/ e.intent # e.id]
  BY <1>1, <1>3 DEF Replay
<1>5. RemoveFirst(T[l], T[l][i]) = RemoveAt(T[l], i)
  <2> DEFINE x == T[l]
             E == {j \in 1 .. Len(x) : x[j] = x[i]}
  <2>1. E = {i}
    BY <1>2 DEF NoDuplicates
  <2>2. Min({i}) = i
    BY <1>2 DEF Min
  <2>3. SelectInSeq(x, LAMBDA v : v = x[i]) = i
    BY <2>1, <2>2 DEF SelectInSeq
  <2> QED
    BY <1>2, <2>3 DEF RemoveFirst
<1>6. RemoveAt(T[l], i) \in Seq(Nat) /\ f + 1 \in Nat
  BY <1>1, <1>2, RemoveAtProperties
<1>7. Reads([a EXCEPT !.tasks[l] = RemoveAt(@, i), !.fulfilled = @ + 1,
                      !.saw_mismatch = @ \/ e.intent # e.id],
            [T EXCEPT ![l] = RemoveAt(@, i)], I, c, q, d, f + 1)
  <2>1. PICK b \in BOOLEAN : b = (a.saw_mismatch \/ e.intent # e.id)
    OBVIOUS
  <2>2. Reads([a EXCEPT !.tasks[l] = RemoveAt(@, i), !.fulfilled = @ + 1, !.saw_mismatch = b],
              [T EXCEPT ![l] = RemoveAt(@, i)], I, c, q, d, f + 1)
    BY <1>1, <1>6 DEF Reads, AuditState
  <2> QED
    BY <2>1, <2>2
<1>8. Reads(Replay(a, e), [T EXCEPT ![l] = RemoveAt(@, i)], I, c, q, d, f + 1)
  BY <1>1, <1>4, <1>5, <1>7
<1> QED
  BY <1>8 DEF e

-----------------------------------------------------------------------------
(* The audit's counters against the messages and intents they stand for *)

IntentsOnTheWay == {m \in network : m.type = "intent"}
PullsOnTheWay   == {m \in network : m.type = "pull"}
AllKept         == UNION {Kept(s) : s \in Servers}
OthersKept(s)   == UNION {Kept(r) : r \in Servers \ {s}}

(***************************************************************************)
(* The validators are at the state of the run, and each of their counters  *)
(* is ahead of the next by what is between the two events.                 *)
(***************************************************************************)
AuditInv ==
  /\ Reads(audit, queue, pull_intent_queue,
           audit.sent, audit.queued, audit.drained, audit.fulfilled)
  /\ audit.sent = audit.queued + Cardinality(IntentsOnTheWay)
  /\ audit.queued = audit.drained + Cardinality(AllKept)
  /\ audit.drained = audit.fulfilled + Cardinality(PullsOnTheWay)
  /\ \A l \in LBs : next_task_id[l] > 0 => audit.sent > 0

LEMMA AuditSetsFinite ==
  ASSUME TypeOK, Finite
  PROVE  /\ IsFiniteSet(IntentsOnTheWay) /\ IsFiniteSet(PullsOnTheWay)
         /\ IsFiniteSet(AllKept)
         /\ \A s \in Servers : IsFiniteSet(OthersKept(s))
         /\ Cardinality(IntentsOnTheWay) \in Nat
         /\ Cardinality(PullsOnTheWay) \in Nat
         /\ Cardinality(AllKept) \in Nat
<1>1. IsFiniteSet(IntentsOnTheWay) /\ IsFiniteSet(PullsOnTheWay)
  BY FS_Subset DEF Finite, IntentsOnTheWay, PullsOnTheWay
<1>2. ASSUME NEW s \in Servers PROVE IsFiniteSet(Kept(s))
  <2>1. pull_intent_queue[s] \in Seq(Task)
    BY DEF TypeOK
  <2> DEFINE q == pull_intent_queue[s]
             f == [i \in 1 .. Len(q) |-> q[i]]
  <2>2. Len(q) \in Nat /\ DOMAIN q = 1 .. Len(q)
    BY <2>1
  <2>3. f \in Surjection(1 .. Len(q), Kept(s))
    BY <2>2 DEF Surjection, Kept, Elements
  <2> HIDE DEF f, q
  <2> QED
    BY <2>2, <2>3, FS_Interval, FS_Surjection
<1> DEFINE K == {Kept(s) : s \in Servers}
           g == [s \in Servers |-> Kept(s)]
<1>3. IsFiniteSet(K)
  <2>1. g \in Surjection(Servers, K)
    BY DEF Surjection
  <2> HIDE DEF g, K
  <2> QED
    BY <2>1, FS_Surjection, AmphiQueueAssumption
<1>4. IsFiniteSet(UNION K)
  <2>1. \A T \in K : IsFiniteSet(T)
    BY <1>2
  <2> HIDE DEF K
  <2> QED
    BY <1>3, <2>1, FS_UNION
<1>5. \A s \in Servers : OthersKept(s) \subseteq UNION K
  BY DEF OthersKept
<1>6. \A s \in Servers : IsFiniteSet(OthersKept(s))
  <2> HIDE DEF K
  <2> QED
    BY <1>4, <1>5, FS_Subset
<1> QED
  BY <1>1, <1>4, <1>6, FS_CardinalityType DEF AllKept

(* Replaying the events of a handler that ends in drain_pull_intents_async. *)
AtMostOne(es)         == es = <<>> \/ \E u : es = <<u>>
ReplaysThen(w, t, es) ==
  FoldLeft(Replay, w, <<t>> \o es) = FoldLeft(Replay, Replay(w, t), es)

LEMMA RecordThen ==
  ASSUME NEW w, NEW t, NEW es, AtMostOne(es)
  PROVE  ReplaysThen(w, t, es)
<1>1. ASSUME es = <<>>
      PROVE  FoldLeft(Replay, w, <<t>> \o es) = FoldLeft(Replay, Replay(w, t), es)
  <2>1. <<t>> \o es = <<t>>
    BY <1>1
  <2> QED
    BY <1>1, <2>1, RecordNone, RecordOne
<1>2. ASSUME NEW u, es = <<u>>
      PROVE  FoldLeft(Replay, w, <<t>> \o es) = FoldLeft(Replay, Replay(w, t), es)
  <2>1. <<t>> \o es = <<t, u>>
    <3>1. <<t>> \in Seq({t, u}) /\ es \in Seq({t, u}) /\ Len(<<t>>) = 1 /\ Len(es) = 1
      BY <1>2
    <3>2. /\ <<t>> \o es \in Seq({t, u}) /\ Len(<<t>> \o es) = 2
          /\ (<<t>> \o es)[1] = t /\ (<<t>> \o es)[2] = u
      BY <1>2, <3>1, ConcatProperties
    <3>3. <<t, u>> \in Seq({t, u}) /\ Len(<<t, u>>) = 2 /\ <<t, u>>[1] = t /\ <<t, u>>[2] = u
      OBVIOUS
    <3>4. \A i \in 1 .. 2 : i = 1 \/ i = 2
      OBVIOUS
    <3> QED
      BY <3>2, <3>3, <3>4, SeqEqual
  <2>2. ReplaysPair(w, <<t>> \o es, t, u)
    <3>1. IsPair(<<t>> \o es, t, u)
      BY <2>1 DEF IsPair
    <3> QED
      BY <3>1, RecordTwo, Zenon
  <2>3. FoldLeft(Replay, w, <<t>> \o es) = Replay(Replay(w, t), u)
    BY <2>2, Zenon DEF ReplaysPair
  <2>4. FoldLeft(Replay, Replay(w, t), es) = Replay(Replay(w, t), u)
    BY <1>2, RecordOne, Zenon
  <2> QED
    BY <2>3, <2>4, Zenon
<1>3. FoldLeft(Replay, w, <<t>> \o es) = FoldLeft(Replay, Replay(w, t), es)
  BY <1>1, <1>2, Zenon DEF AtMostOne
<1> QED
  BY <1>3, Zenon DEF ReplaysThen

(* A handler that ends in drain_pull_intents_async: what it hands over, the *)
(* counters that go with that, and what the audit has read afterwards.      *)
HandsOver(s, intents, running, net) ==
  /\ intents \in Seq(Task) /\ NoDuplicates(intents)
  /\ running \in Nat /\ IsFiniteSet(net)
  /\ DrainPullIntents(s, intents, running, net)
  /\ \A m \in net : m.type = "pull" => <<m.lb, m.id>> \notin Elements(intents)
  /\ Elements(intents) \cap OthersKept(s) = {}

Counts(s, intents, net, q, d, f) ==
  /\ q = d + Cardinality(Elements(intents) \cup OthersKept(s))
  /\ d = f + Cardinality({m \in net : m.type = "pull"})

HasRead(a, net, c, q, f) ==
  \E x : /\ Reads(a, queue, pull_intent_queue', c, q, x, f)
         /\ q = x + Cardinality(AllKept')
         /\ x = f + Cardinality(PullsOnTheWay')
         /\ IntentsOnTheWay' = {m \in net : m.type = "intent"}

(***************************************************************************)
(* drain_pull_intents_async, on intents that differ from those of the      *)
(* other servers and of the messages: the audit stays at the state of the  *)
(* run, an answered intent moves from one count to the next.               *)
(***************************************************************************)
LEMMA DrainReads ==
  ASSUME TypeOK, Finite, NEW s \in Servers, NEW intents, NEW running, NEW net,
         HandsOver(s, intents, running, net),
         NEW a, NEW c, NEW q, NEW d, NEW f, Counts(s, intents, net, q, d, f),
         Reads(a, queue, [pull_intent_queue EXCEPT ![s] = intents], c, q, d, f)
  PROVE  HasRead(FoldLeft(Replay, a, DrainEvents(s, intents, running)), net, c, q, f)
<1>h. /\ intents \in Seq(Task) /\ NoDuplicates(intents)
      /\ running \in Nat /\ IsFiniteSet(net)
      /\ DrainPullIntents(s, intents, running, net)
      /\ \A m \in net : m.type = "pull" => <<m.lb, m.id>> \notin Elements(intents)
      /\ Elements(intents) \cap OthersKept(s) = {}
      /\ q = d + Cardinality(Elements(intents) \cup OthersKept(s))
      /\ d = f + Cardinality({m \in net : m.type = "pull"})
  BY DEF HandsOver, Counts
<1> DEFINE b == FoldLeft(Replay, a, DrainEvents(s, intents, running))
           I == [pull_intent_queue EXCEPT ![s] = intents]
           pulls == {m \in net : m.type = "pull"}
           kept == Elements(intents) \cup OthersKept(s)
<1>1. /\ pending_pulls[s] \in Nat /\ I[s] = intents /\ c \in Nat /\ q \in Nat /\ d \in Nat
      /\ f \in Nat /\ MaxConcurrency \in Nat
  BY AmphiQueueAssumption DEF TypeOK, Reads, AuditState
<1>2. /\ \A r \in Servers \ {s} : Kept(r)' = Kept(r)
      /\ IsFiniteSet(pulls)
  BY <1>h, DrainCases, FS_Subset
<1>3. AllKept' = Kept(s)' \cup OthersKept(s)
  <2>1. \A r \in Servers \ {s} : Kept(r)' = Kept(r)
    BY <1>2
  <2> HIDE DEF Kept
  <2> QED
    BY <2>1 DEF AllKept, OthersKept
<1>4. IsFiniteSet(kept)
  <2>1. IsFiniteSet(OthersKept(s))
    BY AuditSetsFinite
  <2>2. Len(intents) \in Nat /\ DOMAIN intents = 1 .. Len(intents)
    BY <1>h
  <2> DEFINE g == [i \in 1 .. Len(intents) |-> intents[i]]
  <2>3. g \in Surjection(1 .. Len(intents), Elements(intents))
    BY <2>2 DEF Surjection, Elements
  <2>4. IsFiniteSet(Elements(intents))
    <3> HIDE DEF g
    <3> QED
      BY <2>2, <2>3, FS_Interval, FS_Surjection
  <2> QED
    BY <2>1, <2>4, FS_Union
<1>5. CASE /\ HasSpareCapacity(s, running)
           /\ intents # <<>>
           /\ pull_intent_queue' = [pull_intent_queue EXCEPT ![s] = Tail(intents)]
           /\ network' = net \cup {PullRequest(Head(intents)[1], s, Head(intents)[2])}
  <2> DEFINE p == Head(intents)
             n == PullRequest(p[1], s, p[2])
  <2>1. /\ p \in Elements(intents) /\ p \in Task /\ NoDuplicates(Tail(intents))
        /\ Elements(Tail(intents)) = Elements(intents) \ {p}
    BY <1>h, <1>5, PopFront, PopFrontNew
  <2>2. p = <<p[1], p[2]>> /\ n.lb = p[1] /\ n.id = p[2] /\ n.type = "pull"
    BY <2>1 DEF Task, PullRequest
  <2>3. n \notin pulls
    BY <1>h, <2>1, <2>2
  <2>4. /\ PullsOnTheWay' = pulls \cup {n}
        /\ IntentsOnTheWay' = {m \in net : m.type = "intent"}
    BY <1>5, <2>2 DEF PullsOnTheWay, IntentsOnTheWay
  <2>5. Cardinality(PullsOnTheWay') = Cardinality(pulls) + 1
    <3> HIDE DEF pulls, n
    <3> QED
      BY <1>2, <2>3, <2>4, FS_AddElement
  <2>6. AllKept' = kept \ {p} /\ p \in kept
    <3>1. Kept(s)' = Elements(intents) \ {p}
      <4>1. pull_intent_queue'[s] = Tail(intents)
        BY <1>5 DEF TypeOK
      <4> QED
        BY <2>1, <4>1 DEF Kept
    <3> HIDE DEF p
    <3> QED
      BY <1>h, <1>3, <2>1, <3>1
  <2>7. Cardinality(AllKept') = Cardinality(kept) - 1
    <3> HIDE DEF p, kept
    <3> QED
      BY <1>4, <2>6, FS_RemoveElement
  <2>8. Cardinality(pulls) \in Nat /\ Cardinality(kept) \in Nat
    BY <1>2, <1>4, FS_CardinalityType
  <2> DEFINE e == IntentDrained(s, p, Len(intents), pending_pulls[s], running)
  <2>9. b = Replay(a, e)
    <3>1. DrainEvents(s, intents, running) = <<e>>
      BY <1>5 DEF DrainEvents
    <3> HIDE DEF e
    <3> QED
      BY <3>1, RecordOne
  <2>10. Reads(b, queue, [I EXCEPT ![s] = Tail(@)], c, q, d + 1, f)
    <3>1. pending_pulls[s] + running < MaxConcurrency
      BY <1>h, <1>1, <1>5 DEF HasSpareCapacity
    <3>2. Reads(Replay(a, IntentDrained(s, Head(I[s]), Len(I[s]), pending_pulls[s], running)),
                queue, [I EXCEPT ![s] = Tail(@)], c, q, d + 1, f)
      <4>1. Reads(a, queue, I, c, q, d, f) /\ I[s] # <<>>
        BY <1>1, <1>5
      <4> HIDE DEF I
      <4> QED
        BY <1>h, <1>1, <3>1, <4>1, ReadsDrained
    <3> QED
      BY <1>1, <2>9, <3>2
  <2>11. [I EXCEPT ![s] = Tail(@)] = pull_intent_queue'
    BY <1>5 DEF TypeOK
  <2>12. q = (d + 1) + Cardinality(AllKept') /\ d + 1 = f + Cardinality(PullsOnTheWay')
    <3>1. q = d + Cardinality(kept) /\ d = f + Cardinality(pulls)
      BY <1>h
    <3> HIDE DEF kept, pulls
    <3>2. PICK k \in Nat, u \in Nat : k = Cardinality(kept) /\ u = Cardinality(pulls)
      BY <2>8
    <3>3. Cardinality(AllKept') = k - 1 /\ Cardinality(PullsOnTheWay') = u + 1
      BY <2>5, <2>7, <3>2
    <3>4. q = d + k /\ d = f + u
      BY <3>1, <3>2
    <3>5. d \in Nat /\ f \in Nat
      BY <1>1
    <3> QED
      BY <3>3, <3>4, <3>5
  <2> HIDE DEF b, I
  <2> QED
    BY <2>4, <2>10, <2>11, <2>12 DEF b, HasRead
<1>6. CASE /\ ~HasSpareCapacity(s, running) \/ intents = <<>>
           /\ pull_intent_queue' = [pull_intent_queue EXCEPT ![s] = intents]
           /\ network' = net
  <2>1. /\ PullsOnTheWay' = pulls
        /\ IntentsOnTheWay' = {m \in net : m.type = "intent"}
    BY <1>6 DEF PullsOnTheWay, IntentsOnTheWay
  <2>2. AllKept' = kept
    <3>1. Kept(s)' = Elements(intents)
      BY <1>6 DEF TypeOK, Kept
    <3> QED
      BY <1>3, <3>1
  <2>3. b = a
    <3>1. DrainEvents(s, intents, running) = <<>>
      BY <1>6 DEF DrainEvents
    <3> QED
      BY <3>1, RecordNone
  <2>4. Reads(b, queue, pull_intent_queue', c, q, d, f)
    BY <1>6, <2>3
  <2> HIDE DEF b
  <2> QED
    BY <1>h, <2>1, <2>2, <2>4 DEF b, HasRead
<1> QED
  BY <1>h, <1>5, <1>6 DEF DrainPullIntents

(* The invariant is preserved, one lemma per action. *)

LEMMA InitAudited == AuditedInit => AuditInv
<1> SUFFICES ASSUME AuditedInit PROVE AuditInv
  OBVIOUS
<1>1. Reads(audit, queue, pull_intent_queue, 0, 0, 0, 0)
  BY DEF AuditedInit, Init, NothingRecorded, Reads, AuditState
<1>2. audit.sent = 0 /\ audit.queued = 0 /\ audit.drained = 0 /\ audit.fulfilled = 0
  BY <1>1 DEF Reads
<1>3. IntentsOnTheWay = {} /\ PullsOnTheWay = {} /\ AllKept = {}
  BY DEF AuditedInit, Init, IntentsOnTheWay, PullsOnTheWay, AllKept, Kept, Elements
<1>4. Cardinality({}) = 0
  BY FS_EmptySet
<1>5. \A l \in LBs : next_task_id[l] = 0
  BY DEF AuditedInit, Init
<1> QED
  BY <1>1, <1>2, <1>3, <1>4, <1>5 DEF AuditInv

(* Handlers that neither send, answer nor carry an intent record nothing. *)
LEMMA UnauditedKeeps ==
  ASSUME PlacesInv, AuditInv,
         UNCHANGED <<queue, pull_intent_queue, next_task_id, audit>>,
         \A n : n \in network' /\ n.type \in {"intent", "pull"}
                  <=> n \in network /\ n.type \in {"intent", "pull"}
  PROVE  AuditInv'
<1>1. IntentsOnTheWay' = IntentsOnTheWay /\ PullsOnTheWay' = PullsOnTheWay
  BY DEF IntentsOnTheWay, PullsOnTheWay
<1>2. AllKept' = AllKept
  BY DEF AllKept, Kept
<1>3. Reads(audit, queue, pull_intent_queue,
            audit.sent, audit.queued, audit.drained, audit.fulfilled)'
  BY DEF AuditInv, Reads, AuditState
<1> QED
  BY <1>1, <1>2, <1>3 DEF AuditInv

LEMMA InputAudited ==
  ASSUME PlacesInv, AuditInv, NEW l \in LBs, AuditedInput(l)
  PROVE  AuditInv'
<1> DEFINE id == next_task_id[l]
           e1 == TaskEnqueued(l, id, Len(queue[l]))
           e2 == IntentSent(l)
           c == audit.sent
           q == audit.queued
           d == audit.drained
           f == audit.fulfilled
           T2 == [queue EXCEPT ![l] = Append(@, id)]
<1>1. TypeOK /\ Finite /\ IdsKnown
  BY DEF PlacesInv
<1>2. PICK s \in Subset[l] : network' = network \cup {PullIntent(l, s, id)}
  BY DEF AuditedInput, Input
<1>3. /\ queue' = T2
      /\ next_task_id' = [next_task_id EXCEPT ![l] = id + 1]
      /\ pull_intent_queue' = pull_intent_queue
      /\ audit' = FoldLeft(Replay, audit, InputEvents(l))
      /\ id \in Nat
  BY <1>1 DEF AuditedInput, Input, Records, serverVars, TypeOK
<1>4. Reads(audit, queue, pull_intent_queue, c, q, d, f)
  BY DEF AuditInv
<1>5. Reads(Replay(audit, e1), T2, pull_intent_queue, c, q, d, f)
  <2> HIDE DEF c, q, d, f, id
  <2> QED
    BY <1>3, <1>4, ReadsEnqueued
<1>6. Reads(Replay(Replay(audit, e1), e2), T2, pull_intent_queue, c + 1, q, d, f)
  <2> HIDE DEF c, q, d, f, id, e1, T2
  <2> QED
    BY <1>5, ReadsSent
<1>7. audit' = Replay(Replay(audit, e1), e2)
  <2>1. IsPair(InputEvents(l), e1, e2)
    BY DEF IsPair, InputEvents
  <2> HIDE DEF e1, e2
  <2>2. ReplaysPair(audit, InputEvents(l), e1, e2)
    BY <2>1, RecordTwo, Zenon
  <2> QED
    BY <1>3, <2>2 DEF ReplaysPair
<1>8. Reads(audit', queue', pull_intent_queue', c + 1, q, d, f)
  BY <1>3, <1>6, <1>7
<1> DEFINE n == PullIntent(l, s, id)
<1>9. n.type = "intent" /\ n.id = id /\ n.lb = l
  BY DEF PullIntent
<1>10. n \notin network
  BY <1>1, <1>3, <1>9 DEF IdsKnown
<1> HIDE DEF n
<1>11. /\ IntentsOnTheWay' = IntentsOnTheWay \cup {n} /\ n \notin IntentsOnTheWay
       /\ PullsOnTheWay' = PullsOnTheWay
       /\ AllKept' = AllKept
  BY <1>2, <1>3, <1>9, <1>10 DEF IntentsOnTheWay, PullsOnTheWay, AllKept, Kept, n
<1>12. Cardinality(IntentsOnTheWay') = Cardinality(IntentsOnTheWay) + 1
  BY <1>1, <1>11, FS_AddElement, AuditSetsFinite
<1>13. /\ audit.sent' = c + 1 /\ audit.queued' = q /\ audit.drained' = d
       /\ audit.fulfilled' = f /\ c \in Nat /\ q \in Nat /\ Cardinality(IntentsOnTheWay) \in Nat
  BY <1>1, <1>4, <1>8, AuditSetsFinite DEF Reads, AuditState
<1>14. c = q + Cardinality(IntentsOnTheWay)
  BY DEF AuditInv
<1>15. audit.sent' = audit.queued' + Cardinality(IntentsOnTheWay')
  <2> HIDE DEF c, q
  <2> QED
    BY <1>12, <1>13, <1>14
<1>16. c + 1 > 0
  BY <1>13
<1> QED
  BY <1>8, <1>11, <1>13, <1>15, <1>16 DEF AuditInv

LEMMA PullAudited ==
  ASSUME PlacesInv, AuditInv, NEW m \in network, AuditedPull(m)
  PROVE  AuditInv'
<1> DEFINE l == m.lb
           s == m.server
           c == audit.sent
           q == audit.queued
           d == audit.drained
           f == audit.fulfilled
<1>1. TypeOK /\ Finite /\ OnePlace
  BY DEF PlacesInv
<1>2. PullPositions(l, m.id) # {} /\ m.type = "pull" /\ l \in LBs /\ s \in Servers
  BY <1>1, PullFinds, Members DEF AuditedPull, Pull
<1>3. PICK i \in PullPositions(l, m.id) :
        /\ \A j \in PullPositions(l, m.id) : i <= j
        /\ queue' = [queue EXCEPT ![l] = RemoveAt(@, i)]
        /\ network' = (network \ {m}) \cup {TaskMessage(l, s, queue[l][i])}
  BY <1>2 DEF AuditedPull, Pull
<1>4. /\ queue[l] \in Seq(Nat) /\ NoDuplicates(queue[l]) /\ i \in DOMAIN queue[l]
      /\ IF bound THEN queue[l][i] = m.id ELSE i = 1
      /\ PullPositions(l, m.id) \subseteq Nat /\ i \in Nat
  BY <1>1, <1>2 DEF TypeOK, OnePlace, PullPositions
<1>5. Min(PullPositions(l, m.id)) = i
  <2>1. /\ Min(PullPositions(l, m.id)) \in PullPositions(l, m.id)
        /\ \A k \in PullPositions(l, m.id) : Min(PullPositions(l, m.id)) <= k
    BY <1>2, <1>4, MinIsSmallest
  <2> QED
    BY <1>3, <1>4, <2>1
<1> DEFINE e == PullFulfilled(l, m.id, queue[l][i], queue[l])
<1>6. audit' = Replay(audit, e)
  <2>1. PullEvents(m) = <<e>>
    BY <1>2, <1>5 DEF PullEvents
  <2> HIDE DEF e
  <2>2. audit' = FoldLeft(Replay, audit, PullEvents(m))
    BY DEF AuditedPull, Records
  <2> QED
    BY <2>1, <2>2, RecordOne
<1>7. Reads(audit, queue, pull_intent_queue, c, q, d, f)
  BY DEF AuditInv
<1>8. Reads(Replay(audit, e), [queue EXCEPT ![l] = RemoveAt(@, i)], pull_intent_queue, c, q, d, f + 1)
  <2>1. \E r : r = m.id /\ (IF bound THEN queue[l][i] = r ELSE i = 1)
    BY <1>4
  <2> HIDE DEF c, q, d, f, l
  <2> QED
    BY <1>2, <1>4, <1>7, <2>1, ReadsFulfilled
<1>9. pull_intent_queue' = pull_intent_queue /\ next_task_id' = next_task_id
  BY DEF AuditedPull, Pull, serverVars
<1>10. Reads(audit', queue', pull_intent_queue', c, q, d, f + 1)
  BY <1>3, <1>6, <1>8, <1>9
<1>11. /\ PullsOnTheWay' = PullsOnTheWay \ {m} /\ m \in PullsOnTheWay
       /\ IntentsOnTheWay' = IntentsOnTheWay
       /\ AllKept' = AllKept
  BY <1>2, <1>3, <1>9 DEF PullsOnTheWay, IntentsOnTheWay, AllKept, Kept, TaskMessage
<1>12. Cardinality(PullsOnTheWay') = Cardinality(PullsOnTheWay) - 1
  BY <1>1, <1>11, FS_RemoveElement, AuditSetsFinite
<1>13. /\ audit.sent' = c /\ audit.queued' = q /\ audit.drained' = d
       /\ audit.fulfilled' = f + 1 /\ f \in Nat /\ d \in Nat /\ Cardinality(PullsOnTheWay) \in Nat
  BY <1>1, <1>7, <1>10, AuditSetsFinite DEF Reads, AuditState
<1>14. d = f + Cardinality(PullsOnTheWay)
  BY DEF AuditInv
<1>15. audit.drained' = audit.fulfilled' + Cardinality(PullsOnTheWay')
  <2> HIDE DEF d, f
  <2> QED
    BY <1>12, <1>13, <1>14
<1> QED
  BY <1>9, <1>10, <1>11, <1>13, <1>15 DEF AuditInv

LEMMA ReceiveAudited ==
  ASSUME PlacesInv, AuditInv, NEW m \in network, AuditedReceive(m)
  PROVE  AuditInv'
<1> DEFINE s == m.server
           t == <<m.lb, m.id>>
           intents == Append(pull_intent_queue[s], t)
           net == network \ {m}
           e == IntentQueued(s, m.lb, m.id, Len(pull_intent_queue[s]))
           es == DrainEvents(s, intents, in_flight[s])
           c == audit.sent
           q == audit.queued
           d == audit.drained
           f == audit.fulfilled
           a == Replay(audit, e)
<1>1. TypeOK /\ Finite /\ OneIntent
  BY DEF PlacesInv
<1>2. /\ m.type = "intent"
      /\ DrainPullIntents(s, intents, in_flight[s], net)
      /\ UNCHANGED <<next_task_id, queue>>
      /\ audit' = FoldLeft(Replay, audit, ReceiveEvents(m))
      /\ ReceiveEvents(m) = <<e>> \o es
  BY DEF AuditedReceive, ReceivePullIntent, lbVars, Records, ReceiveEvents
<1>3. /\ s \in Servers /\ m.lb \in LBs /\ m.id \in Nat
      /\ t \in Task /\ m \in Asking
  BY <1>1, <1>2, Members DEF Task, Asking
<1>4. /\ pull_intent_queue[s] \in Seq(Task) /\ NoDuplicates(pull_intent_queue[s])
      /\ \A r \in Servers : t \notin Kept(r)
      /\ in_flight[s] \in Nat
  BY <1>1, <1>3 DEF TypeOK, OneIntent
<1>5. /\ intents \in Seq(Task) /\ NoDuplicates(intents)
      /\ Elements(intents) = Kept(s) \cup {t}
  BY <1>3, <1>4, PushBack, PushBackNew DEF Kept
<1>6. IsFiniteSet(net)
  BY <1>1, FS_RemoveElement DEF Finite
<1>7. \A n \in net : n.type = "pull" => <<n.lb, n.id>> \notin Elements(intents)
  <2>1. ASSUME NEW n \in net, n.type = "pull" PROVE n \in Asking /\ n # m
    BY <2>1 DEF Asking
  <2>2. ASSUME NEW n \in Asking, n # m PROVE <<n.lb, n.id>> # t /\ <<n.lb, n.id>> \notin Kept(s)
    BY <1>1, <1>3, <2>2 DEF OneIntent
  <2> QED
    BY <1>5, <2>1, <2>2
<1>8. /\ Elements(intents) \cap OthersKept(s) = {}
      /\ Elements(intents) \cup OthersKept(s) = AllKept \cup {t}
      /\ t \notin AllKept
  <2>1. \A r \in Servers \ {s} : Kept(s) \cap Kept(r) = {} /\ t \notin Kept(r)
    BY <1>1, <1>3, <1>4 DEF OneIntent
  <2>2. AllKept = Kept(s) \cup OthersKept(s)
    <3> HIDE DEF Kept, s
    <3> QED
      BY <1>3 DEF AllKept, OthersKept
  <2>3. Kept(s) \cap OthersKept(s) = {} /\ t \notin OthersKept(s)
    <3> HIDE DEF Kept, s, t
    <3> QED
      BY <2>1 DEF OthersKept
  <2> HIDE DEF Kept, s, t, intents
  <2> QED
    BY <1>3, <1>4, <1>5, <2>2, <2>3
<1>9. Reads(audit, queue, pull_intent_queue, c, q, d, f)
  BY DEF AuditInv
<1>10. Reads(a, queue, [pull_intent_queue EXCEPT ![s] = intents], c, q + 1, d, f)
  <2>1. Reads(a, queue, [pull_intent_queue EXCEPT ![s] = Append(@, t)], c, q + 1, d, f)
    <3> HIDE DEF c, q, d, f, s
    <3> QED
      BY <1>3, <1>9, ReadsQueued
  <2> QED
    BY <2>1
<1>11. audit' = FoldLeft(Replay, a, es)
  <2>1. AtMostOne(es)
    BY DEF DrainEvents, AtMostOne
  <2> HIDE DEF e, es
  <2>2. ReplaysThen(audit, e, es)
    BY <2>1, RecordThen, Zenon
  <2>3. FoldLeft(Replay, audit, <<e>> \o es) = FoldLeft(Replay, a, es)
    BY <2>2, Zenon DEF ReplaysThen
  <2> QED
    BY <1>2, <2>3, Zenon
<1>12. /\ Cardinality(Elements(intents) \cup OthersKept(s)) = Cardinality(AllKept) + 1
       /\ {n \in net : n.type = "pull"} = PullsOnTheWay
       /\ {n \in net : n.type = "intent"} = IntentsOnTheWay \ {m}
       /\ Cardinality(IntentsOnTheWay \ {m}) = Cardinality(IntentsOnTheWay) - 1
  <2>1. Cardinality(AllKept \cup {t}) = Cardinality(AllKept) + 1
    BY <1>1, <1>8, FS_AddElement, AuditSetsFinite
  <2>2. m \in IntentsOnTheWay
    BY <1>2 DEF IntentsOnTheWay
  <2>3. Cardinality(IntentsOnTheWay \ {m}) = Cardinality(IntentsOnTheWay) - 1
    BY <1>1, <2>2, FS_RemoveElement, AuditSetsFinite
  <2> QED
    BY <1>2, <1>8, <2>1, <2>3 DEF PullsOnTheWay, IntentsOnTheWay
<1>13. /\ c \in Nat /\ q \in Nat /\ d \in Nat
       /\ c = q + Cardinality(IntentsOnTheWay)
       /\ q = d + Cardinality(AllKept)
       /\ d = f + Cardinality(PullsOnTheWay)
       /\ Cardinality(IntentsOnTheWay) \in Nat /\ Cardinality(AllKept) \in Nat
  BY <1>1, <1>9, AuditSetsFinite DEF AuditInv, Reads, AuditState
<1>14. q + 1 = d + Cardinality(Elements(intents) \cup OthersKept(s))
  <2> HIDE DEF c, q, d, f, intents
  <2> QED
    BY <1>12, <1>13
<1>15. PICK x : /\ Reads(audit', queue, pull_intent_queue', c, q + 1, x, f)
                /\ q + 1 = x + Cardinality(AllKept')
                /\ x = f + Cardinality(PullsOnTheWay')
                /\ IntentsOnTheWay' = {n \in net : n.type = "intent"}
  <2>1. d = f + Cardinality({n \in net : n.type = "pull"})
    BY <1>12, <1>13
  <2> HIDE DEF c, q, d, f, s, intents, net, a
  <2>2. HandsOver(s, intents, in_flight[s], net)
    BY <1>2, <1>4, <1>5, <1>6, <1>7, <1>8 DEF HandsOver
  <2>3. Counts(s, intents, net, q + 1, d, f)
    BY <1>14, <2>1 DEF Counts
  <2>4. HasRead(FoldLeft(Replay, a, es), net, c, q + 1, f)
    BY <1>1, <1>3, <1>10, <2>2, <2>3, DrainReads, Zenon
  <2> HIDE DEF es
  <2>5. HasRead(audit', net, c, q + 1, f)
    BY <1>11, <2>4
  <2> QED
    BY <2>5, Zenon DEF HasRead
<1>16. /\ audit.sent' = c /\ audit.queued' = q + 1 /\ audit.drained' = x /\ audit.fulfilled' = f
  BY <1>15 DEF Reads
<1>17. c = q + 1 + Cardinality(IntentsOnTheWay')
  <2>1. Cardinality(IntentsOnTheWay') = Cardinality(IntentsOnTheWay) - 1
    BY <1>12, <1>15
  <2> HIDE DEF c, q
  <2> QED
    BY <1>13, <2>1
<1>18. \A k \in LBs : next_task_id'[k] > 0 => c > 0
  BY <1>2 DEF AuditInv
<1>19. queue' = queue
  BY <1>2
<1> HIDE DEF c, q, d, f
<1> QED
  BY <1>15, <1>16, <1>17, <1>18, <1>19 DEF AuditInv

LEMMA CompleteAudited ==
  ASSUME PlacesInv, AuditInv, NEW s \in Servers, NEW t \in serving[s], AuditedComplete(s, t)
  PROVE  AuditInv'
<1> DEFINE rel == ReleaseOf(t[1], s, t[2])
           intents == pull_intent_queue[s]
           net == network \cup {rel}
           es == DrainEvents(s, intents, in_flight[s] - 1)
           c == audit.sent
           q == audit.queued
           d == audit.drained
           f == audit.fulfilled
<1>1. TypeOK /\ Finite /\ OneIntent /\ CapacityRespected
  BY DEF PlacesInv
<1>2. /\ DrainPullIntents(s, intents, in_flight[s] - 1, net)
      /\ UNCHANGED <<next_task_id, queue>>
      /\ audit' = FoldLeft(Replay, audit, es)
  BY DEF AuditedComplete, Complete, lbVars, Records
<1>3. rel.type = "release"
  BY DEF ReleaseOf
<1>4. /\ intents \in Seq(Task) /\ NoDuplicates(intents) /\ Elements(intents) = Kept(s)
      /\ [pull_intent_queue EXCEPT ![s] = intents] = pull_intent_queue
  BY <1>1 DEF TypeOK, OneIntent, Kept
<1>5. in_flight[s] - 1 \in Nat
  <2>1. Cardinality(serving[s]) # 0
    BY <1>1, FS_EmptySet DEF Finite
  <2>2. in_flight[s] \in Nat /\ in_flight[s] # 0
    BY <1>1, <2>1 DEF CapacityRespected, TypeOK
  <2> QED
    BY <2>2
<1>6. IsFiniteSet(net)
  BY <1>1, FS_AddElement DEF Finite
<1>7. \A n \in net : n.type = "pull" => <<n.lb, n.id>> \notin Elements(intents)
  <2>1. ASSUME NEW n \in net, n.type = "pull" PROVE n \in Asking
    BY <1>3, <2>1 DEF Asking
  <2>2. \A n \in Asking : <<n.lb, n.id>> \notin Kept(s)
    BY <1>1 DEF OneIntent
  <2> HIDE DEF intents, net
  <2> QED
    BY <1>4, <2>1, <2>2
<1>8. /\ Elements(intents) \cap OthersKept(s) = {}
      /\ Elements(intents) \cup OthersKept(s) = AllKept
  <2>1. \A r \in Servers \ {s} : Kept(s) \cap Kept(r) = {}
    BY <1>1 DEF OneIntent
  <2>2. AllKept = Kept(s) \cup OthersKept(s)
    <3> HIDE DEF Kept
    <3> QED
      BY DEF AllKept, OthersKept
  <2>3. Kept(s) \cap OthersKept(s) = {}
    <3> HIDE DEF Kept
    <3> QED
      BY <2>1 DEF OthersKept
  <2> QED
    BY <1>4, <2>2, <2>3
<1>9. Reads(audit, queue, pull_intent_queue, c, q, d, f)
  BY DEF AuditInv
<1>10. Reads(audit, queue, [pull_intent_queue EXCEPT ![s] = intents], c, q, d, f)
  BY <1>4, <1>9
<1>11. /\ {n \in net : n.type = "pull"} = PullsOnTheWay
       /\ {n \in net : n.type = "intent"} = IntentsOnTheWay
  <2> HIDE DEF rel
  <2> QED
    BY <1>3 DEF PullsOnTheWay, IntentsOnTheWay
<1>12. /\ q = d + Cardinality(Elements(intents) \cup OthersKept(s))
       /\ d = f + Cardinality({n \in net : n.type = "pull"})
       /\ c = q + Cardinality(IntentsOnTheWay)
  BY <1>8, <1>11 DEF AuditInv
<1>13. PICK x : /\ Reads(audit', queue, pull_intent_queue', c, q, x, f)
                /\ q = x + Cardinality(AllKept')
                /\ x = f + Cardinality(PullsOnTheWay')
                /\ IntentsOnTheWay' = {n \in net : n.type = "intent"}
  <2> HIDE DEF c, q, d, f, intents, net
  <2>1. HandsOver(s, intents, in_flight[s] - 1, net)
    BY <1>2, <1>4, <1>5, <1>6, <1>7, <1>8 DEF HandsOver
  <2>2. Counts(s, intents, net, q, d, f)
    BY <1>12 DEF Counts
  <2>3. HasRead(FoldLeft(Replay, audit, es), net, c, q, f)
    BY <1>1, <1>10, <2>1, <2>2, DrainReads, Zenon
  <2> HIDE DEF es
  <2>4. HasRead(audit', net, c, q, f)
    BY <1>2, <2>3
  <2> QED
    BY <2>4, Zenon DEF HasRead
<1>14. /\ audit.sent' = c /\ audit.queued' = q /\ audit.drained' = x /\ audit.fulfilled' = f
  BY <1>13 DEF Reads
<1>15. /\ \A k \in LBs : next_task_id'[k] > 0 => c > 0
       /\ queue' = queue
       /\ c = q + Cardinality(IntentsOnTheWay')
  BY <1>2, <1>11, <1>12, <1>13 DEF AuditInv
<1> HIDE DEF c, q, d, f
<1> QED
  BY <1>13, <1>14, <1>15 DEF AuditInv

LEMMA NextAudited ==
  ASSUME PlacesInv, AuditInv, [AuditedNext]_auditedVars
  PROVE  AuditInv'
<1>1. ASSUME NEW l \in LBs, AuditedInput(l) PROVE AuditInv'
  BY <1>1, InputAudited
<1>2. ASSUME NEW m \in network, AuditedReceive(m) PROVE AuditInv'
  BY <1>2, ReceiveAudited
<1>3. ASSUME NEW m \in network, AuditedPull(m) PROVE AuditInv'
  BY <1>3, PullAudited
<1>4. ASSUME NEW m \in network, Unaudited(m) PROVE AuditInv'
  <2>1. /\ m.type \in {"task", "release"} /\ network' = network \ {m}
        /\ UNCHANGED <<queue, pull_intent_queue, next_task_id, audit>>
    BY <1>4 DEF Unaudited, ServerInput, Release, lbVars, serverVars
  <2>2. \A n : n \in network' /\ n.type \in {"intent", "pull"}
                 <=> n \in network /\ n.type \in {"intent", "pull"}
    BY <2>1
  <2> QED
    BY <2>1, <2>2, UnauditedKeeps
<1>5. ASSUME NEW s \in Servers, NEW t \in serving[s], AuditedComplete(s, t) PROVE AuditInv'
  BY <1>5, CompleteAudited
<1>6. ASSUME (Finished /\ UNCHANGED audit) \/ UNCHANGED auditedVars PROVE AuditInv'
  <2>1. UNCHANGED <<queue, pull_intent_queue, next_task_id, audit, network>>
    BY <1>6 DEF Finished, auditedVars, vars, lbVars, serverVars
  <2> QED
    BY <2>1, UnauditedKeeps
<1> QED
  BY <1>1, <1>2, <1>3, <1>4, <1>5, <1>6 DEF AuditedNext

(* Under the audit the protocol takes its own steps. *)
LEMMA AuditedSteps == [AuditedNext]_auditedVars => [Next]_vars
<1> SUFFICES ASSUME [AuditedNext]_auditedVars PROVE [Next]_vars
  OBVIOUS
<1>1. ASSUME NEW l \in LBs, AuditedInput(l), status = "running" PROVE Next
  BY <1>1 DEF AuditedInput, Next
<1>2. ASSUME NEW m \in network, status = "running",
             AuditedReceive(m) \/ AuditedPull(m) \/ Unaudited(m)
      PROVE  Next
  BY <1>2 DEF AuditedReceive, AuditedPull, Unaudited, Next, Deliver
<1>3. ASSUME NEW s \in Servers, NEW t \in serving[s], AuditedComplete(s, t), status = "running"
      PROVE  Next
  BY <1>3 DEF AuditedComplete, Next
<1>4. ASSUME Finished, status = "running" PROVE Next
  BY <1>4 DEF Next
<1>5. ASSUME UNCHANGED auditedVars PROVE UNCHANGED vars
  BY <1>5 DEF auditedVars
<1> QED
  BY <1>1, <1>2, <1>3, <1>4, <1>5 DEF AuditedNext

(* The run is over only when no intent is kept and no task is queued. *)
LEMMA OverMeans ==
  ASSUME PlacesInv, KeptByFull, RunOver
  PROVE  /\ \A s \in Servers : pull_intent_queue[s] = <<>>
         /\ \A l \in LBs : queue[l] = <<>>
         /\ IntentsOnTheWay = {} /\ PullsOnTheWay = {} /\ AllKept = {}
<1>1. TypeOK /\ MaxConcurrency \in Nat /\ MaxConcurrency # 0 /\ CapacityRespected
  BY AmphiQueueAssumption DEF PlacesInv
<1>2. ASSUME NEW s \in Servers PROVE pull_intent_queue[s] = <<>>
  <2>1. Claims(s) = {} /\ serving[s] = {}
    BY DEF RunOver, Claims
  <2>2. in_flight[s] = 0 /\ pending_pulls[s] = 0
    BY <1>1, <2>1, FS_EmptySet DEF CapacityRespected
  <2>3. HasSpareCapacity(s, in_flight[s])
    BY <1>1, <2>2 DEF HasSpareCapacity
  <2> QED
    BY <2>3 DEF KeptByFull
<1>3. \A s \in Servers : Kept(s) = {}
  BY <1>2 DEF Kept, Elements
<1>4. ASSUME NEW l \in LBs PROVE queue[l] = <<>>
  <2>1. Announced(l) = {}
    BY <1>3 DEF Announced, Asking, RunOver
  <2>2. Cardinality(Queued(l)) = 0
    BY <2>1, FS_EmptySet DEF PlacesInv, AnnouncedQueued
  <2>3. Queued(l) = {}
    BY <2>2, CountsFinite, FS_EmptySet DEF PlacesInv
  <2>4. queue[l] \in Seq(Nat)
    BY <1>1 DEF TypeOK
  <2>5. queue[l] # <<>> => 1 \in DOMAIN queue[l]
    BY <2>4, PopFront
  <2> QED
    BY <2>3, <2>5 DEF Queued, Elements
<1>5. IntentsOnTheWay = {} /\ PullsOnTheWay = {} /\ AllKept = {}
  BY <1>3 DEF IntentsOnTheWay, PullsOnTheWay, AllKept, RunOver
<1> QED
  BY <1>2, <1>4, <1>5

(***************************************************************************)
(* The audit of every amphiqueue run with at least one task follows it:    *)
(* the replayed queues are the queues of the models whatever the order in  *)
(* which handlers record, and the run ends balanced.  (With no task at all *)
(* validate_common refuses the log, which holds no intent.)                *)
(***************************************************************************)
THEOREM AuditFollows ==
  ASSUME \E l \in LBs : TaskCount[l] > 0
  PROVE  AuditedSafety => []AuditFollowsRun
<1>1. AuditedInit => Init
  BY DEF AuditedInit
<1>2. AuditedSafety => Safety
  BY <1>1, AuditedSteps, PTL DEF Safety, AuditedSafety
<1>3. Init => KeptByFull
  BY DEF Init, KeptByFull
<1>4. KeptByFull /\ PlacesInv /\ [Next]_vars => KeptByFull'
  BY NextKeptByFull
<1>5. AuditedInit => AuditInv
  BY InitAudited
<1>6. AuditInv /\ PlacesInv /\ [AuditedNext]_auditedVars => AuditInv'
  BY NextAudited
<1>7. AuditInv /\ PlacesInv /\ KeptByFull => AuditFollowsRun
  <2> SUFFICES ASSUME AuditInv, PlacesInv, KeptByFull PROVE AuditFollowsRun
    OBVIOUS
  <2>1. /\ ~audit.rejected /\ audit.tasks = queue /\ audit.intents = pull_intent_queue
        /\ audit.sent \in Nat /\ audit.queued \in Nat
        /\ audit.drained \in Nat /\ audit.fulfilled \in Nat
    BY DEF AuditInv, Reads, AuditState
  <2>2. ASSUME RunOver PROVE Balanced(audit)
    <3>1. /\ \A s \in Servers : audit.intents[s] = <<>>
          /\ \A l \in LBs : audit.tasks[l] = <<>>
          /\ Cardinality(IntentsOnTheWay) = 0 /\ Cardinality(PullsOnTheWay) = 0
          /\ Cardinality(AllKept) = 0
      BY <2>1, <2>2, OverMeans, FS_EmptySet
    <3>2. audit.sent > 0
      <4>1. PICK l \in LBs : TaskCount[l] > 0
        OBVIOUS
      <4>2. next_task_id[l] > 0
        BY <2>2, <4>1 DEF RunOver
      <4> QED
        BY <4>2 DEF AuditInv
    <3>3. /\ audit.sent = audit.queued + Cardinality(IntentsOnTheWay)
          /\ audit.queued = audit.drained + Cardinality(AllKept)
          /\ audit.drained = audit.fulfilled + Cardinality(PullsOnTheWay)
      BY DEF AuditInv
    <3>4. /\ audit.sent = audit.queued /\ audit.queued = audit.drained
          /\ audit.drained = audit.fulfilled
      BY <2>1, <3>1, <3>3
    <3> QED
      BY <3>1, <3>2, <3>4 DEF Balanced
  <2> QED
    BY <2>1, <2>2 DEF AuditFollowsRun
<1> QED
  BY <1>2, <1>3, <1>4, <1>5, <1>6, <1>7, PlacesInvariant, PTL DEF Safety, AuditedSafety
=============================================================================
