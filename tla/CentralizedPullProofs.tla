----------------------- MODULE CentralizedPullProofs -----------------------
(***************************************************************************)
(* Proofs about centralized dispatch for every number of balancers,        *)
(* servers, slots and tasks: slots are conserved, no task waits beside a   *)
(* parked slot, tasks leave in arrival order, and the steps are those of   *)
(* TaskService.                                                            *)
(***************************************************************************)
EXTENDS CentralizedPull, QueueLemmas, FiniteSetTheorems

-----------------------------------------------------------------------------
(* How often a server stands in waiting_servers *)

Standing(w, s) == {i \in DOMAIN w : w[i] = s}

LEMMA StandingFinite ==
  ASSUME NEW S, NEW w \in Seq(S), NEW s
  PROVE  IsFiniteSet(Standing(w, s)) /\ Cardinality(Standing(w, s)) \in Nat
<1>1. DOMAIN w = 1 .. Len(w) /\ Len(w) \in Nat
  OBVIOUS
<1>2. IsFiniteSet(1 .. Len(w))
  BY <1>1, FS_Interval
<1> QED
  BY <1>1, <1>2, FS_Subset, FS_CardinalityType DEF Standing

LEMMA StandingPushBack ==
  ASSUME NEW S, NEW w \in Seq(S), NEW e \in S, NEW s
  PROVE  Cardinality(Standing(Append(w, e), s)) =
           Cardinality(Standing(w, s)) + IF s = e THEN 1 ELSE 0
<1> DEFINE n == Len(w) + 1
<1>1. /\ DOMAIN Append(w, e) = 1 .. n /\ DOMAIN w = 1 .. Len(w) /\ Len(w) \in Nat
      /\ \A i \in DOMAIN w : Append(w, e)[i] = w[i]
      /\ Append(w, e)[n] = e
  BY PushBack
<1>2. /\ \A i \in 1 .. n : i \in 1 .. Len(w) \/ i = n
      /\ \A i \in 1 .. Len(w) : i \in 1 .. n
      /\ n \in 1 .. n /\ n \notin 1 .. Len(w)
  BY <1>1
<1> HIDE DEF n
<1>3. Standing(Append(w, e), s) =
        IF s = e THEN Standing(w, s) \cup {n} ELSE Standing(w, s)
  BY <1>1, <1>2 DEF Standing
<1>4. n \notin Standing(w, s)
  BY <1>1, <1>2 DEF Standing
<1>5. IsFiniteSet(Standing(w, s)) /\ Cardinality(Standing(w, s)) \in Nat
  BY StandingFinite
<1>6. Cardinality(Standing(w, s) \cup {n}) = Cardinality(Standing(w, s)) + 1
  BY <1>4, <1>5, FS_AddElement
<1> QED
  BY <1>3, <1>5, <1>6

LEMMA StandingPopFront ==
  ASSUME NEW S, NEW w \in Seq(S), w # <<>>, NEW s
  PROVE  Cardinality(Standing(w, s)) =
           Cardinality(Standing(Tail(w), s)) + IF s = Head(w) THEN 1 ELSE 0
<1> DEFINE T == Standing(Tail(w), s)
           R == Standing(w, s) \ {1}
           f == [i \in T |-> i + 1]
<1>1. /\ Tail(w) \in Seq(S) /\ Head(w) = w[1] /\ 1 \in DOMAIN w
      /\ DOMAIN Tail(w) = 1 .. Len(w) - 1 /\ DOMAIN w = 1 .. Len(w) /\ Len(w) \in Nat
      /\ \A i \in DOMAIN Tail(w) : i + 1 \in DOMAIN w /\ Tail(w)[i] = w[i + 1]
      /\ \A i \in DOMAIN w :
           i = 1 \/ (i - 1 \in DOMAIN Tail(w) /\ w[i] = Tail(w)[i - 1])
  BY PopFront
<1>2. f \in [T -> R]
  <2> SUFFICES ASSUME NEW i \in T PROVE i + 1 \in R
    OBVIOUS
  <2>1. i \in DOMAIN Tail(w) /\ Tail(w)[i] = s /\ i \in Nat /\ i + 1 # 1
    BY <1>1 DEF Standing
  <2> QED
    BY <1>1, <2>1 DEF Standing
<1>3. \A i, j \in T : f[i] = f[j] => i = j
  BY <1>1 DEF Standing
<1>4. \A j \in R : \E i \in T : f[i] = j
  <2> TAKE j \in R
  <2>1. j \in DOMAIN w /\ w[j] = s /\ j # 1 /\ j \in Int
    BY <1>1 DEF Standing
  <2>2. j - 1 \in T
    BY <1>1, <2>1 DEF Standing
  <2>3. f[j - 1] = j
    BY <2>1, <2>2
  <2> QED
    BY <2>2, <2>3
<1>5. ExistsBijection(T, R)
  <2> HIDE DEF T, R, f
  <2> QED
    BY <1>2, <1>3, <1>4 DEF ExistsBijection, Bijection, Injection, Surjection, IsInjective
<1>6. IsFiniteSet(T) /\ IsFiniteSet(Standing(w, s))
  BY <1>1, StandingFinite
<1>7. Cardinality(R) = Cardinality(T)
  BY <1>5, <1>6, FS_Bijection
<1>8. 1 \in Standing(w, s) <=> s = Head(w)
  BY <1>1 DEF Standing
<1>9. /\ Cardinality(R) = IF s = Head(w) THEN Cardinality(Standing(w, s)) - 1
                          ELSE Cardinality(Standing(w, s))
      /\ Cardinality(Standing(w, s)) \in Nat /\ Cardinality(T) \in Nat
  BY <1>6, <1>8, FS_RemoveElement, FS_CardinalityType
<1> QED
  BY <1>7, <1>9

-----------------------------------------------------------------------------
(* The inductive invariant *)

(* The oldest task of l not dispatched: the next id, if none is queued. *)
Oldest(l) == next_task_id[l] - Len(queue[l])

(* The ids queued at l are the last ones given out, in order. *)
InOrder ==
  \A l \in LBs :
    /\ Oldest(l) \in Nat
    /\ \A i \in DOMAIN queue[l] : queue[l][i] = Oldest(l) + i - 1

(* Only servers of its subset are parked at a balancer. *)
ParkedAtHome ==
  \A l \in LBs : \A i \in DOMAIN waiting_servers[l] : Home[waiting_servers[l][i]] = l

(***************************************************************************)
(* A dispatched task has left the queue, goes to a server of its subset,   *)
(* and is either on its way, in service or finished.                       *)
(***************************************************************************)
OnePlace ==
  /\ \A p \in tasks : p[1][2] < Oldest(p[1][1]) /\ Home[p[2]] = p[1][1]
  /\ \A s \in Servers : \A t \in serving[s] : t[2] < Oldest(t[1])
  /\ \A t \in finished : t[2] < Oldest(t[1])
  /\ \A p, o \in tasks : p[1] = o[1] => p = o
  /\ \A p \in tasks : p[1] \notin finished
  /\ \A p \in tasks, s \in Servers : p[1] \notin serving[s]
  /\ \A s \in Servers : serving[s] \cap finished = {}
  /\ \A s1, s2 \in Servers : s1 # s2 => serving[s1] \cap serving[s2] = {}

Finite ==
  /\ IsFiniteSet(tasks)
  /\ \A s \in Servers : IsFiniteSet(serving[s])

SlotsInv ==
  /\ TypeOK
  /\ NoTaskWaitsWithSlot
  /\ InOrder
  /\ ParkedAtHome
  /\ OnePlace
  /\ Finite
  /\ SlotConservation

-----------------------------------------------------------------------------
(* Facts about one state *)

LEMMA IncomingFinite ==
  ASSUME Finite, NEW s \in Servers
  PROVE  IsFiniteSet(Incoming(s)) /\ Cardinality(Incoming(s)) \in Nat
BY FS_Subset, FS_CardinalityType DEF Finite, Incoming

LEMMA ParkedIsStanding ==
  ASSUME TypeOK, NEW s \in Servers
  PROVE  /\ Home[s] \in LBs
         /\ waiting_servers[Home[s]] \in Seq(Servers)
         /\ Parked(s) = Standing(waiting_servers[Home[s]], s)
         /\ Cardinality(Parked(s)) \in Nat
<1>1. Home[s] \in LBs /\ waiting_servers[Home[s]] \in Seq(Servers)
  BY CentralizedPullAssumption DEF TypeOK
<1>2. Parked(s) = Standing(waiting_servers[Home[s]], s)
  BY DEF Parked, Standing
<1> QED
  BY <1>1, <1>2, StandingFinite

LEMMA Members ==
  ASSUME TypeOK
  PROVE  /\ \A p \in tasks : /\ p[1] \in Task /\ p[2] \in Servers /\ p = <<p[1], p[2]>>
         /\ \A t \in Task : t[1] \in LBs /\ t[2] \in Nat /\ t = <<t[1], t[2]>>
         /\ \A s \in Servers : serving[s] \subseteq Task
         /\ finished \subseteq Task
BY DEF TypeOK, Task

LEMMA InitSlots == Init => SlotsInv
<1> SUFFICES ASSUME Init PROVE SlotsInv
  OBVIOUS
<1> USE DEF Init
<1>1. TypeOK
  BY CentralizedPullAssumption DEF TypeOK
<1>2. NoTaskWaitsWithSlot /\ ParkedAtHome
  BY DEF NoTaskWaitsWithSlot, ParkedAtHome
<1>3. InOrder
  BY DEF InOrder, Oldest
<1>4. OnePlace /\ Finite
  BY FS_EmptySet DEF OnePlace, Finite
<1>5. SlotConservation
  <2> SUFFICES ASSUME NEW s \in Servers
               PROVE  /\ in_flight[s] = Cardinality(serving[s])
                      /\ requested[s] + pulls[s] + Cardinality(Parked(s))
                           + Cardinality(Incoming(s)) + in_flight[s] = MaxConcurrency
    BY DEF SlotConservation
  <2>1. serving[s] = {} /\ Incoming(s) = {} /\ Parked(s) = {}
    BY CentralizedPullAssumption DEF Incoming, Parked
  <2>2. Cardinality({}) = 0 /\ MaxConcurrency \in Nat
    BY FS_EmptySet, CentralizedPullAssumption
  <2> QED
    BY <2>1, <2>2
<1> QED
  BY <1>1, <1>2, <1>3, <1>4, <1>5 DEF SlotsInv

-----------------------------------------------------------------------------
(* Steps that dispatch *)

(* The oldest task of l is sent to s. *)
LEMMA DispatchKeeps ==
  ASSUME SlotsInv, NEW l \in LBs, NEW s \in Servers, Home[s] = l,
         tasks' = tasks \cup {<< <<l, Oldest(l)>>, s>>},
         \A k \in LBs : Oldest(k)' = IF k = l THEN Oldest(k) + 1 ELSE Oldest(k),
         serving' = serving, finished' = finished
  PROVE  /\ OnePlace' /\ Finite'
         /\ \A r \in Servers : Cardinality(Incoming(r)') =
              Cardinality(Incoming(r)) + IF r = s THEN 1 ELSE 0
<1> USE DEF SlotsInv
<1> DEFINE id == Oldest(l)
           sent == << <<l, id>>, s>>
<1>1. /\ \A k \in LBs : Oldest(k) \in Nat /\ Oldest(k) <= Oldest(k)'
      /\ id \in Nat /\ id < Oldest(l)'
  BY DEF InOrder
<1>2. /\ \A p \in tasks : p[1] # <<l, id>>
      /\ <<l, id>> \notin finished
      /\ \A r \in Servers : <<l, id>> \notin serving[r]
  <2>1. \A t \in Task : t[2] < Oldest(t[1]) => t # <<l, id>>
    BY <1>1, Members
  <2> QED
    BY <2>1, Members DEF OnePlace
<1>3. sent[1] = <<l, id>> /\ sent[2] = s /\ sent \notin tasks
  BY <1>2
<1>4. \A t \in Task : t[2] < Oldest(t[1]) => t[2] < Oldest(t[1])'
  BY <1>1, Members
<1> HIDE DEF id, sent
<1>5. tasks' = tasks \cup {sent}
  BY DEF id, sent
<1>6. OnePlace'
  <2>1. \A p \in tasks' : p[1][2] < Oldest(p[1][1])' /\ Home[p[2]] = p[1][1]
    BY <1>1, <1>3, <1>4, <1>5, Members DEF OnePlace
  <2>2. /\ \A r \in Servers : \A t \in serving'[r] : t[2] < Oldest(t[1])'
        /\ \A t \in finished' : t[2] < Oldest(t[1])'
    BY <1>4, Members DEF OnePlace
  <2>3. \A p, o \in tasks' : p[1] = o[1] => p = o
    BY <1>2, <1>3, <1>5 DEF OnePlace
  <2>4. \A p \in tasks' : p[1] \notin finished' /\ \A r \in Servers : p[1] \notin serving'[r]
    BY <1>2, <1>3, <1>5 DEF OnePlace
  <2> QED
    BY <2>1, <2>2, <2>3, <2>4 DEF OnePlace
<1>7. Finite'
  BY <1>5, FS_AddElement DEF Finite
<1>8. ASSUME NEW r \in Servers
      PROVE  Cardinality(Incoming(r)') = Cardinality(Incoming(r)) + IF r = s THEN 1 ELSE 0
  <2>1. Incoming(r)' = IF r = s THEN Incoming(r) \cup {sent} ELSE Incoming(r)
    BY <1>3, <1>5 DEF Incoming
  <2>2. sent \notin Incoming(r) /\ IsFiniteSet(Incoming(r)) /\ Cardinality(Incoming(r)) \in Nat
    BY <1>3, IncomingFinite DEF Incoming
  <2>3. Cardinality(Incoming(r) \cup {sent}) = Cardinality(Incoming(r)) + 1
    BY <2>2, FS_AddElement
  <2> QED
    BY <2>1, <2>2, <2>3
<1> QED
  BY <1>6, <1>7, <1>8

(***************************************************************************)
(* Input queues the task, or sends it to the first of the parked servers:  *)
(* then there was nothing in the queue.                                    *)
(***************************************************************************)
LEMMA InputCases ==
  ASSUME SlotsInv, NEW l \in LBs, Input(l)
  PROVE  \/ /\ waiting_servers[l] = <<>>
            /\ queue' = [queue EXCEPT ![l] = Append(@, next_task_id[l])]
            /\ UNCHANGED <<waiting_servers, local_inflight, tasks>>
         \/ /\ waiting_servers[l] # <<>> /\ queue[l] = <<>>
            /\ UNCHANGED queue
            /\ waiting_servers' = [waiting_servers EXCEPT ![l] = Tail(@)]
            /\ tasks' = tasks \cup {<< <<l, next_task_id[l]>>, Head(waiting_servers[l])>>}
            /\ local_inflight' \in [Servers -> Nat]
<1> USE DEF SlotsInv
<1> DEFINE id == next_task_id[l]
           w  == waiting_servers[l]
           q  == Append(queue[l], id)
           k  == Min({Len(q), Len(w)})
<1>1. /\ Dispatch(l, q, w, k)
      /\ queue' = [queue EXCEPT ![l] = SubSeq(q, k + 1, Len(q))]
      /\ waiting_servers' = [waiting_servers EXCEPT ![l] = SubSeq(w, k + 1, Len(w))]
  BY DEF Input
<1>2. /\ id \in Nat /\ queue[l] \in Seq(Nat) /\ w \in Seq(Servers)
      /\ queue \in [LBs -> Seq(Nat)] /\ waiting_servers \in [LBs -> Seq(Servers)]
      /\ local_inflight \in [Servers -> Nat]
  BY DEF TypeOK
<1>3. q \in Seq(Nat) /\ Len(q) = Len(queue[l]) + 1 /\ Len(w) \in Nat /\ Len(queue[l]) \in Nat
  BY <1>2
<1>4. queue[l] = <<>> \/ w = <<>>
  BY DEF NoTaskWaitsWithSlot
<1>k. k = Min({Len(q), Len(w)}) /\ q = Append(queue[l], id) /\ w = waiting_servers[l]
  OBVIOUS
<1>n. next_task_id[l] = id
  OBVIOUS
<1> HIDE DEF k, q, w, id
<1>5. CASE w = <<>>
  <2>1. k = 0
    <3>1. Len(w) = 0
      BY <1>5
    <3> QED
      BY <1>3, <1>k, <3>1 DEF Min
  <2>2. SubSeq(q, k + 1, Len(q)) = q /\ SubSeq(w, k + 1, Len(w)) = w
    <3>1. k + 1 = 1
      BY <2>1
    <3> QED
      BY <1>2, <1>3, <3>1, SubSeqFull
  <2>3. queue' = [queue EXCEPT ![l] = q] /\ waiting_servers' = waiting_servers
    BY <1>1, <1>2, <1>k, <2>2
  <2>4. \A s \in Servers : {i \in 1 .. k : w[i] = s} = {}
    BY <2>1
  <2>5. tasks' = tasks /\ local_inflight' = local_inflight
    <3>1. \A s \in Servers : local_inflight[s] + Cardinality({}) = local_inflight[s]
      BY <1>2, FS_EmptySet
    <3>2. 1 .. k = {}
      BY <2>1
    <3>3. local_inflight' = [s \in Servers |-> local_inflight[s] + Cardinality({})]
      BY <1>1, <2>4 DEF Dispatch
    <3> QED
      BY <1>1, <1>2, <3>1, <3>2, <3>3 DEF Dispatch
  <2> QED
    BY <1>5, <1>k, <1>n, <2>3, <2>5
<1>6. CASE w # <<>>
  <2>1. queue[l] = <<>> /\ q = <<id>> /\ Len(q) = 1 /\ Len(w) >= 1
    <3>1. queue[l] = <<>>
      BY <1>4, <1>6
    <3>2. q = <<id>> /\ Len(q) = 1
      BY <1>k, <3>1
    <3>3. Len(w) >= 1
      BY <1>2, <1>6
    <3> QED
      BY <3>1, <3>2, <3>3
  <2>2. k = 1
    BY <1>3, <1>k, <2>1 DEF Min
  <2>3. SubSeq(q, k + 1, Len(q)) = <<>>
    BY <1>3, <2>1, <2>2, SubSeqEmpty
  <2>4. SubSeq(w, k + 1, Len(w)) = Tail(w) /\ Head(w) = w[1]
    <3>1. k + 1 = 2
      BY <2>2
    <3>2. Tail(w) = SubSeq(w, 2, Len(w))
      BY <1>2, <1>6, TailIsSubSeq
    <3>3. Head(w) = w[1]
      BY <1>2, <1>6
    <3> QED
      BY <3>1, <3>2, <3>3
  <2>5. queue' = queue /\ waiting_servers' = [waiting_servers EXCEPT ![l] = Tail(@)]
    BY <1>1, <1>2, <1>k, <2>1, <2>3, <2>4
  <2>6. tasks' = tasks \cup {<< <<l, id>>, Head(w)>>}
    <3>1. {<< <<l, q[i]>>, w[i]>> : i \in 1 .. k} = {<< <<l, id>>, Head(w)>>}
      BY <2>1, <2>2, <2>4
    <3> QED
      BY <1>1, <3>1 DEF Dispatch
  <2>7. local_inflight' \in [Servers -> Nat]
    <3>1. \A s \in Servers : Cardinality({i \in 1 .. k : w[i] = s}) \in Nat
      <4>1. IsFiniteSet({1})
        BY FS_Singleton
      <4>2. \A s \in Servers : {i \in 1 .. k : w[i] = s} \subseteq {1}
        BY <2>2
      <4> QED
        BY <4>1, <4>2, FS_Subset, FS_CardinalityType
    <3> DEFINE n(s) == Cardinality({i \in 1 .. k : w[i] = s})
    <3>2. local_inflight' = [s \in Servers |-> local_inflight[s] + n(s)]
      BY <1>1 DEF Dispatch
    <3>3. \A s \in Servers : n(s) \in Nat
      BY <3>1
    <3> HIDE DEF n
    <3> QED
      BY <1>2, <3>2, <3>3
  <2> QED
    BY <1>6, <1>k, <1>n, <2>1, <2>5, <2>6, <2>7
<1> QED
  BY <1>5, <1>6

LEMMA InputSlots ==
  ASSUME SlotsInv, NEW l \in LBs, Input(l)
  PROVE  SlotsInv'
<1> USE DEF SlotsInv
<1> DEFINE id == next_task_id[l]
           w  == waiting_servers[l]
<1>1. /\ next_task_id' = [next_task_id EXCEPT ![l] = id + 1]
      /\ UNCHANGED <<in_flight, serving, requested, pulls, releases, finished>>
  BY DEF Input, serverVars
<1>2. /\ id \in Nat /\ queue[l] \in Seq(Nat) /\ w \in Seq(Servers)
      /\ \A k \in LBs : next_task_id[k] \in Nat /\ Len(queue[k]) \in Nat
      /\ next_task_id' \in [LBs -> Nat]
      /\ \A k \in LBs : next_task_id'[k] = IF k = l THEN id + 1 ELSE next_task_id[k]
  BY <1>1 DEF TypeOK
<1>3. CASE /\ w = <<>>
           /\ queue' = [queue EXCEPT ![l] = Append(@, id)]
           /\ UNCHANGED <<waiting_servers, local_inflight, tasks>>
  <2>1. /\ queue' \in [LBs -> Seq(Nat)]
        /\ queue'[l] = Append(queue[l], id) /\ Len(queue'[l]) = Len(queue[l]) + 1
        /\ \A k \in LBs \ {l} : queue'[k] = queue[k]
    BY <1>2, <1>3 DEF TypeOK
  <2>2. TypeOK'
    BY <1>1, <1>2, <1>3, <2>1 DEF TypeOK
  <2>3. \A k \in LBs : Oldest(k)' = Oldest(k)
    <3>1. \A k \in LBs \ {l} : next_task_id'[k] = next_task_id[k]
      BY <1>2
    <3>2. next_task_id'[l] - Len(queue'[l]) = next_task_id[l] - Len(queue[l])
      BY <1>2, <2>1
    <3> QED
      BY <2>1, <3>1, <3>2 DEF Oldest
  <2>4. InOrder'
    <3>1. \A i \in DOMAIN queue'[l] : queue'[l][i] = Oldest(l) + i - 1
      <4>1. /\ DOMAIN queue'[l] = 1 .. Len(queue[l]) + 1 /\ DOMAIN queue[l] = 1 .. Len(queue[l])
            /\ \A i \in DOMAIN queue[l] : queue'[l][i] = queue[l][i]
            /\ queue'[l][Len(queue[l]) + 1] = id
        <5> HIDE DEF id
        <5> QED
          BY <1>2, <2>1, PushBack
      <4>2. \A i \in DOMAIN queue'[l] : i \in DOMAIN queue[l] \/ i = Len(queue[l]) + 1
        BY <1>2, <4>1
      <4>3. Oldest(l) + (Len(queue[l]) + 1) - 1 = id
        BY <1>2 DEF Oldest
      <4> QED
        BY <4>1, <4>2, <4>3 DEF InOrder
    <3> QED
      BY <2>1, <2>3, <3>1 DEF InOrder
  <2>5. NoTaskWaitsWithSlot' /\ ParkedAtHome'
    BY <1>3, <2>1 DEF NoTaskWaitsWithSlot, ParkedAtHome
  <2>6. OnePlace'
    <3>1. \A t \in Task : Oldest(t[1])' = Oldest(t[1])
      BY <2>3, Members
    <3> QED
      BY <1>1, <1>3, <3>1, Members DEF OnePlace
  <2>7. Finite' /\ SlotConservation'
    BY <1>1, <1>3 DEF Finite, SlotConservation, Parked, Incoming
  <2> QED
    BY <2>2, <2>4, <2>5, <2>6, <2>7
<1>4. CASE /\ w # <<>> /\ queue[l] = <<>>
           /\ UNCHANGED queue
           /\ waiting_servers' = [waiting_servers EXCEPT ![l] = Tail(@)]
           /\ tasks' = tasks \cup {<< <<l, id>>, Head(w)>>}
           /\ local_inflight' \in [Servers -> Nat]
  <2> DEFINE s == Head(w)
  <2>1. /\ s \in Servers /\ Tail(w) \in Seq(Servers) /\ s = w[1] /\ 1 \in DOMAIN w
        /\ \A i \in DOMAIN Tail(w) : i + 1 \in DOMAIN w /\ Tail(w)[i] = w[i + 1]
    BY <1>2, <1>4, PopFront
  <2>2. Home[s] = l
    BY <2>1 DEF ParkedAtHome
  <2>3. /\ waiting_servers' \in [LBs -> Seq(Servers)]
        /\ waiting_servers'[l] = Tail(w)
        /\ \A k \in LBs \ {l} : waiting_servers'[k] = waiting_servers[k]
    BY <1>4, <2>1 DEF TypeOK
  <2>4. TypeOK'
    <3>1. << <<l, id>>, s>> \in Task \X Servers
      BY <1>2, <2>1 DEF Task
    <3> QED
      BY <1>1, <1>2, <1>4, <2>3, <3>1 DEF TypeOK
  <2>5. NoTaskWaitsWithSlot'
    BY <1>4, <2>3 DEF NoTaskWaitsWithSlot
  <2>6. Oldest(l) = id
    BY <1>2, <1>4 DEF Oldest
  <2>7. \A k \in LBs : Oldest(k)' = IF k = l THEN Oldest(k) + 1 ELSE Oldest(k)
    BY <1>2, <1>4 DEF Oldest
  <2>8. InOrder'
    BY <1>4, <2>7 DEF InOrder
  <2>9. ParkedAtHome'
    <3>1. \A i \in DOMAIN waiting_servers'[l] : Home[waiting_servers'[l][i]] = l
      BY <2>1, <2>3 DEF ParkedAtHome
    <3>2. \A k \in LBs \ {l} : \A i \in DOMAIN waiting_servers'[k] :
            Home[waiting_servers'[k][i]] = k
      BY <2>3 DEF ParkedAtHome
    <3> QED
      BY <3>1, <3>2 DEF ParkedAtHome
  <2>10. /\ OnePlace' /\ Finite'
         /\ \A r \in Servers : Cardinality(Incoming(r)') =
              Cardinality(Incoming(r)) + IF r = s THEN 1 ELSE 0
    <3> HIDE DEF s, id, SlotsInv
    <3> QED
      BY <1>1, <1>4, <2>1, <2>2, <2>6, <2>7, DispatchKeeps DEF s
  <2>11. ASSUME NEW r \in Servers
         PROVE  /\ Cardinality(Parked(r)) = Cardinality(Parked(r)') + IF r = s THEN 1 ELSE 0
                /\ Cardinality(Parked(r)) \in Nat /\ Cardinality(Parked(r)') \in Nat
    <3>1. CASE Home[r] = l
      <4>1. Parked(r) = Standing(w, r) /\ Parked(r)' = Standing(Tail(w), r)
        BY <2>3, <3>1 DEF Parked, Standing
      <4> HIDE DEF w
      <4>2. Cardinality(Standing(w, r)) =
              Cardinality(Standing(Tail(w), r)) + IF r = Head(w) THEN 1 ELSE 0
        BY <1>2, <1>4, StandingPopFront
      <4> QED
        BY <1>2, <2>1, <4>1, <4>2, StandingFinite
    <3>2. CASE Home[r] # l
      <4>1. Parked(r)' = Parked(r) /\ Cardinality(Parked(r)) \in Nat
        BY <2>3, <3>2, ParkedIsStanding DEF Parked
      <4> QED
        BY <2>2, <3>2, <4>1
    <3> QED
      BY <3>1, <3>2
  <2>12. SlotConservation'
    <3> SUFFICES ASSUME NEW r \in Servers
                 PROVE  requested[r] + pulls[r] + Cardinality(Parked(r)')
                          + Cardinality(Incoming(r)') + in_flight[r] = MaxConcurrency
      BY <1>1 DEF SlotConservation
    <3>1. /\ requested[r] \in Nat /\ pulls[r] \in Nat /\ in_flight[r] \in Nat
          /\ Cardinality(Incoming(r)) \in Nat
      BY IncomingFinite DEF TypeOK
    <3> QED
      BY <2>10, <2>11, <3>1 DEF SlotConservation
  <2> QED
    BY <2>4, <2>5, <2>8, <2>9, <2>10, <2>12
<1> QED
  BY <1>3, <1>4, InputCases

(* Dispatch of one task to the server that pulls *)
LEMMA DispatchOne ==
  ASSUME TypeOK, NEW q, NEW s \in Servers, NEW l, Dispatch(l, q, <<s>>, 1)
  PROVE  /\ tasks' = tasks \cup {<< <<l, q[1]>>, s>>}
         /\ local_inflight' \in [Servers -> Nat]
<1>1. {<< <<l, q[i]>>, <<s>>[i]>> : i \in 1 .. 1} = {<< <<l, q[1]>>, s>>}
  <2>1. \A i \in 1 .. 1 : i = 1
    OBVIOUS
  <2>2. 1 \in 1 .. 1 /\ <<s>>[1] = s
    OBVIOUS
  <2> QED
    BY <2>1, <2>2
<1> DEFINE n(r) == Cardinality({i \in 1 .. 1 : <<s>>[i] = r})
<1>2. \A r \in Servers : n(r) \in Nat
  <2>1. \A r \in Servers : {i \in 1 .. 1 : <<s>>[i] = r} \subseteq {1}
    OBVIOUS
  <2>2. IsFiniteSet({1})
    BY FS_Singleton
  <2> QED
    BY <2>1, <2>2, FS_Subset, FS_CardinalityType
<1>3. local_inflight' = [r \in Servers |-> local_inflight[r] + n(r)]
  BY DEF Dispatch
<1>4. tasks' = tasks \cup {<< <<l, q[1]>>, s>>}
  BY <1>1 DEF Dispatch
<1> HIDE DEF n
<1> QED
  BY <1>2, <1>3, <1>4 DEF TypeOK

(* Pull: the slot goes to waiting_servers, or to the oldest task. *)
LEMMA PullSlots ==
  ASSUME SlotsInv, NEW s \in Servers, Pull(s)
  PROVE  SlotsInv'
<1> USE DEF SlotsInv
<1> DEFINE l == Home[s]
           w == waiting_servers[l]
<1>1. /\ pulls[s] > 0 /\ pulls' = [pulls EXCEPT ![s] = @ - 1]
      /\ UNCHANGED <<next_task_id, in_flight, serving, requested, releases, finished>>
  BY DEF Pull, serverVars
<1>2. /\ l \in LBs /\ w \in Seq(Servers) /\ queue[l] \in Seq(Nat)
      /\ \A k \in LBs : next_task_id[k] \in Nat /\ Len(queue[k]) \in Nat
  BY CentralizedPullAssumption DEF TypeOK
<1>3. /\ pulls' \in [Servers -> Nat] /\ pulls'[s] = pulls[s] - 1
      /\ \A r \in Servers \ {s} : pulls'[r] = pulls[r]
  BY <1>1 DEF TypeOK
<1>4. ASSUME NEW r \in Servers
      PROVE  /\ requested[r] \in Nat /\ pulls[r] \in Nat /\ in_flight[r] \in Nat
             /\ Cardinality(Incoming(r)) \in Nat /\ Cardinality(Parked(r)) \in Nat
  BY IncomingFinite, ParkedIsStanding DEF TypeOK
<1>5. CASE /\ queue[l] = <<>>
           /\ waiting_servers' = [waiting_servers EXCEPT ![l] = Append(@, s)]
           /\ UNCHANGED <<queue, local_inflight, tasks>>
  <2>1. /\ waiting_servers' \in [LBs -> Seq(Servers)]
        /\ waiting_servers'[l] = Append(w, s)
        /\ \A k \in LBs \ {l} : waiting_servers'[k] = waiting_servers[k]
    BY <1>2, <1>5 DEF TypeOK
  <2>2. TypeOK'
    BY <1>1, <1>3, <1>5, <2>1 DEF TypeOK
  <2>3. NoTaskWaitsWithSlot'
    BY <1>5, <2>1 DEF NoTaskWaitsWithSlot
  <2>4. InOrder' /\ OnePlace' /\ Finite'
    BY <1>1, <1>5 DEF InOrder, OnePlace, Oldest, Finite
  <2>5. ParkedAtHome'
    <3>1. \A i \in DOMAIN waiting_servers'[l] : Home[waiting_servers'[l][i]] = l
      <4>1. /\ DOMAIN Append(w, s) = 1 .. Len(w) + 1 /\ DOMAIN w = 1 .. Len(w)
            /\ \A i \in DOMAIN w : Append(w, s)[i] = w[i]
            /\ Append(w, s)[Len(w) + 1] = s /\ Len(w) \in Nat
        BY <1>2, PushBack
      <4>2. \A i \in 1 .. Len(w) + 1 : i \in 1 .. Len(w) \/ i = Len(w) + 1
        BY <4>1
      <4> QED
        BY <1>2, <2>1, <4>1, <4>2 DEF ParkedAtHome
    <3>2. \A k \in LBs \ {l} : \A i \in DOMAIN waiting_servers'[k] :
            Home[waiting_servers'[k][i]] = k
      BY <2>1 DEF ParkedAtHome
    <3> QED
      BY <3>1, <3>2 DEF ParkedAtHome
  <2>6. ASSUME NEW r \in Servers
        PROVE  Cardinality(Parked(r)') = Cardinality(Parked(r)) + IF r = s THEN 1 ELSE 0
    <3>1. CASE Home[r] = l
      <4>1. Parked(r) = Standing(w, r) /\ Parked(r)' = Standing(Append(w, s), r)
        BY <2>1, <3>1 DEF Parked, Standing
      <4> HIDE DEF w
      <4> QED
        BY <1>2, <4>1, StandingPushBack
    <3>2. CASE Home[r] # l
      <4>1. Parked(r)' = Parked(r) /\ r # s
        BY <2>1, <3>2, ParkedIsStanding DEF Parked
      <4> QED
        BY <1>4, <4>1
    <3> QED
      BY <3>1, <3>2
  <2>7. SlotConservation'
    <3> SUFFICES ASSUME NEW r \in Servers
                 PROVE  requested[r] + pulls'[r] + Cardinality(Parked(r)')
                          + Cardinality(Incoming(r)) + in_flight[r] = MaxConcurrency
      BY <1>1, <1>5 DEF SlotConservation, Incoming
    <3>1. requested[r] + pulls[r] + Cardinality(Parked(r))
            + Cardinality(Incoming(r)) + in_flight[r] = MaxConcurrency
      BY DEF SlotConservation
    <3>2. pulls'[r] = pulls[r] - IF r = s THEN 1 ELSE 0
      BY <1>3, <1>4
    <3> HIDE DEF SlotsInv
    <3> QED
      BY <1>4, <2>6, <3>1, <3>2
  <2> QED
    BY <2>2, <2>3, <2>4, <2>5, <2>7
<1>6. CASE /\ queue[l] # <<>>
           /\ Dispatch(l, queue[l], <<s>>, 1)
           /\ queue' = [queue EXCEPT ![l] = Tail(@)]
           /\ UNCHANGED waiting_servers
  <2>1. /\ Tail(queue[l]) \in Seq(Nat) /\ 1 \in DOMAIN queue[l]
        /\ DOMAIN Tail(queue[l]) = 1 .. Len(queue[l]) - 1
        /\ \A i \in DOMAIN Tail(queue[l]) :
             i + 1 \in DOMAIN queue[l] /\ Tail(queue[l])[i] = queue[l][i + 1]
        /\ Len(Tail(queue[l])) = Len(queue[l]) - 1
    BY <1>2, <1>6, PopFront, HeadTailProperties
  <2>2. /\ queue' \in [LBs -> Seq(Nat)] /\ queue'[l] = Tail(queue[l])
        /\ \A k \in LBs \ {l} : queue'[k] = queue[k]
    BY <1>2, <1>6, <2>1 DEF TypeOK
  <2>3. Oldest(l) \in Nat /\ queue[l][1] = Oldest(l)
    <3>1. queue[l][1] = Oldest(l) + 1 - 1 /\ Oldest(l) \in Nat
      BY <1>2, <2>1 DEF InOrder
    <3> HIDE DEF l
    <3> QED
      BY <3>1
  <2>4. /\ tasks' = tasks \cup {<< <<l, Oldest(l)>>, s>>}
        /\ local_inflight' \in [Servers -> Nat]
    BY <1>6, <2>3, DispatchOne
  <2>5. \A k \in LBs : Oldest(k)' = IF k = l THEN Oldest(k) + 1 ELSE Oldest(k)
    <3>1. next_task_id[l] - Len(queue'[l]) = next_task_id[l] - Len(queue[l]) + 1
      <4> HIDE DEF l
      <4> QED
        BY <1>2, <2>1, <2>2
    <3> QED
      BY <1>1, <2>2, <3>1 DEF Oldest
  <2>6. TypeOK'
    <3>1. << <<l, Oldest(l)>>, s>> \in Task \X Servers
      BY <1>2, <2>3 DEF Task
    <3> QED
      BY <1>1, <1>3, <1>6, <2>2, <2>4, <3>1 DEF TypeOK
  <2>7. NoTaskWaitsWithSlot'
    BY <1>6, <2>2 DEF NoTaskWaitsWithSlot
  <2>8. InOrder'
    <3>1. \A i \in DOMAIN queue'[l] : queue'[l][i] = (Oldest(l) + 1) + i - 1
      <4>1. \A i \in DOMAIN queue'[l] : /\ i + 1 \in DOMAIN queue[l] /\ i \in Int
                                        /\ queue'[l][i] = queue[l][i + 1]
        BY <1>2, <2>1, <2>2
      <4>2. \A j \in DOMAIN queue[l] : queue[l][j] = Oldest(l) + j - 1
        BY <1>2 DEF InOrder
      <4> HIDE DEF l
      <4> QED
        BY <2>3, <4>1, <4>2
    <3>2. ASSUME NEW k \in LBs \ {l}
          PROVE  /\ Oldest(k)' \in Nat
                 /\ \A i \in DOMAIN queue'[k] : queue'[k][i] = Oldest(k)' + i - 1
      <4>1. queue'[k] = queue[k] /\ Oldest(k)' = Oldest(k)
        BY <2>2, <2>5
      <4> QED
        BY <4>1 DEF InOrder
    <3>3. Oldest(l)' = Oldest(l) + 1 /\ Oldest(l)' \in Nat
      BY <1>2, <2>3, <2>5
    <3> QED
      BY <3>1, <3>2, <3>3 DEF InOrder
  <2>9. ParkedAtHome'
    BY <1>6 DEF ParkedAtHome
  <2>10. /\ OnePlace' /\ Finite'
         /\ \A r \in Servers : Cardinality(Incoming(r)') =
              Cardinality(Incoming(r)) + IF r = s THEN 1 ELSE 0
    <3> HIDE DEF SlotsInv
    <3> QED
      BY <1>1, <1>2, <2>4, <2>5, DispatchKeeps
  <2>11. SlotConservation'
    <3> SUFFICES ASSUME NEW r \in Servers
                 PROVE  requested[r] + pulls'[r] + Cardinality(Parked(r))
                          + Cardinality(Incoming(r)') + in_flight[r] = MaxConcurrency
      BY <1>1, <1>6 DEF SlotConservation, Parked
    <3>1. requested[r] + pulls[r] + Cardinality(Parked(r))
            + Cardinality(Incoming(r)) + in_flight[r] = MaxConcurrency
      BY DEF SlotConservation
    <3>2. pulls'[r] = pulls[r] - IF r = s THEN 1 ELSE 0
      BY <1>3, <1>4
    <3> HIDE DEF SlotsInv
    <3> QED
      BY <1>4, <2>10, <3>1, <3>2
  <2> QED
    BY <2>6, <2>7, <2>8, <2>9, <2>10, <2>11
<1> QED
  BY <1>5, <1>6 DEF Pull

-----------------------------------------------------------------------------
(* The other steps: the queue and waiting_servers stay as they are. *)

LEMMA QueuesKept ==
  ASSUME SlotsInv, UNCHANGED <<next_task_id, queue, waiting_servers>>
  PROVE  /\ NoTaskWaitsWithSlot' /\ InOrder' /\ ParkedAtHome'
         /\ \A k \in LBs : Oldest(k)' = Oldest(k)
         /\ \A s \in Servers : Parked(s)' = Parked(s)
BY DEF SlotsInv, NoTaskWaitsWithSlot, InOrder, ParkedAtHome, Oldest, Parked

(* What SlotConservation says of one server, with the types of its terms. *)
LEMMA SlotsOf ==
  ASSUME SlotsInv, NEW s \in Servers
  PROVE  /\ requested[s] \in Nat /\ pulls[s] \in Nat /\ in_flight[s] \in Nat
         /\ releases[s] \in Nat
         /\ Cardinality(Parked(s)) \in Nat /\ Cardinality(Incoming(s)) \in Nat
         /\ in_flight[s] = Cardinality(serving[s])
         /\ requested[s] + pulls[s] + Cardinality(Parked(s))
              + Cardinality(Incoming(s)) + in_flight[s] = MaxConcurrency
<1> USE DEF SlotsInv
<1>1. Cardinality(Parked(s)) \in Nat /\ Cardinality(Incoming(s)) \in Nat
  BY ParkedIsStanding, IncomingFinite
<1> QED
  BY <1>1 DEF SlotConservation, TypeOK

(* RequestPull: the slot asked for was free, so a pull is always sent. *)
LEMMA RequestPullSlots ==
  ASSUME SlotsInv, NEW s \in Servers, RequestPull(s)
  PROVE  SlotsInv'
<1>1. in_flight[s] < MaxConcurrency
  BY SlotsOf DEF RequestPull
<1>2. /\ requested[s] > 0
      /\ requested' = [requested EXCEPT ![s] = @ - 1]
      /\ pulls' = [pulls EXCEPT ![s] = @ + 1]
      /\ UNCHANGED <<next_task_id, queue, waiting_servers, local_inflight, in_flight,
                     serving, tasks, releases, finished>>
  BY <1>1 DEF RequestPull, lbVars, serverVars
<1>3. TypeOK'
  BY <1>2 DEF SlotsInv, TypeOK
<1>4. OnePlace' /\ Finite'
  BY <1>2 DEF SlotsInv, OnePlace, Oldest, Finite
<1>5. SlotConservation'
  <2> SUFFICES ASSUME NEW r \in Servers
               PROVE  /\ in_flight[r] = Cardinality(serving[r])
                      /\ requested'[r] + pulls'[r] + Cardinality(Parked(r))
                           + Cardinality(Incoming(r)) + in_flight[r] = MaxConcurrency
    BY <1>2 DEF SlotConservation, Parked, Incoming
  <2>1. /\ requested'[r] = requested[r] - IF r = s THEN 1 ELSE 0
        /\ pulls'[r] = pulls[r] + IF r = s THEN 1 ELSE 0
    <3>1. /\ requested \in [Servers -> Nat] /\ pulls \in [Servers -> Nat]
          /\ requested[r] \in Nat /\ pulls[r] \in Nat
      BY DEF SlotsInv, TypeOK
    <3>2. CASE r = s
      BY <1>2, <3>1, <3>2
    <3>3. CASE r # s
      BY <1>2, <3>1, <3>3
    <3> QED
      BY <3>2, <3>3
  <2> QED
    BY <2>1, SlotsOf
<1> QED
  BY <1>2, <1>3, <1>4, <1>5, QueuesKept DEF SlotsInv

LEMMA ReleaseSlots ==
  ASSUME SlotsInv, NEW s \in Servers, Release(s)
  PROVE  SlotsInv'
<1>1. /\ releases[s] > 0
      /\ releases' = [releases EXCEPT ![s] = @ - 1]
      /\ local_inflight' = [local_inflight EXCEPT ![s] = IF @ = 0 THEN 0 ELSE @ - 1]
      /\ UNCHANGED <<next_task_id, queue, waiting_servers, in_flight, serving, requested,
                     pulls, tasks, finished>>
  BY DEF Release, serverVars
<1>2. TypeOK'
  BY <1>1 DEF SlotsInv, TypeOK
<1>3. OnePlace' /\ Finite' /\ SlotConservation'
  BY <1>1 DEF SlotsInv, OnePlace, Oldest, Finite, SlotConservation, Parked, Incoming
<1> QED
  BY <1>1, <1>2, <1>3, QueuesKept DEF SlotsInv

(* ServerInput: the slot claimed by the task becomes busy. *)
LEMMA ServerInputSlots ==
  ASSUME SlotsInv, NEW s \in Servers, NEW p \in tasks, p[2] = s, ServerInput(p[1], s)
  PROVE  SlotsInv'
<1> USE DEF SlotsInv
<1> DEFINE t == p[1]
<1>1. /\ p = <<t, s>> /\ t \in Task
      /\ tasks' = tasks \ {p}
      /\ in_flight' = [in_flight EXCEPT ![s] = @ + 1]
      /\ serving' = [serving EXCEPT ![s] = @ \cup {t}]
      /\ UNCHANGED <<next_task_id, queue, waiting_servers, local_inflight, requested,
                     pulls, releases, finished>>
  BY Members DEF ServerInput, lbVars
<1>2. \A r \in Servers : serving'[r] = IF r = s THEN serving[r] \cup {t} ELSE serving[r]
  BY <1>1 DEF TypeOK
<1>3. TypeOK'
  BY <1>1, <1>2 DEF TypeOK
<1>4. \A k \in LBs : Oldest(k)' = Oldest(k)
  BY <1>1 DEF Oldest
<1>5. Finite'
  <2>1. IsFiniteSet(tasks')
    BY <1>1, FS_RemoveElement DEF Finite
  <2>2. \A r \in Servers : IsFiniteSet(serving[r]) /\ IsFiniteSet(serving[r] \cup {t})
    BY FS_AddElement DEF Finite
  <2>3. \A r \in Servers : IsFiniteSet(serving'[r])
    BY <1>2, <2>2
  <2> QED
    BY <2>1, <2>3 DEF Finite
<1>6. OnePlace'
  <2>1. t[1] \in LBs /\ t[2] < Oldest(t[1])
    BY <1>1, Members DEF OnePlace
  <2>2. \A u \in Task : Oldest(u[1])' = Oldest(u[1])
    BY <1>4, Members
  <2>3. /\ \A o \in tasks' : o[1][2] < Oldest(o[1][1])' /\ Home[o[2]] = o[1][1]
        /\ \A u \in finished' : u[2] < Oldest(u[1])'
    BY <1>1, <2>2, Members DEF OnePlace
  <2>4. \A r \in Servers : \A u \in serving'[r] : u[2] < Oldest(u[1])'
    BY <1>1, <1>2, <2>1, <2>2, Members DEF OnePlace
  <2>5. \A o \in tasks' : o[1] # t /\ o \in tasks
    BY <1>1 DEF OnePlace
  <2>6. t \notin finished /\ \A r \in Servers : t \notin serving[r]
    BY <1>1 DEF OnePlace
  <2> HIDE DEF t
  <2>7. /\ \A o, u \in tasks' : o[1] = u[1] => o = u
        /\ \A o \in tasks' : o[1] \notin finished'
        /\ \A o \in tasks', r \in Servers : o[1] \notin serving'[r]
    BY <1>1, <1>2, <2>5 DEF OnePlace
  <2>8. /\ \A r \in Servers : serving'[r] \cap finished' = {}
        /\ \A r1, r2 \in Servers : r1 # r2 => serving'[r1] \cap serving'[r2] = {}
    BY <1>1, <1>2, <2>6 DEF OnePlace
  <2> QED
    BY <2>3, <2>4, <2>7, <2>8 DEF OnePlace
<1>7. SlotConservation'
  <2> SUFFICES ASSUME NEW r \in Servers
               PROVE  /\ in_flight'[r] = Cardinality(serving'[r])
                      /\ requested[r] + pulls[r] + Cardinality(Parked(r))
                           + Cardinality(Incoming(r)') + in_flight'[r] = MaxConcurrency
    BY <1>1 DEF SlotConservation, Parked
  <2>1. in_flight'[r] = in_flight[r] + IF r = s THEN 1 ELSE 0
    BY <1>1 DEF TypeOK
  <2>2. Incoming(r)' = IF r = s THEN Incoming(r) \ {p} ELSE Incoming(r)
    BY <1>1 DEF Incoming
  <2>3. p \in Incoming(s) /\ IsFiniteSet(Incoming(r))
    BY IncomingFinite DEF Incoming
  <2>4. Cardinality(Incoming(r)') = Cardinality(Incoming(r)) - IF r = s THEN 1 ELSE 0
    <3>1. Cardinality(Incoming(r)) \in Nat
      BY IncomingFinite
    <3>2. CASE r = s
      <4>1. Cardinality(Incoming(r) \ {p}) = Cardinality(Incoming(r)) - 1
        BY <2>3, <3>2, FS_RemoveElement
      <4> QED
        BY <2>2, <3>2, <4>1
    <3>3. CASE r # s
      BY <2>2, <3>1, <3>3
    <3> QED
      BY <3>2, <3>3
  <2>5. IsFiniteSet(serving[r]) /\ t \notin serving[r]
    BY <1>1 DEF Finite, OnePlace
  <2>6. Cardinality(serving'[r]) = Cardinality(serving[r]) + IF r = s THEN 1 ELSE 0
    <3>1. Cardinality(serving[r]) \in Nat
      BY <2>5, FS_CardinalityType
    <3>2. Cardinality(serving[r] \cup {t}) = Cardinality(serving[r]) + 1
      BY <2>5, FS_AddElement
    <3>3. CASE r = s
      <4>1. serving'[r] = serving[r] \cup {t}
        BY <1>2, <3>3
      <4> QED
        BY <3>2, <3>3, <4>1
    <3>4. CASE r # s
      <4>1. serving'[r] = serving[r]
        BY <1>2, <3>4
      <4> QED
        BY <3>1, <3>4, <4>1
    <3> QED
      BY <3>3, <3>4
  <2> HIDE DEF SlotsInv
  <2> QED
    BY <2>1, <2>4, <2>6, SlotsOf
<1> QED
  BY <1>1, <1>3, <1>5, <1>6, <1>7, QueuesKept

(* Complete: the busy slot is announced again. *)
LEMMA CompleteSlots ==
  ASSUME SlotsInv, NEW s \in Servers, NEW t \in serving[s], Complete(s, t)
  PROVE  SlotsInv'
<1> USE DEF SlotsInv
<1>1. /\ serving' = [serving EXCEPT ![s] = @ \ {t}]
      /\ finished' = finished \cup {t}
      /\ releases' = [releases EXCEPT ![s] = @ + 1]
      /\ in_flight' = [in_flight EXCEPT ![s] = @ - 1]
      /\ pulls' = [pulls EXCEPT ![s] = @ + 1]
      /\ UNCHANGED <<next_task_id, queue, waiting_servers, local_inflight, requested, tasks>>
  BY DEF Complete, lbVars
<1>2. \A r \in Servers : serving'[r] = IF r = s THEN serving[r] \ {t} ELSE serving[r]
  BY <1>1 DEF TypeOK
<1>3. t \in Task /\ t[2] < Oldest(t[1])
  BY Members DEF OnePlace
<1>4. in_flight[s] >= 1
  <2>1. IsFiniteSet(serving[s]) /\ in_flight[s] = Cardinality(serving[s]) /\ in_flight[s] \in Nat
    BY DEF Finite, SlotConservation, TypeOK
  <2> QED
    BY <2>1, FS_EmptySet
<1>5. TypeOK'
  BY <1>1, <1>2, <1>3, <1>4 DEF TypeOK
<1>6. Finite'
  BY <1>1, <1>2, FS_RemoveElement DEF Finite
<1>7. OnePlace'
  <2>1. \A k \in LBs : Oldest(k)' = Oldest(k)
    BY <1>1 DEF Oldest
  <2>2. \A u \in Task : Oldest(u[1])' = Oldest(u[1])
    BY <2>1, Members
  <2>3. /\ \A o \in tasks' : o[1][2] < Oldest(o[1][1])' /\ Home[o[2]] = o[1][1]
        /\ \A u \in finished' : u[2] < Oldest(u[1])'
    BY <1>1, <1>3, <2>2, Members DEF OnePlace
  <2>4. \A r \in Servers : \A u \in serving'[r] : u[2] < Oldest(u[1])'
    <3>1. \A r \in Servers : serving'[r] \subseteq serving[r]
      BY <1>2
    <3> QED
      BY <2>2, <3>1, Members DEF OnePlace
  <2>5. /\ \A o \in tasks : o[1] # t
        /\ \A r \in Servers : r # s => t \notin serving[r]
    BY DEF OnePlace
  <2>6. /\ \A o, u \in tasks' : o[1] = u[1] => o = u
        /\ \A o \in tasks' : o[1] \notin finished'
        /\ \A o \in tasks', r \in Servers : o[1] \notin serving'[r]
    BY <1>1, <1>2, <2>5 DEF OnePlace
  <2>7. /\ \A r \in Servers : serving'[r] \cap finished' = {}
        /\ \A r1, r2 \in Servers : r1 # r2 => serving'[r1] \cap serving'[r2] = {}
    BY <1>1, <1>2, <2>5 DEF OnePlace
  <2> QED
    BY <2>3, <2>4, <2>6, <2>7 DEF OnePlace
<1>8. SlotConservation'
  <2> SUFFICES ASSUME NEW r \in Servers
               PROVE  /\ in_flight'[r] = Cardinality(serving'[r])
                      /\ requested[r] + pulls'[r] + Cardinality(Parked(r))
                           + Cardinality(Incoming(r)) + in_flight'[r] = MaxConcurrency
    BY <1>1 DEF SlotConservation, Parked, Incoming
  <2>1. /\ in_flight'[r] = in_flight[r] - IF r = s THEN 1 ELSE 0
        /\ pulls'[r] = pulls[r] + IF r = s THEN 1 ELSE 0
    <3>1. /\ in_flight \in [Servers -> Nat] /\ pulls \in [Servers -> Nat]
          /\ in_flight[r] \in Nat /\ pulls[r] \in Nat
      BY DEF TypeOK
    <3> HIDE DEF SlotsInv
    <3>2. CASE r = s
      BY <1>1, <3>1, <3>2
    <3>3. CASE r # s
      BY <1>1, <3>1, <3>3
    <3> QED
      BY <3>2, <3>3
  <2>2. IsFiniteSet(serving[r])
    BY DEF Finite
  <2>3. Cardinality(serving'[r]) = Cardinality(serving[r]) - IF r = s THEN 1 ELSE 0
    <3>1. Cardinality(serving[r]) \in Nat
      BY <2>2, FS_CardinalityType
    <3>2. CASE r = s
      <4>1. Cardinality(serving[r] \ {t}) = Cardinality(serving[r]) - 1
        BY <2>2, <3>2, FS_RemoveElement
      <4> QED
        BY <1>2, <3>2, <4>1
    <3>3. CASE r # s
      <4>1. serving'[r] = serving[r]
        BY <1>2, <3>3
      <4> QED
        BY <3>1, <3>3, <4>1
    <3> QED
      BY <3>2, <3>3
  <2> HIDE DEF SlotsInv
  <2> QED
    BY <2>1, <2>3, SlotsOf
<1> QED
  BY <1>1, <1>5, <1>6, <1>7, <1>8, QueuesKept

-----------------------------------------------------------------------------
(* The theorems *)

LEMMA StutterSlots ==
  ASSUME SlotsInv, UNCHANGED vars
  PROVE  SlotsInv'
<1>1. UNCHANGED <<next_task_id, queue, waiting_servers, local_inflight, in_flight, serving,
                  requested, pulls, tasks, releases, finished>>
  BY DEF vars, lbVars, serverVars
<1>2. TypeOK' /\ OnePlace' /\ Finite' /\ SlotConservation'
  BY <1>1 DEF SlotsInv, TypeOK, OnePlace, Oldest, Finite, SlotConservation, Parked, Incoming
<1> QED
  BY <1>1, <1>2, QueuesKept DEF SlotsInv

LEMMA NextSlots ==
  ASSUME SlotsInv, [Next]_vars
  PROVE  SlotsInv'
<1>1. ASSUME NEW l \in LBs, Input(l) PROVE SlotsInv'
  BY <1>1, InputSlots
<1>2. ASSUME NEW s \in Servers, RequestPull(s) PROVE SlotsInv'
  BY <1>2, RequestPullSlots
<1>3. ASSUME NEW s \in Servers, Pull(s) PROVE SlotsInv'
  BY <1>3, PullSlots
<1>4. ASSUME NEW s \in Servers, Release(s) PROVE SlotsInv'
  BY <1>4, ReleaseSlots
<1>5. ASSUME NEW s \in Servers, NEW p \in tasks, p[2] = s, ServerInput(p[1], s)
      PROVE  SlotsInv'
  BY <1>5, ServerInputSlots
<1>6. ASSUME NEW s \in Servers, NEW t \in serving[s], Complete(s, t) PROVE SlotsInv'
  BY <1>6, CompleteSlots
<1>7. CASE Finished
  BY <1>7, StutterSlots DEF Finished
<1>8. CASE UNCHANGED vars
  BY <1>8, StutterSlots
<1> QED
  BY <1>1, <1>2, <1>3, <1>4, <1>5, <1>6, <1>7, <1>8 DEF Next

(***************************************************************************)
(* The inductive invariant: slots, queue order and the place of every      *)
(* dispatched task hold together; none of them is inductive alone.         *)
(***************************************************************************)
THEOREM SlotsInvariant == Safety => []SlotsInv
<1>1. Init => SlotsInv
  BY InitSlots
<1>2. SlotsInv /\ [Next]_vars => SlotsInv'
  BY NextSlots
<1> QED
  BY <1>1, <1>2, PTL DEF Safety

(* Every variable of CentralizedPull keeps its type. *)
THEOREM CentralTypeCorrect == Spec => []TypeOK
<1>1. SlotsInv => TypeOK
  BY DEF SlotsInv
<1> QED
  BY <1>1, SlotsInvariant, PTL DEF Spec

(***************************************************************************)
(* Every slot is not announced yet, announced, parked, claimed or busy: no *)
(* server is ever oversubscribed and no slot is lost, although             *)
(* Server::input starts whatever it is sent.                               *)
(***************************************************************************)
THEOREM SlotsConserved == Spec => []SlotConservation
<1>1. SlotsInv => SlotConservation
  BY DEF SlotsInv
<1> QED
  BY <1>1, SlotsInvariant, PTL DEF Spec

(* dispatch_waiting and pull leave no task beside a parked slot. *)
THEOREM NoIdleSlotBesideTask == Spec => []NoTaskWaitsWithSlot
<1>1. SlotsInv => NoTaskWaitsWithSlot
  BY DEF SlotsInv
<1> QED
  BY <1>1, SlotsInvariant, PTL DEF Spec

(* Whichever server asks first, tasks leave a balancer in arrival order. *)
THEOREM ArrivalOrder == Spec => []DispatchInArrivalOrder
<1>1. ASSUME SlotsInv, NEW l \in LBs
      PROVE  queue[l] = [i \in 1 .. Len(queue[l]) |->
                           next_task_id[l] - Len(queue[l]) + i - 1]
  <2>1. queue[l] \in Seq(Nat)
    BY <1>1 DEF SlotsInv, TypeOK
  <2>2. queue[l] = [i \in 1 .. Len(queue[l]) |-> queue[l][i]] /\ DOMAIN queue[l] = 1 .. Len(queue[l])
    BY <2>1
  <2>3. \A i \in 1 .. Len(queue[l]) :
          queue[l][i] = next_task_id[l] - Len(queue[l]) + i - 1
    BY <1>1, <2>2 DEF SlotsInv, InOrder, Oldest
  <2> QED
    BY <2>2, <2>3
<1>2. SlotsInv => DispatchInArrivalOrder
  BY <1>1 DEF DispatchInArrivalOrder
<1> QED
  BY <1>2, SlotsInvariant, PTL DEF Spec

-----------------------------------------------------------------------------
(* The steps of the dispatcher are steps of TaskService. *)

Submitted == UNION {{l} \X (0 .. next_task_id[l] - 1) : l \in LBs}

(* The instance of TaskService has a Cardinality of its own. *)
LEMMA SameCardinality ==
  ASSUME NEW S
  PROVE  Service!Cardinality(S) = Cardinality(S)
BY DEF Cardinality, Service!Cardinality, IsFiniteSet, Service!IsFiniteSet

LEMMA SubmittedMeans ==
  ASSUME TypeOK, NEW t
  PROVE  t \in Submitted <=> t \in Task /\ t[2] < next_task_id[t[1]]
<1>1. \A l \in LBs : next_task_id[l] \in Nat
  BY DEF TypeOK
<1>2. ASSUME t \in Submitted PROVE t \in Task /\ t[2] < next_task_id[t[1]]
  <2>1. PICK l \in LBs : t \in {l} \X (0 .. next_task_id[l] - 1)
    BY <1>2 DEF Submitted
  <2>2. t[1] = l /\ t[2] \in 0 .. next_task_id[l] - 1 /\ t = <<t[1], t[2]>>
    BY <2>1
  <2> QED
    BY <1>1, <2>2 DEF Task
<1>3. ASSUME t \in Task, t[2] < next_task_id[t[1]] PROVE t \in Submitted
  <2>1. t[1] \in LBs /\ t[2] \in Nat /\ t = <<t[1], t[2]>>
    BY <1>3 DEF Task
  <2>2. t \in {t[1]} \X (0 .. next_task_id[t[1]] - 1)
    BY <1>1, <1>3, <2>1
  <2> QED
    BY <2>1, <2>2 DEF Submitted
<1> QED
  BY <1>2, <1>3

LEMMA AllTasksMeans ==
  ASSUME NEW t \in Task, t[2] < TaskCount[t[1]]
  PROVE  t \in AllTasks
<1>1. t[1] \in LBs /\ t[2] \in Nat /\ t = <<t[1], t[2]>> /\ TaskCount[t[1]] \in Nat
  BY CentralizedPullAssumption DEF Task
<1>2. t \in {t[1]} \X (0 .. TaskCount[t[1]] - 1)
  BY <1>1
<1> QED
  BY <1>1, <1>2 DEF AllTasks

(* A step of one task is a step of the service. *)
LEMMA ServiceSteps ==
  ASSUME NEW t \in AllTasks
  PROVE  /\ Service!Submit(t) => Service!Next
         /\ Service!Starts(t) => Service!Next
         /\ Service!Finishes(t) => Service!Next
BY DEF Service!Next

(* No more tasks come than the run has. *)
ServiceInv ==
  /\ SlotsInv
  /\ \A l \in LBs : next_task_id[l] <= TaskCount[l]

LEMMA NextService ==
  ASSUME ServiceInv, [Next]_vars
  PROVE  ServiceInv'
<1>1. SlotsInv'
  BY NextSlots DEF ServiceInv
<1>2. CASE \E l \in LBs : Input(l)
  <2>1. PICK l \in LBs : Input(l)
    BY <1>2
  <2>2. next_task_id[l] < TaskCount[l] /\ next_task_id' = [next_task_id EXCEPT ![l] = @ + 1]
    BY <2>1 DEF Input
  <2>3. \A k \in LBs : next_task_id[k] \in Nat /\ TaskCount[k] \in Nat
    BY CentralizedPullAssumption DEF ServiceInv, SlotsInv, TypeOK
  <2>4. \A k \in LBs : next_task_id'[k] = IF k = l THEN next_task_id[k] + 1 ELSE next_task_id[k]
    BY <2>2 DEF ServiceInv, SlotsInv, TypeOK
  <2> QED
    BY <1>1, <2>2, <2>3, <2>4 DEF ServiceInv
<1>3. CASE ~ \E l \in LBs : Input(l)
  <2>1. next_task_id' = next_task_id
    BY <1>3 DEF Next, RequestPull, Pull, Release, ServerInput, Complete, Finished, vars, lbVars
  <2> QED
    BY <1>1, <2>1 DEF ServiceInv
<1> QED
  BY <1>2, <1>3

LEMMA InputSubmits ==
  ASSUME ServiceInv, NEW l \in LBs, Input(l)
  PROVE  Service!Next
<1> USE DEF ServiceInv, SlotsInv
<1>0. PICK id \in Nat : id = next_task_id[l]
  BY DEF TypeOK
<1> DEFINE t == <<l, id>>
<1>1. /\ id < TaskCount[l] /\ id \in Nat
      /\ next_task_id' = [next_task_id EXCEPT ![l] = id + 1]
      /\ UNCHANGED <<serving, finished>>
  BY <1>0 DEF Input, serverVars
<1>2. t \in Task /\ t \in AllTasks
  BY <1>1, AllTasksMeans DEF Task
<1>3. \A k \in LBs : /\ next_task_id[k] \in Nat
                     /\ next_task_id'[k] = IF k = l THEN id + 1 ELSE next_task_id[k]
  BY <1>1 DEF TypeOK
<1>4. t \notin Submitted
  BY <1>0, <1>1, SubmittedMeans
<1>5. Submitted' = Submitted \cup {t}
  <2>1. \A k \in LBs : {k} \X (0 .. next_task_id'[k] - 1) =
                         IF k = l THEN ({k} \X (0 .. next_task_id[k] - 1)) \cup {t}
                         ELSE {k} \X (0 .. next_task_id[k] - 1)
    <3>1. ASSUME NEW k \in LBs, k = l
          PROVE  {k} \X (0 .. next_task_id'[k] - 1) =
                   ({k} \X (0 .. next_task_id[k] - 1)) \cup {t}
      <4>1. 0 .. next_task_id'[k] - 1 = (0 .. next_task_id[k] - 1) \cup {id}
        BY <1>0, <1>1, <1>3, <3>1
      <4> QED
        BY <3>1, <4>1
    <3>2. ASSUME NEW k \in LBs, k # l
          PROVE  {k} \X (0 .. next_task_id'[k] - 1) = {k} \X (0 .. next_task_id[k] - 1)
      BY <1>3, <3>2
    <3> QED
      BY <3>1, <3>2
  <2> HIDE DEF t
  <2> QED
    BY <2>1 DEF Submitted
<1>6. Service!Submit(t)
  BY <1>1, <1>2, <1>4, <1>5 DEF Service!Submit, Submitted
<1> QED
  BY <1>2, <1>6, ServiceSteps

LEMMA ServerInputStarts ==
  ASSUME ServiceInv, NEW s \in Servers, NEW p \in tasks, p[2] = s, ServerInput(p[1], s)
  PROVE  Service!Next
<1> USE DEF ServiceInv, SlotsInv
<1> DEFINE t == p[1]
<1>1. /\ t \in Task /\ t[1] \in LBs /\ t[2] \in Nat /\ t[2] < Oldest(t[1]) /\ Home[s] = t[1]
      /\ t \notin finished /\ \A r \in Servers : t \notin serving[r]
  BY Members DEF OnePlace
<1>2. t[2] < next_task_id[t[1]] /\ t[2] < TaskCount[t[1]]
  <2>1. /\ next_task_id[t[1]] \in Nat /\ Len(queue[t[1]]) \in Nat
        /\ TaskCount[t[1]] \in Nat /\ next_task_id[t[1]] <= TaskCount[t[1]]
    <3>1. \A k \in LBs : /\ next_task_id[k] \in Nat /\ Len(queue[k]) \in Nat
                         /\ TaskCount[k] \in Nat /\ next_task_id[k] <= TaskCount[k]
      BY CentralizedPullAssumption DEF TypeOK
    <3> QED
      BY <1>1, <3>1
  <2> HIDE DEF t
  <2> QED
    BY <1>1, <2>1 DEF Oldest
<1>3. t \in AllTasks /\ t \in Submitted
  BY <1>1, <1>2, AllTasksMeans, SubmittedMeans
<1>4. /\ serving' = [serving EXCEPT ![s] = @ \cup {t}]
      /\ UNCHANGED <<next_task_id, finished>>
  BY DEF ServerInput, lbVars
<1>5. Cardinality(serving[s]) < MaxConcurrency
  <2>1. p \in Incoming(s) /\ IsFiniteSet(Incoming(s))
    BY IncomingFinite DEF Incoming
  <2>2. Cardinality(Incoming(s)) # 0
    BY <2>1, FS_EmptySet
  <2>3. SlotsInv /\ MaxConcurrency \in Nat
    BY CentralizedPullAssumption DEF ServiceInv
  <2> HIDE DEF SlotsInv, ServiceInv
  <2>4. /\ requested[s] \in Nat /\ pulls[s] \in Nat /\ in_flight[s] \in Nat
        /\ Cardinality(Parked(s)) \in Nat /\ Cardinality(Incoming(s)) \in Nat
        /\ in_flight[s] = Cardinality(serving[s])
        /\ requested[s] + pulls[s] + Cardinality(Parked(s))
             + Cardinality(Incoming(s)) + in_flight[s] = MaxConcurrency
    BY <2>3, SlotsOf
  <2>5. PICK a \in Nat, b \in Nat, c \in Nat, d \in Nat, e \in Nat :
          /\ a = requested[s] /\ b = pulls[s] /\ c = Cardinality(Parked(s))
          /\ d = Cardinality(Incoming(s)) /\ e = in_flight[s]
    BY <2>4, Zenon
  <2>6. a + b + c + d + e = MaxConcurrency /\ e = Cardinality(serving[s]) /\ d # 0
    BY <2>2, <2>4, <2>5
  <2> QED
    BY <2>3, <2>6
<1>6. Submitted' = Submitted
  BY <1>4 DEF Submitted
<1>7. <<t, s>> \in {e \in AllTasks \X Servers : Home[e[2]] = e[1][1]}
  BY <1>1, <1>3
<1> HIDE DEF t
<1>8. Service!Waiting(t)
  BY <1>1, <1>3 DEF Service!Waiting, Submitted
<1>9. Service!Start(t, s)
  BY <1>4, <1>5, <1>6, <1>7, <1>8, SameCardinality DEF Service!Start, Submitted
<1> QED
  BY <1>3, <1>9 DEF Service!Next, Service!Starts

LEMMA CompleteFinishes ==
  ASSUME ServiceInv, NEW s \in Servers, NEW t \in serving[s], Complete(s, t)
  PROVE  Service!Next
<1> USE DEF ServiceInv, SlotsInv
<1>1. t \in Task /\ t[1] \in LBs /\ t[2] \in Nat /\ t[2] < Oldest(t[1])
  BY Members DEF OnePlace
<1>2. t[2] < TaskCount[t[1]]
  <2>1. /\ next_task_id[t[1]] \in Nat /\ Len(queue[t[1]]) \in Nat
        /\ TaskCount[t[1]] \in Nat /\ next_task_id[t[1]] <= TaskCount[t[1]]
    BY <1>1, CentralizedPullAssumption DEF TypeOK
  <2> QED
    BY <1>1, <2>1 DEF Oldest
<1>3. t \in AllTasks
  BY <1>1, <1>2, AllTasksMeans
<1>4. /\ serving' = [serving EXCEPT ![s] = @ \ {t}]
      /\ finished' = finished \cup {t}
      /\ next_task_id' = next_task_id
  BY DEF Complete, lbVars
<1>5. Service!Finish(t, s)
  BY <1>4 DEF Service!Finish
<1> QED
  BY <1>3, <1>5 DEF Service!Next, Service!Finishes

(***************************************************************************)
(* Centralized dispatch implements the safety part of TaskService: every   *)
(* arrival is a submission, every begin_service starts a waiting task on a *)
(* server of its subset with a free slot, every completion finishes one,   *)
(* and nothing else is visible.                                            *)
(***************************************************************************)
THEOREM CentralImplementsService == Safety => Service!Safety
<1>1. Init => ServiceInv
  BY InitSlots, CentralizedPullAssumption DEF ServiceInv, Init
<1>2. Init => Service!Init
  <2> SUFFICES ASSUME Init PROVE Service!Init
    OBVIOUS
  <2>1. \A l \in LBs : 0 .. next_task_id[l] - 1 = {}
    BY DEF Init
  <2>2. UNION {{l} \X (0 .. next_task_id[l] - 1) : l \in LBs} = {}
    BY <2>1
  <2> QED
    BY <2>2 DEF Init, Service!Init
<1>3. ASSUME ServiceInv, [Next]_vars PROVE [Service!Next]_(Service!vars)
  <2>1. ASSUME NEW l \in LBs, Input(l) PROVE Service!Next
    BY <1>3, <2>1, InputSubmits
  <2>2. ASSUME NEW s \in Servers, NEW p \in tasks, p[2] = s, ServerInput(p[1], s)
        PROVE  Service!Next
    BY <1>3, <2>2, ServerInputStarts
  <2>3. ASSUME NEW s \in Servers, NEW t \in serving[s], Complete(s, t) PROVE Service!Next
    BY <1>3, <2>3, CompleteFinishes
  <2>4. ASSUME UNCHANGED <<next_task_id, serving, finished>> PROVE UNCHANGED Service!vars
    BY <2>4 DEF Service!vars
  <2>5. ASSUME NEW s \in Servers, RequestPull(s) \/ Pull(s) \/ Release(s)
        PROVE  UNCHANGED Service!vars
    BY <2>4, <2>5 DEF RequestPull, Pull, Release, lbVars, serverVars
  <2>6. ASSUME Finished \/ UNCHANGED vars PROVE UNCHANGED Service!vars
    BY <2>4, <2>6 DEF Finished, vars, lbVars, serverVars
  <2> QED
    BY <1>3, <2>1, <2>2, <2>3, <2>5, <2>6 DEF Next
<1>4. ServiceInv /\ [Next]_vars => ServiceInv'
  BY NextService
<1> QED
  BY <1>1, <1>2, <1>3, <1>4, PTL DEF Safety, Service!Safety
=============================================================================
