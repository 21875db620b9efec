------------------------- MODULE PushDispatchProofs -------------------------
(***************************************************************************)
(* Proofs about push dispatch with work shedding or eviction, for every    *)
(* number of clients, servers, slots and tasks and every threshold: every  *)
(* task is in one place, no slot is idle beside a queue, local_inflight is *)
(* exact, timers match the queue, and the steps are those of TaskService.  *)
(*                                                                         *)
(* The last part is about the express lane, the composition of push        *)
(* dispatch and the centralized pull protocol: what the inductive          *)
(* invariants of the two sides give when tasks pass from one to the other. *)
(* Only that part uses what ExpressLane adds to PushDispatch.              *)
(***************************************************************************)
EXTENDS ExpressLane, QueueLemmas

-----------------------------------------------------------------------------
(* The operators of the model *)

(* No two timers carry the same start. *)
DistinctStarts(q) == \A i, j \in DOMAIN q : q[i].start = q[j].start => i = j

(* f is the function Retain defines, up to n. *)
KeptBy(f, q, start, n) ==
  f = [i \in 0 .. n |->
         IF i = 0 THEN <<>>
         ELSE IF q[i].start = start THEN f[i - 1]
         ELSE Append(f[i - 1], q[i])]

LEMMA KeptExists ==
  ASSUME NEW q \in Seq(Timer), NEW start
  PROVE  \E f : KeptBy(f, q, start, Len(q))
<1> DEFINE P == {n \in Nat : \E f : KeptBy(f, q, start, n)}
<1>1. 0 \in P
  <2> DEFINE f == [i \in 0 .. 0 |-> <<>>]
  <2>1. KeptBy(f, q, start, 0)
    BY DEF KeptBy
  <2> QED
    BY <2>1
<1>2. ASSUME NEW n \in 1 .. Len(q), n - 1 \in P
      PROVE  n \in P
  <2>1. PICK f : KeptBy(f, q, start, n - 1)
    BY <1>2
  <2>2. /\ n \in Nat /\ n # 0 /\ n - 1 \in 0 .. n - 1
        /\ \A i \in 0 .. n : i = n \/ i \in 0 .. n - 1
        /\ \A i \in 1 .. n : i - 1 \in 0 .. n - 1 /\ i \in 0 .. n /\ i - 1 # n
        /\ n \notin 0 .. n - 1
    OBVIOUS
  <2> DEFINE last == IF q[n].start = start THEN f[n - 1] ELSE Append(f[n - 1], q[n])
             g == [i \in 0 .. n |-> IF i = n THEN last ELSE f[i]]
  <2>3. \A i \in 0 .. n - 1 : g[i] = f[i]
    BY <2>2
  <2>4. ASSUME NEW i \in 0 .. n
        PROVE  g[i] = IF i = 0 THEN <<>>
                      ELSE IF q[i].start = start THEN g[i - 1]
                      ELSE Append(g[i - 1], q[i])
    <3>1. CASE i = n
      <4>1. g[i] = last /\ g[i - 1] = f[n - 1] /\ i # 0
        BY <2>2, <2>3, <3>1
      <4> HIDE DEF g
      <4> QED
        BY <3>1, <4>1
    <3>2. CASE i # n
      <4>1. i \in 0 .. n - 1 /\ (i = 0 \/ i - 1 \in 0 .. n - 1)
        BY <2>2, <3>2
      <4>2. f[i] = IF i = 0 THEN <<>>
                   ELSE IF q[i].start = start THEN f[i - 1]
                   ELSE Append(f[i - 1], q[i])
        BY <2>1, <4>1 DEF KeptBy
      <4> HIDE DEF g
      <4> QED
        BY <2>3, <4>1, <4>2
    <3> QED
      BY <3>1, <3>2
  <2>5. KeptBy(g, q, start, n)
    <3>1. g = [i \in 0 .. n |-> g[i]]
      OBVIOUS
    <3> HIDE DEF g
    <3> QED
      BY <2>4, <3>1, Zenon DEF KeptBy
  <2> QED
    BY <2>2, <2>5
<1> HIDE DEF P
<1>3. Len(q) \in 0 .. Len(q) /\ Len(q) \in Nat
  OBVIOUS
<1>4. Len(q) \in P
  BY <1>1, <1>2, <1>3, UpTo
<1> QED
  BY <1>4 DEF P

(* What Retain keeps: every timer but those with the given start. *)
LEMMA RetainProperties ==
  ASSUME NEW q \in Seq(Timer), NEW start
  PROVE  /\ Retain(q, start) \in Seq(Timer)
         /\ Elements(Retain(q, start)) = {e \in Elements(q) : e.start # start}
         /\ DistinctStarts(q) => DistinctStarts(Retain(q, start))
<1>1. PICK f : KeptBy(f, q, start, Len(q)) /\ Retain(q, start) = f[Len(q)]
  <2> DEFINE c == CHOOSE h : KeptBy(h, q, start, Len(q))
  <2>1. KeptBy(c, q, start, Len(q))
    BY KeptExists, Zenon
  <2>2. Retain(q, start) = c[Len(q)]
    BY DEF Retain, KeptBy
  <2> QED
    BY <2>1, <2>2
<1> DEFINE Kept(n) == {q[i] : i \in {j \in 1 .. n : q[j].start # start}}
           P == {n \in 0 .. Len(q) :
                   /\ f[n] \in Seq(Timer)
                   /\ Elements(f[n]) = Kept(n)
                   /\ DistinctStarts(q) => DistinctStarts(f[n])}
<1>2. 0 \in P
  <2>1. f[0] = <<>>
    BY <1>1 DEF KeptBy
  <2>2. Elements(<<>>) = {} /\ Kept(0) = {} /\ DistinctStarts(<<>>) /\ <<>> \in Seq(Timer)
    BY DEF Elements, DistinctStarts
  <2>3. 0 \in 0 .. Len(q)
    OBVIOUS
  <2> HIDE DEF Kept
  <2> QED
    BY <2>1, <2>2, <2>3
<1>3. ASSUME NEW n \in 1 .. Len(q), n - 1 \in P
      PROVE  n \in P
  <2>1. /\ n \in 0 .. Len(q) /\ n # 0 /\ n - 1 \in 0 .. Len(q)
        /\ q[n] \in Timer
        /\ \A i \in 1 .. n : i = n \/ i \in 1 .. n - 1
        /\ \A i \in 1 .. n - 1 : i \in 1 .. n /\ i # n
        /\ n \in 1 .. n
    OBVIOUS
  <2>2. f[n] = IF q[n].start = start THEN f[n - 1] ELSE Append(f[n - 1], q[n])
    BY <1>1, <2>1 DEF KeptBy
  <2> DEFINE r == f[n - 1]
  <2>3. r \in Seq(Timer) /\ Elements(r) = Kept(n - 1) /\ (DistinctStarts(q) => DistinctStarts(r))
    BY <1>3
  <2>4. Kept(n) = IF q[n].start = start THEN Kept(n - 1) ELSE Kept(n - 1) \cup {q[n]}
    BY <2>1
  <2>5. CASE q[n].start = start
    BY <2>1, <2>2, <2>3, <2>4, <2>5
  <2>6. CASE q[n].start # start
    <3> HIDE DEF r
    <3>1. /\ Append(r, q[n]) \in Seq(Timer)
          /\ Elements(Append(r, q[n])) = Elements(r) \cup {q[n]}
          /\ DOMAIN Append(r, q[n]) = 1 .. Len(r) + 1
          /\ \A i \in DOMAIN r : Append(r, q[n])[i] = r[i]
          /\ Append(r, q[n])[Len(r) + 1] = q[n]
      BY <2>1, <2>3, PushBack
    <3>2. ASSUME DistinctStarts(q) PROVE DistinctStarts(Append(r, q[n]))
      <4>1. \A i \in DOMAIN r : \E j \in 1 .. n - 1 : r[i] = q[j]
        BY <2>3 DEF Elements
      <4>2. \A i \in DOMAIN r : r[i].start # q[n].start
        BY <2>1, <3>2, <4>1 DEF DistinctStarts
      <4>3. \A i \in DOMAIN Append(r, q[n]) : i \in DOMAIN r \/ i = Len(r) + 1
        BY <2>3, <3>1
      <4>4. DistinctStarts(r)
        BY <2>3, <3>2
      <4> QED
        BY <3>1, <4>2, <4>3, <4>4 DEF DistinctStarts
    <3>3. f[n] = Append(r, q[n])
      BY <2>2, <2>6 DEF r
    <3> HIDE DEF Kept
    <3> QED
      BY <2>1, <2>3, <2>4, <2>6, <3>1, <3>2, <3>3
  <2> QED
    BY <2>5, <2>6
<1>4. Len(q) \in 0 .. Len(q) /\ Len(q) \in Nat
  OBVIOUS
<1>5. Len(q) \in P
  <2> HIDE DEF P
  <2> QED
    BY <1>2, <1>3, <1>4, UpTo
<1>6. Kept(Len(q)) = {e \in Elements(q) : e.start # start}
  BY DEF Elements
<1> QED
  BY <1>1, <1>5, <1>6

(* A server's fields as PushTypes and Orderly need them. *)
ServerState ==
  [queue : Seq(Task), in_flight : Nat, in_flight_services : Seq(InFlightService),
   pending : Seq(Timer), timers : SUBSET Timer, completions : SUBSET Completion,
   scheduled : Nat]

(* What remove_in_flight changes. *)
LEMMA RemoveInFlightProperties ==
  ASSUME NEW v \in ServerState, NEW c
  PROVE  \E services \in Seq(InFlightService) :
           RemoveInFlight(v, c) = [v EXCEPT !.in_flight_services = services]
<1> DEFINE q == v.in_flight_services
           I == {i \in 1 .. Len(q) : q[i].started_at = c.started_at}
<1>1. q \in Seq(InFlightService)
  BY DEF ServerState
<1>2. CASE I = {}
  <2>1. RemoveFirstMatch(q, LAMBDA svc : svc.started_at = c.started_at) = q
    BY <1>2 DEF RemoveFirstMatch
  <2> QED
    BY <1>1, <2>1 DEF RemoveInFlight
<1>3. CASE I # {}
  <2>1. Min(I) \in I
    <3>1. I \in SUBSET Nat
      BY <1>1
    <3> HIDE DEF I
    <3> QED
      BY <1>3, <3>1, MinIsSmallest
  <2>2. RemoveFirstMatch(q, LAMBDA svc : svc.started_at = c.started_at) = RemoveAt(q, Min(I))
    BY <1>3 DEF RemoveFirstMatch, SelectInSeq
  <2>3. RemoveAt(q, Min(I)) \in Seq(InFlightService)
    <3>1. Min(I) \in DOMAIN q
      BY <1>1, <2>1
    <3> QED
      BY <1>1, <3>1, RemoveAtProperties
  <2> QED
    BY <2>2, <2>3 DEF RemoveInFlight
<1> QED
  BY <1>2, <1>3

(* v without its i-th event. *)
Cancelled(v, i) == [v EXCEPT !.pending = RemoveAt(@, i), !.timers = @ \ {v.pending[i]}]

(* cancel_pending_*: no event with the start, or one of them is cancelled. *)
LEMMA CancelCases ==
  ASSUME NEW v \in ServerState, NEW start, NEW w, w = CancelPending(v, start)
  PROVE  \/ /\ \A i \in DOMAIN v.pending : v.pending[i].start # start
            /\ w = v
         \/ \E i \in DOMAIN v.pending :
              /\ v.pending[i].start = start
              /\ w = Cancelled(v, i)
<1> DEFINE I == {i \in 1 .. Len(v.pending) : v.pending[i].start = start}
           j == SelectInSeq(v.pending, LAMBDA e : e.start = start)
<1>1. DOMAIN v.pending = 1 .. Len(v.pending)
  BY DEF ServerState
<1>2. j = IF I # {} THEN Min(I) ELSE 0
  BY DEF SelectInSeq
<1>3. CASE I = {}
  <2>1. w = v
    BY <1>2, <1>3 DEF CancelPending
  <2> QED
    BY <1>1, <1>3, <2>1
<1>4. CASE I # {}
  <2>1. Min(I) \in I
    <3>1. I \in SUBSET Nat
      OBVIOUS
    <3> HIDE DEF I
    <3> QED
      BY <1>4, <3>1, MinIsSmallest
  <2>2. j = Min(I) /\ j # 0
    BY <1>2, <1>4, <2>1
  <2>3. w = Cancelled(v, j)
    BY <2>2 DEF CancelPending, Cancelled
  <2>4. j \in DOMAIN v.pending /\ v.pending[j].start = start
    BY <1>1, <2>1, <2>2
  <2> HIDE DEF j
  <2> QED
    BY <2>3, <2>4
<1> QED
  BY <1>3, <1>4

(* The server can cancel each of its events, by its start. *)
Cancellable(v) == v.timers = Elements(v.pending) /\ DistinctStarts(v.pending)

LEMMA CancelProperties ==
  ASSUME NEW v \in ServerState, NEW start, NEW w, w = CancelPending(v, start)
  PROVE  /\ w \in ServerState
         /\ w = [v EXCEPT !.pending = w.pending, !.timers = w.timers]
         /\ Cancellable(v) =>
              Cancellable(w) /\ w.timers = {e \in v.timers : e.start # start}
<1> DEFINE q == v.pending
<1>t. q \in Seq(Timer) /\ v.timers \subseteq Timer
  BY DEF ServerState
<1>1. CASE /\ \A i \in DOMAIN q : q[i].start # start
           /\ w = v
  <2>1. w \in ServerState /\ w = [v EXCEPT !.pending = w.pending, !.timers = w.timers]
    BY <1>1 DEF ServerState
  <2>2. Cancellable(v) => v.timers = {e \in v.timers : e.start # start}
    BY <1>1 DEF Cancellable, Elements
  <2> QED
    BY <1>1, <2>1, <2>2
<1>2. CASE \E i \in DOMAIN q :
             /\ q[i].start = start
             /\ w = Cancelled(v, i)
  <2>1. PICK i \in DOMAIN q : q[i].start = start /\ w = Cancelled(v, i)
    BY <1>2
  <2> DEFINE r == RemoveAt(q, i)
  <2>2. /\ r \in Seq(Timer) /\ Len(r) = Len(q) - 1
        /\ \A j \in 1 .. Len(q) - 1 : r[j] = IF j < i THEN q[j] ELSE q[j + 1]
    BY <1>t, RemoveAtProperties
  <2> HIDE DEF r
  <2>3. /\ w.pending = r /\ w.timers = v.timers \ {q[i]}
        /\ w \in ServerState
        /\ w = [v EXCEPT !.pending = w.pending, !.timers = w.timers]
    <3>1. w = [v EXCEPT !.pending = r, !.timers = v.timers \ {q[i]}]
      BY <2>1 DEF r, Cancelled
    <3> QED
      BY <1>t, <2>2, <3>1 DEF ServerState
  <2>4. ASSUME Cancellable(v)
        PROVE  Cancellable(w) /\ w.timers = {e \in v.timers : e.start # start}
    <3>1. v.timers = Elements(q) /\ DistinctStarts(q)
      BY <2>4 DEF Cancellable
    <3>2. NoDuplicates(q)
      BY <3>1 DEF NoDuplicates, DistinctStarts
    <3>3. NoDuplicates(r) /\ Elements(r) = Elements(q) \ {q[i]}
      BY <1>t, <3>2, RemoveAtElements DEF r
    <3>4. \A e \in Elements(q) : e = q[i] <=> e.start = start
      BY <2>1, <3>1 DEF Elements, DistinctStarts
    <3>5. DistinctStarts(r)
      <4> SUFFICES ASSUME NEW j \in DOMAIN r, NEW k \in DOMAIN r, r[j].start = r[k].start
                   PROVE  j = k
        BY DEF DistinctStarts
      <4>1. r[j] \in Elements(q) /\ r[k] \in Elements(q)
        BY <3>3 DEF Elements
      <4>2. r[j] = r[k]
        BY <3>1, <4>1 DEF Elements, DistinctStarts
      <4> QED
        BY <3>3, <4>2 DEF NoDuplicates
    <3> QED
      BY <2>3, <3>1, <3>3, <3>4, <3>5 DEF Cancellable
  <2> QED
    BY <2>3, <2>4
<1>3. \/ /\ \A i \in DOMAIN q : q[i].start # start
         /\ w = v
      \/ \E i \in DOMAIN q :
           /\ q[i].start = start
           /\ w = Cancelled(v, i)
  BY CancelCases
<1> QED
  BY <1>1, <1>2, <1>3

(* begin_service: the queue is not touched, one more completion is due. *)
CompletionOf(v, t) ==
  [task |-> t, started_at |-> now, at |-> now + t.duration, nth |-> v.scheduled]

ServiceBegun(v, t, w) ==
  /\ w \in ServerState
  /\ w.queue = v.queue
  /\ w.in_flight = v.in_flight + 1
  /\ w.completions =
       v.completions \cup {CompletionOf(v, t)}
  /\ Cancellable(v) =>
       Cancellable(w) /\ w.timers = {e \in v.timers : e.start # t.start}

LEMMA BeginServiceProperties ==
  ASSUME NEW v \in ServerState, NEW t \in Task, now \in Nat,
         NEW w, w = BeginService(v, t)
  PROVE  ServiceBegun(v, t, w)
<1> DEFINE u == CancelPending(v, t.start)
           c == CompletionOf(v, t)
           svc == [started_at |-> now, duration |-> t.duration]
<1>1. /\ u \in ServerState
      /\ u = [v EXCEPT !.pending = u.pending, !.timers = u.timers]
      /\ Cancellable(v) =>
           Cancellable(u) /\ u.timers = {e \in v.timers : e.start # t.start}
  BY CancelProperties
<1>2. w = [u EXCEPT !.in_flight_services = Append(@, svc), !.in_flight = @ + 1,
                    !.completions = @ \cup {c}, !.scheduled = @ + 1]
  BY DEF BeginService, CompletionOf
<1>3. c \in Completion /\ svc \in InFlightService
  <2>1. /\ t.duration \in Durations /\ t.duration \in Nat /\ now + t.duration \in Nat
        /\ v.scheduled \in Nat
    <3> HIDE DEF u, c, svc
    <3>1. \A d \in Durations : d \in Nat
      BY PushDispatchAssumption
    <3>2. t.duration \in Durations /\ v.scheduled \in Nat
      BY DEF Task, ServerState
    <3> QED
      BY <3>1, <3>2
  <2> QED
    BY <2>1 DEF CompletionOf, Completion, InFlightService
<1>4. u.queue = v.queue /\ u.in_flight = v.in_flight /\ u.completions = v.completions
  <2> HIDE DEF u
  <2> QED
    BY <1>1 DEF ServerState
<1> HIDE DEF u, c, svc
<1>5. /\ w \in ServerState /\ w.queue = u.queue /\ w.in_flight = u.in_flight + 1
      /\ w.completions = u.completions \cup {c}
      /\ w.pending = u.pending /\ w.timers = u.timers
  <2>1. /\ u.in_flight_services \in Seq(InFlightService) /\ u.in_flight \in Nat
        /\ u.completions \subseteq Completion /\ u.scheduled \in Nat
    BY <1>1 DEF ServerState
  <2>2. /\ Append(u.in_flight_services, svc) \in Seq(InFlightService)
        /\ u.in_flight + 1 \in Nat
        /\ u.completions \cup {c} \in SUBSET Completion
        /\ u.scheduled + 1 \in Nat
    BY <1>3, <2>1
  <2> DEFINE services == Append(u.in_flight_services, svc)
             busy     == u.in_flight + 1
             due      == u.completions \cup {c}
             number   == u.scheduled + 1
  <2>3. w = [u EXCEPT !.in_flight_services = services, !.in_flight = busy,
                      !.completions = due, !.scheduled = number]
    BY <1>2
  <2> HIDE DEF services, busy, due, number
  <2>4. /\ w \in ServerState /\ w.queue = u.queue /\ w.in_flight = busy
        /\ w.completions = due /\ w.pending = u.pending /\ w.timers = u.timers
    BY <1>1, <2>2, <2>3 DEF ServerState, services, busy, due, number
  <2> QED
    BY <2>4 DEF busy, due
<1>6. Cancellable(v) => Cancellable(w) /\ w.timers = {e \in v.timers : e.start # t.start}
  BY <1>1, <1>5 DEF Cancellable
<1> QED
  BY <1>4, <1>5, <1>6 DEF c, ServiceBegun

(* The fold of drain_queue over no task and over one. *)
LEMMA DrainNone ==
  ASSUME NEW w
  PROVE  FoldLeft(BeginService, w, <<>>) = w
<1> DEFINE g == [s \in SUBSET {} |-> w]
<1>1. DOMAIN <<>> = {}
  OBVIOUS
<1> HIDE DEF BeginService
<1>2. g = [s \in SUBSET {} |->
             IF s = {} THEN w ELSE BeginService(g[s \ {Max(s)}], <<>>[Max(s)])]
  OBVIOUS
<1> QED
  BY <1>1, <1>2 DEF FoldLeft, MapThenFoldSet

LEMMA DrainOne ==
  ASSUME NEW w, NEW t
  PROVE  FoldLeft(BeginService, w, <<t>>) = BeginService(w, t)
<1> DEFINE g == [s \in SUBSET {1} |-> IF s = {} THEN w ELSE BeginService(w, t)]
           Folds(f) == f = [s \in SUBSET {1} |->
                              IF s = {} THEN w
                              ELSE BeginService(f[s \ {Max(s)}], <<t>>[Max(s)])]
<1>1. DOMAIN <<t>> = {1} /\ <<t>>[1] = t
  OBVIOUS
<1>2. Max({1}) = 1
  BY DEF Max
<1>3. {1} \ {1} = {} /\ {} \in SUBSET {1} /\ {1} \in SUBSET {1} /\ {1} # {}
  OBVIOUS
<1> HIDE DEF BeginService
<1>4. Folds(g)
  <2>1. \A s \in SUBSET {1} : s = {} \/ s = {1}
    OBVIOUS
  <2>2. g[{}] = w
    OBVIOUS
  <2> HIDE DEF g
  <2>3. ASSUME NEW s \in SUBSET {1}
        PROVE  (IF s = {} THEN w ELSE BeginService(w, t))
                 = (IF s = {} THEN w ELSE BeginService(g[s \ {Max(s)}], <<t>>[Max(s)]))
    <3>1. CASE s = {}
      BY <3>1
    <3>2. CASE s = {1}
      <4>1. BeginService(g[s \ {Max(s)}], <<t>>[Max(s)]) = BeginService(w, t)
        BY <1>1, <1>2, <1>3, <2>2, <3>2, Zenon
      <4> QED
        BY <3>2, <4>1
    <3> QED
      BY <2>1, <3>1, <3>2
  <2> QED
    BY <2>3, Zenon DEF g
<1> HIDE DEF g
<1>5. ASSUME NEW h, Folds(h)
      PROVE  h[{1}] = BeginService(w, t)
  <2>1. h[{}] = w
    BY <1>3, <1>5, Zenon
  <2>2. h[{1}] = BeginService(h[{1} \ {Max({1})}], <<t>>[Max({1})])
    BY <1>3, <1>5, Zenon
  <2> QED
    BY <1>1, <1>2, <1>3, <2>1, <2>2, Zenon
<1> QED
  BY <1>1, <1>4, <1>5, ZenonT(60) DEF FoldLeft, MapThenFoldSet

(***************************************************************************)
(* drain_queue after one service has ended on a server whose slots were    *)
(* all busy if tasks were waiting: one task is started, if there is one.   *)
(***************************************************************************)
LEMMA DrainCases ==
  ASSUME NEW v \in ServerState, v.in_flight < MaxConcurrency,
         v.queue # <<>> => v.in_flight + 1 = MaxConcurrency
  PROVE  \/ /\ v.queue = <<>>
            /\ DrainQueue(v) = v
         \/ /\ v.queue # <<>>
            /\ DrainQueue(v) = BeginService([v EXCEPT !.queue = Tail(@)], Head(v.queue))
<1> DEFINE q == v.queue
           free == MaxConcurrency - v.in_flight
           k == Max({0, Min({Len(q), free})})
<1>1. q \in Seq(Task) /\ Len(q) \in Nat /\ v.in_flight \in Nat /\ free \in Nat /\ free >= 1
  BY PushDispatchAssumption DEF ServerState
<1>2. DrainQueue(v) =
        FoldLeft(BeginService, [v EXCEPT !.queue = SubSeq(q, k + 1, Len(q))], SubSeq(q, 1, k))
  BY Zenon DEF DrainQueue
<1>3. CASE q = <<>>
  <2>1. Len(q) = 0
    BY <1>3
  <2>2. k = 0
    <3> HIDE DEF q, free
    <3>1. Min({Len(q), free}) = 0
      BY <1>1, <2>1 DEF Min
    <3>2. Max({0, 0}) = 0
      BY DEF Max
    <3> QED
      BY <3>1, <3>2
  <2> HIDE DEF k, q
  <2>3. SubSeq(q, k + 1, Len(q)) = <<>> /\ SubSeq(q, 1, k) = <<>>
    BY <1>1, <2>1, <2>2, SubSeqEmpty
  <2>4. [v EXCEPT !.queue = <<>>] = v
    BY <1>3 DEF q, ServerState
  <2> QED
    BY <1>2, <1>3, <2>3, <2>4, DrainNone DEF q
<1>4. CASE q # <<>>
  <2>1. Len(q) >= 1 /\ free = 1
    BY <1>1, <1>4
  <2>2. k = 1
    <3> HIDE DEF q, free
    <3>1. Min({Len(q), free}) = 1
      BY <1>1, <2>1 DEF Min
    <3>2. Max({0, 1}) = 1
      BY DEF Max
    <3> QED
      BY <3>1, <3>2
  <2> HIDE DEF k, q
  <2>3. SubSeq(q, k + 1, Len(q)) = Tail(q)
    BY <1>1, <1>4, <2>2, TailIsSubSeq
  <2>4. SubSeq(q, 1, k) = <<Head(q)>>
    <3>1. /\ SubSeq(q, 1, 1) \in Seq(Task) /\ Len(SubSeq(q, 1, 1)) = 1
          /\ SubSeq(q, 1, 1)[1] = q[1] /\ Head(q) = q[1]
      BY <1>1, <1>4, <2>1
    <3>2. /\ <<q[1]>> \in Seq(Task) /\ Len(<<q[1]>>) = 1
          /\ \A i \in 1 .. 1 : SubSeq(q, 1, 1)[i] = <<q[1]>>[i]
      <4>1. q[1] \in Task /\ \A i \in 1 .. 1 : i = 1
        BY <1>1, <2>1
      <4> QED
        BY <3>1, <4>1
    <3>3. SubSeq(q, 1, 1) = <<q[1]>>
      BY <3>1, <3>2, SeqEqual
    <3> QED
      BY <2>2, <3>1, <3>3
  <2> QED
    BY <1>2, <1>4, <2>3, <2>4, DrainOne, Zenon DEF q
<1> QED
  BY <1>3, <1>4

-----------------------------------------------------------------------------
(* A balancer's mailbox *)

Inputs(q) == {i \in DOMAIN q : q[i].type = "input"}

(* The shed tasks in a mailbox, none of them twice. *)
ComingBack(q) == {q[i].task : i \in Inputs(q)}
InputsOnce(q) == \A i, j \in Inputs(q) : q[i].task = q[j].task => i = j

(* The releases server s sent. *)
ReleasesOf(s) == {m \in LBMessage : m.type = "release" /\ m.server = s}

LEMMA MailPushBack ==
  ASSUME NEW q \in Seq(LBMessage), NEW m \in LBMessage, InputsOnce(q),
         m.type = "input" => m.task \notin ComingBack(q),
         NEW r, r = Append(q, m)
  PROVE  /\ r \in Seq(LBMessage)
         /\ InputsOnce(r)
         /\ ComingBack(r) = ComingBack(q) \cup {u \in {m.task} : m.type = "input"}
         /\ \A s : Count(r, ReleasesOf(s)) =
                     Count(q, ReleasesOf(s)) + IF m.type = "release" /\ m.server = s THEN 1 ELSE 0
<1>1. /\ r \in Seq(LBMessage) /\ DOMAIN r = 1 .. Len(q) + 1
      /\ \A i \in DOMAIN q : r[i] = q[i]
      /\ r[Len(q) + 1] = m
  BY PushBack
<1>2. /\ \A i \in DOMAIN r : i \in DOMAIN q \/ i = Len(q) + 1
      /\ \A i \in DOMAIN q : i \in DOMAIN r /\ i # Len(q) + 1
      /\ Len(q) + 1 \in DOMAIN r
  BY <1>1
<1>3. Inputs(r) = Inputs(q) \cup {i \in {Len(q) + 1} : m.type = "input"}
  BY <1>1, <1>2 DEF Inputs
<1>4. \A i \in Inputs(q) : i \in DOMAIN q
  BY DEF Inputs
<1>5. ComingBack(r) = ComingBack(q) \cup {u \in {m.task} : m.type = "input"}
  <2>1. /\ \A i \in Inputs(q) : r[i].task = q[i].task /\ i \in Inputs(r)
        /\ m.type = "input" => Len(q) + 1 \in Inputs(r)
        /\ \A i \in Inputs(r) : i \in Inputs(q) \/ (i = Len(q) + 1 /\ m.type = "input")
        /\ r[Len(q) + 1].task = m.task
    BY <1>1, <1>3, <1>4
  <2>2. ASSUME NEW u \in ComingBack(r)
        PROVE  u \in ComingBack(q) \/ (u = m.task /\ m.type = "input")
    BY <2>1 DEF ComingBack
  <2>3. ASSUME NEW u \in ComingBack(q) PROVE u \in ComingBack(r)
    BY <2>1 DEF ComingBack
  <2>4. m.type = "input" => m.task \in ComingBack(r)
    BY <2>1 DEF ComingBack
  <2> QED
    BY <2>2, <2>3, <2>4
<1>6. InputsOnce(r)
  <2>1. m.type = "input" => \A i \in Inputs(q) : q[i].task # m.task
    BY DEF ComingBack
  <2> QED
    BY <1>1, <1>2, <1>3, <1>4, <2>1 DEF InputsOnce
<1>7. ASSUME NEW s
      PROVE  Count(r, ReleasesOf(s)) =
               Count(q, ReleasesOf(s)) + IF m.type = "release" /\ m.server = s THEN 1 ELSE 0
  <2>1. m \in ReleasesOf(s) <=> m.type = "release" /\ m.server = s
    BY DEF ReleasesOf
  <2>2. Count(r, ReleasesOf(s)) = Count(q, ReleasesOf(s)) + IF m \in ReleasesOf(s) THEN 1 ELSE 0
    BY CountPushBack
  <2> QED
    BY <2>1, <2>2
<1> QED
  BY <1>1, <1>5, <1>6, <1>7

(* r is q without its first message, m. *)
Popped(q, m, r) ==
  /\ m \in LBMessage /\ r \in Seq(LBMessage)
  /\ InputsOnce(r)
  /\ m.type = "input" => m.task \in ComingBack(q)
  /\ ComingBack(r) = ComingBack(q) \ {u \in {m.task} : m.type = "input"}
  /\ \A s : Count(q, ReleasesOf(s)) =
              Count(r, ReleasesOf(s)) + IF m.type = "release" /\ m.server = s THEN 1 ELSE 0

LEMMA MailPopFront ==
  ASSUME NEW q \in Seq(LBMessage), q # <<>>, InputsOnce(q), NEW m, m = Head(q),
         NEW r, r = Tail(q)
  PROVE  Popped(q, m, r)
<1>1. /\ r \in Seq(LBMessage) /\ m \in LBMessage /\ m = q[1] /\ 1 \in DOMAIN q
      /\ DOMAIN r = 1 .. Len(q) - 1
      /\ \A i \in DOMAIN r : i + 1 \in DOMAIN q /\ r[i] = q[i + 1]
      /\ \A i \in DOMAIN q : i = 1 \/ (i - 1 \in DOMAIN r /\ q[i] = r[i - 1])
  BY PopFront
<1>2. /\ \A i \in DOMAIN r : i \in Nat /\ i + 1 # 1
      /\ \A i \in DOMAIN q : i \in Nat
  BY <1>1
<1>3. \A i \in Inputs(r) : i + 1 \in Inputs(q) /\ i + 1 # 1 /\ r[i].task = q[i + 1].task /\ i \in Nat
  BY <1>1, <1>2 DEF Inputs
<1>4. \A i \in Inputs(q) : i = 1 \/ (i - 1 \in Inputs(r) /\ r[i - 1].task = q[i].task)
  BY <1>1 DEF Inputs
<1>5. 1 \in Inputs(q) <=> m.type = "input"
  BY <1>1 DEF Inputs
<1>6. InputsOnce(r)
  <2> SUFFICES ASSUME NEW i \in Inputs(r), NEW j \in Inputs(r), r[i].task = r[j].task
               PROVE  i = j
    BY DEF InputsOnce
  <2>1. i + 1 = j + 1
    BY <1>3 DEF InputsOnce
  <2> QED
    BY <1>3, <2>1
<1>7. ASSUME m.type = "input"
      PROVE  m.task \in ComingBack(q) /\ m.task \notin ComingBack(r)
  <2>1. 1 \in Inputs(q) /\ q[1].task = m.task
    BY <1>1, <1>5, <1>7
  <2>2. m.task \in ComingBack(q)
    BY <2>1 DEF ComingBack
  <2>3. ASSUME NEW i \in Inputs(r) PROVE r[i].task # m.task
    BY <1>3, <2>1 DEF InputsOnce
  <2> QED
    BY <2>2, <2>3 DEF ComingBack
<1>8. /\ \A u \in ComingBack(r) : u \in ComingBack(q)
      /\ \A u \in ComingBack(q) : u \in ComingBack(r) \/ (m.type = "input" /\ u = m.task)
  <2>1. ASSUME NEW u \in ComingBack(r) PROVE u \in ComingBack(q)
    BY <1>3 DEF ComingBack
  <2>2. ASSUME NEW i \in Inputs(q)
        PROVE  q[i].task \in ComingBack(r) \/ (m.type = "input" /\ q[i].task = m.task)
    BY <1>1, <1>4, <1>5 DEF ComingBack
  <2> QED
    BY <2>1, <2>2 DEF ComingBack
<1>9. ComingBack(r) = ComingBack(q) \ {u \in {m.task} : m.type = "input"}
  BY <1>7, <1>8
<1>10. ASSUME NEW s
       PROVE  Count(q, ReleasesOf(s)) =
                Count(r, ReleasesOf(s)) + IF m.type = "release" /\ m.server = s THEN 1 ELSE 0
  <2>1. m \in ReleasesOf(s) <=> m.type = "release" /\ m.server = s
    BY <1>1 DEF ReleasesOf
  <2>2. Count(q, ReleasesOf(s)) = Count(r, ReleasesOf(s)) + IF m \in ReleasesOf(s) THEN 1 ELSE 0
    BY CountPopFront
  <2> QED
    BY <2>1, <2>2
<1> QED
  BY <1>1, <1>6, <1>7, <1>9, <1>10 DEF Popped

-----------------------------------------------------------------------------
(* The inductive invariant *)

PushTypes ==
  /\ overflow \in Overflows
  /\ now \in Nat
  /\ arrived \subseteq Task
  /\ local_inflight \in [LBs -> [Servers -> Nat]]
  /\ lb_inbox \in [LBs -> Seq(LBMessage)]
  /\ server_inbox \in [Servers -> Seq(Task)]
  /\ server \in [Servers -> ServerState]
  /\ evicted \subseteq [task : Task, origin : Servers] /\ IsFiniteSet(evicted)
  /\ finished \subseteq Task

(* The places of a task. *)
Sent(s)     == Elements(server_inbox[s])
Queued(s)   == Elements(server[s].queue)
Running(s)  == {c.task : c \in server[s].completions}
Returned(l) == ComingBack(lb_inbox[l])
Evicted     == {x.task : x \in evicted}

Place ==
  ({"sent", "queued", "running"} \X Servers) \cup ({"returned"} \X LBs)
    \cup {<<"evicted", "express">>, <<"finished", "sink">>}

At(p) ==
  CASE p[1] = "sent"     -> Sent(p[2])
    [] p[1] = "queued"   -> Queued(p[2])
    [] p[1] = "running"  -> Running(p[2])
    [] p[1] = "returned" -> Returned(p[2])
    [] p[1] = "evicted"  -> Evicted
    [] p[1] = "finished" -> finished

(* A task that arrived is in one place, and no other task is anywhere. *)
OnePlace == \A p, r \in Place : \A t \in At(p) \cap At(r) : p = r
AllSomewhere == \A t : t \in arrived <=> \E p \in Place : t \in At(p)

(* And it is there once. *)
Once ==
  /\ \A s \in Servers :
       /\ NoDuplicates(server_inbox[s])
       /\ NoDuplicates(server[s].queue)
       /\ \A c, d \in server[s].completions : c.task = d.task => c = d
  /\ \A l \in LBs : InputsOnce(lb_inbox[l])
  /\ \A x, y \in evicted : x.task = y.task => x = y

(* Tasks go to servers of their client, and come back to it. *)
AtHome ==
  /\ \A s \in Servers : \A t \in Sent(s) \cup Queued(s) \cup Running(s) : s \in Subset[t.lb]
  /\ \A l \in LBs : \A i \in DOMAIN lb_inbox[l] : lb_inbox[l][i].task.lb = l

(***************************************************************************)
(* in_flight counts the services that run, at most max_concurrency; no     *)
(* slot is free while tasks are queued, so drain_queue starts one at most. *)
(***************************************************************************)
SlotsBusy ==
  \A s \in Servers :
    /\ IsFiniteSet(server[s].completions)
    /\ server[s].in_flight = Cardinality(server[s].completions)
    /\ server[s].in_flight <= MaxConcurrency
    /\ server[s].queue # <<>> => server[s].in_flight = MaxConcurrency

PushInv ==
  /\ PushTypes
  /\ OnePlace
  /\ AllSomewhere
  /\ Once
  /\ AtHome
  /\ SlotsBusy
  /\ ReleaseAccounting

(* A server can cancel its events, which are not overdue, and each has its task queued. *)
TimersFit(v, n) ==
  /\ Cancellable(v)
  /\ \A e \in v.timers :
       /\ e.at >= n
       /\ \E t \in Elements(v.queue) : t.lb = e.lb /\ t.start = e.start

(* Without two arrivals at an instant, a start names one task. *)
OneStart == \A t, u \in arrived : t.start = u.start => t = u

TimersInv ==
  /\ PushInv
  /\ OneStart
  /\ \A s \in Servers : TimersFit(server[s], now)

-----------------------------------------------------------------------------
(* Moving tasks between places *)

LEMMA Places ==
  /\ \A s \in Servers :
       /\ <<"sent", s>> \in Place /\ At(<<"sent", s>>) = Sent(s)
       /\ <<"queued", s>> \in Place /\ At(<<"queued", s>>) = Queued(s)
       /\ <<"running", s>> \in Place /\ At(<<"running", s>>) = Running(s)
  /\ \A l \in LBs : <<"returned", l>> \in Place /\ At(<<"returned", l>>) = Returned(l)
  /\ <<"evicted", "express">> \in Place /\ At(<<"evicted", "express">>) = Evicted
  /\ <<"finished", "sink">> \in Place /\ At(<<"finished", "sink">>) = finished
BY DEF Place, At

LEMMA PlaceCases ==
  ASSUME NEW p \in Place
  PROVE  \/ \E s \in Servers :
              p = <<"sent", s>> \/ p = <<"queued", s>> \/ p = <<"running", s>>
         \/ \E l \in LBs : p = <<"returned", l>>
         \/ p = <<"evicted", "express">>
         \/ p = <<"finished", "sink">>
<1>1. CASE p \in {"sent", "queued", "running"} \X Servers
  BY <1>1
<1>2. CASE p \in {"returned"} \X LBs
  BY <1>2
<1> QED
  BY <1>1, <1>2 DEF Place

(* The tasks of M move to the places `to` gives; the others stay. *)
Moves(M, to) ==
  /\ arrived' = arrived \cup M
  /\ \A s \in Servers : \A u :
       /\ u \in Sent(s)' <=> IF u \in M THEN to[u] = <<"sent", s>> ELSE u \in Sent(s)
       /\ u \in Queued(s)' <=> IF u \in M THEN to[u] = <<"queued", s>> ELSE u \in Queued(s)
       /\ u \in Running(s)' <=> IF u \in M THEN to[u] = <<"running", s>> ELSE u \in Running(s)
  /\ \A l \in LBs : \A u :
       u \in Returned(l)' <=> IF u \in M THEN to[u] = <<"returned", l>> ELSE u \in Returned(l)
  /\ \A u : u \in Evicted' <=>
       IF u \in M THEN to[u] = <<"evicted", "express">> ELSE u \in Evicted
  /\ \A u : u \in finished' <=>
       IF u \in M THEN to[u] = <<"finished", "sink">> ELSE u \in finished

LEMMA TasksMove ==
  ASSUME OnePlace, AllSomewhere, NEW M, NEW to \in [M -> Place], Moves(M, to)
  PROVE  OnePlace' /\ AllSomewhere'
<1>1. ASSUME NEW p \in Place, NEW u
      PROVE  u \in At(p)' <=> IF u \in M THEN to[u] = p ELSE u \in At(p)
  <2>1. ASSUME NEW s \in Servers, p = <<"sent", s>> PROVE At(p) = Sent(s) /\ At(p)' = Sent(s)'
    BY <2>1 DEF At
  <2>2. ASSUME NEW s \in Servers, p = <<"queued", s>> PROVE At(p) = Queued(s) /\ At(p)' = Queued(s)'
    BY <2>2 DEF At
  <2>3. ASSUME NEW s \in Servers, p = <<"running", s>> PROVE At(p) = Running(s) /\ At(p)' = Running(s)'
    BY <2>3 DEF At
  <2>4. ASSUME NEW l \in LBs, p = <<"returned", l>> PROVE At(p) = Returned(l) /\ At(p)' = Returned(l)'
    BY <2>4 DEF At
  <2>5. ASSUME p = <<"evicted", "express">> PROVE At(p) = Evicted /\ At(p)' = Evicted'
    BY <2>5 DEF At
  <2>6. ASSUME p = <<"finished", "sink">> PROVE At(p) = finished /\ At(p)' = finished'
    BY <2>6 DEF At
  <2>7. CASE \E s \in Servers : p = <<"sent", s>> \/ p = <<"queued", s>> \/ p = <<"running", s>>
    BY <2>1, <2>2, <2>3, <2>7 DEF Moves
  <2>8. CASE \E l \in LBs : p = <<"returned", l>>
    BY <2>4, <2>8 DEF Moves
  <2>9. CASE p = <<"evicted", "express">>
    BY <2>5, <2>9 DEF Moves
  <2>10. CASE p = <<"finished", "sink">>
    BY <2>6, <2>10 DEF Moves
  <2> QED
    BY <2>7, <2>8, <2>9, <2>10, PlaceCases
<1>2. OnePlace'
  BY <1>1 DEF OnePlace
<1>3. AllSomewhere'
  <2> SUFFICES ASSUME NEW t PROVE t \in arrived' <=> \E p \in Place : t \in At(p)'
    BY DEF AllSomewhere
  <2>1. CASE t \in M
    BY <1>1, <2>1 DEF Moves
  <2>2. CASE t \notin M
    BY <1>1, <2>2 DEF AllSomewhere, Moves
  <2> QED
    BY <2>1, <2>2
<1> QED
  BY <1>2, <1>3

(* A task in one place is in no other. *)
LEMMA OnlyAt ==
  ASSUME OnePlace, AllSomewhere, NEW p \in Place, NEW t, t \in At(p)
  PROVE  /\ t \in arrived
         /\ \A s \in Servers :
              /\ t \in Sent(s) => p = <<"sent", s>>
              /\ t \in Queued(s) => p = <<"queued", s>>
              /\ t \in Running(s) => p = <<"running", s>>
         /\ \A l \in LBs : t \in Returned(l) => p = <<"returned", l>>
         /\ t \in Evicted => p = <<"evicted", "express">>
         /\ t \in finished => p = <<"finished", "sink">>
<1>1. t \in arrived
  BY DEF AllSomewhere
<1>2. \A r \in Place : t \in At(r) => p = r
  BY DEF OnePlace
<1> QED
  BY <1>1, <1>2, Places

LEMMA OnlySent ==
  ASSUME OnePlace, AllSomewhere, NEW s \in Servers, NEW t \in Sent(s)
  PROVE  /\ t \in arrived
         /\ \A r \in Servers : (t \in Sent(r) => r = s) /\ t \notin Queued(r) /\ t \notin Running(r)
         /\ \A l \in LBs : t \notin Returned(l)
         /\ t \notin Evicted /\ t \notin finished
<1>1. <<"sent", s>> \in Place /\ t \in At(<<"sent", s>>)
  BY Places
<1> QED
  BY <1>1, OnlyAt

LEMMA OnlyQueued ==
  ASSUME OnePlace, AllSomewhere, NEW s \in Servers, NEW t \in Queued(s)
  PROVE  /\ t \in arrived
         /\ \A r \in Servers : t \notin Sent(r) /\ (t \in Queued(r) => r = s) /\ t \notin Running(r)
         /\ \A l \in LBs : t \notin Returned(l)
         /\ t \notin Evicted /\ t \notin finished
<1>1. <<"queued", s>> \in Place /\ t \in At(<<"queued", s>>)
  BY Places
<1> QED
  BY <1>1, OnlyAt

LEMMA OnlyRunning ==
  ASSUME OnePlace, AllSomewhere, NEW s \in Servers, NEW t \in Running(s)
  PROVE  /\ t \in arrived
         /\ \A r \in Servers : t \notin Sent(r) /\ t \notin Queued(r) /\ (t \in Running(r) => r = s)
         /\ \A l \in LBs : t \notin Returned(l)
         /\ t \notin Evicted /\ t \notin finished
<1>1. <<"running", s>> \in Place /\ t \in At(<<"running", s>>)
  BY Places
<1> QED
  BY <1>1, OnlyAt

LEMMA OnlyReturned ==
  ASSUME OnePlace, AllSomewhere, NEW l \in LBs, NEW t \in Returned(l)
  PROVE  /\ t \in arrived
         /\ \A r \in Servers : t \notin Sent(r) /\ t \notin Queued(r) /\ t \notin Running(r)
         /\ \A k \in LBs : t \in Returned(k) => k = l
         /\ t \notin Evicted /\ t \notin finished
<1>1. <<"returned", l>> \in Place /\ t \in At(<<"returned", l>>)
  BY Places
<1> QED
  BY <1>1, OnlyAt

LEMMA OnlyEvicted ==
  ASSUME OnePlace, AllSomewhere, NEW t \in Evicted
  PROVE  /\ t \in arrived
         /\ \A r \in Servers : t \notin Sent(r) /\ t \notin Queued(r) /\ t \notin Running(r)
         /\ \A l \in LBs : t \notin Returned(l)
         /\ t \notin finished
<1>1. <<"evicted", "express">> \in Place /\ t \in At(<<"evicted", "express">>)
  BY Places
<1> QED
  BY <1>1, OnlyAt

LEMMA NotArrived ==
  ASSUME AllSomewhere, NEW t, t \notin arrived
  PROVE  /\ \A r \in Servers : t \notin Sent(r) /\ t \notin Queued(r) /\ t \notin Running(r)
         /\ \A l \in LBs : t \notin Returned(l)
         /\ t \notin Evicted /\ t \notin finished
BY Places DEF AllSomewhere

LEMMA InitPush == Init => PushInv
<1> SUFFICES ASSUME Init PROVE PushInv
  OBVIOUS
<1>1. /\ overflow \in Overflows /\ now = 0 /\ arrived = {} /\ evicted = {} /\ finished = {}
      /\ \A l \in LBs : lb_inbox[l] = <<>>
      /\ \A l \in LBs : \A s \in Servers : local_inflight[l][s] = 0
      /\ \A s \in Servers : server_inbox[s] = <<>> /\ server[s] = IdleServer
  BY DEF Init
<1>2. \A s \in Servers :
        /\ server[s].queue = <<>> /\ server[s].in_flight = 0 /\ server[s].completions = {}
        /\ server[s] \in ServerState
  <2>1. /\ IdleServer.queue = <<>> /\ IdleServer.in_flight = 0 /\ IdleServer.completions = {}
        /\ IdleServer \in ServerState
    <3>1. /\ <<>> \in Seq(Task) /\ <<>> \in Seq(InFlightService) /\ <<>> \in Seq(Timer)
          /\ {} \in SUBSET Timer /\ {} \in SUBSET Completion /\ 0 \in Nat
      OBVIOUS
    <3> QED
      BY <3>1 DEF IdleServer, ServerState
  <2> QED
    BY <1>1, <2>1
<1>3. PushTypes
  BY <1>1, <1>2, FS_EmptySet DEF Init, PushTypes
<1>4. /\ \A s \in Servers : Sent(s) = {} /\ Queued(s) = {} /\ Running(s) = {}
      /\ \A l \in LBs : Returned(l) = {}
      /\ Evicted = {}
  BY <1>1, <1>2 DEF Sent, Queued, Running, Returned, Evicted, Elements, ComingBack, Inputs
<1>5. \A p \in Place : At(p) = {}
  BY <1>1, <1>4, PlaceCases, Places
<1>6. OnePlace /\ AllSomewhere
  BY <1>1, <1>5 DEF OnePlace, AllSomewhere
<1>7. Once /\ AtHome
  BY <1>1, <1>2, <1>4 DEF Once, AtHome, NoDuplicates, InputsOnce, Inputs
<1>0. Cardinality({}) = 0 /\ IsFiniteSet({}) /\ MaxConcurrency \in Nat
  BY FS_EmptySet, PushDispatchAssumption
<1>8. SlotsBusy
  <2> SUFFICES ASSUME NEW s \in Servers
               PROVE  /\ IsFiniteSet(server[s].completions)
                      /\ server[s].in_flight = Cardinality(server[s].completions)
                      /\ server[s].in_flight <= MaxConcurrency
                      /\ server[s].queue # <<>> => server[s].in_flight = MaxConcurrency
    BY DEF SlotsBusy
  <2>1. 0 <= MaxConcurrency
    BY <1>0
  <2>2. server[s].queue = <<>> /\ server[s].in_flight = 0 /\ server[s].completions = {}
    BY <1>2
  <2> QED
    BY <1>0, <2>1, <2>2, Zenon
<1>9. ReleaseAccounting
  <2> SUFFICES ASSUME NEW l \in LBs, NEW s \in Servers
               PROVE  local_inflight[l][s] =
                        Cardinality(TasksOf(l, server_inbox[s]))
                        + Cardinality(TasksOf(l, server[s].queue))
                        + Cardinality({c \in server[s].completions : c.task.lb = l})
                        + Cardinality({x \in evicted : x.origin = s /\ x.task.lb = l})
                        + Cardinality({i \in DOMAIN lb_inbox[l] :
                                         lb_inbox[l][i].type = "release" /\ lb_inbox[l][i].server = s})
    BY DEF ReleaseAccounting
  <2>1. /\ TasksOf(l, server_inbox[s]) = {} /\ TasksOf(l, server[s].queue) = {}
        /\ {c \in server[s].completions : c.task.lb = l} = {}
        /\ {x \in evicted : x.origin = s /\ x.task.lb = l} = {}
        /\ {i \in DOMAIN lb_inbox[l] :
              lb_inbox[l][i].type = "release" /\ lb_inbox[l][i].server = s} = {}
    BY <1>1, <1>2 DEF TasksOf
  <2>2. local_inflight[l][s] = 0 + 0 + 0 + 0 + 0
    BY <1>1
  <2> QED
    BY <1>0, <2>1, <2>2
<1> QED
  BY <1>3, <1>6, <1>7, <1>8, <1>9 DEF PushInv

-----------------------------------------------------------------------------
(* What local_inflight counts *)

Of(l) == {t \in Task : t.lb = l}
ServedFor(v, l) == {c \in v.completions : c.task.lb = l}
AwayFrom(e, s, l) == {x \in e : x.origin = s /\ x.task.lb = l}

LEMMA TasksOfCount ==
  ASSUME NEW q \in Seq(Task), NEW l
  PROVE  Cardinality(TasksOf(l, q)) = Count(q, Of(l)) /\ Count(q, Of(l)) \in Nat
<1>1. \A i \in DOMAIN q : q[i] \in Task
  OBVIOUS
<1>2. TasksOf(l, q) = {i \in DOMAIN q : q[i] \in Of(l)}
  BY <1>1 DEF TasksOf, Of
<1> QED
  BY <1>2, CountFinite DEF Count

LEMMA ReleasesCount ==
  ASSUME NEW q \in Seq(LBMessage), NEW s
  PROVE  /\ Cardinality({i \in DOMAIN q : q[i].type = "release" /\ q[i].server = s})
              = Count(q, ReleasesOf(s))
         /\ Count(q, ReleasesOf(s)) \in Nat
<1>1. \A i \in DOMAIN q : q[i] \in LBMessage
  OBVIOUS
<1>2. {i \in DOMAIN q : q[i].type = "release" /\ q[i].server = s} =
        {i \in DOMAIN q : q[i] \in ReleasesOf(s)}
  BY <1>1 DEF ReleasesOf
<1> QED
  BY <1>2, CountFinite DEF Count

LEMMA AccountingNow ==
  ASSUME PushTypes, SlotsBusy, ReleaseAccounting, NEW l \in LBs, NEW s \in Servers
  PROVE  /\ local_inflight[l][s] =
              Count(server_inbox[s], Of(l)) + Count(server[s].queue, Of(l))
              + Cardinality(ServedFor(server[s], l)) + Cardinality(AwayFrom(evicted, s, l))
              + Count(lb_inbox[l], ReleasesOf(s))
         /\ Count(server_inbox[s], Of(l)) \in Nat
         /\ Count(server[s].queue, Of(l)) \in Nat
         /\ Cardinality(ServedFor(server[s], l)) \in Nat
         /\ Cardinality(AwayFrom(evicted, s, l)) \in Nat
         /\ Count(lb_inbox[l], ReleasesOf(s)) \in Nat
<1>1. server_inbox[s] \in Seq(Task) /\ server[s].queue \in Seq(Task) /\ lb_inbox[l] \in Seq(LBMessage)
  BY DEF PushTypes, ServerState
<1>2. /\ Cardinality(TasksOf(l, server_inbox[s])) = Count(server_inbox[s], Of(l))
      /\ Count(server_inbox[s], Of(l)) \in Nat
      /\ Cardinality(TasksOf(l, server[s].queue)) = Count(server[s].queue, Of(l))
      /\ Count(server[s].queue, Of(l)) \in Nat
  BY <1>1, TasksOfCount
<1>3. /\ Cardinality({i \in DOMAIN lb_inbox[l] :
                        lb_inbox[l][i].type = "release" /\ lb_inbox[l][i].server = s})
           = Count(lb_inbox[l], ReleasesOf(s))
      /\ Count(lb_inbox[l], ReleasesOf(s)) \in Nat
  BY <1>1, ReleasesCount
<1>4. Cardinality(ServedFor(server[s], l)) \in Nat /\ Cardinality(AwayFrom(evicted, s, l)) \in Nat
  BY FS_Subset, FS_CardinalityType DEF ServedFor, AwayFrom, SlotsBusy, PushTypes
<1>5. local_inflight[l][s] =
        Cardinality(TasksOf(l, server_inbox[s]))
        + Cardinality(TasksOf(l, server[s].queue))
        + Cardinality({c \in server[s].completions : c.task.lb = l})
        + Cardinality({x \in evicted : x.origin = s /\ x.task.lb = l})
        + Cardinality({i \in DOMAIN lb_inbox[l] :
                         lb_inbox[l][i].type = "release" /\ lb_inbox[l][i].server = s})
  BY DEF ReleaseAccounting
<1> QED
  BY <1>2, <1>3, <1>4, <1>5 DEF ServedFor, AwayFrom

LEMMA AccountingNext ==
  ASSUME PushTypes',
         \A l \in LBs, s \in Servers :
           local_inflight'[l][s] =
             Count(server_inbox'[s], Of(l)) + Count(server'[s].queue, Of(l))
             + Cardinality(ServedFor(server'[s], l)) + Cardinality(AwayFrom(evicted', s, l))
             + Count(lb_inbox'[l], ReleasesOf(s))
  PROVE  ReleaseAccounting'
<1> SUFFICES ASSUME NEW l \in LBs, NEW s \in Servers
             PROVE  local_inflight'[l][s] =
                      Cardinality(TasksOf(l, server_inbox'[s]))
                      + Cardinality(TasksOf(l, server'[s].queue))
                      + Cardinality({c \in server'[s].completions : c.task.lb = l})
                      + Cardinality({x \in evicted' : x.origin = s /\ x.task.lb = l})
                      + Cardinality({i \in DOMAIN lb_inbox'[l] :
                                       lb_inbox'[l][i].type = "release"
                                       /\ lb_inbox'[l][i].server = s})
  BY DEF ReleaseAccounting, TasksOf
<1>1. server_inbox'[s] \in Seq(Task) /\ server'[s].queue \in Seq(Task) /\ lb_inbox'[l] \in Seq(LBMessage)
  BY DEF PushTypes, ServerState
<1>2. /\ Cardinality(TasksOf(l, server_inbox'[s])) = Count(server_inbox'[s], Of(l))
      /\ Cardinality(TasksOf(l, server'[s].queue)) = Count(server'[s].queue, Of(l))
  BY <1>1, TasksOfCount
<1>3. Cardinality({i \in DOMAIN lb_inbox'[l] :
                     lb_inbox'[l][i].type = "release" /\ lb_inbox'[l][i].server = s})
        = Count(lb_inbox'[l], ReleasesOf(s))
  BY <1>1, ReleasesCount
<1>4. local_inflight'[l][s] =
        Count(server_inbox'[s], Of(l)) + Count(server'[s].queue, Of(l))
        + Cardinality(ServedFor(server'[s], l)) + Cardinality(AwayFrom(evicted', s, l))
        + Count(lb_inbox'[l], ReleasesOf(s))
  OBVIOUS
<1> QED
  BY <1>2, <1>3, <1>4 DEF ServedFor, AwayFrom

-----------------------------------------------------------------------------
(* What the parts of a handler do *)

(* A server takes the first task of its mailbox. *)
TaskTaken(s, t) ==
  /\ t \in Task /\ t \in Sent(s)
  /\ server_inbox' \in [Servers -> Seq(Task)]
  /\ \A r \in Servers : \A u : u \in Sent(r)' <=> u # t /\ u \in Sent(r)
  /\ \A r \in Servers : NoDuplicates(server_inbox'[r])
  /\ \A r \in Servers, l \in LBs :
       Count(server_inbox[r], Of(l)) =
         Count(server_inbox'[r], Of(l)) + IF r = s /\ t.lb = l THEN 1 ELSE 0

LEMMA TakeTask ==
  ASSUME PushInv, NEW s \in Servers, server_inbox[s] # <<>>,
         NEW t, t = Head(server_inbox[s]),
         server_inbox' = [server_inbox EXCEPT ![s] = Tail(@)]
  PROVE  TaskTaken(s, t)
<1> DEFINE q == server_inbox[s]
<1>1. /\ q \in Seq(Task) /\ server_inbox \in [Servers -> Seq(Task)]
      /\ OnePlace /\ AllSomewhere /\ NoDuplicates(q)
  BY DEF PushInv, PushTypes, Once
<1>2. /\ Tail(q) \in Seq(Task) /\ t \in Task /\ Elements(q) = Elements(Tail(q)) \cup {t}
  BY <1>1, PopFront
<1>3. NoDuplicates(Tail(q)) /\ Elements(Tail(q)) = Elements(q) \ {t}
  BY <1>1, PopFrontNew
<1>4. server_inbox'[s] = Tail(q) /\ \A r \in Servers \ {s} : server_inbox'[r] = server_inbox[r]
  BY <1>1
<1>5. t \in Sent(s)
  BY <1>2 DEF Sent
<1>6. server_inbox' \in [Servers -> Seq(Task)]
  BY <1>1, <1>2
<1>7. ASSUME NEW r \in Servers, NEW u PROVE u \in Sent(r)' <=> u # t /\ u \in Sent(r)
  <2>1. t \in Sent(r) => r = s
    BY <1>1, <1>5, OnlySent
  <2>2. CASE r = s
    BY <1>3, <1>4, <2>2 DEF Sent
  <2>3. CASE r # s
    BY <1>4, <2>1, <2>3 DEF Sent
  <2> QED
    BY <2>2, <2>3
<1>8. ASSUME NEW r \in Servers PROVE NoDuplicates(server_inbox'[r])
  BY <1>3, <1>4 DEF PushInv, Once
<1>9. ASSUME NEW r \in Servers, NEW l \in LBs
      PROVE  Count(server_inbox[r], Of(l)) =
               Count(server_inbox'[r], Of(l)) + IF r = s /\ t.lb = l THEN 1 ELSE 0
  <2>1. t \in Of(l) <=> t.lb = l
    BY <1>2 DEF Of
  <2>2. Count(q, Of(l)) = Count(Tail(q), Of(l)) + IF t \in Of(l) THEN 1 ELSE 0
    BY <1>1, CountPopFront
  <2>3. Count(server_inbox[r], Of(l)) \in Nat
    BY <1>1, CountFinite
  <2>4. CASE r = s
    BY <1>4, <2>1, <2>2, <2>4
  <2>5. CASE r # s
    BY <1>4, <2>3, <2>5
  <2> QED
    BY <2>4, <2>5
<1> QED
  BY <1>2, <1>5, <1>6, <1>7, <1>8, <1>9 DEF TaskTaken

(* A balancer sends a task to a server. *)
LEMMA SendTask ==
  ASSUME PushInv, NEW s \in Servers, NEW t \in Task, \A r \in Servers : t \notin Sent(r),
         server_inbox' = Send(server_inbox, s, <<t>>)
  PROVE  /\ server_inbox' \in [Servers -> Seq(Task)]
         /\ \A r \in Servers : \A u : u \in Sent(r)' <=> IF u = t THEN r = s ELSE u \in Sent(r)
         /\ \A r \in Servers : NoDuplicates(server_inbox'[r])
         /\ \A r \in Servers, l \in LBs :
              Count(server_inbox'[r], Of(l)) =
                Count(server_inbox[r], Of(l)) + IF r = s /\ t.lb = l THEN 1 ELSE 0
<1> DEFINE q == server_inbox[s]
<1>1. q \in Seq(Task) /\ server_inbox \in [Servers -> Seq(Task)] /\ NoDuplicates(q)
  BY DEF PushInv, PushTypes, Once
<1>2. Append(q, t) \in Seq(Task) /\ Elements(Append(q, t)) = Elements(q) \cup {t}
  BY <1>1, PushBack
<1>3. q \o <<t>> = Append(q, t)
  BY <1>1, AppendIsConcat
<1>4. server_inbox'[s] = Append(q, t) /\ \A r \in Servers \ {s} : server_inbox'[r] = server_inbox[r]
  BY <1>1, <1>3 DEF Send
<1>5. server_inbox' \in [Servers -> Seq(Task)]
  BY <1>1, <1>2, <1>3 DEF Send
<1>6. ASSUME NEW r \in Servers, NEW u
      PROVE  u \in Sent(r)' <=> IF u = t THEN r = s ELSE u \in Sent(r)
  <2>1. CASE r = s
    BY <1>2, <1>4, <2>1 DEF Sent
  <2>2. CASE r # s
    BY <1>4, <2>2 DEF Sent
  <2> QED
    BY <2>1, <2>2
<1>7. ASSUME NEW r \in Servers PROVE NoDuplicates(server_inbox'[r])
  <2>1. t \notin Elements(q)
    BY DEF Sent
  <2>2. NoDuplicates(Append(q, t))
    BY <1>1, <2>1, PushBackNew
  <2> QED
    BY <1>4, <2>2 DEF PushInv, Once
<1>8. ASSUME NEW r \in Servers, NEW l \in LBs
      PROVE  Count(server_inbox'[r], Of(l)) =
               Count(server_inbox[r], Of(l)) + IF r = s /\ t.lb = l THEN 1 ELSE 0
  <2>1. t \in Of(l) <=> t.lb = l
    BY DEF Of
  <2>2. Count(Append(q, t), Of(l)) = Count(q, Of(l)) + IF t \in Of(l) THEN 1 ELSE 0
    BY <1>1, CountPushBack
  <2>3. Count(server_inbox[r], Of(l)) \in Nat
    BY <1>1, CountFinite
  <2>4. CASE r = s
    BY <1>4, <2>1, <2>2, <2>4
  <2>5. CASE r # s
    BY <1>4, <2>3, <2>5
  <2> QED
    BY <2>4, <2>5
<1> QED
  BY <1>5, <1>6, <1>7, <1>8

(* The mailboxes of the balancers. *)
Mailboxes(b) ==
  /\ b \in [LBs -> Seq(LBMessage)]
  /\ \A l \in LBs : InputsOnce(b[l]) /\ \A i \in DOMAIN b[l] : b[l][i].task.lb = l

(* m goes to the balancer of its task; a task is not sent back twice. *)
Posted(b, m, c) ==
  /\ m.type = "input" => m.task \notin ComingBack(b[m.task.lb])
  /\ c = [b EXCEPT ![m.task.lb] = Append(@, m)]

LEMMA SendMessage ==
  ASSUME NEW b, Mailboxes(b), NEW m \in LBMessage, NEW c, Posted(b, m, c)
  PROVE  /\ Mailboxes(c)
         /\ \A l \in LBs : \A u : u \in ComingBack(c[l]) <=>
              \/ u \in ComingBack(b[l])
              \/ m.type = "input" /\ u = m.task /\ l = m.task.lb
         /\ \A l \in LBs, s \in Servers :
              Count(c[l], ReleasesOf(s)) =
                Count(b[l], ReleasesOf(s))
                + IF m.type = "release" /\ m.server = s /\ m.task.lb = l THEN 1 ELSE 0
<1> DEFINE k == m.task.lb
           q == b[k]
           r == Append(q, m)
<1>1. k \in LBs /\ b \in [LBs -> Seq(LBMessage)] /\ q \in Seq(LBMessage) /\ InputsOnce(q)
  BY DEF Mailboxes, LBMessage, Task
<1>0. m.type = "input" => m.task \notin ComingBack(q)
  BY DEF Posted
<1>2. /\ r \in Seq(LBMessage)
      /\ InputsOnce(r)
      /\ ComingBack(r) = ComingBack(q) \cup {u \in {m.task} : m.type = "input"}
      /\ \A s : Count(r, ReleasesOf(s)) =
                  Count(q, ReleasesOf(s)) + IF m.type = "release" /\ m.server = s THEN 1 ELSE 0
  <2> HIDE DEF q
  <2> QED
    BY <1>0, <1>1, MailPushBack
<1>3. c[k] = r /\ c \in [LBs -> Seq(LBMessage)] /\ \A l \in LBs \ {k} : c[l] = b[l]
  <2> HIDE DEF k
  <2>1. c = [b EXCEPT ![k] = r]
    BY DEF k, Posted
  <2> HIDE DEF r, q
  <2> QED
    BY <1>1, <1>2, <2>1
<1>4. \A i \in DOMAIN r : r[i].task.lb = k
  <2>1. /\ DOMAIN r = 1 .. Len(q) + 1 /\ DOMAIN q = 1 .. Len(q) /\ Len(q) \in Nat
        /\ \A i \in DOMAIN q : r[i] = q[i]
        /\ r[Len(q) + 1] = m
    <3> HIDE DEF q
    <3> QED
      BY <1>1, PushBack
  <2>2. \A i \in DOMAIN r : i \in DOMAIN q \/ i = Len(q) + 1
    BY <2>1
  <2> QED
    BY <1>1, <2>1, <2>2 DEF Mailboxes
<1>5. Mailboxes(c)
  <2>1. ASSUME NEW l \in LBs
        PROVE  InputsOnce(c[l]) /\ \A i \in DOMAIN c[l] : c[l][i].task.lb = l
    <3>1. CASE l = k
      <4> HIDE DEF r
      <4> QED
        BY <1>2, <1>3, <1>4, <3>1
    <3>2. CASE l # k
      BY <1>3, <3>2 DEF Mailboxes
    <3> QED
      BY <3>1, <3>2
  <2> QED
    BY <1>3, <2>1 DEF Mailboxes
<1> HIDE DEF r, q
<1>6. ASSUME NEW l \in LBs, NEW u
      PROVE  u \in ComingBack(c[l]) <=>
               \/ u \in ComingBack(b[l])
               \/ m.type = "input" /\ u = m.task /\ l = m.task.lb
  BY <1>2, <1>3 DEF q
<1>7. ASSUME NEW l \in LBs, NEW s \in Servers
      PROVE  Count(c[l], ReleasesOf(s)) =
               Count(b[l], ReleasesOf(s))
               + IF m.type = "release" /\ m.server = s /\ m.task.lb = l THEN 1 ELSE 0
  <2>1. Count(b[l], ReleasesOf(s)) \in Nat
    BY <1>1, CountFinite
  <2>2. CASE l = k
    BY <1>2, <1>3, <2>2 DEF q
  <2>3. CASE l # k
    BY <1>3, <2>1, <2>3
  <2> QED
    BY <2>2, <2>3
<1> QED
  BY <1>5, <1>6, <1>7

LEMMA CurrentMailboxes ==
  ASSUME PushTypes, Once, AtHome
  PROVE  Mailboxes(lb_inbox)
BY DEF PushTypes, Once, AtHome, Mailboxes

(* Server s tells the client's balancer that t has left. *)
LEMMA SendRelease ==
  ASSUME PushInv, NEW s \in Servers, NEW t \in Task,
         lb_inbox' = Send(lb_inbox, t.lb, << [type |-> "release", server |-> s, task |-> t] >>)
  PROVE  /\ Mailboxes(lb_inbox')
         /\ \A l \in LBs : \A u : u \in Returned(l)' <=> u \in Returned(l)
         /\ \A l \in LBs, r \in Servers :
              Count(lb_inbox'[l], ReleasesOf(r)) =
                Count(lb_inbox[l], ReleasesOf(r)) + IF r = s /\ t.lb = l THEN 1 ELSE 0
<1> DEFINE m == [type |-> "release", server |-> s, task |-> t]
<1>1. Mailboxes(lb_inbox)
  BY CurrentMailboxes DEF PushInv
<1>2. m \in LBMessage /\ m.task = t /\ m.server = s /\ m.type = "release" /\ t.lb \in LBs
  BY DEF LBMessage, Task
<1>3. lb_inbox' = [lb_inbox EXCEPT ![t.lb] = Append(@, m)]
  <2>1. lb_inbox[t.lb] \in Seq(LBMessage)
    BY <1>1, <1>2 DEF Mailboxes
  <2>2. lb_inbox' = [lb_inbox EXCEPT ![t.lb] = @ \o <<m>>]
    BY DEF Send
  <2> HIDE DEF m
  <2>3. lb_inbox[t.lb] \o <<m>> = Append(lb_inbox[t.lb], m)
    BY <1>2, <2>1, AppendIsConcat
  <2> QED
    BY <2>2, <2>3
<1> HIDE DEF m
<1>4. PICK c : c = lb_inbox'
  OBVIOUS
<1>5. /\ Mailboxes(c)
      /\ \A l \in LBs : \A u : u \in ComingBack(c[l]) <=>
           \/ u \in ComingBack(lb_inbox[l])
           \/ m.type = "input" /\ u = m.task /\ l = m.task.lb
      /\ \A l \in LBs, r \in Servers :
           Count(c[l], ReleasesOf(r)) =
             Count(lb_inbox[l], ReleasesOf(r))
             + IF m.type = "release" /\ m.server = r /\ m.task.lb = l THEN 1 ELSE 0
  <2>1. PICK b : b = lb_inbox
    OBVIOUS
  <2>2. c = [b EXCEPT ![m.task.lb] = Append(@, m)]
    BY <1>2, <1>3, <1>4, <2>1
  <2>3. m.type = "input" => m.task \notin ComingBack(b[m.task.lb])
    BY <1>2
  <2>4. Mailboxes(b) /\ m \in LBMessage
    BY <1>1, <1>2, <2>1
  <2>5. /\ Mailboxes(c)
        /\ \A l \in LBs : \A u : u \in ComingBack(c[l]) <=>
             \/ u \in ComingBack(b[l])
             \/ m.type = "input" /\ u = m.task /\ l = m.task.lb
        /\ \A l \in LBs, r \in Servers :
             Count(c[l], ReleasesOf(r)) =
               Count(b[l], ReleasesOf(r))
               + IF m.type = "release" /\ m.server = r /\ m.task.lb = l THEN 1 ELSE 0
    <3>1. Posted(b, m, c)
      BY <2>2, <2>3 DEF Posted
    <3> QED
      BY <2>4, <3>1, SendMessage
  <2> QED
    BY <2>1, <2>5
<1>6. \A l \in LBs : \A u : u \in Returned(l)' <=> u \in Returned(l)
  BY <1>2, <1>4, <1>5 DEF Returned
<1>7. ASSUME NEW l \in LBs, NEW r \in Servers
      PROVE  Count(lb_inbox'[l], ReleasesOf(r)) =
               Count(lb_inbox[l], ReleasesOf(r)) + IF r = s /\ t.lb = l THEN 1 ELSE 0
  BY <1>2, <1>4, <1>5
<1> QED
  BY <1>4, <1>5, <1>6, <1>7

LEMMA ConcatTwo ==
  ASSUME NEW S, NEW q \in Seq(S), NEW d \in S, NEW e \in S
  PROVE  q \o <<d, e>> = Append(Append(q, d), e)
<1> DEFINE x == q \o <<d, e>>
           y == Append(Append(q, d), e)
<1>1. <<d, e>> \in Seq(S) /\ Len(<<d, e>>) = 2 /\ <<d, e>>[1] = d /\ <<d, e>>[2] = e
  OBVIOUS
<1>2. /\ x \in Seq(S) /\ Len(x) = Len(q) + 2
      /\ \A i \in 1 .. Len(q) : x[i] = q[i]
      /\ x[Len(q) + 1] = d /\ x[Len(q) + 2] = e
  OBVIOUS
<1>3. /\ y \in Seq(S) /\ Len(y) = Len(q) + 2
      /\ \A i \in 1 .. Len(q) : y[i] = q[i]
      /\ y[Len(q) + 1] = d /\ y[Len(q) + 2] = e
  OBVIOUS
<1> HIDE DEF x, y
<1>4. \A i \in 1 .. Len(x) : x[i] = y[i]
  BY <1>2, <1>3
<1> QED
  BY <1>2, <1>3, <1>4, SeqEqual

(* t is handed over: back to its balancer, released first, or to the express lane. *)
HandedOver(s, t, p) ==
  /\ p = <<"returned", t.lb>> \/ p = <<"evicted", "express">>
  /\ \A l \in LBs : \A u : u \in Returned(l)' <=>
       IF u = t THEN p = <<"returned", l>> ELSE u \in Returned(l)
  /\ \A u : u \in Evicted' <=>
       IF u = t THEN p = <<"evicted", "express">> ELSE u \in Evicted
  /\ Mailboxes(lb_inbox')
  /\ evicted' \subseteq [task : Task, origin : Servers] /\ IsFiniteSet(evicted')
  /\ \A x, y \in evicted' : x.task = y.task => x = y
  /\ \A l \in LBs, r \in Servers :
       Cardinality(AwayFrom(evicted', r, l)) + Count(lb_inbox'[l], ReleasesOf(r)) =
         Cardinality(AwayFrom(evicted, r, l)) + Count(lb_inbox[l], ReleasesOf(r))
         + IF r = s /\ t.lb = l THEN 1 ELSE 0

LEMMA ForwardTask ==
  ASSUME PushInv, NEW s \in Servers, NEW t \in Task, Forward(s, t),
         \A l \in LBs : t \notin Returned(l), t \notin Evicted
  PROVE  \E p \in Place : HandedOver(s, t, p)
<1>1. /\ Mailboxes(lb_inbox)
      /\ evicted \subseteq [task : Task, origin : Servers] /\ IsFiniteSet(evicted)
      /\ \A x, y \in evicted : x.task = y.task => x = y
      /\ PushTypes /\ SlotsBusy /\ ReleaseAccounting
  BY CurrentMailboxes DEF PushInv, PushTypes, Once
<1>2. t.lb \in LBs
  BY DEF Task
<1>3. \A l \in LBs, r \in Servers :
        /\ Cardinality(AwayFrom(evicted, r, l)) \in Nat
        /\ Count(lb_inbox[l], ReleasesOf(r)) \in Nat
  BY <1>1, AccountingNow
<1>4. CASE ForwardShed(s, t)
  <2> DEFINE d == [type |-> "release", server |-> s, task |-> t]
             e == [type |-> "input", server |-> s, task |-> t]
  <2>1. /\ d \in LBMessage /\ d.type = "release" /\ d.server = s /\ d.task = t
        /\ e \in LBMessage /\ e.type = "input" /\ e.server = s /\ e.task = t
    BY DEF LBMessage
  <2>2. lb_inbox' = [lb_inbox EXCEPT ![t.lb] = @ \o <<d, e>>] /\ evicted' = evicted
    BY <1>4 DEF ForwardShed, Send
  <2> HIDE DEF d, e
  <2>3. PICK b : b = [lb_inbox EXCEPT ![d.task.lb] = Append(@, d)]
    OBVIOUS
  <2>4. PICK c : c = lb_inbox'
    OBVIOUS
  <2>5. c = [b EXCEPT ![e.task.lb] = Append(@, e)]
    <3>1. lb_inbox[t.lb] \in Seq(LBMessage) /\ DOMAIN lb_inbox = LBs
      BY <1>1, <1>2 DEF Mailboxes
    <3>2. lb_inbox[t.lb] \o <<d, e>> = Append(Append(lb_inbox[t.lb], d), e)
      BY <2>1, <3>1, ConcatTwo
    <3>3. b = [lb_inbox EXCEPT ![t.lb] = Append(lb_inbox[t.lb], d)]
      BY <2>1, <2>3
    <3>4. b[t.lb] = Append(lb_inbox[t.lb], d)
      BY <1>2, <3>1, <3>3
    <3>5. [b EXCEPT ![t.lb] = Append(@, e)] =
            [lb_inbox EXCEPT ![t.lb] = Append(Append(lb_inbox[t.lb], d), e)]
      BY <1>2, <3>1, <3>3, <3>4
    <3> QED
      BY <2>1, <2>2, <2>4, <3>2, <3>5
  <2>6. PICK a : a = lb_inbox
    OBVIOUS
  <2>7. /\ Mailboxes(b)
        /\ \A l \in LBs : \A u : u \in ComingBack(b[l]) <=>
             \/ u \in ComingBack(a[l])
             \/ d.type = "input" /\ u = d.task /\ l = d.task.lb
        /\ \A l \in LBs, r \in Servers :
             Count(b[l], ReleasesOf(r)) =
               Count(a[l], ReleasesOf(r))
               + IF d.type = "release" /\ d.server = r /\ d.task.lb = l THEN 1 ELSE 0
    <3>1. Mailboxes(a) /\ b = [a EXCEPT ![d.task.lb] = Append(@, d)]
      BY <1>1, <2>3, <2>6
    <3>2. d.type = "input" => d.task \notin ComingBack(a[d.task.lb])
      BY <2>1
    <3>3. Posted(a, d, b)
      BY <3>1, <3>2 DEF Posted
    <3>4. Mailboxes(a)
      BY <3>1
    <3> QED
      BY <2>1, <3>3, <3>4, SendMessage
  <2>8. /\ Mailboxes(c)
        /\ \A l \in LBs : \A u : u \in ComingBack(c[l]) <=>
             \/ u \in ComingBack(b[l])
             \/ e.type = "input" /\ u = e.task /\ l = e.task.lb
        /\ \A l \in LBs, r \in Servers :
             Count(c[l], ReleasesOf(r)) =
               Count(b[l], ReleasesOf(r))
               + IF e.type = "release" /\ e.server = r /\ e.task.lb = l THEN 1 ELSE 0
    <3>1. e.type = "input" => e.task \notin ComingBack(b[e.task.lb])
      BY <1>2, <2>1, <2>6, <2>7 DEF Returned
    <3>2. Posted(b, e, c)
      BY <2>5, <3>1 DEF Posted
    <3> QED
      BY <2>1, <2>7, <3>2, SendMessage
  <2>9. \A l \in LBs : \A u : u \in Returned(l)' <=>
          IF u = t THEN <<"returned", t.lb>> = <<"returned", l>> ELSE u \in Returned(l)
    <3> SUFFICES ASSUME NEW l \in LBs, NEW u
                 PROVE  u \in ComingBack(c[l]) <=>
                          IF u = t THEN t.lb = l ELSE u \in ComingBack(lb_inbox[l])
      BY <2>4 DEF Returned
    <3>1. u \in ComingBack(c[l]) <=> u \in ComingBack(lb_inbox[l]) \/ (u = t /\ l = t.lb)
      BY <2>1, <2>6, <2>7, <2>8
    <3> QED
      BY <3>1 DEF Returned
  <2>10. \A u : u \in Evicted' <=>
           IF u = t THEN <<"returned", t.lb>> = <<"evicted", "express">> ELSE u \in Evicted
    BY <2>2 DEF Evicted
  <2>11. ASSUME NEW l \in LBs, NEW r \in Servers
         PROVE  Count(lb_inbox'[l], ReleasesOf(r)) =
                  Count(lb_inbox[l], ReleasesOf(r)) + IF r = s /\ t.lb = l THEN 1 ELSE 0
    <3>1. /\ Count(b[l], ReleasesOf(r)) =
               Count(a[l], ReleasesOf(r)) + IF s = r /\ t.lb = l THEN 1 ELSE 0
          /\ Count(c[l], ReleasesOf(r)) = Count(b[l], ReleasesOf(r)) + 0
      BY <2>1, <2>7, <2>8
    <3>2. Count(a[l], ReleasesOf(r)) \in Nat
      BY <1>3, <2>6
    <3> QED
      BY <2>4, <2>6, <3>1, <3>2
  <2>12. ASSUME NEW l \in LBs, NEW r \in Servers
         PROVE  Cardinality(AwayFrom(evicted', r, l)) + Count(lb_inbox'[l], ReleasesOf(r)) =
                  Cardinality(AwayFrom(evicted, r, l)) + Count(lb_inbox[l], ReleasesOf(r))
                  + IF r = s /\ t.lb = l THEN 1 ELSE 0
    <3>1. AwayFrom(evicted', r, l) = AwayFrom(evicted, r, l)
      BY <2>2
    <3>2. Count(lb_inbox'[l], ReleasesOf(r)) =
            Count(lb_inbox[l], ReleasesOf(r)) + IF r = s /\ t.lb = l THEN 1 ELSE 0
      BY <2>11
    <3> QED
      BY <1>3, <3>1, <3>2
  <2>13. <<"returned", t.lb>> \in Place
    BY <1>2, Places
  <2>14. HandedOver(s, t, <<"returned", t.lb>>)
    BY <1>1, <2>2, <2>4, <2>8, <2>9, <2>10, <2>12 DEF HandedOver
  <2> QED
    BY <2>13, <2>14
<1>5. CASE ForwardEvicted(s, t)
  <2> DEFINE x == [task |-> t, origin |-> s]
  <2>1. evicted' = evicted \cup {x} /\ lb_inbox' = lb_inbox
    BY <1>5 DEF ForwardEvicted
  <2>2. x \in [task : Task, origin : Servers] /\ x.task = t /\ x.origin = s
    OBVIOUS
  <2> HIDE DEF x
  <2>3. evicted' \subseteq [task : Task, origin : Servers] /\ IsFiniteSet(evicted')
    BY <1>1, <2>1, <2>2, FS_AddElement
  <2>4. \A y \in evicted : y.task # t
    BY DEF Evicted
  <2>5. \A y, z \in evicted' : y.task = z.task => y = z
    BY <1>1, <2>1, <2>2, <2>4
  <2>6. \A u : u \in Evicted' <=> u \in Evicted \/ u = t
    BY <2>1, <2>2 DEF Evicted
  <2>7. \A u : u \in Evicted' <=>
          IF u = t THEN <<"evicted", "express">> = <<"evicted", "express">> ELSE u \in Evicted
    BY <2>6
  <2>8. \A l \in LBs : \A u : u \in Returned(l)' <=>
          IF u = t THEN <<"evicted", "express">> = <<"returned", l>> ELSE u \in Returned(l)
    BY <2>1 DEF Returned
  <2>9. ASSUME NEW l \in LBs, NEW r \in Servers
        PROVE  Cardinality(AwayFrom(evicted', r, l)) =
                 Cardinality(AwayFrom(evicted, r, l)) + IF r = s /\ t.lb = l THEN 1 ELSE 0
    <3> DEFINE old == AwayFrom(evicted, r, l)
               new == AwayFrom(evicted', r, l)
    <3>1. IsFiniteSet(old) /\ Cardinality(old) \in Nat /\ x \notin old
      BY <1>1, <1>3, <2>2, <2>4, FS_Subset DEF AwayFrom
    <3>2. CASE r = s /\ t.lb = l
      <4>1. new = old \cup {x}
        BY <2>1, <2>2, <3>2 DEF AwayFrom
      <4> HIDE DEF old, new
      <4>2. Cardinality(new) = Cardinality(old) + 1
        BY <3>1, <4>1, FS_AddElement
      <4> QED
        BY <3>2, <4>2 DEF old, new
    <3>3. CASE ~(r = s /\ t.lb = l)
      <4>1. new = old
        BY <2>1, <2>2, <3>3 DEF AwayFrom
      <4> HIDE DEF old, new
      <4> QED
        BY <3>1, <3>3, <4>1 DEF old, new
    <3> QED
      BY <3>2, <3>3
  <2>10. ASSUME NEW l \in LBs, NEW r \in Servers
         PROVE  Cardinality(AwayFrom(evicted', r, l)) + Count(lb_inbox'[l], ReleasesOf(r)) =
                  Cardinality(AwayFrom(evicted, r, l)) + Count(lb_inbox[l], ReleasesOf(r))
                  + IF r = s /\ t.lb = l THEN 1 ELSE 0
    <3>1. Cardinality(AwayFrom(evicted', r, l)) =
            Cardinality(AwayFrom(evicted, r, l)) + IF r = s /\ t.lb = l THEN 1 ELSE 0
      BY <2>9
    <3> QED
      BY <1>3, <2>1, <3>1
  <2>11. <<"evicted", "express">> \in Place
    BY Places
  <2>12. HandedOver(s, t, <<"evicted", "express">>)
    BY <1>1, <2>1, <2>3, <2>5, <2>7, <2>8, <2>10 DEF HandedOver
  <2> QED
    BY <2>11, <2>12
<1> QED
  BY <1>4, <1>5 DEF Forward

(* The tasks in service on a server; w serves one more than v, with completion c. *)
InService(v) == {d.task : d \in v.completions}

ServesOnce(v) ==
  /\ IsFiniteSet(v.completions)
  /\ \A d, e \in v.completions : d.task = e.task => d = e

OneMore(v, c, w) ==
  /\ ServesOnce(w)
  /\ Cardinality(w.completions) = Cardinality(v.completions) + 1
  /\ \A u : u \in InService(w) <=> u = c.task \/ u \in InService(v)
  /\ \A l : Cardinality(ServedFor(w, l)) =
              Cardinality(ServedFor(v, l)) + IF c.task.lb = l THEN 1 ELSE 0

LEMMA OneMoreService ==
  ASSUME NEW v, ServesOnce(v), NEW c, c.task \notin InService(v),
         NEW w, w.completions = v.completions \cup {c}
  PROVE  OneMore(v, c, w)
<1> DEFINE old == v.completions
<1>1. IsFiniteSet(old) /\ c \notin old /\ w.completions = old \cup {c}
  BY DEF ServesOnce, InService
<1>2. IsFiniteSet(w.completions) /\ Cardinality(w.completions) = Cardinality(old) + 1
  <2> HIDE DEF old
  <2>1. IsFiniteSet(old \cup {c}) /\ Cardinality(old \cup {c}) = Cardinality(old) + 1
    BY <1>1, FS_AddElement
  <2> QED
    BY <1>1, <2>1
<1>3. \A u : u \in InService(w) <=> u = c.task \/ u \in InService(v)
  BY <1>1 DEF InService
<1>4. ASSUME NEW l
      PROVE  Cardinality(ServedFor(w, l)) =
               Cardinality(ServedFor(v, l)) + IF c.task.lb = l THEN 1 ELSE 0
  <2> DEFINE a == ServedFor(v, l)
             b == ServedFor(w, l)
  <2>1. IsFiniteSet(a) /\ Cardinality(a) \in Nat /\ c \notin a
    BY <1>1, FS_Subset, FS_CardinalityType DEF ServedFor
  <2>2. CASE c.task.lb = l
    <3>1. b = a \cup {c}
      BY <1>1, <2>2 DEF ServedFor
    <3> HIDE DEF a, b
    <3>2. Cardinality(b) = Cardinality(a) + 1
      BY <2>1, <3>1, FS_AddElement
    <3> QED
      BY <2>2, <3>2 DEF a, b
  <2>3. CASE c.task.lb # l
    <3>1. b = a
      BY <1>1, <2>3 DEF ServedFor
    <3> QED
      BY <2>1, <2>3, <3>1
  <2> QED
    BY <2>2, <2>3
<1>5. \A d, e \in w.completions : d.task = e.task => d = e
  BY <1>1 DEF ServesOnce, InService
<1> QED
  BY <1>2, <1>3, <1>4, <1>5 DEF OneMore, ServesOnce

LEMMA OneLessService ==
  ASSUME NEW v, ServesOnce(v), NEW c \in v.completions,
         NEW w, w.completions = v.completions \ {c}
  PROVE  /\ OneMore(w, c, v)
         /\ ServesOnce(w)
         /\ c.task \notin InService(w)
         /\ Cardinality(w.completions) \in Nat
<1>1. /\ IsFiniteSet(w.completions) /\ c \notin w.completions
      /\ v.completions = w.completions \cup {c}
  BY FS_RemoveElement DEF ServesOnce
<1>2. ServesOnce(w) /\ c.task \notin InService(w)
  BY <1>1 DEF ServesOnce, InService
<1>3. OneMore(w, c, v)
  BY <1>1, <1>2, OneMoreService
<1>4. Cardinality(w.completions) \in Nat
  BY <1>1, FS_CardinalityType
<1> QED
  BY <1>2, <1>3, <1>4

(* A server with its slots counted, and no task twice in its queue or in service. *)
Orderly(v) ==
  /\ v \in ServerState
  /\ NoDuplicates(v.queue)
  /\ \A c, d \in v.completions : c.task = d.task => c = d
  /\ IsFiniteSet(v.completions)
  /\ v.in_flight = Cardinality(v.completions)
  /\ v.in_flight <= MaxConcurrency
  /\ v.queue # <<>> => v.in_flight = MaxConcurrency

LEMMA OrderlyNow ==
  ASSUME PushTypes, Once, SlotsBusy, NEW s \in Servers
  PROVE  Orderly(server[s])
BY DEF PushTypes, Once, SlotsBusy, Orderly

LEMMA ServerChanges ==
  ASSUME PushInv, NEW s \in Servers, NEW w, Orderly(w), server' = [server EXCEPT ![s] = w]
  PROVE  /\ server' \in [Servers -> ServerState]
         /\ server'[s] = w
         /\ \A r \in Servers : r # s => server'[r] = server[r]
         /\ \A u : u \in Queued(s)' <=> u \in Elements(w.queue)
         /\ \A u : u \in Running(s)' <=> u \in {c.task : c \in w.completions}
         /\ \A r \in Servers : \A u :
              r # s => /\ u \in Queued(r)' <=> u \in Queued(r)
                       /\ u \in Running(r)' <=> u \in Running(r)
         /\ \A r \in Servers : Orderly(server'[r])
         /\ SlotsBusy'
<1>1. server \in [Servers -> ServerState] /\ w \in ServerState
  BY DEF PushInv, PushTypes, Orderly
<1>2. /\ server' \in [Servers -> ServerState]
      /\ server'[s] = w
      /\ \A r \in Servers : r # s => server'[r] = server[r]
  BY <1>1
<1>3. \A r \in Servers : Orderly(server'[r])
  <2>1. \A r \in Servers : Orderly(server[r])
    BY OrderlyNow DEF PushInv
  <2> QED
    BY <1>2, <2>1
<1>4. SlotsBusy'
  BY <1>3 DEF SlotsBusy, Orderly
<1>5. /\ \A u : u \in Queued(s)' <=> u \in Elements(w.queue)
      /\ \A u : u \in Running(s)' <=> u \in {c.task : c \in w.completions}
  BY <1>2 DEF Queued, Running
<1>6. \A r \in Servers : \A u :
        r # s => /\ u \in Queued(r)' <=> u \in Queued(r)
                 /\ u \in Running(r)' <=> u \in Running(r)
  BY <1>2 DEF Queued, Running
<1> QED
  BY <1>2, <1>3, <1>4, <1>5, <1>6

LEMMA OnceNext ==
  ASSUME \A s \in Servers : NoDuplicates(server_inbox'[s]),
         \A s \in Servers : Orderly(server'[s]),
         Mailboxes(lb_inbox'),
         \A x, y \in evicted' : x.task = y.task => x = y
  PROVE  Once'
BY DEF Once, Orderly, Mailboxes

(* Task t moves to p; the others stay. *)
LEMMA TaskMoves ==
  ASSUME OnePlace, AllSomewhere, AtHome, NEW t, NEW p \in Place,
         arrived' = arrived \cup {t},
         \A s \in Servers : \A u :
           /\ u \in Sent(s)' <=> IF u = t THEN p = <<"sent", s>> ELSE u \in Sent(s)
           /\ u \in Queued(s)' <=> IF u = t THEN p = <<"queued", s>> ELSE u \in Queued(s)
           /\ u \in Running(s)' <=> IF u = t THEN p = <<"running", s>> ELSE u \in Running(s),
         \A l \in LBs : \A u :
           u \in Returned(l)' <=> IF u = t THEN p = <<"returned", l>> ELSE u \in Returned(l),
         \A u : u \in Evicted' <=>
                  IF u = t THEN p = <<"evicted", "express">> ELSE u \in Evicted,
         \A u : u \in finished' <=>
                  IF u = t THEN p = <<"finished", "sink">> ELSE u \in finished,
         \A s \in Servers :
           p = <<"sent", s>> \/ p = <<"queued", s>> \/ p = <<"running", s>> => s \in Subset[t.lb],
         Mailboxes(lb_inbox')
  PROVE  OnePlace' /\ AllSomewhere' /\ AtHome'
<1> DEFINE M == {t}
           to == [u \in M |-> p]
<1>1. to \in [M -> Place] /\ arrived' = arrived \cup M
  OBVIOUS
<1>2. \A u : (u \in M <=> u = t) /\ (u \in M => to[u] = p)
  OBVIOUS
<1> HIDE DEF M, to
<1>3. ASSUME NEW s \in Servers, NEW u
      PROVE  /\ u \in Sent(s)' <=> IF u \in M THEN to[u] = <<"sent", s>> ELSE u \in Sent(s)
             /\ u \in Queued(s)' <=> IF u \in M THEN to[u] = <<"queued", s>> ELSE u \in Queued(s)
             /\ u \in Running(s)' <=> IF u \in M THEN to[u] = <<"running", s>> ELSE u \in Running(s)
  <2>1. CASE u = t
    BY <1>2, <2>1
  <2>2. CASE u # t
    BY <1>2, <2>2
  <2> QED
    BY <2>1, <2>2
<1>4. ASSUME NEW u
      PROVE  /\ \A l \in LBs : u \in Returned(l)' <=>
                  IF u \in M THEN to[u] = <<"returned", l>> ELSE u \in Returned(l)
             /\ u \in Evicted' <=>
                  IF u \in M THEN to[u] = <<"evicted", "express">> ELSE u \in Evicted
             /\ u \in finished' <=>
                  IF u \in M THEN to[u] = <<"finished", "sink">> ELSE u \in finished
  <2>1. CASE u = t
    BY <1>2, <2>1
  <2>2. CASE u # t
    BY <1>2, <2>2
  <2> QED
    BY <2>1, <2>2
<1>5. Moves(M, to)
  BY <1>1, <1>3, <1>4 DEF Moves
<1>6. OnePlace' /\ AllSomewhere'
  BY <1>1, <1>5, TasksMove
<1>7. ASSUME NEW s \in Servers, NEW u \in Sent(s)' \cup Queued(s)' \cup Running(s)'
      PROVE  s \in Subset[u.lb]
  <2>1. CASE u = t
    BY <1>7, <2>1
  <2>2. CASE u # t
    BY <1>7, <2>2 DEF AtHome
  <2> QED
    BY <2>1, <2>2
<1>8. AtHome'
  BY <1>7 DEF AtHome, Mailboxes
<1> QED
  BY <1>6, <1>8

(* No task moves. *)
LEMMA TasksStay ==
  ASSUME OnePlace, AllSomewhere, AtHome, arrived' = arrived,
         \A s \in Servers : \A u :
           /\ u \in Sent(s)' <=> u \in Sent(s)
           /\ u \in Queued(s)' <=> u \in Queued(s)
           /\ u \in Running(s)' <=> u \in Running(s),
         \A l \in LBs : \A u : u \in Returned(l)' <=> u \in Returned(l),
         \A u : u \in Evicted' <=> u \in Evicted,
         \A u : u \in finished' <=> u \in finished,
         Mailboxes(lb_inbox')
  PROVE  OnePlace' /\ AllSomewhere' /\ AtHome'
<1> DEFINE M == {}
           to == [u \in M |-> <<"finished", "sink">>]
<1>1. to \in [M -> Place] /\ arrived' = arrived \cup M /\ \A u : u \notin M
  OBVIOUS
<1> HIDE DEF M, to
<1>4. Moves(M, to)
  BY <1>1 DEF Moves
<1>2. OnePlace' /\ AllSomewhere'
  BY <1>1, <1>4, TasksMove
<1>3. AtHome'
  BY DEF AtHome, Mailboxes
<1> QED
  BY <1>2, <1>3

-----------------------------------------------------------------------------
(* Every action preserves the invariant *)

LEMMA ClockPush ==
  ASSUME PushInv, now' \in Nat,
         UNCHANGED <<overflow, arrived, local_inflight, lb_inbox, server_inbox, server, evicted,
                     finished>>
  PROVE  PushInv'
<1>1. PushTypes'
  BY DEF PushInv, PushTypes
<1>2. Mailboxes(lb_inbox')
  BY CurrentMailboxes DEF PushInv
<1>3. /\ \A s \in Servers : Sent(s)' = Sent(s) /\ Queued(s)' = Queued(s) /\ Running(s)' = Running(s)
      /\ \A l \in LBs : Returned(l)' = Returned(l)
      /\ Evicted' = Evicted
  BY DEF Sent, Queued, Running, Returned, Evicted
<1>4. OnePlace' /\ AllSomewhere' /\ AtHome'
  BY <1>2, <1>3, TasksStay DEF PushInv
<1>5. Once' /\ SlotsBusy'
  BY DEF PushInv, Once, SlotsBusy
<1>6. ReleaseAccounting'
  BY DEF PushInv, ReleaseAccounting, TasksOf
<1> QED
  BY <1>1, <1>4, <1>5, <1>6 DEF PushInv

(* dispatch_to_server of a task that is on no server. *)
SentTo(s, t) ==
  /\ s \in Servers
  /\ server_inbox' \in [Servers -> Seq(Task)]
  /\ local_inflight' \in [LBs -> [Servers -> Nat]]
  /\ \A r \in Servers : \A u :
       u \in Sent(r)' <=> IF u = t THEN <<"sent", s>> = <<"sent", r>> ELSE u \in Sent(r)
  /\ \A r \in Servers : NoDuplicates(server_inbox'[r])
  /\ \A k \in LBs, r \in Servers :
       /\ Count(server_inbox'[r], Of(k)) =
            Count(server_inbox[r], Of(k)) + IF r = s /\ k = t.lb THEN 1 ELSE 0
       /\ local_inflight'[k][r] =
            local_inflight[k][r] + IF r = s /\ k = t.lb THEN 1 ELSE 0

LEMMA DispatchTask ==
  ASSUME PushInv, NEW l \in LBs, NEW t \in Task, t.lb = l, \A r \in Servers : t \notin Sent(r),
         Dispatch(l, t)
  PROVE  \E s \in Subset[l] : SentTo(s, t)
<1>1. PICK s \in Subset[l] :
        /\ local_inflight' = [local_inflight EXCEPT ![l][s] = @ + 1]
        /\ server_inbox' = Send(server_inbox, s, <<t>>)
  BY DEF Dispatch
<1>2. s \in Servers
  BY PushDispatchAssumption
<1>3. /\ server_inbox' \in [Servers -> Seq(Task)]
      /\ \A r \in Servers : \A u : u \in Sent(r)' <=> IF u = t THEN r = s ELSE u \in Sent(r)
      /\ \A r \in Servers : NoDuplicates(server_inbox'[r])
      /\ \A r \in Servers, k \in LBs :
           Count(server_inbox'[r], Of(k)) =
             Count(server_inbox[r], Of(k)) + IF r = s /\ t.lb = k THEN 1 ELSE 0
  BY <1>1, <1>2, SendTask
<1>4. local_inflight \in [LBs -> [Servers -> Nat]]
  BY DEF PushInv, PushTypes
<1>5. local_inflight' \in [LBs -> [Servers -> Nat]]
  BY <1>1, <1>2, <1>4
<1>6. \A k \in LBs, r \in Servers :
        local_inflight'[k][r] = local_inflight[k][r] + IF r = s /\ k = l THEN 1 ELSE 0
  BY <1>1, <1>2, <1>4
<1>7. \A r \in Servers : \A u :
        u \in Sent(r)' <=> IF u = t THEN <<"sent", s>> = <<"sent", r>> ELSE u \in Sent(r)
  BY <1>3
<1>8. SentTo(s, t)
  BY <1>2, <1>3, <1>5, <1>6, <1>7 DEF SentTo
<1> QED
  BY <1>8

LEMMA ArrivePush ==
  ASSUME PushInv, NEW l \in LBs, NEW duration \in Durations, Arrive(l, duration)
  PROVE  PushInv'
<1> DEFINE t == [lb |-> l, start |-> now, duration |-> duration]
<1>1. /\ now \in 1 .. Horizon /\ arrived' = arrived \cup {t} /\ Dispatch(l, t)
      /\ UNCHANGED <<overflow, now, lb_inbox, server, evicted, finished>>
      /\ \A u \in arrived : u.lb = l => u.start < now
  BY DEF Arrive
<1>2. t \in Task /\ t.lb = l /\ t.start = now
  BY <1>1 DEF Task
<1> HIDE DEF t
<1>3. /\ PushTypes /\ OnePlace /\ AllSomewhere /\ AtHome /\ Once /\ SlotsBusy /\ ReleaseAccounting
      /\ now \in Nat /\ arrived \subseteq Task
  BY DEF PushInv, PushTypes
<1>4. t \notin arrived
  <2>1. ~(now < now)
    BY <1>3
  <2> QED
    BY <1>1, <1>2, <2>1
<1>5. /\ \A r \in Servers : t \notin Sent(r) /\ t \notin Queued(r) /\ t \notin Running(r)
      /\ \A k \in LBs : t \notin Returned(k)
      /\ t \notin Evicted /\ t \notin finished
  BY <1>3, <1>4, NotArrived
<1>s. PICK s \in Subset[l] : SentTo(s, t)
  BY <1>1, <1>2, <1>5, DispatchTask
<1>6. /\ s \in Servers
      /\ server_inbox' \in [Servers -> Seq(Task)]
      /\ local_inflight' \in [LBs -> [Servers -> Nat]]
      /\ \A r \in Servers : \A u :
           u \in Sent(r)' <=> IF u = t THEN <<"sent", s>> = <<"sent", r>> ELSE u \in Sent(r)
      /\ \A r \in Servers : NoDuplicates(server_inbox'[r])
      /\ \A k \in LBs, r \in Servers :
           /\ Count(server_inbox'[r], Of(k)) =
                Count(server_inbox[r], Of(k)) + IF r = s /\ k = l THEN 1 ELSE 0
           /\ local_inflight'[k][r] =
                local_inflight[k][r] + IF r = s /\ k = l THEN 1 ELSE 0
  BY <1>2, <1>s DEF SentTo
<1>7. Mailboxes(lb_inbox')
  BY <1>1, <1>3, CurrentMailboxes
<1>8. /\ \A r \in Servers : Queued(r)' = Queued(r) /\ Running(r)' = Running(r)
      /\ \A k \in LBs : Returned(k)' = Returned(k)
      /\ Evicted' = Evicted
  BY <1>1 DEF Queued, Running, Returned, Evicted
<1>9. OnePlace' /\ AllSomewhere' /\ AtHome'
  <2>1. PICK p \in Place : p = <<"sent", s>>
    BY <1>6, Places
  <2>2. \A r \in Servers : \A u :
          /\ u \in Sent(r)' <=> IF u = t THEN p = <<"sent", r>> ELSE u \in Sent(r)
          /\ u \in Queued(r)' <=> IF u = t THEN p = <<"queued", r>> ELSE u \in Queued(r)
          /\ u \in Running(r)' <=> IF u = t THEN p = <<"running", r>> ELSE u \in Running(r)
    BY <1>5, <1>6, <1>8, <2>1
  <2>3. \A k \in LBs : \A u :
          u \in Returned(k)' <=> IF u = t THEN p = <<"returned", k>> ELSE u \in Returned(k)
    BY <1>5, <1>8, <2>1
  <2>4. \A u : u \in Evicted' <=> IF u = t THEN p = <<"evicted", "express">> ELSE u \in Evicted
    BY <1>5, <1>8, <2>1
  <2>5. \A u : u \in finished' <=> IF u = t THEN p = <<"finished", "sink">> ELSE u \in finished
    BY <1>1, <1>5, <2>1
  <2>6. \A r \in Servers :
          p = <<"sent", r>> \/ p = <<"queued", r>> \/ p = <<"running", r>> => r \in Subset[t.lb]
    BY <1>2, <1>6, <2>1
  <2> QED
    BY <1>1, <1>3, <1>7, <2>2, <2>3, <2>4, <2>5, <2>6, TaskMoves
<1>10. PushTypes'
  BY <1>1, <1>2, <1>3, <1>6 DEF PushTypes
<1>11. Once' /\ SlotsBusy'
  BY <1>1, <1>3, <1>6 DEF Once, SlotsBusy
<1>12. ASSUME NEW k \in LBs, NEW r \in Servers
       PROVE  local_inflight'[k][r] =
                Count(server_inbox'[r], Of(k)) + Count(server'[r].queue, Of(k))
                + Cardinality(ServedFor(server'[r], k)) + Cardinality(AwayFrom(evicted', r, k))
                + Count(lb_inbox'[k], ReleasesOf(r))
  <2>1. /\ local_inflight[k][r] =
             Count(server_inbox[r], Of(k)) + Count(server[r].queue, Of(k))
             + Cardinality(ServedFor(server[r], k)) + Cardinality(AwayFrom(evicted, r, k))
             + Count(lb_inbox[k], ReleasesOf(r))
        /\ Count(server_inbox[r], Of(k)) \in Nat
        /\ Count(server[r].queue, Of(k)) \in Nat
        /\ Cardinality(ServedFor(server[r], k)) \in Nat
        /\ Cardinality(AwayFrom(evicted, r, k)) \in Nat
        /\ Count(lb_inbox[k], ReleasesOf(r)) \in Nat
    BY <1>3, AccountingNow
  <2>2. server' = server /\ evicted' = evicted /\ lb_inbox' = lb_inbox
    BY <1>1
  <2>3. /\ Count(server_inbox'[r], Of(k)) =
             Count(server_inbox[r], Of(k)) + IF r = s /\ k = l THEN 1 ELSE 0
        /\ local_inflight'[k][r] =
             local_inflight[k][r] + IF r = s /\ k = l THEN 1 ELSE 0
    BY <1>6
  <2> QED
    BY <2>1, <2>2, <2>3
<1>13. ReleaseAccounting'
  BY <1>10, <1>12, AccountingNext
<1> QED
  BY <1>9, <1>10, <1>11, <1>13 DEF PushInv

(* A balancer takes the first message of its mailbox. *)
Taken(l, m) ==
  /\ m \in LBMessage /\ m.task.lb = l
  /\ Mailboxes(lb_inbox')
  /\ m.type = "input" => m.task \in Returned(l)
  /\ \A k \in LBs : \A u : u \in Returned(k)' <=>
       u \in Returned(k) /\ ~(m.type = "input" /\ u = m.task)
  /\ \A k \in LBs, s \in Servers :
       Count(lb_inbox[k], ReleasesOf(s)) =
         Count(lb_inbox'[k], ReleasesOf(s))
         + IF m.type = "release" /\ m.server = s /\ k = l THEN 1 ELSE 0

LEMMA TakeMessage ==
  ASSUME PushInv, NEW l \in LBs, lb_inbox[l] # <<>>, NEW m, m = Head(lb_inbox[l]),
         lb_inbox' = [lb_inbox EXCEPT ![l] = Tail(@)]
  PROVE  Taken(l, m)
<1> DEFINE q == lb_inbox[l]
           r == Tail(q)
<1>1. /\ Mailboxes(lb_inbox) /\ lb_inbox \in [LBs -> Seq(LBMessage)] /\ q \in Seq(LBMessage)
      /\ InputsOnce(q) /\ OnePlace /\ AllSomewhere
      /\ \A i \in DOMAIN q : q[i].task.lb = l
  BY CurrentMailboxes DEF PushInv, Mailboxes
<1>2. /\ m \in LBMessage /\ r \in Seq(LBMessage)
      /\ InputsOnce(r)
      /\ m.type = "input" => m.task \in ComingBack(q)
      /\ ComingBack(r) = ComingBack(q) \ {u \in {m.task} : m.type = "input"}
      /\ \A s : Count(q, ReleasesOf(s)) =
                  Count(r, ReleasesOf(s)) + IF m.type = "release" /\ m.server = s THEN 1 ELSE 0
  <2>1. PICK a, b : a = q /\ b = r
    OBVIOUS
  <2> HIDE DEF q, r
  <2>2. a \in Seq(LBMessage) /\ a # <<>> /\ m = Head(a) /\ b = Tail(a) /\ InputsOnce(a)
    BY <1>1, <2>1 DEF q, r
  <2>3. Popped(a, m, b)
    BY <2>2, MailPopFront
  <2> QED
    BY <2>1, <2>3 DEF Popped
<1>3. /\ m = q[1] /\ 1 \in DOMAIN q /\ Elements(q) = Elements(r) \cup {m}
      /\ \A i \in DOMAIN r : i + 1 \in DOMAIN q /\ r[i] = q[i + 1]
  BY <1>1, PopFront
<1>4. lb_inbox'[l] = r /\ lb_inbox' \in [LBs -> Seq(LBMessage)]
      /\ \A k \in LBs : k # l => lb_inbox'[k] = lb_inbox[k]
  BY <1>1, <1>2
<1>5. m.task.lb = l /\ \A i \in DOMAIN r : r[i].task.lb = l
  <2> HIDE DEF q, r
  <2> QED
    BY <1>1, <1>3
<1> HIDE DEF r, q
<1>6. Mailboxes(lb_inbox')
  <2>1. ASSUME NEW k \in LBs
        PROVE  InputsOnce(lb_inbox'[k]) /\ \A i \in DOMAIN lb_inbox'[k] : lb_inbox'[k][i].task.lb = k
    <3>1. CASE k = l
      BY <1>2, <1>4, <1>5, <3>1
    <3>2. CASE k # l
      BY <1>1, <1>4, <3>2 DEF Mailboxes
    <3> QED
      BY <3>1, <3>2
  <2> QED
    BY <1>4, <2>1 DEF Mailboxes
<1>7. m.type = "input" => m.task \in Returned(l)
  BY <1>2 DEF Returned, q
<1>8. ASSUME NEW k \in LBs, NEW u
      PROVE  u \in Returned(k)' <=> u \in Returned(k) /\ ~(m.type = "input" /\ u = m.task)
  <2>1. m.type = "input" => (m.task \in Returned(k) => k = l)
    BY <1>1, <1>7, OnlyReturned
  <2>2. CASE k = l
    <3>1. u \in ComingBack(r) <=> u \in ComingBack(q) /\ ~(m.type = "input" /\ u = m.task)
      BY <1>2
    <3> QED
      BY <1>4, <2>2, <3>1 DEF Returned, q
  <2>3. CASE k # l
    BY <1>4, <2>1, <2>3 DEF Returned
  <2> QED
    BY <2>2, <2>3
<1>9. ASSUME NEW k \in LBs, NEW s \in Servers
      PROVE  Count(lb_inbox[k], ReleasesOf(s)) =
               Count(lb_inbox'[k], ReleasesOf(s))
               + IF m.type = "release" /\ m.server = s /\ k = l THEN 1 ELSE 0
  <2>1. Count(lb_inbox[k], ReleasesOf(s)) \in Nat
    BY <1>1, CountFinite
  <2>2. CASE k = l
    BY <1>2, <1>4, <2>2 DEF q
  <2>3. CASE k # l
    BY <1>4, <2>1, <2>3
  <2> QED
    BY <2>2, <2>3
<1> QED
  BY <1>2, <1>5, <1>6, <1>7, <1>8, <1>9 DEF Taken

LEMMA LBReceivePush ==
  ASSUME PushInv, NEW l \in LBs, LBReceive(l)
  PROVE  PushInv'
<1>2. PICK m : m = Head(lb_inbox[l])
  OBVIOUS
<1>1. /\ lb_inbox[l] # <<>>
      /\ lb_inbox' = [lb_inbox EXCEPT ![l] = Tail(@)]
      /\ Reroute(l, m) \/ Release(l, m)
      /\ UNCHANGED <<overflow, now, arrived, server, evicted, finished>>
  BY <1>2 DEF LBReceive
<1>3. /\ PushTypes /\ OnePlace /\ AllSomewhere /\ AtHome /\ Once /\ SlotsBusy /\ ReleaseAccounting
  BY DEF PushInv
<1>4. /\ m \in LBMessage /\ m.task.lb = l
      /\ Mailboxes(lb_inbox')
      /\ m.type = "input" => m.task \in Returned(l)
      /\ \A k \in LBs : \A u : u \in Returned(k)' <=>
           u \in Returned(k) /\ ~(m.type = "input" /\ u = m.task)
      /\ \A k \in LBs, s \in Servers :
           Count(lb_inbox[k], ReleasesOf(s)) =
             Count(lb_inbox'[k], ReleasesOf(s))
             + IF m.type = "release" /\ m.server = s /\ k = l THEN 1 ELSE 0
  <2>1. Taken(l, m)
    BY <1>1, <1>2, TakeMessage
  <2> QED
    BY <2>1 DEF Taken
<1>5. m.task \in Task /\ m.server \in Servers
  BY <1>4 DEF LBMessage
<1>6. /\ \A r \in Servers : Queued(r)' = Queued(r) /\ Running(r)' = Running(r)
      /\ Evicted' = Evicted
  BY <1>1 DEF Queued, Running, Evicted
<1>7. SlotsBusy' /\ lb_inbox' \in [LBs -> Seq(LBMessage)]
  BY <1>1, <1>3, <1>4 DEF SlotsBusy, Mailboxes
<1>8. \A r \in Servers : Orderly(server'[r])
  <2>1. \A r \in Servers : Orderly(server[r])
    BY <1>3, OrderlyNow
  <2> QED
    BY <1>1, <2>1
<1>9. ASSUME NEW k \in LBs, NEW r \in Servers
      PROVE  /\ local_inflight[k][r] =
                  Count(server_inbox[r], Of(k)) + Count(server[r].queue, Of(k))
                  + Cardinality(ServedFor(server[r], k)) + Cardinality(AwayFrom(evicted, r, k))
                  + Count(lb_inbox[k], ReleasesOf(r))
             /\ Count(server_inbox[r], Of(k)) \in Nat
             /\ Count(server[r].queue, Of(k)) \in Nat
             /\ Cardinality(ServedFor(server[r], k)) \in Nat
             /\ Cardinality(AwayFrom(evicted, r, k)) \in Nat
             /\ Count(lb_inbox[k], ReleasesOf(r)) \in Nat
             /\ Count(lb_inbox'[k], ReleasesOf(r)) \in Nat
  <2>1. lb_inbox'[k] \in Seq(LBMessage)
    BY <1>7
  <2>2. Count(lb_inbox'[k], ReleasesOf(r)) \in Nat
    BY <2>1, CountFinite
  <2> QED
    BY <1>3, <2>2, AccountingNow
<1>10. CASE Reroute(l, m)
  <2>t. PICK t : t = m.task
    OBVIOUS
  <2>1. m.type = "input" /\ Dispatch(l, t) /\ t \in Returned(l)
    BY <1>4, <1>10, <2>t DEF Reroute
  <2>2. t = m.task /\ t \in Task /\ t.lb = l
    BY <1>4, <1>5, <2>t
  <2>3. /\ t \in arrived
        /\ \A r \in Servers : t \notin Sent(r) /\ t \notin Queued(r) /\ t \notin Running(r)
        /\ t \notin Evicted /\ t \notin finished
    BY <1>3, <2>1, OnlyReturned
  <2>s. PICK s \in Subset[l] : SentTo(s, t)
    BY <2>1, <2>2, <2>3, DispatchTask
  <2>4. /\ s \in Servers
        /\ server_inbox' \in [Servers -> Seq(Task)]
        /\ local_inflight' \in [LBs -> [Servers -> Nat]]
        /\ \A r \in Servers : \A u :
             u \in Sent(r)' <=> IF u = t THEN <<"sent", s>> = <<"sent", r>> ELSE u \in Sent(r)
        /\ \A r \in Servers : NoDuplicates(server_inbox'[r])
        /\ \A k \in LBs, r \in Servers :
             /\ Count(server_inbox'[r], Of(k)) =
                  Count(server_inbox[r], Of(k)) + IF r = s /\ k = l THEN 1 ELSE 0
             /\ local_inflight'[k][r] =
                  local_inflight[k][r] + IF r = s /\ k = l THEN 1 ELSE 0
    BY <2>2, <2>s DEF SentTo
  <2>5. OnePlace' /\ AllSomewhere' /\ AtHome'
    <3>1. PICK p \in Place : p = <<"sent", s>>
      BY <2>4, Places
    <3>2. \A r \in Servers : \A u :
            /\ u \in Sent(r)' <=> IF u = t THEN p = <<"sent", r>> ELSE u \in Sent(r)
            /\ u \in Queued(r)' <=> IF u = t THEN p = <<"queued", r>> ELSE u \in Queued(r)
            /\ u \in Running(r)' <=> IF u = t THEN p = <<"running", r>> ELSE u \in Running(r)
      BY <1>6, <2>3, <2>4, <3>1
    <3>3. \A k \in LBs : \A u :
            u \in Returned(k)' <=> IF u = t THEN p = <<"returned", k>> ELSE u \in Returned(k)
      <4>1. \A k \in LBs : \A u : u \in Returned(k)' <=> u \in Returned(k) /\ u # t
        BY <1>4, <2>1, <2>2
      <4> QED
        BY <3>1, <4>1
    <3>4. \A u : u \in Evicted' <=> IF u = t THEN p = <<"evicted", "express">> ELSE u \in Evicted
      BY <1>6, <2>3, <3>1
    <3>5. \A u : u \in finished' <=> IF u = t THEN p = <<"finished", "sink">> ELSE u \in finished
      BY <1>1, <2>3, <3>1
    <3>6. \A r \in Servers :
            p = <<"sent", r>> \/ p = <<"queued", r>> \/ p = <<"running", r>> => r \in Subset[t.lb]
      BY <2>2, <2>4, <3>1
    <3>7. arrived' = arrived \cup {t}
      BY <1>1, <2>3
    <3> QED
      BY <1>3, <1>4, <3>2, <3>3, <3>4, <3>5, <3>6, <3>7, TaskMoves
  <2>6. PushTypes'
    BY <1>1, <1>3, <1>7, <2>4 DEF PushTypes
  <2>7. Once'
    BY <1>1, <1>3, <1>4, <1>8, <2>4, OnceNext DEF Once
  <2>8. ASSUME NEW k \in LBs, NEW r \in Servers
        PROVE  local_inflight'[k][r] =
                 Count(server_inbox'[r], Of(k)) + Count(server'[r].queue, Of(k))
                 + Cardinality(ServedFor(server'[r], k)) + Cardinality(AwayFrom(evicted', r, k))
                 + Count(lb_inbox'[k], ReleasesOf(r))
    <3>1. server' = server /\ evicted' = evicted
          /\ Count(lb_inbox[k], ReleasesOf(r)) = Count(lb_inbox'[k], ReleasesOf(r))
      <4>1. PICK a, b : a = Count(lb_inbox[k], ReleasesOf(r)) /\ b = Count(lb_inbox'[k], ReleasesOf(r))
        OBVIOUS
      <4>2. a = b + 0
        <5>1. m.type # "release"
          BY <2>1
        <5> QED
          BY <1>4, <4>1, <5>1
      <4>3. b \in Nat
        BY <1>9, <4>1
      <4> QED
        BY <1>1, <4>1, <4>2, <4>3
    <3>2. /\ Count(server_inbox'[r], Of(k)) =
               Count(server_inbox[r], Of(k)) + IF r = s /\ k = l THEN 1 ELSE 0
          /\ local_inflight'[k][r] =
               local_inflight[k][r] + IF r = s /\ k = l THEN 1 ELSE 0
      BY <2>4
    <3> QED
      BY <1>9, <3>1, <3>2
  <2>9. ReleaseAccounting'
    BY <2>6, <2>8, AccountingNext
  <2> QED
    BY <1>7, <2>5, <2>6, <2>7, <2>9 DEF PushInv
<1>11. CASE Release(l, m)
  <2> DEFINE s == m.server
  <2>1. /\ m.type = "release" /\ server_inbox' = server_inbox
        /\ local_inflight' =
             [local_inflight EXCEPT ![l][s] = IF @ = 0 THEN 0 ELSE @ - 1]
    BY <1>11 DEF Release
  <2>2. s \in Servers /\ s = m.server
    BY <1>5
  <2> HIDE DEF s
  <2>3. local_inflight \in [LBs -> [Servers -> Nat]]
    BY <1>3 DEF PushTypes
  <2>4. /\ local_inflight' \in [LBs -> [Servers -> Nat]]
        /\ \A k \in LBs, r \in Servers :
             local_inflight'[k][r] =
               IF k = l /\ r = s
               THEN IF local_inflight[k][r] = 0 THEN 0 ELSE local_inflight[k][r] - 1
               ELSE local_inflight[k][r]
    <3> DEFINE n == IF local_inflight[l][s] = 0 THEN 0 ELSE local_inflight[l][s] - 1
    <3>1. n \in Nat
      BY <2>2, <2>3
    <3>2. local_inflight' = [local_inflight EXCEPT ![l][s] = n]
      BY <2>1
    <3> HIDE DEF n
    <3>3. /\ local_inflight' \in [LBs -> [Servers -> Nat]]
          /\ \A k \in LBs, r \in Servers :
               local_inflight'[k][r] = IF k = l /\ r = s THEN n ELSE local_inflight[k][r]
      BY <2>2, <2>3, <3>1, <3>2
    <3> QED
      BY <3>3 DEF n
  <2>5. OnePlace' /\ AllSomewhere' /\ AtHome'
    <3>1. \A r \in Servers : Sent(r)' = Sent(r)
      BY <2>1 DEF Sent
    <3>2. \A k \in LBs : \A u : u \in Returned(k)' <=> u \in Returned(k)
      BY <1>4, <2>1
    <3> QED
      BY <1>1, <1>3, <1>4, <1>6, <3>1, <3>2, TasksStay
  <2>6. PushTypes'
    BY <1>1, <1>3, <1>7, <2>1, <2>4 DEF PushTypes
  <2>7. Once'
    BY <1>1, <1>3, <1>4, <1>8, <2>1, OnceNext DEF Once
  <2>8. ASSUME NEW k \in LBs, NEW r \in Servers
        PROVE  local_inflight'[k][r] =
                 Count(server_inbox'[r], Of(k)) + Count(server'[r].queue, Of(k))
                 + Cardinality(ServedFor(server'[r], k)) + Cardinality(AwayFrom(evicted', r, k))
                 + Count(lb_inbox'[k], ReleasesOf(r))
    <3>1. /\ server' = server /\ evicted' = evicted /\ server_inbox' = server_inbox
          /\ Count(lb_inbox[k], ReleasesOf(r)) =
               Count(lb_inbox'[k], ReleasesOf(r)) + IF k = l /\ r = s THEN 1 ELSE 0
      BY <1>1, <1>4, <2>1, <2>2
    <3> QED
      BY <1>9, <2>4, <3>1
  <2>9. ReleaseAccounting'
    BY <2>6, <2>8, AccountingNext
  <2> QED
    BY <1>7, <2>5, <2>6, <2>7, <2>9 DEF PushInv
<1> QED
  BY <1>1, <1>10, <1>11

(* A server that takes a task: it was on the way to it and is nowhere else. *)
LEMMA InputTask ==
  ASSUME PushInv, NEW s \in Servers, ServerInput(s), NEW t, t = Head(server_inbox[s])
  PROVE  /\ TaskTaken(s, t) /\ t \in Task /\ t \in arrived /\ s \in Subset[t.lb]
         /\ \A r \in Servers : t \notin Queued(r) /\ t \notin Running(r)
         /\ \A l \in LBs : t \notin Returned(l)
         /\ t \notin Evicted /\ t \notin finished
<1>1. TaskTaken(s, t)
  BY TakeTask DEF ServerInput
<1>2. t \in Task /\ t \in Sent(s) /\ OnePlace /\ AllSomewhere /\ AtHome
  BY <1>1 DEF TaskTaken, PushInv
<1> QED
  BY <1>1, <1>2, OnlySent DEF AtHome

(* It starts the task at once. *)
LEMMA InputStartsPush ==
  ASSUME PushInv, NEW s \in Servers, ServerInput(s),
         NEW t, t = Head(server_inbox[s]),
         HasSlot(server[s]),
         server' = [server EXCEPT ![s] = BeginService(@, t)],
         UNCHANGED <<lb_inbox, evicted>>
  PROVE  PushInv'
<1>1. /\ TaskTaken(s, t) /\ t \in Task /\ t \in arrived /\ s \in Subset[t.lb]
      /\ \A r \in Servers : t \notin Queued(r) /\ t \notin Running(r)
      /\ \A l \in LBs : t \notin Returned(l)
      /\ t \notin Evicted /\ t \notin finished
  BY InputTask
<1>2. /\ PushTypes /\ OnePlace /\ AllSomewhere /\ AtHome /\ Once /\ SlotsBusy /\ ReleaseAccounting
      /\ now \in Nat
  BY DEF PushInv, PushTypes
<1>3. UNCHANGED <<overflow, now, arrived, local_inflight, finished>>
  BY DEF ServerInput
<1>4. PICK v, w : v = server[s] /\ w = BeginService(v, t)
  OBVIOUS
<1>5. PICK c : c = CompletionOf(v, t)
  OBVIOUS
<1>6. Orderly(v) /\ v \in ServerState /\ v.in_flight < MaxConcurrency
  BY <1>2, <1>4, OrderlyNow DEF Orderly, HasSlot
<1>7. /\ w \in ServerState /\ w.queue = v.queue /\ w.in_flight = v.in_flight + 1
      /\ w.completions = v.completions \cup {c}
  <2>1. ServiceBegun(v, t, w)
    BY <1>1, <1>2, <1>4, <1>6, BeginServiceProperties
  <2> QED
    BY <1>5, <2>1 DEF ServiceBegun
<1>8. c.task = t /\ c.task \notin InService(v) /\ ServesOnce(v)
  BY <1>1, <1>4, <1>5, <1>6 DEF CompletionOf, Running, InService, ServesOnce, Orderly
<1>o. OneMore(v, c, w)
  BY <1>7, <1>8, OneMoreService
<1>9. /\ IsFiniteSet(w.completions)
      /\ Cardinality(w.completions) = Cardinality(v.completions) + 1
      /\ \A d, e \in w.completions : d.task = e.task => d = e
      /\ \A u : u \in {d.task : d \in w.completions} <=>
                  u = c.task \/ u \in {d.task : d \in v.completions}
      /\ \A l : Cardinality(ServedFor(w, l)) =
                  Cardinality(ServedFor(v, l)) + IF c.task.lb = l THEN 1 ELSE 0
  BY <1>o DEF OneMore, ServesOnce, InService
<1>10. Orderly(w)
  <2>1. v.in_flight \in Nat /\ MaxConcurrency \in Nat
    BY <1>6, PushDispatchAssumption DEF ServerState
  <2>2. v.queue = <<>>
    BY <1>6, <2>1 DEF Orderly
  <2>3. w.in_flight <= MaxConcurrency
    BY <1>6, <1>7, <2>1
  <2> QED
    BY <1>6, <1>7, <1>9, <2>2, <2>3 DEF Orderly
<1>11. server' = [server EXCEPT ![s] = w]
  BY <1>4
<1>12. /\ server' \in [Servers -> ServerState] /\ server'[s] = w
       /\ \A r \in Servers : r # s => server'[r] = server[r]
       /\ \A u : u \in Queued(s)' <=> u \in Elements(w.queue)
       /\ \A u : u \in Running(s)' <=> u \in {d.task : d \in w.completions}
       /\ \A r \in Servers : \A u :
            r # s => /\ u \in Queued(r)' <=> u \in Queued(r)
                     /\ u \in Running(r)' <=> u \in Running(r)
       /\ \A r \in Servers : Orderly(server'[r])
       /\ SlotsBusy'
  BY <1>10, <1>11, ServerChanges
<1>13. Mailboxes(lb_inbox')
  BY <1>2, CurrentMailboxes
<1>14. OnePlace' /\ AllSomewhere' /\ AtHome'
  <2>1. PICK p \in Place : p = <<"running", s>>
    BY Places
  <2>2. ASSUME NEW r \in Servers, NEW u
        PROVE  /\ u \in Sent(r)' <=> IF u = t THEN p = <<"sent", r>> ELSE u \in Sent(r)
               /\ u \in Queued(r)' <=> IF u = t THEN p = <<"queued", r>> ELSE u \in Queued(r)
               /\ u \in Running(r)' <=> IF u = t THEN p = <<"running", r>> ELSE u \in Running(r)
    <3>1. u \in Sent(r)' <=> u # t /\ u \in Sent(r)
      BY <1>1 DEF TaskTaken
    <3>2. u \in Queued(r)' <=> u \in Queued(r)
      BY <1>4, <1>7, <1>12 DEF Queued
    <3>3. u \in Running(r)' <=> u \in Running(r) \/ (u = t /\ r = s)
      BY <1>4, <1>8, <1>9, <1>12 DEF Running
    <3>4. t \notin Queued(r) /\ t \notin Running(r)
      BY <1>1
    <3> QED
      BY <2>1, <3>1, <3>2, <3>3, <3>4
  <2>3. \A k \in LBs : \A u :
          u \in Returned(k)' <=> IF u = t THEN p = <<"returned", k>> ELSE u \in Returned(k)
    BY <1>1, <2>1 DEF Returned
  <2>4. \A u : u \in Evicted' <=> IF u = t THEN p = <<"evicted", "express">> ELSE u \in Evicted
    BY <1>1, <2>1 DEF Evicted
  <2>5. \A u : u \in finished' <=> IF u = t THEN p = <<"finished", "sink">> ELSE u \in finished
    BY <1>1, <1>3, <2>1
  <2>6. \A r \in Servers :
          p = <<"sent", r>> \/ p = <<"queued", r>> \/ p = <<"running", r>> => r \in Subset[t.lb]
    BY <1>1, <2>1
  <2>7. arrived' = arrived \cup {t}
    BY <1>1, <1>3
  <2> QED
    BY <1>2, <1>13, <2>2, <2>3, <2>4, <2>5, <2>6, <2>7, TaskMoves
<1>15. PushTypes'
  BY <1>1, <1>2, <1>3, <1>12 DEF PushTypes, TaskTaken
<1>16. Once'
  BY <1>1, <1>2, <1>12, <1>13, OnceNext DEF TaskTaken, Once
<1>17. ASSUME NEW k \in LBs, NEW r \in Servers
       PROVE  local_inflight'[k][r] =
                Count(server_inbox'[r], Of(k)) + Count(server'[r].queue, Of(k))
                + Cardinality(ServedFor(server'[r], k)) + Cardinality(AwayFrom(evicted', r, k))
                + Count(lb_inbox'[k], ReleasesOf(r))
  <2>1. /\ local_inflight[k][r] =
             Count(server_inbox[r], Of(k)) + Count(server[r].queue, Of(k))
             + Cardinality(ServedFor(server[r], k)) + Cardinality(AwayFrom(evicted, r, k))
             + Count(lb_inbox[k], ReleasesOf(r))
        /\ Count(server_inbox[r], Of(k)) \in Nat
        /\ Count(server[r].queue, Of(k)) \in Nat
        /\ Cardinality(ServedFor(server[r], k)) \in Nat
        /\ Cardinality(AwayFrom(evicted, r, k)) \in Nat
        /\ Count(lb_inbox[k], ReleasesOf(r)) \in Nat
    BY <1>2, AccountingNow
  <2>2. /\ Count(server_inbox[r], Of(k)) =
             Count(server_inbox'[r], Of(k)) + IF r = s /\ t.lb = k THEN 1 ELSE 0
        /\ Count(server_inbox'[r], Of(k)) \in Nat
    <3>1. server_inbox'[r] \in Seq(Task)
      BY <1>1 DEF TaskTaken
    <3> QED
      BY <1>1, <3>1, CountFinite DEF TaskTaken
  <2>3. server'[r].queue = server[r].queue
    BY <1>4, <1>7, <1>12
  <2>4. Cardinality(ServedFor(server'[r], k)) =
          Cardinality(ServedFor(server[r], k)) + IF r = s /\ t.lb = k THEN 1 ELSE 0
    <3>1. CASE r = s
      BY <1>4, <1>8, <1>9, <1>12, <3>1
    <3>2. CASE r # s
      <4>1. server'[r] = server[r]
        BY <1>12, <3>2
      <4> QED
        BY <2>1, <3>2, <4>1
    <3> QED
      BY <3>1, <3>2
  <2>5. evicted' = evicted /\ lb_inbox' = lb_inbox /\ local_inflight' = local_inflight
    BY <1>3
  <2> QED
    BY <2>1, <2>2, <2>3, <2>4, <2>5
<1>18. ReleaseAccounting'
  BY <1>15, <1>17, AccountingNext
<1> QED
  BY <1>12, <1>14, <1>15, <1>16, <1>18 DEF PushInv

(* It gives the task up. *)
LEMMA InputForwardsPush ==
  ASSUME PushInv, NEW s \in Servers, ServerInput(s),
         NEW t, t = Head(server_inbox[s]),
         Forward(s, t), UNCHANGED server
  PROVE  PushInv'
<1>1. /\ TaskTaken(s, t) /\ t \in Task /\ t \in arrived /\ s \in Subset[t.lb]
      /\ \A r \in Servers : t \notin Queued(r) /\ t \notin Running(r)
      /\ \A l \in LBs : t \notin Returned(l)
      /\ t \notin Evicted /\ t \notin finished
  BY InputTask
<1>2. /\ PushTypes /\ OnePlace /\ AllSomewhere /\ AtHome /\ Once /\ SlotsBusy /\ ReleaseAccounting
  BY DEF PushInv
<1>3. UNCHANGED <<overflow, now, arrived, local_inflight, finished>>
  BY DEF ServerInput
<1>4. PICK p \in Place : HandedOver(s, t, p)
  BY <1>1, ForwardTask
<1>5. \A r \in Servers : Orderly(server'[r])
  <2>1. \A r \in Servers : Orderly(server[r])
    BY <1>2, OrderlyNow
  <2> QED
    BY <2>1
<1>6. OnePlace' /\ AllSomewhere' /\ AtHome'
  <2>1. ASSUME NEW r \in Servers, NEW u
        PROVE  /\ u \in Sent(r)' <=> IF u = t THEN p = <<"sent", r>> ELSE u \in Sent(r)
               /\ u \in Queued(r)' <=> IF u = t THEN p = <<"queued", r>> ELSE u \in Queued(r)
               /\ u \in Running(r)' <=> IF u = t THEN p = <<"running", r>> ELSE u \in Running(r)
    <3>1. p # <<"sent", r>> /\ p # <<"queued", r>> /\ p # <<"running", r>>
      BY <1>4 DEF HandedOver
    <3>2. u \in Sent(r)' <=> u # t /\ u \in Sent(r)
      BY <1>1 DEF TaskTaken
    <3>3. Queued(r)' = Queued(r) /\ Running(r)' = Running(r)
      BY DEF Queued, Running
    <3> QED
      BY <1>1, <3>1, <3>2, <3>3
  <2>2. /\ \A k \in LBs : \A u :
             u \in Returned(k)' <=> IF u = t THEN p = <<"returned", k>> ELSE u \in Returned(k)
        /\ \A u : u \in Evicted' <=>
             IF u = t THEN p = <<"evicted", "express">> ELSE u \in Evicted
        /\ Mailboxes(lb_inbox')
    BY <1>4 DEF HandedOver
  <2>3. \A u : u \in finished' <=> IF u = t THEN p = <<"finished", "sink">> ELSE u \in finished
    <3>1. p # <<"finished", "sink">>
      BY <1>4 DEF HandedOver
    <3> QED
      BY <1>1, <1>3, <3>1
  <2>4. \A r \in Servers :
          p = <<"sent", r>> \/ p = <<"queued", r>> \/ p = <<"running", r>> => r \in Subset[t.lb]
    BY <1>4 DEF HandedOver
  <2>5. arrived' = arrived \cup {t}
    BY <1>1, <1>3
  <2> QED
    BY <1>2, <2>1, <2>2, <2>3, <2>4, <2>5, TaskMoves
<1>7. PushTypes'
  BY <1>1, <1>2, <1>3, <1>4 DEF PushTypes, TaskTaken, HandedOver, Mailboxes
<1>8. Once' /\ SlotsBusy'
  <2>1. Once'
    BY <1>1, <1>4, <1>5, OnceNext DEF TaskTaken, HandedOver
  <2> QED
    BY <1>2, <2>1 DEF SlotsBusy
<1>9. ASSUME NEW k \in LBs, NEW r \in Servers
      PROVE  local_inflight'[k][r] =
               Count(server_inbox'[r], Of(k)) + Count(server'[r].queue, Of(k))
               + Cardinality(ServedFor(server'[r], k)) + Cardinality(AwayFrom(evicted', r, k))
               + Count(lb_inbox'[k], ReleasesOf(r))
  <2>1. /\ local_inflight[k][r] =
             Count(server_inbox[r], Of(k)) + Count(server[r].queue, Of(k))
             + Cardinality(ServedFor(server[r], k)) + Cardinality(AwayFrom(evicted, r, k))
             + Count(lb_inbox[k], ReleasesOf(r))
        /\ Count(server_inbox[r], Of(k)) \in Nat
        /\ Count(server[r].queue, Of(k)) \in Nat
        /\ Cardinality(ServedFor(server[r], k)) \in Nat
        /\ Cardinality(AwayFrom(evicted, r, k)) \in Nat
        /\ Count(lb_inbox[k], ReleasesOf(r)) \in Nat
    BY <1>2, AccountingNow
  <2>2. /\ Count(server_inbox[r], Of(k)) =
             Count(server_inbox'[r], Of(k)) + IF r = s /\ t.lb = k THEN 1 ELSE 0
        /\ Count(server_inbox'[r], Of(k)) \in Nat
    <3>1. server_inbox'[r] \in Seq(Task)
      BY <1>1 DEF TaskTaken
    <3> QED
      BY <1>1, <3>1, CountFinite DEF TaskTaken
  <2>3. /\ Cardinality(AwayFrom(evicted', r, k)) + Count(lb_inbox'[k], ReleasesOf(r)) =
             Cardinality(AwayFrom(evicted, r, k)) + Count(lb_inbox[k], ReleasesOf(r))
             + IF r = s /\ t.lb = k THEN 1 ELSE 0
        /\ Cardinality(AwayFrom(evicted', r, k)) \in Nat
        /\ Count(lb_inbox'[k], ReleasesOf(r)) \in Nat
    <3>1. lb_inbox'[k] \in Seq(LBMessage) /\ IsFiniteSet(evicted')
      BY <1>4 DEF HandedOver, Mailboxes
    <3>2. IsFiniteSet(AwayFrom(evicted', r, k))
      BY <3>1, FS_Subset DEF AwayFrom
    <3> QED
      BY <1>4, <3>1, <3>2, CountFinite, FS_CardinalityType DEF HandedOver
  <2>4. server' = server /\ local_inflight' = local_inflight
    BY <1>3
  <2> QED
    BY <2>1, <2>2, <2>3, <2>4
<1>10. ReleaseAccounting'
  BY <1>7, <1>9, AccountingNext
<1> QED
  BY <1>6, <1>7, <1>8, <1>10 DEF PushInv

(* It queues the task, with a timer or without. *)
TimerOf(v, t) ==
  [start |-> t.start, lb |-> t.lb, at |-> now + DelayThreshold, nth |-> v.scheduled]

TaskQueued(v, t, w) ==
  /\ w \in ServerState
  /\ w.queue = Append(v.queue, t)
  /\ w.in_flight = v.in_flight /\ w.completions = v.completions
  /\ \/ w.pending = v.pending /\ w.timers = v.timers
     \/ /\ w.pending = Append(v.pending, TimerOf(v, t))
        /\ w.timers = v.timers \cup {TimerOf(v, t)}

LEMMA TimerOfType ==
  ASSUME NEW v \in ServerState, NEW t \in Task, now \in Nat
  PROVE  /\ TimerOf(v, t) \in Timer
         /\ TimerOf(v, t).start = t.start /\ TimerOf(v, t).lb = t.lb
         /\ TimerOf(v, t).at > now /\ TimerOf(v, t).at \in Nat
<1>1. t.start \in 1 .. Horizon /\ t.lb \in LBs
  BY DEF Task
<1>2. DelayThreshold \in Nat /\ DelayThreshold # 0
  BY PushDispatchAssumption
<1>3. now + DelayThreshold \in Nat /\ now + DelayThreshold > now
  BY <1>2
<1>4. v.scheduled \in Nat
  BY DEF ServerState
<1> QED
  BY <1>1, <1>3, <1>4 DEF TimerOf, Timer

LEMMA QueueTask ==
  ASSUME NEW v \in ServerState, NEW t \in Task, now \in Nat,
         NEW u, u = [v EXCEPT !.queue = Append(@, t)],
         NEW w, w = IF GivesUpLater(u) THEN SetTimer(u, t) ELSE u
  PROVE  TaskQueued(v, t, w)
<1>1. v.queue \in Seq(Task) /\ Append(v.queue, t) \in Seq(Task)
  BY PushBack DEF ServerState
<1>2. /\ u \in ServerState /\ u.queue = Append(v.queue, t)
      /\ u.in_flight = v.in_flight /\ u.completions = v.completions
      /\ u.pending = v.pending /\ u.timers = v.timers /\ u.scheduled = v.scheduled
  BY <1>1 DEF ServerState
<1>3. CASE w = u
  BY <1>2, <1>3 DEF TaskQueued
<1>4. CASE w = SetTimer(u, t)
  <2>1. PICK e : e = TimerOf(v, t)
    OBVIOUS
  <2>2. e \in Timer
    BY <2>1, TimerOfType
  <2>3. w = [u EXCEPT !.pending = Append(@, e), !.timers = @ \cup {e}, !.scheduled = @ + 1]
    BY <1>2, <1>4, <2>1 DEF SetTimer, TimerOf
  <2>4. /\ u.pending \in Seq(Timer) /\ Append(u.pending, e) \in Seq(Timer)
        /\ u.timers \cup {e} \in SUBSET Timer
        /\ u.scheduled + 1 \in Nat
    <3>1. u.pending \in Seq(Timer) /\ u.timers \subseteq Timer /\ u.scheduled \in Nat
      BY <1>2 DEF ServerState
    <3> QED
      BY <2>2, <3>1, PushBack
  <2>5. /\ w \in ServerState /\ w.queue = u.queue /\ w.in_flight = u.in_flight
        /\ w.completions = u.completions
        /\ w.pending = Append(u.pending, e) /\ w.timers = u.timers \cup {e}
    <3> DEFINE q == Append(u.pending, e)
               T == u.timers \cup {e}
               n == u.scheduled + 1
    <3>1. w = [u EXCEPT !.pending = q, !.timers = T, !.scheduled = n]
      BY <2>3
    <3> HIDE DEF q, T, n
    <3>2. /\ w \in ServerState /\ w.queue = u.queue /\ w.in_flight = u.in_flight
          /\ w.completions = u.completions /\ w.pending = q /\ w.timers = T
      BY <1>2, <2>4, <3>1 DEF ServerState, q, T, n
    <3> QED
      BY <3>2 DEF q, T
  <2> QED
    BY <1>2, <2>1, <2>5 DEF TaskQueued
<1> QED
  BY <1>3, <1>4

LEMMA InputQueuesPush ==
  ASSUME PushInv, NEW s \in Servers, ServerInput(s),
         NEW t, t = Head(server_inbox[s]),
         ~HasSlot(server[s]),
         NEW w, TaskQueued(server[s], t, w),
         server' = [server EXCEPT ![s] = w],
         UNCHANGED <<lb_inbox, evicted>>
  PROVE  PushInv'
<1>1. /\ TaskTaken(s, t) /\ t \in Task /\ t \in arrived /\ s \in Subset[t.lb]
      /\ \A r \in Servers : t \notin Queued(r) /\ t \notin Running(r)
      /\ \A l \in LBs : t \notin Returned(l)
      /\ t \notin Evicted /\ t \notin finished
  BY InputTask
<1>2. /\ PushTypes /\ OnePlace /\ AllSomewhere /\ AtHome /\ Once /\ SlotsBusy /\ ReleaseAccounting
  BY DEF PushInv
<1>3. UNCHANGED <<overflow, now, arrived, local_inflight, finished>>
  BY DEF ServerInput
<1>4. PICK v : v = server[s]
  OBVIOUS
<1>5. /\ Orderly(v) /\ v \in ServerState /\ v.in_flight = MaxConcurrency
      /\ v.queue \in Seq(Task)
  <2>1. Orderly(v) /\ ~(v.in_flight < MaxConcurrency)
    BY <1>2, <1>4, OrderlyNow DEF HasSlot
  <2>2. v.in_flight \in Nat /\ MaxConcurrency \in Nat
    BY <2>1, PushDispatchAssumption DEF Orderly, ServerState
  <2> QED
    BY <2>1, <2>2 DEF Orderly, ServerState
<1>6. /\ w \in ServerState /\ w.queue = Append(v.queue, t) /\ w.in_flight = v.in_flight
      /\ w.completions = v.completions
  BY <1>4 DEF TaskQueued
<1>7. /\ Elements(w.queue) = Elements(v.queue) \cup {t} /\ NoDuplicates(w.queue)
      /\ \A k \in LBs : Count(w.queue, Of(k)) = Count(v.queue, Of(k)) + IF t.lb = k THEN 1 ELSE 0
  <2>1. NoDuplicates(v.queue) /\ t \notin Elements(v.queue)
    BY <1>1, <1>4, <1>5 DEF Orderly, Queued
  <2>2. Elements(w.queue) = Elements(v.queue) \cup {t} /\ NoDuplicates(w.queue)
    BY <1>1, <1>5, <1>6, <2>1, PushBack, PushBackNew
  <2>3. ASSUME NEW k \in LBs
        PROVE  Count(w.queue, Of(k)) = Count(v.queue, Of(k)) + IF t.lb = k THEN 1 ELSE 0
    <3>1. t \in Of(k) <=> t.lb = k
      BY <1>1 DEF Of
    <3>2. Count(w.queue, Of(k)) = Count(v.queue, Of(k)) + IF t \in Of(k) THEN 1 ELSE 0
      BY <1>1, <1>5, <1>6, CountPushBack
    <3> QED
      BY <3>1, <3>2
  <2> QED
    BY <2>2, <2>3
<1>8. Orderly(w)
  BY <1>5, <1>6, <1>7 DEF Orderly
<1>9. /\ server' \in [Servers -> ServerState] /\ server'[s] = w
      /\ \A r \in Servers : r # s => server'[r] = server[r]
      /\ \A u : u \in Queued(s)' <=> u \in Elements(w.queue)
      /\ \A u : u \in Running(s)' <=> u \in {d.task : d \in w.completions}
      /\ \A r \in Servers : \A u :
           r # s => /\ u \in Queued(r)' <=> u \in Queued(r)
                    /\ u \in Running(r)' <=> u \in Running(r)
      /\ \A r \in Servers : Orderly(server'[r])
      /\ SlotsBusy'
  BY <1>8, ServerChanges
<1>10. Mailboxes(lb_inbox')
  BY <1>2, CurrentMailboxes
<1>11. OnePlace' /\ AllSomewhere' /\ AtHome'
  <2>1. PICK p \in Place : p = <<"queued", s>>
    BY Places
  <2>2. ASSUME NEW r \in Servers, NEW u
        PROVE  /\ u \in Sent(r)' <=> IF u = t THEN p = <<"sent", r>> ELSE u \in Sent(r)
               /\ u \in Queued(r)' <=> IF u = t THEN p = <<"queued", r>> ELSE u \in Queued(r)
               /\ u \in Running(r)' <=> IF u = t THEN p = <<"running", r>> ELSE u \in Running(r)
    <3>1. u \in Sent(r)' <=> u # t /\ u \in Sent(r)
      BY <1>1 DEF TaskTaken
    <3>2. u \in Queued(r)' <=> u \in Queued(r) \/ (u = t /\ r = s)
      BY <1>4, <1>7, <1>9 DEF Queued
    <3>3. u \in Running(r)' <=> u \in Running(r)
      BY <1>4, <1>6, <1>9 DEF Running
    <3>4. t \notin Queued(r) /\ t \notin Running(r)
      BY <1>1
    <3> QED
      BY <2>1, <3>1, <3>2, <3>3, <3>4
  <2>3. \A k \in LBs : \A u :
          u \in Returned(k)' <=> IF u = t THEN p = <<"returned", k>> ELSE u \in Returned(k)
    BY <1>1, <2>1 DEF Returned
  <2>4. \A u : u \in Evicted' <=> IF u = t THEN p = <<"evicted", "express">> ELSE u \in Evicted
    BY <1>1, <2>1 DEF Evicted
  <2>5. \A u : u \in finished' <=> IF u = t THEN p = <<"finished", "sink">> ELSE u \in finished
    BY <1>1, <1>3, <2>1
  <2>6. \A r \in Servers :
          p = <<"sent", r>> \/ p = <<"queued", r>> \/ p = <<"running", r>> => r \in Subset[t.lb]
    BY <1>1, <2>1
  <2>7. arrived' = arrived \cup {t}
    BY <1>1, <1>3
  <2> QED
    BY <1>2, <1>10, <2>2, <2>3, <2>4, <2>5, <2>6, <2>7, TaskMoves
<1>12. PushTypes'
  BY <1>1, <1>2, <1>3, <1>9 DEF PushTypes, TaskTaken
<1>13. Once'
  BY <1>1, <1>2, <1>9, <1>10, OnceNext DEF TaskTaken, Once
<1>14. ASSUME NEW k \in LBs, NEW r \in Servers
       PROVE  local_inflight'[k][r] =
                Count(server_inbox'[r], Of(k)) + Count(server'[r].queue, Of(k))
                + Cardinality(ServedFor(server'[r], k)) + Cardinality(AwayFrom(evicted', r, k))
                + Count(lb_inbox'[k], ReleasesOf(r))
  <2>1. /\ local_inflight[k][r] =
             Count(server_inbox[r], Of(k)) + Count(server[r].queue, Of(k))
             + Cardinality(ServedFor(server[r], k)) + Cardinality(AwayFrom(evicted, r, k))
             + Count(lb_inbox[k], ReleasesOf(r))
        /\ Count(server_inbox[r], Of(k)) \in Nat
        /\ Count(server[r].queue, Of(k)) \in Nat
        /\ Cardinality(ServedFor(server[r], k)) \in Nat
        /\ Cardinality(AwayFrom(evicted, r, k)) \in Nat
        /\ Count(lb_inbox[k], ReleasesOf(r)) \in Nat
    BY <1>2, AccountingNow
  <2>2. /\ Count(server_inbox[r], Of(k)) =
             Count(server_inbox'[r], Of(k)) + IF r = s /\ t.lb = k THEN 1 ELSE 0
        /\ Count(server_inbox'[r], Of(k)) \in Nat
    <3>1. server_inbox'[r] \in Seq(Task)
      BY <1>1 DEF TaskTaken
    <3> QED
      BY <1>1, <3>1, CountFinite DEF TaskTaken
  <2>3. ServedFor(server'[r], k) = ServedFor(server[r], k)
    BY <1>4, <1>6, <1>9 DEF ServedFor
  <2>4. Count(server'[r].queue, Of(k)) =
          Count(server[r].queue, Of(k)) + IF r = s /\ t.lb = k THEN 1 ELSE 0
    <3>1. CASE r = s
      BY <1>4, <1>7, <1>9, <3>1
    <3>2. CASE r # s
      <4>1. server'[r] = server[r]
        BY <1>9, <3>2
      <4> QED
        BY <2>1, <3>2, <4>1
    <3> QED
      BY <3>1, <3>2
  <2>5. evicted' = evicted /\ lb_inbox' = lb_inbox /\ local_inflight' = local_inflight
    BY <1>3
  <2> QED
    BY <2>1, <2>2, <2>3, <2>4, <2>5
<1>15. ReleaseAccounting'
  BY <1>12, <1>14, AccountingNext
<1> QED
  BY <1>9, <1>11, <1>12, <1>13, <1>15 DEF PushInv

(* The three ways a server takes a task. *)
LEMMA InputCases ==
  ASSUME PushInv, NEW s \in Servers, ServerInput(s), NEW t, t = Head(server_inbox[s])
  PROVE  \/ /\ HasSlot(server[s])
            /\ server' = [server EXCEPT ![s] = BeginService(@, t)]
            /\ UNCHANGED <<lb_inbox, evicted>>
         \/ /\ Forward(s, t)
            /\ UNCHANGED server
         \/ /\ ~HasSlot(server[s])
            /\ UNCHANGED <<lb_inbox, evicted>>
            /\ \E w : TaskQueued(server[s], t, w) /\ server' = [server EXCEPT ![s] = w]
<1>1. PICK u : u = [server[s] EXCEPT !.queue = Append(@, t)]
  OBVIOUS
<1>2. \/ /\ HasSlot(server[s])
         /\ server' = [server EXCEPT ![s] = BeginService(@, t)]
         /\ UNCHANGED <<lb_inbox, evicted>>
      \/ /\ Forward(s, t)
         /\ UNCHANGED server
      \/ /\ ~HasSlot(server[s])
         /\ server' = [server EXCEPT ![s] = IF GivesUpLater(u) THEN SetTimer(u, t) ELSE u]
         /\ UNCHANGED <<lb_inbox, evicted>>
  BY <1>1 DEF ServerInput
<1>3. CASE /\ ~HasSlot(server[s])
           /\ server' = [server EXCEPT ![s] = IF GivesUpLater(u) THEN SetTimer(u, t) ELSE u]
           /\ UNCHANGED <<lb_inbox, evicted>>
  <2>1. PICK w : w = IF GivesUpLater(u) THEN SetTimer(u, t) ELSE u
    OBVIOUS
  <2>2. t \in Task /\ server[s] \in ServerState /\ now \in Nat
    BY InputTask DEF PushInv, PushTypes
  <2>3. TaskQueued(server[s], t, w)
    BY <1>1, <2>1, <2>2, QueueTask
  <2>4. server' = [server EXCEPT ![s] = w]
    BY <1>3, <2>1
  <2> QED
    BY <1>3, <2>3, <2>4
<1> QED
  BY <1>2, <1>3

LEMMA ServerInputPush ==
  ASSUME PushInv, NEW s \in Servers, ServerInput(s)
  PROVE  PushInv'
<1>1. PICK t : t = Head(server_inbox[s])
  OBVIOUS
<1>2. CASE /\ HasSlot(server[s])
           /\ server' = [server EXCEPT ![s] = BeginService(@, t)]
           /\ UNCHANGED <<lb_inbox, evicted>>
  BY <1>1, <1>2, InputStartsPush
<1>3. CASE Forward(s, t) /\ UNCHANGED server
  BY <1>1, <1>3, InputForwardsPush
<1>4. ASSUME ~HasSlot(server[s]), UNCHANGED <<lb_inbox, evicted>>,
             NEW w, TaskQueued(server[s], t, w), server' = [server EXCEPT ![s] = w]
      PROVE  PushInv'
  BY <1>1, <1>4, InputQueuesPush
<1>5. \/ /\ HasSlot(server[s])
         /\ server' = [server EXCEPT ![s] = BeginService(@, t)]
         /\ UNCHANGED <<lb_inbox, evicted>>
      \/ /\ Forward(s, t)
         /\ UNCHANGED server
      \/ /\ ~HasSlot(server[s])
         /\ UNCHANGED <<lb_inbox, evicted>>
         /\ \E w : TaskQueued(server[s], t, w) /\ server' = [server EXCEPT ![s] = w]
  BY <1>1, InputCases
<1> QED
  BY <1>2, <1>3, <1>4, <1>5

(* The server without the timer that fires, and without the task it takes away. *)
TimerGone(v, timer, w) ==
  /\ w \in ServerState
  /\ w.queue = v.queue /\ w.in_flight = v.in_flight /\ w.completions = v.completions
  /\ w.timers = v.timers \ {timer} /\ w.pending = Retain(v.pending, timer.start)

TaskGone(v, timer, i, w) ==
  /\ i \in DOMAIN v.queue /\ v.queue[i].start = timer.start
  /\ w \in ServerState
  /\ w.queue = RemoveAt(v.queue, i) /\ w.in_flight = v.in_flight /\ w.completions = v.completions
  /\ w.timers = v.timers \ {timer} /\ w.pending = Retain(v.pending, timer.start)

LEMMA TimerCases ==
  ASSUME PushInv, NEW s \in Servers, NEW timer \in server[s].timers, TimerFires(s, timer)
  PROVE  \E w :
           /\ server' = [server EXCEPT ![s] = w]
           /\ \/ /\ TimerGone(server[s], timer, w)
                 /\ \A i \in DOMAIN server[s].queue : server[s].queue[i].start # timer.start
                 /\ UNCHANGED <<lb_inbox, evicted>>
              \/ \E i \in DOMAIN server[s].queue :
                   TaskGone(server[s], timer, i, w) /\ Forward(s, server[s].queue[i])
<1>1. PICK v : v = server[s]
  OBVIOUS
<1>2. v \in ServerState /\ v.pending \in Seq(Timer) /\ v.timers \subseteq Timer /\ v.queue \in Seq(Task)
  BY <1>1 DEF PushInv, PushTypes, ServerState
<1>3. PICK kept : kept = Retain(v.pending, timer.start)
  OBVIOUS
<1>4. kept \in Seq(Timer)
  BY <1>2, <1>3, RetainProperties
<1>5. PICK u : u = [v EXCEPT !.timers = @ \ {timer}, !.pending = kept]
  OBVIOUS
<1>6. TimerGone(v, timer, u) /\ u.queue = v.queue
  BY <1>2, <1>3, <1>4, <1>5 DEF TimerGone, ServerState
<1> DEFINE i == SelectInSeq(u.queue, LAMBDA t : t.start = timer.start)
           I == {j \in 1 .. Len(v.queue) : v.queue[j].start = timer.start}
<1>7. \/ /\ i = 0
         /\ server' = [server EXCEPT ![s] = u]
         /\ UNCHANGED <<lb_inbox, evicted>>
      \/ /\ i # 0
         /\ server' = [server EXCEPT ![s] = [u EXCEPT !.queue = RemoveAt(@, i)]]
         /\ Forward(s, u.queue[i])
  BY <1>1, <1>3, <1>5, Zenon DEF TimerFires
<1>8. i = IF I # {} THEN Min(I) ELSE 0
  BY <1>6 DEF SelectInSeq
<1>9. I \in SUBSET Nat /\ DOMAIN v.queue = 1 .. Len(v.queue) /\ 0 \notin I
  BY <1>2
<1> HIDE DEF i
<1>10. CASE /\ i = 0
            /\ server' = [server EXCEPT ![s] = u]
            /\ UNCHANGED <<lb_inbox, evicted>>
  <2>1. I = {}
    <3> HIDE DEF I
    <3> QED
      BY <1>8, <1>9, <1>10, MinIsSmallest
  <2>2. \A j \in DOMAIN v.queue : v.queue[j].start # timer.start
    BY <1>9, <2>1
  <2> QED
    BY <1>1, <1>6, <1>10, <2>2
<1>11. CASE /\ i # 0
            /\ server' = [server EXCEPT ![s] = [u EXCEPT !.queue = RemoveAt(@, i)]]
            /\ Forward(s, u.queue[i])
  <2>1. i \in I
    <3> HIDE DEF I
    <3> QED
      BY <1>8, <1>9, <1>11, MinIsSmallest
  <2>2. i \in DOMAIN v.queue /\ v.queue[i].start = timer.start
    BY <1>9, <2>1
  <2>3. PICK q : q = RemoveAt(v.queue, i)
    OBVIOUS
  <2>4. q \in Seq(Task)
    BY <1>2, <2>2, <2>3, RemoveAtProperties
  <2>5. PICK w : w = [u EXCEPT !.queue = q]
    OBVIOUS
  <2>6. TaskGone(v, timer, i, w)
    BY <1>6, <2>2, <2>3, <2>4, <2>5 DEF TaskGone, TimerGone, ServerState
  <2>7. server' = [server EXCEPT ![s] = w]
    BY <1>6, <1>11, <2>3, <2>5
  <2>8. Forward(s, v.queue[i])
    BY <1>6, <1>11
  <2> QED
    BY <1>1, <2>2, <2>6, <2>7, <2>8
<1> QED
  BY <1>7, <1>10, <1>11

LEMMA TimerLatePush ==
  ASSUME PushInv, NEW s \in Servers, NEW timer, NEW w, TimerGone(server[s], timer, w),
         server' = [server EXCEPT ![s] = w],
         UNCHANGED <<overflow, now, arrived, local_inflight, lb_inbox, server_inbox, evicted,
                     finished>>
  PROVE  PushInv'
<1>1. /\ PushTypes /\ OnePlace /\ AllSomewhere /\ AtHome /\ Once /\ SlotsBusy /\ ReleaseAccounting
  BY DEF PushInv
<1>2. PICK v : v = server[s]
  OBVIOUS
<1>3. Orderly(v)
  BY <1>1, <1>2, OrderlyNow
<1>4. /\ w \in ServerState /\ w.queue = v.queue /\ w.in_flight = v.in_flight
      /\ w.completions = v.completions
  BY <1>2 DEF TimerGone
<1>5. Orderly(w)
  BY <1>3, <1>4 DEF Orderly
<1>6. /\ server' \in [Servers -> ServerState] /\ server'[s] = w
      /\ \A r \in Servers : r # s => server'[r] = server[r]
      /\ \A u : u \in Queued(s)' <=> u \in Elements(w.queue)
      /\ \A u : u \in Running(s)' <=> u \in {d.task : d \in w.completions}
      /\ \A r \in Servers : \A u :
           r # s => /\ u \in Queued(r)' <=> u \in Queued(r)
                    /\ u \in Running(r)' <=> u \in Running(r)
      /\ \A r \in Servers : Orderly(server'[r])
      /\ SlotsBusy'
  BY <1>5, ServerChanges
<1>7. Mailboxes(lb_inbox')
  BY <1>1, CurrentMailboxes
<1>8. OnePlace' /\ AllSomewhere' /\ AtHome'
  <2>1. ASSUME NEW r \in Servers, NEW u
        PROVE  /\ u \in Sent(r)' <=> u \in Sent(r)
               /\ u \in Queued(r)' <=> u \in Queued(r)
               /\ u \in Running(r)' <=> u \in Running(r)
    <3>1. Sent(r)' = Sent(r)
      BY DEF Sent
    <3>2. r = s => Queued(r) = Elements(v.queue) /\ Running(r) = {d.task : d \in v.completions}
      BY <1>2 DEF Queued, Running
    <3> QED
      BY <1>4, <1>6, <3>1, <3>2
  <2>2. Evicted' = Evicted /\ \A l \in LBs : Returned(l)' = Returned(l)
    BY DEF Evicted, Returned
  <2> QED
    BY <1>1, <1>7, <2>1, <2>2, TasksStay
<1>9. PushTypes'
  BY <1>1, <1>6 DEF PushTypes
<1>10. Once'
  BY <1>1, <1>6, <1>7, OnceNext DEF Once
<1>11. ASSUME NEW k \in LBs, NEW r \in Servers
       PROVE  local_inflight'[k][r] =
                Count(server_inbox'[r], Of(k)) + Count(server'[r].queue, Of(k))
                + Cardinality(ServedFor(server'[r], k)) + Cardinality(AwayFrom(evicted', r, k))
                + Count(lb_inbox'[k], ReleasesOf(r))
  <2>1. local_inflight[k][r] =
          Count(server_inbox[r], Of(k)) + Count(server[r].queue, Of(k))
          + Cardinality(ServedFor(server[r], k)) + Cardinality(AwayFrom(evicted, r, k))
          + Count(lb_inbox[k], ReleasesOf(r))
    BY <1>1, AccountingNow
  <2>2. server'[r].queue = server[r].queue
    BY <1>2, <1>4, <1>6
  <2>3. ServedFor(server'[r], k) = ServedFor(server[r], k)
    BY <1>2, <1>4, <1>6 DEF ServedFor
  <2> QED
    BY <2>1, <2>2, <2>3
<1>12. ReleaseAccounting'
  BY <1>9, <1>11, AccountingNext
<1> QED
  BY <1>6, <1>8, <1>9, <1>10, <1>12 DEF PushInv

LEMMA TimerTakesPush ==
  ASSUME PushInv, NEW s \in Servers, NEW timer, NEW i, NEW w,
         TaskGone(server[s], timer, i, w), Forward(s, server[s].queue[i]),
         server' = [server EXCEPT ![s] = w],
         UNCHANGED <<overflow, now, arrived, local_inflight, server_inbox, finished>>
  PROVE  PushInv'
<1>1. /\ PushTypes /\ OnePlace /\ AllSomewhere /\ AtHome /\ Once /\ SlotsBusy /\ ReleaseAccounting
  BY DEF PushInv
<1>2. PICK v, t : v = server[s] /\ t = v.queue[i]
  OBVIOUS
<1>3. Orderly(v) /\ v.queue \in Seq(Task)
  BY <1>1, <1>2, OrderlyNow DEF Orderly, ServerState
<1>4. /\ w \in ServerState /\ w.queue = RemoveAt(v.queue, i) /\ w.in_flight = v.in_flight
      /\ w.completions = v.completions /\ i \in DOMAIN v.queue
  BY <1>2 DEF TaskGone
<1>5. t \in Task /\ t \in Queued(s)
  BY <1>2, <1>3, <1>4 DEF Queued, Elements
<1>6. /\ t \in arrived /\ s \in Subset[t.lb]
      /\ \A r \in Servers : t \notin Sent(r) /\ (t \in Queued(r) => r = s) /\ t \notin Running(r)
      /\ \A l \in LBs : t \notin Returned(l)
      /\ t \notin Evicted /\ t \notin finished
  BY <1>1, <1>5, OnlyQueued DEF AtHome
<1>7. /\ NoDuplicates(w.queue) /\ Elements(w.queue) = Elements(v.queue) \ {t}
      /\ \A k \in LBs : /\ Count(v.queue, Of(k)) = Count(w.queue, Of(k)) + IF t.lb = k THEN 1 ELSE 0
                        /\ Count(w.queue, Of(k)) \in Nat
  <2>1. NoDuplicates(w.queue) /\ Elements(w.queue) = Elements(v.queue) \ {t}
    BY <1>2, <1>3, <1>4, RemoveAtElements DEF Orderly
  <2>2. ASSUME NEW k \in LBs
        PROVE  /\ Count(v.queue, Of(k)) = Count(w.queue, Of(k)) + IF t.lb = k THEN 1 ELSE 0
               /\ Count(w.queue, Of(k)) \in Nat
    <3>1. t \in Of(k) <=> t.lb = k
      BY <1>5 DEF Of
    <3>2. Count(v.queue, Of(k)) = Count(w.queue, Of(k)) + IF t \in Of(k) THEN 1 ELSE 0
      BY <1>2, <1>3, <1>4, CountRemoveAt
    <3>3. Count(w.queue, Of(k)) \in Nat
      BY <1>4, CountFinite DEF ServerState
    <3> QED
      BY <3>1, <3>2, <3>3
  <2> QED
    BY <2>1, <2>2
<1>8. Orderly(w)
  <2>1. v.queue # <<>>
    BY <1>3, <1>4
  <2> QED
    BY <1>3, <1>4, <1>7, <2>1 DEF Orderly
<1>9. /\ server' \in [Servers -> ServerState] /\ server'[s] = w
      /\ \A r \in Servers : r # s => server'[r] = server[r]
      /\ \A u : u \in Queued(s)' <=> u \in Elements(w.queue)
      /\ \A u : u \in Running(s)' <=> u \in {d.task : d \in w.completions}
      /\ \A r \in Servers : \A u :
           r # s => /\ u \in Queued(r)' <=> u \in Queued(r)
                    /\ u \in Running(r)' <=> u \in Running(r)
      /\ \A r \in Servers : Orderly(server'[r])
      /\ SlotsBusy'
  BY <1>8, ServerChanges
<1>10. PICK p \in Place : HandedOver(s, t, p)
  BY <1>2, <1>5, <1>6, ForwardTask
<1>11. OnePlace' /\ AllSomewhere' /\ AtHome'
  <2>1. ASSUME NEW r \in Servers, NEW u
        PROVE  /\ u \in Sent(r)' <=> IF u = t THEN p = <<"sent", r>> ELSE u \in Sent(r)
               /\ u \in Queued(r)' <=> IF u = t THEN p = <<"queued", r>> ELSE u \in Queued(r)
               /\ u \in Running(r)' <=> IF u = t THEN p = <<"running", r>> ELSE u \in Running(r)
    <3>1. p # <<"sent", r>> /\ p # <<"queued", r>> /\ p # <<"running", r>>
      BY <1>10 DEF HandedOver
    <3>2. Sent(r)' = Sent(r)
      BY DEF Sent
    <3>3. u \in Queued(r)' <=> u \in Queued(r) /\ u # t
      BY <1>2, <1>6, <1>7, <1>9 DEF Queued
    <3>4. u \in Running(r)' <=> u \in Running(r)
      BY <1>2, <1>4, <1>9 DEF Running
    <3> QED
      BY <1>6, <3>1, <3>2, <3>3, <3>4
  <2>2. /\ \A k \in LBs : \A u :
             u \in Returned(k)' <=> IF u = t THEN p = <<"returned", k>> ELSE u \in Returned(k)
        /\ \A u : u \in Evicted' <=>
             IF u = t THEN p = <<"evicted", "express">> ELSE u \in Evicted
        /\ Mailboxes(lb_inbox')
    BY <1>10 DEF HandedOver
  <2>3. \A u : u \in finished' <=> IF u = t THEN p = <<"finished", "sink">> ELSE u \in finished
    <3>1. p # <<"finished", "sink">>
      BY <1>10 DEF HandedOver
    <3> QED
      BY <1>6, <3>1
  <2>4. \A r \in Servers :
          p = <<"sent", r>> \/ p = <<"queued", r>> \/ p = <<"running", r>> => r \in Subset[t.lb]
    BY <1>10 DEF HandedOver
  <2>5. arrived' = arrived \cup {t}
    BY <1>6
  <2> QED
    BY <1>1, <2>1, <2>2, <2>3, <2>4, <2>5, TaskMoves
<1>12. PushTypes'
  BY <1>1, <1>9, <1>10 DEF PushTypes, HandedOver, Mailboxes
<1>13. Once'
  BY <1>1, <1>9, <1>10, OnceNext DEF HandedOver, Once
<1>14. ASSUME NEW k \in LBs, NEW r \in Servers
       PROVE  local_inflight'[k][r] =
                Count(server_inbox'[r], Of(k)) + Count(server'[r].queue, Of(k))
                + Cardinality(ServedFor(server'[r], k)) + Cardinality(AwayFrom(evicted', r, k))
                + Count(lb_inbox'[k], ReleasesOf(r))
  <2>1. /\ local_inflight[k][r] =
             Count(server_inbox[r], Of(k)) + Count(server[r].queue, Of(k))
             + Cardinality(ServedFor(server[r], k)) + Cardinality(AwayFrom(evicted, r, k))
             + Count(lb_inbox[k], ReleasesOf(r))
        /\ Count(server_inbox[r], Of(k)) \in Nat
        /\ Count(server[r].queue, Of(k)) \in Nat
        /\ Cardinality(ServedFor(server[r], k)) \in Nat
        /\ Cardinality(AwayFrom(evicted, r, k)) \in Nat
        /\ Count(lb_inbox[k], ReleasesOf(r)) \in Nat
    BY <1>1, AccountingNow
  <2>2. ServedFor(server'[r], k) = ServedFor(server[r], k)
    BY <1>2, <1>4, <1>9 DEF ServedFor
  <2>3. /\ Count(server[r].queue, Of(k)) =
             Count(server'[r].queue, Of(k)) + IF r = s /\ t.lb = k THEN 1 ELSE 0
        /\ Count(server'[r].queue, Of(k)) \in Nat
    <3>1. CASE r = s
      BY <1>2, <1>7, <1>9, <3>1
    <3>2. CASE r # s
      <4>1. server'[r] = server[r]
        BY <1>9, <3>2
      <4> QED
        BY <2>1, <3>2, <4>1
    <3> QED
      BY <3>1, <3>2
  <2>4. /\ Cardinality(AwayFrom(evicted', r, k)) + Count(lb_inbox'[k], ReleasesOf(r)) =
             Cardinality(AwayFrom(evicted, r, k)) + Count(lb_inbox[k], ReleasesOf(r))
             + IF r = s /\ t.lb = k THEN 1 ELSE 0
        /\ Cardinality(AwayFrom(evicted', r, k)) \in Nat
        /\ Count(lb_inbox'[k], ReleasesOf(r)) \in Nat
    <3>1. lb_inbox'[k] \in Seq(LBMessage) /\ IsFiniteSet(evicted')
      BY <1>10 DEF HandedOver, Mailboxes
    <3>2. IsFiniteSet(AwayFrom(evicted', r, k))
      BY <3>1, FS_Subset DEF AwayFrom
    <3> QED
      BY <1>10, <3>1, <3>2, CountFinite, FS_CardinalityType DEF HandedOver
  <2> QED
    BY <2>1, <2>2, <2>3, <2>4
<1>15. ReleaseAccounting'
  BY <1>12, <1>14, AccountingNext
<1> QED
  BY <1>9, <1>11, <1>12, <1>13, <1>15 DEF PushInv

LEMMA TimerPush ==
  ASSUME PushInv, NEW s \in Servers, NEW timer \in server[s].timers, TimerFires(s, timer)
  PROVE  PushInv'
<1>1. PICK w :
        /\ server' = [server EXCEPT ![s] = w]
        /\ \/ /\ TimerGone(server[s], timer, w)
              /\ \A i \in DOMAIN server[s].queue : server[s].queue[i].start # timer.start
              /\ UNCHANGED <<lb_inbox, evicted>>
           \/ \E i \in DOMAIN server[s].queue :
                TaskGone(server[s], timer, i, w) /\ Forward(s, server[s].queue[i])
  BY TimerCases
<1>2. UNCHANGED <<overflow, now, arrived, local_inflight, server_inbox, finished>>
  BY DEF TimerFires
<1>3. CASE TimerGone(server[s], timer, w) /\ UNCHANGED <<lb_inbox, evicted>>
  BY <1>1, <1>2, <1>3, TimerLatePush
<1>4. ASSUME NEW i, TaskGone(server[s], timer, i, w), Forward(s, server[s].queue[i])
      PROVE  PushInv'
  BY <1>1, <1>2, <1>4, TimerTakesPush
<1> QED
  BY <1>1, <1>3, <1>4

(***************************************************************************)
(* A service ends on v with completion c: the server is left idle in a     *)
(* slot, or starts the first queued task with completion d.                *)
(***************************************************************************)
Ended(v, c, w) ==
  /\ w \in ServerState /\ v.queue = <<>>
  /\ w.queue = v.queue /\ w.in_flight = v.in_flight - 1
  /\ w.completions = v.completions \ {c}
  /\ w.pending = v.pending /\ w.timers = v.timers

EndedAndNext(v, c, d, w) ==
  /\ w \in ServerState /\ v.queue # <<>>
  /\ w.queue = Tail(v.queue) /\ w.in_flight = v.in_flight
  /\ d.task = Head(v.queue)
  /\ w.completions = (v.completions \ {c}) \cup {d}
  /\ Cancellable(v) =>
       Cancellable(w) /\ w.timers = {e \in v.timers : e.start # d.task.start}

LEMMA CompleteCases ==
  ASSUME PushInv, NEW s \in Servers, NEW c \in server[s].completions, Complete(s, c)
  PROVE  \E w :
           /\ server' = [server EXCEPT ![s] = w]
           /\ Ended(server[s], c, w) \/ \E d : EndedAndNext(server[s], c, d, w)
<1>1. PICK v, x : v = server[s] /\ x = RemoveInFlight(v, c)
  OBVIOUS
<1>2. Orderly(v) /\ v \in ServerState /\ now \in Nat /\ c \in v.completions
  BY <1>1, OrderlyNow DEF PushInv, PushTypes, Orderly
<1>3. PICK services \in Seq(InFlightService) : x = [v EXCEPT !.in_flight_services = services]
  BY <1>1, <1>2, RemoveInFlightProperties
<1>4. /\ x \in ServerState /\ x.queue = v.queue /\ x.in_flight = v.in_flight
      /\ x.completions = v.completions /\ x.pending = v.pending /\ x.timers = v.timers
  BY <1>2, <1>3 DEF ServerState
<1>5. PICK u : u = [x EXCEPT !.in_flight = @ - 1, !.completions = @ \ {c}]
  OBVIOUS
<1>6. v.in_flight \in Nat /\ v.in_flight # 0 /\ v.in_flight <= MaxConcurrency /\ MaxConcurrency \in Nat
  <2>1. IsFiniteSet(v.completions) /\ v.completions # {} /\ v.in_flight = Cardinality(v.completions)
    BY <1>2 DEF Orderly
  <2>2. Cardinality(v.completions) # 0
    BY <2>1, FS_EmptySet
  <2> QED
    BY <1>2, <2>1, <2>2, PushDispatchAssumption DEF Orderly, ServerState
<1>7. /\ u \in ServerState /\ u.queue = v.queue /\ u.in_flight = v.in_flight - 1
      /\ u.completions = v.completions \ {c} /\ u.pending = v.pending /\ u.timers = v.timers
  <2> DEFINE n == v.in_flight - 1
             D == v.completions \ {c}
  <2>1. n \in Nat /\ D \in SUBSET Completion
    BY <1>2, <1>6 DEF ServerState
  <2>2. u = [x EXCEPT !.in_flight = n, !.completions = D]
    BY <1>4, <1>5
  <2> HIDE DEF n, D
  <2>3. /\ u \in ServerState /\ u.queue = x.queue /\ u.in_flight = n
        /\ u.completions = D /\ u.pending = x.pending /\ u.timers = x.timers
    BY <1>4, <2>1, <2>2 DEF ServerState
  <2> QED
    BY <1>4, <2>3 DEF n, D
<1>8. PICK w : w = DrainQueue(u)
  OBVIOUS
<1>9. server' = [server EXCEPT ![s] = w]
  BY <1>1, <1>5, <1>8 DEF Complete
<1>10. /\ u.in_flight < MaxConcurrency
       /\ u.queue # <<>> => u.in_flight + 1 = MaxConcurrency
  BY <1>2, <1>6, <1>7 DEF Orderly
<1>11. \/ u.queue = <<>> /\ w = u
       \/ u.queue # <<>> /\ w = BeginService([u EXCEPT !.queue = Tail(@)], Head(u.queue))
  BY <1>7, <1>8, <1>10, DrainCases
<1>12. CASE u.queue = <<>> /\ w = u
  <2>1. Ended(v, c, w)
    BY <1>7, <1>12 DEF Ended
  <2> QED
    BY <1>1, <1>9, <2>1
<1>13. CASE u.queue # <<>> /\ w = BeginService([u EXCEPT !.queue = Tail(@)], Head(u.queue))
  <2>1. PICK h, y : h = Head(u.queue) /\ y = [u EXCEPT !.queue = Tail(@)]
    OBVIOUS
  <2>2. h \in Task /\ Tail(u.queue) \in Seq(Task)
    BY <1>7, <1>13, <2>1, PopFront DEF ServerState
  <2>3. /\ y \in ServerState /\ y.queue = Tail(u.queue) /\ y.in_flight = u.in_flight
        /\ y.completions = u.completions /\ y.pending = u.pending /\ y.timers = u.timers
    BY <1>7, <2>1, <2>2 DEF ServerState
  <2>4. PICK d : d = CompletionOf(y, h)
    OBVIOUS
  <2>5. w = BeginService(y, h)
    BY <1>13, <2>1
  <2>6. /\ w \in ServerState
        /\ w.queue = y.queue
        /\ w.in_flight = y.in_flight + 1
        /\ w.completions = y.completions \cup {d}
        /\ Cancellable(y) =>
             Cancellable(w) /\ w.timers = {e \in y.timers : e.start # h.start}
    <3>1. ServiceBegun(y, h, w)
      BY <1>2, <2>2, <2>3, <2>5, BeginServiceProperties
    <3> QED
      BY <2>4, <3>1 DEF ServiceBegun
  <2>7. d.task = h
    BY <2>4 DEF CompletionOf
  <2>8. w.in_flight = v.in_flight
    BY <1>6, <1>7, <2>3, <2>6
  <2>9. Cancellable(v) => Cancellable(w) /\ w.timers = {e \in v.timers : e.start # h.start}
    BY <1>7, <2>3, <2>6 DEF Cancellable
  <2>10. EndedAndNext(v, c, d, w)
    BY <1>7, <1>13, <2>1, <2>3, <2>6, <2>7, <2>8, <2>9 DEF EndedAndNext
  <2> QED
    BY <1>1, <1>9, <2>10
<1> QED
  BY <1>11, <1>12, <1>13

(* The task that ends, and the release the server sends for it. *)
Completed(s, c) ==
  /\ c.task \in Task /\ c.task \in arrived
  /\ \A r \in Servers : /\ c.task \notin Sent(r) /\ c.task \notin Queued(r)
                        /\ c.task \in Running(r) => r = s
  /\ \A l \in LBs : c.task \notin Returned(l)
  /\ c.task \notin Evicted /\ c.task \notin finished
  /\ finished' = finished \cup {c.task}
  /\ UNCHANGED <<overflow, now, arrived, local_inflight, server_inbox, evicted>>
  /\ Mailboxes(lb_inbox')
  /\ \A l \in LBs : \A u : u \in Returned(l)' <=> u \in Returned(l)
  /\ \A l \in LBs, r \in Servers :
       Count(lb_inbox'[l], ReleasesOf(r)) =
         Count(lb_inbox[l], ReleasesOf(r)) + IF r = s /\ c.task.lb = l THEN 1 ELSE 0

LEMMA CompleteTask ==
  ASSUME PushInv, NEW s \in Servers, NEW c \in server[s].completions, Complete(s, c)
  PROVE  Completed(s, c)
<1>1. PICK t : t = c.task
  OBVIOUS
<1>2. OnePlace /\ AllSomewhere /\ server[s] \in ServerState
  BY DEF PushInv, PushTypes
<1>3. t \in Task /\ t \in Running(s)
  BY <1>1, <1>2 DEF ServerState, Completion, Running
<1>4. /\ t \in arrived
      /\ \A r \in Servers : t \notin Sent(r) /\ t \notin Queued(r) /\ (t \in Running(r) => r = s)
      /\ \A l \in LBs : t \notin Returned(l)
      /\ t \notin Evicted /\ t \notin finished
  BY <1>2, <1>3, OnlyRunning
<1>5. /\ lb_inbox' = Send(lb_inbox, t.lb, << [type |-> "release", server |-> s, task |-> t] >>)
      /\ finished' = finished \cup {t}
      /\ UNCHANGED <<overflow, now, arrived, local_inflight, server_inbox, evicted>>
  BY <1>1 DEF Complete
<1>6. /\ Mailboxes(lb_inbox')
      /\ \A l \in LBs : \A u : u \in Returned(l)' <=> u \in Returned(l)
      /\ \A l \in LBs, r \in Servers :
           Count(lb_inbox'[l], ReleasesOf(r)) =
             Count(lb_inbox[l], ReleasesOf(r)) + IF r = s /\ t.lb = l THEN 1 ELSE 0
  BY <1>3, <1>5, SendRelease
<1> QED
  BY <1>1, <1>3, <1>4, <1>5, <1>6 DEF Completed

LEMMA CompleteIdlePush ==
  ASSUME PushInv, NEW s \in Servers, NEW c \in server[s].completions, Completed(s, c),
         NEW w, Ended(server[s], c, w), server' = [server EXCEPT ![s] = w]
  PROVE  PushInv'
<1>1. /\ PushTypes /\ OnePlace /\ AllSomewhere /\ AtHome /\ Once /\ SlotsBusy /\ ReleaseAccounting
  BY DEF PushInv
<1>2. PICK v, t : v = server[s] /\ t = c.task
  OBVIOUS
<1>3. /\ t \in Task /\ t \in arrived
      /\ \A r \in Servers : t \notin Sent(r) /\ t \notin Queued(r) /\ (t \in Running(r) => r = s)
      /\ \A l \in LBs : t \notin Returned(l)
      /\ t \notin Evicted /\ t \notin finished
      /\ finished' = finished \cup {t}
      /\ UNCHANGED <<overflow, now, arrived, local_inflight, server_inbox, evicted>>
      /\ Mailboxes(lb_inbox')
      /\ \A l \in LBs : \A u : u \in Returned(l)' <=> u \in Returned(l)
      /\ \A l \in LBs, r \in Servers :
           Count(lb_inbox'[l], ReleasesOf(r)) =
             Count(lb_inbox[l], ReleasesOf(r)) + IF r = s /\ t.lb = l THEN 1 ELSE 0
  BY <1>2 DEF Completed
<1>4. Orderly(v) /\ v \in ServerState /\ v.in_flight <= MaxConcurrency
  BY <1>1, <1>2, OrderlyNow DEF Orderly
<1>5. /\ w \in ServerState /\ v.queue = <<>> /\ w.queue = v.queue
      /\ w.in_flight = v.in_flight - 1 /\ w.completions = v.completions \ {c}
  BY <1>2 DEF Ended
<1>6. ServesOnce(v) /\ c \in v.completions
  BY <1>2, <1>4 DEF Orderly, ServesOnce
<1>7. OneMore(w, c, v) /\ ServesOnce(w) /\ c.task \notin InService(w) /\ Cardinality(w.completions) \in Nat
  BY <1>5, <1>6, OneLessService
<1>8. Orderly(w)
  <2>1. v.in_flight = Cardinality(w.completions) + 1
    BY <1>4, <1>7 DEF Orderly, OneMore
  <2>2. MaxConcurrency \in Nat
    BY PushDispatchAssumption
  <2>3. w.in_flight = Cardinality(w.completions) /\ w.in_flight <= MaxConcurrency
    BY <1>4, <1>5, <1>7, <2>1, <2>2
  <2> QED
    BY <1>4, <1>5, <1>7, <2>3 DEF Orderly, ServesOnce
<1>9. /\ server' \in [Servers -> ServerState] /\ server'[s] = w
      /\ \A r \in Servers : r # s => server'[r] = server[r]
      /\ \A u : u \in Queued(s)' <=> u \in Elements(w.queue)
      /\ \A u : u \in Running(s)' <=> u \in {d.task : d \in w.completions}
      /\ \A r \in Servers : \A u :
           r # s => /\ u \in Queued(r)' <=> u \in Queued(r)
                    /\ u \in Running(r)' <=> u \in Running(r)
      /\ \A r \in Servers : Orderly(server'[r])
      /\ SlotsBusy'
  BY <1>8, ServerChanges
<1>10. OnePlace' /\ AllSomewhere' /\ AtHome'
  <2>1. PICK p \in Place : p = <<"finished", "sink">>
    BY Places
  <2>2. ASSUME NEW r \in Servers, NEW u
        PROVE  /\ u \in Sent(r)' <=> IF u = t THEN p = <<"sent", r>> ELSE u \in Sent(r)
               /\ u \in Queued(r)' <=> IF u = t THEN p = <<"queued", r>> ELSE u \in Queued(r)
               /\ u \in Running(r)' <=> IF u = t THEN p = <<"running", r>> ELSE u \in Running(r)
    <3>1. Sent(r)' = Sent(r)
      BY <1>3 DEF Sent
    <3>2. u \in Queued(r)' <=> u \in Queued(r)
      BY <1>2, <1>5, <1>9 DEF Queued
    <3>3. u \in Running(r)' <=> u \in Running(r) /\ u # t
      <4>1. CASE r = s
        <5>1. u \in InService(v) <=> u = t \/ u \in InService(w)
          BY <1>2, <1>7 DEF OneMore
        <5>2. u \in Running(s)' <=> u \in InService(w)
          BY <1>9 DEF InService
        <5>3. Running(s) = InService(v)
          BY <1>2 DEF Running, InService
        <5> QED
          BY <1>2, <1>7, <4>1, <5>1, <5>2, <5>3
      <4>2. CASE r # s
        BY <1>3, <1>9, <4>2
      <4> QED
        BY <4>1, <4>2
    <3> QED
      BY <1>3, <2>1, <3>1, <3>2, <3>3
  <2>3. \A k \in LBs : \A u :
          u \in Returned(k)' <=> IF u = t THEN p = <<"returned", k>> ELSE u \in Returned(k)
    BY <1>3, <2>1
  <2>4. \A u : u \in Evicted' <=> IF u = t THEN p = <<"evicted", "express">> ELSE u \in Evicted
    BY <1>3, <2>1 DEF Evicted
  <2>5. \A u : u \in finished' <=> IF u = t THEN p = <<"finished", "sink">> ELSE u \in finished
    BY <1>3, <2>1
  <2>6. \A r \in Servers :
          p = <<"sent", r>> \/ p = <<"queued", r>> \/ p = <<"running", r>> => r \in Subset[t.lb]
    BY <2>1
  <2>7. arrived' = arrived \cup {t}
    BY <1>3
  <2> QED
    BY <1>1, <1>3, <2>2, <2>3, <2>4, <2>5, <2>6, <2>7, TaskMoves
<1>11. PushTypes'
  BY <1>1, <1>3, <1>9 DEF PushTypes, Mailboxes
<1>12. Once'
  BY <1>1, <1>3, <1>9, OnceNext DEF Once
<1>13. ASSUME NEW k \in LBs, NEW r \in Servers
       PROVE  local_inflight'[k][r] =
                Count(server_inbox'[r], Of(k)) + Count(server'[r].queue, Of(k))
                + Cardinality(ServedFor(server'[r], k)) + Cardinality(AwayFrom(evicted', r, k))
                + Count(lb_inbox'[k], ReleasesOf(r))
  <2>1. /\ local_inflight[k][r] =
             Count(server_inbox[r], Of(k)) + Count(server[r].queue, Of(k))
             + Cardinality(ServedFor(server[r], k)) + Cardinality(AwayFrom(evicted, r, k))
             + Count(lb_inbox[k], ReleasesOf(r))
        /\ Count(server_inbox[r], Of(k)) \in Nat
        /\ Count(server[r].queue, Of(k)) \in Nat
        /\ Cardinality(ServedFor(server[r], k)) \in Nat
        /\ Cardinality(AwayFrom(evicted, r, k)) \in Nat
        /\ Count(lb_inbox[k], ReleasesOf(r)) \in Nat
    BY <1>1, AccountingNow
  <2>2. server'[r].queue = server[r].queue
    BY <1>2, <1>5, <1>9
  <2>3. /\ Cardinality(ServedFor(server[r], k)) =
             Cardinality(ServedFor(server'[r], k)) + IF r = s /\ t.lb = k THEN 1 ELSE 0
        /\ Cardinality(ServedFor(server'[r], k)) \in Nat
    <3>1. CASE r = s
      <4>1. Cardinality(ServedFor(v, k)) = Cardinality(ServedFor(w, k)) + IF t.lb = k THEN 1 ELSE 0
        BY <1>2, <1>7 DEF OneMore
      <4>2. Cardinality(ServedFor(w, k)) \in Nat
        BY <1>7, FS_Subset, FS_CardinalityType DEF ServedFor, ServesOnce
      <4> QED
        BY <1>2, <1>9, <3>1, <4>1, <4>2
    <3>2. CASE r # s
      <4>1. server'[r] = server[r]
        BY <1>9, <3>2
      <4> QED
        BY <2>1, <3>2, <4>1
    <3> QED
      BY <3>1, <3>2
  <2>4. /\ Count(lb_inbox'[k], ReleasesOf(r)) =
             Count(lb_inbox[k], ReleasesOf(r)) + IF r = s /\ t.lb = k THEN 1 ELSE 0
        /\ evicted' = evicted /\ server_inbox' = server_inbox /\ local_inflight' = local_inflight
    BY <1>3
  <2>5. PICK x : x = IF r = s /\ t.lb = k THEN 1 ELSE 0
    OBVIOUS
  <2>6. /\ x \in Nat
        /\ Cardinality(ServedFor(server[r], k)) = Cardinality(ServedFor(server'[r], k)) + x
        /\ Count(lb_inbox'[k], ReleasesOf(r)) = Count(lb_inbox[k], ReleasesOf(r)) + x
    BY <2>3, <2>4, <2>5
  <2>7. /\ local_inflight'[k][r] = local_inflight[k][r]
        /\ Count(server_inbox'[r], Of(k)) = Count(server_inbox[r], Of(k))
        /\ Count(server'[r].queue, Of(k)) = Count(server[r].queue, Of(k))
        /\ Cardinality(AwayFrom(evicted', r, k)) = Cardinality(AwayFrom(evicted, r, k))
        /\ Cardinality(ServedFor(server'[r], k)) \in Nat
    BY <2>2, <2>3, <2>4
  <2> QED
    BY <2>1, <2>6, <2>7
<1>14. ReleaseAccounting'
  BY <1>11, <1>13, AccountingNext
<1> QED
  BY <1>9, <1>10, <1>11, <1>12, <1>14 DEF PushInv

(* One task ends and the first of the queue is started. *)
LEMMA CompleteNextPush ==
  ASSUME PushInv, NEW s \in Servers, NEW c \in server[s].completions, Completed(s, c),
         NEW d, NEW w, EndedAndNext(server[s], c, d, w), server' = [server EXCEPT ![s] = w]
  PROVE  PushInv'
<1>1. /\ PushTypes /\ OnePlace /\ AllSomewhere /\ AtHome /\ Once /\ SlotsBusy /\ ReleaseAccounting
  BY DEF PushInv
<1>2. PICK v, t, h : v = server[s] /\ t = c.task /\ h = d.task
  OBVIOUS
<1>3. /\ t \in Task /\ t \in arrived
      /\ \A r \in Servers : t \notin Sent(r) /\ t \notin Queued(r) /\ (t \in Running(r) => r = s)
      /\ \A l \in LBs : t \notin Returned(l)
      /\ t \notin Evicted /\ t \notin finished
      /\ finished' = finished \cup {t}
      /\ UNCHANGED <<overflow, now, arrived, local_inflight, server_inbox, evicted>>
      /\ Mailboxes(lb_inbox')
      /\ \A l \in LBs : \A u : u \in Returned(l)' <=> u \in Returned(l)
      /\ \A l \in LBs, r \in Servers :
           Count(lb_inbox'[l], ReleasesOf(r)) =
             Count(lb_inbox[l], ReleasesOf(r)) + IF r = s /\ t.lb = l THEN 1 ELSE 0
  BY <1>2 DEF Completed
<1>4. Orderly(v) /\ v \in ServerState /\ v.queue \in Seq(Task)
  BY <1>1, <1>2, OrderlyNow DEF Orderly, ServerState
<1>5. /\ w \in ServerState /\ v.queue # <<>> /\ w.queue = Tail(v.queue) /\ h = Head(v.queue)
      /\ w.in_flight = v.in_flight /\ w.completions = (v.completions \ {c}) \cup {d}
  BY <1>2 DEF EndedAndNext
<1>6. /\ h \in Task /\ NoDuplicates(w.queue) /\ Elements(w.queue) = Elements(v.queue) \ {h}
      /\ h \in Elements(v.queue)
      /\ \A k \in LBs : /\ Count(v.queue, Of(k)) = Count(w.queue, Of(k)) + IF h.lb = k THEN 1 ELSE 0
                        /\ Count(w.queue, Of(k)) \in Nat
  <2>1. h \in Task /\ Elements(v.queue) = Elements(Tail(v.queue)) \cup {h}
    BY <1>4, <1>5, PopFront
  <2>2. NoDuplicates(w.queue) /\ Elements(w.queue) = Elements(v.queue) \ {h}
    BY <1>4, <1>5, PopFrontNew DEF Orderly
  <2>3. ASSUME NEW k \in LBs
        PROVE  /\ Count(v.queue, Of(k)) = Count(w.queue, Of(k)) + IF h.lb = k THEN 1 ELSE 0
               /\ Count(w.queue, Of(k)) \in Nat
    <3>1. h \in Of(k) <=> h.lb = k
      BY <2>1 DEF Of
    <3>2. Count(v.queue, Of(k)) = Count(w.queue, Of(k)) + IF h \in Of(k) THEN 1 ELSE 0
      BY <1>4, <1>5, CountPopFront
    <3>3. Count(w.queue, Of(k)) \in Nat
      BY <1>5, CountFinite DEF ServerState
    <3> QED
      BY <3>1, <3>2, <3>3
  <2> QED
    BY <2>1, <2>2, <2>3
<1>7. h \in Queued(s)
  BY <1>2, <1>6 DEF Queued
<1>8. /\ h \in arrived /\ s \in Subset[h.lb] /\ h # t
      /\ \A r \in Servers : h \notin Sent(r) /\ (h \in Queued(r) => r = s) /\ h \notin Running(r)
      /\ \A l \in LBs : h \notin Returned(l)
      /\ h \notin Evicted /\ h \notin finished
  BY <1>1, <1>3, <1>7, OnlyQueued DEF AtHome
<1>9. ServesOnce(v) /\ c \in v.completions /\ v.in_flight = Cardinality(v.completions)
  BY <1>2, <1>4 DEF Orderly, ServesOnce
<1>10. PICK x : x = [v EXCEPT !.completions = v.completions \ {c}]
  OBVIOUS
<1>11. x.completions = v.completions \ {c}
  BY <1>4, <1>10 DEF ServerState
<1>12. OneMore(x, c, v) /\ ServesOnce(x) /\ t \notin InService(x) /\ Cardinality(x.completions) \in Nat
  BY <1>2, <1>9, <1>11, OneLessService
<1>13. InService(v) = Running(s) /\ h \notin InService(x)
  <2>1. InService(v) = Running(s)
    BY <1>2 DEF InService, Running
  <2> QED
    BY <1>8, <1>12, <2>1 DEF OneMore
<1>14. OneMore(x, d, w)
  BY <1>2, <1>5, <1>11, <1>12, <1>13, OneMoreService
<1>15. Orderly(w)
  <2>1. Cardinality(w.completions) = Cardinality(v.completions)
    BY <1>12, <1>14 DEF OneMore
  <2>2. ServesOnce(w)
    BY <1>14 DEF OneMore
  <2> QED
    BY <1>4, <1>5, <1>6, <1>9, <2>1, <2>2 DEF Orderly, ServesOnce
<1>16. /\ server' \in [Servers -> ServerState] /\ server'[s] = w
       /\ \A r \in Servers : r # s => server'[r] = server[r]
       /\ \A u : u \in Queued(s)' <=> u \in Elements(w.queue)
       /\ \A u : u \in Running(s)' <=> u \in {e.task : e \in w.completions}
       /\ \A r \in Servers : \A u :
            r # s => /\ u \in Queued(r)' <=> u \in Queued(r)
                     /\ u \in Running(r)' <=> u \in Running(r)
       /\ \A r \in Servers : Orderly(server'[r])
       /\ SlotsBusy'
  BY <1>15, ServerChanges
<1>17. /\ \A r \in Servers : \A u :
            u \in Running(r)' <=> (u \in Running(r) /\ u # t) \/ (u = h /\ r = s)
       /\ \A r \in Servers : \A u : u \in Queued(r)' <=> u \in Queued(r) /\ u # h
  <2>1. ASSUME NEW r \in Servers, NEW u
        PROVE  u \in Running(r)' <=> (u \in Running(r) /\ u # t) \/ (u = h /\ r = s)
    <3>1. CASE r = s
      <4>1. u \in InService(v) <=> u = t \/ u \in InService(x)
        BY <1>2, <1>12 DEF OneMore
      <4>2. u \in InService(w) <=> u = h \/ u \in InService(x)
        BY <1>2, <1>14 DEF OneMore
      <4>3. u \in Running(s)' <=> u \in InService(w)
        BY <1>16 DEF InService
      <4> QED
        BY <1>12, <1>13, <3>1, <4>1, <4>2, <4>3
    <3>2. CASE r # s
      BY <1>3, <1>16, <3>2
    <3> QED
      BY <3>1, <3>2
  <2>2. ASSUME NEW r \in Servers, NEW u
        PROVE  u \in Queued(r)' <=> u \in Queued(r) /\ u # h
    <3>1. CASE r = s
      BY <1>2, <1>6, <1>16, <3>1 DEF Queued
    <3>2. CASE r # s
      BY <1>8, <1>16, <3>2
    <3> QED
      BY <3>1, <3>2
  <2> QED
    BY <2>1, <2>2
<1>18. OnePlace' /\ AllSomewhere' /\ AtHome'
  <2> DEFINE M == {t, h}
             to == [u \in M |-> IF u = t THEN <<"finished", "sink">> ELSE <<"running", s>>]
  <2>1. <<"finished", "sink">> \in Place /\ <<"running", s>> \in Place
    BY Places
  <2>2. to \in [M -> Place] /\ arrived' = arrived \cup M
    BY <1>3, <1>8, <2>1
  <2>3. /\ \A u : u \in M <=> u = t \/ u = h
        /\ to[t] = <<"finished", "sink">> /\ to[h] = <<"running", s>>
    BY <1>8
  <2> HIDE DEF M, to
  <2>4. ASSUME NEW r \in Servers, NEW u
        PROVE  /\ u \in Sent(r)' <=> IF u \in M THEN to[u] = <<"sent", r>> ELSE u \in Sent(r)
               /\ u \in Queued(r)' <=> IF u \in M THEN to[u] = <<"queued", r>> ELSE u \in Queued(r)
               /\ u \in Running(r)' <=> IF u \in M THEN to[u] = <<"running", r>> ELSE u \in Running(r)
    <3>1. Sent(r)' = Sent(r)
      BY <1>3 DEF Sent
    <3>2. /\ u \in Running(r)' <=> (u \in Running(r) /\ u # t) \/ (u = h /\ r = s)
          /\ u \in Queued(r)' <=> u \in Queued(r) /\ u # h
      BY <1>17
    <3>3. CASE u = t
      BY <1>3, <1>8, <2>3, <3>1, <3>2, <3>3
    <3>4. CASE u = h
      BY <1>3, <1>8, <2>3, <3>1, <3>2, <3>4
    <3>5. CASE u # t /\ u # h
      BY <2>3, <3>1, <3>2, <3>5
    <3> QED
      BY <3>3, <3>4, <3>5
  <2>5. ASSUME NEW u
        PROVE  /\ \A l \in LBs : u \in Returned(l)' <=>
                    IF u \in M THEN to[u] = <<"returned", l>> ELSE u \in Returned(l)
               /\ u \in Evicted' <=>
                    IF u \in M THEN to[u] = <<"evicted", "express">> ELSE u \in Evicted
               /\ u \in finished' <=>
                    IF u \in M THEN to[u] = <<"finished", "sink">> ELSE u \in finished
    <3>1. Evicted' = Evicted
      BY <1>3 DEF Evicted
    <3>2. CASE u = t
      BY <1>3, <1>8, <2>3, <3>1, <3>2
    <3>3. CASE u = h
      BY <1>3, <1>8, <2>3, <3>1, <3>3
    <3>4. CASE u # t /\ u # h
      BY <1>3, <2>3, <3>1, <3>4
    <3> QED
      BY <3>2, <3>3, <3>4
  <2>6. Moves(M, to)
    BY <2>2, <2>4, <2>5 DEF Moves
  <2>7. OnePlace' /\ AllSomewhere'
    BY <1>1, <2>2, <2>6, TasksMove
  <2>8. ASSUME NEW r \in Servers, NEW u \in Sent(r)' \cup Queued(r)' \cup Running(r)'
        PROVE  r \in Subset[u.lb]
    <3>1. Sent(r)' = Sent(r)
      BY <1>3 DEF Sent
    <3>2. u \in Sent(r) \/ u \in Queued(r) \/ u \in Running(r) \/ (u = h /\ r = s)
      BY <1>17, <2>8, <3>1
    <3> QED
      BY <1>1, <1>8, <3>2 DEF AtHome
  <2>9. AtHome'
    BY <1>3, <2>8 DEF AtHome, Mailboxes
  <2> QED
    BY <2>7, <2>9
<1>19. PushTypes'
  BY <1>1, <1>3, <1>16 DEF PushTypes, Mailboxes
<1>20. Once'
  BY <1>1, <1>3, <1>16, OnceNext DEF Once
<1>21. ASSUME NEW k \in LBs, NEW r \in Servers
       PROVE  local_inflight'[k][r] =
                Count(server_inbox'[r], Of(k)) + Count(server'[r].queue, Of(k))
                + Cardinality(ServedFor(server'[r], k)) + Cardinality(AwayFrom(evicted', r, k))
                + Count(lb_inbox'[k], ReleasesOf(r))
  <2>1. /\ local_inflight[k][r] =
             Count(server_inbox[r], Of(k)) + Count(server[r].queue, Of(k))
             + Cardinality(ServedFor(server[r], k)) + Cardinality(AwayFrom(evicted, r, k))
             + Count(lb_inbox[k], ReleasesOf(r))
        /\ Count(server_inbox[r], Of(k)) \in Nat
        /\ Count(server[r].queue, Of(k)) \in Nat
        /\ Cardinality(ServedFor(server[r], k)) \in Nat
        /\ Cardinality(AwayFrom(evicted, r, k)) \in Nat
        /\ Count(lb_inbox[k], ReleasesOf(r)) \in Nat
    BY <1>1, AccountingNow
  <2>2. /\ Count(server'[r].queue, Of(k)) + Cardinality(ServedFor(server'[r], k))
             + (IF r = s /\ t.lb = k THEN 1 ELSE 0)
             = Count(server[r].queue, Of(k)) + Cardinality(ServedFor(server[r], k))
        /\ Count(server'[r].queue, Of(k)) \in Nat
        /\ Cardinality(ServedFor(server'[r], k)) \in Nat
    <3>1. CASE r = s
      <4>1. Cardinality(ServedFor(v, k)) = Cardinality(ServedFor(x, k)) + IF t.lb = k THEN 1 ELSE 0
        BY <1>2, <1>12 DEF OneMore
      <4>2. Cardinality(ServedFor(w, k)) = Cardinality(ServedFor(x, k)) + IF h.lb = k THEN 1 ELSE 0
        BY <1>2, <1>14 DEF OneMore
      <4>3. Cardinality(ServedFor(x, k)) \in Nat
        BY <1>12, FS_Subset, FS_CardinalityType DEF ServedFor, ServesOnce
      <4>4. /\ Count(v.queue, Of(k)) = Count(w.queue, Of(k)) + IF h.lb = k THEN 1 ELSE 0
            /\ Count(w.queue, Of(k)) \in Nat
        BY <1>6
      <4>5. server'[r] = w /\ server[r] = v
        BY <1>2, <1>16, <3>1
      <4> QED
        BY <3>1, <4>1, <4>2, <4>3, <4>4, <4>5
    <3>2. CASE r # s
      <4>1. server'[r] = server[r]
        BY <1>16, <3>2
      <4> QED
        BY <2>1, <3>2, <4>1
    <3> QED
      BY <3>1, <3>2
  <2>3. /\ Count(lb_inbox'[k], ReleasesOf(r)) =
             Count(lb_inbox[k], ReleasesOf(r)) + IF r = s /\ t.lb = k THEN 1 ELSE 0
        /\ evicted' = evicted /\ server_inbox' = server_inbox /\ local_inflight' = local_inflight
    BY <1>3
  <2> QED
    BY <2>1, <2>2, <2>3
<1>22. ReleaseAccounting'
  BY <1>19, <1>21, AccountingNext
<1> QED
  BY <1>16, <1>18, <1>19, <1>20, <1>22 DEF PushInv

LEMMA CompletePush ==
  ASSUME PushInv, NEW s \in Servers, NEW c \in server[s].completions, Complete(s, c)
  PROVE  PushInv'
<1>1. Completed(s, c)
  BY CompleteTask
<1>2. PICK w : /\ server' = [server EXCEPT ![s] = w]
               /\ Ended(server[s], c, w) \/ \E d : EndedAndNext(server[s], c, d, w)
  BY CompleteCases
<1>3. CASE Ended(server[s], c, w)
  BY <1>1, <1>2, <1>3, CompleteIdlePush
<1>4. ASSUME NEW d, EndedAndNext(server[s], c, d, w) PROVE PushInv'
  BY <1>1, <1>2, <1>4, CompleteNextPush
<1> QED
  BY <1>2, <1>3, <1>4

-----------------------------------------------------------------------------
(* Theorems *)

LEMMA NextPush ==
  ASSUME PushInv, [Next]_vars
  PROVE  PushInv'
<1>1. ASSUME NEW l \in LBs, LBReceive(l) PROVE PushInv'
  BY <1>1, LBReceivePush
<1>2. ASSUME NEW l \in LBs, NEW d \in Durations, Arrive(l, d) PROVE PushInv'
  BY <1>2, ArrivePush
<1>3. ASSUME NEW s \in Servers, ServerInput(s) PROVE PushInv'
  BY <1>3, ServerInputPush
<1>4. ASSUME NEW s \in Servers, NEW timer \in server[s].timers, TimerFires(s, timer) PROVE PushInv'
  BY <1>4, TimerPush
<1>5. ASSUME NEW s \in Servers, NEW c \in server[s].completions, Complete(s, c) PROVE PushInv'
  BY <1>5, CompletePush
<1>6. CASE Tick
  <2>1. now \in Nat
    BY DEF PushInv, PushTypes
  <2>2. now' \in Nat
    BY <1>6, <2>1 DEF Tick
  <2> QED
    BY <1>6, <2>2, ClockPush DEF Tick
<1>7. CASE Finished \/ UNCHANGED vars
  <2>1. now' \in Nat
    BY <1>7 DEF Finished, vars, PushInv, PushTypes
  <2> QED
    BY <1>7, <2>1, ClockPush DEF Finished, vars
<1> QED
  BY <1>1, <1>2, <1>3, <1>4, <1>5, <1>6, <1>7 DEF Next

(***************************************************************************)
(* Every task that arrived is in one place: on its way to a server of its  *)
(* client, queued, in service, on its way back, evicted or finished; slots *)
(* are counted and none is free beside a queue; local_inflight is exact.   *)
(***************************************************************************)
THEOREM PushInvariant == Safety => []PushInv
<1>1. Init => PushInv
  BY InitPush
<1>2. PushInv /\ [Next]_vars => PushInv'
  BY NextPush
<1> QED
  BY <1>1, <1>2, PTL DEF Safety

(* Every field keeps its type: no counter goes below zero. *)
THEOREM PushTypeCorrect == Safety => []TypeOK
<1>1. PushInv => TypeOK
  <2> SUFFICES ASSUME PushInv PROVE TypeOK
    OBVIOUS
  <2>1. PushTypes
    BY DEF PushInv
  <2>2. ASSUME NEW s \in Servers
        PROVE  /\ server[s].queue \in Seq(Task)
               /\ server[s].in_flight \in Nat
               /\ server[s].in_flight_services \in Seq(InFlightService)
               /\ server[s].pending \in Seq(Timer)
               /\ server[s].timers \subseteq Timer
               /\ server[s].completions \subseteq Completion
               /\ server[s].scheduled \in Nat
    BY <2>1 DEF PushTypes, ServerState
  <2> QED
    BY <2>1, <2>2 DEF PushTypes, TypeOK
<1> QED
  BY <1>1, PushInvariant, PTL

(***************************************************************************)
(* local_inflight[l][s] is the number of l's tasks that are on the way to  *)
(* s, queued there, in service there, evicted from there, or released by a *)
(* message still in l's mailbox, whatever is shed or evicted and when.     *)
(***************************************************************************)
THEOREM LocalInflightExact == Safety => []ReleaseAccounting
<1>1. PushInv => ReleaseAccounting
  BY DEF PushInv
<1> QED
  BY <1>1, PushInvariant, PTL

-----------------------------------------------------------------------------
(* The steps of push dispatch are steps of TaskService. *)

(* The instance of TaskService has a Cardinality of its own. *)
LEMMA ServiceCardinality ==
  ASSUME NEW S
  PROVE  Service!Cardinality(S) = Cardinality(S)
BY DEF Cardinality, Service!Cardinality, IsFiniteSet, Service!IsFiniteSet

LEMMA AtMostOneTaskEach ==
  ASSUME NEW v, IsFiniteSet(v.completions)
  PROVE  Cardinality(InService(v)) <= Cardinality(v.completions) /\ Cardinality(InService(v)) \in Nat
<1> DEFINE C == v.completions
           T == InService(v)
           f == [c \in C |-> c.task]
<1>1. f \in Surjection(C, T)
  BY DEF Surjection, InService
<1>2. IsFiniteSet(C)
  OBVIOUS
<1> HIDE DEF C, T, f
<1>3. IsFiniteSet(T) /\ Cardinality(T) <= Cardinality(C)
  BY <1>1, <1>2, FS_Surjection
<1> QED
  BY <1>3, FS_CardinalityType DEF C, T

LEMMA ServiceSteps ==
  ASSUME NEW t \in Task
  PROVE  /\ Service!Submit(t) => Service!Next
         /\ \A s \in Servers : Service!Start(t, s) => Service!Next
         /\ \A s \in Servers : Service!Finish(t, s) => Service!Next
         /\ \A s \in Servers, u \in Task : Service!HandOver(t, u, s) => Service!Next
BY DEF Service!Next, Service!Starts, Service!Finishes

Serving == [s \in Servers |-> {c.task : c \in server[s].completions}]

LEMMA ServingChanges ==
  ASSUME PushTypes, NEW s \in Servers, NEW w, server' = [server EXCEPT ![s] = w]
  PROVE  Serving' = [Serving EXCEPT ![s] = InService(w)] /\ Serving[s] = InService(server[s])
<1>1. server'[s] = w /\ \A r \in Servers : r # s => server'[r] = server[r]
  BY DEF PushTypes
<1>2. Serving' = [r \in Servers |-> {c.task : c \in server'[r].completions}]
  BY DEF Serving
<1>3. \A r \in Servers : {c.task : c \in server'[r].completions} =
        IF r = s THEN InService(w) ELSE {c.task : c \in server[r].completions}
  BY <1>1 DEF InService
<1> QED
  BY <1>2, <1>3 DEF Serving, InService

LEMMA ServingStays ==
  ASSUME PushTypes, NEW s \in Servers, NEW w, server' = [server EXCEPT ![s] = w],
         InService(w) = InService(server[s])
  PROVE  Serving' = Serving
<1>1. PICK f : f = Serving
  OBVIOUS
<1>2. f = [r \in DOMAIN f |-> f[r]]
  BY <1>1 DEF Serving
<1>3. Serving' = [f EXCEPT ![s] = f[s]]
  BY <1>1, ServingChanges
<1>4. [f EXCEPT ![s] = f[s]] = f
  BY <1>2
<1> QED
  BY <1>1, <1>3, <1>4

LEMMA SameServing ==
  ASSUME UNCHANGED server
  PROVE  Serving' = Serving
BY DEF Serving

LEMMA ArriveSubmits ==
  ASSUME PushInv, NEW l \in LBs, NEW d \in Durations, Arrive(l, d)
  PROVE  Service!Next
<1> DEFINE t == [lb |-> l, start |-> now, duration |-> d]
<1>1. /\ now \in 1 .. Horizon /\ arrived' = arrived \cup {t}
      /\ UNCHANGED <<server, finished>>
      /\ \A u \in arrived : u.lb = l => u.start < now
  BY DEF Arrive
<1>2. t \in Task /\ t.lb = l /\ t.start = now
  BY <1>1 DEF Task
<1> HIDE DEF t
<1>3. t \notin arrived
  <2>1. now \in Nat
    BY DEF PushInv, PushTypes
  <2>2. ~(now < now)
    BY <2>1
  <2> QED
    BY <1>1, <1>2, <2>2
<1>4. Service!Submit(t)
  BY <1>1, <1>2, <1>3, SameServing DEF Service!Submit, Serving
<1> QED
  BY <1>2, <1>4, ServiceSteps

LEMMA InputStarts ==
  ASSUME PushInv, NEW s \in Servers, ServerInput(s)
  PROVE  Service!Next \/ UNCHANGED <<arrived, Serving, finished>>
<1>1. PICK t : t = Head(server_inbox[s])
  OBVIOUS
<1>2. PushTypes /\ Once /\ SlotsBusy /\ now \in Nat
  BY DEF PushInv, PushTypes
<1>3. UNCHANGED <<arrived, finished>>
  BY DEF ServerInput
<1>4. \/ /\ HasSlot(server[s])
         /\ server' = [server EXCEPT ![s] = BeginService(@, t)]
         /\ UNCHANGED <<lb_inbox, evicted>>
      \/ /\ Forward(s, t)
         /\ UNCHANGED server
      \/ /\ ~HasSlot(server[s])
         /\ UNCHANGED <<lb_inbox, evicted>>
         /\ \E w : TaskQueued(server[s], t, w) /\ server' = [server EXCEPT ![s] = w]
  BY <1>1, InputCases
<1>5. CASE /\ HasSlot(server[s])
           /\ server' = [server EXCEPT ![s] = BeginService(@, t)]
  <2>1. /\ t \in Task /\ t \in arrived /\ s \in Subset[t.lb]
        /\ \A r \in Servers : t \notin Running(r)
        /\ t \notin finished
    BY <1>1, InputTask
  <2>2. PICK v, w : v = server[s] /\ w = BeginService(v, t)
    OBVIOUS
  <2>3. Orderly(v) /\ v \in ServerState /\ v.in_flight < MaxConcurrency
    BY <1>2, <1>5, <2>2, OrderlyNow DEF Orderly, HasSlot
  <2>4. w.completions = v.completions \cup {CompletionOf(v, t)}
    <3>1. ServiceBegun(v, t, w)
      BY <1>2, <2>1, <2>2, <2>3, BeginServiceProperties
    <3> QED
      BY <3>1 DEF ServiceBegun
  <2>5. InService(w) = InService(v) \cup {t}
    <3>1. PICK c : c = CompletionOf(v, t)
      OBVIOUS
    <3>2. c.task = t /\ w.completions = v.completions \cup {c}
      BY <2>4, <3>1 DEF CompletionOf
    <3>3. \A u : u \in InService(w) <=> u \in InService(v) \/ u = t
      BY <3>2 DEF InService
    <3> QED
      BY <3>3
  <2>6. server' = [server EXCEPT ![s] = w]
    BY <1>5, <2>2
  <2>7. Serving' = [Serving EXCEPT ![s] = @ \cup {t}] /\ Serving[s] = InService(v)
    BY <1>2, <2>2, <2>5, <2>6, ServingChanges
  <2>8. Service!Cardinality(Serving[s]) < MaxConcurrency
    <3>1. /\ Cardinality(InService(v)) <= Cardinality(v.completions)
          /\ Cardinality(InService(v)) \in Nat
          /\ v.in_flight = Cardinality(v.completions)
      BY <2>3, AtMostOneTaskEach DEF Orderly
    <3>2. v.in_flight \in Nat /\ MaxConcurrency \in Nat
      BY <2>3, PushDispatchAssumption DEF ServerState
    <3>3. Cardinality(InService(v)) < MaxConcurrency
      BY <2>3, <3>1, <3>2
    <3> QED
      BY <2>7, <3>3, ServiceCardinality
  <2>9. Service!Waiting(t)
    BY <2>1 DEF Service!Waiting, Running
  <2>10. <<t, s>> \in {p \in Task \X Servers : p[2] \in Subset[p[1].lb]}
    BY <2>1
  <2>11. Service!Start(t, s)
    BY <1>3, <2>7, <2>8, <2>9, <2>10 DEF Service!Start, Serving
  <2> QED
    BY <2>1, <2>11, ServiceSteps
<1>6. CASE UNCHANGED server
  BY <1>3, <1>6, SameServing
<1>7. CASE \E w : TaskQueued(server[s], t, w) /\ server' = [server EXCEPT ![s] = w]
  <2>1. PICK w : TaskQueued(server[s], t, w) /\ server' = [server EXCEPT ![s] = w]
    BY <1>7
  <2>2. InService(w) = InService(server[s])
    BY <2>1 DEF TaskQueued, InService
  <2>3. Serving' = Serving
    BY <1>2, <2>1, <2>2, ServingStays
  <2> QED
    BY <1>3, <2>3
<1> QED
  BY <1>4, <1>5, <1>6, <1>7

LEMMA TimerStutters ==
  ASSUME PushInv, NEW s \in Servers, NEW timer \in server[s].timers, TimerFires(s, timer)
  PROVE  UNCHANGED <<arrived, Serving, finished>>
<1>1. PICK w :
        /\ server' = [server EXCEPT ![s] = w]
        /\ TimerGone(server[s], timer, w) \/ \E i : TaskGone(server[s], timer, i, w)
  BY TimerCases
<1>2. InService(w) = InService(server[s])
  BY <1>1 DEF TimerGone, TaskGone, InService
<1>3. Serving' = Serving
  BY <1>1, <1>2, ServingStays DEF PushInv
<1> QED
  BY <1>3 DEF TimerFires

LEMMA CompleteFinishes ==
  ASSUME PushInv, NEW s \in Servers, NEW c \in server[s].completions, Complete(s, c)
  PROVE  Service!Next
<1>1. /\ PushTypes /\ OnePlace /\ AllSomewhere /\ AtHome /\ Once /\ SlotsBusy
  BY DEF PushInv
<1>2. PICK w : /\ server' = [server EXCEPT ![s] = w]
               /\ Ended(server[s], c, w) \/ \E d : EndedAndNext(server[s], c, d, w)
  BY CompleteCases
<1>3. Completed(s, c)
  BY CompleteTask
<1>4. PICK v, t : v = server[s] /\ t = c.task
  OBVIOUS
<1>5. /\ t \in Task /\ finished' = finished \cup {t} /\ UNCHANGED arrived
  BY <1>3, <1>4 DEF Completed
<1>6. /\ Serving' = [Serving EXCEPT ![s] = InService(w)] /\ Serving[s] = InService(v)
  BY <1>1, <1>2, <1>4, ServingChanges
<1>7. t \in InService(v) /\ Orderly(v) /\ v.queue \in Seq(Task) /\ ServesOnce(v)
  BY <1>1, <1>4, OrderlyNow DEF Orderly, ServerState, InService, ServesOnce
<1>8. PICK x : x = [completions |-> v.completions \ {c}]
  OBVIOUS
<1>9. InService(x) = InService(v) \ {t}
  <2>1. OneMore(x, c, v) /\ c.task \notin InService(x)
    BY <1>4, <1>7, <1>8, OneLessService
  <2>2. \A u : u \in InService(v) <=> u = t \/ u \in InService(x)
    BY <1>4, <2>1 DEF OneMore
  <2> QED
    BY <1>4, <2>1, <2>2
<1>10. CASE Ended(v, c, w)
  <2>1. InService(w) = InService(v) \ {t}
    BY <1>8, <1>9, <1>10 DEF Ended, InService
  <2>2. Service!Finish(t, s)
    BY <1>5, <1>6, <1>7, <2>1 DEF Service!Finish, Serving
  <2> QED
    BY <1>5, <2>2, ServiceSteps
<1>11. ASSUME NEW d, EndedAndNext(v, c, d, w) PROVE Service!Next
  <2>1. PICK h : h = d.task
    OBVIOUS
  <2>2. /\ v.queue # <<>> /\ h = Head(v.queue)
        /\ w.completions = (v.completions \ {c}) \cup {d}
    BY <1>11, <2>1 DEF EndedAndNext
  <2>3. InService(w) = (InService(v) \ {t}) \cup {h}
    BY <1>8, <1>9, <2>1, <2>2 DEF InService
  <2>4. h \in Task /\ h \in Queued(s)
    <3>1. h \in Task /\ Elements(v.queue) = Elements(Tail(v.queue)) \cup {h}
      BY <1>7, <2>2, PopFront
    <3> QED
      BY <1>4, <3>1 DEF Queued
  <2>5. h \in arrived /\ s \in Subset[h.lb] /\ h \notin finished /\ \A r \in Servers : h \notin Running(r)
    BY <1>1, <2>4, OnlyQueued DEF AtHome
  <2>6. Service!Waiting(h)
    BY <2>5 DEF Service!Waiting, Running
  <2>7. <<h, s>> \in {p \in Task \X Servers : p[2] \in Subset[p[1].lb]}
    BY <2>4, <2>5
  <2>8. Service!HandOver(t, h, s)
    BY <1>5, <1>6, <1>7, <2>3, <2>6, <2>7 DEF Service!HandOver, Serving
  <2> QED
    BY <1>5, <2>4, <2>8, ServiceSteps
<1> QED
  BY <1>2, <1>4, <1>10, <1>11

(***************************************************************************)
(* Push dispatch implements the safety part of TaskService: whatever is    *)
(* shed, every task is started at most once, on a server of its client     *)
(* with a free slot or the slot of the service that just ended.            *)
(***************************************************************************)
THEOREM PushImplementsService == Safety => ServiceSafety
<1>1. Init => Service!Init
  BY DEF Init, Service!Init, IdleServer
<1>2. ASSUME PushInv, [Next]_vars PROVE [Service!Next]_(Service!vars)
  <2>0. ASSUME UNCHANGED <<arrived, Serving, finished>> PROVE UNCHANGED Service!vars
    BY <2>0 DEF Service!vars, Serving
  <2>1. ASSUME NEW l \in LBs, LBReceive(l) PROVE UNCHANGED Service!vars
    BY <2>0, <2>1, SameServing DEF LBReceive
  <2>2. ASSUME NEW l \in LBs, NEW d \in Durations, Arrive(l, d) PROVE Service!Next
    BY <1>2, <2>2, ArriveSubmits
  <2>3. ASSUME NEW s \in Servers, ServerInput(s) PROVE [Service!Next]_(Service!vars)
    BY <1>2, <2>0, <2>3, InputStarts
  <2>4. ASSUME NEW s \in Servers, NEW timer \in server[s].timers, TimerFires(s, timer)
        PROVE  UNCHANGED Service!vars
    BY <1>2, <2>0, <2>4, TimerStutters
  <2>5. ASSUME NEW s \in Servers, NEW c \in server[s].completions, Complete(s, c)
        PROVE  Service!Next
    BY <1>2, <2>5, CompleteFinishes
  <2>6. ASSUME Tick \/ Finished \/ UNCHANGED vars PROVE UNCHANGED Service!vars
    BY <2>0, <2>6, SameServing DEF Tick, Finished, vars
  <2> QED
    BY <1>2, <2>1, <2>2, <2>3, <2>4, <2>5, <2>6 DEF Next
<1> QED
  BY <1>1, <1>2, PushInvariant, PTL DEF Safety, ServiceSafety, Service!Safety

-----------------------------------------------------------------------------
(* Timers *)

LEMMA QueueFits ==
  ASSUME NEW v \in ServerState, TimersFit(v, now), now \in Nat, NEW t \in Task,
         \A u \in Elements(v.queue) : u.start # t.start,
         NEW w, TaskQueued(v, t, w)
  PROVE  TimersFit(w, now)
<1>1. /\ v.queue \in Seq(Task) /\ v.pending \in Seq(Timer) /\ v.timers = Elements(v.pending)
      /\ DistinctStarts(v.pending)
      /\ \A e \in v.timers :
           e.at >= now /\ \E u \in Elements(v.queue) : u.lb = e.lb /\ u.start = e.start
  BY DEF ServerState, TimersFit, Cancellable
<1>2. w.queue = Append(v.queue, t) /\ Elements(w.queue) = Elements(v.queue) \cup {t}
  BY <1>1, PushBack DEF TaskQueued
<1>3. CASE w.pending = v.pending /\ w.timers = v.timers
  <2>1. Cancellable(w)
    BY <1>1, <1>3 DEF Cancellable
  <2>2. \A e \in w.timers :
          e.at >= now /\ \E u \in Elements(w.queue) : u.lb = e.lb /\ u.start = e.start
    BY <1>1, <1>2, <1>3
  <2> QED
    BY <2>1, <2>2 DEF TimersFit
<1>4. CASE w.pending = Append(v.pending, TimerOf(v, t)) /\ w.timers = v.timers \cup {TimerOf(v, t)}
  <2>1. PICK x : x = TimerOf(v, t)
    OBVIOUS
  <2>2. x \in Timer /\ x.start = t.start /\ x.lb = t.lb /\ x.at > now /\ x.at \in Nat
    BY <2>1, TimerOfType
  <2>3. w.pending = Append(v.pending, x) /\ w.timers = v.timers \cup {x}
    BY <1>4, <2>1
  <2>4. \A e \in v.timers : e.start # x.start
    BY <1>1, <2>2
  <2>5. /\ DOMAIN w.pending = 1 .. Len(v.pending) + 1
        /\ \A i \in DOMAIN v.pending : w.pending[i] = v.pending[i]
        /\ w.pending[Len(v.pending) + 1] = x
        /\ Elements(w.pending) = Elements(v.pending) \cup {x}
    BY <1>1, <2>2, <2>3, PushBack
  <2>6. \A i \in DOMAIN w.pending : i \in DOMAIN v.pending \/ i = Len(v.pending) + 1
    BY <1>1, <2>5
  <2>7. \A i \in DOMAIN v.pending : w.pending[i] \in v.timers
    BY <1>1, <2>5 DEF Elements
  <2>8. DistinctStarts(w.pending)
    <3> SUFFICES ASSUME NEW i \in DOMAIN w.pending, NEW j \in DOMAIN w.pending,
                        w.pending[i].start = w.pending[j].start
                 PROVE  i = j
      BY DEF DistinctStarts
    <3>1. CASE i \in DOMAIN v.pending /\ j \in DOMAIN v.pending
      BY <1>1, <2>5, <3>1 DEF DistinctStarts
    <3>2. CASE i \in DOMAIN v.pending /\ j = Len(v.pending) + 1
      BY <2>4, <2>5, <2>7, <3>2
    <3>3. CASE i = Len(v.pending) + 1 /\ j \in DOMAIN v.pending
      BY <2>4, <2>5, <2>7, <3>3
    <3> QED
      BY <2>6, <3>1, <3>2, <3>3
  <2>9. Cancellable(w)
    BY <1>1, <2>3, <2>5, <2>8 DEF Cancellable
  <2>10. ASSUME NEW e \in w.timers
         PROVE  e.at >= now /\ \E u \in Elements(w.queue) : u.lb = e.lb /\ u.start = e.start
    <3>1. CASE e \in v.timers
      BY <1>1, <1>2, <3>1
    <3>2. CASE e = x
      BY <1>2, <2>2, <3>2
    <3> QED
      BY <2>3, <3>1, <3>2
  <2> QED
    BY <2>9, <2>10 DEF TimersFit
<1> QED
  BY <1>3, <1>4 DEF TaskQueued

(* The timers left when one is cancelled or fires; `gone` is the task that leaves. *)
LEMMA FewerFit ==
  ASSUME NEW v \in ServerState, NEW n, TimersFit(v, n), NEW start,
         NEW w, Cancellable(w), w.timers = {e \in v.timers : e.start # start},
         \A u \in Elements(v.queue) : u.start = start \/ u \in Elements(w.queue)
  PROVE  TimersFit(w, n)
<1> SUFFICES ASSUME NEW e \in w.timers
             PROVE  e.at >= n /\ \E t \in Elements(w.queue) : t.lb = e.lb /\ t.start = e.start
  BY DEF TimersFit
<1>1. e \in v.timers /\ e.start # start
  OBVIOUS
<1>2. e.at >= n
  BY <1>1 DEF TimersFit
<1>3. PICK t \in Elements(v.queue) : t.lb = e.lb /\ t.start = e.start
  BY <1>1 DEF TimersFit
<1> QED
  BY <1>1, <1>2, <1>3

(* The timer that fires is the only one with its start. *)
LEMMA FiredCancellable ==
  ASSUME NEW v \in ServerState, Cancellable(v), NEW timer \in v.timers,
         NEW w, w.timers = v.timers \ {timer}, w.pending = Retain(v.pending, timer.start)
  PROVE  Cancellable(w) /\ w.timers = {e \in v.timers : e.start # timer.start}
<1>1. /\ v.pending \in Seq(Timer) /\ v.timers = Elements(v.pending)
      /\ DistinctStarts(v.pending)
  BY DEF ServerState, Cancellable
<1>2. /\ Elements(w.pending) = {e \in Elements(v.pending) : e.start # timer.start}
      /\ DistinctStarts(w.pending)
  BY <1>1, RetainProperties
<1>3. \A e \in v.timers : e.start = timer.start => e = timer
  BY <1>1 DEF DistinctStarts, Elements
<1>4. w.timers = {e \in v.timers : e.start # timer.start}
  BY <1>3
<1> QED
  BY <1>1, <1>2, <1>4 DEF Cancellable

LEMMA FitNext ==
  ASSUME TimersInv, PushInv', UNCHANGED <<arrived, now>>, NEW s \in Servers, NEW w,
         server' = [server EXCEPT ![s] = w], TimersFit(w, now)
  PROVE  TimersInv'
<1>1. OneStart'
  BY DEF TimersInv, OneStart
<1>2. server'[s] = w /\ \A r \in Servers : r # s => server'[r] = server[r]
  BY DEF TimersInv, PushInv, PushTypes
<1>3. \A r \in Servers : TimersFit(server'[r], now')
  BY <1>2 DEF TimersInv
<1> QED
  BY <1>1, <1>3 DEF TimersInv

LEMMA FitStays ==
  ASSUME TimersInv, PushInv', UNCHANGED <<arrived, now, server>>
  PROVE  TimersInv'
<1>1. OneStart' /\ \A r \in Servers : TimersFit(server'[r], now')
  BY DEF TimersInv, OneStart
<1> QED
  BY <1>1 DEF TimersInv

LEMMA ArriveFits ==
  ASSUME ~Simultaneous, TimersInv, PushInv',
         NEW l \in LBs, NEW d \in Durations, Arrive(l, d)
  PROVE  TimersInv'
<1> DEFINE t == [lb |-> l, start |-> now, duration |-> d]
<1>1. /\ arrived' = arrived \cup {t} /\ UNCHANGED <<server, now>>
      /\ \A u \in arrived : u.start < now
  BY DEF Arrive
<1>2. t.start = now /\ now \in Nat
  BY DEF TimersInv, PushInv, PushTypes
<1>3. \A u \in arrived : u.start # t.start
  <2>1. \A u \in arrived : u.start \in Nat
    BY DEF TimersInv, PushInv, PushTypes, Task
  <2> HIDE DEF t
  <2> QED
    BY <1>1, <1>2, <2>1
<1> HIDE DEF t
<1>4. OneStart'
  BY <1>1, <1>3 DEF TimersInv, OneStart
<1>5. \A s \in Servers : TimersFit(server'[s], now')
  BY <1>1 DEF TimersInv
<1> QED
  BY <1>4, <1>5 DEF TimersInv

LEMMA InputFits ==
  ASSUME TimersInv, PushInv', NEW s \in Servers, ServerInput(s)
  PROVE  TimersInv'
<1>1. PICK t, v : t = Head(server_inbox[s]) /\ v = server[s]
  OBVIOUS
<1>2. /\ t \in Task /\ t \in arrived /\ \A r \in Servers : t \notin Queued(r)
  BY <1>1, InputTask DEF TimersInv
<1>3. /\ PushTypes /\ OnePlace /\ AllSomewhere /\ Once /\ SlotsBusy /\ now \in Nat
      /\ OneStart /\ TimersFit(v, now)
  BY <1>1 DEF TimersInv, PushInv, PushTypes
<1>4. Orderly(v) /\ v \in ServerState
  BY <1>1, <1>3, OrderlyNow DEF Orderly
<1>5. UNCHANGED <<arrived, now>>
  BY DEF ServerInput
<1>6. CASE HasSlot(v) /\ server' = [server EXCEPT ![s] = BeginService(@, t)]
  <2>1. PICK w : w = BeginService(v, t)
    OBVIOUS
  <2>2. ServiceBegun(v, t, w)
    BY <1>2, <1>3, <1>4, <2>1, BeginServiceProperties
  <2>3. v.queue = <<>>
    BY <1>4, <1>6, PushDispatchAssumption DEF Orderly, HasSlot, ServerState
  <2>4. w.queue = v.queue /\ Cancellable(w) /\ w.timers = {e \in v.timers : e.start # t.start}
    BY <1>3, <2>2 DEF ServiceBegun, TimersFit
  <2>5. TimersFit(w, now)
    BY <1>3, <1>4, <2>4, FewerFit
  <2>6. server' = [server EXCEPT ![s] = w]
    BY <1>1, <1>6, <2>1
  <2> QED
    BY <1>5, <2>5, <2>6, FitNext
<1>7. CASE UNCHANGED server
  BY <1>5, <1>7, FitStays
<1>8. ASSUME NEW w, TaskQueued(v, t, w), server' = [server EXCEPT ![s] = w]
      PROVE  TimersInv'
  <2>1. ASSUME NEW u \in Elements(v.queue)
        PROVE  u.start # t.start
    <3>1. u \in Queued(s) /\ u \in Task
      BY <1>1, <1>4 DEF Queued, Elements, ServerState
    <3>2. u \in arrived /\ u # t
      BY <1>2, <1>3, <3>1, OnlyQueued
    <3> QED
      BY <1>2, <1>3, <3>2 DEF OneStart
  <2>2. TimersFit(w, now)
    BY <1>2, <1>3, <1>4, <1>8, <2>1, QueueFits
  <2> QED
    BY <1>5, <1>8, <2>2, FitNext
<1>9. \/ /\ HasSlot(server[s])
         /\ server' = [server EXCEPT ![s] = BeginService(@, t)]
         /\ UNCHANGED <<lb_inbox, evicted>>
      \/ /\ Forward(s, t)
         /\ UNCHANGED server
      \/ /\ ~HasSlot(server[s])
         /\ UNCHANGED <<lb_inbox, evicted>>
         /\ \E w : TaskQueued(server[s], t, w) /\ server' = [server EXCEPT ![s] = w]
  BY <1>1, InputCases DEF TimersInv
<1> QED
  BY <1>1, <1>6, <1>7, <1>8, <1>9

LEMMA TimerFits ==
  ASSUME TimersInv, PushInv', NEW s \in Servers, NEW timer \in server[s].timers,
         TimerFires(s, timer)
  PROVE  TimersInv'
<1>1. PICK v : v = server[s]
  OBVIOUS
<1>2. Orderly(v) /\ v \in ServerState /\ TimersFit(v, now) /\ Cancellable(v)
  BY <1>1, OrderlyNow DEF TimersInv, PushInv, Orderly, TimersFit
<1>3. PICK w :
        /\ server' = [server EXCEPT ![s] = w]
        /\ TimerGone(v, timer, w) \/ \E i : TaskGone(v, timer, i, w)
  BY <1>1, TimerCases DEF TimersInv
<1>4. w.timers = v.timers \ {timer} /\ w.pending = Retain(v.pending, timer.start)
  BY <1>3 DEF TimerGone, TaskGone
<1>5. Cancellable(w) /\ w.timers = {e \in v.timers : e.start # timer.start}
  BY <1>1, <1>2, <1>4, FiredCancellable
<1>6. \A u \in Elements(v.queue) : u.start = timer.start \/ u \in Elements(w.queue)
  <2>1. CASE TimerGone(v, timer, w)
    BY <2>1 DEF TimerGone
  <2>2. ASSUME NEW i, TaskGone(v, timer, i, w)
        PROVE  \A u \in Elements(v.queue) : u.start = timer.start \/ u \in Elements(w.queue)
    <3>1. /\ i \in DOMAIN v.queue /\ v.queue[i].start = timer.start
          /\ w.queue = RemoveAt(v.queue, i) /\ v.queue \in Seq(Task) /\ NoDuplicates(v.queue)
      BY <1>2, <2>2 DEF TaskGone, ServerState, Orderly
    <3>2. Elements(w.queue) = Elements(v.queue) \ {v.queue[i]}
      BY <3>1, RemoveAtElements
    <3> QED
      BY <3>1, <3>2
  <2> QED
    BY <1>3, <2>1, <2>2
<1>7. TimersFit(w, now)
  BY <1>2, <1>5, <1>6, FewerFit
<1> QED
  BY <1>3, <1>7, FitNext DEF TimerFires

LEMMA CompleteFits ==
  ASSUME TimersInv, PushInv', NEW s \in Servers, NEW c \in server[s].completions, Complete(s, c)
  PROVE  TimersInv'
<1>1. PICK v : v = server[s]
  OBVIOUS
<1>2. Orderly(v) /\ v \in ServerState /\ TimersFit(v, now) /\ Cancellable(v)
  BY <1>1, OrderlyNow DEF TimersInv, PushInv, Orderly, TimersFit
<1>3. PICK w : /\ server' = [server EXCEPT ![s] = w]
               /\ Ended(v, c, w) \/ \E d : EndedAndNext(v, c, d, w)
  BY <1>1, CompleteCases DEF TimersInv
<1>4. CASE Ended(v, c, w)
  <2>1. w.queue = v.queue /\ w.pending = v.pending /\ w.timers = v.timers
    BY <1>4 DEF Ended
  <2>2. TimersFit(w, now)
    BY <1>2, <2>1 DEF TimersFit, Cancellable
  <2> QED
    BY <1>3, <2>2, FitNext DEF Complete
<1>5. ASSUME NEW d, EndedAndNext(v, c, d, w) PROVE TimersInv'
  <2>1. /\ v.queue # <<>> /\ w.queue = Tail(v.queue) /\ d.task = Head(v.queue)
        /\ v.queue \in Seq(Task)
        /\ Cancellable(w) /\ w.timers = {e \in v.timers : e.start # d.task.start}
    BY <1>2, <1>5 DEF EndedAndNext, ServerState
  <2>2. Elements(v.queue) = Elements(w.queue) \cup {d.task}
    BY <2>1, PopFront
  <2>3. \A u \in Elements(v.queue) : u.start = d.task.start \/ u \in Elements(w.queue)
    BY <2>2
  <2>4. TimersFit(w, now)
    BY <1>2, <2>1, <2>3, FewerFit
  <2> QED
    BY <1>3, <2>4, FitNext DEF Complete
<1> QED
  BY <1>3, <1>4, <1>5

LEMMA TickFits ==
  ASSUME TimersInv, PushInv', Tick
  PROVE  TimersInv'
<1>1. /\ UNCHANGED <<arrived, server>> /\ now' = now + 1
      /\ \A s \in Servers : \A e \in server[s].timers : e.at > now
  BY DEF Tick, Events
<1>2. OneStart'
  BY <1>1 DEF TimersInv, OneStart
<1>3. ASSUME NEW s \in Servers
      PROVE  TimersFit(server'[s], now')
  <2>1. PICK v : v = server[s]
    OBVIOUS
  <2>2. v \in ServerState /\ now \in Nat /\ TimersFit(v, now) /\ v.timers \subseteq Timer
    BY <2>1 DEF TimersInv, PushInv, PushTypes, ServerState
  <2>3. \A e \in v.timers : e.at \in Nat /\ e.at > now
    BY <1>1, <2>1, <2>2 DEF Timer
  <2>4. \A e \in v.timers : e.at >= now'
    BY <1>1, <2>2, <2>3
  <2>5. TimersFit(v, now')
    BY <2>2, <2>4 DEF TimersFit
  <2> QED
    BY <1>1, <2>1, <2>5
<1> QED
  BY <1>2, <1>3 DEF TimersInv

(***************************************************************************)
(* If no two tasks arrive at the same instant, every timer still scheduled *)
(* is one the server can cancel, is not overdue and has its task queued:   *)
(* begin_service cancels the timer of the task it starts and no other.     *)
(***************************************************************************)
THEOREM TimersMatch == ~Simultaneous => (Safety => []TimersInv)
<1> SUFFICES ASSUME ~Simultaneous PROVE Safety => []TimersInv
  OBVIOUS
<1>1. Init => TimersInv
  <2> SUFFICES ASSUME Init PROVE TimersInv
    OBVIOUS
  <2>1. PushInv
    BY InitPush
  <2>2. OneStart
    BY DEF Init, OneStart
  <2>3. ASSUME NEW s \in Servers PROVE TimersFit(server[s], now)
    <3>1. server[s].timers = {} /\ server[s].pending = <<>>
      BY DEF Init, IdleServer
    <3> QED
      BY <3>1 DEF TimersFit, Cancellable, Elements, DistinctStarts
  <2> QED
    BY <2>1, <2>2, <2>3 DEF TimersInv
<1>2. TimersInv /\ [Next]_vars => TimersInv'
  <2> SUFFICES ASSUME TimersInv, [Next]_vars PROVE TimersInv'
    OBVIOUS
  <2>1. PushInv'
    BY NextPush DEF TimersInv
  <2>2. ASSUME NEW l \in LBs, LBReceive(l) PROVE TimersInv'
    BY <2>1, <2>2, FitStays DEF LBReceive
  <2>3. ASSUME NEW l \in LBs, NEW d \in Durations, Arrive(l, d) PROVE TimersInv'
    BY <2>1, <2>3, ArriveFits
  <2>4. ASSUME NEW s \in Servers, ServerInput(s) PROVE TimersInv'
    BY <2>1, <2>4, InputFits
  <2>5. ASSUME NEW s \in Servers, NEW timer \in server[s].timers, TimerFires(s, timer)
        PROVE  TimersInv'
    BY <2>1, <2>5, TimerFits
  <2>6. ASSUME NEW s \in Servers, NEW c \in server[s].completions, Complete(s, c)
        PROVE  TimersInv'
    BY <2>1, <2>6, CompleteFits
  <2>7. CASE Tick
    BY <2>1, <2>7, TickFits
  <2>8. CASE Finished \/ UNCHANGED vars
    BY <2>1, <2>8, FitStays DEF Finished, vars
  <2> QED
    BY <2>2, <2>3, <2>4, <2>5, <2>6, <2>7, <2>8 DEF Next
<1> QED
  BY <1>1, <1>2, PTL DEF Safety

(* The events a server has scheduled are those of its queued tasks. *)
THEOREM TimersMatchTheQueue == ~Simultaneous => (Safety => []TimersMatchQueue)
<1> SUFFICES ASSUME ~Simultaneous PROVE Safety => []TimersMatchQueue
  OBVIOUS
<1>1. Safety => []TimersInv
  BY TimersMatch
<1>2. TimersInv => TimersMatchQueue
  BY DEF TimersInv, TimersMatchQueue, TimersFit, Cancellable, Elements
<1> QED
  BY <1>1, <1>2, PTL

(* No timer is given up while a task with its start stays in the queue. *)
EndsWithTask ==
  \A s \in Servers : \A e \in server[s].timers \ server'[s].timers :
    \A i \in DOMAIN server'[s].queue :
      LET t == server'[s].queue[i] IN t.start # e.start \/ t.lb # e.lb

LEMMA EndsAt ==
  ASSUME TimersInv, NEW s \in Servers, NEW w,
         server' = [server EXCEPT ![s] = w],
         \A e \in server[s].timers \ w.timers :
           \A u \in Elements(w.queue) : u.start # e.start
  PROVE  EndsWithTask
<1>1. server'[s] = w /\ \A r \in Servers : r # s => server'[r] = server[r]
  BY DEF TimersInv, PushInv, PushTypes
<1>2. \A i \in DOMAIN w.queue : w.queue[i] \in Elements(w.queue)
  BY DEF Elements
<1> QED
  BY <1>1, <1>2 DEF EndsWithTask

(* Queued tasks have arrived, so that their starts differ. *)
LEMMA QueueStarts ==
  ASSUME TimersInv, NEW s \in Servers
  PROVE  \A t, u \in Elements(server[s].queue) : t.start = u.start => t = u
<1>1. PushTypes /\ OnePlace /\ AllSomewhere /\ OneStart
  BY DEF TimersInv, PushInv
<1>2. \A u \in Elements(server[s].queue) : u \in Queued(s)
  BY DEF Queued, Elements
<1>3. \A u \in Elements(server[s].queue) : u \in arrived
  BY <1>1, <1>2, OnlyQueued
<1> QED
  BY <1>1, <1>3 DEF OneStart

LEMMA InputEnds ==
  ASSUME TimersInv, NEW s \in Servers, ServerInput(s)
  PROVE  EndsWithTask
<1>1. PICK t, v : t = Head(server_inbox[s]) /\ v = server[s]
  OBVIOUS
<1>2. PushInv /\ PushTypes /\ Orderly(v) /\ v \in ServerState /\ now \in Nat
  BY <1>1, OrderlyNow DEF TimersInv, PushInv, PushTypes, Orderly
<1>3. \/ HasSlot(v) /\ server' = [server EXCEPT ![s] = BeginService(@, t)]
      \/ UNCHANGED server
      \/ \E w : TaskQueued(v, t, w) /\ server' = [server EXCEPT ![s] = w]
  BY <1>1, <1>2, InputCases
<1>4. CASE HasSlot(v) /\ server' = [server EXCEPT ![s] = BeginService(@, t)]
  <2>1. PICK w : w = BeginService(v, t)
    OBVIOUS
  <2>2. w.queue = v.queue
    <3>1. t \in Task
      BY <1>1, <1>2, InputTask
    <3> QED
      BY <1>2, <2>1, <3>1, BeginServiceProperties DEF ServiceBegun
  <2>3. v.queue = <<>>
    BY <1>2, <1>4, PushDispatchAssumption DEF Orderly, HasSlot, ServerState
  <2>4. Elements(w.queue) = {}
    BY <2>2, <2>3 DEF Elements
  <2> QED
    BY <1>1, <1>4, <2>1, <2>4, EndsAt
<1>5. CASE UNCHANGED server
  BY <1>5 DEF EndsWithTask
<1>6. ASSUME NEW w, TaskQueued(v, t, w), server' = [server EXCEPT ![s] = w]
      PROVE  EndsWithTask
  <2>1. v.timers \subseteq w.timers
    BY <1>6 DEF TaskQueued
  <2> QED
    BY <1>1, <1>6, <2>1, EndsAt
<1> QED
  BY <1>3, <1>4, <1>5, <1>6

LEMMA TimerEnds ==
  ASSUME TimersInv, NEW s \in Servers, NEW timer \in server[s].timers, TimerFires(s, timer)
  PROVE  EndsWithTask
<1>1. PICK v : v = server[s]
  OBVIOUS
<1>2. Orderly(v) /\ v.queue \in Seq(Task) /\ NoDuplicates(v.queue)
  BY <1>1, OrderlyNow DEF TimersInv, PushInv, Orderly, ServerState
<1>3. PICK w :
        /\ server' = [server EXCEPT ![s] = w]
        /\ \/ /\ TimerGone(v, timer, w)
              /\ \A i \in DOMAIN v.queue : v.queue[i].start # timer.start
           \/ \E i : TaskGone(v, timer, i, w)
  BY <1>1, TimerCases DEF TimersInv
<1>4. \A e \in v.timers \ w.timers : e = timer
  BY <1>3 DEF TimerGone, TaskGone
<1>5. \A u \in Elements(w.queue) : u.start # timer.start
  <2>1. CASE /\ TimerGone(v, timer, w)
             /\ \A i \in DOMAIN v.queue : v.queue[i].start # timer.start
    BY <2>1 DEF TimerGone, Elements
  <2>2. ASSUME NEW i, TaskGone(v, timer, i, w)
        PROVE  \A u \in Elements(w.queue) : u.start # timer.start
    <3>1. /\ i \in DOMAIN v.queue /\ v.queue[i].start = timer.start
          /\ w.queue = RemoveAt(v.queue, i)
      BY <2>2 DEF TaskGone
    <3>2. Elements(w.queue) = Elements(v.queue) \ {v.queue[i]}
      BY <1>2, <3>1, RemoveAtElements
    <3>3. v.queue[i] \in Elements(v.queue)
      BY <3>1 DEF Elements
    <3> QED
      BY <1>1, <3>1, <3>2, <3>3, QueueStarts
  <2> QED
    BY <1>3, <2>1, <2>2
<1> QED
  BY <1>1, <1>3, <1>4, <1>5, EndsAt

LEMMA CompleteEnds ==
  ASSUME TimersInv, NEW s \in Servers, NEW c \in server[s].completions, Complete(s, c)
  PROVE  EndsWithTask
<1>1. PICK v : v = server[s]
  OBVIOUS
<1>2. /\ Orderly(v) /\ v.queue \in Seq(Task) /\ NoDuplicates(v.queue)
      /\ Cancellable(v)
  BY <1>1, OrderlyNow DEF TimersInv, PushInv, Orderly, ServerState, TimersFit
<1>3. PICK w : /\ server' = [server EXCEPT ![s] = w]
               /\ Ended(v, c, w) \/ \E d : EndedAndNext(v, c, d, w)
  BY <1>1, CompleteCases DEF TimersInv
<1>4. CASE Ended(v, c, w)
  <2>1. w.timers = v.timers
    BY <1>4 DEF Ended
  <2> QED
    BY <1>1, <1>3, <2>1, EndsAt
<1>5. ASSUME NEW d, EndedAndNext(v, c, d, w) PROVE EndsWithTask
  <2>1. /\ v.queue # <<>> /\ w.queue = Tail(v.queue) /\ d.task = Head(v.queue)
        /\ w.timers = {e \in v.timers : e.start # d.task.start}
    BY <1>2, <1>5 DEF EndedAndNext
  <2>2. Elements(w.queue) = Elements(v.queue) \ {d.task} /\ d.task \in Elements(v.queue)
    BY <1>2, <2>1, PopFront, PopFrontNew
  <2>3. \A e \in v.timers \ w.timers : e.start = d.task.start
    BY <2>1
  <2>4. \A u \in Elements(w.queue) : u.start # d.task.start
    BY <1>1, <2>2, QueueStarts
  <2> QED
    BY <1>1, <1>3, <2>3, <2>4, EndsAt
<1> QED
  BY <1>3, <1>4, <1>5

(***************************************************************************)
(* If no two tasks arrive at the same instant, a server gives up a timer,  *)
(* by running or by cancelling it, only with the task it was set for.      *)
(***************************************************************************)
THEOREM TimersEndWithTasks == ~Simultaneous => (Safety => TimerEndsWithTask)
<1> SUFFICES ASSUME ~Simultaneous PROVE Safety => [][EndsWithTask]_vars
  BY DEF TimerEndsWithTask, EndsWithTask
<1>1. Safety => []TimersInv
  BY TimersMatch
<1>2. TimersInv /\ [Next]_vars => EndsWithTask
  <2> SUFFICES ASSUME TimersInv, [Next]_vars PROVE EndsWithTask
    OBVIOUS
  <2>1. CASE UNCHANGED server
    BY <2>1 DEF EndsWithTask
  <2>2. ASSUME NEW l \in LBs, LBReceive(l) PROVE EndsWithTask
    BY <2>1, <2>2 DEF LBReceive
  <2>3. ASSUME NEW l \in LBs, NEW d \in Durations, Arrive(l, d) PROVE EndsWithTask
    BY <2>1, <2>3 DEF Arrive
  <2>4. ASSUME NEW s \in Servers, ServerInput(s) PROVE EndsWithTask
    BY <2>4, InputEnds
  <2>5. ASSUME NEW s \in Servers, NEW timer \in server[s].timers, TimerFires(s, timer)
        PROVE  EndsWithTask
    BY <2>5, TimerEnds
  <2>6. ASSUME NEW s \in Servers, NEW c \in server[s].completions, Complete(s, c)
        PROVE  EndsWithTask
    BY <2>6, CompleteEnds
  <2>7. CASE Tick \/ Finished \/ UNCHANGED vars
    BY <2>1, <2>7 DEF Tick, Finished, vars
  <2> QED
    BY <2>2, <2>3, <2>4, <2>5, <2>6, <2>7 DEF Next
<1> QED
  BY <1>1, <1>2, PTL DEF Safety

-----------------------------------------------------------------------------
(* The express lane *)

(* The theorems of CentralizedPull, about the express balancer. *)
XP == INSTANCE CentralizedPullProofs WITH
  LBs <- {Express},
  Servers <- ExpressServers,
  Home <- [s \in ExpressServers |-> Express],
  TaskCount <- [l \in {Express} |-> Cardinality(LBs) * TaskCount],
  next_task_id <- x_next_task_id,
  queue <- x_queue,
  waiting_servers <- x_waiting_servers,
  local_inflight <- x_local_inflight,
  in_flight <- x_in_flight,
  serving <- x_serving,
  requested <- x_requested,
  pulls <- x_pulls,
  tasks <- x_tasks,
  releases <- x_releases,
  finished <- x_finished

-----------------------------------------------------------------------------
(* The express side runs CentralizedPull *)

LEMMA XAssumption == XP!CentralizedPullAssumption
<1>1. XP!IsFiniteSet(ExpressServers)
  BY ExpressLaneAssumption DEF IsFiniteSet, XP!IsFiniteSet
<1>2. [s \in ExpressServers |-> Express] \in [ExpressServers -> {Express}]
  OBVIOUS
<1>3. \A l \in {Express} : \E s \in ExpressServers : [r \in ExpressServers |-> Express][s] = l
  BY ExpressLaneAssumption
<1>4. Cardinality(LBs) \in Nat
  BY PushDispatchAssumption, FS_CardinalityType
<1>5. [l \in {Express} |-> Cardinality(LBs) * TaskCount] \in [{Express} -> Nat]
  BY <1>4, PushDispatchAssumption
<1> QED
  BY <1>1, <1>2, <1>3, <1>5, PushDispatchAssumption DEF XP!CentralizedPullAssumption

LEMMA SameOperators ==
  /\ X!Init => XP!Init
  /\ X!Input(Express) => XP!Input(Express)
  /\ \A s \in ExpressServers :
       /\ X!RequestPull(s) => XP!RequestPull(s)
       /\ X!Pull(s) => XP!Pull(s)
       /\ X!Release(s) => XP!Release(s)
  /\ \A s, t : X!ServerInput(t, s) => XP!ServerInput(t, s)
  /\ \A s, t : X!Complete(s, t) => XP!Complete(s, t)
<1>0. \A S : X!Cardinality(S) = XP!Cardinality(S)
  BY DEF X!Cardinality, XP!Cardinality, X!IsFiniteSet, XP!IsFiniteSet
<1>1. X!Init => XP!Init
  BY DEF X!Init, XP!Init
<1>2. X!Input(Express) => XP!Input(Express)
  BY DEF X!Input, XP!Input, X!Dispatch, XP!Dispatch, X!Min, XP!Min, X!serverVars, XP!serverVars,
         X!Cardinality, XP!Cardinality, X!IsFiniteSet, XP!IsFiniteSet
<1>3. \A s \in ExpressServers :
        /\ X!RequestPull(s) => XP!RequestPull(s)
        /\ X!Release(s) => XP!Release(s)
  BY DEF X!RequestPull, XP!RequestPull, X!Release, XP!Release, X!serverVars, XP!serverVars,
         X!lbVars, XP!lbVars
<1>4. \A s \in ExpressServers : X!Pull(s) => XP!Pull(s)
  BY DEF X!Pull, XP!Pull, X!Dispatch, XP!Dispatch, X!serverVars, XP!serverVars,
         X!Cardinality, XP!Cardinality, X!IsFiniteSet, XP!IsFiniteSet
<1>5. /\ \A s, t : X!ServerInput(t, s) => XP!ServerInput(t, s)
      /\ \A s, t : X!Complete(s, t) => XP!Complete(s, t)
  BY DEF X!ServerInput, XP!ServerInput, X!Complete, XP!Complete, X!lbVars, XP!lbVars
<1> QED
  BY <1>1, <1>2, <1>3, <1>4, <1>5

LEMMA XSteps == ExpressSafety => XP!Safety
<1>1. ExpressInit => XP!Init
  BY SameOperators DEF ExpressInit
<1>2. [ExpressNext]_allVars => [XP!Next]_(XP!vars)
  <2> SUFFICES ASSUME [ExpressNext]_allVars PROVE [XP!Next]_(XP!vars)
    OBVIOUS
  <2>1. ASSUME UNCHANGED xvars PROVE UNCHANGED XP!vars
    BY <2>1 DEF xvars, XP!vars, XP!lbVars, XP!serverVars
  <2>2. CASE RegularStep \/ ExpressFinished \/ UNCHANGED allVars
    BY <2>1, <2>2 DEF RegularStep, ExpressFinished, allVars
  <2>3. ASSUME NEW x \in evicted, ExpressInput(x) PROVE XP!Next
    BY <2>3, SameOperators DEF ExpressInput, XP!Next
  <2>4. ASSUME NEW s \in ExpressServers, ExpressStep(s) PROVE XP!Next
    BY <2>4, SameOperators DEF ExpressStep, XP!Next
  <2>5. ASSUME NEW s \in ExpressServers, NEW t \in x_serving[s], ExpressComplete(s, t)
        PROVE  XP!Next
    BY <2>5, SameOperators DEF ExpressComplete, XP!Next
  <2> QED
    BY <2>2, <2>3, <2>4, <2>5 DEF ExpressNext
<1> QED
  BY <1>1, <1>2, PTL DEF ExpressSafety, XP!Safety

LEMMA XSlots == ExpressSafety => []XP!SlotsInv
<1>1. XP!CentralizedPullAssumption => (XP!Safety => []XP!SlotsInv)
  BY XP!SlotsInvariant
<1> QED
  BY <1>1, XAssumption, XSteps, PTL

-----------------------------------------------------------------------------
(* Names of evicted tasks *)

(* A name the express side knows; it was given out and its task is not lost. *)
Named(t) == t[1] = Express /\ t[2] \in Nat /\ t[2] < x_next_task_id[Express]

(* What SlotsInv says that the composition needs. *)
ExpressNames ==
  /\ x_next_task_id \in [{Express} -> Nat]
  /\ \A t \in x_finished : Named(t)
  /\ \A s \in ExpressServers : \A t \in x_serving[s] :
       Named(t) /\ t = <<Express, t[2]>> /\ t \notin x_finished
  /\ \A p \in x_tasks :
       /\ Named(p[1]) /\ p[1] = <<Express, p[1][2]>> /\ p[1] \notin x_finished
       /\ p[2] \in ExpressServers
       /\ \A s \in ExpressServers : p[1] \notin x_serving[s]
  /\ \A s, r \in ExpressServers : s # r => x_serving[s] \cap x_serving[r] = {}
  /\ x_serving \in [ExpressServers -> SUBSET ({Express} \X Nat)]
  /\ \A s \in ExpressServers :
       /\ IsFiniteSet(x_serving[s])
       /\ \A p \in x_tasks : p[2] = s => Cardinality(x_serving[s]) < MaxConcurrency

(* The instance of CentralizedPull has a Cardinality of its own. *)
LEMMA XCardinality ==
  ASSUME NEW S
  PROVE  XP!Cardinality(S) = Cardinality(S)
BY DEF Cardinality, XP!Cardinality, IsFiniteSet, XP!IsFiniteSet

LEMMA NamesKnown ==
  ASSUME XP!SlotsInv
  PROVE  ExpressNames
<1>1. XP!TypeOK /\ XP!OnePlace /\ XP!InOrder
  BY DEF XP!SlotsInv
<1>2. /\ x_next_task_id \in [{Express} -> Nat] /\ x_next_task_id[Express] \in Nat
      /\ x_serving \in [ExpressServers -> SUBSET ({Express} \X Nat)]
      /\ x_tasks \subseteq ({Express} \X Nat) \X ExpressServers
      /\ x_finished \subseteq {Express} \X Nat
      /\ x_queue[Express] \in Seq(Nat)
  BY <1>1 DEF XP!TypeOK, XP!Task
<1>3. XP!Oldest(Express) <= x_next_task_id[Express] /\ XP!Oldest(Express) \in Nat
  <2>1. XP!Oldest(Express) \in Nat
    BY <1>1 DEF XP!InOrder
  <2>2. Len(x_queue[Express]) \in Nat
    BY <1>2
  <2> QED
    BY <1>2, <2>1, <2>2 DEF XP!Oldest
<1>4. \A t \in {Express} \X Nat :
        t[2] < XP!Oldest(t[1]) => Named(t) /\ t = <<Express, t[2]>>
  <2> SUFFICES ASSUME NEW n \in Nat, n < XP!Oldest(Express)
               PROVE  n < x_next_task_id[Express]
    BY DEF Named
  <2> QED
    BY <1>2, <1>3
<1>5. \A t \in x_finished : Named(t)
  BY <1>1, <1>2, <1>4 DEF XP!OnePlace
<1>6. \A s \in ExpressServers : \A t \in x_serving[s] :
        Named(t) /\ t = <<Express, t[2]>> /\ t \notin x_finished
  BY <1>1, <1>2, <1>4 DEF XP!OnePlace
<1>7. \A p \in x_tasks :
        /\ Named(p[1]) /\ p[1] = <<Express, p[1][2]>> /\ p[1] \notin x_finished
        /\ p[2] \in ExpressServers
        /\ \A s \in ExpressServers : p[1] \notin x_serving[s]
  BY <1>1, <1>2, <1>4 DEF XP!OnePlace
<1>8. \A s, r \in ExpressServers : s # r => x_serving[s] \cap x_serving[r] = {}
  BY <1>1 DEF XP!OnePlace
<1>9. ASSUME NEW s \in ExpressServers
      PROVE  /\ IsFiniteSet(x_serving[s])
             /\ \A p \in x_tasks : p[2] = s => Cardinality(x_serving[s]) < MaxConcurrency
  <2>1. IsFiniteSet(x_serving[s]) /\ IsFiniteSet(x_tasks)
    BY DEF XP!SlotsInv, XP!Finite, XP!IsFiniteSet, IsFiniteSet
  <2>2. PICK a, b, c, d, e, f :
          /\ a = x_requested[s] /\ b = x_pulls[s] /\ c = XP!Cardinality(XP!Parked(s))
          /\ d = XP!Cardinality(XP!Incoming(s)) /\ e = x_in_flight[s]
          /\ f = XP!Cardinality(x_serving[s])
    OBVIOUS
  <2>3. e = f /\ a + b + c + d + e = MaxConcurrency
    BY <2>2 DEF XP!SlotsInv, XP!SlotConservation
  <2>4. XP!Incoming(s) = {p \in x_tasks : p[2] = s}
    BY DEF XP!Incoming
  <2>5. /\ d = Cardinality(XP!Incoming(s)) /\ f = Cardinality(x_serving[s])
        /\ IsFiniteSet(XP!Incoming(s))
    BY <2>1, <2>2, <2>4, XCardinality, FS_Subset
  <2>6. a \in Nat /\ b \in Nat /\ c \in Nat /\ d \in Nat /\ e \in Nat /\ f \in Nat
    <3>1. a \in Nat /\ b \in Nat /\ e \in Nat
      BY <1>1, <2>2 DEF XP!TypeOK
    <3>2. IsFiniteSet(XP!Parked(s))
      <4>1. x_waiting_servers[Express] \in Seq(ExpressServers)
        BY <1>1 DEF XP!TypeOK
      <4>2. /\ XP!Parked(s) \subseteq 1 .. Len(x_waiting_servers[Express])
            /\ Len(x_waiting_servers[Express]) \in Nat
        BY <4>1 DEF XP!Parked
      <4>3. IsFiniteSet(1 .. Len(x_waiting_servers[Express]))
        BY <4>2, FS_Interval
      <4> QED
        BY <4>2, <4>3, FS_Subset
    <3> QED
      BY <2>2, <2>3, <2>5, <3>1, <3>2, XCardinality, FS_CardinalityType
  <2>7. ASSUME NEW p \in x_tasks, p[2] = s PROVE Cardinality(x_serving[s]) < MaxConcurrency
    <3>1. XP!Incoming(s) # {}
      BY <2>4, <2>7
    <3>2. d # 0
      BY <2>5, <3>1, FS_EmptySet
    <3>3. f < MaxConcurrency
      BY <2>3, <2>6, <3>2, PushDispatchAssumption
    <3> QED
      BY <2>5, <3>3
  <2> QED
    BY <2>1, <2>7
<1> QED
  BY <1>2, <1>5, <1>6, <1>7, <1>8, <1>9 DEF ExpressNames

(***************************************************************************)
(* The express balancer has named each task handed over once, and a task   *)
(* handed over is evicted until the express side finishes it.              *)
(***************************************************************************)
HandedInv ==
  /\ handed \in Seq([task : Task, origin : Servers])
  /\ Len(handed) = x_next_task_id[Express]
  /\ \A i, j \in DOMAIN handed : handed[i].task = handed[j].task => i = j
  /\ \A i \in DOMAIN handed :
       IF <<Express, i - 1>> \in x_finished THEN handed[i].task \in finished
       ELSE handed[i] \in evicted

LEMMA HandedStays ==
  ASSUME HandedInv, UNCHANGED <<handed, x_next_task_id, x_finished>>,
         evicted \subseteq evicted', finished \subseteq finished'
  PROVE  HandedInv'
BY DEF HandedInv

(* A regular step takes nothing back from the express lane or the sink. *)
LEMMA RegularGrows ==
  ASSUME Next
  PROVE  evicted \subseteq evicted' /\ finished \subseteq finished'
<1>1. ASSUME NEW s \in Servers, NEW t, Forward(s, t) PROVE evicted \subseteq evicted'
  BY <1>1 DEF Forward, ForwardShed, ForwardEvicted
<1>2. ASSUME NEW l \in LBs, LBReceive(l) \/ \E d \in Durations : Arrive(l, d)
      PROVE  evicted \subseteq evicted' /\ finished \subseteq finished'
  BY <1>2 DEF LBReceive, Arrive
<1>3. ASSUME NEW s \in Servers, ServerInput(s)
      PROVE  evicted \subseteq evicted' /\ finished \subseteq finished'
  BY <1>1, <1>3 DEF ServerInput
<1>4. ASSUME NEW s \in Servers, NEW timer, TimerFires(s, timer)
      PROVE  evicted \subseteq evicted' /\ finished \subseteq finished'
  <2>1. finished' = finished /\ (evicted' = evicted \/ \E t : Forward(s, t))
    BY <1>4, Zenon DEF TimerFires
  <2> QED
    BY <1>1, <2>1
<1>5. ASSUME NEW s \in Servers, NEW c, Complete(s, c)
      PROVE  evicted \subseteq evicted' /\ finished \subseteq finished'
  BY <1>5 DEF Complete
<1>6. ASSUME Tick \/ Finished
      PROVE  evicted \subseteq evicted' /\ finished \subseteq finished'
  BY <1>6 DEF Tick, Finished, vars
<1> QED
  BY <1>2, <1>3, <1>4, <1>5, <1>6 DEF Next

LEMMA RegularIsNext ==
  ASSUME RegularStep
  PROVE  Next
BY DEF RegularStep, ExpressTick, Next

-----------------------------------------------------------------------------
(* The express side keeps both invariants *)

(* The task of an express server was handed over and is still evicted. *)
LEMMA ServedIsEvicted ==
  ASSUME HandedInv, ExpressNames, NEW t, Named(t), t = <<Express, t[2]>>, t \notin x_finished
  PROVE  /\ t[2] + 1 \in DOMAIN handed
         /\ EvictedTask(t) = handed[t[2] + 1]
         /\ EvictedTask(t) \in evicted
<1>1. PICK n \in Nat : n = t[2] /\ n < Len(handed)
  BY DEF HandedInv, Named
<1>2. DOMAIN handed = 1 .. Len(handed) /\ Len(handed) \in Nat
  BY DEF HandedInv
<1>3. n + 1 \in DOMAIN handed /\ (n + 1) - 1 = n
  BY <1>1, <1>2
<1>4. <<Express, (n + 1) - 1>> \notin x_finished
  BY <1>1, <1>3
<1>5. handed[n + 1] \in evicted
  BY <1>3, <1>4 DEF HandedInv
<1> QED
  BY <1>1, <1>3, <1>5 DEF EvictedTask

LEMMA ExpressInputHands ==
  ASSUME PushInv, HandedInv, ExpressNames, NEW x \in evicted, ExpressInput(x)
  PROVE  PushInv' /\ HandedInv'
<1>1. /\ \A i \in DOMAIN handed : handed[i] # x
      /\ handed' = Append(handed, x) /\ UNCHANGED vars /\ X!Input(Express)
  BY DEF ExpressInput
<1>2. PushInv'
  <2>1. now' \in Nat /\ UNCHANGED <<overflow, arrived, local_inflight, lb_inbox, server_inbox,
                                    server, evicted, finished>>
    BY <1>1 DEF PushInv, PushTypes, vars
  <2> QED
    BY <2>1, ClockPush
<1>3. x_next_task_id'[Express] = x_next_task_id[Express] + 1 /\ x_finished' = x_finished
  <2>1. x_next_task_id' = [x_next_task_id EXCEPT ![Express] = x_next_task_id[Express] + 1]
        /\ x_finished' = x_finished
    BY <1>1, Zenon DEF X!Input
  <2>2. Express \in DOMAIN x_next_task_id
    BY DEF ExpressNames
  <2> QED
    BY <2>1, <2>2
<1>4. /\ handed \in Seq([task : Task, origin : Servers]) /\ x \in [task : Task, origin : Servers]
      /\ Len(handed) = x_next_task_id[Express]
      /\ \A i, j \in DOMAIN handed : handed[i].task = handed[j].task => i = j
      /\ \A i \in DOMAIN handed :
           IF <<Express, i - 1>> \in x_finished THEN handed[i].task \in finished
           ELSE handed[i] \in evicted
      /\ evicted' = evicted /\ finished' = finished
  BY <1>1 DEF HandedInv, PushInv, PushTypes, vars
<1>5. PICK n : n = Len(handed) + 1
  OBVIOUS
<1>6. /\ handed' \in Seq([task : Task, origin : Servers]) /\ Len(handed') = n
      /\ DOMAIN handed' = 1 .. n /\ DOMAIN handed = 1 .. n - 1 /\ n \in Nat
      /\ \A i \in DOMAIN handed : handed'[i] = handed[i]
      /\ handed'[n] = x
      /\ \A i \in DOMAIN handed' : i \in DOMAIN handed \/ i = n
  <2>1. /\ Append(handed, x) \in Seq([task : Task, origin : Servers])
        /\ DOMAIN Append(handed, x) = 1 .. Len(handed) + 1
        /\ Len(Append(handed, x)) = Len(handed) + 1
        /\ \A i \in DOMAIN handed : Append(handed, x)[i] = handed[i]
        /\ Append(handed, x)[Len(handed) + 1] = x
    BY <1>4, PushBack
  <2>2. Len(handed) \in Nat /\ DOMAIN handed = 1 .. Len(handed)
    BY <1>4
  <2> QED
    BY <1>1, <1>5, <2>1, <2>2
<1>7. \A i \in DOMAIN handed : handed[i].task # x.task
  <2> SUFFICES ASSUME NEW i \in DOMAIN handed, handed[i].task = x.task PROVE FALSE
    OBVIOUS
  <2>1. OnePlace /\ AllSomewhere /\ x.task \in Evicted /\ \A y, z \in evicted : y.task = z.task => y = z
    BY DEF PushInv, Once, Evicted
  <2>2. x.task \notin finished
    BY <2>1, OnlyEvicted
  <2>3. handed[i] \in evicted
    BY <1>4, <2>2
  <2> QED
    BY <1>1, <2>1, <2>3
<1>8. <<Express, n - 1>> \notin x_finished
  <2> SUFFICES ASSUME <<Express, n - 1>> \in x_finished PROVE FALSE
    OBVIOUS
  <2>1. Named(<<Express, n - 1>>)
    BY DEF ExpressNames
  <2>2. n - 1 = x_next_task_id[Express] /\ x_next_task_id[Express] \in Nat
    BY <1>4, <1>5 DEF ExpressNames
  <2> QED
    BY <2>1, <2>2 DEF Named
<1>9. \A i, j \in DOMAIN handed' : handed'[i].task = handed'[j].task => i = j
  BY <1>4, <1>6, <1>7
<1>10. ASSUME NEW i \in DOMAIN handed'
       PROVE  IF <<Express, i - 1>> \in x_finished' THEN handed'[i].task \in finished'
              ELSE handed'[i] \in evicted'
  <2>1. CASE i = n
    BY <1>3, <1>4, <1>6, <1>8, <2>1
  <2>2. CASE i \in DOMAIN handed
    BY <1>3, <1>4, <1>6, <2>2
  <2> QED
    BY <1>6, <2>1, <2>2
<1>11. Len(handed') = x_next_task_id'[Express]
  BY <1>3, <1>4, <1>5, <1>6
<1> QED
  BY <1>2, <1>6, <1>9, <1>10, <1>11 DEF HandedInv

(* Server::complete of an express server, seen from the regular side. *)
LEMMA ExpressCompletePush ==
  ASSUME PushInv, NEW x \in evicted,
         finished' = finished \cup {x.task}, evicted' = evicted \ {x},
         lb_inbox' = Send(lb_inbox, x.task.lb,
                          << [type |-> "release", server |-> x.origin, task |-> x.task] >>),
         UNCHANGED <<overflow, now, arrived, local_inflight, server_inbox, server>>
  PROVE  PushInv'
<1>1. /\ PushTypes /\ OnePlace /\ AllSomewhere /\ AtHome /\ Once /\ SlotsBusy /\ ReleaseAccounting
  BY DEF PushInv
<1>2. PICK t, s : t = x.task /\ s = x.origin
  OBVIOUS
<1>3. t \in Task /\ s \in Servers /\ t \in Evicted
  BY <1>1, <1>2 DEF PushTypes, Evicted
<1>4. /\ t \in arrived
      /\ \A r \in Servers : t \notin Sent(r) /\ t \notin Queued(r) /\ t \notin Running(r)
      /\ \A l \in LBs : t \notin Returned(l)
      /\ t \notin finished
  BY <1>1, <1>3, OnlyEvicted
<1>5. /\ Mailboxes(lb_inbox')
      /\ \A l \in LBs : \A u : u \in Returned(l)' <=> u \in Returned(l)
      /\ \A l \in LBs, r \in Servers :
           Count(lb_inbox'[l], ReleasesOf(r)) =
             Count(lb_inbox[l], ReleasesOf(r)) + IF r = s /\ t.lb = l THEN 1 ELSE 0
  <2>1. lb_inbox' = Send(lb_inbox, t.lb, << [type |-> "release", server |-> s, task |-> t] >>)
    BY <1>2
  <2> QED
    BY <1>3, <2>1, SendRelease
<1>6. \A y \in evicted : y.task = t <=> y = x
  BY <1>1, <1>2 DEF Once
<1>7. \A u : u \in Evicted' <=> u \in Evicted /\ u # t
  BY <1>6 DEF Evicted
<1>8. \A r \in Servers : Orderly(server'[r])
  <2>1. \A r \in Servers : Orderly(server[r])
    BY <1>1, OrderlyNow
  <2> QED
    BY <2>1
<1>9. OnePlace' /\ AllSomewhere' /\ AtHome'
  <2>1. PICK p \in Place : p = <<"finished", "sink">>
    BY Places
  <2>2. ASSUME NEW r \in Servers, NEW u
        PROVE  /\ u \in Sent(r)' <=> IF u = t THEN p = <<"sent", r>> ELSE u \in Sent(r)
               /\ u \in Queued(r)' <=> IF u = t THEN p = <<"queued", r>> ELSE u \in Queued(r)
               /\ u \in Running(r)' <=> IF u = t THEN p = <<"running", r>> ELSE u \in Running(r)
    <3>1. Sent(r)' = Sent(r) /\ Queued(r)' = Queued(r) /\ Running(r)' = Running(r)
      BY DEF Sent, Queued, Running
    <3>2. CASE u = t
      BY <1>4, <2>1, <3>1, <3>2
    <3>3. CASE u # t
      BY <3>1, <3>3
    <3> QED
      BY <3>2, <3>3
  <2>3. ASSUME NEW l \in LBs, NEW u
        PROVE  u \in Returned(l)' <=> IF u = t THEN p = <<"returned", l>> ELSE u \in Returned(l)
    BY <1>4, <1>5, <2>1
  <2>4. \A u : u \in Evicted' <=> IF u = t THEN p = <<"evicted", "express">> ELSE u \in Evicted
    BY <1>7, <2>1
  <2>5. \A u : u \in finished' <=> IF u = t THEN p = <<"finished", "sink">> ELSE u \in finished
    BY <1>2, <2>1
  <2>6. \A r \in Servers :
          p = <<"sent", r>> \/ p = <<"queued", r>> \/ p = <<"running", r>> => r \in Subset[t.lb]
    BY <2>1
  <2>7. arrived' = arrived \cup {t}
    BY <1>4
  <2> QED
    BY <1>1, <1>5, <2>2, <2>3, <2>4, <2>5, <2>6, <2>7, TaskMoves
<1>10. PushTypes'
  <2>1. IsFiniteSet(evicted')
    BY <1>1, FS_Subset DEF PushTypes
  <2> QED
    BY <1>1, <1>2, <1>3, <1>5, <2>1 DEF PushTypes, Mailboxes
<1>11. Once'
  BY <1>1, <1>5, <1>8, OnceNext DEF Once
<1>12. SlotsBusy'
  BY <1>1 DEF SlotsBusy
<1>13. ASSUME NEW k \in LBs, NEW r \in Servers
       PROVE  local_inflight'[k][r] =
                Count(server_inbox'[r], Of(k)) + Count(server'[r].queue, Of(k))
                + Cardinality(ServedFor(server'[r], k)) + Cardinality(AwayFrom(evicted', r, k))
                + Count(lb_inbox'[k], ReleasesOf(r))
  <2>1. /\ local_inflight[k][r] =
             Count(server_inbox[r], Of(k)) + Count(server[r].queue, Of(k))
             + Cardinality(ServedFor(server[r], k)) + Cardinality(AwayFrom(evicted, r, k))
             + Count(lb_inbox[k], ReleasesOf(r))
        /\ Count(server_inbox[r], Of(k)) \in Nat
        /\ Count(server[r].queue, Of(k)) \in Nat
        /\ Cardinality(ServedFor(server[r], k)) \in Nat
        /\ Cardinality(AwayFrom(evicted, r, k)) \in Nat
        /\ Count(lb_inbox[k], ReleasesOf(r)) \in Nat
    BY <1>1, AccountingNow
  <2>2. PICK n : n = IF r = s /\ t.lb = k THEN 1 ELSE 0
    OBVIOUS
  <2>3. IsFiniteSet(AwayFrom(evicted, r, k))
    BY <1>1, FS_Subset DEF PushTypes, AwayFrom
  <2>4. Cardinality(AwayFrom(evicted, r, k)) = Cardinality(AwayFrom(evicted', r, k)) + n
        /\ Cardinality(AwayFrom(evicted', r, k)) \in Nat
    <3>1. CASE r = s /\ t.lb = k
      <4>1. x \in AwayFrom(evicted, r, k)
            /\ AwayFrom(evicted', r, k) = AwayFrom(evicted, r, k) \ {x}
        BY <1>2, <3>1 DEF AwayFrom
      <4>2. Cardinality(AwayFrom(evicted', r, k)) = Cardinality(AwayFrom(evicted, r, k)) - 1
        BY <2>3, <4>1, FS_RemoveElement
      <4>3. Cardinality(AwayFrom(evicted', r, k)) \in Nat
        BY <2>3, <4>1, FS_Subset, FS_CardinalityType
      <4> QED
        BY <2>1, <2>2, <3>1, <4>2, <4>3
    <3>2. CASE ~(r = s /\ t.lb = k)
      <4>1. AwayFrom(evicted', r, k) = AwayFrom(evicted, r, k)
        BY <1>2, <3>2 DEF AwayFrom
      <4> QED
        BY <2>1, <2>2, <3>2, <4>1
    <3> QED
      BY <3>1, <3>2
  <2>5. Count(lb_inbox'[k], ReleasesOf(r)) = Count(lb_inbox[k], ReleasesOf(r)) + n /\ n \in Nat
    BY <1>5, <2>2
  <2>6. /\ local_inflight'[k][r] = local_inflight[k][r]
        /\ Count(server_inbox'[r], Of(k)) = Count(server_inbox[r], Of(k))
        /\ Count(server'[r].queue, Of(k)) = Count(server[r].queue, Of(k))
        /\ Cardinality(ServedFor(server'[r], k)) = Cardinality(ServedFor(server[r], k))
    OBVIOUS
  <2> QED
    BY <2>1, <2>4, <2>5, <2>6
<1>14. ReleaseAccounting'
  BY <1>10, <1>13, AccountingNext
<1> QED
  BY <1>9, <1>10, <1>11, <1>12, <1>14 DEF PushInv

LEMMA ExpressCompleteHands ==
  ASSUME PushInv, HandedInv, ExpressNames,
         NEW s \in ExpressServers, NEW t \in x_serving[s], ExpressComplete(s, t)
  PROVE  PushInv' /\ HandedInv'
<1>1. PICK x : x = EvictedTask(t)
  OBVIOUS
<1>2. /\ X!Complete(s, t)
      /\ finished' = finished \cup {x.task} /\ evicted' = evicted \ {x}
      /\ lb_inbox' = Send(lb_inbox, x.task.lb,
                          << [type |-> "release", server |-> x.origin, task |-> x.task] >>)
      /\ UNCHANGED <<handed, overflow, now, arrived, local_inflight, server_inbox, server>>
  BY <1>1 DEF ExpressComplete
<1>3. Named(t) /\ t = <<Express, t[2]>> /\ t \notin x_finished
  BY DEF ExpressNames
<1>4. t[2] + 1 \in DOMAIN handed /\ x = handed[t[2] + 1] /\ x \in evicted
  BY <1>1, <1>3, ServedIsEvicted
<1>5. PushInv'
  BY <1>2, <1>4, ExpressCompletePush
<1>6. x_finished' = x_finished \cup {t} /\ x_next_task_id' = x_next_task_id
  BY <1>2 DEF X!Complete, X!lbVars
<1>7. ASSUME NEW i \in DOMAIN handed
      PROVE  IF <<Express, i - 1>> \in x_finished' THEN handed[i].task \in finished'
             ELSE handed[i] \in evicted'
  <2>1. DOMAIN handed \subseteq Nat /\ t[2] \in Nat
    BY <1>3 DEF HandedInv, Named
  <2>2. CASE i = t[2] + 1
    <3>1. <<Express, i - 1>> = t
      BY <1>3, <2>1, <2>2
    <3> QED
      BY <1>2, <1>4, <1>6, <2>2, <3>1
  <2>3. CASE i # t[2] + 1
    <3>1. <<Express, i - 1>> # t
      BY <1>3, <2>1, <2>3
    <3>2. handed[i] # x
      BY <1>4, <2>3 DEF HandedInv
    <3> QED
      BY <1>2, <1>6, <3>1, <3>2 DEF HandedInv
  <2> QED
    BY <2>2, <2>3
<1>8. HandedInv'
  BY <1>2, <1>6, <1>7 DEF HandedInv
<1> QED
  BY <1>5, <1>8

(***************************************************************************)
(* Push dispatch keeps its invariant when the express lane takes tasks     *)
(* from it and finishes them, and HandedInv holds beside it.               *)
(***************************************************************************)
THEOREM ExpressInvariant == ExpressSafety => [](PushInv /\ HandedInv /\ ExpressNames)
<1>1. ExpressInit => PushInv /\ HandedInv
  <2> SUFFICES ASSUME ExpressInit PROVE PushInv /\ HandedInv
    OBVIOUS
  <2>1. PushInv
    BY InitPush DEF ExpressInit
  <2>2. handed = <<>> /\ x_next_task_id[Express] = 0
    BY DEF ExpressInit, X!Init
  <2> QED
    BY <2>1, <2>2 DEF HandedInv
<1>2. PushInv /\ HandedInv /\ ExpressNames /\ [ExpressNext]_allVars => PushInv' /\ HandedInv'
  <2> SUFFICES ASSUME PushInv, HandedInv, ExpressNames, [ExpressNext]_allVars
               PROVE  PushInv' /\ HandedInv'
    OBVIOUS
  <2>1. CASE RegularStep
    <3>1. PushInv'
      BY <2>1, RegularIsNext, NextPush
    <3>2. UNCHANGED <<handed, x_next_task_id, x_finished>>
      BY <2>1 DEF RegularStep, xvars
    <3>3. evicted \subseteq evicted' /\ finished \subseteq finished'
      BY <2>1, RegularIsNext, RegularGrows
    <3> QED
      BY <3>1, <3>2, <3>3, HandedStays
  <2>2. ASSUME NEW x \in evicted, ExpressInput(x) PROVE PushInv' /\ HandedInv'
    BY <2>2, ExpressInputHands
  <2>3. ASSUME NEW s \in ExpressServers, ExpressStep(s) PROVE PushInv' /\ HandedInv'
    <3>1. UNCHANGED <<vars, handed>>
      BY <2>3 DEF ExpressStep
    <3>2. UNCHANGED <<x_next_task_id, x_finished>>
      BY <2>3, Zenon DEF ExpressStep, X!RequestPull, X!Pull, X!Release, X!ServerInput, X!lbVars
    <3>3. PushInv'
      BY <3>1, NextPush
    <3>4. evicted \subseteq evicted' /\ finished \subseteq finished'
      BY <3>1 DEF vars
    <3> QED
      BY <3>1, <3>2, <3>3, <3>4, HandedStays
  <2>4. ASSUME NEW s \in ExpressServers, NEW t \in x_serving[s], ExpressComplete(s, t)
        PROVE  PushInv' /\ HandedInv'
    BY <2>4, ExpressCompleteHands
  <2>5. CASE ExpressFinished \/ UNCHANGED allVars
    <3>1. UNCHANGED vars /\ UNCHANGED <<handed, x_next_task_id, x_finished>>
      BY <2>5 DEF ExpressFinished, Finished, allVars, xvars
    <3>2. PushInv'
      BY <3>1, NextPush
    <3>3. evicted \subseteq evicted' /\ finished \subseteq finished'
      BY <3>1 DEF vars
    <3> QED
      BY <3>1, <3>2, <3>3, HandedStays
  <2> QED
    BY <2>1, <2>2, <2>3, <2>4, <2>5 DEF ExpressNext
<1>3. XP!SlotsInv => ExpressNames
  BY NamesKnown
<1>4. ExpressSafety => []ExpressNames
  BY <1>3, XSlots, PTL
<1> QED
  BY <1>1, <1>2, <1>4, PTL DEF ExpressSafety

(***************************************************************************)
(* The balancers' counters are exact in a run with an express lane too: an *)
(* evicted task is charged to its origin server until the express server   *)
(* that completes it releases it.                                          *)
(***************************************************************************)
THEOREM LaneReleases == ExpressSafety => []ReleaseAccounting
<1>1. PushInv => ReleaseAccounting
  BY DEF PushInv
<1> QED
  BY <1>1, ExpressInvariant, PTL

(***************************************************************************)
(* Nothing is evicted twice, or evicted and also run by its regular        *)
(* server; what was handed over and is not completed is what is evicted,   *)
(* of the tasks the express balancer has received.                         *)
(***************************************************************************)
THEOREM NothingEvictedTwice == ExpressSafety => []EvictedOnce
<1>1. PushInv /\ HandedInv /\ ExpressNames => EvictedOnce
  <2> SUFFICES ASSUME PushInv, HandedInv, ExpressNames PROVE EvictedOnce
    OBVIOUS
  <2>0. /\ OnePlace /\ AllSomewhere
        /\ \A x, y \in evicted : x.task = y.task => x = y
    BY DEF PushInv, Once
  <2>1. ASSUME NEW x \in evicted
        PROVE  /\ \A s \in Servers : x.task \notin Queued(s) /\ x.task \notin Running(s)
               /\ x.task \notin finished
    <3>1. x.task \in Evicted
      BY DEF Evicted
    <3> QED
      BY <2>0, <3>1, OnlyEvicted
  <2>2. ASSUME NEW x \in evicted, NEW s \in Servers
        PROVE  /\ x.task \notin {server[s].queue[i] : i \in DOMAIN server[s].queue}
               /\ x.task \notin {c.task : c \in server[s].completions}
    BY <2>1 DEF Queued, Running, Elements
  <2>3. \A i \in DOMAIN handed :
          handed[i] \in evicted <=> <<Express, i - 1>> \notin x_finished
    BY <2>1 DEF HandedInv
  <2>4. evicted \cap {handed[i] : i \in DOMAIN handed}
          = {handed[i] : i \in {j \in DOMAIN handed : <<Express, j - 1>> \notin x_finished}}
    BY <2>3
  <2> QED
    BY <2>2, <2>4 DEF EvictedOnce, HandedInv
<1> QED
  BY <1>1, ExpressInvariant, PTL

-----------------------------------------------------------------------------
(* The depth of a regular queue *)

(* A queue that changed is within the depth; the policy of a run is fixed. *)
QueueShallow(s) ==
  overflow \in {"depth", "combined"} =>
    Len(server'[s].queue) <= Len(server[s].queue) \/ Len(server'[s].queue) <= DepthThreshold

LEMMA DepthNext ==
  ASSUME PushTypes, DepthBounded, PushTypes', overflow' = overflow,
         \A s \in Servers : QueueShallow(s)
  PROVE  DepthBounded'
<1> SUFFICES ASSUME overflow \in {"depth", "combined"}, NEW s \in Servers
             PROVE  Len(server'[s].queue) <= DepthThreshold
  BY DEF DepthBounded
<1>1. PICK m, n : m = Len(server[s].queue) /\ n = Len(server'[s].queue)
  OBVIOUS
<1>2. server[s].queue \in Seq(Task) /\ server'[s].queue \in Seq(Task)
  BY DEF PushTypes, ServerState
<1>3. m \in Nat /\ n \in Nat /\ DepthThreshold \in Nat
  BY <1>1, <1>2, PushDispatchAssumption
<1>4. m <= DepthThreshold /\ (n <= m \/ n <= DepthThreshold)
  BY <1>1 DEF DepthBounded, QueueShallow
<1> QED
  BY <1>1, <1>3, <1>4

LEMMA OneServerShallow ==
  ASSUME PushTypes, NEW s \in Servers, NEW w, server' = [server EXCEPT ![s] = w],
         w.queue \in Seq(Task),
         overflow \in {"depth", "combined"} =>
           Len(w.queue) <= Len(server[s].queue) \/ Len(w.queue) <= DepthThreshold
  PROVE  \A r \in Servers : QueueShallow(r)
<1> TAKE r \in Servers
<1>1. server'[s] = w /\ (r # s => server'[r] = server[r])
  BY DEF PushTypes
<1>2. Len(server[r].queue) \in Nat
  BY DEF PushTypes, ServerState
<1>3. CASE r = s
  BY <1>1, <1>3 DEF QueueShallow
<1>4. CASE r # s
  BY <1>1, <1>2, <1>4 DEF QueueShallow
<1> QED
  BY <1>3, <1>4

LEMMA SameShallow ==
  ASSUME PushTypes, UNCHANGED server
  PROVE  \A s \in Servers : QueueShallow(s)
<1> TAKE s \in Servers
<1>1. server'[s] = server[s] /\ Len(server[s].queue) \in Nat
  BY DEF PushTypes, ServerState
<1> QED
  BY <1>1 DEF QueueShallow

(* apply_enqueue_eviction looks at the depth after the task was added. *)
LEMMA InputShallow ==
  ASSUME PushInv, NEW s \in Servers, ServerInput(s)
  PROVE  \A r \in Servers : QueueShallow(r)
<1>1. PICK t, v, u :
        /\ t = Head(server_inbox[s]) /\ v = server[s]
        /\ u = [server[s] EXCEPT !.queue = Append(@, t)]
  OBVIOUS
<1>2. PushTypes /\ now \in Nat /\ v \in ServerState /\ t \in Task /\ v.queue \in Seq(Task)
  BY <1>1, InputTask DEF PushInv, PushTypes, ServerState
<1>3. \/ HasSlot(v) /\ server' = [server EXCEPT ![s] = BeginService(@, t)]
      \/ UNCHANGED server
      \/ /\ ~GivesUpNow(u)
         /\ server' = [server EXCEPT ![s] = IF GivesUpLater(u) THEN SetTimer(u, t) ELSE u]
  BY <1>1 DEF ServerInput
<1>4. CASE server' = [server EXCEPT ![s] = BeginService(@, t)]
  <2>1. PICK w : w = BeginService(v, t)
    OBVIOUS
  <2>2. ServiceBegun(v, t, w)
    BY <1>2, <2>1, BeginServiceProperties
  <2>3. w.queue = v.queue /\ Len(v.queue) \in Nat
    BY <1>2, <2>2 DEF ServiceBegun
  <2>4. server' = [server EXCEPT ![s] = w]
    BY <1>1, <1>4, <2>1
  <2>5. w.queue = server[s].queue /\ w.queue \in Seq(Task)
    BY <1>1, <1>2, <2>3
  <2>6. Len(w.queue) <= Len(server[s].queue)
    BY <1>1, <2>3
  <2> QED
    BY <1>2, <2>4, <2>5, <2>6, OneServerShallow
<1>5. CASE /\ ~GivesUpNow(u)
           /\ server' = [server EXCEPT ![s] = IF GivesUpLater(u) THEN SetTimer(u, t) ELSE u]
  <2>1. PICK w : w = IF GivesUpLater(u) THEN SetTimer(u, t) ELSE u
    OBVIOUS
  <2>2. TaskQueued(v, t, w)
    BY <1>1, <1>2, <2>1, QueueTask
  <2>3. w.queue = Append(v.queue, t) /\ w.queue \in Seq(Task)
    BY <2>2 DEF TaskQueued, ServerState
  <2>4. u.queue = w.queue
    BY <1>1, <1>2, <2>3 DEF ServerState
  <2>5. overflow \in {"depth", "combined"} => ~(Len(w.queue) > DepthThreshold)
    BY <1>5, <2>4 DEF GivesUpNow
  <2>6. overflow \in {"depth", "combined"} => Len(w.queue) <= DepthThreshold
    BY <2>3, <2>5, PushDispatchAssumption
  <2>7. server' = [server EXCEPT ![s] = w]
    BY <1>5, <2>1
  <2> QED
    BY <1>2, <2>3, <2>6, <2>7, OneServerShallow
<1> QED
  BY <1>2, <1>3, <1>4, <1>5, SameShallow

LEMMA TimerShallow ==
  ASSUME PushInv, NEW s \in Servers, NEW timer \in server[s].timers, TimerFires(s, timer)
  PROVE  \A r \in Servers : QueueShallow(r)
<1>1. PICK v : v = server[s]
  OBVIOUS
<1>2. PushTypes /\ v.queue \in Seq(Task)
  BY <1>1 DEF PushInv, PushTypes, ServerState
<1>3. PICK w :
        /\ server' = [server EXCEPT ![s] = w]
        /\ TimerGone(v, timer, w) \/ \E i : TaskGone(v, timer, i, w)
  BY <1>1, TimerCases
<1>4. CASE TimerGone(v, timer, w)
  <2>1. w.queue = v.queue /\ Len(v.queue) \in Nat
    BY <1>2, <1>4 DEF TimerGone
  <2>2. Len(w.queue) <= Len(server[s].queue) /\ w.queue \in Seq(Task)
    BY <1>1, <1>2, <2>1
  <2> QED
    BY <1>2, <1>3, <2>2, OneServerShallow
<1>5. ASSUME NEW i, TaskGone(v, timer, i, w) PROVE \A r \in Servers : QueueShallow(r)
  <2>1. i \in DOMAIN v.queue /\ w.queue = RemoveAt(v.queue, i) /\ w.queue \in Seq(Task)
    BY <1>5 DEF TaskGone, ServerState
  <2>2. Len(w.queue) = Len(v.queue) - 1 /\ Len(v.queue) \in Nat
    BY <1>2, <2>1, RemoveAtProperties
  <2>3. Len(w.queue) <= Len(v.queue)
    BY <2>2
  <2> QED
    BY <1>1, <1>2, <1>3, <2>1, <2>3, OneServerShallow
<1> QED
  BY <1>3, <1>4, <1>5

LEMMA CompleteShallow ==
  ASSUME PushInv, NEW s \in Servers, NEW c \in server[s].completions, Complete(s, c)
  PROVE  \A r \in Servers : QueueShallow(r)
<1>1. PICK v : v = server[s]
  OBVIOUS
<1>2. PushTypes /\ v.queue \in Seq(Task)
  BY <1>1 DEF PushInv, PushTypes, ServerState
<1>3. PICK w : /\ server' = [server EXCEPT ![s] = w]
               /\ Ended(v, c, w) \/ \E d : EndedAndNext(v, c, d, w)
  BY <1>1, CompleteCases
<1>4. w.queue \in Seq(Task) /\ (w.queue = v.queue \/ (v.queue # <<>> /\ w.queue = Tail(v.queue)))
  BY <1>3 DEF Ended, EndedAndNext, ServerState
<1>5. Len(w.queue) <= Len(v.queue)
  <2>1. PICK q : q = v.queue
    OBVIOUS
  <2>2. Len(q) \in Nat /\ (q # <<>> => Len(Tail(q)) = Len(q) - 1)
    BY <1>2, <2>1
  <2>3. CASE w.queue = q
    BY <2>1, <2>2, <2>3
  <2>4. CASE q # <<>> /\ w.queue = Tail(q)
    <3>1. Len(w.queue) = Len(q) - 1
      BY <2>2, <2>4
    <3> QED
      BY <2>1, <2>2, <3>1
  <2> QED
    BY <1>4, <2>1, <2>3, <2>4
<1> QED
  BY <1>1, <1>2, <1>3, <1>4, <1>5, OneServerShallow

(***************************************************************************)
(* With --express-th a regular queue never holds more tasks than the       *)
(* threshold, whatever arrives, comes back or is handed to the lane.       *)
(***************************************************************************)
THEOREM RegularQueuesShallow == ExpressSafety => []DepthBounded
<1>1. ExpressInit => DepthBounded
  <2> SUFFICES ASSUME ExpressInit, NEW s \in Servers PROVE Len(server[s].queue) <= DepthThreshold
    BY DEF DepthBounded
  <2>1. server[s].queue = <<>>
    BY DEF ExpressInit, Init, IdleServer
  <2> QED
    BY <2>1, PushDispatchAssumption
<1>2. PushInv /\ PushInv' /\ DepthBounded /\ [ExpressNext]_allVars => DepthBounded'
  <2> SUFFICES ASSUME PushInv, PushInv', DepthBounded, [ExpressNext]_allVars
               PROVE  DepthBounded'
    OBVIOUS
  <2>1. PushTypes /\ PushTypes'
    BY DEF PushInv
  <2>2. ASSUME overflow' = overflow, \A s \in Servers : QueueShallow(s) PROVE DepthBounded'
    BY <2>1, <2>2, DepthNext
  <2>3. ASSUME UNCHANGED <<overflow, server>> PROVE DepthBounded'
    BY <2>1, <2>2, <2>3, SameShallow
  <2>4. ASSUME Next PROVE DepthBounded'
    <3>1. ASSUME NEW l \in LBs, LBReceive(l) \/ \E d \in Durations : Arrive(l, d)
          PROVE  DepthBounded'
      BY <2>3, <3>1 DEF LBReceive, Arrive
    <3>2. ASSUME NEW s \in Servers, ServerInput(s) PROVE DepthBounded'
      <4>1. overflow' = overflow
        BY <3>2 DEF ServerInput
      <4> QED
        BY <2>2, <3>2, <4>1, InputShallow
    <3>3. ASSUME NEW s \in Servers, NEW timer \in server[s].timers, TimerFires(s, timer)
          PROVE  DepthBounded'
      <4>1. overflow' = overflow
        BY <3>3 DEF TimerFires
      <4> QED
        BY <2>2, <3>3, <4>1, TimerShallow
    <3>4. ASSUME NEW s \in Servers, NEW c \in server[s].completions, Complete(s, c)
          PROVE  DepthBounded'
      <4>1. overflow' = overflow
        BY <3>4 DEF Complete
      <4> QED
        BY <2>2, <3>4, <4>1, CompleteShallow
    <3>5. CASE Tick \/ Finished
      BY <2>3, <3>5 DEF Tick, Finished, vars
    <3> QED
      BY <2>4, <3>1, <3>2, <3>3, <3>4, <3>5 DEF Next
  <2>5. CASE RegularStep
    BY <2>4, <2>5, RegularIsNext
  <2>6. CASE \/ \E x \in evicted : ExpressInput(x)
             \/ \E s \in ExpressServers : ExpressStep(s) \/ \E t \in x_serving[s] : ExpressComplete(s, t)
             \/ ExpressFinished \/ UNCHANGED allVars
    <3>1. UNCHANGED <<overflow, server>>
      BY <2>6, Zenon DEF ExpressInput, ExpressStep, ExpressComplete, ExpressFinished, Finished,
         vars, allVars
    <3> QED
      BY <2>3, <3>1
  <2> QED
    BY <2>5, <2>6 DEF ExpressNext
<1>3. PushInv /\ HandedInv /\ ExpressNames => PushInv
  OBVIOUS
<1> QED
  BY <1>1, <1>2, <1>3, ExpressInvariant, PTL DEF ExpressSafety

-----------------------------------------------------------------------------
(* The steps of both sides are steps of one TaskService. *)

(* The tasks in service on express server s. *)
Served(s) == {EvictedTask(t).task : t \in x_serving[s]}

PoolRunning ==
  [s \in Servers \cup ExpressServers |->
     IF s \in Servers THEN {c.task : c \in server[s].completions}
     ELSE {EvictedTask(t).task : t \in x_serving[s]}]

LEMMA PoolCardinality ==
  ASSUME NEW S
  PROVE  Pool!Cardinality(S) = Cardinality(S)
BY DEF Cardinality, Pool!Cardinality, IsFiniteSet, Pool!IsFiniteSet

LEMMA PoolSteps ==
  ASSUME NEW t \in Task
  PROVE  /\ Pool!Submit(t) => Pool!Next
         /\ \A s \in Servers \cup ExpressServers : Pool!Start(t, s) => Pool!Next
         /\ \A s \in Servers \cup ExpressServers : Pool!Finish(t, s) => Pool!Next
         /\ \A s \in Servers \cup ExpressServers, u \in Task : Pool!HandOver(t, u, s) => Pool!Next
BY DEF Pool!Next, Pool!Starts, Pool!Finishes

LEMMA PoolOfTwo ==
  /\ \A s \in Servers : PoolRunning[s] = Running(s) /\ PoolRunning[s] = Serving[s]
  /\ \A s \in ExpressServers : PoolRunning[s] = Served(s)
BY ExpressLaneAssumption DEF PoolRunning, Serving, Served, Running

(* The pool changes where one of its servers changes. *)
LEMMA PoolStays ==
  ASSUME Serving' = Serving, \A s \in ExpressServers : Served(s)' = Served(s)
  PROVE  PoolRunning' = PoolRunning
<1>1. PoolRunning = [s \in Servers \cup ExpressServers |->
                       IF s \in Servers THEN Serving[s] ELSE Served(s)]
  BY DEF PoolRunning, Serving, Served
<1>2. PoolRunning' = [s \in Servers \cup ExpressServers |->
                        IF s \in Servers THEN Serving'[s] ELSE Served(s)']
  BY DEF PoolRunning, Serving, Served
<1> QED
  BY <1>1, <1>2

LEMMA RegularPoolChanges ==
  ASSUME NEW s \in Servers, NEW T, Serving' = [Serving EXCEPT ![s] = T],
         \A r \in ExpressServers : Served(r)' = Served(r)
  PROVE  PoolRunning' = [PoolRunning EXCEPT ![s] = T]
<1>1. PICK f : f = PoolRunning
  OBVIOUS
<1>2. f = [r \in Servers \cup ExpressServers |-> IF r \in Servers THEN Serving[r] ELSE Served(r)]
  BY <1>1 DEF PoolRunning, Serving, Served
<1>3. PoolRunning' = [r \in Servers \cup ExpressServers |->
                        IF r \in Servers THEN Serving'[r] ELSE Served(r)']
  BY DEF PoolRunning, Serving, Served
<1>4. \A r \in Servers : Serving'[r] = IF r = s THEN T ELSE Serving[r]
  BY DEF Serving
<1>5. PICK g, h : g = Serving /\ h = Serving'
  OBVIOUS
<1>6. \A r \in Servers \cup ExpressServers :
        (IF r \in Servers THEN Serving'[r] ELSE Served(r)') = IF r = s THEN T ELSE f[r]
  BY <1>2, <1>4
<1>7. PoolRunning' = [r \in Servers \cup ExpressServers |-> IF r = s THEN T ELSE f[r]]
  BY <1>3, <1>6
<1> QED
  BY <1>1, <1>2, <1>7

LEMMA ExpressPoolChanges ==
  ASSUME NEW s \in ExpressServers, NEW T, Serving' = Serving, Served(s)' = T,
         \A r \in ExpressServers : r # s => Served(r)' = Served(r)
  PROVE  PoolRunning' = [PoolRunning EXCEPT ![s] = T]
<1>1. PICK f : f = PoolRunning
  OBVIOUS
<1>2. f = [r \in Servers \cup ExpressServers |-> IF r \in Servers THEN Serving[r] ELSE Served(r)]
  BY <1>1 DEF PoolRunning, Serving, Served
<1>3. PoolRunning' = [r \in Servers \cup ExpressServers |->
                        IF r \in Servers THEN Serving'[r] ELSE Served(r)']
  BY DEF PoolRunning, Serving, Served
<1>4. s \notin Servers
  BY ExpressLaneAssumption
<1>5. \A r \in Servers \cup ExpressServers :
        (IF r \in Servers THEN Serving'[r] ELSE Served(r)') = IF r = s THEN T ELSE f[r]
  BY <1>2, <1>4
<1>6. PoolRunning' = [r \in Servers \cup ExpressServers |-> IF r = s THEN T ELSE f[r]]
  BY <1>3, <1>5
<1> QED
  BY <1>1, <1>2, <1>6

(* Nothing an express server runs has left the lane, or is in two places of it. *)
LEMMA ServedOnce ==
  ASSUME HandedInv, ExpressNames, NEW s \in ExpressServers
  PROVE  /\ Served(s) \subseteq Evicted
         /\ \A t \in x_serving[s] : \A u : Named(u) /\ u = <<Express, u[2]>> /\ u \notin x_finished =>
              (EvictedTask(t).task = EvictedTask(u).task => t = u)
<1>1. \A t \in x_serving[s] :
        /\ Named(t) /\ t = <<Express, t[2]>>
        /\ t[2] + 1 \in DOMAIN handed /\ EvictedTask(t) = handed[t[2] + 1] /\ EvictedTask(t) \in evicted
  BY ServedIsEvicted DEF ExpressNames
<1>2. Served(s) \subseteq Evicted
  BY <1>1 DEF Served, Evicted
<1>3. ASSUME NEW t \in x_serving[s], NEW u, Named(u), u = <<Express, u[2]>>, u \notin x_finished,
             EvictedTask(t).task = EvictedTask(u).task
      PROVE  t = u
  <2>1. u[2] + 1 \in DOMAIN handed /\ EvictedTask(u) = handed[u[2] + 1]
    BY <1>3, ServedIsEvicted
  <2>2. PICK m, n : m = t[2] /\ n = u[2]
    OBVIOUS
  <2>3. m \in Nat /\ n \in Nat
    BY <1>1, <1>3, <2>2 DEF Named
  <2>4. m + 1 = n + 1
    BY <1>1, <1>3, <2>1, <2>2 DEF HandedInv
  <2>5. m = n
    BY <2>3, <2>4
  <2> QED
    BY <1>1, <1>3, <2>2, <2>5
<1> QED
  BY <1>2, <1>3

(* The names on the express servers stand for the same tasks as long as both last. *)
LEMMA SameServed ==
  ASSUME HandedInv, ExpressNames, UNCHANGED x_serving,
         handed' = handed \/ \E x : handed' = Append(handed, x)
  PROVE  \A s \in ExpressServers : Served(s)' = Served(s)
<1> TAKE s \in ExpressServers
<1>1. ASSUME NEW t \in x_serving[s] PROVE handed'[t[2] + 1] = handed[t[2] + 1]
  <2>1. Named(t) /\ t = <<Express, t[2]>> /\ t \notin x_finished
    BY DEF ExpressNames
  <2>2. PICK n : n = t[2] + 1
    OBVIOUS
  <2>3. n \in DOMAIN handed
    BY <2>1, <2>2, ServedIsEvicted
  <2>4. ASSUME NEW x, handed' = Append(handed, x) PROVE handed'[n] = handed[n]
    <3>1. handed \in Seq([task : Task, origin : Servers])
      BY DEF HandedInv
    <3>2. Append(handed, x)[n] = handed[n]
      BY <2>3, <3>1
    <3> QED
      BY <2>4, <3>2
  <2> QED
    BY <2>2, <2>4
<1> QED
  BY <1>1 DEF Served, EvictedTask

(* A step of the regular servers is a step of the pool: what they start is in no express server. *)
LEMMA RegularPool ==
  ASSUME PushInv, HandedInv, ExpressNames, PushInv', evicted \subseteq evicted',
         UNCHANGED <<handed, x_serving>>, Service!Next
  PROVE  Pool!Next
<1>1. \A s \in ExpressServers : Served(s)' = Served(s)
  BY SameServed
<1>2. \A s \in ExpressServers : Served(s) \subseteq Evicted'
  BY ServedOnce DEF Evicted
<1>3. PICK t \in Task : Service!Submit(t) \/ Service!Starts(t) \/ Service!Finishes(t)
  BY DEF Service!Next
<1>4. CASE Service!Submit(t)
  <2>1. t \notin arrived /\ arrived' = arrived \cup {t} /\ Serving' = Serving /\ finished' = finished
    BY <1>4 DEF Service!Submit, Serving
  <2>2. PoolRunning' = PoolRunning
    BY <1>1, <2>1, PoolStays
  <2>3. Pool!Submit(t)
    BY <2>1, <2>2 DEF Pool!Submit, PoolRunning
  <2> QED
    BY <2>3, PoolSteps
<1>5. ASSUME NEW u \in Task, Service!Waiting(u), \E s \in Servers : u \in Running(s)'
      PROVE  Pool!Waiting(u)
  <2>1. u \in arrived \ finished /\ \A s \in Servers : u \notin Running(s)
    BY <1>5 DEF Service!Waiting, Running
  <2>2. u \notin Evicted'
    <3>1. PICK s \in Servers : u \in Running(s)'
      BY <1>5
    <3>2. PICK p, r \in Place : p = <<"running", s>> /\ r = <<"evicted", "express">>
      BY Places
    <3>3. p[1] = "running" /\ p[2] = s /\ r[1] = "evicted" /\ p # r
      BY <3>2
    <3>4. At(p)' = Running(s)' /\ At(r)' = Evicted'
      BY <3>2 DEF At
    <3>5. \A v \in At(p)' \cap At(r)' : p = r
      <4>1. Place' = Place
        BY DEF Place
      <4>2. OnePlace'
        BY DEF PushInv
      <4> QED
        BY <4>1, <4>2 DEF OnePlace
    <3> QED
      BY <3>1, <3>3, <3>4, <3>5
  <2>3. \A s \in Servers \cup ExpressServers : u \notin PoolRunning[s]
    BY <1>2, <2>1, <2>2, PoolOfTwo
  <2> QED
    BY <2>1, <2>3 DEF Pool!Waiting, PoolRunning
<1>6. ASSUME NEW s \in Servers, Service!Start(t, s) PROVE Pool!Next
  <2>1. /\ Service!Waiting(t) /\ Service!Cardinality(Serving[s]) < MaxConcurrency
        /\ <<t, s>> \in {p \in Task \X Servers : p[2] \in Subset[p[1].lb]}
        /\ Serving' = [Serving EXCEPT ![s] = Serving[s] \cup {t}]
        /\ arrived' = arrived /\ finished' = finished
    BY <1>6 DEF Service!Start, Serving
  <2>2. t \in Running(s)'
    BY <2>1 DEF Serving, Running
  <2>3. Pool!Waiting(t)
    BY <1>5, <2>1, <2>2
  <2>4. PoolRunning' = [PoolRunning EXCEPT ![s] = PoolRunning[s] \cup {t}]
    BY <1>1, <2>1, PoolOfTwo, RegularPoolChanges
  <2>5. Pool!Cardinality(PoolRunning[s]) < MaxConcurrency
    BY <2>1, PoolOfTwo, PoolCardinality, ServiceCardinality
  <2>6. <<t, s>> \in {p \in Task \X (Servers \cup ExpressServers) :
                        p[2] \in Subset[p[1].lb] \cup ExpressServers}
    BY <2>1
  <2>7. Pool!Start(t, s)
    BY <2>1, <2>3, <2>4, <2>5, <2>6 DEF Pool!Start, PoolRunning
  <2> QED
    BY <2>7, PoolSteps
<1>7. ASSUME NEW s \in Servers, Service!Finish(t, s) PROVE Pool!Next
  <2>1. /\ t \in Serving[s] /\ Serving' = [Serving EXCEPT ![s] = Serving[s] \ {t}]
        /\ finished' = finished \cup {t} /\ arrived' = arrived
    BY <1>7 DEF Service!Finish, Serving
  <2>2. /\ t \in PoolRunning[s]
        /\ PoolRunning' = [PoolRunning EXCEPT ![s] = PoolRunning[s] \ {t}]
    BY <1>1, <2>1, PoolOfTwo, RegularPoolChanges
  <2>3. Pool!Finish(t, s)
    BY <2>1, <2>2 DEF Pool!Finish, PoolRunning
  <2> QED
    BY <2>3, PoolSteps
<1>8. ASSUME NEW s \in Servers, NEW a \in Task, NEW u \in Task, Service!HandOver(a, u, s)
      PROVE  Pool!Next
  <2>1. /\ a \in Serving[s] /\ Service!Waiting(u)
        /\ <<u, s>> \in {p \in Task \X Servers : p[2] \in Subset[p[1].lb]}
        /\ Serving' = [Serving EXCEPT ![s] = (Serving[s] \ {a}) \cup {u}]
        /\ finished' = finished \cup {a} /\ arrived' = arrived
    BY <1>8 DEF Service!HandOver, Serving
  <2>2. u \in Running(s)'
    BY <2>1 DEF Serving, Running
  <2>3. Pool!Waiting(u)
    BY <1>5, <2>1, <2>2
  <2>4. /\ a \in PoolRunning[s]
        /\ PoolRunning' = [PoolRunning EXCEPT ![s] = (PoolRunning[s] \ {a}) \cup {u}]
    BY <1>1, <2>1, PoolOfTwo, RegularPoolChanges
  <2>5. <<u, s>> \in {p \in Task \X (Servers \cup ExpressServers) :
                        p[2] \in Subset[p[1].lb] \cup ExpressServers}
    BY <2>1
  <2>6. Pool!HandOver(a, u, s)
    BY <2>1, <2>3, <2>4, <2>5 DEF Pool!HandOver, PoolRunning
  <2> QED
    BY <2>6, PoolSteps
<1> QED
  BY <1>3, <1>4, <1>6, <1>7, <1>8 DEF Service!Starts, Service!Finishes

(* Server::input of an express server starts a task that is evicted and not served yet. *)
LEMMA ExpressStarts ==
  ASSUME PushInv, HandedInv, ExpressNames, NEW s \in ExpressServers, NEW p \in x_tasks, p[2] = s,
         X!ServerInput(p[1], s), UNCHANGED <<vars, handed>>
  PROVE  Pool!Next
<1>1. PICK t, x : t = p[1] /\ x = EvictedTask(t)
  OBVIOUS
<1>2. /\ Named(t) /\ t = <<Express, t[2]>> /\ t \notin x_finished
      /\ \A r \in ExpressServers : t \notin x_serving[r]
      /\ IsFiniteSet(x_serving[s]) /\ Cardinality(x_serving[s]) < MaxConcurrency
  BY <1>1 DEF ExpressNames
<1>3. x \in evicted
  BY <1>1, <1>2, ServedIsEvicted
<1>4. PICK u : u = x.task
  OBVIOUS
<1>5. /\ u \in Task /\ u \in arrived /\ u \notin finished
      /\ \A r \in Servers : u \notin Running(r)
  <2>1. u \in Evicted /\ u \in Task /\ OnePlace /\ AllSomewhere
    BY <1>3, <1>4 DEF PushInv, PushTypes, Evicted
  <2> QED
    BY <2>1, OnlyEvicted
<1>6. /\ x_serving' = [x_serving EXCEPT ![s] = x_serving[s] \cup {t}]
      /\ UNCHANGED <<arrived, server, finished, handed>>
  BY <1>1 DEF X!ServerInput, vars
<1>7. \A r \in ExpressServers : x_serving'[r] = IF r = s THEN x_serving[s] \cup {t} ELSE x_serving[r]
  BY <1>6 DEF ExpressNames
<1>8. \A v : EvictedTask(v)' = EvictedTask(v)
  BY <1>6 DEF EvictedTask
<1>9. \A r \in ExpressServers : Served(r)' = IF r = s THEN Served(s) \cup {u} ELSE Served(r)
  BY <1>1, <1>4, <1>7, <1>8 DEF Served
<1>10. PoolRunning' = [PoolRunning EXCEPT ![s] = PoolRunning[s] \cup {u}]
  <2>1. Serving' = Serving
    BY <1>6, SameServing
  <2> QED
    BY <1>9, <2>1, ExpressPoolChanges, PoolOfTwo
<1>11. \A r \in ExpressServers : u \notin Served(r)
  <2> SUFFICES ASSUME NEW r \in ExpressServers, NEW v \in x_serving[r], u = EvictedTask(v).task
               PROVE  FALSE
    BY DEF Served
  <2>1. v = t
    BY <1>1, <1>2, <1>4, ServedOnce
  <2> QED
    BY <1>2, <2>1
<1>12. Pool!Waiting(u)
  <2>1. \A r \in Servers \cup ExpressServers : u \notin PoolRunning[r]
    BY <1>5, <1>11, PoolOfTwo
  <2> QED
    BY <1>5, <2>1 DEF Pool!Waiting, PoolRunning
<1>13. Cardinality(Served(s)) < MaxConcurrency
  <2>1. PICK f : f = [v \in x_serving[s] |-> EvictedTask(v).task]
    OBVIOUS
  <2>2. f \in Surjection(x_serving[s], Served(s))
    BY <2>1 DEF Surjection, Served
  <2>3. IsFiniteSet(Served(s)) /\ Cardinality(Served(s)) <= Cardinality(x_serving[s])
    BY <1>2, <2>2, FS_Surjection
  <2>4. Cardinality(Served(s)) \in Nat /\ Cardinality(x_serving[s]) \in Nat
    BY <1>2, <2>3, FS_CardinalityType
  <2> QED
    BY <1>2, <2>3, <2>4, PushDispatchAssumption
<1>14. Pool!Cardinality(PoolRunning[s]) < MaxConcurrency
  BY <1>13, PoolOfTwo, PoolCardinality
<1>15. <<u, s>> \in {q \in Task \X (Servers \cup ExpressServers) :
                       q[2] \in Subset[q[1].lb] \cup ExpressServers}
  BY <1>5
<1>16. Pool!Start(u, s)
  BY <1>6, <1>10, <1>12, <1>14, <1>15 DEF Pool!Start, PoolRunning
<1> QED
  BY <1>5, <1>16, PoolSteps

(* Server::complete of an express server finishes the task for the pool. *)
LEMMA ExpressFinishes ==
  ASSUME PushInv, HandedInv, ExpressNames,
         NEW s \in ExpressServers, NEW t \in x_serving[s], ExpressComplete(s, t)
  PROVE  Pool!Next
<1>1. PICK u : u = EvictedTask(t).task
  OBVIOUS
<1>2. /\ x_serving' = [x_serving EXCEPT ![s] = x_serving[s] \ {t}]
      /\ finished' = finished \cup {u} /\ UNCHANGED <<arrived, server, handed>>
  BY <1>1 DEF ExpressComplete, X!Complete
<1>3. Served(s) \subseteq Evicted /\ u \in Served(s)
  BY <1>1, ServedOnce DEF Served
<1>4. u \in Task
  BY <1>3 DEF PushInv, PushTypes, Evicted
<1>5. \A r \in ExpressServers : x_serving'[r] = IF r = s THEN x_serving[s] \ {t} ELSE x_serving[r]
  BY <1>2 DEF ExpressNames
<1>6. \A v : EvictedTask(v)' = EvictedTask(v)
  BY <1>2 DEF EvictedTask
<1>7. \A v \in x_serving[s] : EvictedTask(v).task = u => v = t
  <2> TAKE v \in x_serving[s]
  <2>1. Named(t) /\ t = <<Express, t[2]>> /\ t \notin x_finished
    BY DEF ExpressNames
  <2> QED
    BY <1>1, <2>1, ServedOnce
<1>8. Served(s)' = Served(s) \ {u}
  <2>1. Served(s)' = {EvictedTask(v).task : v \in x_serving[s] \ {t}}
    BY <1>5, <1>6 DEF Served
  <2>2. Served(s) = {EvictedTask(v).task : v \in x_serving[s]}
    BY DEF Served
  <2> QED
    BY <1>1, <1>7, <2>1, <2>2
<1>9. \A r \in ExpressServers : r # s => Served(r)' = Served(r)
  BY <1>5, <1>6 DEF Served
<1>10. PoolRunning' = [PoolRunning EXCEPT ![s] = PoolRunning[s] \ {u}]
  <2>1. Serving' = Serving
    BY <1>2, SameServing
  <2> QED
    BY <1>8, <1>9, <2>1, ExpressPoolChanges, PoolOfTwo
<1>11. u \in PoolRunning[s]
  BY <1>3, PoolOfTwo
<1>12. Pool!Finish(u, s)
  BY <1>2, <1>10, <1>11 DEF Pool!Finish, PoolRunning
<1> QED
  BY <1>4, <1>12, PoolSteps

(* PushImplementsService for one step of the regular servers. *)
LEMMA RegularService ==
  ASSUME PushInv, Next
  PROVE  Service!Next \/ UNCHANGED <<arrived, Serving, finished>>
<1>1. ASSUME NEW l \in LBs, LBReceive(l) PROVE UNCHANGED <<arrived, Serving, finished>>
  BY <1>1, SameServing DEF LBReceive
<1>2. ASSUME NEW l \in LBs, NEW d \in Durations, Arrive(l, d) PROVE Service!Next
  BY <1>2, ArriveSubmits
<1>3. ASSUME NEW s \in Servers, ServerInput(s)
      PROVE  Service!Next \/ UNCHANGED <<arrived, Serving, finished>>
  BY <1>3, InputStarts
<1>4. ASSUME NEW s \in Servers, NEW timer \in server[s].timers, TimerFires(s, timer)
      PROVE  UNCHANGED <<arrived, Serving, finished>>
  BY <1>4, TimerStutters
<1>5. ASSUME NEW s \in Servers, NEW c \in server[s].completions, Complete(s, c)
      PROVE  Service!Next
  BY <1>5, CompleteFinishes
<1>6. ASSUME Tick \/ Finished PROVE UNCHANGED <<arrived, Serving, finished>>
  BY <1>6, SameServing DEF Tick, Finished, vars
<1> QED
  BY <1>1, <1>2, <1>3, <1>4, <1>5, <1>6 DEF Next

(***************************************************************************)
(* The regular and the express servers together implement the safety part  *)
(* of TaskService: a task the lane took over is started once, by one of    *)
(* its servers with a free slot, and by no regular server.                 *)
(***************************************************************************)
THEOREM PoolImplementsService == ExpressSafety => PoolSafety
<1>1. ExpressInit => Pool!Init
  <2> SUFFICES ASSUME ExpressInit PROVE Pool!Init
    OBVIOUS
  <2>1. /\ arrived = {} /\ finished = {}
        /\ \A s \in Servers : server[s].completions = {}
        /\ \A s \in ExpressServers : x_serving[s] = {}
    BY DEF ExpressInit, Init, IdleServer, X!Init
  <2>2. \A s \in Servers \cup ExpressServers : PoolRunning[s] = {}
    BY <2>1, PoolOfTwo DEF Running, Served
  <2>3. PoolRunning = [s \in Servers \cup ExpressServers |-> {}]
    BY <2>2 DEF PoolRunning
  <2> QED
    BY <2>1, <2>3 DEF Pool!Init, PoolRunning
<1>2. ASSUME PushInv, HandedInv, ExpressNames, PushInv', [ExpressNext]_allVars
      PROVE  [Pool!Next]_(Pool!vars)
  <2>0. ASSUME UNCHANGED <<arrived, PoolRunning, finished>> PROVE UNCHANGED Pool!vars
    BY <2>0 DEF Pool!vars, PoolRunning
  <2>1. ASSUME UNCHANGED <<arrived, Serving, finished>>, UNCHANGED x_serving,
               handed' = handed \/ \E x : handed' = Append(handed, x)
        PROVE  UNCHANGED Pool!vars
    <3>1. \A s \in ExpressServers : Served(s)' = Served(s)
      BY <1>2, <2>1, SameServed
    <3>2. PoolRunning' = PoolRunning
      BY <2>1, <3>1, PoolStays
    <3> QED
      BY <2>0, <2>1, <3>2
  <2>2. CASE RegularStep
    <3>1. UNCHANGED <<handed, x_serving>> /\ Next
      BY <2>2, RegularIsNext DEF RegularStep, xvars
    <3>2. evicted \subseteq evicted'
      BY <3>1, RegularGrows
    <3>3. CASE Service!Next
      BY <1>2, <3>1, <3>2, <3>3, RegularPool
    <3>4. CASE UNCHANGED <<arrived, Serving, finished>>
      BY <2>1, <3>1, <3>4
    <3> QED
      BY <1>2, <3>1, <3>3, <3>4, RegularService
  <2>3. ASSUME NEW x \in evicted, ExpressInput(x) PROVE UNCHANGED Pool!vars
    <3>1. UNCHANGED <<arrived, server, finished, x_serving>> /\ handed' = Append(handed, x)
      BY <2>3, Zenon DEF ExpressInput, X!Input, X!serverVars, vars
    <3> QED
      BY <2>1, <3>1, SameServing
  <2>4. ASSUME NEW s \in ExpressServers, ExpressStep(s) PROVE [Pool!Next]_(Pool!vars)
    <3>1. UNCHANGED <<vars, handed>>
      BY <2>4 DEF ExpressStep
    <3>2. \/ \E p \in x_tasks : p[2] = s /\ X!ServerInput(p[1], s)
          \/ UNCHANGED x_serving
      BY <2>4, Zenon DEF ExpressStep, X!RequestPull, X!Pull, X!Release, X!serverVars
    <3>3. ASSUME NEW p \in x_tasks, p[2] = s, X!ServerInput(p[1], s) PROVE Pool!Next
      BY <1>2, <3>1, <3>3, ExpressStarts
    <3>4. CASE UNCHANGED x_serving
      <4>1. UNCHANGED <<arrived, server, finished, handed>>
        BY <3>1 DEF vars
      <4> QED
        BY <2>1, <3>4, <4>1, SameServing
    <3> QED
      BY <3>2, <3>3, <3>4
  <2>5. ASSUME NEW s \in ExpressServers, NEW t \in x_serving[s], ExpressComplete(s, t)
        PROVE  Pool!Next
    BY <1>2, <2>5, ExpressFinishes
  <2>6. CASE ExpressFinished \/ UNCHANGED allVars
    <3>1. UNCHANGED <<arrived, server, finished, handed, x_serving>>
      BY <2>6 DEF ExpressFinished, Finished, allVars, vars, xvars
    <3> QED
      BY <2>1, <3>1, SameServing
  <2> QED
    BY <1>2, <2>2, <2>3, <2>4, <2>5, <2>6 DEF ExpressNext
<1> QED
  BY <1>1, <1>2, ExpressInvariant, PTL DEF ExpressSafety, PoolSafety, Pool!Safety
=============================================================================
