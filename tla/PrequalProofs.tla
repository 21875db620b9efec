---------------------------- MODULE PrequalProofs ----------------------------
(***************************************************************************)
(* The probe pool, for every number of balancers and servers, every rate   *)
(* and every order in which probes and replies arrive.                     *)
(***************************************************************************)
EXTENDS Prequal, QueueLemmas

-----------------------------------------------------------------------------
(* What the operations of CandidatePool do to a pool *)

Distinct(pool) == \A i, j \in DOMAIN pool : pool[i].server = pool[j].server => i = j

(* r is some of the candidates of p. *)
Some(r, p) ==
  /\ r \in Seq(Candidate) /\ Len(r) <= Len(p)
  /\ Elements(r) \subseteq Elements(p)
  /\ Distinct(p) => Distinct(r)

LEMMA SomeTransitive ==
  ASSUME NEW p \in Seq(Candidate), NEW q, NEW r, Some(q, p), Some(r, q)
  PROVE  Some(r, p)
<1>1. Len(p) \in Nat /\ Len(q) \in Nat /\ Len(r) \in Nat
  BY DEF Some
<1> QED
  BY <1>1 DEF Some

LEMMA SomeItself ==
  ASSUME NEW p \in Seq(Candidate)
  PROVE  Some(p, p)
<1>1. Len(p) \in Nat
  OBVIOUS
<1> QED
  BY <1>1 DEF Some

(* Vec::remove *)
LEMMA RemovalLeavesSome ==
  ASSUME NEW p \in Seq(Candidate), NEW i \in DOMAIN p
  PROVE  /\ Some(RemoveAt(p, i), p)
         /\ Len(RemoveAt(p, i)) = Len(p) - 1
         /\ Distinct(p) => p[i].server \notin Pooled(RemoveAt(p, i))
<1> DEFINE r == RemoveAt(p, i)
           at(j) == IF j < i THEN j ELSE j + 1
<1>1. /\ r \in Seq(Candidate) /\ Len(r) = Len(p) - 1
      /\ \A j \in 1 .. Len(p) - 1 : r[j] = IF j < i THEN p[j] ELSE p[j + 1]
  BY RemoveAtProperties
<1>2. /\ DOMAIN p = 1 .. Len(p) /\ Len(p) \in Nat /\ i \in 1 .. Len(p)
      /\ DOMAIN r = 1 .. Len(p) - 1
  BY <1>1
<1> HIDE DEF r
<1>3. ASSUME NEW j \in DOMAIN r
      PROVE  at(j) \in DOMAIN p /\ at(j) # i /\ r[j] = p[at(j)]
  <2>1. CASE j < i
    BY <1>1, <1>2, <2>1
  <2>2. CASE ~(j < i)
    BY <1>1, <1>2, <2>2
  <2> QED
    BY <2>1, <2>2
<1>4. ASSUME NEW j \in DOMAIN r, NEW k \in DOMAIN r, at(j) = at(k)
      PROVE  j = k
  BY <1>2, <1>4
<1> HIDE DEF at
<1>5. Elements(r) \subseteq Elements(p)
  BY <1>3 DEF Elements
<1>6. ASSUME Distinct(p)
      PROVE  Distinct(r) /\ p[i].server \notin Pooled(r)
  BY <1>3, <1>4, <1>6, <1>2 DEF Distinct, Pooled
<1>7. Len(r) <= Len(p)
  BY <1>1, <1>2
<1> QED
  BY <1>1, <1>5, <1>6, <1>7 DEF r, Some

(* The first of the least values of a sequence *)
LEMMA FirstLeast ==
  ASSUME NEW n \in Nat \ {0}, NEW f \in [1 .. n -> Int]
  PROVE  \E i \in 1 .. n : \A j \in 1 .. n :
           f[j] > f[i] \/ (f[j] = f[i] /\ i <= j)
<1> DEFINE First(i, k) == \A j \in 1 .. k : f[j] > f[i] \/ (f[j] = f[i] /\ i <= j)
           P == {0} \cup {k \in 1 .. n : \E i \in 1 .. k : First(i, k)}
<1>1. 0 \in P
  OBVIOUS
<1>2. ASSUME NEW k \in 1 .. n, k - 1 \in P
      PROVE  k \in P
  <2>1. CASE k = 1
    <3>1. First(1, 1)
      OBVIOUS
    <3>2. 1 \in 1 .. n /\ 1 \in 1 .. 1
      BY <2>1
    <3> HIDE DEF First
    <3> QED
      BY <2>1, <3>1, <3>2
  <2>2. CASE k # 1
    <3>1. PICK i \in 1 .. k - 1 : First(i, k - 1)
      BY <1>2, <2>2
    <3>2. f[i] \in Int /\ f[k] \in Int /\ i \in 1 .. k /\ k \in 1 .. k
          /\ \A j \in 1 .. k - 1 : f[j] \in Int
      OBVIOUS
    <3>3. \A j \in 1 .. k : j \in 1 .. k - 1 \/ j = k
      OBVIOUS
    <3>4. CASE f[k] < f[i]
      <4>1. First(k, k)
        BY <3>1, <3>2, <3>3, <3>4
      <4> HIDE DEF First
      <4> QED
        BY <3>2, <4>1
    <3>5. CASE ~(f[k] < f[i])
      <4>1. First(i, k)
        BY <3>1, <3>2, <3>3, <3>5
      <4> HIDE DEF First
      <4> QED
        BY <3>2, <4>1
    <3> QED
      BY <3>4, <3>5
  <2> QED
    BY <2>1, <2>2
<1> HIDE DEF P
<1>3. 0 .. n \subseteq P
  BY <1>1, <1>2, UpTo
<1>4. n \in 0 .. n /\ n # 0
  OBVIOUS
<1> QED
  BY <1>3, <1>4 DEF P

(* remove_worst *)
LEMMA RemoveWorstLeaves ==
  ASSUME NEW p \in Seq(Candidate), p # <<>>
  PROVE  Some(RemoveWorst(p), p) /\ Len(RemoveWorst(p)) = Len(p) - 1
<1> DEFINE Worst(i) == \A j \in DOMAIN p :
                         p[j].rif < p[i].rif \/ (p[j].rif = p[i].rif /\ i <= j)
           f == [i \in 1 .. Len(p) |-> -p[i].rif]
<1>1. Len(p) \in Nat \ {0} /\ DOMAIN p = 1 .. Len(p)
  OBVIOUS
<1>2. \A i \in DOMAIN p : p[i].rif \in Nat
  <2>1. \A i \in DOMAIN p : p[i] \in Candidate
    OBVIOUS
  <2> QED
    BY <2>1 DEF Candidate
<1>3. f \in [1 .. Len(p) -> Int] /\ \A i \in 1 .. Len(p) : f[i] = -p[i].rif
  BY <1>1, <1>2
<1> HIDE DEF f
<1>4. PICK i \in 1 .. Len(p) :
        \A j \in 1 .. Len(p) : f[j] > f[i] \/ (f[j] = f[i] /\ i <= j)
  BY <1>1, <1>3, FirstLeast
<1>5. Worst(i)
  BY <1>1, <1>2, <1>3, <1>4
<1> HIDE DEF Worst
<1>6. (CHOOSE k \in DOMAIN p : Worst(k)) \in DOMAIN p
  BY <1>1, <1>5
<1> DEFINE w == CHOOSE k \in DOMAIN p : Worst(k)
<1>7. RemoveWorst(p) = RemoveAt(p, w)
  BY DEF RemoveWorst, Worst
<1> HIDE DEF w
<1>8. w \in DOMAIN p
  BY <1>6 DEF w
<1> QED
  BY <1>7, <1>8, RemovalLeavesSome

(* The candidates left when the n worst have been removed, one after the other *)
Removed(p, n) == FoldLeft(LAMBDA q, k : RemoveWorst(q), p, [k \in 1 .. n |-> k])

(* The table of that fold *)
RemovalTable(g, p, n) ==
  g = [s \in SUBSET (1 .. n) |-> IF s = {} THEN p ELSE RemoveWorst(g[s \ {Max(s)}])]

LEMMA RemovalTableExists ==
  ASSUME NEW p \in Seq(Candidate), NEW n \in 0 .. Len(p)
  PROVE  \E g : RemovalTable(g, p, n)
<1> DEFINE V == Seq(Candidate)
           F == [x \in V \X (1 .. n) |-> RemoveWorst(x[1])]
           W == [k \in 0 .. n |-> {q \in V : Len(q) >= Len(p) - k}]
<1>1. n \in Nat /\ Len(p) \in Nat
  OBVIOUS
<1>2. FoldStages(n, p, F, W)
  <2>1. p \in W[0]
    BY <1>1
  <2>2. ASSUME NEW i \in 1 .. n, NEW j \in 0 .. i - 1, NEW v \in W[j]
        PROVE  F[<<v, i>>] \in W[i]
    <3>1. v \in V /\ Len(v) \in Nat /\ Len(v) >= Len(p) - j /\ i \in Nat /\ j \in Nat
          /\ j <= i - 1 /\ i <= Len(p)
      BY <1>1
    <3>2. v # <<>>
      BY <1>1, <3>1
    <3>3. RemoveWorst(v) \in V /\ Len(RemoveWorst(v)) = Len(v) - 1
      BY <3>1, <3>2, RemoveWorstLeaves DEF Some
    <3>4. F[<<v, i>>] = RemoveWorst(v)
      BY <3>1
    <3>5. Len(RemoveWorst(v)) >= Len(p) - i
      BY <1>1, <3>1, <3>3
    <3> QED
      BY <3>3, <3>4, <3>5
  <2> QED
    BY <2>1, <2>2 DEF FoldStages
<1>3. \A k \in 0 .. n : W[k] \subseteq V
  OBVIOUS
<1>4. \A v \in V : \A i \in 1 .. n : F[<<v, i>>] = RemoveWorst(v)
  OBVIOUS
<1> HIDE DEF F, W, V
<1>5. PICK g : FoldTable(g, n, p, F) /\ Ranges(g, n, W)
  BY <1>1, <1>2, FoldExists
<1>6. ASSUME NEW s \in SUBSET (1 .. n)
      PROVE  g[s] = IF s = {} THEN p ELSE RemoveWorst(g[s \ {Max(s)}])
  <2>1. CASE s # {}
    <3>1. Max(s) \in 1 .. n
      BY <1>1, <2>1, LastOfSome
    <3>2. s \ {Max(s)} \in SUBSET (1 .. n)
      OBVIOUS
    <3>3. LastOf(s \ {Max(s)}) \in 0 .. n
      <4>1. CASE s \ {Max(s)} # {}
        <5>1. Max(s \ {Max(s)}) \in s \ {Max(s)}
          BY <1>1, <3>2, <4>1, LastOfSome
        <5>2. LastOf(s \ {Max(s)}) \in 1 .. n
          BY <4>1, <5>1 DEF LastOf
        <5> QED
          BY <1>1, <5>2
      <4> QED
        BY <1>1, <4>1 DEF LastOf
    <3>4. g[s \ {Max(s)}] \in V
      BY <1>3, <1>5, <3>2, <3>3, Zenon DEF Ranges
    <3>5. g[s] = F[<<g[s \ {Max(s)}], Max(s)>>]
      BY <1>5, <2>1, Zenon DEF FoldTable
    <3> QED
      BY <1>4, <2>1, <3>1, <3>4, <3>5
  <2>2. CASE s = {}
    BY <1>5, <2>2, Zenon DEF FoldTable
  <2> QED
    BY <2>1, <2>2
<1>7. RemovalTable(g, p, n)
  BY <1>5, <1>6, Zenon DEF RemovalTable, FoldTable
<1> QED
  BY <1>7

LEMMA RemovalTableLeaves ==
  ASSUME NEW p \in Seq(Candidate), NEW n \in 0 .. Len(p), NEW g, RemovalTable(g, p, n)
  PROVE  Some(g[1 .. n], p) /\ Len(g[1 .. n]) = Len(p) - n
<1>h. RemovalTable(g, p, n)
  OBVIOUS
<1> DEFINE P == {k \in 0 .. n : Some(g[1 .. k], p) /\ Len(g[1 .. k]) = Len(p) - k}
<1>1. n \in Nat /\ Len(p) \in Nat /\ n <= Len(p)
  OBVIOUS
<1>2. 0 \in P
  <2>1. 1 .. 0 = {} /\ {} \in SUBSET (1 .. n) /\ 0 \in 0 .. n
    OBVIOUS
  <2>2. g[1 .. 0] = p
    BY <1>h, <2>1, Zenon DEF RemovalTable
  <2> QED
    BY <1>1, <2>1, <2>2, SomeItself
<1>3. ASSUME NEW k \in 1 .. n, k - 1 \in P
      PROVE  k \in P
  <2>1. Max(1 .. k) = k /\ (1 .. k) \ {k} = 1 .. k - 1 /\ 1 .. k # {}
    <3>1. k \in Nat \ {0}
      OBVIOUS
    <3> QED
      BY <3>1, LastPosition
  <2>2. 1 .. k \in SUBSET (1 .. n) /\ k \in 0 .. n
    OBVIOUS
  <2> DEFINE q == g[1 .. k - 1]
  <2>3. g[1 .. k] = RemoveWorst(q)
    BY <1>h, <2>1, <2>2, Zenon DEF RemovalTable
  <2>4. Some(q, p) /\ Len(q) = Len(p) - (k - 1)
    BY <1>3
  <2> HIDE DEF q
  <2>5. q \in Seq(Candidate) /\ Len(q) > 0
    BY <1>1, <2>4 DEF Some
  <2>6. q # <<>>
    BY <2>5
  <2>7. Some(RemoveWorst(q), q) /\ Len(RemoveWorst(q)) = Len(q) - 1
    BY <2>5, <2>6, RemoveWorstLeaves
  <2>8. Some(RemoveWorst(q), p)
    BY <2>4, <2>7, SomeTransitive
  <2>9. Len(RemoveWorst(q)) = Len(p) - k
    BY <1>1, <2>4, <2>7
  <2> QED
    BY <2>2, <2>3, <2>8, <2>9
<1> HIDE DEF P
<1>4. 0 .. n \subseteq P
  BY <1>1, <1>2, <1>3, UpTo
<1>5. n \in 0 .. n
  BY <1>1
<1> QED
  BY <1>4, <1>5 DEF P

(* apply_r_remove: the pool after its loop *)
LEMMA RemovedLeaves ==
  ASSUME NEW p \in Seq(Candidate), NEW n \in 0 .. Len(p)
  PROVE  Some(Removed(p, n), p) /\ Len(Removed(p, n)) = Len(p) - n
<1>1. \E g : RemovalTable(g, p, n)
  BY RemovalTableExists
<1>2. \A g : RemovalTable(g, p, n) => Some(g[1 .. n], p) /\ Len(g[1 .. n]) = Len(p) - n
  BY RemovalTableLeaves
<1>3. DOMAIN [k \in 1 .. n |-> k] = 1 .. n
  OBVIOUS
<1>4. \E g : RemovalTable(g, p, n) /\ Removed(p, n) = g[1 .. n]
  BY <1>1, <1>3, Zenon DEF Removed, FoldLeft, MapThenFoldSet, RemovalTable
<1> QED
  BY <1>2, <1>4

Fresh(pool) == \A i \in DOMAIN pool : pool[i].uses < B_REUSE

PoolOK(pool) ==
  pool \in Seq(Candidate) /\ Len(pool) <= PoolCap /\ Distinct(pool) /\ Fresh(pool)

LEMMA CapPositive ==
  PoolCap \in Nat /\ PoolCap >= 1
<1>1. Cardinality(Servers) \in Nat
  BY PrequalAssumption, FS_CardinalityType
<1> DEFINE q == (Cardinality(Servers) + 3) \div 4
<1>2. q \in Nat
  BY <1>1
<1> HIDE DEF q
<1>3. PoolCap = IF q = 0 THEN 1 ELSE q
  BY DEF PoolCap, q
<1> QED
  BY <1>2, <1>3

LEMMA FreshElements ==
  ASSUME NEW pool
  PROVE  Fresh(pool) <=> \A c \in Elements(pool) : c.uses < B_REUSE
BY DEF Fresh, Elements

LEMMA SomeOK ==
  ASSUME NEW p, NEW r, PoolOK(p), Some(r, p)
  PROVE  PoolOK(r)
<1>1. Len(p) \in Nat /\ Len(r) \in Nat /\ Len(p) <= PoolCap /\ Len(r) <= Len(p)
  BY DEF PoolOK, Some
<1>2. Len(r) <= PoolCap
  BY <1>1, CapPositive
<1>3. Fresh(r)
  BY FreshElements DEF PoolOK, Some
<1> QED
  BY <1>2, <1>3 DEF PoolOK, Some

LEMMA PositionFound ==
  ASSUME NEW p, NEW s, s \in Pooled(p)
  PROVE  /\ (CHOOSE i \in PositionsOf(p, s) : TRUE) \in DOMAIN p
         /\ p[CHOOSE i \in PositionsOf(p, s) : TRUE].server = s
BY DEF Pooled, PositionsOf

(* A candidate with one task and one use more *)
LEMMA OneUseMore ==
  ASSUME NEW c \in Candidate
  PROVE  /\ [c EXCEPT !.rif = @ + 1, !.uses = @ + 1] \in Candidate
         /\ [c EXCEPT !.rif = @ + 1, !.uses = @ + 1].server = c.server
         /\ [c EXCEPT !.rif = @ + 1, !.uses = @ + 1].rif = c.rif + 1
         /\ [c EXCEPT !.rif = @ + 1, !.uses = @ + 1].uses = c.uses + 1
<1> DEFINE a == c.rif + 1
           b == c.uses + 1
<1>1. a \in Nat /\ b \in Nat
  BY DEF Candidate
<1>2. [c EXCEPT !.rif = @ + 1, !.uses = @ + 1] = [c EXCEPT !.rif = a, !.uses = b]
  BY DEF Candidate
<1>3. [c EXCEPT !.rif = @ + 1, !.uses = @ + 1].server = c.server
  BY DEF Candidate
<1>4. [c EXCEPT !.rif = @ + 1, !.uses = @ + 1].rif = c.rif + 1
  BY DEF Candidate
<1>5. [c EXCEPT !.rif = @ + 1, !.uses = @ + 1].uses = c.uses + 1
  BY DEF Candidate
<1> HIDE DEF a, b
<1>6. [c EXCEPT !.rif = a, !.uses = b] \in Candidate
  BY <1>1 DEF Candidate
<1> QED
  BY <1>2, <1>3, <1>4, <1>5, <1>6

(* after_dispatch: only the candidate that got the task changes. *)
LEMMA AfterDispatchPool ==
  ASSUME NEW p, NEW s, PoolOK(p)
  PROVE  /\ PoolOK(AfterDispatch(p, s))
         /\ \A c \in Elements(AfterDispatch(p, s)) :
              \E d \in Elements(p) :
                /\ c.server = d.server
                /\ c.rif = IF c.server = s THEN d.rif + 1 ELSE d.rif
<1> DEFINE r == AfterDispatch(p, s)
<1>p. p \in Seq(Candidate) /\ Len(p) <= PoolCap /\ Distinct(p) /\ Fresh(p)
  BY DEF PoolOK
<1>1. CASE s \notin Pooled(p)
  <2>1. AfterDispatch(p, s) = p
    BY <1>1 DEF AfterDispatch
  <2>2. \A c \in Elements(p) : c.server # s
    BY <1>1 DEF Elements, Pooled
  <2> QED
    BY <2>1, <2>2
<1>2. CASE s \in Pooled(p)
  <2> DEFINE i == CHOOSE j \in PositionsOf(p, s) : TRUE
             used == [p[i] EXCEPT !.rif = @ + 1, !.uses = @ + 1]
  <2>1. i \in DOMAIN p /\ p[i].server = s
    BY <1>2, PositionFound
  <2>2. AfterDispatch(p, s) = IF used.uses >= B_REUSE THEN RemoveAt(p, i)
                              ELSE [p EXCEPT ![i] = used]
    BY <1>2 DEF AfterDispatch
  <2> HIDE DEF i
  <2>3. /\ p[i] \in Candidate
        /\ p[i].rif \in Nat /\ p[i].uses \in Nat /\ p[i].server \in Servers
    <3>1. p[i] \in Candidate
      BY <1>p, <2>1
    <3> QED
      BY <3>1 DEF Candidate
  <2>4. /\ used \in Candidate /\ used.server = s /\ used.rif = p[i].rif + 1
        /\ used.uses = p[i].uses + 1
    BY <2>1, <2>3, OneUseMore
  <2> HIDE DEF used
  <2>5. CASE used.uses >= B_REUSE
    <3>1. r = RemoveAt(p, i)
      BY <2>2, <2>5
    <3>2. Some(r, p) /\ s \notin Pooled(r)
      BY <1>p, <2>1, <3>1, RemovalLeavesSome
    <3> HIDE DEF r
    <3>3. \A c \in Elements(r) : c.server # s /\ c \in Elements(p)
      BY <3>2 DEF Elements, Pooled, Some
    <3>4. PoolOK(r)
      BY <3>2, SomeOK
    <3> QED
      BY <3>3, <3>4 DEF r
  <2>6. CASE ~(used.uses >= B_REUSE)
    <3>1. r = [p EXCEPT ![i] = used]
      BY <2>2, <2>6
    <3>2. /\ r \in Seq(Candidate) /\ Len(r) = Len(p) /\ DOMAIN r = DOMAIN p
          /\ r[i] = used /\ \A j \in DOMAIN p : j # i => r[j] = p[j]
      BY <1>p, <2>1, <2>4, <3>1
    <3> HIDE DEF r
    <3>3. \A j \in DOMAIN p : r[j].server = p[j].server
      BY <2>1, <2>4, <3>2
    <3>4. Distinct(r)
      BY <1>p, <3>2, <3>3 DEF Distinct
    <3>5. used.uses < B_REUSE
      BY <2>3, <2>4, <2>6, PrequalAssumption
    <3>6. Fresh(r)
      BY <1>p, <3>2, <3>5 DEF Fresh
    <3>7. ASSUME NEW j \in DOMAIN p
          PROVE  r[j].rif = IF r[j].server = s THEN p[j].rif + 1 ELSE p[j].rif
      <4>1. CASE j = i
        BY <2>4, <3>2, <4>1
      <4>2. CASE j # i
        <5>1. r[j] = p[j] /\ p[j].server # s
          BY <1>p, <2>1, <3>2, <4>2 DEF Distinct
        <5> QED
          BY <5>1
      <4> QED
        BY <4>1, <4>2
    <3>8. \A c \in Elements(r) : \E j \in DOMAIN p : c = r[j]
      BY <3>2 DEF Elements
    <3>9. \A c \in Elements(r) : \E d \in Elements(p) :
            /\ c.server = d.server
            /\ c.rif = IF c.server = s THEN d.rif + 1 ELSE d.rif
      BY <3>3, <3>7, <3>8 DEF Elements
    <3>10. PoolOK(r)
      BY <1>p, <3>2, <3>4, <3>6 DEF PoolOK
    <3> QED
      BY <3>9, <3>10 DEF r
  <2> QED
    BY <2>5, <2>6
<1> QED
  BY <1>1, <1>2

(* ingest_reply: the newest candidate, and some of the others *)
LEMMA IngestedPool ==
  ASSUME NEW p, PoolOK(p), NEW s \in Servers, NEW rif \in Nat
  PROVE  /\ PoolOK(IngestReply(p, s, rif))
         /\ IngestReply(p, s, rif) # <<>>
         /\ Elements(IngestReply(p, s, rif)) \subseteq
              Elements(p) \cup {[server |-> s, rif |-> rif, uses |-> 0]}
<1>p. p \in Seq(Candidate) /\ Len(p) <= PoolCap /\ Distinct(p) /\ Fresh(p) /\ Len(p) \in Nat
  BY DEF PoolOK
<1> DEFINE new == [server |-> s, rif |-> rif, uses |-> 0]
           old == CHOOSE i \in PositionsOf(p, s) : TRUE
           room == IF s \in Pooled(p) THEN RemoveAt(p, old)
                   ELSE IF Len(p) >= PoolCap THEN Tail(p) ELSE p
<1>1. IngestReply(p, s, rif) = Append(room, new)
  BY DEF IngestReply
<1>2. new \in Candidate /\ new.server = s /\ new.uses = 0
  BY DEF Candidate
<1>3. /\ Some(room, p) /\ Len(room) < PoolCap
      /\ s \notin Pooled(room)
  <2>1. CASE s \in Pooled(p)
    <3>1. old \in DOMAIN p /\ p[old].server = s
      BY <2>1, PositionFound
    <3>2. room = RemoveAt(p, old)
      BY <2>1
    <3> HIDE DEF old, room
    <3>3. Some(room, p) /\ Len(room) = Len(p) - 1 /\ s \notin Pooled(room)
      BY <1>p, <3>1, <3>2, RemovalLeavesSome
    <3> QED
      BY <1>p, <3>3, CapPositive
  <2>2. CASE s \notin Pooled(p) /\ Len(p) >= PoolCap
    <3>1. room = Tail(p)
      BY <2>2
    <3> HIDE DEF room
    <3>2. p # <<>> /\ Len(Tail(p)) = Len(p) - 1
      BY <1>p, <2>2, CapPositive
    <3>3. /\ Tail(p) \in Seq(Candidate) /\ DOMAIN Tail(p) = 1 .. Len(p) - 1
          /\ \A i \in DOMAIN Tail(p) : i + 1 \in DOMAIN p /\ Tail(p)[i] = p[i + 1]
          /\ Elements(p) = Elements(Tail(p)) \cup {Head(p)}
      BY <1>p, <3>2, PopFront
    <3>4. \A i, j \in 1 .. Len(p) - 1 : i + 1 = j + 1 => i = j
      BY <1>p
    <3>5. Distinct(Tail(p))
      BY <1>p, <3>3, <3>4 DEF Distinct
    <3>6. s \notin Pooled(Tail(p))
      BY <2>2, <3>3 DEF Pooled
    <3>7. Len(Tail(p)) <= Len(p) /\ Len(Tail(p)) < PoolCap
      BY <1>p, <3>2, CapPositive
    <3> QED
      BY <3>1, <3>3, <3>5, <3>6, <3>7 DEF Some
  <2>3. CASE s \notin Pooled(p) /\ ~(Len(p) >= PoolCap)
    <3>1. room = p
      BY <2>3
    <3> HIDE DEF room
    <3>2. Len(p) < PoolCap
      BY <1>p, <2>3, CapPositive
    <3> QED
      BY <1>p, <2>3, <3>1, <3>2, SomeItself
  <2> QED
    BY <2>1, <2>2, <2>3
<1> HIDE DEF room, new
<1>4. PoolOK(room)
  BY <1>3, SomeOK
<1>5. room \in Seq(Candidate) /\ Len(room) \in Nat /\ DOMAIN room = 1 .. Len(room)
  BY <1>4 DEF PoolOK
<1> DEFINE r == Append(room, new)
<1>6. /\ r \in Seq(Candidate) /\ r # <<>>
      /\ DOMAIN r = 1 .. Len(room) + 1 /\ Len(r) = Len(room) + 1
      /\ \A i \in DOMAIN room : r[i] = room[i]
      /\ r[Len(room) + 1] = new
      /\ Elements(r) = Elements(room) \cup {new}
  BY <1>2, <1>5, PushBack
<1> HIDE DEF r
<1>7. \A i \in DOMAIN r : i \in DOMAIN room \/ i = Len(room) + 1
  BY <1>5, <1>6
<1>8. Distinct(r)
  <2>1. \A i \in DOMAIN room : room[i].server # s
    BY <1>3 DEF Pooled
  <2>2. Distinct(room)
    BY <1>4 DEF PoolOK
  <2> QED
    BY <1>2, <1>6, <1>7, <2>1, <2>2 DEF Distinct
<1>9. Fresh(r)
  <2>1. 0 < B_REUSE
    BY PrequalAssumption
  <2>2. Fresh(room)
    BY <1>4 DEF PoolOK
  <2> QED
    BY <1>2, <1>6, <1>7, <2>1, <2>2 DEF Fresh
<1>10. Len(r) <= PoolCap
  BY <1>3, <1>5, <1>6, CapPositive
<1>11. PoolOK(r)
  BY <1>6, <1>8, <1>9, <1>10 DEF PoolOK
<1>12. Elements(r) \subseteq Elements(p) \cup {new}
  BY <1>3, <1>6 DEF Some
<1> QED
  BY <1>1, <1>6, <1>11, <1>12 DEF r, new

(* A pool without duplicates has as many servers as candidates. *)
LEMMA PooledCounted ==
  ASSUME NEW p \in Seq(Candidate), Distinct(p)
  PROVE  Cardinality(Pooled(p)) = Len(p)
<1> DEFINE f == [i \in 1 .. Len(p) |-> p[i].server]
<1>1. DOMAIN p = 1 .. Len(p) /\ Len(p) \in Nat
  OBVIOUS
<1>2. f \in Bijection(1 .. Len(p), Pooled(p))
  BY <1>1 DEF Distinct, Pooled, Bijection, Injection, Surjection, IsInjective
<1> HIDE DEF f
<1>3. IsFiniteSet(1 .. Len(p)) /\ Cardinality(1 .. Len(p)) = Len(p)
  BY <1>1, FS_Interval
<1>4. Cardinality(1 .. Len(p)) = Cardinality(Pooled(p))
  BY <1>2, <1>3, FS_Bijection DEF ExistsBijection
<1> QED
  BY <1>3, <1>4

-----------------------------------------------------------------------------
(* The invariant *)

Mail  == [type : {"task", "probe"}, lb : LBs]
Reply == [server : Servers, rif : Nat]

Types ==
  /\ at_once \in BOOLEAN
  /\ requests \in [LBs -> Nat]
  /\ candidate_pool \in [LBs -> Seq(Candidate)]
  /\ r_remove_accum \in [LBs -> Nat]
  /\ r_probe_accum \in [LBs -> Nat]
  /\ held \in [Servers -> [LBs -> Nat]]
  /\ server_mail \in [Servers -> Seq(Mail)]
  /\ lb_mail \in [LBs -> Seq(Reply)]

PoolsOK == \A l \in LBs : PoolOK(candidate_pool[l])

(* A RIF of s that l remembers counts what l has there or on the way. *)
Covers(l, s, rif) == rif >= held[s][l] + OnTheWay(l, s)

ProbeLast(q, l) ==
  \A i, j \in DOMAIN q : i < j /\ q[i] = ProbeOf(l) => q[j] # TaskOf(l)

OwnTasks ==
  \A l \in LBs :
    /\ \A c \in Elements(candidate_pool[l]) : Covers(l, c.server, c.rif)
    /\ \A m \in Elements(lb_mail[l]) : Covers(l, m.server, m.rif)
    /\ \A s \in Servers : ProbeLast(server_mail[s], l)

PoolInv == Types /\ PoolsOK /\ (~at_once => OwnTasks)

LEMMA OnTheWayCounted ==
  ASSUME Types, NEW l \in LBs, NEW s \in Servers
  PROVE  /\ OnTheWay(l, s) = Count(server_mail[s], {TaskOf(l)})
         /\ OnTheWay(l, s) \in Nat
<1>1. server_mail[s] \in Seq(Mail)
  BY DEF Types
<1>2. {i \in DOMAIN server_mail[s] : server_mail[s][i] \in {TaskOf(l)}}
        = {i \in DOMAIN server_mail[s] : server_mail[s][i] = TaskOf(l)}
  OBVIOUS
<1>3. OnTheWay(l, s) = Count(server_mail[s], {TaskOf(l)})
  BY <1>2, Zenon DEF OnTheWay, Count
<1> QED
  BY <1>1, <1>3, CountFinite

LEMMA MailIs ==
  ASSUME NEW l \in LBs
  PROVE  TaskOf(l) \in Mail /\ ProbeOf(l) \in Mail /\ TaskOf(l) # ProbeOf(l)
BY DEF TaskOf, ProbeOf, Mail

(* What a dispatch sends *)
LEMMA SentMail ==
  ASSUME Types, NEW l \in LBs, NEW s, NEW targets
  PROVE  /\ Sent(l, s, targets) \in [Servers -> Seq(Mail)]
         /\ \A r \in Servers : r \in targets => ProbeOf(l) \in Elements(Sent(l, s, targets)[r])
<1>1. \A r \in Servers : server_mail[r] \in Seq(Mail)
  BY DEF Types
<1> DEFINE a(r) == IF r = s THEN <<TaskOf(l)>> ELSE <<>>
           b(r) == IF r \in targets THEN <<ProbeOf(l)>> ELSE <<>>
<1>2. \A r \in Servers : a(r) \in Seq(Mail) /\ b(r) \in Seq(Mail)
  BY MailIs
<1>3. \A r \in Servers : r \in targets => b(r) = <<ProbeOf(l)>>
  OBVIOUS
<1>4. Sent(l, s, targets) = [r \in Servers |-> server_mail[r] \o a(r) \o b(r)]
  BY DEF Sent
<1> HIDE DEF a, b
<1>5. ASSUME NEW r \in Servers
      PROVE  /\ server_mail[r] \o a(r) \o b(r) \in Seq(Mail)
             /\ r \in targets => ProbeOf(l) \in Elements(server_mail[r] \o a(r) \o b(r))
  <2> DEFINE q == server_mail[r] \o a(r)
  <2>1. q \in Seq(Mail)
    BY <1>1, <1>2
  <2> HIDE DEF q
  <2>2. q \o b(r) \in Seq(Mail)
    BY <1>2, <2>1
  <2>3. ASSUME r \in targets
        PROVE  ProbeOf(l) \in Elements(q \o b(r))
    <3>1. q \o b(r) = Append(q, ProbeOf(l))
      <4>1. b(r) = <<ProbeOf(l)>>
        BY <1>3, <2>3
      <4> QED
        BY <2>1, <4>1, MailIs, AppendIsConcat
    <3>2. Elements(Append(q, ProbeOf(l))) = Elements(q) \cup {ProbeOf(l)}
      BY <2>1, MailIs, PushBack
    <3> QED
      BY <3>1, <3>2
  <2> QED
    BY <2>2, <2>3 DEF q
<1> QED
  BY <1>4, <1>5

(* Of o's tasks, q holds at most the one that l has sent to s, before its probe. *)
HoldsOnly(q, l, s, r, o) ==
  /\ ProbeLast(q, o)
  /\ Count(q, {TaskOf(o)}) = IF o = l /\ r = s THEN 1 ELSE 0

(* What a dispatch sends when nothing else is on the way *)
LEMMA SentFirst ==
  ASSUME NEW l \in LBs, NEW s, NEW targets, NEW r \in Servers, NEW o \in LBs,
         server_mail[r] = <<>>
  PROVE  HoldsOnly(Sent(l, s, targets)[r], l, s, r, o)
<1> DEFINE q == Sent(l, s, targets)[r]
           t == TaskOf(l)
           p == ProbeOf(l)
<1>1. t # TaskOf(o) <=> o # l
  BY DEF TaskOf
<1>2. p # TaskOf(o) /\ t # ProbeOf(o)
  BY DEF TaskOf, ProbeOf
<1>3. q = (<<>> \o (IF r = s THEN <<t>> ELSE <<>>)) \o (IF r \in targets THEN <<p>> ELSE <<>>)
  BY DEF Sent
<1> HIDE DEF t, p, q
<1>4. ASSUME NEW I, I = {i \in DOMAIN q : q[i] \in {TaskOf(o)}}
      PROVE  Count(q, {TaskOf(o)}) = Cardinality(I)
  BY <1>4 DEF Count
<1>5. Cardinality({}) = 0 /\ Cardinality({1}) = 1
  BY FS_EmptySet, FS_Singleton
<1>6. CASE r = s /\ r \in targets
  <2>1. q = Append(<<t>>, p) /\ <<t>> \in Seq({t, p}) /\ p \in {t, p}
    <3>1. q = (<<>> \o <<t>>) \o <<p>>
      BY <1>3, <1>6
    <3>2. <<>> \o <<t>> = <<t>>
      OBVIOUS
    <3>3. <<t>> \in Seq({t, p}) /\ p \in {t, p}
      OBVIOUS
    <3>4. <<t>> \o <<p>> = Append(<<t>>, p)
      BY <3>3, AppendIsConcat
    <3> QED
      BY <3>1, <3>2, <3>3, <3>4, Zenon
  <2>2. DOMAIN q = {1, 2} /\ q[1] = t /\ q[2] = p
    <3>1. Len(<<t>>) = 1 /\ DOMAIN <<t>> = {1} /\ <<t>>[1] = t
      OBVIOUS
    <3>2. /\ DOMAIN Append(<<t>>, p) = 1 .. Len(<<t>>) + 1
          /\ \A i \in DOMAIN <<t>> : Append(<<t>>, p)[i] = <<t>>[i]
          /\ Append(<<t>>, p)[Len(<<t>>) + 1] = p
      BY <2>1, PushBack
    <3>3. 1 .. 1 + 1 = {1, 2} /\ 1 + 1 = 2
      OBVIOUS
    <3>4. DOMAIN q = {1, 2}
      BY <2>1, <3>1, <3>2, <3>3, Zenon
    <3>5. q[1] = t
      BY <2>1, <3>1, <3>2
    <3>6. q[2] = p
      BY <2>1, <3>1, <3>2
    <3> QED
      BY <3>4, <3>5, <3>6
  <2>3. {i \in DOMAIN q : q[i] \in {TaskOf(o)}} = IF o = l THEN {1} ELSE {}
    BY <1>1, <1>2, <2>2
  <2>4. ProbeLast(q, o)
    BY <1>2, <2>2 DEF ProbeLast
  <2> QED
    BY <1>4, <1>5, <1>6, <2>3, <2>4 DEF q, HoldsOnly
<1>7. CASE r = s /\ r \notin targets
  <2>1. q = <<t>>
    BY <1>3, <1>7
  <2>2. DOMAIN q = {1} /\ q[1] = t
    BY <2>1
  <2>3. {i \in DOMAIN q : q[i] \in {TaskOf(o)}} = IF o = l THEN {1} ELSE {}
    BY <1>1, <2>2
  <2>4. ProbeLast(q, o)
    BY <1>2, <2>2 DEF ProbeLast
  <2> QED
    BY <1>4, <1>5, <1>7, <2>3, <2>4 DEF q, HoldsOnly
<1>8. CASE r # s /\ r \in targets
  <2>1. q = <<p>>
    BY <1>3, <1>8
  <2>2. DOMAIN q = {1} /\ q[1] = p
    BY <2>1
  <2>3. {i \in DOMAIN q : q[i] \in {TaskOf(o)}} = {}
    BY <1>2, <2>2
  <2>4. ProbeLast(q, o)
    BY <2>2 DEF ProbeLast
  <2> QED
    BY <1>4, <1>5, <1>8, <2>3, <2>4 DEF q, HoldsOnly
<1>9. CASE r # s /\ r \notin targets
  <2>1. q = <<>>
    BY <1>3, <1>9
  <2>2. DOMAIN q = {}
    BY <2>1
  <2>3. {i \in DOMAIN q : q[i] \in {TaskOf(o)}} = {}
    BY <2>2
  <2>4. ProbeLast(q, o)
    BY <2>2 DEF ProbeLast
  <2> QED
    BY <1>4, <1>5, <1>9, <2>3, <2>4 DEF q, HoldsOnly
<1> QED
  BY <1>6, <1>7, <1>8, <1>9

(* apply_r_remove pays whole removals, as many as there are candidates for. *)
LEMMA RemovalsAreDue ==
  ASSUME NEW p \in Seq(Candidate), NEW debt \in Nat
  PROVE  /\ RemovalsDue(p, debt).removed \in 0 .. Len(p)
         /\ RemovalsDue(p, debt).debt \in Nat
         /\ debt < 10 => RemovalsDue(p, debt).debt = debt
         /\ debt < 20 /\ p # <<>> => RemovalsDue(p, debt).debt < 10
<1> DEFINE n == IF debt \div 10 <= Len(p) THEN debt \div 10 ELSE Len(p)
<1>1. RemovalsDue(p, debt) = [removed |-> n, debt |-> debt - 10 * n]
  BY DEF RemovalsDue
<1>2. Len(p) \in Nat /\ (p # <<>> => Len(p) >= 1)
  OBVIOUS
<1>3. debt \div 10 \in Nat /\ 10 * (debt \div 10) <= debt /\ debt < 10 * (debt \div 10) + 10
  OBVIOUS
<1>4. n \in 0 .. Len(p) /\ 10 * n <= debt /\ debt - 10 * n \in Nat
  BY <1>2, <1>3
<1>5. debt < 10 => n = 0
  BY <1>3, <1>4
<1>6. debt < 20 /\ p # <<>> => debt - 10 * n < 10
  BY <1>2, <1>3
<1> HIDE DEF n
<1>7. debt < 10 => debt - 10 * n = debt
  BY <1>5
<1> QED
  BY <1>1, <1>4, <1>6, <1>7

(* The pool after the removals and the dispatch *)
Dispatched(p, debt, s) == AfterDispatch(Removed(p, RemovalsDue(p, debt).removed), s)

LEMMA DispatchedPool ==
  ASSUME NEW p, PoolOK(p), NEW debt \in Nat, NEW s
  PROVE  /\ PoolOK(Dispatched(p, debt, s))
         /\ \A c \in Elements(Dispatched(p, debt, s)) :
              \E d \in Elements(p) :
                /\ c.server = d.server
                /\ c.rif = IF c.server = s THEN d.rif + 1 ELSE d.rif
<1> DEFINE n == RemovalsDue(p, debt).removed
           q == Removed(p, n)
<1>1. p \in Seq(Candidate)
  BY DEF PoolOK
<1>2. n \in 0 .. Len(p)
  BY <1>1, RemovalsAreDue
<1> HIDE DEF n
<1>3. Some(q, p)
  BY <1>1, <1>2, RemovedLeaves
<1> HIDE DEF q
<1>4. PoolOK(q)
  BY <1>3, SomeOK
<1>5. Elements(q) \subseteq Elements(p)
  BY <1>3 DEF Some
<1>6. /\ PoolOK(AfterDispatch(q, s))
      /\ \A c \in Elements(AfterDispatch(q, s)) :
           \E d \in Elements(q) :
             /\ c.server = d.server
             /\ c.rif = IF c.server = s THEN d.rif + 1 ELSE d.rif
  BY <1>4, AfterDispatchPool
<1> QED
  BY <1>5, <1>6 DEF q, n, Dispatched

(* The head leaves a mailbox. *)
LEMMA PopMail ==
  ASSUME NEW q \in Seq(Mail), q # <<>>, NEW l \in LBs
  PROVE  /\ Tail(q) \in Seq(Mail) /\ Head(q) \in Mail
         /\ Head(q) \in {TaskOf(Head(q).lb), ProbeOf(Head(q).lb)}
         /\ Count(q, {TaskOf(l)})
              = Count(Tail(q), {TaskOf(l)}) + IF Head(q) = TaskOf(l) THEN 1 ELSE 0
         /\ Count(Tail(q), {TaskOf(l)}) \in Nat
         /\ ProbeLast(q, l) => ProbeLast(Tail(q), l)
         /\ ProbeLast(q, l) /\ Head(q) = ProbeOf(l) => Count(Tail(q), {TaskOf(l)}) = 0
<1>1. /\ Tail(q) \in Seq(Mail) /\ Head(q) \in Mail /\ Head(q) = q[1]
      /\ 1 \in DOMAIN q /\ DOMAIN Tail(q) = 1 .. Len(q) - 1
      /\ \A i \in DOMAIN Tail(q) : i + 1 \in DOMAIN q /\ Tail(q)[i] = q[i + 1]
  BY PopFront
<1>2. Head(q) \in {TaskOf(Head(q).lb), ProbeOf(Head(q).lb)}
  BY <1>1 DEF Mail, TaskOf, ProbeOf
<1>3. /\ Count(q, {TaskOf(l)})
           = Count(Tail(q), {TaskOf(l)}) + IF Head(q) \in {TaskOf(l)} THEN 1 ELSE 0
      /\ Count(Tail(q), {TaskOf(l)}) \in Nat
  BY <1>1, CountPopFront, CountFinite
<1>4. \A i \in DOMAIN Tail(q) : i \in Nat /\ i >= 1 /\ 1 < i + 1
  BY <1>1
<1>5. \A i, j \in DOMAIN Tail(q) : i < j => i + 1 < j + 1
  BY <1>4
<1>6. ProbeLast(q, l) => ProbeLast(Tail(q), l)
  BY <1>1, <1>5 DEF ProbeLast
<1>7. ASSUME ProbeLast(q, l), Head(q) = ProbeOf(l)
      PROVE  Count(Tail(q), {TaskOf(l)}) = 0
  <2>1. \A i \in DOMAIN Tail(q) : Tail(q)[i] # TaskOf(l)
    BY <1>1, <1>4, <1>7 DEF ProbeLast
  <2>2. {i \in DOMAIN Tail(q) : Tail(q)[i] \in {TaskOf(l)}} = {}
    BY <2>1
  <2> QED
    BY <2>2, FS_EmptySet DEF Count
<1> QED
  BY <1>1, <1>2, <1>3, <1>6, <1>7

(* What a probe reads of a server counts the tasks of every balancer. *)
LEMMA RifCounts ==
  ASSUME Types, NEW s \in Servers, NEW l \in LBs
  PROVE  Rif(s) \in Nat /\ Rif(s) >= held[s][l]
<1> DEFINE T(o) == {o} \X (1 .. held[s][o])
           U == UNION {T(o) : o \in LBs}
<1>1. \A o \in LBs : held[s][o] \in Nat
  BY DEF Types
<1>2. \A o \in LBs : IsFiniteSet(T(o)) /\ Cardinality(T(o)) = held[s][o]
  <2> TAKE o \in LBs
  <2>1. IsFiniteSet(1 .. held[s][o]) /\ Cardinality(1 .. held[s][o]) = held[s][o]
    <3> DEFINE n == held[s][o]
    <3>1. n \in Nat
      BY <1>1
    <3> HIDE DEF n
    <3>2. IsFiniteSet(1 .. n) /\ Cardinality(1 .. n) = IF 1 > n THEN 0 ELSE n - 1 + 1
      BY <3>1, FS_Interval
    <3> QED
      BY <3>1, <3>2 DEF n
  <2>2. IsFiniteSet({o}) /\ Cardinality({o}) = 1
    BY FS_Singleton
  <2>3. IsFiniteSet(T(o)) /\ Cardinality(T(o)) = 1 * held[s][o]
    <3>1. /\ IsFiniteSet({o} \X (1 .. held[s][o]))
          /\ Cardinality({o} \X (1 .. held[s][o]))
               = Cardinality({o}) * Cardinality(1 .. held[s][o])
      BY <2>1, <2>2, FS_Product, Zenon
    <3> QED
      BY <2>1, <2>2, <3>1, Zenon
  <2> HIDE DEF T
  <2> QED
    BY <1>1, <2>3
<1>3. Rif(s) = Cardinality(U)
  BY DEF Rif
<1> HIDE DEF T
<1>4. IsFiniteSet({T(o) : o \in LBs})
  <2> DEFINE f == [o \in LBs |-> T(o)]
  <2>1. f \in Surjection(LBs, {T(o) : o \in LBs})
    BY DEF Surjection
  <2> HIDE DEF f
  <2> QED
    BY <2>1, FS_Surjection, PrequalAssumption
<1>5. IsFiniteSet(U)
  BY <1>2, <1>4, FS_UNION
<1>6. T(l) \subseteq U
  OBVIOUS
<1> HIDE DEF U
<1>7. Cardinality(T(l)) <= Cardinality(U) /\ Cardinality(U) \in Nat
  BY <1>5, <1>6, FS_Subset, FS_CardinalityType
<1> QED
  BY <1>2, <1>3, <1>7

LEMMA DispatchDoes ==
  ASSUME NEW l \in LBs, DispatchPrequal(l)
  PROVE  \E s, targets :
    LET left == Dispatched(candidate_pool[l], r_remove_accum[l] + R_REMOVE, s) IN
    /\ candidate_pool' = [candidate_pool EXCEPT ![l] = left]
    /\ targets \in ProbeTargets(left, (r_probe_accum[l] + R_PROBE) \div 10)
    /\ server_mail' = Sent(l, s, targets)
BY Zenon DEF DispatchPrequal, Removed, Dispatched

LEMMA DispatchKeepsPools ==
  ASSUME PoolInv, NEW l \in LBs, DispatchPrequal(l)
  PROVE  PoolInv'
<1>h. Types /\ PoolsOK /\ (~at_once => OwnTasks)
  BY DEF PoolInv
<1> DEFINE debt == r_remove_accum[l] + R_REMOVE
           left(s) == Dispatched(candidate_pool[l], debt, s)
<1>1. PICK s, targets :
        /\ candidate_pool' = [candidate_pool EXCEPT ![l] = left(s)]
        /\ server_mail' = Sent(l, s, targets)
  BY DispatchDoes
<1>2. /\ requests' = [requests EXCEPT ![l] = @ + 1]
      /\ r_remove_accum' = [r_remove_accum EXCEPT ![l] =
                              RemovalsDue(candidate_pool[l], debt).debt]
      /\ r_probe_accum' = [r_probe_accum EXCEPT ![l] = (r_probe_accum[l] + R_PROBE) % 10]
      /\ at_once \/ Quiet
      /\ at_once' = at_once /\ held' = held /\ lb_mail' = lb_mail
  BY DEF DispatchPrequal
<1>3. /\ debt \in Nat /\ r_probe_accum[l] + R_PROBE \in Nat
      /\ candidate_pool[l] \in Seq(Candidate) /\ PoolOK(candidate_pool[l])
  BY <1>h, PrequalAssumption DEF Types, PoolsOK
<1> HIDE DEF debt
<1>4. /\ PoolOK(left(s))
      /\ \A c \in Elements(left(s)) :
           \E d \in Elements(candidate_pool[l]) :
             /\ c.server = d.server
             /\ c.rif = IF c.server = s THEN d.rif + 1 ELSE d.rif
  BY <1>3, DispatchedPool
<1>5. RemovalsDue(candidate_pool[l], debt).debt \in Nat
  BY <1>3, RemovalsAreDue
<1> HIDE DEF left
<1>6. left(s) \in Seq(Candidate)
  BY <1>4 DEF PoolOK
<1>7. (r_probe_accum[l] + R_PROBE) % 10 \in Nat
  BY <1>3
<1>8. Sent(l, s, targets) \in [Servers -> Seq(Mail)]
  BY <1>h, SentMail
<1>9. Types'
  BY <1>h, <1>1, <1>2, <1>5, <1>6, <1>7, <1>8 DEF Types
<1>10. PoolsOK'
  BY <1>h, <1>1, <1>4 DEF PoolsOK, Types
<1>11. ASSUME ~at_once
       PROVE  OwnTasks'
  <2>1. /\ \A r \in Servers : server_mail[r] = <<>>
        /\ \A o \in LBs : lb_mail[o] = <<>>
    BY <1>2, <1>11 DEF Quiet
  <2>2. ASSUME NEW o \in LBs, NEW r \in Servers
        PROVE  /\ ProbeLast(server_mail'[r], o)
               /\ OnTheWay(o, r)' = IF o = l /\ r = s THEN 1 ELSE 0
               /\ OnTheWay(o, r) = 0
               /\ held[r][o] \in Nat /\ held'[r][o] = held[r][o]
    <3>1. /\ ProbeLast(server_mail'[r], o)
          /\ Count(server_mail'[r], {TaskOf(o)}) = IF o = l /\ r = s THEN 1 ELSE 0
      <4>1. server_mail[r] = <<>> /\ server_mail'[r] = Sent(l, s, targets)[r]
        BY <1>1, <2>1
      <4>2. /\ ProbeLast(Sent(l, s, targets)[r], o)
            /\ Count(Sent(l, s, targets)[r], {TaskOf(o)}) = IF o = l /\ r = s THEN 1 ELSE 0
        <5>1. HoldsOnly(Sent(l, s, targets)[r], l, s, r, o)
          BY <4>1, SentFirst
        <5> QED
          BY <5>1 DEF HoldsOnly
      <4> QED
        BY <4>1, <4>2
    <3>2. {i \in DOMAIN server_mail'[r] : server_mail'[r][i] \in {TaskOf(o)}}
            = {i \in DOMAIN server_mail'[r] : server_mail'[r][i] = TaskOf(o)}
      OBVIOUS
    <3>3. OnTheWay(o, r)' = Count(server_mail'[r], {TaskOf(o)})
      BY <3>2, Zenon DEF OnTheWay, Count, TaskOf
    <3>4. OnTheWay(o, r) = 0
      BY <1>h, <2>1, OnTheWayCounted, CountEmpty
    <3> QED
      BY <1>h, <1>2, <3>1, <3>3, <3>4 DEF Types
  <2>3. ASSUME NEW o \in LBs, NEW c \in Elements(candidate_pool'[o])
        PROVE  Covers(o, c.server, c.rif)'
    <3>1. OwnTasks
      BY <1>h, <1>11
    <3>2. \A d \in Elements(candidate_pool[o]) :
            d.server \in Servers /\ d.rif \in Nat /\ d.rif >= held[d.server][o]
      <4> TAKE d \in Elements(candidate_pool[o])
      <4>1. d \in Candidate
        BY <1>h DEF Types, Elements
      <4>2. Covers(o, d.server, d.rif)
        BY <3>1 DEF OwnTasks
      <4>3. d.server \in Servers /\ d.rif \in Nat
        BY <4>1 DEF Candidate
      <4>4. OnTheWay(o, d.server) = 0 /\ held[d.server][o] \in Nat
        BY <2>2, <4>3
      <4> QED
        BY <4>2, <4>3, <4>4 DEF Covers
    <3>3. CASE o = l
      <4>1. PICK d \in Elements(candidate_pool[l]) :
              /\ c.server = d.server
              /\ c.rif = IF c.server = s THEN d.rif + 1 ELSE d.rif
        BY <1>h, <1>1, <1>4, <3>3 DEF Types
      <4>2. /\ d.server \in Servers /\ d.rif \in Nat /\ d.rif >= held[d.server][o]
            /\ held[d.server][o] \in Nat /\ held'[d.server][o] = held[d.server][o]
            /\ OnTheWay(o, d.server)' = IF d.server = s THEN 1 ELSE 0
        BY <2>2, <3>2, <3>3
      <4>3. c.rif >= held'[c.server][o] + (IF c.server = s THEN 1 ELSE 0)
        BY <4>1, <4>2
      <4> QED
        BY <4>1, <4>2, <4>3 DEF Covers
    <3>4. CASE o # l
      <4>1. c \in Elements(candidate_pool[o])
        BY <1>h, <1>1, <3>4 DEF Types
      <4>2. /\ c.server \in Servers /\ c.rif \in Nat /\ c.rif >= held[c.server][o]
            /\ held[c.server][o] \in Nat /\ held'[c.server][o] = held[c.server][o]
            /\ OnTheWay(o, c.server)' = 0
        BY <2>2, <3>2, <3>4, <4>1
      <4>3. c.rif >= held'[c.server][o] + 0
        BY <4>2
      <4> QED
        BY <4>2, <4>3 DEF Covers
    <3> QED
      BY <3>3, <3>4
  <2>4. \A o \in LBs : Elements(lb_mail'[o]) = {}
    BY <1>2, <2>1 DEF Elements
  <2>5. \A o \in LBs : \A r \in Servers : ProbeLast(server_mail[r], o)'
    BY <2>2 DEF ProbeLast, TaskOf, ProbeOf
  <2>6. ASSUME NEW o \in LBs
        PROVE  /\ \A c \in Elements(candidate_pool[o])' : Covers(o, c.server, c.rif)'
               /\ \A m \in Elements(lb_mail[o])' : Covers(o, m.server, m.rif)'
    BY <2>3, <2>4 DEF Elements
  <2> QED
    BY <2>5, <2>6 DEF OwnTasks
<1> QED
  BY <1>2, <1>9, <1>10, <1>11 DEF PoolInv

LEMMA ProbeReplyKeepsPools ==
  ASSUME PoolInv, NEW l \in LBs, ProbeReply(l)
  PROVE  PoolInv'
<1>h. Types /\ PoolsOK /\ (~at_once => OwnTasks)
  BY DEF PoolInv
<1> DEFINE q == lb_mail[l]
           m == Head(q)
           pool == candidate_pool[l]
           new == [server |-> m.server, rif |-> m.rif, uses |-> 0]
<1>1. /\ q # <<>>
      /\ candidate_pool' = [candidate_pool EXCEPT ![l] = IngestReply(@, m.server, m.rif)]
      /\ lb_mail' = [lb_mail EXCEPT ![l] = Tail(@)]
      /\ at_once' = at_once /\ requests' = requests /\ r_remove_accum' = r_remove_accum
      /\ r_probe_accum' = r_probe_accum /\ held' = held /\ server_mail' = server_mail
  BY DEF ProbeReply
<1>2. q \in Seq(Reply) /\ PoolOK(pool)
  BY <1>h DEF Types, PoolsOK
<1>3. /\ Tail(q) \in Seq(Reply) /\ m \in Reply
      /\ Elements(q) = Elements(Tail(q)) \cup {m}
  BY <1>1, <1>2, PopFront
<1>4. m.server \in Servers /\ m.rif \in Nat
  BY <1>3 DEF Reply
<1> DEFINE after == IngestReply(pool, m.server, m.rif)
<1>5. PoolOK(after) /\ Elements(after) \subseteq Elements(pool) \cup {new}
  BY <1>2, <1>4, IngestedPool
<1>6. new.server = m.server /\ new.rif = m.rif
  OBVIOUS
<1>7. /\ candidate_pool'[l] = after /\ lb_mail'[l] = Tail(q)
      /\ \A o \in LBs : o # l => candidate_pool'[o] = candidate_pool[o] /\ lb_mail'[o] = lb_mail[o]
  BY <1>h, <1>1 DEF Types
<1>8. after \in Seq(Candidate) /\ candidate_pool' = [candidate_pool EXCEPT ![l] = after]
  BY <1>1, <1>5 DEF PoolOK
<1> HIDE DEF after, new, m, pool
<1>9. Types'
  BY <1>h, <1>1, <1>3, <1>8 DEF Types, pool
<1>10. PoolsOK'
  BY <1>h, <1>5, <1>7 DEF PoolsOK
<1>11. ASSUME ~at_once
       PROVE  OwnTasks'
  <2>1. OwnTasks
    BY <1>h, <1>11
  <2>2. \A o \in LBs : \A s, rif : Covers(o, s, rif) => Covers(o, s, rif)'
    BY <1>1 DEF Covers, OnTheWay, TaskOf
  <2>3. Covers(l, m.server, m.rif)
    BY <1>3, <2>1 DEF OwnTasks
  <2>4. ASSUME NEW o \in LBs
        PROVE  /\ \A c \in Elements(candidate_pool[o])' : Covers(o, c.server, c.rif)'
               /\ \A n \in Elements(lb_mail[o])' : Covers(o, n.server, n.rif)'
    <3>1. /\ \A c \in Elements(candidate_pool[o]) : Covers(o, c.server, c.rif)
          /\ \A n \in Elements(lb_mail[o]) : Covers(o, n.server, n.rif)
      BY <2>1 DEF OwnTasks
    <3>2. CASE o = l
      <4>1. Elements(candidate_pool[o])' \subseteq Elements(pool) \cup {new}
        BY <1>5, <1>7, <3>2 DEF Elements
      <4>2. Elements(lb_mail[o])' \subseteq Elements(q)
        BY <1>3, <1>7, <3>2 DEF Elements
      <4>3. \A c \in Elements(pool) \cup {new} : Covers(o, c.server, c.rif)
        BY <1>6, <2>3, <3>1, <3>2 DEF pool
      <4> QED
        BY <2>2, <3>1, <3>2, <4>1, <4>2, <4>3
    <3>3. CASE o # l
      <4>1. Elements(candidate_pool[o])' = Elements(candidate_pool[o])
        BY <1>7, <3>3 DEF Elements
      <4>2. Elements(lb_mail[o])' = Elements(lb_mail[o])
        BY <1>7, <3>3 DEF Elements
      <4> QED
        BY <2>2, <3>1, <4>1, <4>2
    <3> QED
      BY <3>2, <3>3
  <2>5. \A o \in LBs : \A s \in Servers : ProbeLast(server_mail[s], o)'
    BY <1>1, <2>1 DEF OwnTasks, ProbeLast, ProbeOf, TaskOf
  <2> QED
    BY <2>4, <2>5 DEF OwnTasks
<1> QED
  BY <1>1, <1>9, <1>10, <1>11 DEF PoolInv

(* Any step that leaves the pools and mailboxes of balancers alone, or adds a reply *)
LEMMA OwnTasksKept ==
  ASSUME OwnTasks, candidate_pool' = candidate_pool,
         \A o \in LBs : \A s \in Servers : ProbeLast(server_mail'[s], o),
         \A o \in LBs : \A s \in Servers : \A rif \in Nat :
           Covers(o, s, rif) => Covers(o, s, rif)',
         candidate_pool \in [LBs -> Seq(Candidate)],
         lb_mail \in [LBs -> Seq(Reply)],
         \A o \in LBs : \A m \in Elements(lb_mail'[o]) :
           m \in Elements(lb_mail[o]) \/ Covers(o, m.server, m.rif)'
  PROVE  OwnTasks'
<1>1. ASSUME NEW o \in LBs
      PROVE  /\ \A c \in Elements(candidate_pool[o])' : Covers(o, c.server, c.rif)'
             /\ \A m \in Elements(lb_mail[o])' : Covers(o, m.server, m.rif)'
  <2>1. /\ \A c \in Elements(candidate_pool[o]) : Covers(o, c.server, c.rif)
        /\ \A m \in Elements(lb_mail[o]) : Covers(o, m.server, m.rif)
    BY DEF OwnTasks
  <2>2. Elements(candidate_pool[o])' = Elements(candidate_pool[o])
    BY DEF Elements
  <2>3. Elements(lb_mail[o])' = Elements(lb_mail'[o])
    BY DEF Elements
  <2>4. \A c \in Elements(candidate_pool[o]) : c.server \in Servers /\ c.rif \in Nat
    <3>1. \A c \in Elements(candidate_pool[o]) : c \in Candidate
      BY DEF Elements
    <3> QED
      BY <3>1 DEF Candidate
  <2>5. \A m \in Elements(lb_mail[o]) : m.server \in Servers /\ m.rif \in Nat
    <3>1. \A m \in Elements(lb_mail[o]) : m \in Reply
      BY DEF Elements
    <3> QED
      BY <3>1 DEF Reply
  <2> QED
    BY <2>1, <2>2, <2>3, <2>4, <2>5
<1>2. \A o \in LBs : \A s \in Servers : ProbeLast(server_mail[s], o)'
  BY DEF ProbeLast, ProbeOf, TaskOf
<1> QED
  BY <1>1, <1>2 DEF OwnTasks

LEMMA ServerInputKeepsPools ==
  ASSUME PoolInv, NEW s \in Servers, ServerInput(s)
  PROVE  PoolInv'
<1>h. Types /\ PoolsOK /\ (~at_once => OwnTasks)
  BY DEF PoolInv
<1> DEFINE q == server_mail[s]
           k == Head(q).lb
<1>1. /\ q # <<>> /\ Head(q).type = "task"
      /\ held' = [held EXCEPT ![s][k] = @ + 1]
      /\ server_mail' = [server_mail EXCEPT ![s] = Tail(@)]
      /\ at_once' = at_once /\ requests' = requests /\ r_remove_accum' = r_remove_accum
      /\ r_probe_accum' = r_probe_accum /\ lb_mail' = lb_mail
      /\ candidate_pool' = candidate_pool
  BY DEF ServerInput, Receives
<1>2. q \in Seq(Mail)
  BY <1>h DEF Types
<1>3. /\ Tail(q) \in Seq(Mail) /\ Head(q) \in Mail
      /\ Head(q) \in {TaskOf(k), ProbeOf(k)}
      /\ \A o \in LBs :
           /\ Count(q, {TaskOf(o)})
                = Count(Tail(q), {TaskOf(o)}) + IF Head(q) = TaskOf(o) THEN 1 ELSE 0
           /\ Count(Tail(q), {TaskOf(o)}) \in Nat
           /\ ProbeLast(q, o) => ProbeLast(Tail(q), o)
  <2>1. LBs # {}
    BY <1>1, <1>2 DEF Mail
  <2> QED
    BY <1>1, <1>2, <2>1, PopMail
<1>4. k \in LBs /\ Head(q) = TaskOf(k)
  BY <1>1, <1>3 DEF Mail, ProbeOf
<1>5. Types'
  <2>1. [held[s] EXCEPT ![k] = @ + 1] \in [LBs -> Nat]
    BY <1>h, <1>4 DEF Types
  <2>2. held' \in [Servers -> [LBs -> Nat]]
    BY <1>h, <1>1, <2>1 DEF Types
  <2>3. server_mail' \in [Servers -> Seq(Mail)]
    BY <1>h, <1>1, <1>3 DEF Types
  <2> QED
    BY <1>h, <1>1, <2>2, <2>3 DEF Types
<1>6. PoolsOK'
  BY <1>h, <1>1 DEF PoolsOK
<1>7. ASSUME ~at_once
      PROVE  OwnTasks'
  <2>1. OwnTasks
    BY <1>h, <1>7
  <2>2. \A o \in LBs : \A r \in Servers : ProbeLast(server_mail'[r], o)
    <3> TAKE o \in LBs
    <3> TAKE r \in Servers
    <3>1. ProbeLast(server_mail[r], o)
      BY <2>1 DEF OwnTasks
    <3>2. server_mail'[r] = IF r = s THEN Tail(q) ELSE server_mail[r]
      BY <1>h, <1>1 DEF Types
    <3> QED
      BY <1>3, <3>1, <3>2
  <2>3. ASSUME NEW o \in LBs, NEW r \in Servers, NEW rif \in Nat, Covers(o, r, rif)
        PROVE  Covers(o, r, rif)'
    <3>1. OnTheWay(o, r) = Count(server_mail[r], {TaskOf(o)})
      BY <1>h, OnTheWayCounted
    <3>2. OnTheWay(o, r)' = Count(server_mail'[r], {TaskOf(o)})
      <4>1. {i \in DOMAIN server_mail'[r] : server_mail'[r][i] \in {TaskOf(o)}}
              = {i \in DOMAIN server_mail'[r] : server_mail'[r][i] = TaskOf(o)}
        OBVIOUS
      <4> QED
        BY <4>1, Zenon DEF OnTheWay, Count, TaskOf
    <3>3. CASE r = s
      <4>1. server_mail'[r] = Tail(q)
        BY <1>h, <1>1, <3>3 DEF Types
      <4>2. CASE o = k
        <5>1. held'[r][o] = held[r][o] + 1 /\ held[r][o] \in Nat
          BY <1>h, <1>1, <1>4, <3>3, <4>2 DEF Types
        <5>2. /\ Count(q, {TaskOf(o)}) = Count(Tail(q), {TaskOf(o)}) + 1
              /\ Count(Tail(q), {TaskOf(o)}) \in Nat
          BY <1>3, <1>4, <4>2
        <5>3. /\ OnTheWay(o, r) = OnTheWay(o, r)' + 1
              /\ OnTheWay(o, r)' \in Nat
          BY <3>1, <3>2, <3>3, <4>1, <5>2
        <5>4. rif >= held[r][o] + OnTheWay(o, r)
          BY <2>3 DEF Covers
        <5>5. rif >= held'[r][o] + OnTheWay(o, r)'
          BY <5>1, <5>3, <5>4
        <5> QED
          BY <5>5 DEF Covers
      <4>3. CASE o # k
        <5>1. held'[r][o] = held[r][o]
          BY <1>h, <1>1, <1>4, <3>3, <4>3 DEF Types
        <5>2. Head(q) # TaskOf(o)
          BY <1>4, <4>3 DEF TaskOf
        <5>3. /\ Count(q, {TaskOf(o)}) = Count(Tail(q), {TaskOf(o)}) + 0
              /\ Count(Tail(q), {TaskOf(o)}) \in Nat
          BY <1>3, <5>2
        <5>4. OnTheWay(o, r) = OnTheWay(o, r)'
          BY <3>1, <3>2, <3>3, <4>1, <5>3
        <5> QED
          BY <2>3, <5>1, <5>4 DEF Covers
      <4> QED
        BY <4>2, <4>3
    <3>4. CASE r # s
      <4>1. held'[r] = held[r] /\ server_mail'[r] = server_mail[r]
        BY <1>h, <1>1, <3>4 DEF Types
      <4> QED
        BY <2>3, <3>1, <3>2, <4>1 DEF Covers
    <3> QED
      BY <3>3, <3>4
  <2>4. \A o \in LBs : Elements(lb_mail'[o]) = Elements(lb_mail[o])
    BY <1>1
  <2> QED
    BY <1>h, <1>1, <2>1, <2>2, <2>3, <2>4, OwnTasksKept DEF Types
<1> QED
  BY <1>1, <1>5, <1>6, <1>7 DEF PoolInv

LEMMA ProbeKeepsPools ==
  ASSUME PoolInv, NEW s \in Servers, Probe(s)
  PROVE  PoolInv'
<1>h. Types /\ PoolsOK /\ (~at_once => OwnTasks)
  BY DEF PoolInv
<1> DEFINE q == server_mail[s]
           k == Head(q).lb
<1>a. /\ q # <<>> /\ Head(q).type = "probe"
      /\ lb_mail' = [lb_mail EXCEPT ![k] = Append(@, [server |-> s, rif |-> Rif(s)])]
      /\ server_mail' = [server_mail EXCEPT ![s] = Tail(@)]
      /\ at_once' = at_once /\ requests' = requests /\ r_remove_accum' = r_remove_accum
      /\ r_probe_accum' = r_probe_accum /\ held' = held
      /\ candidate_pool' = candidate_pool
  BY DEF Probe, Receives
<1>b. q \in Seq(Mail) /\ q # <<>>
  BY <1>h, <1>a DEF Types
<1>c. k \in LBs /\ Head(q) = ProbeOf(k)
  <2>1. Head(q) \in Mail
    BY <1>b
  <2> QED
    BY <1>a, <2>1 DEF Mail, ProbeOf
<1> PICK l \in LBs : l = k
  BY <1>c
<1>d. Rif(s) \in Nat
  BY <1>h, RifCounts
<1> PICK n \in Nat : n = Rif(s)
  BY <1>d
<1> DEFINE reply == [server |-> s, rif |-> n]
<1>1. /\ q # <<>>
      /\ lb_mail' = [lb_mail EXCEPT ![l] = Append(@, reply)]
      /\ server_mail' = [server_mail EXCEPT ![s] = Tail(@)]
      /\ at_once' = at_once /\ requests' = requests /\ r_remove_accum' = r_remove_accum
      /\ r_probe_accum' = r_probe_accum /\ held' = held
      /\ candidate_pool' = candidate_pool
  BY <1>a
<1>2. q \in Seq(Mail)
  BY <1>h DEF Types
<1>3. /\ Tail(q) \in Seq(Mail) /\ Head(q) \in Mail
      /\ \A o \in LBs :
           /\ Count(q, {TaskOf(o)})
                = Count(Tail(q), {TaskOf(o)}) + IF Head(q) = TaskOf(o) THEN 1 ELSE 0
           /\ Count(Tail(q), {TaskOf(o)}) \in Nat
           /\ ProbeLast(q, o) => ProbeLast(Tail(q), o)
           /\ ProbeLast(q, o) /\ Head(q) = ProbeOf(o) => Count(Tail(q), {TaskOf(o)}) = 0
  BY <1>1, <1>2, PopMail
<1>4. l \in LBs /\ Head(q) = ProbeOf(l)
  BY <1>c
<1>5. n >= held[s][l]
  BY <1>h, RifCounts
<1>6. reply \in Reply /\ reply.server = s /\ reply.rif = n
  BY DEF Reply
<1> HIDE DEF reply
<1>7. /\ Append(lb_mail[l], reply) \in Seq(Reply)
      /\ Elements(Append(lb_mail[l], reply)) = Elements(lb_mail[l]) \cup {reply}
  <2>1. lb_mail[l] \in Seq(Reply)
    BY <1>h, <1>4 DEF Types
  <2> QED
    BY <1>6, <2>1, PushBack
<1>8. Types'
  <2>1. server_mail' \in [Servers -> Seq(Mail)]
    BY <1>h, <1>1, <1>3 DEF Types
  <2>2. lb_mail' \in [LBs -> Seq(Reply)]
    BY <1>h, <1>1, <1>7 DEF Types
  <2> QED
    BY <1>h, <1>1, <2>1, <2>2 DEF Types
<1>9. PoolsOK'
  BY <1>h, <1>1 DEF PoolsOK
<1>10. ASSUME ~at_once
       PROVE  OwnTasks'
  <2>1. OwnTasks
    BY <1>h, <1>10
  <2>2. \A o \in LBs : \A r \in Servers : ProbeLast(server_mail'[r], o)
    <3> TAKE o \in LBs
    <3> TAKE r \in Servers
    <3>1. ProbeLast(server_mail[r], o)
      BY <2>1 DEF OwnTasks
    <3>2. server_mail'[r] = IF r = s THEN Tail(q) ELSE server_mail[r]
      BY <1>h, <1>1 DEF Types
    <3> QED
      BY <1>3, <3>1, <3>2
  <2>3. ASSUME NEW o \in LBs, NEW r \in Servers
        PROVE  /\ OnTheWay(o, r)' = OnTheWay(o, r)
               /\ o = l /\ r = s => OnTheWay(o, r)' = 0
    <3>1. OnTheWay(o, r) = Count(server_mail[r], {TaskOf(o)})
      BY <1>h, OnTheWayCounted
    <3>2. OnTheWay(o, r)' = Count(server_mail'[r], {TaskOf(o)})
      <4>1. {i \in DOMAIN server_mail'[r] : server_mail'[r][i] \in {TaskOf(o)}}
              = {i \in DOMAIN server_mail'[r] : server_mail'[r][i] = TaskOf(o)}
        OBVIOUS
      <4> QED
        BY <4>1, Zenon DEF OnTheWay, Count, TaskOf
    <3>3. CASE r = s
      <4>1. server_mail'[r] = Tail(q)
        BY <1>h, <1>1, <3>3 DEF Types
      <4>2. Head(q) # TaskOf(o)
        BY <1>4 DEF TaskOf, ProbeOf
      <4>3. /\ Count(q, {TaskOf(o)}) = Count(Tail(q), {TaskOf(o)}) + 0
            /\ Count(Tail(q), {TaskOf(o)}) \in Nat
        BY <1>3, <4>2
      <4>4. ProbeLast(q, o)
        BY <2>1, <3>3 DEF OwnTasks
      <4>5. o = l => Count(Tail(q), {TaskOf(o)}) = 0
        BY <1>3, <1>4, <4>4
      <4> QED
        BY <3>1, <3>2, <3>3, <4>1, <4>3, <4>5
    <3>4. CASE r # s
      <4>1. server_mail'[r] = server_mail[r]
        BY <1>h, <1>1, <3>4 DEF Types
      <4> QED
        BY <3>1, <3>2, <3>4, <4>1
    <3> QED
      BY <3>3, <3>4
  <2>4. ASSUME NEW o \in LBs, NEW r \in Servers, NEW rif \in Nat, Covers(o, r, rif)
        PROVE  Covers(o, r, rif)'
    BY <1>1, <2>3, <2>4 DEF Covers
  <2>5. Covers(l, reply.server, reply.rif)'
    <3>1. OnTheWay(l, s)' = 0
      BY <1>4, <2>3
    <3>2. held[s][l] \in Nat
      BY <1>h, <1>4 DEF Types
    <3>3. n >= held'[s][l] + OnTheWay(l, s)'
      BY <1>1, <1>5, <3>1, <3>2
    <3>4. Covers(l, s, n)'
      BY <3>3 DEF Covers
    <3> QED
      BY <1>6, <3>4 DEF reply
  <2>6. \A o \in LBs : \A m \in Elements(lb_mail'[o]) :
          m \in Elements(lb_mail[o]) \/ Covers(o, m.server, m.rif)'
    <3> TAKE o \in LBs
    <3>1. lb_mail'[o] = IF o = l THEN Append(lb_mail[l], reply) ELSE lb_mail[o]
      BY <1>h, <1>1, <1>4 DEF Types
    <3>2. \A m \in Elements(lb_mail'[o]) : m \in Elements(lb_mail[o]) \/ (o = l /\ m = reply)
      BY <1>7, <3>1
    <3> QED
      BY <2>5, <3>2
  <2> QED
    BY <1>h, <1>1, <2>1, <2>2, <2>4, <2>6, OwnTasksKept DEF Types
<1> QED
  BY <1>1, <1>8, <1>9, <1>10 DEF PoolInv

LEMMA CompleteKeepsPools ==
  ASSUME PoolInv, NEW s \in Servers, NEW l \in LBs, Complete(s, l)
  PROVE  PoolInv'
<1>h. Types /\ PoolsOK /\ (~at_once => OwnTasks)
  BY DEF PoolInv
<1>1. /\ held[s][l] > 0
      /\ held' = [held EXCEPT ![s][l] = @ - 1]
      /\ at_once' = at_once /\ requests' = requests /\ r_remove_accum' = r_remove_accum
      /\ r_probe_accum' = r_probe_accum /\ candidate_pool' = candidate_pool
      /\ server_mail' = server_mail /\ lb_mail' = lb_mail
  BY DEF Complete
<1>2. held[s][l] \in Nat /\ held[s][l] - 1 \in Nat
  BY <1>h, <1>1 DEF Types
<1>3. \A r \in Servers : \A o \in LBs :
        held'[r][o] = IF r = s /\ o = l THEN held[s][l] - 1 ELSE held[r][o]
  BY <1>h, <1>1 DEF Types
<1>4. Types'
  <2>1. [held[s] EXCEPT ![l] = @ - 1] \in [LBs -> Nat]
    BY <1>h, <1>2 DEF Types
  <2>2. held' \in [Servers -> [LBs -> Nat]]
    BY <1>h, <1>1, <2>1 DEF Types
  <2> QED
    BY <1>h, <1>1, <2>2 DEF Types
<1>5. PoolsOK'
  BY <1>h, <1>1 DEF PoolsOK
<1>6. ASSUME ~at_once
      PROVE  OwnTasks'
  <2>1. OwnTasks
    BY <1>h, <1>6
  <2>2. \A o \in LBs : \A r \in Servers : ProbeLast(server_mail'[r], o)
    BY <1>1, <2>1 DEF OwnTasks
  <2>3. ASSUME NEW o \in LBs, NEW r \in Servers, NEW rif \in Nat, Covers(o, r, rif)
        PROVE  Covers(o, r, rif)'
    <3>1. OnTheWay(o, r)' = OnTheWay(o, r) /\ OnTheWay(o, r) \in Nat
      <4>1. OnTheWay(o, r)' = OnTheWay(o, r)
        BY <1>1 DEF OnTheWay, TaskOf
      <4> QED
        BY <1>h, <4>1, OnTheWayCounted
    <3>2. held'[r][o] \in Nat /\ held[r][o] \in Nat /\ held'[r][o] <= held[r][o]
      <4>1. CASE r = s /\ o = l
        BY <1>2, <1>3, <4>1
      <4>2. CASE ~(r = s /\ o = l)
        <5>1. held'[r][o] = held[r][o] /\ held[r][o] \in Nat
          BY <1>h, <1>3, <4>2 DEF Types
        <5> QED
          BY <5>1
      <4> QED
        BY <4>1, <4>2
    <3>3. rif >= held[r][o] + OnTheWay(o, r)
      BY <2>3 DEF Covers
    <3>4. rif >= held'[r][o] + OnTheWay(o, r)'
      BY <3>1, <3>2, <3>3
    <3> QED
      BY <3>4 DEF Covers
  <2>4. \A o \in LBs : \A m \in Elements(lb_mail'[o]) : m \in Elements(lb_mail[o])
    BY <1>1
  <2> QED
    BY <1>h, <1>1, <2>1, <2>2, <2>3, <2>4, OwnTasksKept DEF Types
<1> QED
  BY <1>1, <1>4, <1>5, <1>6 DEF PoolInv

LEMMA PoolsInit ==
  Init => PoolInv
<1> SUFFICES ASSUME Init PROVE PoolInv
  OBVIOUS
<1>i. /\ at_once \in BOOLEAN
      /\ requests = [l \in LBs |-> 0]
      /\ candidate_pool = [l \in LBs |-> <<>>]
      /\ r_remove_accum = [l \in LBs |-> 0]
      /\ r_probe_accum = [l \in LBs |-> 0]
      /\ held = [s \in Servers |-> [l \in LBs |-> 0]]
      /\ server_mail = [s \in Servers |-> <<>>]
      /\ lb_mail = [l \in LBs |-> <<>>]
  BY DEF Init
<1>1. Types
  BY <1>i DEF Types
<1>2. PoolsOK
  <2>1. <<>> \in Seq(Candidate) /\ DOMAIN <<>> = {} /\ Len(<<>>) = 0
    OBVIOUS
  <2>2. PoolOK(<<>>)
    BY <2>1, CapPositive DEF PoolOK, Distinct, Fresh
  <2> QED
    BY <1>i, <2>2 DEF PoolsOK
<1>3. OwnTasks
  <2>1. DOMAIN <<>> = {}
    OBVIOUS
  <2>2. \A l \in LBs : /\ Elements(candidate_pool[l]) = {} /\ Elements(lb_mail[l]) = {}
                       /\ \A s \in Servers : ProbeLast(server_mail[s], l)
    BY <1>i, <2>1 DEF Elements, ProbeLast
  <2> QED
    BY <2>2 DEF OwnTasks
<1> QED
  BY <1>1, <1>2, <1>3 DEF PoolInv

LEMMA PoolsNext ==
  PoolInv /\ [Next]_vars => PoolInv'
<1> SUFFICES ASSUME PoolInv, [Next]_vars
             PROVE  PoolInv'
  OBVIOUS
<1>1. ASSUME NEW l \in LBs, DispatchPrequal(l) PROVE PoolInv'
  BY <1>1, DispatchKeepsPools
<1>2. ASSUME NEW l \in LBs, ProbeReply(l) PROVE PoolInv'
  BY <1>2, ProbeReplyKeepsPools
<1>3. ASSUME NEW s \in Servers, ServerInput(s) PROVE PoolInv'
  BY <1>3, ServerInputKeepsPools
<1>4. ASSUME NEW s \in Servers, Probe(s) PROVE PoolInv'
  BY <1>4, ProbeKeepsPools
<1>5. ASSUME NEW s \in Servers, NEW l \in LBs, Complete(s, l) PROVE PoolInv'
  BY <1>5, CompleteKeepsPools
<1>6. ASSUME UNCHANGED vars PROVE PoolInv'
  <2>1. /\ at_once' = at_once /\ requests' = requests /\ r_remove_accum' = r_remove_accum
        /\ r_probe_accum' = r_probe_accum /\ candidate_pool' = candidate_pool
        /\ held' = held /\ server_mail' = server_mail /\ lb_mail' = lb_mail
    BY <1>6 DEF vars
  <2>2. Types' /\ PoolsOK'
    BY <2>1 DEF PoolInv, Types, PoolsOK
  <2>3. \A o \in LBs : \A s, rif : Covers(o, s, rif) => Covers(o, s, rif)'
    BY <2>1 DEF Covers, OnTheWay, TaskOf
  <2>4. OwnTasks => OwnTasks'
    <3> SUFFICES ASSUME OwnTasks PROVE OwnTasks'
      OBVIOUS
    <3>1. \A o \in LBs : \A r \in Servers : ProbeLast(server_mail'[r], o)
      BY <2>1 DEF OwnTasks
    <3>2. \A o \in LBs : \A m \in Elements(lb_mail'[o]) : m \in Elements(lb_mail[o])
      BY <2>1
    <3> QED
      BY <2>1, <2>3, <3>1, <3>2, OwnTasksKept DEF PoolInv, Types
  <2> QED
    BY <2>1, <2>2, <2>4 DEF PoolInv
<1>7. CASE Next
  BY <1>1, <1>2, <1>3, <1>4, <1>5, <1>6, <1>7 DEF Next, Finished
<1> QED
  BY <1>6, <1>7

(***************************************************************************)
(* The inductive invariant of the pools: they are sound, and when requests *)
(* come one at a time, every RIF that a balancer remembers or that is on   *)
(* its way to it covers its own tasks, because no probe is overtaken by a  *)
(* task of the same balancer.                                              *)
(***************************************************************************)
THEOREM PoolsInvariant == Spec => []PoolInv
<1> QED
  BY PoolsInit, PoolsNext, PTL DEF Spec

(***************************************************************************)
(* ingest_reply, remove_worst and after_dispatch keep a pool within its    *)
(* capacity, with one candidate per server and none used up, for every     *)
(* number of servers and every rate.                                       *)
(***************************************************************************)
THEOREM PoolsStaySound == Spec => []PoolSound
<1>1. PoolInv => PoolSound
  <2> SUFFICES ASSUME PoolInv, NEW l \in LBs
               PROVE  /\ Len(candidate_pool[l]) <= PoolCap
                      /\ Cardinality(Pooled(candidate_pool[l])) = Len(candidate_pool[l])
                      /\ \A i \in DOMAIN candidate_pool[l] : candidate_pool[l][i].uses < B_REUSE
    BY DEF PoolSound
  <2>1. PoolOK(candidate_pool[l])
    BY DEF PoolInv, PoolsOK
  <2> QED
    BY <2>1, PooledCounted DEF PoolOK, Fresh
<1> QED
  BY <1>1, PoolsInvariant, PTL

(***************************************************************************)
(* A balancer's pool never hides its own tasks from it when requests come  *)
(* one at a time.                                                          *)
(***************************************************************************)
THEOREM OwnTasksCounted == Spec => []CandidateCountsOwnTasks
<1>1. PoolInv => CandidateCountsOwnTasks
  BY DEF PoolInv, CandidateCountsOwnTasks, OwnTasks, Covers, Elements
<1> QED
  BY <1>1, PoolsInvariant, PTL

-----------------------------------------------------------------------------
(* The removals owed *)

(* l has a candidate, or an answer or a probe of it is on its way. *)
Answered(l) ==
  \/ candidate_pool[l] # <<>>
  \/ lb_mail[l] # <<>>
  \/ \E s \in Servers : ProbeOf(l) \in Elements(server_mail[s])

OwesLittle(l) ==
  \/ requests[l] = 0 /\ r_remove_accum[l] = 0
  \/ requests[l] > 0 /\ r_remove_accum[l] < 10 /\ Answered(l)

DebtInv == ~at_once => \A l \in LBs : OwesLittle(l)

(* A probe is issued to some server outside a pool that is not full of servers. *)
LEMMA SomeoneIsProbed ==
  ASSUME NEW p \in Seq(Candidate), NEW n \in Nat \ {0}, NEW T \in ProbeTargets(p, n)
  PROVE  p # <<>> \/ \E s \in Servers : s \in T
<1> SUFFICES ASSUME p = <<>> PROVE \E s \in Servers : s \in T
  OBVIOUS
<1> DEFINE unknown == Servers \ Pooled(p)
<1>1. unknown = Servers
  BY DEF Pooled
<1>2. Cardinality(Servers) \in Nat /\ Cardinality(Servers) # 0
  BY PrequalAssumption, FS_CardinalityType, FS_EmptySet
<1>3. T \in SUBSET Servers
      /\ Cardinality(T) = IF n <= Cardinality(Servers) THEN n ELSE Cardinality(Servers)
  BY <1>1 DEF ProbeTargets
<1>4. Cardinality(T) # 0
  BY <1>2, <1>3
<1>5. T # {}
  BY <1>4, FS_EmptySet
<1> QED
  BY <1>3, <1>5

LEMMA DispatchOwes ==
  ASSUME R_PROBE >= 10, R_REMOVE < 10, PoolInv, DebtInv, NEW l \in LBs, DispatchPrequal(l)
  PROVE  DebtInv'
<1>h. Types /\ PoolsOK
  BY DEF PoolInv
<1> DEFINE debt == r_remove_accum[l] + R_REMOVE
           probes == r_probe_accum[l] + R_PROBE
           left(s) == Dispatched(candidate_pool[l], debt, s)
<1>1. PICK s, targets :
        /\ candidate_pool' = [candidate_pool EXCEPT ![l] = left(s)]
        /\ targets \in ProbeTargets(left(s), probes \div 10)
        /\ server_mail' = Sent(l, s, targets)
  BY DispatchDoes
<1>2. /\ requests' = [requests EXCEPT ![l] = @ + 1]
      /\ r_remove_accum' = [r_remove_accum EXCEPT ![l] =
                              RemovalsDue(candidate_pool[l], debt).debt]
      /\ at_once \/ Quiet
      /\ at_once' = at_once /\ lb_mail' = lb_mail
  BY DEF DispatchPrequal
<1>3. /\ debt \in Nat /\ debt < r_remove_accum[l] + 10 /\ r_remove_accum[l] \in Nat
      /\ probes \in Nat /\ probes >= 10
      /\ candidate_pool[l] \in Seq(Candidate) /\ PoolOK(candidate_pool[l])
  BY <1>h, PrequalAssumption DEF Types, PoolsOK
<1> HIDE DEF debt
<1>4. PoolOK(left(s))
  BY <1>3, DispatchedPool
<1> HIDE DEF left
<1>5. left(s) \in Seq(Candidate)
  BY <1>4 DEF PoolOK
<1>6. left(s) # <<>> \/ \E r \in Servers : r \in targets
  <2>1. probes \div 10 \in Nat \ {0}
    BY <1>3
  <2> HIDE DEF probes
  <2> QED
    BY <1>1, <1>5, <2>1, SomeoneIsProbed
<1> SUFFICES ASSUME ~at_once
             PROVE  (\A o \in LBs : OwesLittle(o))'
  BY <1>2 DEF DebtInv
<1>7. /\ \A r \in Servers : server_mail[r] = <<>>
      /\ \A o \in LBs : lb_mail[o] = <<>>
  BY <1>2 DEF Quiet
<1>8. Elements(<<>>) = {}
  <2>1. DOMAIN <<>> = {}
    OBVIOUS
  <2> QED
    BY <2>1 DEF Elements
<1>9. ASSUME NEW o \in LBs, o # l
      PROVE  OwesLittle(o)'
  <2>1. OwesLittle(o)
    BY DEF DebtInv
  <2>2. Answered(o) => candidate_pool[o] # <<>>
    BY <1>7, <1>8 DEF Answered
  <2>3. /\ requests'[o] = requests[o] /\ r_remove_accum'[o] = r_remove_accum[o]
        /\ candidate_pool'[o] = candidate_pool[o]
    BY <1>h, <1>1, <1>2, <1>9 DEF Types
  <2> QED
    BY <2>1, <2>2, <2>3 DEF OwesLittle, Answered
<1>10. OwesLittle(l)'
  <2>1. OwesLittle(l)
    BY DEF DebtInv
  <2>2. requests[l] \in Nat /\ requests'[l] = requests[l] + 1
    BY <1>h, <1>2 DEF Types
  <2>3. r_remove_accum'[l] = RemovalsDue(candidate_pool[l], debt).debt
    BY <1>h, <1>2 DEF Types
  <2>4. r_remove_accum'[l] < 10
    <3>1. CASE requests[l] = 0 /\ r_remove_accum[l] = 0
      <4>1. debt < 10
        BY <1>3, <3>1
      <4>2. RemovalsDue(candidate_pool[l], debt).debt = debt
        BY <1>3, <4>1, RemovalsAreDue
      <4> QED
        BY <2>3, <4>1, <4>2
    <3>2. CASE r_remove_accum[l] < 10 /\ Answered(l)
      <4>1. candidate_pool[l] # <<>>
        BY <1>7, <1>8, <3>2 DEF Answered
      <4>2. debt < 20
        BY <1>3, <3>2
      <4> QED
        BY <1>3, <2>3, <4>1, <4>2, RemovalsAreDue
    <3> QED
      BY <2>1, <3>1, <3>2 DEF OwesLittle
  <2>5. candidate_pool'[l] = left(s)
    BY <1>h, <1>1 DEF Types
  <2>6. \A r \in Servers : r \in targets => ProbeOf(l) \in Elements(server_mail'[r])
    BY <1>h, <1>1, SentMail
  <2>7. Answered(l)'
    <3>1. \A r \in Servers : Elements(server_mail[r])' = Elements(server_mail'[r])
      BY DEF Elements
    <3>2. ProbeOf(l)' = ProbeOf(l)
      BY DEF ProbeOf
    <3> QED
      BY <1>6, <2>5, <2>6, <3>1, <3>2 DEF Answered
  <2> QED
    BY <2>2, <2>4, <2>7 DEF OwesLittle
<1> QED
  BY <1>9, <1>10

(* No other handler touches what is owed, and an answer is not lost. *)
LEMMA OwedKept ==
  ASSUME DebtInv, at_once' = at_once, requests' = requests,
         r_remove_accum' = r_remove_accum,
         \A l \in LBs : Answered(l) => Answered(l)'
  PROVE  DebtInv'
<1> SUFFICES ASSUME ~at_once, NEW l \in LBs
             PROVE  OwesLittle(l)'
  BY DEF DebtInv
<1>1. OwesLittle(l)
  BY DEF DebtInv
<1>2. Answered(l) => Answered(l)'
  OBVIOUS
<1>3. requests[l]' = requests[l] /\ r_remove_accum[l]' = r_remove_accum[l]
  OBVIOUS
<1> QED
  BY <1>1, <1>2, <1>3 DEF OwesLittle

LEMMA OthersOwe ==
  ASSUME PoolInv, DebtInv,
         \/ \E l \in LBs : ProbeReply(l)
         \/ \E s \in Servers : ServerInput(s) \/ Probe(s) \/ \E l \in LBs : Complete(s, l)
         \/ UNCHANGED vars
  PROVE  DebtInv'
<1>h. Types /\ PoolsOK
  BY DEF PoolInv
<1>1. ASSUME NEW l \in LBs, ProbeReply(l)
      PROVE  DebtInv'
  <2> DEFINE q == lb_mail[l]
             m == Head(q)
             after == IngestReply(candidate_pool[l], m.server, m.rif)
  <2>1. /\ q # <<>>
        /\ candidate_pool' = [candidate_pool EXCEPT ![l] = IngestReply(@, m.server, m.rif)]
        /\ lb_mail' = [lb_mail EXCEPT ![l] = Tail(@)]
        /\ at_once' = at_once /\ requests' = requests /\ r_remove_accum' = r_remove_accum
        /\ server_mail' = server_mail
    BY <1>1 DEF ProbeReply
  <2>2. m \in Reply /\ PoolOK(candidate_pool[l])
    <3>1. q \in Seq(Reply)
      BY <1>h DEF Types
    <3> QED
      BY <1>h, <2>1, <3>1, PopFront DEF PoolsOK
  <2>3. m.server \in Servers /\ m.rif \in Nat
    BY <2>2 DEF Reply
  <2>4. after # <<>>
    BY <2>2, <2>3, IngestedPool
  <2>5. /\ candidate_pool'[l] = after
        /\ \A o \in LBs : o # l => candidate_pool'[o] = candidate_pool[o] /\ lb_mail'[o] = lb_mail[o]
    BY <1>h, <2>1 DEF Types
  <2> HIDE DEF after
  <2>6. \A o \in LBs : Answered(o) => Answered(o)'
    BY <2>1, <2>4, <2>5 DEF Answered, ProbeOf, Elements
  <2> QED
    BY <2>1, <2>6, OwedKept
<1>2. ASSUME NEW s \in Servers, ServerInput(s)
      PROVE  DebtInv'
  <2> DEFINE q == server_mail[s]
  <2>1. /\ q # <<>> /\ Head(q).type = "task"
        /\ server_mail' = [server_mail EXCEPT ![s] = Tail(@)]
        /\ at_once' = at_once /\ requests' = requests /\ r_remove_accum' = r_remove_accum
        /\ candidate_pool' = candidate_pool /\ lb_mail' = lb_mail
    BY <1>2 DEF ServerInput, Receives
  <2>2. Elements(q) = Elements(Tail(q)) \cup {Head(q)}
    <3>1. q \in Seq(Mail)
      BY <1>h DEF Types
    <3> QED
      BY <2>1, <3>1, PopFront
  <2>3. \A r \in Servers : server_mail'[r] = IF r = s THEN Tail(q) ELSE server_mail[r]
    BY <1>h, <2>1 DEF Types
  <2>4. ASSUME NEW o \in LBs, Answered(o)
        PROVE  Answered(o)'
    <3>1. Head(q) # ProbeOf(o)
      BY <2>1 DEF ProbeOf
    <3>2. \A r \in Servers :
            ProbeOf(o) \in Elements(server_mail[r]) => ProbeOf(o) \in Elements(server_mail'[r])
      BY <2>2, <2>3, <3>1
    <3>3. ProbeOf(o)' = ProbeOf(o) /\ \A r \in Servers :
            Elements(server_mail[r])' = Elements(server_mail'[r])
      BY DEF ProbeOf, Elements
    <3> QED
      BY <2>1, <2>4, <3>2, <3>3 DEF Answered
  <2> QED
    BY <2>1, <2>4, OwedKept
<1>3. ASSUME NEW s \in Servers, Probe(s)
      PROVE  DebtInv'
  <2> DEFINE q == server_mail[s]
             l == Head(q).lb
  <2>1. /\ q # <<>> /\ Head(q).type = "probe"
        /\ lb_mail' = [lb_mail EXCEPT ![l] = Append(@, [server |-> s, rif |-> Rif(s)])]
        /\ server_mail' = [server_mail EXCEPT ![s] = Tail(@)]
        /\ at_once' = at_once /\ requests' = requests /\ r_remove_accum' = r_remove_accum
        /\ candidate_pool' = candidate_pool
    BY <1>3 DEF Probe, Receives
  <2>2. /\ Elements(q) = Elements(Tail(q)) \cup {Head(q)}
        /\ Head(q) \in Mail
    <3>1. q \in Seq(Mail)
      BY <1>h DEF Types
    <3> QED
      BY <2>1, <3>1, PopFront
  <2>3. \A r \in Servers : server_mail'[r] = IF r = s THEN Tail(q) ELSE server_mail[r]
    BY <1>h, <2>1 DEF Types
  <2>4. l \in LBs /\ Head(q) = ProbeOf(l)
    BY <2>1, <2>2 DEF Mail, ProbeOf
  <2>5. lb_mail'[l] # <<>> /\ \A o \in LBs : o # l => lb_mail'[o] = lb_mail[o]
    <3> DEFINE e == [server |-> s, rif |-> Rif(s)]
    <3>1. lb_mail' = [lb_mail EXCEPT ![l] = Append(@, e)] /\ lb_mail[l] \in Seq(Reply)
      BY <1>h, <2>1, <2>4 DEF Types
    <3>2. e \in Reply
      BY <1>h, <2>4, RifCounts DEF Reply
    <3> HIDE DEF e
    <3>3. Append(lb_mail[l], e) # <<>>
      BY <3>1, <3>2, PushBack
    <3> QED
      BY <1>h, <2>4, <3>1, <3>3 DEF Types
  <2>6. ASSUME NEW o \in LBs, Answered(o)
        PROVE  Answered(o)'
    <3>1. CASE o = l
      BY <2>5, <3>1 DEF Answered
    <3>2. CASE o # l
      <4>1. Head(q) # ProbeOf(o)
        BY <2>4, <3>2 DEF ProbeOf
      <4>2. \A r \in Servers :
              ProbeOf(o) \in Elements(server_mail[r]) => ProbeOf(o) \in Elements(server_mail'[r])
        BY <2>2, <2>3, <4>1
      <4>3. ProbeOf(o)' = ProbeOf(o) /\ \A r \in Servers :
              Elements(server_mail[r])' = Elements(server_mail'[r])
        BY DEF ProbeOf, Elements
      <4>4. lb_mail'[o] = lb_mail[o]
        BY <2>5, <3>2
      <4> QED
        BY <2>1, <2>6, <4>2, <4>3, <4>4 DEF Answered
    <3> QED
      BY <3>1, <3>2
  <2> QED
    BY <2>1, <2>6, OwedKept
<1>4. ASSUME UNCHANGED <<at_once, requests, r_remove_accum, candidate_pool, server_mail, lb_mail>>
      PROVE  DebtInv'
  <2>1. \A o \in LBs : Answered(o) => Answered(o)'
    BY <1>4 DEF Answered, ProbeOf, Elements
  <2> QED
    BY <1>4, <2>1, OwedKept
<1> QED
  BY <1>1, <1>2, <1>3, <1>4 DEF Complete, vars

(***************************************************************************)
(* With at least one probe and less than one removal per request, as the   *)
(* constants of prequal.rs have it, a balancer whose requests come one at  *)
(* a time finds a candidate whenever a removal falls due: it never owes a  *)
(* whole one afterwards.                                                   *)
(***************************************************************************)
THEOREM RemovalsPaid ==
  ASSUME R_PROBE >= 10, R_REMOVE < 10
  PROVE  Spec => []RemovalDebtPaid
<1>1. Init => DebtInv
  BY DEF Init, DebtInv, OwesLittle
<1>2. PoolInv /\ DebtInv /\ [Next]_vars => DebtInv'
  <2> SUFFICES ASSUME PoolInv, DebtInv, [Next]_vars
               PROVE  DebtInv'
    OBVIOUS
  <2>1. ASSUME NEW l \in LBs, DispatchPrequal(l) PROVE DebtInv'
    BY <2>1, DispatchOwes
  <2> QED
    BY <2>1, OthersOwe DEF Next, Finished
<1>3. DebtInv => RemovalDebtPaid
  <2> SUFFICES ASSUME DebtInv, ~at_once, NEW l \in LBs
               PROVE  r_remove_accum[l] < 10
    BY DEF RemovalDebtPaid
  <2>1. OwesLittle(l)
    BY DEF DebtInv
  <2> QED
    BY <2>1 DEF OwesLittle
<1> QED
  BY <1>1, <1>2, <1>3, PoolsInvariant, PTL DEF Spec
=============================================================================
