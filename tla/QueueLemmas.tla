---------------------------- MODULE QueueLemmas ----------------------------
(***************************************************************************)
(* Facts about the sequences that stand for the code's Vec and VecDeque    *)
(* queues: push at the back, pop at the front, removal at an index; and at *)
(* the end about deterministic subsets, for every number of backends.      *)
(***************************************************************************)
EXTENDS Integers, Subset, Sequences, SequencesExt, FiniteSets, FiniteSetsExt, SequenceTheorems,
        FiniteSetTheorems, WellFoundedInduction, TLAPS

(* The elements of a queue. *)
Elements(q) == {q[i] : i \in DOMAIN q}

(* No element stands at two positions. *)
NoDuplicates(q) == \A i, j \in DOMAIN q : q[i] = q[j] => i = j

(* Vec::push / VecDeque::push_back: one more element, at the back. *)
LEMMA PushBack ==
  ASSUME NEW S, NEW q \in Seq(S), NEW e \in S
  PROVE  /\ Append(q, e) \in Seq(S)
         /\ Append(q, e) # <<>>
         /\ DOMAIN Append(q, e) = 1 .. Len(q) + 1
         /\ Len(Append(q, e)) = Len(q) + 1
         /\ \A i \in DOMAIN q : Append(q, e)[i] = q[i]
         /\ Append(q, e)[Len(q) + 1] = e
         /\ Elements(Append(q, e)) = Elements(q) \cup {e}
<1>1. /\ Append(q, e) \in Seq(S) /\ Len(Append(q, e)) = Len(q) + 1
      /\ \A i \in DOMAIN q : Append(q, e)[i] = q[i]
      /\ Append(q, e)[Len(q) + 1] = e
      /\ Len(q) \in Nat
  OBVIOUS
<1>2. DOMAIN Append(q, e) = 1 .. Len(q) + 1 /\ DOMAIN q = 1 .. Len(q)
  BY <1>1
<1>3. Elements(Append(q, e)) = Elements(q) \cup {e}
  <2>1. \A i \in 1 .. Len(q) + 1 : i \in 1 .. Len(q) \/ i = Len(q) + 1
    BY <1>1
  <2>2. \A i \in 1 .. Len(q) : i \in 1 .. Len(q) + 1
    BY <1>1
  <2>3. Len(q) + 1 \in 1 .. Len(q) + 1
    BY <1>1
  <2>4. QED
    BY <1>1, <1>2, <2>1, <2>2, <2>3 DEF Elements
<1>4. QED
  BY <1>1, <1>2, <1>3

(* VecDeque::pop_front: the head leaves, the others move up by one. *)
LEMMA PopFront ==
  ASSUME NEW S, NEW q \in Seq(S), q # <<>>
  PROVE  /\ Tail(q) \in Seq(S)
         /\ Head(q) \in S
         /\ Head(q) = q[1]
         /\ 1 \in DOMAIN q
         /\ DOMAIN Tail(q) = 1 .. Len(q) - 1
         /\ \A i \in DOMAIN Tail(q) : i + 1 \in DOMAIN q /\ Tail(q)[i] = q[i + 1]
         /\ \A i \in DOMAIN q : i = 1 \/ (i - 1 \in DOMAIN Tail(q) /\ q[i] = Tail(q)[i - 1])
         /\ Elements(q) = Elements(Tail(q)) \cup {Head(q)}
<1>1. /\ Tail(q) \in Seq(S) /\ Len(Tail(q)) = Len(q) - 1
      /\ Len(q) \in Nat /\ Len(q) >= 1
      /\ Head(q) = q[1] /\ Head(q) \in S
      /\ \A i \in 1 .. Len(q) - 1 : Tail(q)[i] = q[i + 1]
  OBVIOUS
<1>2. DOMAIN Tail(q) = 1 .. Len(q) - 1 /\ DOMAIN q = 1 .. Len(q)
  BY <1>1
<1>3. /\ 1 \in 1 .. Len(q)
      /\ \A i \in 1 .. Len(q) - 1 : i + 1 \in 1 .. Len(q)
      /\ \A i \in 1 .. Len(q) :
           i = 1 \/ (i - 1 \in 1 .. Len(q) - 1 /\ (i - 1) + 1 = i)
  BY <1>1
<1>4. \A i \in DOMAIN q : i = 1 \/ (i - 1 \in DOMAIN Tail(q) /\ q[i] = Tail(q)[i - 1])
  BY <1>1, <1>2, <1>3
<1>5. Elements(q) = Elements(Tail(q)) \cup {Head(q)}
  <2>1. ASSUME NEW i \in DOMAIN q PROVE q[i] \in Elements(Tail(q)) \cup {Head(q)}
    BY <1>1, <1>4 DEF Elements
  <2>2. ASSUME NEW i \in DOMAIN Tail(q) PROVE Tail(q)[i] \in Elements(q)
    BY <1>1, <1>2, <1>3 DEF Elements
  <2>3. Head(q) \in Elements(q)
    BY <1>1, <1>2, <1>3 DEF Elements
  <2>4. QED
    BY <2>1, <2>2, <2>3 DEF Elements
<1>6. QED
  BY <1>1, <1>2, <1>3, <1>4, <1>5

(* A push of a new element and a pop leave a queue without duplicates. *)
LEMMA PushBackNew ==
  ASSUME NEW S, NEW q \in Seq(S), NEW e \in S,
         NoDuplicates(q), e \notin Elements(q)
  PROVE  NoDuplicates(Append(q, e))
<1>1. /\ DOMAIN Append(q, e) = 1 .. Len(q) + 1
      /\ \A i \in DOMAIN q : Append(q, e)[i] = q[i]
      /\ Append(q, e)[Len(q) + 1] = e
  BY PushBack
<1>2. \A i \in DOMAIN Append(q, e) : i \in DOMAIN q \/ i = Len(q) + 1
  BY <1>1
<1> QED
  BY <1>1, <1>2 DEF NoDuplicates, Elements

LEMMA PopFrontNew ==
  ASSUME NEW S, NEW q \in Seq(S), q # <<>>, NoDuplicates(q)
  PROVE  /\ NoDuplicates(Tail(q))
         /\ Elements(Tail(q)) = Elements(q) \ {Head(q)}
<1>1. /\ Head(q) = q[1] /\ 1 \in DOMAIN q
      /\ DOMAIN Tail(q) = 1 .. Len(q) - 1
      /\ \A i \in DOMAIN Tail(q) : i + 1 \in DOMAIN q /\ Tail(q)[i] = q[i + 1]
      /\ Elements(q) = Elements(Tail(q)) \cup {Head(q)}
  BY PopFront
<1>2. \A i \in DOMAIN Tail(q) : i \in Nat /\ i >= 1 /\ i + 1 # 1
  BY <1>1
<1>3. Head(q) \notin Elements(Tail(q))
  BY <1>1, <1>2 DEF NoDuplicates, Elements
<1>4. NoDuplicates(Tail(q))
  <2> SUFFICES ASSUME NEW i \in DOMAIN Tail(q), NEW j \in DOMAIN Tail(q),
                      Tail(q)[i] = Tail(q)[j]
               PROVE  i = j
    BY DEF NoDuplicates
  <2>1. i + 1 = j + 1
    BY <1>1 DEF NoDuplicates
  <2> QED
    BY <1>2, <2>1
<1> QED
  BY <1>1, <1>3, <1>4

(* Vec::remove(i): the others keep their order. *)
LEMMA RemoveAtProperties ==
  ASSUME NEW S, NEW q \in Seq(S), NEW i \in DOMAIN q
  PROVE  /\ RemoveAt(q, i) \in Seq(S)
         /\ Len(RemoveAt(q, i)) = Len(q) - 1
         /\ \A j \in 1 .. Len(q) - 1 :
              RemoveAt(q, i)[j] = IF j < i THEN q[j] ELSE q[j + 1]
<1> DEFINE front == SubSeq(q, 1, i - 1)
           back  == SubSeq(q, i + 1, Len(q))
<1>1. /\ front \in Seq(S) /\ Len(front) = i - 1
      /\ back \in Seq(S) /\ Len(back) = Len(q) - i
  OBVIOUS
<1>2. /\ \A j \in 1 .. i - 1 : front[j] = q[j]
      /\ \A j \in 1 .. Len(q) - i : back[j] = q[j + i]
  OBVIOUS
<1>3. i \in Nat /\ Len(q) \in Nat /\ i >= 1 /\ i <= Len(q)
  OBVIOUS
<1>4. RemoveAt(q, i) = front \o back
  BY DEF RemoveAt
<1> HIDE DEF front, back
<1>5. /\ front \o back \in Seq(S)
      /\ Len(front \o back) = Len(front) + Len(back)
      /\ \A j \in 1 .. Len(front) + Len(back) :
           (front \o back)[j] =
             IF j <= Len(front) THEN front[j] ELSE back[j - Len(front)]
  BY <1>1, ConcatProperties
<1>6. /\ RemoveAt(q, i) \in Seq(S)
      /\ Len(RemoveAt(q, i)) = Len(q) - 1
  BY <1>1, <1>3, <1>4, <1>5
<1>7. ASSUME NEW j \in 1 .. Len(q) - 1
      PROVE  RemoveAt(q, i)[j] = IF j < i THEN q[j] ELSE q[j + 1]
  <2>1. (front \o back)[j] =
          IF j <= i - 1 THEN front[j] ELSE back[j - (i - 1)]
    <3>1. Len(front) = i - 1 /\ j \in 1 .. Len(front) + Len(back)
      BY <1>1, <1>3
    <3>2. (front \o back)[j] = IF j <= Len(front) THEN front[j] ELSE back[j - Len(front)]
      BY <1>5, <3>1
    <3> QED
      BY <3>1, <3>2
  <2>2. CASE j < i
    <3>1. j <= i - 1 /\ j \in 1 .. i - 1
      BY <1>3, <2>2
    <3>2. QED
      BY <1>2, <1>4, <2>1, <2>2, <3>1
  <2>3. CASE ~(j < i)
    <3>1. ~(j <= i - 1) /\ j - (i - 1) \in 1 .. Len(q) - i /\ (j - (i - 1)) + i = j + 1
      BY <1>3, <2>3
    <3>2. back[j - (i - 1)] = q[(j - (i - 1)) + i]
      BY <1>2, <3>1
    <3>3. QED
      BY <1>4, <2>1, <2>3, <3>1, <3>2
  <2>4. QED
    BY <2>2, <2>3
<1>8. QED
  BY <1>6, <1>7

(* Removing position i of a queue without duplicates removes that element only. *)
LEMMA RemoveAtElements ==
  ASSUME NEW S, NEW q \in Seq(S), NEW i \in DOMAIN q, NoDuplicates(q)
  PROVE  /\ NoDuplicates(RemoveAt(q, i))
         /\ Elements(RemoveAt(q, i)) = Elements(q) \ {q[i]}
<1> DEFINE r == RemoveAt(q, i)
<1>1. /\ r \in Seq(S) /\ Len(r) = Len(q) - 1
      /\ \A j \in 1 .. Len(q) - 1 : r[j] = IF j < i THEN q[j] ELSE q[j + 1]
  BY RemoveAtProperties
<1>2. /\ DOMAIN q = 1 .. Len(q) /\ Len(q) \in Nat /\ i \in 1 .. Len(q)
      /\ DOMAIN r = 1 .. Len(q) - 1
  BY <1>1
<1> HIDE DEF r
<1>3. \A j \in DOMAIN r : \E k \in DOMAIN q : k # i /\ r[j] = q[k]
  <2> TAKE j \in DOMAIN r
  <2>1. CASE j < i
    BY <1>1, <1>2, <2>1
  <2>2. CASE ~(j < i)
    <3>1. j + 1 \in DOMAIN q /\ j + 1 # i
      BY <1>2, <2>2
    <3>2. QED
      BY <1>1, <1>2, <2>2, <3>1
  <2>3. QED
    BY <2>1, <2>2
<1>4. \A k \in DOMAIN q : k # i => \E j \in DOMAIN r : r[j] = q[k]
  <2> TAKE k \in DOMAIN q
  <2>1. CASE k < i
    BY <1>1, <1>2, <2>1
  <2>2. CASE k > i
    <3>1. k - 1 \in DOMAIN r /\ ~(k - 1 < i) /\ (k - 1) + 1 = k
      BY <1>2, <2>2
    <3>2. QED
      BY <1>1, <1>2, <3>1
  <2>3. QED
    BY <1>2, <2>1, <2>2
<1>5. Elements(r) = Elements(q) \ {q[i]}
  BY <1>3, <1>4 DEF Elements, NoDuplicates
<1>6. NoDuplicates(r)
  <2> SUFFICES ASSUME NEW j \in DOMAIN r, NEW k \in DOMAIN r, r[j] = r[k] PROVE j = k
    BY DEF NoDuplicates
  <2> DEFINE at(n) == IF n < i THEN n ELSE n + 1
  <2>1. /\ r[j] = q[at(j)] /\ r[k] = q[at(k)]
        /\ at(j) \in DOMAIN q /\ at(k) \in DOMAIN q
    BY <1>1, <1>2
  <2>2. at(j) = at(k)
    BY <2>1 DEF NoDuplicates
  <2>3. QED
    BY <1>2, <2>2
<1>7. QED
  BY <1>5, <1>6 DEF r
-----------------------------------------------------------------------------
(* Least elements: what replaces induction on the naturals, whose theorem *)
(* takes an operator.                                                      *)

LEMMA Smallest ==
  ASSUME NEW T \in SUBSET Nat, T # {}
  PROVE  \E m \in T : \A k \in T : m <= k
<1>1. PICK m \in T : \A k \in T : ~(<<k, m>> \in OpToRel(<, Nat))
  BY NatLessThanWellFounded, WFMin
<1>2. \A k \in T : ~(k < m)
  BY <1>1 DEF OpToRel
<1> QED
  BY <1>2

LEMMA MinIsSmallest ==
  ASSUME NEW T \in SUBSET Nat, T # {}
  PROVE  /\ Min(T) \in T
         /\ \A k \in T : Min(T) <= k
<1>1. \E m \in T : \A k \in T : m <= k
  BY Smallest
<1> QED
  BY <1>1 DEF Min

(* A set of naturals that holds 0 and each successor up to n holds n. *)
LEMMA UpTo ==
  ASSUME NEW n \in Nat, NEW P, 0 \in P,
         \A i \in 1 .. n : i - 1 \in P => i \in P
  PROVE  0 .. n \subseteq P
<1> DEFINE T == (0 .. n) \ P
<1> SUFFICES ASSUME T # {} PROVE FALSE
  OBVIOUS
<1>1. PICK m \in T : \A k \in T : m <= k
  <2>1. T \in SUBSET Nat
    OBVIOUS
  <2> HIDE DEF T
  <2> QED
    BY <2>1, Smallest
<1>2. m \in 1 .. n /\ m - 1 \in 0 .. n /\ ~(m <= m - 1)
  OBVIOUS
<1>3. m - 1 \notin T
  BY <1>1, <1>2
<1> QED
  BY <1>1, <1>2, <1>3

-----------------------------------------------------------------------------
(* How many elements of a queue are in a set *)

Count(q, T) == Cardinality({i \in DOMAIN q : q[i] \in T})

LEMMA CountFinite ==
  ASSUME NEW S, NEW q \in Seq(S), NEW T
  PROVE  IsFiniteSet({i \in DOMAIN q : q[i] \in T}) /\ Count(q, T) \in Nat
<1>1. DOMAIN q = 1 .. Len(q) /\ Len(q) \in Nat
  OBVIOUS
<1>2. IsFiniteSet(1 .. Len(q))
  BY <1>1, FS_Interval
<1> QED
  BY <1>1, <1>2, FS_Subset, FS_CardinalityType DEF Count

LEMMA CountEmpty ==
  ASSUME NEW T
  PROVE  Count(<<>>, T) = 0
BY FS_EmptySet DEF Count

LEMMA CountPushBack ==
  ASSUME NEW S, NEW q \in Seq(S), NEW e \in S, NEW T
  PROVE  Count(Append(q, e), T) = Count(q, T) + IF e \in T THEN 1 ELSE 0
<1> DEFINE n == Len(q) + 1
           I == {i \in DOMAIN q : q[i] \in T}
           J == {i \in DOMAIN Append(q, e) : Append(q, e)[i] \in T}
<1>1. /\ DOMAIN Append(q, e) = 1 .. n /\ DOMAIN q = 1 .. Len(q) /\ Len(q) \in Nat
      /\ \A i \in DOMAIN q : Append(q, e)[i] = q[i]
      /\ Append(q, e)[n] = e
  BY PushBack
<1>2. /\ \A i \in 1 .. n : i \in 1 .. Len(q) \/ i = n
      /\ \A i \in 1 .. Len(q) : i \in 1 .. n
      /\ n \in 1 .. n /\ n \notin 1 .. Len(q)
  BY <1>1
<1>3. J = (IF e \in T THEN I \cup {n} ELSE I) /\ n \notin I
  <2> HIDE DEF n
  <2> QED
    BY <1>1, <1>2
<1>4. IsFiniteSet(I) /\ Cardinality(I) \in Nat
  BY CountFinite DEF Count
<1> HIDE DEF I, J, n
<1>5. Cardinality(I \cup {n}) = Cardinality(I) + 1
  BY <1>3, <1>4, FS_AddElement
<1>6. Cardinality(J) = Cardinality(I) + IF e \in T THEN 1 ELSE 0
  BY <1>3, <1>4, <1>5
<1> QED
  BY <1>6 DEF Count, I, J

(* r is q without its position k. *)
Without(q, k, r) ==
  /\ Len(r) = Len(q) - 1
  /\ \A j \in 1 .. Len(q) - 1 : r[j] = IF j < k THEN q[j] ELSE q[j + 1]

LEMMA CountWithout ==
  ASSUME NEW S, NEW q \in Seq(S), NEW r \in Seq(S), NEW k \in DOMAIN q,
         Without(q, k, r), NEW T
  PROVE  Count(q, T) = Count(r, T) + IF q[k] \in T THEN 1 ELSE 0
<1>w. /\ Len(r) = Len(q) - 1
      /\ \A j \in 1 .. Len(q) - 1 : r[j] = IF j < k THEN q[j] ELSE q[j + 1]
  BY DEF Without
<1> DEFINE I == {i \in DOMAIN q : q[i] \in T}
           J == {j \in DOMAIN r : r[j] \in T}
           R == I \ {k}
           f == [j \in J |-> IF j < k THEN j ELSE j + 1]
<1>1. /\ DOMAIN q = 1 .. Len(q) /\ Len(q) \in Nat /\ k \in 1 .. Len(q)
      /\ DOMAIN r = 1 .. Len(q) - 1
  BY <1>w
<1>2. f \in [J -> R]
  <2> SUFFICES ASSUME NEW j \in J PROVE (IF j < k THEN j ELSE j + 1) \in R
    OBVIOUS
  <2>1. j \in 1 .. Len(q) - 1 /\ r[j] \in T
    BY <1>1
  <2> QED
    BY <1>w, <1>1, <2>1
<1>3. \A i, j \in J : f[i] = f[j] => i = j
  BY <1>1
<1>4. \A i \in R : \E j \in J : f[j] = i
  <2> TAKE i \in R
  <2>1. i \in 1 .. Len(q) /\ q[i] \in T /\ i # k
    BY <1>1
  <2>2. CASE i < k
    <3>1. i \in J /\ f[i] = i
      BY <1>w, <1>1, <2>1, <2>2
    <3> QED
      BY <3>1
  <2>3. CASE i > k
    <3>1. i - 1 \in 1 .. Len(q) - 1 /\ ~(i - 1 < k) /\ (i - 1) + 1 = i
      BY <1>1, <2>1, <2>3
    <3>2. i - 1 \in J
      BY <1>w, <1>1, <2>1, <3>1
    <3> QED
      BY <3>1, <3>2
  <2>4. i < k \/ i > k
    BY <1>1, <2>1
  <2> QED
    BY <2>2, <2>3, <2>4
<1>5. IsFiniteSet(I) /\ IsFiniteSet(J) /\ Cardinality(I) \in Nat /\ Cardinality(J) \in Nat
  BY CountFinite DEF Count
<1>6. k \in I <=> q[k] \in T
  OBVIOUS
<1>7. Count(q, T) = Cardinality(I) /\ Count(r, T) = Cardinality(J)
  BY DEF Count
<1> HIDE DEF I, J, f
<1>8. ExistsBijection(J, R)
  <2> HIDE DEF R
  <2> QED
    BY <1>2, <1>3, <1>4 DEF ExistsBijection, Bijection, Injection, Surjection, IsInjective
<1>9. Cardinality(R) = Cardinality(J)
  BY <1>5, <1>8, FS_Bijection
<1>10. Cardinality(R) = IF k \in I THEN Cardinality(I) - 1 ELSE Cardinality(I)
  BY <1>5, FS_RemoveElement
<1> QED
  BY <1>5, <1>6, <1>7, <1>9, <1>10

LEMMA CountPopFront ==
  ASSUME NEW S, NEW q \in Seq(S), q # <<>>, NEW T
  PROVE  Count(q, T) = Count(Tail(q), T) + IF Head(q) \in T THEN 1 ELSE 0
<1>1. /\ Tail(q) \in Seq(S) /\ Len(Tail(q)) = Len(q) - 1 /\ 1 \in DOMAIN q
      /\ \A j \in 1 .. Len(q) - 1 : Tail(q)[j] = q[j + 1]
      /\ Head(q) = q[1]
  OBVIOUS
<1> DEFINE r == Tail(q)
           k == 1
<1>2. Without(q, k, r) /\ r \in Seq(S) /\ k \in DOMAIN q /\ q[k] = Head(q)
  BY <1>1 DEF Without
<1> HIDE DEF r, k
<1>3. Count(q, T) = Count(r, T) + IF q[k] \in T THEN 1 ELSE 0
  BY <1>2, CountWithout
<1> QED
  BY <1>2, <1>3 DEF r

LEMMA CountRemoveAt ==
  ASSUME NEW S, NEW q \in Seq(S), NEW k \in DOMAIN q, NEW T
  PROVE  Count(q, T) = Count(RemoveAt(q, k), T) + IF q[k] \in T THEN 1 ELSE 0
<1>1. RemoveAt(q, k) \in Seq(S) /\ Without(q, k, RemoveAt(q, k))
  BY RemoveAtProperties DEF Without
<1> QED
  BY <1>1, CountWithout

-----------------------------------------------------------------------------
(* How many elements of a part of a queue are in a set *)

Between(q, a, b, T) == Cardinality({i \in a .. b : q[i] \in T})

LEMMA BetweenNatural ==
  ASSUME NEW q, NEW a \in Int, NEW b \in Int, NEW T
  PROVE  /\ IsFiniteSet({i \in a .. b : q[i] \in T})
         /\ Between(q, a, b, T) \in Nat
<1>1. IsFiniteSet(a .. b)
  BY FS_Interval
<1> QED
  BY <1>1, FS_Subset, FS_CardinalityType DEF Between

LEMMA BetweenNone ==
  ASSUME NEW q, NEW a \in Int, NEW b \in Int, a > b, NEW T
  PROVE  Between(q, a, b, T) = 0
<1>1. {i \in a .. b : q[i] \in T} = {}
  OBVIOUS
<1> QED
  BY <1>1, FS_EmptySet DEF Between

LEMMA BetweenOne ==
  ASSUME NEW q, NEW a \in Int, NEW T
  PROVE  Between(q, a, a, T) = IF q[a] \in T THEN 1 ELSE 0
<1>1. {i \in a .. a : q[i] \in T} = IF q[a] \in T THEN {a} ELSE {}
  <2>1. a .. a = {a}
    OBVIOUS
  <2> QED
    BY <2>1
<1> QED
  BY <1>1, FS_EmptySet, FS_Singleton DEF Between

LEMMA BetweenSplit ==
  ASSUME NEW q, NEW a \in Int, NEW m \in Int, NEW b \in Int, a <= m + 1, m <= b, NEW T
  PROVE  Between(q, a, b, T) = Between(q, a, m, T) + Between(q, m + 1, b, T)
<1> DEFINE I == {i \in a .. m : q[i] \in T}
           J == {i \in m + 1 .. b : q[i] \in T}
<1>1. a .. b = (a .. m) \cup (m + 1 .. b) /\ (a .. m) \cap (m + 1 .. b) = {}
  OBVIOUS
<1>2. {i \in a .. b : q[i] \in T} = I \cup J /\ I \cap J = {}
  BY <1>1
<1>3. IsFiniteSet(I) /\ IsFiniteSet(J)
  <2>1. IsFiniteSet(I)
    BY BetweenNatural
  <2>2. m + 1 \in Int
    OBVIOUS
  <2>3. IsFiniteSet(J)
    BY <2>2, BetweenNatural
  <2> QED
    BY <2>1, <2>3
<1>4. Cardinality(I) \in Nat /\ Cardinality(J) \in Nat
  BY <1>3, FS_CardinalityType
<1> HIDE DEF I, J
<1>5. Cardinality(I \cup J) = Cardinality(I) + Cardinality(J)
  <2>1. Cardinality(I \cap J) = 0
    BY <1>2, FS_EmptySet
  <2>2. Cardinality(I \cup J) = Cardinality(I) + Cardinality(J) - Cardinality(I \cap J)
    BY <1>3, FS_Union
  <2> QED
    BY <1>4, <2>1, <2>2
<1> QED
  BY <1>2, <1>5 DEF Between, I, J

(* One position more *)
LEMMA BetweenNext ==
  ASSUME NEW q, NEW k \in Nat \ {0}, NEW T
  PROVE  /\ Between(q, 1, k, T) = Between(q, 1, k - 1, T) + IF q[k] \in T THEN 1 ELSE 0
         /\ Between(q, 1, k, T) \in Nat /\ Between(q, 1, k - 1, T) \in Nat
<1>1. PICK m \in Nat : m = k - 1
  OBVIOUS
<1>2. k = m + 1 /\ 1 <= m + 1 /\ m <= k /\ k \in Int
  BY <1>1
<1>3. Between(q, 1, k, T) = Between(q, 1, m, T) + Between(q, m + 1, k, T)
  BY <1>2, BetweenSplit
<1>4. Between(q, k, k, T) = IF q[k] \in T THEN 1 ELSE 0
  BY <1>2, BetweenOne
<1>5. Between(q, 1, k, T) \in Nat /\ Between(q, 1, m, T) \in Nat
  <2>1. 1 \in Int /\ k \in Int /\ m \in Int
    OBVIOUS
  <2> QED
    BY <2>1, BetweenNatural, Zenon
<1>6. Between(q, m + 1, k, T) = Between(q, k, k, T)
  BY <1>2
<1> QED
  BY <1>1, <1>3, <1>4, <1>5, <1>6

(* p has at i + d what q has at i. *)
Shifted(q, a, b, p, d) == \A i \in a .. b : p[i + d] = q[i]

LEMMA BetweenShift ==
  ASSUME NEW q, NEW a \in Int, NEW b \in Int, NEW p, NEW d \in Int,
         Shifted(q, a, b, p, d), NEW T
  PROVE  Between(p, a + d, b + d, T) = Between(q, a, b, T)
<1> DEFINE I == {i \in a .. b : q[i] \in T}
           J == {i \in a + d .. b + d : p[i] \in T}
           f == [i \in I |-> i + d]
<1>1. \A i \in a .. b : p[i + d] = q[i] /\ i + d \in a + d .. b + d
  BY DEF Shifted
<1>2. f \in [I -> J]
  BY <1>1
<1>3. \A i, j \in I : f[i] = f[j] => i = j
  OBVIOUS
<1>4. \A j \in J : j - d \in I /\ f[j - d] = j
  <2> TAKE j \in J
  <2>1. j - d \in a .. b /\ (j - d) + d = j
    OBVIOUS
  <2>2. j - d \in I
    BY <1>1, <2>1
  <2> QED
    BY <2>1, <2>2
<1>5. IsFiniteSet(I)
  BY BetweenNatural
<1> HIDE DEF f, I, J
<1>6. f \in Bijection(I, J)
  BY <1>2, <1>3, <1>4 DEF Bijection, Injection, Surjection, IsInjective
<1>7. Cardinality(J) = Cardinality(I)
  BY <1>5, <1>6, FS_Bijection DEF ExistsBijection
<1> QED
  BY <1>7 DEF Between, I, J

LEMMA CountIsBetween ==
  ASSUME NEW S, NEW q \in Seq(S), NEW T
  PROVE  Count(q, T) = Between(q, 1, Len(q), T)
<1>1. DOMAIN q = 1 .. Len(q)
  OBVIOUS
<1> QED
  BY <1>1 DEF Count, Between

LEMMA CountConcat ==
  ASSUME NEW S, NEW p \in Seq(S), NEW q \in Seq(S), NEW T
  PROVE  Count(p \o q, T) = Count(p, T) + Count(q, T)
<1> DEFINE c == p \o q
           m == Len(p)
           n == Len(q)
<1>1. m \in Nat /\ n \in Nat
  OBVIOUS
<1>2. /\ c \in Seq(S) /\ Len(c) = m + n
      /\ \A i \in 1 .. m + n : c[i] = IF i <= m THEN p[i] ELSE q[i - m]
  BY ConcatProperties
<1> HIDE DEF c, m, n
<1>3. Between(c, 1, m + n, T) = Between(c, 1, m, T) + Between(c, m + 1, m + n, T)
  BY <1>1, BetweenSplit
<1>4. Between(c, 1, m, T) = Between(p, 1, m, T)
  <2>1. Shifted(p, 1, m, c, 0)
    BY <1>1, <1>2 DEF Shifted
  <2>2. Between(c, 1 + 0, m + 0, T) = Between(p, 1, m, T)
    BY <1>1, <2>1, BetweenShift
  <2> QED
    BY <1>1, <2>2
<1>5. Between(c, m + 1, m + n, T) = Between(q, 1, n, T)
  <2>1. Shifted(q, 1, n, c, m)
    <3> SUFFICES ASSUME NEW i \in 1 .. n PROVE c[i + m] = q[i]
      BY DEF Shifted
    <3>1. i + m \in 1 .. m + n /\ ~(i + m <= m) /\ (i + m) - m = i
      BY <1>1
    <3> QED
      BY <1>2, <3>1
  <2>2. Between(c, 1 + m, n + m, T) = Between(q, 1, n, T)
    BY <1>1, <2>1, BetweenShift
  <2>3. 1 + m = m + 1 /\ n + m = m + n
    BY <1>1
  <2> QED
    BY <2>2, <2>3
<1>6. Count(c, T) = Between(c, 1, m + n, T)
  BY <1>2, CountIsBetween
<1>7. Count(p, T) = Between(p, 1, m, T) /\ Count(q, T) = Between(q, 1, n, T)
  BY CountIsBetween DEF m, n
<1> QED
  BY <1>3, <1>4, <1>5, <1>6, <1>7 DEF c

LEMMA CountAll ==
  ASSUME NEW S, NEW q \in Seq(S), NEW T, \A i \in DOMAIN q : q[i] \in T
  PROVE  Count(q, T) = Len(q)
<1>1. Len(q) \in Nat /\ DOMAIN q = 1 .. Len(q)
  OBVIOUS
<1>2. {i \in DOMAIN q : q[i] \in T} = 1 .. Len(q)
  BY <1>1
<1> DEFINE n == Len(q)
<1> HIDE DEF n
<1>3. Cardinality(1 .. n) = IF 1 > n THEN 0 ELSE n - 1 + 1
  BY <1>1, FS_Interval DEF n
<1>4. Cardinality(1 .. n) = n
  BY <1>1, <1>3 DEF n
<1> QED
  BY <1>2, <1>4 DEF Count, n

LEMMA CountNone ==
  ASSUME NEW q, NEW T, \A i \in DOMAIN q : q[i] \notin T
  PROVE  Count(q, T) = 0
<1>1. {i \in DOMAIN q : q[i] \in T} = {}
  OBVIOUS
<1> QED
  BY <1>1, FS_EmptySet DEF Count

(* Membership agrees at every position. *)
Agree(p, T, q, U, a, b) == \A i \in a .. b : p[i] \in T <=> q[i] \in U

LEMMA BetweenAgree ==
  ASSUME NEW p, NEW T, NEW q, NEW U, NEW a, NEW b, Agree(p, T, q, U, a, b)
  PROVE  Between(p, a, b, T) = Between(q, a, b, U)
<1>1. {i \in a .. b : p[i] \in T} = {i \in a .. b : q[i] \in U}
  BY DEF Agree
<1> QED
  BY <1>1 DEF Between

(* How many elements after position i are in a set *)
After(q, i, T) == Between(q, i + 1, Len(q), T)

LEMMA AfterPush ==
  ASSUME NEW S, NEW q \in Seq(S), NEW e \in S, NEW T
  PROVE  /\ \A i \in DOMAIN q : /\ After(q, i, T) \in Nat
                                /\ After(Append(q, e), i, T)
                                     = After(q, i, T) + IF e \in T THEN 1 ELSE 0
         /\ After(Append(q, e), Len(q) + 1, T) = 0
<1> DEFINE p == Append(q, e)
           m == Len(q)
           n == Len(p)
<1>1. /\ DOMAIN p = 1 .. m + 1 /\ n = m + 1 /\ \A i \in DOMAIN q : p[i] = q[i]
      /\ p[m + 1] = e
  BY PushBack
<1>2. m \in Nat /\ DOMAIN q = 1 .. m
  OBVIOUS
<1> HIDE DEF p, m
<1>3. ASSUME NEW i \in DOMAIN q
      PROVE  /\ After(q, i, T) \in Nat
             /\ After(p, i, T) = After(q, i, T) + IF e \in T THEN 1 ELSE 0
  <2>1. PICK k \in Int : k = i + 1
    BY <1>2
  <2>2. PICK l \in Int : l = m + 1
    BY <1>2
  <2>3. k <= m + 1 /\ m <= l /\ m \in Int /\ k >= 1
    BY <1>2, <2>1, <2>2
  <2>4. Between(p, k, l, T) = Between(p, k, m, T) + Between(p, m + 1, l, T)
    BY <2>3, BetweenSplit
  <2>5. Between(p, l, l, T) = IF p[l] \in T THEN 1 ELSE 0
    BY BetweenOne
  <2>6. Between(p, k, m, T) = Between(q, k, m, T)
    <3>1. \A j \in k .. m : p[j] = q[j]
      BY <1>1, <1>2, <2>3
    <3>2. Agree(p, T, q, T, k, m)
      BY <3>1 DEF Agree
    <3> QED
      BY <3>2, BetweenAgree
  <2>7. Between(q, k, m, T) \in Nat
    BY <2>3, BetweenNatural
  <2>8. After(q, i, T) = Between(q, k, m, T) /\ After(p, i, T) = Between(p, k, l, T)
    BY <1>1, <2>1, <2>2 DEF After, n, m
  <2> QED
    BY <1>1, <2>2, <2>4, <2>5, <2>6, <2>7, <2>8
<1>4. After(p, m + 1, T) = 0
  <2>1. PICK k \in Int : k = (m + 1) + 1
    BY <1>2
  <2>2. PICK l \in Int : l = n
    BY <1>1, <1>2
  <2>3. k > l
    BY <1>1, <1>2, <2>1, <2>2
  <2>4. Between(p, k, l, T) = 0
    BY <2>3, BetweenNone
  <2> QED
    BY <2>1, <2>2, <2>4 DEF After, n
<1> QED
  BY <1>3, <1>4 DEF p, m

LEMMA AfterPop ==
  ASSUME NEW S, NEW q \in Seq(S), q # <<>>, NEW T
  PROVE  /\ \A i \in DOMAIN Tail(q) : After(Tail(q), i, T) = After(q, i + 1, T)
         /\ After(q, 1, T) = Count(Tail(q), T)
<1> DEFINE p == Tail(q)
           m == Len(p)
<1>1. /\ p \in Seq(S) /\ m \in Nat /\ Len(q) = m + 1
      /\ \A i \in 1 .. m : p[i] = q[i + 1]
      /\ DOMAIN p = 1 .. m
  OBVIOUS
<1> HIDE DEF p, m
<1>2. ASSUME NEW k \in Int, k >= 1
      PROVE  Between(q, k + 1, m + 1, T) = Between(p, k, m, T)
  <2>1. PICK d \in Int : d = 1
    OBVIOUS
  <2>2. Shifted(p, k, m, q, d)
    <3> SUFFICES ASSUME NEW i \in k .. m PROVE q[i + d] = p[i]
      BY DEF Shifted
    <3>1. i \in 1 .. m
      BY <1>1, <1>2
    <3> QED
      BY <1>1, <2>1, <3>1
  <2>3. m \in Int
    BY <1>1
  <2>4. Between(q, k + d, m + d, T) = Between(p, k, m, T)
    BY <2>2, <2>3, BetweenShift
  <2> QED
    BY <2>1, <2>4
<1>3. ASSUME NEW i \in DOMAIN p
      PROVE  After(p, i, T) = After(q, i + 1, T)
  <2>1. PICK k \in Int : k = i + 1
    BY <1>1
  <2>2. k >= 1
    BY <1>1, <2>1
  <2>3. Between(q, k + 1, m + 1, T) = Between(p, k, m, T)
    BY <1>2, <2>2
  <2> QED
    BY <1>1, <2>1, <2>3 DEF After, m
<1>4. After(q, 1, T) = Count(p, T)
  <2>1. Between(q, 1 + 1, m + 1, T) = Between(p, 1, m, T)
    <3>1. 1 \in Int /\ 1 >= 1
      OBVIOUS
    <3> QED
      BY <1>2, <3>1
  <2>2. Count(p, T) = Between(p, 1, m, T)
    BY <1>1, CountIsBetween DEF m
  <2> QED
    BY <1>1, <2>1, <2>2 DEF After
<1> QED
  BY <1>3, <1>4 DEF p

LEMMA AfterConcat ==
  ASSUME NEW S, NEW p \in Seq(S), NEW q \in Seq(S), NEW T, NEW i \in DOMAIN p
  PROVE  /\ After(p \o q, i, T) = After(p, i, T) + Count(q, T)
         /\ After(p, i, T) \in Nat
<1> DEFINE c == p \o q
           m == Len(p)
           l == Len(c)
<1>1. /\ c \in Seq(S) /\ l = m + Len(q) /\ m \in Nat /\ Len(q) \in Nat
      /\ \A j \in 1 .. m + Len(q) : c[j] = IF j <= m THEN p[j] ELSE q[j - m]
  BY ConcatProperties
<1>2. Count(c, T) = Count(p, T) + Count(q, T) /\ Count(q, T) \in Nat
  BY CountConcat, CountFinite
<1>3. Count(c, T) = Between(c, 1, l, T) /\ Count(p, T) = Between(p, 1, m, T)
  BY <1>1, CountIsBetween
<1> HIDE DEF c, m, l
<1>4. i \in 1 .. m /\ i \in Int /\ l \in Int /\ m \in Int /\ i <= l /\ 1 <= i + 1
  BY <1>1 DEF m
<1>5. Between(c, 1, l, T) = Between(c, 1, i, T) + Between(c, i + 1, l, T)
  BY <1>4, BetweenSplit
<1>6. Between(p, 1, m, T) = Between(p, 1, i, T) + Between(p, i + 1, m, T)
  BY <1>4, BetweenSplit
<1>7. Between(c, 1, i, T) = Between(p, 1, i, T)
  <2>1. \A j \in 1 .. i : c[j] = p[j]
    BY <1>1, <1>4, SMTT(30)
  <2>2. Agree(c, T, p, T, 1, i)
    BY <2>1 DEF Agree
  <2> QED
    BY <2>2, BetweenAgree
<1>8. Between(p, 1, i, T) \in Nat
  <2>1. 1 \in Int /\ i \in Int
    BY <1>4
  <2> QED
    BY <2>1, BetweenNatural, Zenon
<1>9. Between(p, i + 1, m, T) \in Nat /\ Between(c, i + 1, l, T) \in Nat
  <2>1. i + 1 \in Int /\ m \in Int /\ l \in Int
    BY <1>4
  <2> QED
    BY <2>1, BetweenNatural, Zenon
<1>10. Between(c, i + 1, l, T) = Between(p, i + 1, m, T) + Count(q, T)
  <2>1. Between(c, 1, l, T) = Between(p, 1, m, T) + Count(q, T)
    BY <1>2, <1>3
  <2>2. PICK x \in Nat : x = Between(p, 1, i, T)
    BY <1>8
  <2>3. PICK y \in Nat : y = Between(p, i + 1, m, T)
    BY <1>9
  <2>4. PICK z \in Nat : z = Between(c, i + 1, l, T)
    BY <1>9
  <2>5. x + z = (x + y) + Count(q, T)
    BY <1>5, <1>6, <1>7, <2>1, <2>2, <2>3, <2>4, Zenon
  <2> QED
    BY <1>2, <2>3, <2>4, <2>5
<1> QED
  BY <1>9, <1>10 DEF After, c, m, l

(* Appending to the second of two sequences *)
LEMMA ConcatPush ==
  ASSUME NEW S, NEW p \in Seq(S), NEW q \in Seq(S), NEW e \in S
  PROVE  /\ p \o Append(q, e) = Append(p \o q, e)
         /\ p \o q \in Seq(S)
<1>1. p \o q \in Seq(S) /\ <<e>> \in Seq(S)
  BY ConcatProperties
<1>2. Append(q, e) = q \o <<e>> /\ Append(p \o q, e) = (p \o q) \o <<e>>
  BY <1>1, AppendIsConcat
<1>3. (p \o q) \o <<e>> = p \o (q \o <<e>>)
  BY <1>1, ConcatAssociative
<1> QED
  BY <1>1, <1>2, <1>3

LEMMA CountSome ==
  ASSUME NEW S, NEW q \in Seq(S), NEW T
  PROVE  /\ Count(q, T) = 0 <=> \A i \in DOMAIN q : q[i] \notin T
         /\ Count(q, T) <= 1 => \A i, j \in DOMAIN q : q[i] \in T /\ q[j] \in T => i = j
<1> DEFINE I == {i \in DOMAIN q : q[i] \in T}
<1>1. IsFiniteSet(I) /\ Cardinality(I) = Count(q, T) /\ Count(q, T) \in Nat
  BY CountFinite DEF Count
<1>2. Cardinality(I) = 0 <=> I = {}
  BY <1>1, FS_EmptySet
<1>3. ASSUME Count(q, T) <= 1, NEW i \in I, NEW j \in I, i # j
      PROVE  FALSE
  <2> HIDE DEF I
  <2>1. PICK d : d = {i}
    OBVIOUS
  <2>2. IsFiniteSet(d) /\ Cardinality(d) = 1 /\ j \notin d
    BY <1>3, <2>1, FS_Singleton
  <2>3. Cardinality(d \cup {j}) = 2
    <3>1. Cardinality(d \cup {j}) = IF j \in d THEN Cardinality(d) ELSE Cardinality(d) + 1
      BY <2>2, FS_AddElement, Zenon
    <3> QED
      BY <2>2, <3>1
  <2>4. d \cup {j} \in SUBSET I
    BY <2>1
  <2>5. Cardinality(d \cup {j}) <= Cardinality(I)
    BY <1>1, <2>4, FS_Subset
  <2> QED
    BY <1>1, <1>3, <2>3, <2>5
<1> QED
  BY <1>1, <1>2, <1>3

(* Vec::insert: one more element, at i. *)
LEMMA CountInsertAt ==
  ASSUME NEW S, NEW q \in Seq(S), NEW i \in DOMAIN q, NEW e \in S
  PROVE  /\ InsertAt(q, i, e) \in Seq(S)
         /\ Len(InsertAt(q, i, e)) = Len(q) + 1
         /\ \A T : Count(InsertAt(q, i, e), T) = Count(q, T) + IF e \in T THEN 1 ELSE 0
<1> DEFINE r == InsertAt(q, i, e)
           n == Len(q)
           front == SubSeq(q, 1, i - 1)
           back  == SubSeq(q, i, n)
           mid   == front \o <<e>>
<1>1. i \in Nat /\ n \in Nat /\ i >= 1 /\ i <= n
  OBVIOUS
<1>2. /\ front \in Seq(S) /\ Len(front) = i - 1
      /\ back \in Seq(S) /\ Len(back) = n - i + 1
      /\ \A j \in 1 .. i - 1 : front[j] = q[j]
      /\ \A j \in 1 .. n - i + 1 : back[j] = q[i + j - 1]
  <2>1. \A j \in 1 .. i - 1 : q[j] \in S
    BY <1>1
  <2>2. \A j \in i .. n : q[j] \in S
    BY <1>1
  <2>3. 1 \in Int /\ i - 1 \in Int /\ i \in Int /\ n \in Int
    BY <1>1
  <2> HIDE DEF n
  <2>4. /\ front \in Seq(S) /\ Len(front) = IF 1 <= i - 1 THEN (i - 1) - 1 + 1 ELSE 0
        /\ \A j \in 1 .. (i - 1) - 1 + 1 : front[j] = q[1 + j - 1]
    BY <2>1, <2>3, SubSeqProperties
  <2>5. /\ back \in Seq(S) /\ Len(back) = IF i <= n THEN n - i + 1 ELSE 0
        /\ \A j \in 1 .. n - i + 1 : back[j] = q[i + j - 1]
    BY <2>2, <2>3, SubSeqProperties
  <2>6. \A j \in 1 .. i - 1 : j \in 1 .. (i - 1) - 1 + 1 /\ 1 + j - 1 = j
    BY <1>1
  <2> HIDE DEF front, back
  <2> QED
    BY <1>1, <2>4, <2>5, <2>6
<1>3. r = mid \o back
  BY DEF InsertAt
<1> HIDE DEF front, back, n, r
<1>4. /\ mid \in Seq(S) /\ Len(mid) = i
      /\ \A j \in 1 .. i - 1 : mid[j] = q[j]
      /\ mid[i] = e
  <2>1. mid = Append(front, e)
    BY <1>2, AppendIsConcat
  <2>2. /\ Append(front, e) \in Seq(S) /\ Len(Append(front, e)) = Len(front) + 1
        /\ \A j \in DOMAIN front : Append(front, e)[j] = front[j]
        /\ Append(front, e)[Len(front) + 1] = e
    BY <1>2, PushBack
  <2>3. DOMAIN front = 1 .. i - 1 /\ Len(front) + 1 = i
    BY <1>1, <1>2
  <2> QED
    BY <1>2, <2>1, <2>2, <2>3
<1> HIDE DEF mid
<1>5. /\ r \in Seq(S) /\ Len(r) = n + 1
      /\ \A j \in 1 .. n + 1 : r[j] = IF j <= i THEN mid[j] ELSE back[j - i]
  <2>1. /\ mid \o back \in Seq(S) /\ Len(mid \o back) = Len(mid) + Len(back)
        /\ \A j \in 1 .. Len(mid) + Len(back) :
             (mid \o back)[j] = IF j <= Len(mid) THEN mid[j] ELSE back[j - Len(mid)]
    BY <1>2, <1>4, ConcatProperties
  <2>2. Len(mid) + Len(back) = n + 1
    BY <1>1, <1>2, <1>4
  <2> QED
    BY <1>3, <1>4, <2>1, <2>2
<1>6. r[i] = e /\ i \in DOMAIN r
  BY <1>1, <1>4, <1>5
<1>7. Without(r, i, q)
  <2> SUFFICES ASSUME NEW j \in 1 .. n PROVE q[j] = IF j < i THEN r[j] ELSE r[j + 1]
    BY <1>1, <1>5 DEF Without, n
  <2>1. CASE j < i
    <3>1. j \in 1 .. i - 1 /\ j \in 1 .. n + 1 /\ j <= i
      BY <1>1, <2>1
    <3> QED
      BY <1>4, <1>5, <2>1, <3>1
  <2>2. CASE j >= i
    <3>1. /\ j + 1 \in 1 .. n + 1 /\ ~(j + 1 <= i) /\ (j + 1) - i \in 1 .. n - i + 1
          /\ i + ((j + 1) - i) - 1 = j
      BY <1>1, <2>2
    <3>2. r[j + 1] = back[(j + 1) - i]
      BY <1>5, <3>1
    <3>3. back[(j + 1) - i] = q[j]
      BY <1>2, <3>1
    <3> QED
      BY <1>1, <2>2, <3>2, <3>3
  <2> QED
    BY <1>1, <2>1, <2>2
<1>8. \A T : Count(r, T) = Count(q, T) + IF e \in T THEN 1 ELSE 0
  BY <1>5, <1>6, <1>7, CountWithout
<1> QED
  BY <1>5, <1>8 DEF r, n

(* A queue without its first n elements *)
LEMMA CountRest ==
  ASSUME NEW S, NEW q \in Seq(S), NEW n \in 0 .. Len(q), NEW T
  PROVE  /\ SubSeq(q, n + 1, Len(q)) \in Seq(S)
         /\ Len(SubSeq(q, n + 1, Len(q))) = Len(q) - n
         /\ Count(q, T) = Between(q, 1, n, T) + Count(SubSeq(q, n + 1, Len(q)), T)
<1> DEFINE m == Len(q)
           r == SubSeq(q, n + 1, m)
<1>1. m \in Nat /\ n \in Nat /\ n <= m
  OBVIOUS
<1>2. \A i \in n + 1 .. m : q[i] \in S
  OBVIOUS
<1>3. /\ r \in Seq(S) /\ Len(r) = m - n
      /\ \A i \in 1 .. m - n : r[i] = q[i + n]
  <2>1. /\ r \in Seq(S) /\ Len(r) = IF n + 1 <= m THEN m - (n + 1) + 1 ELSE 0
        /\ \A i \in 1 .. m - (n + 1) + 1 : r[i] = q[(n + 1) + i - 1]
    <3>1. n + 1 \in Int /\ m \in Int
      BY <1>1
    <3> HIDE DEF m
    <3> QED
      BY <1>2, <3>1, SubSeqProperties
  <2>2. \A i \in 1 .. m - n : i \in 1 .. m - (n + 1) + 1 /\ (n + 1) + i - 1 = i + n
    BY <1>1
  <2>3. Len(r) = m - n
    BY <1>1, <2>1
  <2> QED
    BY <2>1, <2>2, <2>3
<1>4. Count(q, T) = Between(q, 1, m, T)
  BY CountIsBetween
<1> HIDE DEF m, r
<1>5. Between(q, 1, m, T) = Between(q, 1, n, T) + Between(q, n + 1, m, T)
  BY <1>1, BetweenSplit
<1>6. Between(q, n + 1, m, T) = Between(r, 1, m - n, T)
  <2>1. Shifted(r, 1, m - n, q, n)
    BY <1>1, <1>3 DEF Shifted
  <2>2. m - n \in Int
    BY <1>1
  <2>3. Between(q, 1 + n, (m - n) + n, T) = Between(r, 1, m - n, T)
    BY <1>1, <2>1, <2>2, BetweenShift
  <2>4. 1 + n = n + 1 /\ (m - n) + n = m
    BY <1>1
  <2> QED
    BY <2>3, <2>4
<1>7. Count(r, T) = Between(r, 1, m - n, T)
  BY <1>3, CountIsBetween
<1> QED
  BY <1>3, <1>4, <1>5, <1>6, <1>7 DEF r, m

-----------------------------------------------------------------------------
(* How many elements of several queues are in a set: f[d] for every d of D *)

Matches(f, d, T) == {d} \X {i \in DOMAIN f[d] : f[d][i] \in T}

Across(f, D, T) == Cardinality(UNION {Matches(f, d, T) : d \in D})

AreQueues(f, D, S) == \A d \in D : f[d] \in Seq(S)

LEMMA MatchesCounted ==
  ASSUME NEW S, NEW f, NEW d, f[d] \in Seq(S), NEW T
  PROVE  IsFiniteSet(Matches(f, d, T)) /\ Cardinality(Matches(f, d, T)) = Count(f[d], T)
<1> DEFINE I == {i \in DOMAIN f[d] : f[d][i] \in T}
<1>1. IsFiniteSet(I) /\ Cardinality(I) = Count(f[d], T) /\ Count(f[d], T) \in Nat
  BY CountFinite DEF Count
<1>2. IsFiniteSet({d}) /\ Cardinality({d}) = 1
  BY FS_Singleton
<1> HIDE DEF I
<1>3. IsFiniteSet({d} \X I) /\ Cardinality({d} \X I) = Cardinality({d}) * Cardinality(I)
  BY <1>1, <1>2, FS_Product, Zenon
<1>4. Cardinality({d} \X I) = 1 * Count(f[d], T)
  BY <1>1, <1>2, <1>3, Zenon
<1>5. Cardinality({d} \X I) = Count(f[d], T)
  BY <1>1, <1>4
<1> QED
  BY <1>3, <1>5 DEF Matches, I

LEMMA MatchesFinite ==
  ASSUME NEW S, NEW D, IsFiniteSet(D), NEW f, AreQueues(f, D, S), NEW T
  PROVE  IsFiniteSet(UNION {Matches(f, d, T) : d \in D})
<1>1. \A d \in D : IsFiniteSet(Matches(f, d, T))
  BY MatchesCounted DEF AreQueues
<1>2. IsFiniteSet({Matches(f, d, T) : d \in D})
  <2> DEFINE h == [d \in D |-> Matches(f, d, T)]
  <2>1. h \in Surjection(D, {Matches(f, d, T) : d \in D})
    BY DEF Surjection
  <2> HIDE DEF h
  <2> QED
    BY <2>1, FS_Surjection
<1> QED
  BY <1>1, <1>2, FS_UNION

(* One queue and the others *)
LEMMA AcrossParts ==
  ASSUME NEW S, NEW D, IsFiniteSet(D), NEW f, AreQueues(f, D, S), NEW d \in D, NEW T
  PROVE  /\ Across(f, D, T) \in Nat /\ Across(f, D \ {d}, T) \in Nat
         /\ Across(f, D, T) = Across(f, D \ {d}, T) + Count(f[d], T)
<1> DEFINE U == UNION {Matches(f, o, T) : o \in D}
           R == UNION {Matches(f, o, T) : o \in D \ {d}}
           M == Matches(f, d, T)
<1>1. IsFiniteSet(U)
  BY MatchesFinite
<1>2. IsFiniteSet(R)
  <2>1. IsFiniteSet(D \ {d}) /\ AreQueues(f, D \ {d}, S)
    BY FS_Subset DEF AreQueues
  <2> QED
    BY <2>1, MatchesFinite
<1>3. IsFiniteSet(M) /\ Cardinality(M) = Count(f[d], T)
  BY MatchesCounted DEF AreQueues
<1>4. U = R \cup M
  OBVIOUS
<1>5. R \cap M = {}
  BY DEF Matches
<1> HIDE DEF U, R, M
<1>6. Cardinality(U) \in Nat /\ Cardinality(R) \in Nat /\ Cardinality(M) \in Nat
  BY <1>1, <1>2, <1>3, FS_CardinalityType
<1>7. Cardinality(R \cap M) = 0
  BY <1>5, FS_EmptySet
<1>8. Cardinality(U) = Cardinality(R) + Cardinality(M) - Cardinality(R \cap M)
  BY <1>2, <1>3, <1>4, FS_Union
<1>9. Cardinality(U) = Cardinality(R) + Cardinality(M)
  BY <1>6, <1>7, <1>8
<1> QED
  BY <1>3, <1>6, <1>9 DEF Across, U, R

(* The others are what they were. *)
KeepsApart(f, g, D, d) == \A o \in D \ {d} : g[o] = f[o]

LEMMA AcrossChanges ==
  ASSUME NEW S, NEW D, IsFiniteSet(D), NEW f, AreQueues(f, D, S), NEW g, AreQueues(g, D, S),
         NEW d \in D, KeepsApart(f, g, D, d), NEW T
  PROVE  Across(g, D, T) + Count(f[d], T) = Across(f, D, T) + Count(g[d], T)
<1>1. Across(g, D \ {d}, T) = Across(f, D \ {d}, T)
  <2>1. \A o \in D \ {d} : Matches(g, o, T) = Matches(f, o, T)
    BY DEF KeepsApart, Matches
  <2>2. {Matches(g, o, T) : o \in D \ {d}} = {Matches(f, o, T) : o \in D \ {d}}
    BY <2>1
  <2> QED
    BY <2>2 DEF Across
<1>2. /\ Across(f, D, T) \in Nat /\ Across(f, D \ {d}, T) \in Nat
      /\ Across(f, D, T) = Across(f, D \ {d}, T) + Count(f[d], T)
  BY AcrossParts
<1>3. /\ Across(g, D, T) \in Nat
      /\ Across(g, D, T) = Across(g, D \ {d}, T) + Count(g[d], T)
  BY AcrossParts
<1>4. Count(f[d], T) \in Nat /\ Count(g[d], T) \in Nat
  BY CountFinite DEF AreQueues
<1> HIDE DEF AreQueues
<1> QED
  BY <1>1, <1>2, <1>3, <1>4

-----------------------------------------------------------------------------
(* Folds: the loops over a sequence.  The recursion of FoldLeft has a      *)
(* solution, which is what its value follows from.                         *)

(* The last of the first k positions *)
LEMMA LastPosition ==
  ASSUME NEW k \in Nat \ {0}
  PROVE  /\ Max(1 .. k) = k
         /\ (1 .. k) \ {k} = 1 .. k - 1
         /\ 1 .. k # {}
<1>1. k \in 1 .. k /\ \A j \in 1 .. k : j <= k
  OBVIOUS
<1>2. \A m \in 1 .. k : (\A j \in 1 .. k : m >= j) => m = k
  BY <1>1
<1>3. Max(1 .. k) = k
  BY <1>1, <1>2 DEF Max
<1> QED
  BY <1>1, <1>3

LEMMA LastOfSome ==
  ASSUME NEW n \in Nat, NEW s \in SUBSET (1 .. n), s # {}
  PROVE  Max(s) \in s /\ \A j \in s : j <= Max(s)
<1> DEFINE T == {n - j : j \in s}
<1>1. T \in SUBSET Nat /\ T # {}
  <2>1. \A j \in s : n - j \in Nat
    OBVIOUS
  <2> QED
    BY <2>1
<1>2. PICK m \in T : \A k \in T : m <= k
  BY <1>1, Smallest
<1>3. PICK i \in s : m = n - i
  BY <1>2
<1>4. \A j \in s : n - i <= n - j
  BY <1>2, <1>3
<1>5. i \in Nat /\ \A j \in s : j \in Nat /\ j <= i
  BY <1>4
<1> HIDE DEF T
<1>6. \E x \in s : \A j \in s : x >= j
  BY <1>3, <1>5
<1> QED
  BY <1>5, <1>6 DEF Max

(* g is the table of a fold of F over positions 1 .. n, from base. *)
FoldTable(g, n, base, F) ==
  /\ g = [s \in SUBSET (1 .. n) |-> g[s]]
  /\ \A s \in SUBSET (1 .. n) :
       g[s] = IF s = {} THEN base ELSE F[<<g[s \ {Max(s)}], Max(s)>>]

LastOf(s) == IF s = {} THEN 0 ELSE Max(s)

(* What the fold has reached after the positions of s is in W of the last. *)
Ranges(g, n, W) == \A s \in SUBSET (1 .. n) : g[s] \in W[LastOf(s)]

FoldStages(n, base, F, W) ==
  /\ base \in W[0]
  /\ \A i \in 1 .. n : \A j \in 0 .. i - 1 : \A v \in W[j] : F[<<v, i>>] \in W[i]

(***************************************************************************)
(* The recursion behind FoldLeft is well defined, for a fold of any length. *)
(***************************************************************************)
LEMMA FoldExists ==
  ASSUME NEW n \in Nat, NEW base, NEW F, NEW W, FoldStages(n, base, F, W)
  PROVE  \E g : FoldTable(g, n, base, F) /\ Ranges(g, n, W)
<1>h. FoldStages(n, base, F, W)
  OBVIOUS
<1> DEFINE P == {k \in 0 .. n : \E g : FoldTable(g, k, base, F) /\ Ranges(g, k, W)}
<1>1. 0 \in P
  <2> DEFINE g == [s \in SUBSET (1 .. 0) |-> base]
  <2>1. 1 .. 0 = {} /\ 0 \in 0 .. n
    OBVIOUS
  <2>2. \A s \in SUBSET (1 .. 0) : s = {}
    BY <2>1
  <2>3. g = [s \in SUBSET (1 .. 0) |-> g[s]] /\ \A s \in SUBSET (1 .. 0) : g[s] = base
    OBVIOUS
  <2> HIDE DEF g
  <2>4. FoldTable(g, 0, base, F)
    BY <2>2, <2>3, Zenon DEF FoldTable
  <2>5. Ranges(g, 0, W)
    BY <1>h, <2>2, <2>3, Zenon DEF Ranges, LastOf, FoldStages
  <2> QED
    BY <2>1, <2>4, <2>5
<1>2. ASSUME NEW k \in 1 .. n, k - 1 \in P
      PROVE  k \in P
  <2>1. PICK g : FoldTable(g, k - 1, base, F) /\ Ranges(g, k - 1, W)
    BY <1>2
  <2> DEFINE h == [s \in SUBSET (1 .. k) |->
                     IF k \in s THEN F[<<g[s \ {k}], k>>] ELSE g[s]]
  <2>2. /\ k \in 0 .. n /\ k \in 1 .. n
        /\ \A s \in SUBSET (1 .. k) : s \ {k} \in SUBSET (1 .. k - 1)
        /\ \A s \in SUBSET (1 .. k) : k \notin s => s \in SUBSET (1 .. k - 1)
        /\ \A s \in SUBSET (1 .. k - 1) : s \in SUBSET (1 .. k) /\ k \notin s
    BY <1>2
  <2>3. \A s \in SUBSET (1 .. k - 1) : LastOf(s) \in 0 .. k - 1
    <3> TAKE s \in SUBSET (1 .. k - 1)
    <3>1. k - 1 \in Nat /\ 0 \in 0 .. k - 1
      OBVIOUS
    <3>2. CASE s # {}
      <4>1. Max(s) \in s
        BY <3>1, <3>2, LastOfSome
      <4>2. LastOf(s) \in 1 .. k - 1
        BY <3>2, <4>1 DEF LastOf
      <4> QED
        BY <4>2
    <3> QED
      BY <3>1, <3>2 DEF LastOf
  <2>4. h = [s \in SUBSET (1 .. k) |-> h[s]]
    OBVIOUS
  <2>5. /\ \A s \in SUBSET (1 .. k) : k \in s => h[s] = F[<<g[s \ {k}], k>>]
        /\ \A s \in SUBSET (1 .. k) : k \notin s => h[s] = g[s]
    OBVIOUS
  <2> HIDE DEF h
  <2>6. ASSUME NEW s \in SUBSET (1 .. k)
        PROVE  /\ h[s] = IF s = {} THEN base ELSE F[<<h[s \ {Max(s)}], Max(s)>>]
               /\ h[s] \in W[LastOf(s)]
    <3>1. CASE k \in s
      <4>1. Max(s) = k
        <5>1. k \in Nat /\ Max(s) \in s /\ \A j \in s : j <= Max(s)
          <6>1. k \in Nat /\ s # {}
            BY <3>1
          <6> QED
            BY <6>1, LastOfSome
        <5>2. Max(s) \in 1 .. k /\ k <= Max(s)
          BY <3>1, <5>1
        <5> QED
          BY <5>1, <5>2
      <4>2. h[s \ {k}] = g[s \ {k}] /\ s # {} /\ LastOf(s) = k
        BY <2>2, <2>5, <3>1, <4>1 DEF LastOf
      <4>3. h[s] \in W[k]
        <5>1. s \ {k} \in SUBSET (1 .. k - 1)
          BY <2>2
        <5>2. LastOf(s \ {k}) \in 0 .. k - 1 /\ g[s \ {k}] \in W[LastOf(s \ {k})]
          BY <2>1, <2>3, <5>1, Zenon DEF Ranges
        <5>3. F[<<g[s \ {k}], k>>] \in W[k]
          BY <1>h, <2>2, <5>2, Zenon DEF FoldStages
        <5> QED
          BY <2>5, <3>1, <5>3
      <4> QED
        BY <2>5, <3>1, <4>1, <4>2, <4>3
    <3>2. CASE k \notin s
      <4>1. s \in SUBSET (1 .. k - 1)
        BY <2>2, <3>2
      <4>2. h[s] = g[s] /\ h[s \ {Max(s)}] = g[s \ {Max(s)}]
        BY <2>5, <3>2
      <4>3. g[s] = IF s = {} THEN base ELSE F[<<g[s \ {Max(s)}], Max(s)>>]
        BY <2>1, <4>1, Zenon DEF FoldTable
      <4>4. g[s] \in W[LastOf(s)]
        BY <2>1, <4>1, Zenon DEF Ranges
      <4> QED
        BY <4>2, <4>3, <4>4, Zenon
    <3> QED
      BY <3>1, <3>2
  <2>7. FoldTable(h, k, base, F) /\ Ranges(h, k, W)
    BY <2>4, <2>6, Zenon DEF FoldTable, Ranges
  <2> QED
    BY <2>2, <2>7
<1> HIDE DEF P
<1>3. 0 .. n \subseteq P
  BY <1>1, <1>2, UpTo
<1>4. n \in 0 .. n
  OBVIOUS
<1> QED
  BY <1>3, <1>4 DEF P

(* The same for a fold that stays in one set V. *)
LEMMA FoldInside ==
  ASSUME NEW n \in Nat, NEW base, NEW F, NEW V, base \in V,
         \A i \in 1 .. n : \A v \in V : F[<<v, i>>] \in V
  PROVE  \E g : FoldTable(g, n, base, F) /\ \A s \in SUBSET (1 .. n) : g[s] \in V
<1> DEFINE W == [k \in 0 .. n |-> V]
<1>1. \A k \in 0 .. n : W[k] = V
  OBVIOUS
<1>2. 0 \in 0 .. n /\ \A i \in 1 .. n : i \in 0 .. n /\ 0 .. i - 1 \subseteq 0 .. n
  OBVIOUS
<1> HIDE DEF W
<1>3. FoldStages(n, base, F, W)
  BY <1>1, <1>2 DEF FoldStages
<1>4. PICK g : FoldTable(g, n, base, F) /\ Ranges(g, n, W)
  BY <1>3, FoldExists
<1>5. ASSUME NEW s \in SUBSET (1 .. n)
      PROVE  LastOf(s) \in 0 .. n
  <2>1. CASE s # {}
    <3>1. Max(s) \in s
      BY <2>1, LastOfSome
    <3> QED
      BY <2>1, <3>1, <1>2 DEF LastOf
  <2> QED
    BY <1>2, <2>1 DEF LastOf
<1> QED
  BY <1>1, <1>4, <1>5 DEF Ranges

-----------------------------------------------------------------------------
(* Arithmetic of slices of length k *)

LEMMA SliceOf ==
  ASSUME NEW k \in Nat \ {0}, NEW i \in Nat
  PROVE  /\ i \div k \in Nat
         /\ i \in (i \div k) * k .. (i \div k) * k + k - 1
  OBVIOUS

LEMMA SlicesDisjoint ==
  ASSUME NEW k \in Nat \ {0}, NEW l \in Nat, NEW o \in Nat, l < o,
         NEW i \in l * k .. l * k + k - 1
  PROVE  i \notin o * k .. o * k + k - 1
  OBVIOUS

LEMMA SmallClient ==
  ASSUME NEW count \in Nat \ {0}, NEW c \in 0 .. count - 1
  PROVE  c \div count = 0 /\ c % count = c
  OBVIOUS

LEMMA SliceInRange ==
  ASSUME NEW n \in Nat \ {0}, NEW k \in 1 .. n, NEW l \in 0 .. (n \div k) - 1,
         NEW i \in l * k .. l * k + k - 1
  PROVE  i \in 0 .. n - 1
  OBVIOUS

LEMMA SliceNumber ==
  ASSUME NEW n \in Nat \ {0}, NEW k \in 1 .. n, n % k = 0, NEW i \in 0 .. n - 1
  PROVE  i \div k \in 0 .. (n \div k) - 1
  OBVIOUS

LEMMA CountPositive ==
  ASSUME NEW n \in Nat \ {0}, NEW k \in 1 .. n
  PROVE  n \div k \in Nat \ {0}
  OBVIOUS

-----------------------------------------------------------------------------
(* Subsets of one round *)

LEMMA SizeInRange ==
  ASSUME NEW n \in Nat \ {0}, NEW size \in Nat
  PROVE  SubsetSizeK(n, size) \in 1 .. n
  BY DEF SubsetSizeK

(* A backend appears once in the order of a round. *)
LEMMA OrderOnce ==
  ASSUME NEW n, NEW order \in Orders(n)
  PROVE  /\ \A i \in Backends(n) : order[i] \in Backends(n)
         /\ \A i, j \in Backends(n) : order[i] = order[j] => i = j
         /\ \A s \in Backends(n) : \E i \in Backends(n) : order[i] = s
  BY DEF Orders, Bijection, Injection, Surjection, IsInjective

(* The clients of the first round get consecutive slices of its order. *)
(* What assign_subset gives a client is some of the backends. *)
LEMMA SubsetIsSome ==
  ASSUME NEW n \in Nat \ {0}, NEW size \in Nat, NEW client \in Nat, NEW shuffled,
         shuffled[client \div SubsetCount(n, size)] \in Orders(n)
  PROVE  /\ AssignSubset(n, client, size, shuffled) # {}
         /\ AssignSubset(n, client, size, shuffled) \subseteq Backends(n)
<1> DEFINE k == SubsetSizeK(n, size)
           order == shuffled[client \div SubsetCount(n, size)]
<1>1. k \in 1 .. n  BY SizeInRange
<1>2. CASE k >= n
  <2>1. AssignSubset(n, client, size, shuffled) = Backends(n)
    BY <1>2 DEF AssignSubset, DeterministicSubset
  <2>2. 0 \in Backends(n)  BY DEF Backends
  <2> QED BY <2>1, <2>2
<1>3. CASE ~(k >= n)
  <2> DEFINE l == client % (n \div k)
  <2>1. l \in 0 .. (n \div k) - 1
    <3>1. n \div k \in Nat \ {0}  BY <1>1, CountPositive
    <3> HIDE DEF k
    <3> QED BY <3>1
  <2>2. AssignSubset(n, client, size, shuffled) = {order[i] : i \in l * k .. l * k + k - 1}
    BY <1>3 DEF AssignSubset, DeterministicSubset, SubsetCount
  <2>3. l * k \in l * k .. l * k + k - 1
    <3>1. l \in Nat  BY <2>1
    <3> HIDE DEF k, l
    <3> QED BY <1>1, <3>1
  <2>4. \A i \in l * k .. l * k + k - 1 : i \in Backends(n)
    <3> HIDE DEF k, l
    <3> QED BY <1>1, <2>1, SliceInRange DEF Backends
  <2>5. \A i \in Backends(n) : order[i] \in Backends(n)  BY OrderOnce
  <2> HIDE DEF l, k, order
  <2> QED BY <2>2, <2>3, <2>4, <2>5
<1> QED BY <1>2, <1>3

LEMMA SubsetIsSlice ==
  ASSUME NEW n \in Nat \ {0}, NEW size \in Nat, NEW shuffled, shuffled[0] \in Orders(n),
         NEW l \in 0 .. SubsetCount(n, size) - 1
  PROVE  LET k == SubsetSizeK(n, size) IN
         AssignSubset(n, l, size, shuffled) = {shuffled[0][i] : i \in l * k .. l * k + k - 1}
<1> DEFINE k == SubsetSizeK(n, size)
<1>1. k \in 1 .. n
  BY SizeInRange
<1>2. n \div k \in Nat \ {0} /\ l \in 0 .. (n \div k) - 1
  BY <1>1, CountPositive DEF SubsetCount
<1>3. l \div (n \div k) = 0 /\ l % (n \div k) = l
  BY <1>2, SmallClient
<1>4. CASE k < n
  <2>1. ~(k >= n)
    BY <1>1, <1>4
  <2> QED
    BY <1>3, <2>1 DEF AssignSubset, DeterministicSubset
<1>5. CASE k = n
  <2>1. l = 0
    <3>1. n \div k = 1
      BY <1>5
    <3> QED
      BY <1>2, <3>1
  <2>2. l * k .. l * k + k - 1 = Backends(n)
    BY <2>1, <1>5 DEF Backends
  <2>3. AssignSubset(n, l, size, shuffled) = Backends(n)
    BY <1>5 DEF AssignSubset, DeterministicSubset
  <2>4. {shuffled[0][i] : i \in Backends(n)} = Backends(n)
    BY OrderOnce
  <2> QED
    BY <2>2, <2>3, <2>4
<1> QED
  BY <1>1, <1>4, <1>5

(***************************************************************************)
(* The balancers of a run never share a backend, whatever the order of the *)
(* backends and whether or not the subset size divides their number: what  *)
(* deterministic_subset gives clients of one round is disjoint.            *)
(***************************************************************************)
THEOREM SubsetsDisjoint ==
  ASSUME NEW n \in Nat \ {0}, NEW size \in Nat, NEW shuffled, shuffled[0] \in Orders(n),
         NEW l \in 0 .. SubsetCount(n, size) - 1, NEW o \in 0 .. SubsetCount(n, size) - 1,
         l # o
  PROVE  AssignSubset(n, l, size, shuffled) \cap AssignSubset(n, o, size, shuffled) = {}
<1> DEFINE k == SubsetSizeK(n, size)
<1>1. k \in 1 .. n
  BY SizeInRange
<1>2. l \in 0 .. (n \div k) - 1 /\ o \in 0 .. (n \div k) - 1 /\ n \div k \in Nat
  BY <1>1, CountPositive DEF SubsetCount
<1> SUFFICES ASSUME NEW i \in l * k .. l * k + k - 1, NEW j \in o * k .. o * k + k - 1,
                    shuffled[0][i] = shuffled[0][j]
             PROVE  FALSE
  BY SubsetIsSlice
<1> HIDE DEF k
<1>3. i \in Backends(n) /\ j \in Backends(n)
  BY <1>1, <1>2, SliceInRange DEF Backends
<1>4. i = j
  BY <1>3, OrderOnce
<1>5. CASE l < o
  BY <1>1, <1>2, <1>4, <1>5, SlicesDisjoint
<1>6. CASE o < l
  BY <1>1, <1>2, <1>4, <1>6, SlicesDisjoint
<1> QED
  BY <1>2, <1>5, <1>6

(***************************************************************************)
(* Under a central queue that passes validate_centralized_subset, every    *)
(* server is in the subset of exactly one balancer, and it is the one that *)
(* server_to_lb tells it to pull from: it pulls from the only balancer     *)
(* that may use it, and none pulls from balancer 0 for want of an owner.   *)
(***************************************************************************)
THEOREM OneOwner ==
  ASSUME NEW n \in Nat \ {0}, NEW size \in Nat, n % SubsetSizeK(n, size) = 0,
         NEW shuffled, shuffled[0] \in Orders(n), NEW s \in Backends(n)
  PROVE  {l \in 0 .. SubsetCount(n, size) - 1 : s \in AssignSubset(n, l, size, shuffled)}
           = {ServerToLb(n, size, shuffled)[s]}
<1> DEFINE k == SubsetSizeK(n, size)
           owners == {l \in 0 .. SubsetCount(n, size) - 1 :
                        s \in AssignSubset(n, l, size, shuffled)}
<1>1. k \in 1 .. n /\ n % k = 0
  BY SizeInRange
<1>2. PICK i \in Backends(n) : shuffled[0][i] = s
  BY OrderOnce
<1>3. i \in Nat /\ i \in 0 .. n - 1
  BY <1>2 DEF Backends
<1> DEFINE own == i \div k
<1>4. own \in 0 .. SubsetCount(n, size) - 1
  <2> HIDE DEF k
  <2>1. i \div k \in 0 .. (n \div k) - 1
    BY <1>1, <1>3, SliceNumber
  <2> QED
    BY <2>1 DEF SubsetCount, k
<1>5. own \in owners
  <2>1. i \in own * k .. own * k + k - 1
    <3> HIDE DEF k
    <3> QED
      BY <1>1, <1>3, SliceOf
  <2> HIDE DEF own
  <2>2. s \in AssignSubset(n, own, size, shuffled)
    BY <1>2, <1>4, <2>1, SubsetIsSlice
  <2> QED
    BY <1>4, <2>2
<1>6. owners = {own}
  <2> SUFFICES ASSUME NEW l \in owners, l # own
               PROVE  FALSE
    BY <1>5
  <2> HIDE DEF own
  <2> QED
    BY <1>4, <1>5, SubsetsDisjoint
<1>7. own \in Int
  BY <1>4
<1> HIDE DEF own
<1>8. Max(owners) = own
  BY <1>6, <1>7 DEF Max
<1>9. ServerToLb(n, size, shuffled)[s] = own
  BY <1>6, <1>8 DEF ServerToLb
<1> QED
  BY <1>6, <1>9

-----------------------------------------------------------------------------
(* Numbers and sets that are counted *)

(* Division with a remainder *)
LEMMA DividesDown ==
  ASSUME NEW k \in Nat \ {0}, NEW i \in Nat
  PROVE  /\ i \div k \in Nat
         /\ (i \div k) * k <= i /\ i < (i \div k) * k + k
  OBVIOUS

LEMMA QuotientIs ==
  ASSUME NEW k \in Nat \ {0}, NEW s \in Nat, NEW i \in Nat, s * k <= i, i < s * k + k
  PROVE  i \div k = s
  OBVIOUS

LEMMA Monotone ==
  ASSUME NEW k \in Nat \ {0}, NEW a \in Nat, NEW b \in Nat, a <= b
  PROVE  a * k <= b * k /\ a * k \in Nat /\ b * k \in Nat /\ (a + 1) * k = a * k + k
  OBVIOUS

(* What is added behind leaves the front. *)
LEMMA FrontStays ==
  ASSUME NEW M, NEW b \in Seq(M), NEW N, NEW e \in Seq(N), b # <<>>
  PROVE  b \o e # <<>> /\ Head(b \o e) = Head(b)
<1>1. Len(b) \in Nat /\ Len(b) >= 1 /\ Head(b) = b[1] /\ Len(e) \in Nat
  OBVIOUS
<1>2. PICK z : z = b \o e
  OBVIOUS
<1>3. z \in Seq(M \cup N) /\ Len(z) = Len(b) + Len(e) /\ z[1] = b[1]
  <2>1. b \in Seq(M \cup N) /\ e \in Seq(M \cup N)
    OBVIOUS
  <2> QED
    BY <1>1, <1>2, <2>1
<1>4. Len(z) # 0
  BY <1>1, <1>3
<1>5. z # <<>> /\ Head(z) = z[1]
  BY <1>3, <1>4
<1> QED
  BY <1>1, <1>2, <1>3, <1>5

(* Mailboxes that are all empty *)
LEMMA AcrossEmpty ==
  ASSUME NEW D, NEW f, \A d \in D : f[d] = <<>>, NEW T
  PROVE  Across(f, D, T) = 0
<1>1. \A d \in D : Matches(f, d, T) = {}
  BY DEF Matches
<1>2. UNION {Matches(f, d, T) : d \in D} = {}
  BY <1>1
<1> QED
  BY <1>2, FS_EmptySet DEF Across

(* What is added on one side is added on the other. *)
LEMMA StaysEqual ==
  ASSUME NEW l \in Nat, NEW n \in Nat, NEW a \in Nat, NEW b \in Nat, NEW x \in Nat, NEW y \in Nat,
         n + a + b = l + x + y, l = a + b
  PROVE  n = x + y
  OBVIOUS

LEMMA StaysEqualAcross ==
  ASSUME NEW l \in Nat, NEW n \in Nat, NEW e \in Nat, NEW f \in Nat, NEW v \in Nat, NEW w \in Nat,
         NEW a \in Nat, NEW b \in Nat, NEW x \in Nat, NEW y \in Nat, NEW i \in Nat, NEW j \in Nat,
         n + (a + b) + i = l + (x + y) + j, l = e + f + i, v + a = e + x, w + b = f + y
  PROVE  n = v + w + j
  OBVIOUS

OneIf(p) == IF p THEN 1 ELSE 0

LEMMA SetPart ==
  ASSUME NEW S, IsFiniteSet(S), NEW T
  PROVE  IsFiniteSet(S \cap T) /\ Cardinality(S \cap T) \in Nat /\ Cardinality(S) \in Nat
<1>1. IsFiniteSet(S \cap T)
  BY FS_Intersection
<1> QED
  BY <1>1, FS_CardinalityType

LEMMA SetAdd ==
  ASSUME NEW S, IsFiniteSet(S), NEW T, NEW h, h \notin S
  PROVE  /\ IsFiniteSet(S \cup {h}) /\ Cardinality(S \cup {h}) = Cardinality(S) + 1
         /\ Cardinality((S \cup {h}) \cap T) = Cardinality(S \cap T) + OneIf(h \in T)
<1>1. IsFiniteSet(S \cap T) /\ Cardinality(S \cap T) \in Nat
  BY SetPart
<1>2. IsFiniteSet(S \cup {h}) /\ Cardinality(S \cup {h}) = Cardinality(S) + 1
  BY FS_AddElement
<1>3. CASE h \in T
  <2>1. (S \cup {h}) \cap T = (S \cap T) \cup {h} /\ h \notin S \cap T
    BY <1>3
  <2>2. Cardinality((S \cap T) \cup {h}) = Cardinality(S \cap T) + 1
    BY <1>1, <2>1, FS_AddElement
  <2> QED
    BY <1>2, <1>3, <2>1, <2>2 DEF OneIf
<1>4. CASE h \notin T
  <2>1. (S \cup {h}) \cap T = S \cap T
    BY <1>4
  <2>2. Cardinality((S \cup {h}) \cap T) = Cardinality(S \cap T)
    BY <2>1, Zenon
  <2>3. OneIf(h \in T) = 0
    BY <1>4 DEF OneIf
  <2> QED
    BY <1>1, <1>2, <2>2, <2>3
<1> QED
  BY <1>3, <1>4

LEMMA SetDrop ==
  ASSUME NEW S, IsFiniteSet(S), NEW T, NEW h \in S
  PROVE  /\ IsFiniteSet(S \ {h}) /\ Cardinality(S) = Cardinality(S \ {h}) + 1
         /\ Cardinality(S \cap T) = Cardinality((S \ {h}) \cap T) + OneIf(h \in T)
<1>1. PICK R : R = S \ {h}
  OBVIOUS
<1>2. IsFiniteSet(R) /\ h \notin R /\ R \cup {h} = S
  BY <1>1, FS_RemoveElement
<1>3. /\ Cardinality(R \cup {h}) = Cardinality(R) + 1
      /\ Cardinality((R \cup {h}) \cap T) = Cardinality(R \cap T) + OneIf(h \in T)
  BY <1>2, SetAdd
<1> QED
  BY <1>1, <1>2, <1>3

Single(w, D, present) ==
  IF present THEN \E x \in D : w[x] = 1 /\ \A y \in D \ {x} : w[y] = 0
  ELSE \A x \in D : w[x] = 0

(* The amount of q at z, when h goes from x to y *)
Shifts(q, h, x, y, z, old, new) ==
  new \in Nat /\ new + OneIf(q = h /\ z = x) = old + OneIf(q = h /\ z = y)

(* A task comes from nowhere, or is where it was said to be. *)
Comes(q, h, x, D, present, now) ==
  \/ x \in D /\ (now <=> present)
  \/ x \notin D /\ (q = h => ~present /\ now) /\ (q # h => (now <=> present))

LEMMA SingleMoves ==
  ASSUME NEW D, NEW w \in [D -> Nat], NEW q, NEW h, NEW x, NEW y \in D, NEW present, NEW now,
         Comes(q, h, x, D, present, now), Single(w, D, present), NEW n \in [D -> Nat],
         \A z \in D : Shifts(q, h, x, y, z, w[z], n[z])
  PROVE  Single(n, D, now)
<1>1. \A z \in D : w[z] \in Nat /\ n[z] \in Nat
  OBVIOUS
<1>2. \A z \in D : n[z] + OneIf(q = h /\ z = x) = w[z] + OneIf(q = h /\ z = y)
  BY DEF Shifts
<1>3. CASE q # h
  <2>1. \A z \in D : n[z] = w[z]
    BY <1>1, <1>2, <1>3 DEF OneIf
  <2>2. now <=> present
    BY <1>3 DEF Comes
  <2> QED
    BY ONLY <2>1, <2>2, Single(w, D, present) DEF Single
<1>4. CASE q = h /\ x = y
  <2>1. \A z \in D : n[z] = w[z]
    BY <1>1, <1>2, <1>4 DEF OneIf
  <2>2. now <=> present
    BY <1>4 DEF Comes
  <2> QED
    BY ONLY <2>1, <2>2, Single(w, D, present) DEF Single
<1>5. CASE q = h /\ x # y /\ x \in D
  <2>1. n[x] + 1 = w[x] /\ n[y] = w[y] + 1
    BY <1>1, <1>2, <1>5 DEF OneIf
  <2>2. \A z \in D \ {x, y} : n[z] = w[z]
    BY <1>1, <1>2, <1>5 DEF OneIf
  <2>3. now <=> present
    BY <1>5 DEF Comes
  <2>4. w[x] # 0
    BY <1>1, <1>5, <2>1
  <2>5. present
    BY <1>5, <2>4 DEF Single
  <2>6. PICK a \in D : w[a] = 1 /\ \A z \in D \ {a} : w[z] = 0
    BY <2>5 DEF Single
  <2>7. a = x
    BY <1>5, <2>4, <2>6
  <2>8. n[y] = 1
    BY <1>5, <2>1, <2>6, <2>7
  <2>9. \A z \in D \ {y} : n[z] = 0
    BY <1>1, <2>1, <2>2, <2>6, <2>7
  <2> QED
    BY <2>3, <2>5, <2>8, <2>9 DEF Single
<1>6. CASE q = h /\ x \notin D
  <2>1. ~present /\ now
    BY <1>6 DEF Comes
  <2>2. \A z \in D : w[z] = 0
    BY <2>1 DEF Single
  <2>3. n[y] = 1
    BY <1>1, <1>2, <1>6, <2>2 DEF OneIf
  <2>4. \A z \in D \ {y} : n[z] = 0
    BY <1>1, <1>2, <1>6, <2>2 DEF OneIf
  <2> QED
    BY <2>1, <2>3, <2>4 DEF Single
<1> QED
  BY <1>3, <1>4, <1>5, <1>6

LEMMA ImageFinite ==
  ASSUME NEW S, IsFiniteSet(S), NEW f
  PROVE  IsFiniteSet({f[s] : s \in S})
<1> DEFINE T == {f[s] : s \in S}
           g == [s \in S |-> f[s]]
<1>1. g \in Surjection(S, T)
  BY DEF Surjection
<1> HIDE DEF T, g
<1>2. IsFiniteSet(T)
  BY <1>1, FS_Surjection
<1> QED
  BY <1>2 DEF T

LEMMA UnionFinite ==
  ASSUME NEW S, IsFiniteSet(S), NEW f, \A s \in S : IsFiniteSet(f[s])
  PROVE  IsFiniteSet(UNION {f[s] : s \in S})
<1>1. IsFiniteSet({f[s] : s \in S})
  BY ImageFinite
<1>2. \A T \in {f[s] : s \in S} : IsFiniteSet(T)
  OBVIOUS
<1> QED
  BY <1>1, <1>2, FS_UNION

(* The head of what is left *)
LEMMA RestHead ==
  ASSUME NEW S, NEW q \in Seq(S), NEW i \in 1 .. Len(q)
  PROVE  SubSeq(q, i, Len(q)) # <<>> /\ Head(SubSeq(q, i, Len(q))) = q[i]
<1>1. Len(SubSeq(q, i, Len(q))) = Len(q) - i + 1 /\ SubSeq(q, i, Len(q))[1] = q[i]
  OBVIOUS
<1>2. SubSeq(q, i, Len(q)) \in Seq(S)
  OBVIOUS
<1>3. Len(q) - i + 1 # 0
  OBVIOUS
<1> DEFINE s == SubSeq(q, i, Len(q))
<1>4. s \in Seq(S) /\ Len(s) # 0 /\ s[1] = q[i]
  BY <1>1, <1>2, <1>3
<1> HIDE DEF s
<1>5. s # <<>> /\ Head(s) = s[1]
  BY <1>4
<1> QED
  BY <1>4, <1>5 DEF s
-----------------------------------------------------------------------------
(* How far from the end of a sequence the elements of a set are *)

FromEnd(c, T) == {n \in 0 .. Len(c) - 1 : c[Len(c) - n] \in T}

LEMMA FromEndPushed ==
  ASSUME NEW S, NEW c \in Seq(S), NEW f \in S, NEW T, f \notin T
  PROVE  FromEnd(<<f>> \o c, T) = FromEnd(c, T)
<1> DEFINE d == <<f>> \o c
           n == Len(c)
<1>1. n \in Nat /\ d \in Seq(S) /\ Len(d) = n + 1 /\ d[1] = f /\ \A i \in 1 .. n : d[i + 1] = c[i]
  OBVIOUS
<1> HIDE DEF d
<1>2. ASSUME NEW k \in 0 .. n
      PROVE  k \in FromEnd(d, T) <=> k \in FromEnd(c, T)
  <2>1. CASE k = n
    <3>1. d[Len(d) - k] = f
      BY <1>1, <2>1
    <3> QED
      BY <1>1, <2>1, <3>1 DEF FromEnd
  <2>2. CASE k # n
    <3>1. n - k \in 1 .. n /\ Len(d) - k = (n - k) + 1
      BY <1>1, <2>2
    <3>2. d[Len(d) - k] = c[n - k]
      BY <1>1, <3>1
    <3> QED
      BY <1>1, <2>2, <3>2 DEF FromEnd
  <2> QED
    BY <2>1, <2>2
<1>3. FromEnd(d, T) \subseteq 0 .. n /\ FromEnd(c, T) \subseteq 0 .. n
  BY <1>1 DEF FromEnd
<1> QED
  BY <1>2, <1>3 DEF d

LEMMA FromEndPopped ==
  ASSUME NEW S, NEW c \in Seq(S), c # <<>>, NEW T
  PROVE  /\ \A k : k \in FromEnd(c, T) <=>
                     k \in FromEnd(Tail(c), T) \/ (k = Len(Tail(c)) /\ Head(c) \in T)
         /\ Len(Tail(c)) \notin FromEnd(Tail(c), T)
<1> DEFINE d == Tail(c)
           n == Len(d)
<1>1. /\ n \in Nat /\ d \in Seq(S) /\ Len(c) = n + 1 /\ c[1] = Head(c)
      /\ \A i \in 1 .. n : c[i + 1] = d[i]
  OBVIOUS
<1> HIDE DEF d
<1>2. ASSUME NEW k
      PROVE  k \in FromEnd(c, T) <=> k \in FromEnd(d, T) \/ (k = n /\ Head(c) \in T)
  <2>1. CASE k = n
    <3>1. c[Len(c) - k] = Head(c)
      BY <1>1, <2>1
    <3>2. k \notin 0 .. n - 1 /\ k \in 0 .. Len(c) - 1
      BY <1>1, <2>1
    <3> QED
      BY <2>1, <3>1, <3>2 DEF FromEnd
  <2>2. CASE k # n /\ k \in 0 .. n - 1
    <3>1. n - k \in 1 .. n /\ Len(c) - k = (n - k) + 1 /\ k \in 0 .. Len(c) - 1
      BY <1>1, <2>2
    <3>2. c[Len(c) - k] = d[n - k]
      BY <1>1, <3>1
    <3> QED
      BY <2>2, <3>1, <3>2 DEF FromEnd
  <2>3. CASE k # n /\ k \notin 0 .. n - 1
    <3>1. k \notin 0 .. Len(c) - 1
      BY <1>1, <2>3
    <3> QED
      BY <2>3, <3>1 DEF FromEnd
  <2> QED
    BY <2>1, <2>2, <2>3
<1>3. n \notin FromEnd(d, T)
  BY <1>1 DEF FromEnd
<1> QED
  BY <1>2, <1>3 DEF d

(* d is c but for its first element. *)
SameBehind(c, d) == Len(d) = Len(c) /\ \A i \in 2 .. Len(c) : d[i] = c[i]

LEMMA FromEndChanged ==
  ASSUME NEW S, NEW c \in Seq(S), c # <<>>, NEW T, c[1] \notin T, NEW d, SameBehind(c, d)
  PROVE  /\ \A k : k \in FromEnd(d, T) <=> k \in FromEnd(c, T) \/ (k = Len(c) - 1 /\ d[1] \in T)
         /\ Len(c) - 1 \notin FromEnd(c, T)
<1> DEFINE n == Len(c)
<1>1. n \in Nat /\ n >= 1 /\ Len(d) = n /\ \A i \in 2 .. n : d[i] = c[i]
  BY DEF SameBehind
<1>2. ASSUME NEW k
      PROVE  k \in FromEnd(d, T) <=> k \in FromEnd(c, T) \/ (k = n - 1 /\ d[1] \in T)
  <2>1. CASE k = n - 1
    <3>1. n - k = 1 /\ k \in 0 .. n - 1
      BY <1>1, <2>1
    <3> QED
      BY <1>1, <2>1, <3>1 DEF FromEnd
  <2>2. CASE k # n - 1 /\ k \in 0 .. n - 1
    <3>1. n - k \in 2 .. n
      BY <1>1, <2>2
    <3> QED
      BY <1>1, <2>2, <3>1 DEF FromEnd
  <2>3. CASE k # n - 1 /\ k \notin 0 .. n - 1
    BY <1>1, <2>3 DEF FromEnd
  <2> QED
    BY <2>1, <2>2, <2>3
<1>3. n - 1 \notin FromEnd(c, T)
  <2>1. n - (n - 1) = 1
    BY <1>1
  <2> QED
    BY <2>1 DEF FromEnd
<1> QED
  BY <1>2, <1>3

-----------------------------------------------------------------------------
(* Keys that are each counted once at most: n is w without those of F. *)

NonZero(w, K) == {a \in K : w[a] # 0}

OnceGone(w, n, K, F) == \A a \in K : w[a] <= 1 /\ n[a] + OneIf(a \in F) = w[a]

LEMMA KeysGone ==
  ASSUME NEW K, NEW w \in [K -> Nat], NEW n \in [K -> Nat], NEW F \in SUBSET K, IsFiniteSet(F),
         OnceGone(w, n, K, F), IsFiniteSet(NonZero(w, K))
  PROVE  /\ IsFiniteSet(NonZero(n, K))
         /\ Cardinality(NonZero(w, K)) = Cardinality(NonZero(n, K)) + Cardinality(F)
<1> DEFINE A == NonZero(w, K)
           B == NonZero(n, K)
<1>1. \A a \in K : /\ a \in F => w[a] = 1 /\ n[a] = 0
                   /\ a \notin F => n[a] = w[a]
  BY DEF OneIf, OnceGone
<1>2. B = A \ F /\ F \subseteq A /\ A = B \cup F /\ B \cap F = {}
  BY <1>1 DEF NonZero
<1>3. IsFiniteSet(B) /\ B \in SUBSET A
  BY <1>2, FS_Subset
<1>4. Cardinality(B \cup F) = Cardinality(B) + Cardinality(F) - Cardinality(B \cap F)
  BY <1>3, FS_Union
<1>5. Cardinality(B \cap F) = 0 /\ Cardinality(B) \in Nat /\ Cardinality(F) \in Nat
  BY <1>2, <1>3, FS_EmptySet, FS_CardinalityType
<1>6. IsFiniteSet(B) /\ Cardinality(A) = Cardinality(B) + Cardinality(F)
  <2> HIDE DEF A, B
  <2>1. Cardinality(A) = Cardinality(B \cup F)
    BY <1>2
  <2> DEFINE x == Cardinality(B)
             y == Cardinality(F)
             z == Cardinality(B \cap F)
             t == Cardinality(B \cup F)
  <2>2. x \in Nat /\ y \in Nat /\ z = 0 /\ t = x + y - z
    BY <1>4, <1>5
  <2> HIDE DEF x, y, z, t
  <2>3. t = x + y
    BY ONLY <2>2
  <2> QED
    BY <1>3, <2>1, <2>3 DEF x, y, t
<1> QED
  BY <1>6

(* What f gives for the elements in T among the first k of a queue, when it tells them apart *)
TellsApart(f, q, k, T) ==
  \A i, j \in 1 .. k : q[i] \in T /\ q[j] \in T /\ f[i] = f[j] => i = j

LEMMA BetweenImage ==
  ASSUME NEW q, NEW k \in Nat, NEW T, NEW f, TellsApart(f, q, k, T)
  PROVE  LET F == {f[i] : i \in {x \in 1 .. k : q[x] \in T}} IN
         IsFiniteSet(F) /\ Cardinality(F) = Between(q, 1, k, T)
<1> DEFINE I == {x \in 1 .. k : q[x] \in T}
           F == {f[i] : i \in I}
           g == [i \in I |-> f[i]]
<1>1. IsFiniteSet(I) /\ Cardinality(I) = Between(q, 1, k, T)
  <2>1. IsFiniteSet(1 .. k) /\ I \in SUBSET (1 .. k)
    BY FS_Interval
  <2> QED
    BY <2>1, FS_Subset DEF Between
<1> HIDE DEF I
<1>2. g \in Bijection(I, F)
  <2>1. g \in [I -> F] /\ \A y \in F : \E i \in I : g[i] = y
    OBVIOUS
  <2>2. \A i, j \in I : g[i] = g[j] => i = j
    BY DEF I, TellsApart
  <2> QED
    BY <2>1, <2>2 DEF Bijection, Injection, Surjection, IsInjective
<1>3. ExistsBijection(I, F)
  BY <1>2 DEF ExistsBijection
<1>4. IsFiniteSet(F) /\ Cardinality(F) = Cardinality(I)
  BY <1>1, <1>3, FS_Bijection
<1> QED
  BY <1>1, <1>4 DEF I

-----------------------------------------------------------------------------
(* Queues and sets of several owners, counted together *)

LEMMA CountOne ==
  ASSUME NEW m
  PROVE  \A T : Count(<<m>>, T) = OneIf(m \in T)
<1> TAKE T
<1>1. CASE m \in T
  <2>1. {i \in DOMAIN <<m>> : <<m>>[i] \in T} = {1}
    BY <1>1
  <2>2. Cardinality({1}) = 1
    BY FS_Singleton
  <2> QED
    BY <1>1, <2>1, <2>2 DEF Count, OneIf
<1>2. CASE m \notin T
  <2>1. {i \in DOMAIN <<m>> : <<m>>[i] \in T} = {}
    BY <1>2
  <2> QED
    BY <1>2, <2>1, FS_EmptySet DEF Count, OneIf
<1> QED
  BY <1>1, <1>2

(* u is q with one item more, wherever. *)
Enqueued(S, q, item, u) ==
  /\ u \in Seq(S) /\ Len(u) = Len(q) + 1
  /\ \A T : Count(u, T) = Count(q, T) + OneIf(item \in T)

LEMMA UpToMost ==
  ASSUME NEW m \in Nat, NEW x \in Int
  PROVE  Max({0, Min({m, x})}) = IF x <= 0 THEN 0 ELSE IF x < m THEN x ELSE m
<1>1. Min({m, x}) = IF x < m THEN x ELSE m
  <2> DEFINE y == IF x < m THEN x ELSE m
  <2>1. y \in {m, x} /\ \A k \in {m, x} : y <= k
    OBVIOUS
  <2>2. \A z \in {m, x} : (\A k \in {m, x} : z <= k) => z = y
    OBVIOUS
  <2> HIDE DEF y
  <2>3. Min({m, x}) = y
    BY <2>1, <2>2 DEF Min
  <2> QED
    BY <2>3 DEF y
<1> DEFINE z == Min({m, x})
<1>2. z \in Int /\ z = IF x < m THEN x ELSE m
  BY <1>1
<1> HIDE DEF z
<1>3. Max({0, z}) = IF z <= 0 THEN 0 ELSE z
  <2> DEFINE y == IF z <= 0 THEN 0 ELSE z
  <2>1. y \in {0, z} /\ \A k \in {0, z} : y >= k
    BY <1>2
  <2>2. \A w \in {0, z} : (\A k \in {0, z} : w >= k) => w = y
    BY <1>2
  <2> HIDE DEF y
  <2>3. Max({0, z}) = y
    BY <2>1, <2>2 DEF Max
  <2> QED
    BY <2>3 DEF y
<1>4. (IF z <= 0 THEN 0 ELSE z) = IF x <= 0 THEN 0 ELSE IF x < m THEN x ELSE m
  BY <1>2
<1> QED
  BY <1>3, <1>4 DEF z

LEMMA CountNoMessage == \A T : Count(<<>>, T) = 0
BY CountEmpty

Portion(f, d, T) == {d} \X (f[d] \cap T)

Within(f, D, T) == Cardinality(UNION {Portion(f, d, T) : d \in D})

AreFinite(f, D) == \A d \in D : IsFiniteSet(f[d])

LEMMA PortionCounted ==
  ASSUME NEW f, NEW d, IsFiniteSet(f[d]), NEW T
  PROVE  IsFiniteSet(Portion(f, d, T)) /\ Cardinality(Portion(f, d, T)) = Cardinality(f[d] \cap T)
<1> DEFINE I == f[d] \cap T
<1>1. IsFiniteSet(I) /\ Cardinality(I) \in Nat
  BY SetPart
<1>2. IsFiniteSet({d}) /\ Cardinality({d}) = 1
  BY FS_Singleton
<1>0. Portion(f, d, T) = {d} \X I
  BY DEF Portion
<1> HIDE DEF I
<1>3. IsFiniteSet({d} \X I) /\ Cardinality({d} \X I) = Cardinality({d}) * Cardinality(I)
  BY <1>1, <1>2, FS_Product, Zenon
<1>4. Cardinality({d} \X I) = 1 * Cardinality(I)
  BY <1>2, <1>3, Zenon
<1>5. Cardinality({d} \X I) = Cardinality(I)
  BY <1>1, <1>4
<1> QED
  BY <1>0, <1>3, <1>5 DEF I

LEMMA PortionsFinite ==
  ASSUME NEW D, IsFiniteSet(D), NEW f, AreFinite(f, D), NEW T
  PROVE  IsFiniteSet(UNION {Portion(f, d, T) : d \in D})
<1> DEFINE h == [d \in D |-> Portion(f, d, T)]
<1>1. \A d \in D : IsFiniteSet(h[d])
  BY PortionCounted DEF AreFinite
<1>2. UNION {Portion(f, d, T) : d \in D} = UNION {h[d] : d \in D}
  OBVIOUS
<1> HIDE DEF h
<1> QED
  BY <1>1, <1>2, UnionFinite

LEMMA WithinParts ==
  ASSUME NEW D, IsFiniteSet(D), NEW f, AreFinite(f, D), NEW d \in D, NEW T
  PROVE  /\ Within(f, D, T) \in Nat /\ Within(f, D \ {d}, T) \in Nat
         /\ Within(f, D, T) = Within(f, D \ {d}, T) + Cardinality(f[d] \cap T)
<1> DEFINE U == UNION {Portion(f, o, T) : o \in D}
           R == UNION {Portion(f, o, T) : o \in D \ {d}}
           M == Portion(f, d, T)
<1>1. IsFiniteSet(U)
  BY PortionsFinite
<1>2. IsFiniteSet(R)
  <2>1. IsFiniteSet(D \ {d}) /\ AreFinite(f, D \ {d})
    BY FS_Subset DEF AreFinite
  <2> QED
    BY <2>1, PortionsFinite
<1>3. IsFiniteSet(M) /\ Cardinality(M) = Cardinality(f[d] \cap T)
  BY PortionCounted DEF AreFinite
<1>4. U = R \cup M
  OBVIOUS
<1>5. R \cap M = {}
  BY DEF Portion
<1> HIDE DEF U, R, M
<1>6. Cardinality(U) \in Nat /\ Cardinality(R) \in Nat /\ Cardinality(M) \in Nat
  BY <1>1, <1>2, <1>3, FS_CardinalityType
<1>7. Cardinality(R \cap M) = 0
  BY <1>5, FS_EmptySet
<1>8. Cardinality(U) = Cardinality(R) + Cardinality(M) - Cardinality(R \cap M)
  BY <1>2, <1>3, <1>4, FS_Union
<1>9. Cardinality(U) = Cardinality(R) + Cardinality(M)
  BY <1>6, <1>7, <1>8
<1> QED
  BY <1>3, <1>6, <1>9 DEF Within, U, R

LEMMA WithinChanges ==
  ASSUME NEW D, IsFiniteSet(D), NEW f, AreFinite(f, D), NEW g, AreFinite(g, D),
         NEW d \in D, KeepsApart(f, g, D, d), NEW T
  PROVE  Within(g, D, T) + Cardinality(f[d] \cap T) = Within(f, D, T) + Cardinality(g[d] \cap T)
<1>1. Within(g, D \ {d}, T) = Within(f, D \ {d}, T)
  <2>1. \A o \in D \ {d} : Portion(g, o, T) = Portion(f, o, T)
    BY DEF KeepsApart, Portion
  <2>2. {Portion(g, o, T) : o \in D \ {d}} = {Portion(f, o, T) : o \in D \ {d}}
    BY <2>1
  <2> QED
    BY <2>2, Zenon DEF Within
<1>2. /\ Within(f, D, T) \in Nat /\ Within(f, D \ {d}, T) \in Nat
      /\ Within(f, D, T) = Within(f, D \ {d}, T) + Cardinality(f[d] \cap T)
  BY WithinParts
<1>3. /\ Within(g, D, T) \in Nat
      /\ Within(g, D, T) = Within(g, D \ {d}, T) + Cardinality(g[d] \cap T)
  BY WithinParts
<1>4. Cardinality(f[d] \cap T) \in Nat /\ Cardinality(g[d] \cap T) \in Nat
  BY SetPart DEF AreFinite
<1> HIDE DEF AreFinite
<1> QED
  BY <1>1, <1>2, <1>3, <1>4

(* Queues that agree on what is counted *)
LEMMA AcrossSame ==
  ASSUME NEW f, NEW g, NEW D, \A d \in D : g[d] = f[d], NEW T
  PROVE  Across(g, D, T) = Across(f, D, T)
<1>1. \A o \in D : Matches(g, o, T) = Matches(f, o, T)
  BY DEF Matches
<1>2. {Matches(g, o, T) : o \in D} = {Matches(f, o, T) : o \in D}
  BY <1>1
<1> QED
  BY <1>2, Zenon DEF Across

LEMMA AcrossOne ==
  ASSUME NEW S, NEW f, NEW d, f[d] \in Seq(S), NEW T
  PROVE  Across(f, {d}, T) = Count(f[d], T)
<1>1. UNION {Matches(f, o, T) : o \in {d}} = Matches(f, d, T)
  OBVIOUS
<1>2. Cardinality(Matches(f, d, T)) = Count(f[d], T)
  BY MatchesCounted
<1> QED
  BY <1>1, <1>2, Zenon DEF Across

FunOn(f, D) == f = [d \in D |-> f[d]]

LEMMA SumStays ==
  ASSUME NEW x1 \in Nat, NEW x2 \in Nat, NEW q1 \in Nat, NEW q2 \in Nat, NEW s1 \in Nat, NEW s2 \in Nat,
         NEW n \in Nat, NEW o \in Nat, NEW v1 \in Nat, NEW w1 \in Nat, NEW v2 \in Nat, NEW w2 \in Nat,
         NEW c \in Nat,
         x2 + n = x1 + o, q2 + v1 = q1 + w1, s2 + v2 = s1 + w2, w1 + w2 + o = v1 + v2 + n
  PROVE  x2 + q2 + c + s2 = x1 + q1 + c + s1
OBVIOUS

LEMMA RestOf ==
  ASSUME NEW S, NEW z \in Seq(S), NEW k \in 0 .. Len(z)
  PROVE  SubSeq(z, k + 1, Len(z)) \in Seq(S)
<1>1. Len(z) \in Nat /\ k \in Nat /\ k <= Len(z)
  OBVIOUS
<1>2. \A i \in k + 1 .. Len(z) : z[i] \in S
  BY <1>1
<1> QED
  BY <1>1, <1>2

LEMMA RestOfNone ==
  ASSUME NEW S, NEW z \in Seq(S)
  PROVE  /\ SubSeq(z, 0 + 1, Len(z)) = z
         /\ z # <<>> => SubSeq(z, 1 + 1, Len(z)) = Tail(z)
OBVIOUS

LEMMA MinOf ==
  ASSUME NEW m \in Nat, NEW n \in Nat
  PROVE  Min({m, n}) = IF m <= n THEN m ELSE n
<1> DEFINE x == IF m <= n THEN m ELSE n
<1>1. x \in {m, n} /\ \A y \in {m, n} : x <= y
  OBVIOUS
<1>2. \A z \in {m, n} : (\A y \in {m, n} : z <= y) => z = x
  BY <1>1
<1>3. Min({m, n}) = x
  BY <1>1, <1>2 DEF Min
<1> QED
  BY <1>3

(* As many as there are of both *)
Pairs(q, w, k) == k = IF Len(q) <= Len(w) THEN Len(q) ELSE Len(w)

LEMMA WithinEmpty ==
  ASSUME NEW D, NEW f, \A d \in D : f[d] = {}, NEW T
  PROVE  Within(f, D, T) = 0
<1>1. \A d \in D : Portion(f, d, T) = {}
  BY DEF Portion
<1>2. UNION {Portion(f, d, T) : d \in D} = {}
  BY <1>1
<1> QED
  BY <1>2, FS_EmptySet DEF Within

LEMMA SeqWider ==
  ASSUME NEW S, NEW T, S \subseteq T, NEW q \in Seq(S)
  PROVE  q \in Seq(T)
OBVIOUS

(* Replicas that serve what is counted, when there is at most one such hop *)
LEMMA WithinOne ==
  ASSUME NEW D, IsFiniteSet(D), NEW f, AreFinite(f, D), NEW T, Within(f, D, T) <= 1
  PROVE  Cardinality({d \in D : f[d] \cap T # {}}) = Within(f, D, T)
<1> DEFINE U == UNION {Portion(f, d, T) : d \in D}
           R == {d \in D : f[d] \cap T # {}}
<1>1. IsFiniteSet(U)
  BY PortionsFinite
<1>2. Within(f, D, T) = Cardinality(U)
  BY DEF Within
<1>3. Cardinality(U) \in Nat
  BY <1>1, FS_CardinalityType
<1>4. CASE Cardinality(U) = 0
  <2>1. U = {}
    BY <1>1, <1>4, FS_EmptySet
  <2>2. R = {}
    <3>1. ASSUME NEW o \in D, NEW k \in f[o] \cap T
          PROVE  FALSE
      <4>1. <<o, k>> \in Portion(f, o, T)
        BY <3>1 DEF Portion
      <4>2. <<o, k>> \in U
        BY <4>1
      <4> QED
        BY <2>1, <4>2
    <3> QED
      BY <3>1
  <2> QED
    BY <1>2, <1>4, <2>2, FS_EmptySet
<1>5. CASE Cardinality(U) = 1
  <2>1. PICK u : U = {u}
    BY <1>1, <1>5, FS_Singleton
  <2>2. PICK d \in D : u \in Portion(f, d, T)
    BY <2>1
  <2>3. PICK h \in f[d] \cap T : u = <<d, h>>
    BY <2>2 DEF Portion
  <2>4. ASSUME NEW o \in R
        PROVE  o = d
    <3>1. PICK k : k \in f[o] \cap T
      OBVIOUS
    <3>2. <<o, k>> \in U
      BY <3>1 DEF Portion
    <3> QED
      BY <2>1, <2>3, <3>2
  <2>5. R = {d}
    BY <2>3, <2>4
  <2> QED
    BY <1>2, <1>5, <2>5, FS_Singleton
<1> QED
  BY <1>2, <1>3, <1>4, <1>5

LEMMA SixStay ==
  ASSUME NEW a \in Nat, NEW a2 \in Nat, NEW w \in Nat, NEW w2 \in Nat, NEW c \in Nat, NEW c2 \in Nat,
         NEW i \in Nat, NEW u \in Nat, NEW v \in Nat, NEW o \in Nat,
         i + u = v + o, a2 + i = a + 0, c2 + 0 = c + o, w2 + u = w + v
  PROVE  a2 + w2 + c2 = a + w + c
OBVIOUS

LEMMA ThreeStay ==
  ASSUME NEW a \in Nat, NEW a2 \in Nat, NEW w \in Nat, NEW w2 \in Nat, NEW c \in Nat, NEW c2 \in Nat,
         NEW i \in Nat, NEW u \in Nat, NEW v \in Nat, NEW o \in Nat,
         a2 + i = a + 0, w2 + u = w + v, c2 + 0 = c + o, v + o = u + i
  PROVE  a2 + w2 + c2 = a + w + c
OBVIOUS

IsQueue(in) == \A T : Count(in, T) \in Nat

LEMMA Settled ==
  ASSUME NEW x \in Nat, NEW y \in Nat, NEW i \in Nat, NEW n \in Nat, NEW l, NEW k \in Nat,
         y + i = x + n, l + i = k + n, k = x, l \in Nat
  PROVE  l = y
OBVIOUS

LEMMA HeadCounted ==
  ASSUME NEW S, NEW q \in Seq(S), q # <<>>, NEW T, Head(q) \in T
  PROVE  Count(q, T) >= 1
<1>1. Count(q, T) = Count(Tail(q), T) + 1
  BY CountPopFront
<1>2. Tail(q) \in Seq(S)
  OBVIOUS
<1>3. Count(Tail(q), T) \in Nat
  BY <1>2, CountFinite
<1> QED
  BY <1>1, <1>3

LEMMA AcrossSome ==
  ASSUME NEW S, NEW D, IsFiniteSet(D), NEW f, AreQueues(f, D, S), NEW T
  PROVE  Across(f, D, T) # 0 <=> \E d \in D : \E i \in DOMAIN f[d] : f[d][i] \in T
<1> DEFINE U == UNION {Matches(f, d, T) : d \in D}
<1>1. IsFiniteSet(U)
  BY MatchesFinite
<1>2. Cardinality(U) = 0 <=> U = {}
  BY <1>1, FS_EmptySet
<1>3. U # {} <=> \E d \in D : \E i \in DOMAIN f[d] : f[d][i] \in T
  <2>1. ASSUME U # {}
        PROVE  \E d \in D : \E i \in DOMAIN f[d] : f[d][i] \in T
    <3>1. PICK d \in D : Matches(f, d, T) # {}
      BY <2>1
    <3> QED
      BY <3>1 DEF Matches
  <2>2. ASSUME NEW d \in D, NEW i \in DOMAIN f[d], f[d][i] \in T
        PROVE  U # {}
    <3>1. <<d, i>> \in Matches(f, d, T)
      BY <2>2 DEF Matches
    <3> QED
      BY <3>1
  <2> QED
    BY <2>1, <2>2
<1> QED
  BY <1>2, <1>3 DEF Across

(* Two kinds of elements, the second counted in fewer queues *)
LEMMA AcrossTwo ==
  ASSUME NEW S, NEW D, IsFiniteSet(D), NEW f, AreQueues(f, D, S), NEW E \in SUBSET D,
         NEW T, NEW T1, NEW T2, T1 \subseteq T, T2 \subseteq T, T1 \cap T2 = {}
  PROVE  Across(f, D, T1) + Across(f, E, T2) <= Across(f, D, T)
<1> DEFINE U  == UNION {Matches(f, d, T) : d \in D}
           U1 == UNION {Matches(f, d, T1) : d \in D}
           U2 == UNION {Matches(f, d, T2) : d \in E}
<1>1. IsFiniteSet(U)
  BY MatchesFinite
<1>2. U1 \subseteq U /\ U2 \subseteq U
  BY DEF Matches
<1>3. U1 \cap U2 = {}
  BY DEF Matches
<1> HIDE DEF U, U1, U2
<1>4. IsFiniteSet(U1) /\ IsFiniteSet(U2) /\ IsFiniteSet(U1 \cup U2) /\ U1 \cup U2 \subseteq U
  <2>1. U1 \cup U2 \subseteq U
    BY <1>2
  <2> QED
    BY <1>1, <1>2, <2>1, FS_Subset
<1>5. Cardinality(U1 \cup U2) <= Cardinality(U)
  BY <1>1, <1>4, FS_Subset
<1>6. Cardinality(U1 \cup U2) = Cardinality(U1) + Cardinality(U2) - Cardinality(U1 \cap U2)
  BY <1>4, FS_Union
<1>7. Cardinality(U1 \cap U2) = 0
  BY <1>3, FS_EmptySet
<1>8. Cardinality(U1) \in Nat /\ Cardinality(U2) \in Nat
  BY <1>4, FS_CardinalityType
<1>9. Cardinality(U1) + Cardinality(U2) <= Cardinality(U)
  BY <1>5, <1>6, <1>7, <1>8
<1> QED
  BY <1>9 DEF Across, U, U1, U2

LEMMA WithinFewer ==
  ASSUME NEW D, IsFiniteSet(D), NEW f, AreFinite(f, D), NEW T, NEW T1, T1 \subseteq T
  PROVE  Within(f, D, T1) \in Nat /\ Within(f, D, T1) <= Within(f, D, T)
<1> DEFINE U  == UNION {Portion(f, d, T) : d \in D}
           U1 == UNION {Portion(f, d, T1) : d \in D}
<1>1. IsFiniteSet(U)
  BY PortionsFinite
<1>2. U1 \subseteq U
  BY DEF Portion
<1> HIDE DEF U, U1
<1>3. IsFiniteSet(U1) /\ Cardinality(U1) <= Cardinality(U) /\ Cardinality(U1) \in Nat
  BY <1>1, <1>2, FS_Subset, FS_CardinalityType
<1> QED
  BY <1>3 DEF Within, U, U1

LEMMA WithinSome ==
  ASSUME NEW D, IsFiniteSet(D), NEW f, AreFinite(f, D), NEW T
  PROVE  Within(f, D, T) # 0 <=> \E d \in D : \E h \in f[d] : h \in T
<1> DEFINE U == UNION {Portion(f, d, T) : d \in D}
<1>1. IsFiniteSet(U)
  BY PortionsFinite
<1>2. Cardinality(U) = 0 <=> U = {}
  BY <1>1, FS_EmptySet
<1>3. U # {} <=> \E d \in D : \E h \in f[d] : h \in T
  <2>1. ASSUME U # {}
        PROVE  \E d \in D : \E h \in f[d] : h \in T
    <3>1. PICK d \in D : Portion(f, d, T) # {}
      BY <2>1
    <3> QED
      BY <3>1 DEF Portion
  <2>2. ASSUME NEW d \in D, NEW h \in f[d], h \in T
        PROVE  U # {}
    <3>1. <<d, h>> \in Portion(f, d, T)
      BY <2>2 DEF Portion
    <3> QED
      BY <3>1
  <2> QED
    BY <2>1, <2>2
<1> QED
  BY <1>2, <1>3 DEF Within

(* One queue changes, among those counted or not; X is T, or nothing. *)
LEMMA AcrossShare ==
  ASSUME NEW S, NEW D, IsFiniteSet(D), NEW f, AreQueues(f, D, S), NEW g, AreQueues(g, D, S),
         NEW d, KeepsApart(f, g, D, d), NEW T, NEW X, d \in D => X = T, d \notin D => X = {}
  PROVE  Across(g, D, T) + Count(f[d], X) = Across(f, D, T) + Count(g[d], X)
<1>1. CASE d \in D
  <2>1. Across(g, D, T) + Count(f[d], T) = Across(f, D, T) + Count(g[d], T)
    BY <1>1, AcrossChanges
  <2> QED
    BY <1>1, <2>1
<1>2. CASE d \notin D
  <2>1. \A o \in D : g[o] = f[o]
    BY <1>2 DEF KeepsApart
  <2>2. Across(g, D, T) = Across(f, D, T)
    BY <2>1, AcrossSame
  <2>3. \A q : Count(q, {}) = 0
    <3> TAKE q
    <3>1. {i \in DOMAIN q : q[i] \in {}} = {}
      OBVIOUS
    <3> QED
      BY <3>1, FS_EmptySet DEF Count
  <2>4. Count(f[d], X) = 0 /\ Count(g[d], X) = 0
    BY <1>2, <2>3
  <2> QED
    BY <2>2, <2>4
<1> QED
  BY <1>1, <1>2
LEMMA FiveMove ==
  ASSUME NEW x1 \in Nat, NEW x2 \in Nat, NEW x3 \in Nat, NEW x4 \in Nat, NEW x5 \in Nat,
         NEW y1 \in Nat, NEW y2 \in Nat, NEW y3 \in Nat, NEW y4 \in Nat, NEW y5 \in Nat,
         NEW i1 \in Nat, NEW i2 \in Nat, NEW o1 \in Nat, NEW o2 \in Nat,
         NEW a1 \in Nat, NEW a2 \in Nat, NEW b1 \in Nat, NEW b2 \in Nat, NEW c1 \in Nat, NEW c2 \in Nat,
         y1 + i1 = x1 + o1, y2 + a1 = x2 + a2, y3 + b1 = x3 + b2, y4 + i2 = x4 + o2, y5 + c1 = x5 + c2,
         NEW f \in Nat, (a2 + c2 + b2 + (o1 + o2)) + f = (a1 + c1 + b1 + 0) + i1 + i2
  PROVE  ((y1 + y2 + y3) + (y4 + y5)) + f = (x1 + x2 + x3) + (x4 + x5)
OBVIOUS

-----------------------------------------------------------------------------
(* Mailboxes: messages put into the boxes they are addressed to, in order *)
Boxed(bx, P, M) ==
  /\ bx = [x \in P |-> bx[x]]
  /\ \A x \in P : bx[x] \in Seq(M[x])

Letters(P, M) == {o \in [to : P, msg : UNION {M[x] : x \in P}] : o.msg \in M[o.to]}

Put(b, o) == [b EXCEPT ![o.to] = Append(@, o.msg)]

PutAll(boxes, out) == FoldLeft(LAMBDA bx, o : [bx EXCEPT ![o.to] = Append(@, o.msg)], boxes, out)

(* The table of that fold *)
PutTable(g, boxes, out) ==
  g = [s \in SUBSET (1 .. Len(out)) |->
         IF s = {} THEN boxes ELSE [g[s \ {Max(s)}] EXCEPT
                                      ![out[Max(s)].to] = Append(@, out[Max(s)].msg)]]

LEMMA PutIs ==
  ASSUME NEW P, NEW M, NEW bx, Boxed(bx, P, M), NEW snd \in Letters(P, M)
  PROVE  /\ Boxed(Put(bx, snd), P, M)
         /\ snd.to \in P /\ snd.msg \in M[snd.to] /\ snd = [to |-> snd.to, msg |-> snd.msg]
         /\ \A x \in P : Put(bx, snd)[x] = IF snd.to = x THEN Append(bx[x], snd.msg) ELSE bx[x]
<1>1. snd.to \in P /\ snd.msg \in M[snd.to] /\ snd = [to |-> snd.to, msg |-> snd.msg]
  BY DEF Letters
<1>2. bx = [x \in P |-> bx[x]] /\ \A x \in P : bx[x] \in Seq(M[x])
  BY DEF Boxed
<1> DEFINE a == Put(bx, snd)
<1>3. a = [x \in P |-> a[x]]
  BY <1>2 DEF Put
<1>4. \A x \in P : a[x] = IF snd.to = x THEN Append(bx[x], snd.msg) ELSE bx[x]
  BY <1>2 DEF Put
<1> HIDE DEF a
<1>5. \A x \in P : a[x] \in Seq(M[x])
  <2> TAKE x \in P
  <2>1. CASE snd.to = x
    <3>1. Append(bx[x], snd.msg) \in Seq(M[x])
      BY <1>1, <1>2, <2>1, PushBack
    <3> QED
      BY <1>4, <2>1, <3>1
  <2>2. CASE snd.to # x
    BY <1>2, <1>4, <2>2
  <2> QED
    BY <2>1, <2>2
<1> QED
  BY <1>1, <1>3, <1>4, <1>5 DEF a, Boxed

LEMMA PutTableExists ==
  ASSUME NEW P, NEW M, NEW boxes, Boxed(boxes, P, M), NEW out \in Seq(Letters(P, M))
  PROVE  \E g : PutTable(g, boxes, out)
<1> DEFINE n == Len(out)
           R == UNION {Seq(M[x]) : x \in P}
           V == {b \in [P -> R] : Boxed(b, P, M)}
           F == [x \in V \X (1 .. n) |-> Put(x[1], out[x[2]])]
<1>1. n \in Nat /\ \A i \in 1 .. n : out[i] \in Letters(P, M)
  OBVIOUS
<1>2. \A b : Boxed(b, P, M) => b \in V
  BY DEF Boxed
<1>3. \A b \in V : \A i \in 1 .. n : Put(b, out[i]) \in V
  BY <1>1, <1>2, PutIs
<1>4. \A b \in V : \A i \in 1 .. n : F[<<b, i>>] = Put(b, out[i])
  OBVIOUS
<1>5. \A i \in 1 .. n : \A b \in V : F[<<b, i>>] \in V
  BY <1>3, <1>4
<1>6. boxes \in V
  BY <1>2
<1> HIDE DEF F, V, n
<1>7. PICK g : FoldTable(g, n, boxes, F) /\ \A s \in SUBSET (1 .. n) : g[s] \in V
  BY <1>1, <1>5, <1>6, FoldInside
<1>8. ASSUME NEW s \in SUBSET (1 .. n)
      PROVE  g[s] = IF s = {} THEN boxes ELSE [g[s \ {Max(s)}] EXCEPT
                                      ![out[Max(s)].to] = Append(@, out[Max(s)].msg)]
  <2>1. CASE s # {}
    <3>1. Max(s) \in 1 .. n
      BY <1>1, <2>1, LastOfSome
    <3>2. s \ {Max(s)} \in SUBSET (1 .. n)
      OBVIOUS
    <3>3. g[s \ {Max(s)}] \in V
      BY <1>7, <3>2
    <3>4. g[s] = F[<<g[s \ {Max(s)}], Max(s)>>]
      BY <1>7, <2>1, Zenon DEF FoldTable
    <3>5. g[s] = Put(g[s \ {Max(s)}], out[Max(s)])
      BY <1>4, <3>1, <3>3, <3>4
    <3> QED
      BY <2>1, <3>5, Zenon DEF Put
  <2>2. CASE s = {}
    BY <1>7, <2>2, Zenon DEF FoldTable
  <2> QED
    BY <2>1, <2>2
<1>9. PutTable(g, boxes, out)
  BY <1>7, <1>8, Zenon DEF PutTable, FoldTable, n
<1> QED
  BY <1>9

LEMMA BoxedCounted ==
  ASSUME NEW P, IsFiniteSet(P), NEW M, NEW b, Boxed(b, P, M), NEW D \in SUBSET P, NEW T
  PROVE  /\ IsFiniteSet(D) /\ AreQueues(b, D, UNION {M[x] : x \in P})
         /\ Across(b, D, T) \in Nat
<1>1. IsFiniteSet(D)
  BY FS_Subset
<1>2. \A x \in P : b[x] \in Seq(UNION {M[y] : y \in P})
  <2> TAKE x \in P
  <2>1. b[x] \in Seq(M[x]) /\ M[x] \subseteq UNION {M[y] : y \in P}
    BY DEF Boxed
  <2> QED
    BY <2>1
<1>3. AreQueues(b, D, UNION {M[x] : x \in P})
  BY <1>2 DEF AreQueues
<1>4. IsFiniteSet(UNION {Matches(b, d, T) : d \in D})
  BY <1>1, <1>3, MatchesFinite
<1> QED
  BY <1>1, <1>3, <1>4, FS_CardinalityType DEF Across

(* One message, counted where D says if it is in T *)
LEMMA PutCounted ==
  ASSUME NEW P, IsFiniteSet(P), NEW M, NEW b, Boxed(b, P, M), NEW o \in Letters(P, M),
         NEW D \in SUBSET P, NEW T
  PROVE  /\ Boxed(Put(b, o), P, M)
         /\ Across(Put(b, o), D, T) = Across(b, D, T) + OneIf(o \in [to : D, msg : T])
<1> DEFINE m == Put(b, o)
           A == UNION {M[x] : x \in P}
<1>1. /\ Boxed(m, P, M)
      /\ o.to \in P /\ o.msg \in M[o.to] /\ o = [to |-> o.to, msg |-> o.msg]
      /\ \A x \in P : m[x] = IF o.to = x THEN Append(b[x], o.msg) ELSE b[x]
  BY PutIs
<1>2. o \in [to : D, msg : T] <=> o.to \in D /\ o.msg \in T
  BY <1>1
<1> HIDE DEF m
<1>3. /\ IsFiniteSet(D) /\ AreQueues(b, D, A) /\ AreQueues(m, D, A)
      /\ Across(b, D, T) \in Nat /\ Across(m, D, T) \in Nat
  <2>1. IsFiniteSet(D) /\ AreQueues(b, D, A) /\ Across(b, D, T) \in Nat
    BY BoxedCounted
  <2>2. Boxed(m, P, M)
    BY <1>1
  <2>3. AreQueues(m, D, A) /\ Across(m, D, T) \in Nat
    BY <2>2, BoxedCounted
  <2> QED
    BY <2>1, <2>3
<1> HIDE DEF A
<1>4. Across(m, D, T) = Across(b, D, T) + OneIf(o.to \in D /\ o.msg \in T)
  <2>1. CASE o.to \in D
    <3>1. KeepsApart(b, m, D, o.to)
      BY <1>1 DEF KeepsApart
    <3>2. Across(m, D, T) + Count(b[o.to], T) = Across(b, D, T) + Count(m[o.to], T)
      BY <1>3, <2>1, <3>1, AcrossChanges
    <3>3. b[o.to] \in Seq(M[o.to])
      BY <1>1 DEF Boxed
    <3>4. Count(m[o.to], T) = Count(b[o.to], T) + OneIf(o.msg \in T)
      BY <1>1, <3>3, CountPushBack DEF OneIf
    <3>5. Count(b[o.to], T) \in Nat
      BY <3>3, CountFinite
    <3> QED
      BY <1>3, <2>1, <3>2, <3>4, <3>5 DEF OneIf
  <2>2. CASE o.to \notin D
    <3>1. \A x \in D : m[x] = b[x]
      BY <1>1, <2>2
    <3>2. Across(m, D, T) = Across(b, D, T)
      BY <3>1, AcrossSame
    <3> QED
      BY <1>3, <2>2, <3>2 DEF OneIf
  <2> QED
    BY <2>1, <2>2
<1> QED
  BY <1>1, <1>2, <1>4 DEF m

(* a is b with the first k messages of out *)
HasPut(b, out, k, a, D, T, P, M) ==
  /\ Boxed(a, P, M)
  /\ Across(a, D, T) = Across(b, D, T) + Between(out, 1, k, [to : D, msg : T])

LEMMA PutNext ==
  ASSUME NEW P, IsFiniteSet(P), NEW M, NEW b, Boxed(b, P, M), NEW out \in Seq(Letters(P, M)),
         NEW k \in 1 .. Len(out), NEW a, NEW D \in SUBSET P, NEW T, HasPut(b, out, k - 1, a, D, T, P, M)
  PROVE  HasPut(b, out, k, Put(a, out[k]), D, T, P, M)
<1> DEFINE o == out[k]
           m == Put(a, o)
           U == [to : D, msg : T]
<1>1. o \in Letters(P, M) /\ k \in Nat \ {0}
  OBVIOUS
<1>2. Boxed(a, P, M) /\ Across(a, D, T) = Across(b, D, T) + Between(out, 1, k - 1, U)
  BY DEF HasPut
<1> HIDE DEF o
<1>3. Boxed(m, P, M) /\ Across(m, D, T) = Across(a, D, T) + OneIf(o \in U)
  BY <1>1, <1>2, PutCounted
<1> HIDE DEF m, U
<1>4. /\ Between(out, 1, k, U) = Between(out, 1, k - 1, U) + OneIf(o \in U)
      /\ Between(out, 1, k, U) \in Nat /\ Between(out, 1, k - 1, U) \in Nat
  BY <1>1, BetweenNext, Zenon DEF o, OneIf
<1>5. Across(a, D, T) \in Nat /\ Across(b, D, T) \in Nat
  BY <1>2, BoxedCounted
<1>6. Across(m, D, T) = Across(b, D, T) + Between(out, 1, k, U)
  BY <1>2, <1>3, <1>4, <1>5 DEF OneIf
<1> QED
  BY <1>3, <1>6 DEF HasPut, m, U, o

LEMMA AllPut ==
  ASSUME NEW P, IsFiniteSet(P), NEW M, NEW boxes, Boxed(boxes, P, M), NEW out \in Seq(Letters(P, M)),
         NEW g, PutTable(g, boxes, out), NEW D \in SUBSET P, NEW T
  PROVE  HasPut(boxes, out, Len(out), g[1 .. Len(out)], D, T, P, M)
<1> DEFINE n == Len(out)
<1>1. n \in Nat /\ DOMAIN out = 1 .. n
  OBVIOUS
<1> DEFINE A == {k \in 0 .. n : HasPut(boxes, out, k, g[1 .. k], D, T, P, M)}
<1>3. 0 \in A
  <2>1. 1 .. 0 = {} /\ {} \in SUBSET (1 .. n) /\ 0 \in 0 .. n
    BY <1>1
  <2>2. g[1 .. 0] = boxes
    BY <2>1, Zenon DEF PutTable
  <2>3. Between(out, 1, 0, [to : D, msg : T]) = 0
    BY BetweenNone
  <2>4. Across(boxes, D, T) \in Nat
    BY BoxedCounted
  <2>5. HasPut(boxes, out, 0, boxes, D, T, P, M)
    BY <2>3, <2>4 DEF HasPut
  <2> QED
    BY <2>1, <2>2, <2>5
<1>4. ASSUME NEW k \in 1 .. n, k - 1 \in A
      PROVE  k \in A
  <2>1. Max(1 .. k) = k /\ (1 .. k) \ {k} = 1 .. k - 1 /\ 1 .. k # {}
    <3>1. k \in Nat \ {0}
      OBVIOUS
    <3> QED
      BY <3>1, LastPosition
  <2>2. 1 .. k \in SUBSET (1 .. n) /\ k \in 0 .. n
    BY <1>1
  <2>3. g[1 .. k] = Put(g[1 .. k - 1], out[k])
    <3>1. g[1 .. k] = [g[(1 .. k) \ {Max(1 .. k)}] EXCEPT
                         ![out[Max(1 .. k)].to] = Append(@, out[Max(1 .. k)].msg)]
      BY <2>1, <2>2, Zenon DEF PutTable
    <3> QED
      BY <2>1, <3>1 DEF Put
  <2>4. HasPut(boxes, out, k - 1, g[1 .. k - 1], D, T, P, M)
    BY <1>4
  <2>5. HasPut(boxes, out, k, g[1 .. k], D, T, P, M)
    BY <2>3, <2>4, PutNext
  <2> QED
    BY <2>2, <2>5
<1> HIDE DEF A
<1>5. 0 .. n \subseteq A
  <2> HIDE DEF n
  <2> QED
    BY <1>1, <1>3, <1>4, UpTo
<1>6. n \in A
  BY <1>1, <1>5
<1> QED
  BY <1>6 DEF A

(* The fold of a handler's sends over the mailboxes *)
LEMMA PutsCounted ==
  ASSUME NEW P, IsFiniteSet(P), NEW M, NEW boxes, Boxed(boxes, P, M), NEW out \in Seq(Letters(P, M)),
         NEW after, after = PutAll(boxes, out)
  PROVE  /\ Boxed(after, P, M)
         /\ \A D \in SUBSET P : \A T :
              Across(after, D, T) = Across(boxes, D, T) + Count(out, [to : D, msg : T])
<1> DEFINE n == Len(out)
<1>1. n \in Nat /\ DOMAIN out = 1 .. n
  OBVIOUS
<1>2. PICK g : PutTable(g, boxes, out) /\ after = g[1 .. n]
  <2>1. \E g : PutTable(g, boxes, out)
    BY PutTableExists
  <2> QED
    BY <1>1, <2>1, Zenon DEF PutAll, FoldLeft, MapThenFoldSet, PutTable
<1>3. \A D \in SUBSET P : \A T : HasPut(boxes, out, n, after, D, T, P, M)
  BY <1>2, AllPut
<1>4. \A T : Count(out, T) = Between(out, 1, n, T)
  BY CountIsBetween
<1>5. {} \in SUBSET P
  OBVIOUS
<1>6. Boxed(after, P, M)
  BY <1>3, <1>5 DEF HasPut
<1> HIDE DEF n
<1>7. ASSUME NEW D \in SUBSET P, NEW T
      PROVE  Across(after, D, T) = Across(boxes, D, T) + Count(out, [to : D, msg : T])
  BY <1>3, <1>4 DEF HasPut
<1> QED
  BY <1>6, <1>7

=============================================================================
