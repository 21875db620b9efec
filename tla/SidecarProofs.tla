---------------------------- MODULE SidecarProofs ----------------------------
(***************************************************************************)
(* Shared sidecars, for every number of replicas, of replicas per sidecar, *)
(* of slots, and of clients.                                               *)
(***************************************************************************)
EXTENDS Sidecar, QueueLemmas

-----------------------------------------------------------------------------
(* Groups of replicas *)

LEMMA GroupOf ==
  ASSUME NEW share \in Nat \ {0}, NEW r \in Replicas
  PROVE  r \div share \in SidecarsOf(share)
<1>1. ReplicaCount \in Nat \ {0} /\ r \in Nat /\ r <= ReplicaCount - 1
  BY SidecarAssumption DEF Replicas
<1> DEFINE a == r \div share
           b == (ReplicaCount + share - 1) \div share
           n == ReplicaCount + share - 1
<1>2. a \in Nat /\ a * share <= r /\ r < a * share + share
  BY <1>1, DividesDown
<1>3. n \in Nat
  BY <1>1
<1>4. b \in Nat /\ b * share <= n /\ n < b * share + share
  BY <1>3, DividesDown
<1> HIDE DEF a, b
<1>5. a < b
  <2> SUFFICES ASSUME b <= a PROVE FALSE
    BY <1>2, <1>4
  <2>1. b * share <= a * share /\ b * share \in Nat /\ a * share \in Nat
    BY <1>2, <1>4, Monotone
  <2> QED
    BY <1>1, <1>2, <1>4, <2>1
<1>6. a \in 0 .. b - 1
  BY <1>2, <1>4, <1>5
<1> QED
  BY <1>6 DEF a, b, SidecarsOf

LEMMA GroupIs ==
  ASSUME NEW share \in Nat \ {0}, NEW s \in SidecarsOf(share)
  PROVE  LET group == {r \in Replicas : r \div share = s} IN
         /\ ToSet(SidecarReplicas(s, share)) = group
         /\ SidecarReplicas(s, share) \in Seq(group)
         /\ group # {}
<1>1. ReplicaCount \in Nat \ {0}
  BY SidecarAssumption
<1> DEFINE n == ReplicaCount + share - 1
           b == n \div share
           group == {r \in Replicas : r \div share = s}
           first == s * share
           end == Min({(s + 1) * share, ReplicaCount})
<1>2. n \in Nat /\ n = ReplicaCount + share - 1
  BY <1>1
<1> HIDE DEF n
<1>3. b \in Nat /\ b * share <= n /\ n < b * share + share
  BY <1>2, DividesDown
<1>4. s \in 0 .. b - 1
  BY DEF SidecarsOf, b, n
<1> HIDE DEF b
<1>5. s \in Nat /\ s + 1 <= b
  BY <1>3, <1>4
<1>6. /\ first \in Nat /\ (s + 1) * share = first + share
      /\ (s + 1) * share <= b * share /\ b * share \in Nat
  <2>1. first \in Nat /\ (s + 1) * share = first + share
    BY <1>5, Monotone
  <2>2. (s + 1) * share <= b * share /\ b * share \in Nat
    BY <1>3, <1>5, Monotone
  <2> QED
    BY <2>1, <2>2
<1>7. end = IF first + share <= ReplicaCount THEN first + share ELSE ReplicaCount
  <2>1. {first + share, ReplicaCount} \in SUBSET Nat
    BY <1>1, <1>6
  <2>2. end \in {first + share, ReplicaCount}
        /\ end <= first + share /\ end <= ReplicaCount
    BY <1>6, <2>1, MinIsSmallest
  <2> HIDE DEF end
  <2> QED
    BY <1>1, <1>6, <2>2
<1> HIDE DEF end
<1>8. first < ReplicaCount /\ first < end /\ end \in Nat /\ end <= ReplicaCount
  BY <1>1, <1>2, <1>3, <1>6, <1>7
<1>9. ASSUME NEW r \in Nat
      PROVE  r \in group <=> first <= r /\ r < end
  <2>1. r \in Replicas <=> r < ReplicaCount
    BY <1>1 DEF Replicas
  <2>2. r \div share = s <=> first <= r /\ r < first + share
    <3>1. ASSUME r \div share = s PROVE first <= r /\ r < first + share
      BY <3>1, DividesDown
    <3>2. ASSUME first <= r, r < first + share PROVE r \div share = s
      BY <1>5, <3>2, QuotientIs
    <3> QED
      BY <3>1, <3>2
  <2> QED
    BY <1>1, <1>6, <1>7, <2>1, <2>2
<1> DEFINE list == [i \in 1 .. end - first |-> first + i - 1]
<1>10. SidecarReplicas(s, share) = list
  BY DEF SidecarReplicas, end
<1>11. \A i \in 1 .. end - first : first + i - 1 \in group
  <2> TAKE i \in 1 .. end - first
  <2>1. first + i - 1 \in Nat /\ first <= first + i - 1 /\ first + i - 1 < end
    BY <1>6, <1>8
  <2> QED
    BY <2>1, <1>9
<1>12. \A r \in group : \E i \in 1 .. end - first : r = first + i - 1
  <2> TAKE r \in group
  <2>1. r \in Nat
    BY <1>1 DEF Replicas
  <2>2. first <= r /\ r < end
    BY <2>1, <1>9
  <2> HIDE DEF group, first
  <2>3. r - first + 1 \in 1 .. end - first /\ r = first + (r - first + 1) - 1
    BY <1>6, <1>8, <2>1, <2>2
  <2> QED
    BY <2>3
<1>13. first \in group
  BY <1>6, <1>8, <1>9
<1> HIDE DEF group, first
<1>14. list \in Seq(group)
  <2>1. end - first \in Nat
    BY <1>6, <1>8
  <2> QED
    BY <2>1, <1>11
<1>15. ToSet(list) = group
  BY <1>11, <1>12 DEF ToSet
<1> QED
  BY <1>10, <1>13, <1>14, <1>15 DEF group

-----------------------------------------------------------------------------
(* What is in the mailboxes and in the state of each model *)

Intents  == [kind : {"intent"}, client : Clients, task : Calls]
PullMail == {m \in [kind : {"pull"}, server : Replicas, target : Sidecars, task : Calls] :
               m.target = SidecarId(m.server)}
Ingested == [kind : {"upstream"}, task : Ingress, slot : {FALSE}]
Completions(r) == [kind : {"completed"}, server : {r}]
EventMail(r) == Arrivals(r) \cup Completions(r) \cup Reports(r)
SidecarMail(s) == Ingested \cup Intents \cup UNION {EventMail(r) : r \in Members(s)}
EdgeMail == [kind : {"release"}, target : Sidecars]

SidecarState(s) ==
  [occupancy : [Members(s) -> Nat], pending_pulls : [Members(s) -> Nat],
   pull_intents : Seq(Intents), out : {<<>>}]

PlainWork == [kind : {"upstream", "return"}, task : Tasks, slot : {FALSE}]

ReplicaState ==
  [queue : Seq(PlainWork), in_flight : Nat, serving : SUBSET Work, calling : SUBSET Nested,
   done : SUBSET Tasks, events : {<<>>}, released : {0}]

ClientState == [queue : Seq([task : Calls]), pull_intent_load : [Sidecars -> Nat]]

Mailboxes ==
  /\ inbox = [x \in Boxes |-> inbox[x]]
  /\ \A c \in Clients : inbox[ClientBox(c)] \in Seq(PullMail)
  /\ \A s \in Sidecars : inbox[SidecarBox(s)] \in Seq(SidecarMail(s))
  /\ \A r \in Replicas : inbox[ReplicaBox(r)] \in Seq(Work)
  /\ inbox[EdgeBox] \in Seq(EdgeMail)

Types ==
  /\ config \in [share : Shares, pull_sched : Scheds, scheduling : Schedulings]
  /\ arrived \subseteq Tasks
  /\ client \in [Clients -> ClientState]
  /\ sidecar = [s \in Sidecars |-> sidecar[s]]
  /\ \A s \in Sidecars : sidecar[s] \in SidecarState(s)
  /\ replica \in [Replicas -> ReplicaState]
  /\ edge \in [Sidecars -> Nat]
  /\ Mailboxes

LEMMA BoxesDiffer ==
  /\ \A c : \A x : /\ ClientBox(c) # SidecarBox(x) /\ ClientBox(c) # ReplicaBox(x)
                   /\ ClientBox(c) # EdgeBox
  /\ \A s : \A x : SidecarBox(s) # ReplicaBox(x) /\ SidecarBox(s) # EdgeBox
  /\ \A r : ReplicaBox(r) # EdgeBox
  /\ \A x, y : /\ ClientBox(x) = ClientBox(y) => x = y
               /\ SidecarBox(x) = SidecarBox(y) => x = y
               /\ ReplicaBox(x) = ReplicaBox(y) => x = y
BY DEF ClientBox, SidecarBox, ReplicaBox, EdgeBox

LEMMA BoxesAre ==
  ASSUME config \in [share : Shares, pull_sched : Scheds, scheduling : Schedulings]
  PROVE  /\ config.share \in Nat \ {0}
         /\ \A c \in Clients : ClientBox(c) \in Boxes
         /\ \A s \in Sidecars : SidecarBox(s) \in Boxes
         /\ \A r \in Replicas : ReplicaBox(r) \in Boxes
         /\ EdgeBox \in Boxes
<1>1. config.share \in Shares /\ config.share \in Nat \ {0}
  BY SidecarAssumption
<1>2. Sidecars \subseteq AllSidecars
  BY <1>1 DEF Sidecars, AllSidecars
<1> QED
  BY <1>1, <1>2 DEF Boxes

LEMMA MembersAre ==
  ASSUME config \in [share : Shares, pull_sched : Scheds, scheduling : Schedulings]
  PROVE  /\ \A r \in Replicas : SidecarId(r) \in Sidecars /\ r \in Members(SidecarId(r))
         /\ \A s \in Sidecars : /\ ToSet(SidecarReplicas(s, config.share)) = Members(s)
                                /\ SidecarReplicas(s, config.share) \in Seq(Members(s))
                                /\ Members(s) # {}
<1>1. config.share \in Nat \ {0}
  BY BoxesAre
<1>2. \A s \in Sidecars : s \in SidecarsOf(config.share)
  BY DEF Sidecars
<1>3. \A s : Members(s) = {r \in Replicas : r \div config.share = s}
  BY DEF Members, SidecarId
<1>4. \A r \in Replicas : SidecarId(r) \in Sidecars
  BY <1>1, GroupOf DEF Sidecars, SidecarId
<1> QED
  BY <1>1, <1>2, <1>3, <1>4, GroupIs, Zenon DEF Members

(* Nothing about the groups changes in a run. *)
LEMMA SameGroups ==
  ASSUME config' = config
  PROVE  /\ Sidecars' = Sidecars
         /\ \A r : SidecarId(r)' = SidecarId(r)
         /\ \A s : Members(s)' = Members(s)
         /\ PullMail' = PullMail
         /\ \A s : SidecarMail(s)' = SidecarMail(s)
         /\ EdgeMail' = EdgeMail
         /\ \A s : SidecarState(s)' = SidecarState(s)
         /\ ClientState' = ClientState
         /\ \A r : Pulls(r)' = Pulls(r)
<1>1. Sidecars' = Sidecars
  BY DEF Sidecars
<1>2. \A r : SidecarId(r)' = SidecarId(r)
  BY DEF SidecarId
<1>3. \A s : Members(s)' = Members(s)
  BY <1>2 DEF Members
<1>4. PullMail' = PullMail
  BY <1>1, <1>2 DEF PullMail
<1>5. \A s : SidecarMail(s)' = SidecarMail(s)
  BY <1>3 DEF SidecarMail
<1>6. EdgeMail' = EdgeMail
  BY <1>1 DEF EdgeMail
<1>7. \A s : SidecarState(s)' = SidecarState(s)
  BY <1>3 DEF SidecarState
<1>8. ClientState' = ClientState
  BY <1>1 DEF ClientState
<1>9. \A r : Pulls(r)' = Pulls(r)
  BY <1>1 DEF Pulls
<1> QED
  BY <1>1, <1>2, <1>3, <1>4, <1>5, <1>6, <1>7, <1>8, <1>9

-----------------------------------------------------------------------------
(* What a sidecar sends *)

Sends == [to : {ClientBox(c) : c \in Clients}, msg : PullMail]

IsClientBox(x) == \E c \in Clients : x = ClientBox(c)

(* Mailboxes whose client boxes hold pulls *)
MailOf(b) ==
  /\ b = [x \in Boxes |-> b[x]]
  /\ \A c \in Clients : b[ClientBox(c)] \in Seq(PullMail)

OneMore(b, o) == [b EXCEPT ![o.to] = Append(@, o.msg)]

DeliverTable(g, boxes, out) ==
  g = [s \in SUBSET (1 .. Len(out)) |->
         IF s = {} THEN boxes ELSE [g[s \ {Max(s)}] EXCEPT
                                      ![out[Max(s)].to] = Append(@, out[Max(s)].msg)]]

LEMMA OneMoreIs ==
  ASSUME config \in [share : Shares, pull_sched : Scheds, scheduling : Schedulings],
         NEW b, MailOf(b), NEW o \in Sends
  PROVE  /\ MailOf(OneMore(b, o))
         /\ \E c \in Clients : o.to = ClientBox(c)
         /\ \A c \in Clients : OneMore(b, o)[ClientBox(c)] =
                                 IF o.to = ClientBox(c) THEN Append(b[ClientBox(c)], o.msg)
                                 ELSE b[ClientBox(c)]
         /\ \A x \in Boxes : ~IsClientBox(x) => OneMore(b, o)[x] = b[x]
<1>1. \A c \in Clients : ClientBox(c) \in Boxes
  BY BoxesAre
<1>2. o.msg \in PullMail /\ \E c \in Clients : o.to = ClientBox(c)
  BY DEF Sends
<1>3. PICK c \in Clients : o.to = ClientBox(c)
  BY <1>2
<1>4. b = [x \in Boxes |-> b[x]] /\ \A d \in Clients : b[ClientBox(d)] \in Seq(PullMail)
  BY DEF MailOf
<1> DEFINE a == OneMore(b, o)
<1>5. a = [x \in Boxes |-> a[x]]
  BY <1>4 DEF OneMore
<1>6. \A x \in Boxes : a[x] = IF x = o.to THEN Append(b[x], o.msg) ELSE b[x]
  BY <1>4 DEF OneMore
<1> HIDE DEF a
<1>7. \A d \in Clients : a[ClientBox(d)] = IF o.to = ClientBox(d)
                                           THEN Append(b[ClientBox(d)], o.msg)
                                           ELSE b[ClientBox(d)]
  BY <1>1, <1>6
<1>8. \A d \in Clients : a[ClientBox(d)] \in Seq(PullMail)
  <2> TAKE d \in Clients
  <2>1. Append(b[ClientBox(d)], o.msg) \in Seq(PullMail)
    BY <1>2, <1>4, PushBack
  <2> QED
    BY <1>4, <1>7, <2>1
<1>9. \A x \in Boxes : ~IsClientBox(x) => a[x] = b[x]
  BY <1>3, <1>6 DEF IsClientBox
<1> QED
  BY <1>2, <1>5, <1>7, <1>8, <1>9 DEF a, MailOf

LEMMA DeliverTableExists ==
  ASSUME config \in [share : Shares, pull_sched : Scheds, scheduling : Schedulings],
         NEW boxes, MailOf(boxes), NEW out \in Seq(Sends)
  PROVE  \E g : DeliverTable(g, boxes, out)
<1> DEFINE n == Len(out)
           R == {boxes[x] : x \in Boxes} \cup Seq(PullMail)
           V == {b \in [Boxes -> R] : MailOf(b)}
           F == [x \in V \X (1 .. n) |-> OneMore(x[1], out[x[2]])]
<1>1. n \in Nat /\ \A i \in 1 .. n : out[i] \in Sends
  OBVIOUS
<1>2. boxes \in V
  BY DEF MailOf
<1>3. \A b \in V : MailOf(b) /\ b \in [Boxes -> R]
  OBVIOUS
<1>4. ASSUME NEW b \in V, NEW i \in 1 .. n
      PROVE  OneMore(b, out[i]) \in V
  <2> DEFINE a == OneMore(b, out[i])
  <2>1. /\ MailOf(a)
        /\ \A x \in Boxes : ~IsClientBox(x) => a[x] = b[x]
    BY <1>1, <1>3, OneMoreIs
  <2> HIDE DEF a
  <2>2. a = [x \in Boxes |-> a[x]] /\ \A c \in Clients : a[ClientBox(c)] \in Seq(PullMail)
    BY <2>1 DEF MailOf
  <2>3. \A x \in Boxes : b[x] \in R
    BY <1>3
  <2>4. \A x \in Boxes : a[x] \in R
    BY <2>1, <2>2, <2>3 DEF IsClientBox
  <2>5. a \in [Boxes -> R]
    BY <2>2, <2>4
  <2> QED
    BY <2>1, <2>5 DEF a
<1>5. \A b \in V : \A i \in 1 .. n : F[<<b, i>>] = OneMore(b, out[i])
  OBVIOUS
<1>6. \A i \in 1 .. n : \A b \in V : F[<<b, i>>] \in V
  BY <1>4, <1>5
<1> HIDE DEF F, V, n
<1>7. PICK g : FoldTable(g, n, boxes, F) /\ \A s \in SUBSET (1 .. n) : g[s] \in V
  BY <1>1, <1>2, <1>6, FoldInside
<1>8. ASSUME NEW s \in SUBSET (1 .. n)
      PROVE  g[s] = IF s = {} THEN boxes ELSE [g[s \ {Max(s)}] EXCEPT
                                      ![out[Max(s)].to] = Append(@, out[Max(s)].msg)]
  <2>1. CASE s # {}
    <3>1. Max(s) \in 1 .. n
      BY <1>1, <2>1, LastOfSome
    <3>2. s \ {Max(s)} \in SUBSET (1 .. n)
      OBVIOUS
    <3>3. g[s \ {Max(s)}] \in V
      BY <1>7, <3>2
    <3>4. g[s] = F[<<g[s \ {Max(s)}], Max(s)>>]
      BY <1>7, <2>1, Zenon DEF FoldTable
    <3>5. g[s] = OneMore(g[s \ {Max(s)}], out[Max(s)])
      BY <1>5, <3>1, <3>3, <3>4
    <3> QED
      BY <2>1, <3>5, Zenon DEF OneMore
  <2>2. CASE s = {}
    BY <1>7, <2>2, Zenon DEF FoldTable
  <2> QED
    BY <2>1, <2>2
<1>9. DeliverTable(g, boxes, out)
  BY <1>7, <1>8, Zenon DEF DeliverTable, FoldTable, n
<1> QED
  BY <1>9

SentTo(c, T) == [to : {ClientBox(c)}, msg : T]

ClientMail(b) == [c \in Clients |-> b[ClientBox(c)]]

(* a is b with what out holds, for the messages of T and as far as they are counted. *)
HasSent(b, out, k, a, T) ==
  /\ MailOf(a)
  /\ \A x \in Boxes : ~IsClientBox(x) => a[x] = b[x]
  /\ \A c \in Clients : Count(a[ClientBox(c)], T)
                          = Count(b[ClientBox(c)], T) + Between(out, 1, k, SentTo(c, T))
  /\ Across(ClientMail(a), Clients, T)
       = Across(ClientMail(b), Clients, T) + Between(out, 1, k, [to : {ClientBox(c) : c \in Clients}, msg : T])

LEMMA OneMoreSent ==
  ASSUME config \in [share : Shares, pull_sched : Scheds, scheduling : Schedulings],
         NEW b, MailOf(b), NEW out \in Seq(Sends), NEW k \in 1 .. Len(out), NEW a, NEW T,
         HasSent(b, out, k - 1, a, T)
  PROVE  HasSent(b, out, k, OneMore(a, out[k]), T)
<1> DEFINE o == out[k]
           m == OneMore(a, out[k])
           C == {ClientBox(c) : c \in Clients}
           N(U) == Between(out, 1, k, U)
           N0(U) == Between(out, 1, k - 1, U)
<1>1. o \in Sends /\ k \in Nat /\ k >= 1
  OBVIOUS
<1>2. MailOf(a)
  BY DEF HasSent
<1>3. PICK c \in Clients : o.to = ClientBox(c)
  BY <1>1 DEF Sends
<1>4. /\ MailOf(m)
      /\ \A d \in Clients : m[ClientBox(d)] = IF o.to = ClientBox(d)
                                              THEN Append(a[ClientBox(d)], o.msg)
                                              ELSE a[ClientBox(d)]
      /\ \A x \in Boxes : ~IsClientBox(x) => m[x] = a[x]
  BY <1>1, <1>2, OneMoreIs
<1> HIDE DEF m
<1>5. /\ \A d \in Clients : a[ClientBox(d)] \in Seq(PullMail)
      /\ \A d \in Clients : m[ClientBox(d)] \in Seq(PullMail)
  BY <1>2, <1>4 DEF MailOf
<1>6. /\ m[ClientBox(c)] = Append(a[ClientBox(c)], o.msg)
      /\ \A d \in Clients \ {c} : m[ClientBox(d)] = a[ClientBox(d)]
  BY <1>3, <1>4, BoxesDiffer
<1>7. Count(m[ClientBox(c)], T) = Count(a[ClientBox(c)], T) + IF o.msg \in T THEN 1 ELSE 0
  <2>1. o.msg \in PullMail
    BY <1>1 DEF Sends
  <2> QED
    BY <1>5, <1>6, <2>1, CountPushBack
<1>8. \A U : /\ N(U) = N0(U) + IF o \in U THEN 1 ELSE 0
             /\ N(U) \in Nat /\ N0(U) \in Nat
  <2>1. k \in Nat \ {0}
    BY <1>1
  <2> QED
    BY <2>1, BetweenNext, Zenon DEF o
<1>9. o = [to |-> o.to, msg |-> o.msg]
  BY <1>1 DEF Sends
<1>10. \A d \in Clients : o \in SentTo(d, T) <=> d = c /\ o.msg \in T
  BY <1>3, <1>9, BoxesDiffer DEF SentTo
<1>11. o \in [to : C, msg : T] <=> o.msg \in T
  BY <1>3, <1>9
<1>12. /\ \A d \in Clients : Count(a[ClientBox(d)], T) = Count(b[ClientBox(d)], T) + N0(SentTo(d, T))
       /\ Across(ClientMail(a), Clients, T) = Across(ClientMail(b), Clients, T) + N0([to : C, msg : T])
       /\ \A x \in Boxes : ~IsClientBox(x) => a[x] = b[x]
  BY DEF HasSent
<1>13. \A d \in Clients : Count(b[ClientBox(d)], T) \in Nat /\ Count(a[ClientBox(d)], T) \in Nat
                          /\ Count(m[ClientBox(d)], T) \in Nat
  BY <1>5, CountFinite DEF MailOf
<1> HIDE DEF N, N0, o, C
<1>14. \A d \in Clients : Count(m[ClientBox(d)], T) = Count(b[ClientBox(d)], T) + N(SentTo(d, T))
  <2> TAKE d \in Clients
  <2>1. CASE d = c
    BY <1>7, <1>8, <1>10, <1>12, <1>13, <2>1
  <2>2. CASE d # c
    <3>1. Count(m[ClientBox(d)], T) = Count(a[ClientBox(d)], T)
      BY <1>6, <2>2
    <3>2. N(SentTo(d, T)) = N0(SentTo(d, T))
      BY <1>8, <1>10, <2>2
    <3> QED
      BY <1>12, <3>1, <3>2
  <2> QED
    BY <2>1, <2>2
<1>15. Across(ClientMail(m), Clients, T) = Across(ClientMail(b), Clients, T) + N([to : C, msg : T])
  <2> DEFINE f == ClientMail(a)
             g == ClientMail(m)
  <2>1. AreQueues(f, Clients, PullMail) /\ AreQueues(g, Clients, PullMail)
    BY <1>5 DEF AreQueues, ClientMail
  <2>2. KeepsApart(f, g, Clients, c)
    BY <1>6 DEF KeepsApart, ClientMail
  <2>3. f[c] = a[ClientBox(c)] /\ g[c] = m[ClientBox(c)]
    BY DEF ClientMail
  <2>4. IsFiniteSet(Clients)
    BY SidecarAssumption
  <2>5. AreQueues(ClientMail(b), Clients, PullMail)
    BY DEF AreQueues, ClientMail, MailOf
  <2> HIDE DEF f, g
  <2>6. Across(g, Clients, T) + Count(f[c], T) = Across(f, Clients, T) + Count(g[c], T)
    BY <2>1, <2>2, <2>4, AcrossChanges
  <2>7. /\ Across(g, Clients, T) \in Nat /\ Across(f, Clients, T) \in Nat
        /\ Across(ClientMail(b), Clients, T) \in Nat
    BY <2>1, <2>4, <2>5, AcrossParts
  <2>8. Across(g, Clients, T) = Across(f, Clients, T) + IF o.msg \in T THEN 1 ELSE 0
    BY <1>7, <1>13, <2>3, <2>6, <2>7
  <2>9. N([to : C, msg : T]) = N0([to : C, msg : T]) + IF o.msg \in T THEN 1 ELSE 0
    BY <1>8, <1>11
  <2>10. Across(f, Clients, T) = Across(ClientMail(b), Clients, T) + N0([to : C, msg : T])
    BY <1>12 DEF f
  <2>11. N([to : C, msg : T]) \in Nat /\ N0([to : C, msg : T]) \in Nat
    BY <1>8
  <2> QED
    BY <2>7, <2>8, <2>9, <2>10, <2>11 DEF g
<1> QED
  BY <1>4, <1>12, <1>14, <1>15 DEF HasSent, N, C, m, o

LEMMA DeliverSends ==
  ASSUME config \in [share : Shares, pull_sched : Scheds, scheduling : Schedulings],
         NEW boxes, MailOf(boxes), NEW out \in Seq(Sends), NEW T
  PROVE  HasSent(boxes, out, Len(out), Deliver(boxes, out), T)
<1> DEFINE n == Len(out)
<1>1. n \in Nat /\ DOMAIN out = 1 .. n
  OBVIOUS
<1>2. PICK g : DeliverTable(g, boxes, out) /\ Deliver(boxes, out) = g[1 .. n]
  <2>1. \E g : DeliverTable(g, boxes, out)
    BY DeliverTableExists
  <2> QED
    BY <1>1, <2>1, Zenon DEF Deliver, FoldLeft, MapThenFoldSet, DeliverTable
<1> DEFINE P == {k \in 0 .. n : HasSent(boxes, out, k, g[1 .. k], T)}
<1>3. 0 \in P
  <2>1. 1 .. 0 = {} /\ {} \in SUBSET (1 .. n) /\ 0 \in 0 .. n
    BY <1>1
  <2>2. g[1 .. 0] = boxes
    BY <1>2, <2>1, Zenon DEF DeliverTable
  <2>3. \A U : Between(out, 1, 0, U) = 0
    BY BetweenNone
  <2>4. \A c \in Clients : Count(boxes[ClientBox(c)], T) \in Nat
    BY CountFinite DEF MailOf
  <2>5. Across(ClientMail(boxes), Clients, T) \in Nat
    <3>1. AreQueues(ClientMail(boxes), Clients, PullMail)
      BY DEF AreQueues, ClientMail, MailOf
    <3>2. IsFiniteSet(Clients)
      BY SidecarAssumption
    <3>3. IsFiniteSet(UNION {Matches(ClientMail(boxes), d, T) : d \in Clients})
      BY <3>1, <3>2, MatchesFinite
    <3> QED
      BY <3>3, FS_CardinalityType DEF Across
  <2>6. HasSent(boxes, out, 0, boxes, T)
    BY <2>3, <2>4, <2>5 DEF HasSent
  <2> QED
    BY <2>1, <2>2, <2>6
<1>4. ASSUME NEW k \in 1 .. n, k - 1 \in P
      PROVE  k \in P
  <2>1. Max(1 .. k) = k /\ (1 .. k) \ {k} = 1 .. k - 1 /\ 1 .. k # {}
    <3>1. k \in Nat \ {0}
      OBVIOUS
    <3> QED
      BY <3>1, LastPosition
  <2>2. 1 .. k \in SUBSET (1 .. n) /\ k \in 0 .. n
    BY <1>1
  <2>3. g[1 .. k] = OneMore(g[1 .. k - 1], out[k])
    BY <1>2, <2>1, <2>2, Zenon DEF DeliverTable, OneMore
  <2>4. HasSent(boxes, out, k - 1, g[1 .. k - 1], T)
    BY <1>4
  <2>5. HasSent(boxes, out, k, g[1 .. k], T)
    BY <2>3, <2>4, OneMoreSent
  <2> QED
    BY <2>2, <2>5
<1> HIDE DEF P
<1>5. 0 .. n \subseteq P
  <2> HIDE DEF n
  <2> QED
    BY <1>1, <1>3, <1>4, UpTo
<1>6. n \in P
  BY <1>1, <1>5
<1> QED
  BY <1>2, <1>6 DEF P

-----------------------------------------------------------------------------
(* What the sidecar's drains do *)

Draining(s) ==
  [occupancy : [Members(s) -> Nat], pending_pulls : [Members(s) -> Nat],
   pull_intents : Seq(Intents), out : Seq(Sends)]

(* Pulls for r among what is sent *)
Answering(r) == [to : {ClientBox(c) : c \in Clients}, msg : Pulls(r)]

(***************************************************************************)
(* u is v after granting some pulls: as many as are now pending in         *)
(* addition, none beyond the capacity, each for one intent of its client.  *)
(***************************************************************************)
Drained(s, v, u) ==
  /\ u \in Draining(s)
  /\ u.occupancy = v.occupancy
  /\ \A r \in Members(s) :
       /\ v.pending_pulls[r] <= u.pending_pulls[r]
       /\ v.pending_pulls[r] < u.pending_pulls[r]
            => v.occupancy[r] + u.pending_pulls[r] <= MaxConcurrency
       /\ u.pending_pulls[r] + Count(v.out, Answering(r))
            = v.pending_pulls[r] + Count(u.out, Answering(r))
  /\ \A r \in Replicas \ Members(s) : Count(u.out, Answering(r)) = Count(v.out, Answering(r))
  /\ \A c \in Clients : \A T \in {Answers(s), PullMail} :
       Count(u.pull_intents, IntentsOf(c)) + Count(u.out, SentTo(c, T))
         = Count(v.pull_intents, IntentsOf(c)) + Count(v.out, SentTo(c, T))
  /\ \A c \in Clients : \A o \in Sidecars \ {s} :
       Count(u.out, SentTo(c, Answers(o))) = Count(v.out, SentTo(c, Answers(o)))

LEMMA DrainingCounts ==
  ASSUME NEW s, NEW v \in Draining(s)
  PROVE  /\ \A T : Count(v.out, T) \in Nat /\ Count(v.pull_intents, T) \in Nat
         /\ \A r \in Members(s) : v.pending_pulls[r] \in Nat /\ v.occupancy[r] \in Nat
BY CountFinite DEF Draining

LEMMA DrainedItself ==
  ASSUME NEW s, NEW v \in Draining(s)
  PROVE  Drained(s, v, v)
BY DrainingCounts DEF Drained

LEMMA DrainedFurther ==
  ASSUME NEW s, NEW v \in Draining(s), NEW u, NEW w, Drained(s, v, u), Drained(s, u, w)
  PROVE  Drained(s, v, w)
<1>1. u \in Draining(s) /\ w \in Draining(s) /\ w.occupancy = v.occupancy
  BY DEF Drained
<1>2. /\ \A T : Count(v.out, T) \in Nat /\ Count(v.pull_intents, T) \in Nat
      /\ \A T : Count(u.out, T) \in Nat /\ Count(u.pull_intents, T) \in Nat
      /\ \A T : Count(w.out, T) \in Nat /\ Count(w.pull_intents, T) \in Nat
  BY <1>1, DrainingCounts
<1>3. \A r \in Members(s) : /\ v.pending_pulls[r] \in Nat /\ v.occupancy[r] \in Nat
                            /\ u.pending_pulls[r] \in Nat /\ w.pending_pulls[r] \in Nat
  BY <1>1, DrainingCounts
<1>4. ASSUME NEW r \in Members(s)
      PROVE  /\ v.pending_pulls[r] <= w.pending_pulls[r]
             /\ v.pending_pulls[r] < w.pending_pulls[r]
                  => v.occupancy[r] + w.pending_pulls[r] <= MaxConcurrency
             /\ w.pending_pulls[r] + Count(v.out, Answering(r))
                  = v.pending_pulls[r] + Count(w.out, Answering(r))
  <2>1. /\ v.pending_pulls[r] <= u.pending_pulls[r]
        /\ v.pending_pulls[r] < u.pending_pulls[r]
             => v.occupancy[r] + u.pending_pulls[r] <= MaxConcurrency
        /\ u.pending_pulls[r] + Count(v.out, Answering(r))
             = v.pending_pulls[r] + Count(u.out, Answering(r))
    BY DEF Drained
  <2>2. /\ u.pending_pulls[r] <= w.pending_pulls[r]
        /\ u.pending_pulls[r] < w.pending_pulls[r]
             => u.occupancy[r] + w.pending_pulls[r] <= MaxConcurrency
        /\ w.pending_pulls[r] + Count(u.out, Answering(r))
             = u.pending_pulls[r] + Count(w.out, Answering(r))
    BY DEF Drained
  <2>3. u.occupancy = v.occupancy
    BY DEF Drained
  <2>4. /\ v.pending_pulls[r] \in Nat /\ u.pending_pulls[r] \in Nat /\ w.pending_pulls[r] \in Nat
        /\ Count(v.out, Answering(r)) \in Nat /\ Count(u.out, Answering(r)) \in Nat
        /\ Count(w.out, Answering(r)) \in Nat /\ v.occupancy[r] \in Nat
    BY <1>2, <1>3
  <2>5. MaxConcurrency \in Nat
    BY SidecarAssumption
  <2> QED
    BY <2>1, <2>2, <2>3, <2>4, <2>5
<1>5. \A r \in Replicas \ Members(s) : Count(w.out, Answering(r)) = Count(v.out, Answering(r))
  BY DEF Drained
<1>6. \A c \in Clients : \A T \in {Answers(s), PullMail} :
        Count(w.pull_intents, IntentsOf(c)) + Count(w.out, SentTo(c, T))
          = Count(v.pull_intents, IntentsOf(c)) + Count(v.out, SentTo(c, T))
  BY <1>2 DEF Drained
<1>7. \A c \in Clients : \A o \in Sidecars \ {s} :
        Count(w.out, SentTo(c, Answers(o))) = Count(v.out, SentTo(c, Answers(o)))
  BY DEF Drained
<1> QED
  BY <1>1, <1>4, <1>5, <1>6, <1>7 DEF Drained

LEMMA FreeSlotsAre ==
  ASSUME NEW s, NEW v \in Draining(s), NEW r \in Members(s)
  PROVE  /\ FreeSlots(v, r) \in Nat
         /\ FreeSlots(v, r) > 0 => v.occupancy[r] + v.pending_pulls[r] + FreeSlots(v, r) = MaxConcurrency
         /\ FreeSlots(v, r) = 0 => v.occupancy[r] + v.pending_pulls[r] >= MaxConcurrency
<1>1. v.pending_pulls[r] \in Nat /\ v.occupancy[r] \in Nat
  BY DrainingCounts
<1>2. MaxConcurrency \in Nat
  BY SidecarAssumption
<1> QED
  BY <1>1, <1>2 DEF FreeSlots, FreeBeside

LEMMA DrainCapacityDrains ==
  ASSUME config \in [share : Shares, pull_sched : Scheds, scheduling : Schedulings],
         NEW s \in Sidecars, NEW v \in Draining(s), NEW r \in Members(s)
  PROVE  LET u == DrainCapacity(v, r) IN
         /\ Drained(s, v, u)
         /\ u.pull_intents # <<>> => v.pull_intents # <<>> /\ FreeSlots(u, r) = 0
         /\ \A o \in Members(s) \ {r} : u.pending_pulls[o] = v.pending_pulls[o]
<1> DEFINE n == Min({Len(v.pull_intents), FreeSlots(v, r)})
           q == v.pull_intents
           grants == [i \in 1 .. n |-> Grant(q[i], r)]
           u == DrainCapacity(v, r)
<1>1. /\ v = [occupancy |-> v.occupancy, pending_pulls |-> v.pending_pulls,
              pull_intents |-> v.pull_intents, out |-> v.out]
      /\ v.occupancy \in [Members(s) -> Nat] /\ v.pending_pulls \in [Members(s) -> Nat]
      /\ q \in Seq(Intents) /\ v.out \in Seq(Sends)
  BY DEF Draining
<1>2. /\ FreeSlots(v, r) \in Nat
      /\ FreeSlots(v, r) > 0 => v.occupancy[r] + v.pending_pulls[r] + FreeSlots(v, r) = MaxConcurrency
      /\ FreeSlots(v, r) = 0 => v.occupancy[r] + v.pending_pulls[r] >= MaxConcurrency
  BY FreeSlotsAre
<1>3. Len(q) \in Nat
  BY <1>1
<1>4. /\ n \in Nat /\ n <= Len(q) /\ n <= FreeSlots(v, r)
      /\ n = Len(q) \/ n = FreeSlots(v, r)
  <2>1. {Len(q), FreeSlots(v, r)} \in SUBSET Nat
    BY <1>2, <1>3
  <2>2. n \in {Len(q), FreeSlots(v, r)} /\ \A k \in {Len(q), FreeSlots(v, r)} : n <= k
    BY <2>1, MinIsSmallest
  <2> HIDE DEF n
  <2> QED
    BY <1>2, <1>3, <2>2
<1>5. /\ u.occupancy = v.occupancy
      /\ u.pending_pulls = [v.pending_pulls EXCEPT ![r] = @ + n]
      /\ u.pull_intents = SubSeq(q, n + 1, Len(q))
      /\ u.out = v.out \o grants
      /\ u = [occupancy |-> u.occupancy, pending_pulls |-> u.pending_pulls,
              pull_intents |-> u.pull_intents, out |-> u.out]
  <2>1. u = [v EXCEPT !.pull_intents = SubSeq(@, n + 1, Len(@)),
                      !.pending_pulls[r] = @ + n,
                      !.out = @ \o grants]
    BY Zenon DEF DrainCapacity
  <2> HIDE DEF n, grants, u
  <2> QED
    BY <1>1, <2>1
<1> HIDE DEF n, u
<1>6. ASSUME NEW i \in 1 .. n
      PROVE  /\ grants[i] \in Sends
             /\ grants[i] = [to |-> ClientBox(q[i].client),
                             msg |-> [kind |-> "pull", server |-> r, target |-> s, task |-> q[i].task]]
             /\ q[i] \in Intents
  <2>1. q[i] \in Intents
    BY <1>1, <1>3, <1>4
  <2>2. r \in Replicas /\ SidecarId(r) = s
    BY DEF Members
  <2>3. /\ grants[i] = [to |-> ClientBox(q[i].client),
                        msg |-> [kind |-> "pull", server |-> r, target |-> s, task |-> q[i].task]]
        /\ q[i].client \in Clients /\ q[i].task \in Calls
    BY <2>1, <2>2 DEF Grant, Intents
  <2>4. [kind |-> "pull", server |-> r, target |-> s, task |-> q[i].task] \in PullMail
    BY <2>2, <2>3 DEF PullMail
  <2> HIDE DEF grants
  <2> QED
    BY <2>1, <2>3, <2>4 DEF Sends
<1>7. grants \in Seq(Sends) /\ Len(grants) = n /\ DOMAIN grants = 1 .. n
  <2>1. DOMAIN grants = 1 .. n /\ grants = [i \in 1 .. n |-> grants[i]]
    OBVIOUS
  <2>2. \A i \in 1 .. n : grants[i] \in Sends
    BY <1>6
  <2> HIDE DEF grants
  <2>3. grants \in [1 .. n -> Sends]
    BY <2>1, <2>2
  <2> QED
    BY <1>4, <2>3
<1> HIDE DEF grants
<1>8. /\ SubSeq(q, n + 1, Len(q)) \in Seq(Intents)
      /\ \A T : Count(q, T) = Between(q, 1, n, T) + Count(SubSeq(q, n + 1, Len(q)), T)
      /\ Len(SubSeq(q, n + 1, Len(q))) = Len(q) - n
  <2>1. n \in 0 .. Len(q)
    BY <1>3, <1>4
  <2> HIDE DEF q
  <2> QED
    BY <1>1, <2>1, CountRest
<1>9. \A T : /\ Count(u.out, T) = Count(v.out, T) + Count(grants, T)
             /\ Count(v.out, T) \in Nat /\ Count(grants, T) \in Nat
  <2> TAKE T
  <2>1. v.out \in Seq(Sends) /\ grants \in Seq(Sends)
    BY <1>1, <1>7
  <2>2. Count(v.out \o grants, T) = Count(v.out, T) + Count(grants, T)
    BY <2>1, CountConcat
  <2>3. Count(v.out, T) \in Nat /\ Count(grants, T) \in Nat
    BY <2>1, CountFinite
  <2> QED
    BY <1>5, <2>2, <2>3
<1>10. u \in Draining(s)
  <2>1. u.pending_pulls \in [Members(s) -> Nat]
    BY <1>1, <1>4, <1>5
  <2>2. u.out \in Seq(Sends)
    BY <1>1, <1>5, <1>7, ConcatProperties
  <2> QED
    BY <1>1, <1>5, <1>8, <2>1, <2>2 DEF Draining
<1>11. \A o \in Members(s) : u.pending_pulls[o] = IF o = r THEN v.pending_pulls[r] + n
                                                  ELSE v.pending_pulls[o]
  BY <1>1, <1>5
<1>12. Count(grants, Answering(r)) = n
  <2>1. \A i \in DOMAIN grants : grants[i] \in Answering(r)
    BY <1>6, <1>7 DEF Answering, Pulls, Intents
  <2> QED
    BY <1>7, <2>1, CountAll
<1>13. \A o \in Replicas \ {r} : Count(grants, Answering(o)) = 0
  <2> TAKE o \in Replicas \ {r}
  <2>1. \A i \in DOMAIN grants : grants[i].msg.server = r
    BY <1>6, <1>7
  <2>2. \A i \in DOMAIN grants : grants[i] \notin Answering(o)
    BY <2>1 DEF Answering, Pulls
  <2> QED
    BY <2>2, CountNone
<1>14. ASSUME NEW o \in Members(s)
       PROVE  /\ v.pending_pulls[o] <= u.pending_pulls[o]
              /\ v.pending_pulls[o] < u.pending_pulls[o]
                   => v.occupancy[o] + u.pending_pulls[o] <= MaxConcurrency
              /\ u.pending_pulls[o] + Count(v.out, Answering(o))
                   = v.pending_pulls[o] + Count(u.out, Answering(o))
  <2>1. v.pending_pulls[o] \in Nat /\ v.occupancy[o] \in Nat /\ MaxConcurrency \in Nat
    BY <1>1, SidecarAssumption
  <2>2. CASE o = r
    <3>1. u.pending_pulls[o] = v.pending_pulls[o] + n
      BY <1>11, <2>2
    <3>2. Count(u.out, Answering(o)) = Count(v.out, Answering(o)) + n
      BY <1>9, <1>12, <2>2
    <3>3. Count(v.out, Answering(o)) \in Nat
      BY <1>9
    <3>4. n > 0 => v.occupancy[o] + v.pending_pulls[o] + n <= MaxConcurrency
      BY <1>2, <1>4, <2>1, <2>2
    <3> QED
      BY <1>4, <2>1, <3>1, <3>2, <3>3, <3>4
  <2>3. CASE o # r
    <3>1. u.pending_pulls[o] = v.pending_pulls[o]
      BY <1>11, <2>3
    <3>2. o \in Replicas \ {r}
      BY <2>3 DEF Members
    <3>3. Count(u.out, Answering(o)) = Count(v.out, Answering(o)) /\ Count(v.out, Answering(o)) \in Nat
      BY <1>9, <1>13, <3>2
    <3> QED
      BY <2>1, <3>1, <3>3
  <2> QED
    BY <2>2, <2>3
<1>15. ASSUME NEW o \in Replicas \ Members(s)
       PROVE  Count(u.out, Answering(o)) = Count(v.out, Answering(o))
  BY <1>9, <1>13
<1>16. ASSUME NEW c \in Clients, NEW T \in {Answers(s), PullMail}
       PROVE  Count(u.pull_intents, IntentsOf(c)) + Count(u.out, SentTo(c, T))
                = Count(v.pull_intents, IntentsOf(c)) + Count(v.out, SentTo(c, T))
  <2>1. Count(grants, SentTo(c, T)) = Between(q, 1, n, IntentsOf(c))
    <3>1. Agree(grants, SentTo(c, T), q, IntentsOf(c), 1, n)
      <4> SUFFICES ASSUME NEW i \in 1 .. n
                   PROVE  grants[i] \in SentTo(c, T) <=> q[i] \in IntentsOf(c)
        BY DEF Agree
      <4>1. /\ grants[i] \in Sends
            /\ grants[i] = [to |-> ClientBox(q[i].client),
                            msg |-> [kind |-> "pull", server |-> r, target |-> s, task |-> q[i].task]]
            /\ q[i] \in Intents
        BY <1>6
      <4>2. grants[i].msg \in T
        <5>1. grants[i].msg \in PullMail
          BY <4>1 DEF Sends
        <5>2. grants[i].msg \in Answers(s)
          BY <4>1 DEF Answers, Intents, Members
        <5> QED
          BY <5>1, <5>2
      <4>3. grants[i] \in SentTo(c, T) <=> ClientBox(q[i].client) = ClientBox(c)
        BY <4>1, <4>2 DEF SentTo
      <4>4. q[i] \in IntentsOf(c) <=> q[i].client = c
        BY <4>1 DEF IntentsOf, Intents
      <4> QED
        BY <4>3, <4>4, BoxesDiffer
    <3>2. Between(grants, 1, n, SentTo(c, T)) = Between(q, 1, n, IntentsOf(c))
      BY <3>1, BetweenAgree
    <3>3. Count(grants, SentTo(c, T)) = Between(grants, 1, n, SentTo(c, T))
      BY <1>7, CountIsBetween
    <3> QED
      BY <3>2, <3>3
  <2>2. Count(q, IntentsOf(c)) = Between(q, 1, n, IntentsOf(c)) + Count(u.pull_intents, IntentsOf(c))
    BY <1>5, <1>8
  <2>3. Count(u.out, SentTo(c, T)) = Count(v.out, SentTo(c, T)) + Count(grants, SentTo(c, T))
    BY <1>9
  <2>4. /\ Count(v.out, SentTo(c, T)) \in Nat /\ Count(grants, SentTo(c, T)) \in Nat
        /\ Count(u.pull_intents, IntentsOf(c)) \in Nat
    BY <1>5, <1>8, <1>9, CountFinite
  <2> QED
    BY <2>1, <2>2, <2>3, <2>4
<1>17. ASSUME NEW c \in Clients, NEW o \in Sidecars \ {s}
       PROVE  Count(u.out, SentTo(c, Answers(o))) = Count(v.out, SentTo(c, Answers(o)))
  <2>1. \A i \in DOMAIN grants : grants[i].msg.target = s
    BY <1>6, <1>7
  <2>2. \A i \in DOMAIN grants : grants[i] \notin SentTo(c, Answers(o))
    BY <2>1 DEF SentTo, Answers
  <2>3. Count(grants, SentTo(c, Answers(o))) = 0
    BY <2>2, CountNone
  <2> QED
    BY <1>9, <2>3
<1>18. Drained(s, v, u)
  BY <1>5, <1>10, <1>14, <1>15, <1>16, <1>17 DEF Drained
<1>19. ASSUME u.pull_intents # <<>>
       PROVE  v.pull_intents # <<>> /\ FreeSlots(u, r) = 0
  <2>1. Len(u.pull_intents) > 0
    BY <1>5, <1>8, <1>19
  <2>2. n = FreeSlots(v, r) /\ q # <<>>
    BY <1>1, <1>3, <1>4, <1>5, <1>8, <2>1
  <2>3. u.occupancy[r] = v.occupancy[r] /\ u.pending_pulls[r] = v.pending_pulls[r] + n
    BY <1>5, <1>11
  <2>4. v.pending_pulls[r] \in Nat /\ v.occupancy[r] \in Nat /\ MaxConcurrency \in Nat
    BY <1>1, SidecarAssumption
  <2> QED
    BY <1>2, <1>4, <2>2, <2>3, <2>4 DEF FreeSlots, FreeBeside
<1> QED
  BY <1>11, <1>18, <1>19 DEF u

DrainTable(g, v, list) ==
  g = [x \in SUBSET (1 .. Len(list)) |->
         IF x = {} THEN v ELSE DrainCapacity(g[x \ {Max(x)}], list[Max(x)])]

(* Nothing more can be granted to the replicas of P. *)
Spent(u, P) == u.pull_intents # <<>> => \A r \in P : FreeSlots(u, r) = 0

LEMMA DrainIdleDrains ==
  ASSUME config \in [share : Shares, pull_sched : Scheds, scheduling : Schedulings],
         NEW s \in Sidecars, NEW v \in Draining(s)
  PROVE  Drained(s, v, DrainIdle(v, s)) /\ Spent(DrainIdle(v, s), Members(s))
<1> DEFINE list == SidecarReplicas(s, config.share)
           n == Len(list)
           V == {u \in Draining(s) : Drained(s, v, u)}
           F == [x \in V \X (1 .. n) |-> DrainCapacity(x[1], list[x[2]])]
<1>1. ToSet(list) = Members(s) /\ list \in Seq(Members(s))
  BY MembersAre
<1>2. n \in Nat /\ DOMAIN list = 1 .. n /\ \A i \in 1 .. n : list[i] \in Members(s)
  BY <1>1
<1> HIDE DEF list
<1>3. v \in V
  BY DrainedItself
<1>4. ASSUME NEW u \in V, NEW i \in 1 .. n
      PROVE  /\ DrainCapacity(u, list[i]) \in V
             /\ DrainCapacity(u, list[i]).pull_intents # <<>>
                  => /\ u.pull_intents # <<>>
                     /\ FreeSlots(DrainCapacity(u, list[i]), list[i]) = 0
             /\ DrainCapacity(u, list[i]).occupancy = u.occupancy
             /\ \A o \in Members(s) \ {list[i]} :
                  DrainCapacity(u, list[i]).pending_pulls[o] = u.pending_pulls[o]
  <2>1. list[i] \in Members(s) /\ u \in Draining(s) /\ Drained(s, v, u)
    BY <1>2
  <2> DEFINE w == DrainCapacity(u, list[i])
  <2>2. /\ Drained(s, u, w)
        /\ w.pull_intents # <<>> => u.pull_intents # <<>> /\ FreeSlots(w, list[i]) = 0
        /\ \A o \in Members(s) \ {list[i]} : w.pending_pulls[o] = u.pending_pulls[o]
    BY <2>1, DrainCapacityDrains
  <2> HIDE DEF w
  <2>3. w \in Draining(s) /\ w.occupancy = u.occupancy
    BY <2>2 DEF Drained
  <2>4. Drained(s, v, w)
    BY <2>1, <2>2, DrainedFurther
  <2> QED
    BY <2>2, <2>3, <2>4 DEF w
<1>5. \A u \in V : \A i \in 1 .. n : F[<<u, i>>] = DrainCapacity(u, list[i])
  OBVIOUS
<1>6. \A i \in 1 .. n : \A u \in V : F[<<u, i>>] \in V
  BY <1>4, <1>5
<1> HIDE DEF F, V, n
<1>7. \E g : DrainTable(g, v, list)
  <2>1. PICK g : FoldTable(g, n, v, F) /\ \A x \in SUBSET (1 .. n) : g[x] \in V
    BY <1>2, <1>3, <1>6, FoldInside
  <2>2. ASSUME NEW x \in SUBSET (1 .. n)
        PROVE  g[x] = IF x = {} THEN v ELSE DrainCapacity(g[x \ {Max(x)}], list[Max(x)])
    <3>1. CASE x # {}
      <4>1. Max(x) \in 1 .. n
        BY <1>2, <3>1, LastOfSome
      <4>2. x \ {Max(x)} \in SUBSET (1 .. n)
        OBVIOUS
      <4>3. g[x \ {Max(x)}] \in V
        BY <2>1, <4>2
      <4>4. g[x] = F[<<g[x \ {Max(x)}], Max(x)>>]
        BY <2>1, <3>1, Zenon DEF FoldTable
      <4> QED
        BY <1>5, <3>1, <4>1, <4>3, <4>4
    <3>2. CASE x = {}
      BY <2>1, <3>2, Zenon DEF FoldTable
    <3> QED
      BY <3>1, <3>2
  <2>3. DrainTable(g, v, list)
    BY <2>1, <2>2, Zenon DEF DrainTable, FoldTable, n
  <2> QED
    BY <2>3
<1>8. PICK g : DrainTable(g, v, list) /\ DrainIdle(v, s) = g[1 .. n]
  BY <1>2, <1>7, Zenon DEF DrainIdle, FoldLeft, MapThenFoldSet, DrainTable, list, n
<1>9. /\ g[1 .. 0] = v
      /\ \A k \in 1 .. n : g[1 .. k] = DrainCapacity(g[1 .. k - 1], list[k])
  <2>1. 1 .. 0 = {} /\ {} \in SUBSET (1 .. n)
    OBVIOUS
  <2>2. g[1 .. 0] = v
    BY <1>8, <2>1, Zenon DEF DrainTable, n
  <2> SUFFICES ASSUME NEW k \in 1 .. n
               PROVE  g[1 .. k] = DrainCapacity(g[1 .. k - 1], list[k])
    BY <2>2
  <2>3. Max(1 .. k) = k /\ (1 .. k) \ {k} = 1 .. k - 1 /\ 1 .. k # {}
    <3>1. k \in Nat \ {0}
      OBVIOUS
    <3> QED
      BY <3>1, LastPosition
  <2>4. 1 .. k \in SUBSET (1 .. n)
    BY <1>2
  <2> QED
    BY <1>8, <2>3, <2>4, Zenon DEF DrainTable, n
<1> DEFINE P == {k \in 0 .. n : g[1 .. k] \in V /\ Spent(g[1 .. k], {list[i] : i \in 1 .. k})}
<1>11. 0 \in P
  <2>1. 0 \in 0 .. n /\ 1 .. 0 = {}
    BY <1>2
  <2>2. Spent(g[1 .. 0], {list[i] : i \in 1 .. 0})
    BY <2>1 DEF Spent
  <2> QED
    BY <1>3, <1>9, <2>1, <2>2
<1>12. ASSUME NEW k \in 1 .. n, k - 1 \in P
       PROVE  k \in P
  <2>1. k \in 0 .. n /\ \A i \in 1 .. k : (i \in 1 .. k - 1 \/ i = k) /\ i \in 1 .. n
    BY <1>2
  <2> DEFINE u == g[1 .. k - 1]
             w == g[1 .. k]
  <2>3. w = DrainCapacity(u, list[k])
    BY <1>9
  <2>4. u \in V
    BY <1>12
  <2>5. /\ w.pull_intents # <<>> => u.pull_intents # <<>> /\ FreeSlots(w, list[k]) = 0
        /\ w.occupancy = u.occupancy
        /\ \A o \in Members(s) \ {list[k]} : w.pending_pulls[o] = u.pending_pulls[o]
    BY <1>4, <2>3, <2>4
  <2>6. Spent(u, {list[i] : i \in 1 .. k - 1})
    BY <1>12
  <2> HIDE DEF u, w
  <2>7. ASSUME w.pull_intents # <<>>, NEW i \in 1 .. k
        PROVE  FreeSlots(w, list[i]) = 0
    <3>1. CASE list[i] = list[k]
      BY <2>5, <2>7, <3>1
    <3>2. CASE list[i] # list[k]
      <4>1. i \in 1 .. k - 1
        BY <2>1, <3>2
      <4>2. FreeSlots(u, list[i]) = 0
        BY <2>5, <2>6, <2>7, <4>1 DEF Spent
      <4>3. list[i] \in Members(s) \ {list[k]}
        <5>1. i \in 1 .. n
          BY <2>1
        <5> QED
          BY <1>2, <3>2, <5>1
      <4> QED
        BY <2>5, <4>2, <4>3 DEF FreeSlots
    <3> QED
      BY <3>1, <3>2
  <2>8. Spent(w, {list[i] : i \in 1 .. k})
    BY <2>7 DEF Spent
  <2>9. w \in V
    BY <1>4, <2>3, <2>4
  <2> QED
    BY <2>1, <2>8, <2>9 DEF w
<1> HIDE DEF P
<1>13. n \in P
  <2>1. 0 .. n \subseteq P
    BY <1>2, <1>11, <1>12, UpTo
  <2> QED
    BY <1>2, <2>1
<1>14. g[1 .. n] \in V /\ Spent(g[1 .. n], {list[i] : i \in 1 .. n})
  BY <1>13 DEF P
<1>15. {list[i] : i \in 1 .. n} = Members(s)
  BY <1>1, <1>2 DEF ToSet
<1> QED
  BY <1>8, <1>14, <1>15 DEF V

-----------------------------------------------------------------------------
(***************************************************************************)
(* What a sidecar has still to hear of one of its replicas, r: b is the    *)
(* sidecar's mailbox, occ what it believes the occupancy of r to be, n the *)
(* pulled calls r is serving, level its occupancy, pushed what was         *)
(* forwarded to it and is under way.                                       *)
(***************************************************************************)

(* An arrival is followed at once by a report. *)
Paired(b, r) ==
  \A i \in DOMAIN b : b[i] \in Arrivals(r) => i + 1 \in DOMAIN b /\ b[i + 1] \in Reports(r)

(* A report and the arrivals after it count every pulled call in service. *)
Covers(b, r, n) ==
  \A i \in DOMAIN b : b[i] \in Reports(r) => n <= b[i].level + After(b, i, Arrivals(r))

(* So do the occupancy and the arrivals, or a report is next. *)
Known(b, r, occ, n) ==
  (b # <<>> /\ Head(b) \in Reports(r)) \/ n <= occ + Count(b, Arrivals(r))

(* The last report is the replica's state; after it the occupancy is. *)
Latest(b, r, occ, level, pushed) ==
  /\ \A i \in DOMAIN b : b[i] \in Reports(r) /\ After(b, i, Reports(r)) = 0 => b[i].level = level
  /\ Count(b, Reports(r)) = 0 /\ pushed = 0 => occ = level

Heard(b, r, occ, n, level, pushed) ==
  /\ Paired(b, r) /\ Covers(b, r, n) /\ Known(b, r, occ, n)
  /\ Latest(b, r, occ, level, pushed)

Foreign(m, r) == m \notin Arrivals(r) /\ m \notin Reports(r)

LEMMA Apart ==
  ASSUME NEW r, NEW m
  PROVE  /\ m \in Reports(r) => m \notin Arrivals(r) /\ m.level \in Nat
         /\ m \in Arrivals(r) => m \notin Reports(r)
BY DEF Arrivals, Reports

(* Messages about something else are added. *)
LEMMA HeardMore ==
  ASSUME NEW M, NEW b \in Seq(M), NEW e \in Seq(M), NEW r,
         \A i \in DOMAIN e : Foreign(e[i], r), NEW occ, NEW n, NEW level, NEW pushed,
         Heard(b, r, occ, n, level, pushed)
  PROVE  Heard(b \o e, r, occ, n, level, pushed)
<1> DEFINE p == b \o e
           k == Len(b)
           l == Len(e)
<1>1. /\ p \in Seq(M) /\ Len(p) = k + l
      /\ \A i \in 1 .. k + l : p[i] = IF i <= k THEN b[i] ELSE e[i - k]
      /\ k \in Nat /\ l \in Nat /\ DOMAIN b = 1 .. k /\ DOMAIN e = 1 .. l /\ DOMAIN p = 1 .. k + l
  BY ConcatProperties
<1>2. Count(e, Arrivals(r)) = 0 /\ Count(e, Reports(r)) = 0
  BY CountNone DEF Foreign
<1>3. \A i \in DOMAIN b : /\ After(p, i, Arrivals(r)) = After(b, i, Arrivals(r))
                          /\ After(p, i, Reports(r)) = After(b, i, Reports(r))
  <2> TAKE i \in DOMAIN b
  <2>1. \A T : /\ After(p, i, T) = After(b, i, T) + Count(e, T)
               /\ After(b, i, T) \in Nat
    BY AfterConcat
  <2> HIDE DEF p
  <2> QED
    BY <1>2, <2>1
<1>4. /\ Count(p, Arrivals(r)) = Count(b, Arrivals(r))
      /\ Count(p, Reports(r)) = Count(b, Reports(r))
  <2>1. \A T : Count(p, T) = Count(b, T) + Count(e, T) /\ Count(b, T) \in Nat
    BY CountConcat, CountFinite
  <2> HIDE DEF p
  <2> QED
    BY <1>2, <2>1
<1> HIDE DEF p, k, l
<1>5. \A i \in DOMAIN b : i \in DOMAIN p /\ p[i] = b[i]
  BY <1>1
<1>6. \A i \in DOMAIN p : i \in DOMAIN b \/ Foreign(p[i], r)
  <2> TAKE i \in DOMAIN p
  <2>1. CASE i <= k
    BY <1>1, <2>1
  <2>2. CASE i > k
    <3>1. i - k \in DOMAIN e /\ ~(i <= k)
      BY <1>1, <2>2
    <3> QED
      BY <1>1, <3>1
  <2> QED
    BY <1>1, <2>1, <2>2
<1>7. Paired(p, r)
  BY <1>5, <1>6 DEF Heard, Paired, Foreign
<1>8. Covers(p, r, n)
  BY <1>3, <1>5, <1>6 DEF Heard, Covers, Foreign
<1>9. Known(p, r, occ, n)
  <2>1. b # <<>> => p # <<>> /\ Head(p) = Head(b)
    <3> SUFFICES ASSUME b # <<>> PROVE p # <<>> /\ Head(p) = Head(b)
      OBVIOUS
    <3>1. Head(b) = b[1] /\ 1 \in DOMAIN b
      BY PopFront
    <3>2. p # <<>>
      BY <1>5, <3>1
    <3>3. Head(p) = p[1]
      BY <1>1, <3>2, PopFront
    <3> QED
      BY <1>5, <3>1, <3>2, <3>3
  <2> QED
    BY <1>4, <2>1 DEF Heard, Known
<1>10. Latest(p, r, occ, level, pushed)
  BY <1>3, <1>4, <1>5, <1>6 DEF Heard, Latest, Foreign
<1> QED
  BY <1>7, <1>8, <1>9, <1>10 DEF Heard, p

LEMMA HeardForeign ==
  ASSUME NEW M, NEW b \in Seq(M), NEW m \in M, NEW r, Foreign(m, r),
         NEW occ, NEW n, NEW level, NEW pushed, Heard(b, r, occ, n, level, pushed)
  PROVE  Heard(Append(b, m), r, occ, n, level, pushed)
<1>1. <<m>> \in Seq(M) /\ \A i \in DOMAIN <<m>> : Foreign(<<m>>[i], r)
  OBVIOUS
<1>2. Append(b, m) = b \o <<m>>
  BY AppendIsConcat
<1> QED
  BY <1>1, <1>2, HeardMore

(* A task was forwarded. *)
LEMMA HeardForwarded ==
  ASSUME NEW M, NEW b \in Seq(M), NEW r,
         NEW occ \in Nat, NEW o \in Nat, NEW n \in Nat, NEW level \in Nat, NEW pushed,
         NEW more \in Nat, Heard(b, r, occ, n, level, pushed), o >= occ, more > 0
  PROVE  Heard(b, r, o, n, level, more)
<1>1. Count(b, Arrivals(r)) \in Nat
  BY CountFinite
<1>2. Known(b, r, o, n)
  BY <1>1 DEF Heard, Known
<1> QED
  BY <1>2 DEF Heard, Latest

(* r reports its level, after any number of calls ended. *)
LEMMA HeardReport ==
  ASSUME NEW M, NEW b \in Seq(M), NEW m \in M, NEW r, m \in Reports(r),
         NEW occ \in Nat, NEW n \in Nat, NEW level, NEW pushed,
         Heard(b, r, occ, n, level, pushed),
         NEW now \in Nat, now <= n, now <= m.level, NEW more
  PROVE  Heard(Append(b, m), r, occ, now, m.level, more)
<1> DEFINE p == Append(b, m)
           k == Len(b) + 1
<1>1. /\ DOMAIN p = 1 .. k /\ DOMAIN b = 1 .. Len(b) /\ Len(b) \in Nat
      /\ \A i \in DOMAIN b : p[i] = b[i]
      /\ p[k] = m /\ p # <<>>
  BY PushBack
<1>2. m \notin Arrivals(r) /\ m.level \in Nat
  BY Apart
<1>3. /\ \A i \in DOMAIN b : /\ After(p, i, Arrivals(r)) = After(b, i, Arrivals(r))
                             /\ After(b, i, Arrivals(r)) \in Nat
                             /\ After(p, i, Reports(r)) = After(b, i, Reports(r)) + 1
                             /\ After(b, i, Reports(r)) \in Nat
      /\ After(p, k, Arrivals(r)) = 0
  BY <1>2, AfterPush
<1>4. /\ Count(p, Arrivals(r)) = Count(b, Arrivals(r)) /\ Count(b, Arrivals(r)) \in Nat
      /\ Count(p, Reports(r)) = Count(b, Reports(r)) + 1 /\ Count(b, Reports(r)) \in Nat
  <2>1. Count(b, Arrivals(r)) \in Nat /\ Count(b, Reports(r)) \in Nat
    BY CountFinite
  <2> QED
    BY <1>2, <2>1, CountPushBack
<1>5. \A i \in DOMAIN p : i \in DOMAIN b \/ i = k
  BY <1>1
<1>6. \A i \in DOMAIN b : i \in DOMAIN p
  BY <1>1
<1> HIDE DEF p, k
<1>7. Paired(p, r)
  BY <1>1, <1>2, <1>5, <1>6 DEF Heard, Paired
<1>8. Covers(p, r, now)
  <2> SUFFICES ASSUME NEW i \in DOMAIN p, p[i] \in Reports(r)
               PROVE  now <= p[i].level + After(p, i, Arrivals(r))
    BY DEF Covers
  <2>1. CASE i \in DOMAIN b
    <3>1. n <= b[i].level + After(b, i, Arrivals(r)) /\ p[i] = b[i]
      BY <1>1, <2>1 DEF Heard, Covers
    <3>2. p[i].level \in Nat
      BY Apart
    <3> QED
      BY <1>3, <2>1, <3>1, <3>2
  <2>2. CASE i = k
    BY <1>1, <1>2, <1>3, <2>2
  <2> QED
    BY <1>5, <2>1, <2>2
<1>9. Known(p, r, occ, now)
  <2>1. CASE b = <<>>
    <3>1. Head(p) = m
      BY <2>1 DEF p
    <3> QED
      BY <1>1, <3>1 DEF Known
  <2>2. CASE b # <<>>
    <3>1. Head(p) = Head(b)
      <4>1. Head(b) = b[1] /\ 1 \in DOMAIN b
        BY <2>2, PopFront
      <4>2. Head(p) = p[1]
        BY <1>1 DEF p
      <4> QED
        BY <1>1, <4>1, <4>2
    <3> QED
      BY <1>1, <1>4, <2>2, <3>1 DEF Heard, Known
  <2> QED
    BY <2>1, <2>2
<1>10. Latest(p, r, occ, m.level, more)
  BY <1>1, <1>3, <1>4, <1>5 DEF Latest
<1> QED
  BY <1>7, <1>8, <1>9, <1>10 DEF Heard, p

(* r announces the arrival of a pulled call and reports its level. *)
LEMMA HeardArrival ==
  ASSUME NEW M, NEW b \in Seq(M), NEW a \in M, NEW m \in M, NEW r,
         a \in Arrivals(r), m \in Reports(r),
         NEW occ \in Nat, NEW n \in Nat, NEW level, NEW pushed,
         Heard(b, r, occ, n, level, pushed),
         NEW now \in Nat, now <= n + 1, now <= m.level, NEW more
  PROVE  Heard(Append(Append(b, a), m), r, occ, now, m.level, more)
<1> DEFINE q == Append(b, a)
           p == Append(q, m)
           k == Len(b) + 1
<1>1. /\ q \in Seq(M) /\ DOMAIN q = 1 .. k /\ DOMAIN b = 1 .. Len(b) /\ Len(b) \in Nat
      /\ \A i \in DOMAIN b : q[i] = b[i]
      /\ q[k] = a /\ q # <<>> /\ Len(q) = k
  BY PushBack
<1> HIDE DEF q
<1>2. /\ DOMAIN p = 1 .. k + 1
      /\ \A i \in DOMAIN q : p[i] = q[i]
      /\ p[k + 1] = m /\ p # <<>>
  BY <1>1, PushBack
<1>3. m \notin Arrivals(r) /\ m.level \in Nat /\ a \notin Reports(r)
  BY Apart
<1>4. /\ \A i \in DOMAIN b : /\ After(b, i, Arrivals(r)) \in Nat /\ After(b, i, Reports(r)) \in Nat
                             /\ After(q, i, Arrivals(r)) = After(b, i, Arrivals(r)) + 1
                             /\ After(q, i, Reports(r)) = After(b, i, Reports(r))
      /\ After(q, k, Reports(r)) = 0
  BY <1>3, AfterPush DEF q
<1>5. /\ \A i \in DOMAIN q : /\ After(p, i, Arrivals(r)) = After(q, i, Arrivals(r))
                             /\ After(q, i, Reports(r)) \in Nat
                             /\ After(q, i, Arrivals(r)) \in Nat
                             /\ After(p, i, Reports(r)) = After(q, i, Reports(r)) + 1
      /\ After(p, k + 1, Arrivals(r)) = 0
  BY <1>1, <1>3, AfterPush
<1>6. /\ Count(p, Arrivals(r)) = Count(b, Arrivals(r)) + 1 /\ Count(b, Arrivals(r)) \in Nat
      /\ Count(p, Reports(r)) = Count(b, Reports(r)) + 1 /\ Count(b, Reports(r)) \in Nat
  <2>1. Count(b, Arrivals(r)) \in Nat /\ Count(b, Reports(r)) \in Nat
    BY CountFinite
  <2>2. /\ Count(q, Arrivals(r)) = Count(b, Arrivals(r)) + 1
        /\ Count(q, Reports(r)) = Count(b, Reports(r))
    BY <1>3, <2>1, CountPushBack DEF q
  <2> QED
    BY <1>1, <1>3, <2>1, <2>2, CountPushBack
<1>7. \A i \in DOMAIN p : i \in DOMAIN b \/ i = k \/ i = k + 1
  BY <1>1, <1>2
<1>8. /\ \A i \in DOMAIN b : i \in DOMAIN p /\ i \in DOMAIN q
      /\ k \in DOMAIN q /\ k + 1 \in DOMAIN p
  BY <1>1, <1>2
<1> HIDE DEF p, k
<1>9. Paired(p, r)
  <2> SUFFICES ASSUME NEW i \in DOMAIN p, p[i] \in Arrivals(r)
               PROVE  i + 1 \in DOMAIN p /\ p[i + 1] \in Reports(r)
    BY DEF Paired
  <2>1. CASE i \in DOMAIN b
    BY <1>1, <1>2, <1>8, <2>1 DEF Heard, Paired
  <2>2. CASE i = k
    BY <1>2, <1>8, <2>2
  <2>3. CASE i = k + 1
    BY <1>2, <1>3, <2>3
  <2> QED
    BY <1>7, <2>1, <2>2, <2>3
<1>10. Covers(p, r, now)
  <2> SUFFICES ASSUME NEW i \in DOMAIN p, p[i] \in Reports(r)
               PROVE  now <= p[i].level + After(p, i, Arrivals(r))
    BY DEF Covers
  <2>0. p[i].level \in Nat
    BY Apart
  <2>1. CASE i \in DOMAIN b
    <3>1. n <= b[i].level + After(b, i, Arrivals(r)) /\ p[i] = b[i]
      BY <1>1, <1>2, <1>8, <2>1 DEF Heard, Covers
    <3>2. After(p, i, Arrivals(r)) = After(b, i, Arrivals(r)) + 1 /\ After(b, i, Arrivals(r)) \in Nat
      BY <1>4, <1>5, <1>8, <2>1
    <3> QED
      BY <2>0, <3>1, <3>2
  <2>2. CASE i = k
    BY <1>1, <1>2, <1>3, <1>8, <2>2
  <2>3. CASE i = k + 1
    BY <1>2, <1>3, <1>5, <2>3
  <2> QED
    BY <1>7, <2>1, <2>2, <2>3
<1>11. Known(p, r, occ, now)
  <2>1. CASE b = <<>>
    <3>1. n <= occ + Count(b, Arrivals(r))
      BY <2>1 DEF Heard, Known
    <3> QED
      BY <1>6, <3>1 DEF Known
  <2>2. CASE b # <<>>
    <3>1. Head(p) = Head(b)
      <4>1. Head(b) = b[1] /\ 1 \in DOMAIN b
        BY <2>2, PopFront
      <4>2. Head(p) = p[1]
        BY <1>2 DEF p
      <4> QED
        BY <1>1, <1>2, <1>8, <4>1, <4>2
    <3> QED
      BY <1>2, <1>6, <2>2, <3>1 DEF Heard, Known
  <2> QED
    BY <2>1, <2>2
<1>12. Latest(p, r, occ, m.level, more)
  <2> SUFFICES ASSUME NEW i \in DOMAIN p, p[i] \in Reports(r), After(p, i, Reports(r)) = 0
               PROVE  p[i].level = m.level
    BY <1>6 DEF Latest
  <2>1. i \notin DOMAIN q
    BY <1>5
  <2>2. i = k + 1
    BY <1>7, <1>8, <2>1
  <2> QED
    BY <1>2, <2>2
<1> QED
  BY <1>9, <1>10, <1>11, <1>12 DEF Heard, p, q

(***************************************************************************)
(* The sidecar takes the first message: o is what it now believes, and     *)
(* unless a report comes next that counts the pulled calls in service.     *)
(***************************************************************************)
LEMMA HeardNext ==
  ASSUME NEW M, NEW b \in Seq(M), b # <<>>, NEW r,
         NEW occ \in Nat, NEW n \in Nat, NEW level \in Nat, NEW pushed,
         Heard(b, r, occ, n, level, pushed),
         NEW o, o = IF Head(b) \in Reports(r) THEN Head(b).level ELSE occ
  PROVE  /\ Heard(Tail(b), r, o, n, level, pushed)
         /\ Head(b) \in Arrivals(r) => Tail(b) # <<>> /\ Head(Tail(b)) \in Reports(r)
         /\ Head(b) \notin Arrivals(r) => n <= o + Count(Tail(b), Arrivals(r))
         /\ o \in Nat
<1> DEFINE p == Tail(b)
           h == Head(b)
<1>1. /\ p \in Seq(M) /\ h = b[1] /\ 1 \in DOMAIN b
      /\ \A i \in DOMAIN p : i + 1 \in DOMAIN b /\ p[i] = b[i + 1]
      /\ DOMAIN p = 1 .. Len(b) - 1 /\ DOMAIN b = 1 .. Len(b) /\ Len(b) \in Nat
  BY PopFront
<1>2. /\ \A i \in DOMAIN p : /\ After(p, i, Arrivals(r)) = After(b, i + 1, Arrivals(r))
                             /\ After(p, i, Reports(r)) = After(b, i + 1, Reports(r))
      /\ After(b, 1, Arrivals(r)) = Count(p, Arrivals(r))
      /\ After(b, 1, Reports(r)) = Count(p, Reports(r))
  BY AfterPop
<1>3. /\ Count(b, Arrivals(r)) = Count(p, Arrivals(r)) + IF h \in Arrivals(r) THEN 1 ELSE 0
      /\ Count(b, Reports(r)) = Count(p, Reports(r)) + IF h \in Reports(r) THEN 1 ELSE 0
      /\ Count(p, Arrivals(r)) \in Nat /\ Count(p, Reports(r)) \in Nat
  BY <1>1, CountPopFront, CountFinite
<1>4. o \in Nat
  BY Apart
<1>5. p # <<>> => Head(p) = p[1] /\ 1 \in DOMAIN p
  BY <1>1, PopFront
<1> HIDE DEF p, h
<1>6. h \in Arrivals(r) => p # <<>> /\ Head(p) \in Reports(r)
  <2> SUFFICES ASSUME h \in Arrivals(r) PROVE p # <<>> /\ Head(p) \in Reports(r)
    OBVIOUS
  <2>1. 1 + 1 \in DOMAIN b /\ b[1 + 1] \in Reports(r)
    BY <1>1 DEF Heard, Paired
  <2>2. 1 \in DOMAIN p
    BY <1>1, <2>1
  <2>3. p # <<>>
    BY <2>2
  <2> QED
    BY <1>1, <1>5, <2>1, <2>2, <2>3
<1>7. h \notin Arrivals(r) => n <= o + Count(p, Arrivals(r))
  <2>1. CASE h \in Reports(r)
    <3>1. n <= h.level + After(b, 1, Arrivals(r))
      BY <1>1, <2>1 DEF Heard, Covers
    <3> QED
      BY <1>2, <2>1, <3>1 DEF h
  <2>2. CASE h \notin Reports(r) /\ h \notin Arrivals(r)
    <3>1. n <= occ + Count(b, Arrivals(r))
      BY <2>2 DEF Heard, Known, h
    <3> QED
      BY <1>3, <2>2, <3>1 DEF h
  <2> QED
    BY <2>1, <2>2
<1>8. Paired(p, r)
  <2> SUFFICES ASSUME NEW i \in DOMAIN p, p[i] \in Arrivals(r)
               PROVE  i + 1 \in DOMAIN p /\ p[i + 1] \in Reports(r)
    BY DEF Paired
  <2>1. (i + 1) + 1 \in DOMAIN b /\ b[(i + 1) + 1] \in Reports(r)
    BY <1>1 DEF Heard, Paired
  <2>2. i + 1 \in DOMAIN p
    BY <1>1, <2>1
  <2> QED
    BY <1>1, <2>1, <2>2
<1>9. Covers(p, r, n)
  BY <1>1, <1>2 DEF Heard, Covers
<1>10. Known(p, r, o, n)
  BY <1>6, <1>7 DEF Known
<1>11. Latest(p, r, o, level, pushed)
  <2>1. \A i \in DOMAIN p : p[i] \in Reports(r) /\ After(p, i, Reports(r)) = 0 => p[i].level = level
    BY <1>1, <1>2 DEF Heard, Latest
  <2>2. ASSUME Count(p, Reports(r)) = 0, pushed = 0
        PROVE  o = level
    <3>1. CASE h \in Reports(r)
      <4>1. h.level = level
        BY <1>1, <1>2, <2>2, <3>1 DEF Heard, Latest
      <4> QED
        BY <3>1, <4>1 DEF h
    <3>2. CASE h \notin Reports(r)
      BY <1>3, <2>2, <3>2 DEF Heard, Latest, h
    <3> QED
      BY <3>1, <3>2
  <2> QED
    BY <2>1, <2>2 DEF Latest
<1> QED
  BY <1>4, <1>6, <1>7, <1>8, <1>9, <1>10, <1>11 DEF Heard, p, h

-----------------------------------------------------------------------------
(* What a replica's handlers do *)

Working(r) ==
  [queue : Seq(PlainWork), in_flight : Nat, serving : SUBSET Work, calling : SUBSET Nested,
   done : SUBSET Tasks, events : Seq(EventMail(r)), released : Nat]

(* How often q is with a replica whose mailbox is b *)
InHand(v, b, q) ==
  Count(b, HopOf(q)) + Count(v.queue, HopOf(q)) + Cardinality(v.serving \cap HopOf(q))
  + OneIf(q \in v.calling) + OneIf(q \in v.done)

Counted(r, b, v) ==
  /\ b \in Seq(Work) /\ v \in Working(r)
  /\ IsFiniteSet(v.serving) /\ Cardinality(v.serving) = v.in_flight

(* Every task at most once; the handler holds h besides. *)
Sane(r, b, v) == Counted(r, b, v) /\ \A q \in Tasks : InHand(v, b, q) <= 1

Carrying(r, b, v, h) ==
  /\ Counted(r, b, v) /\ h \in Work
  /\ \A q \in Tasks : InHand(v, b, q) + OneIf(h.task = q) <= 1

SameTasks(b, v, c, u) == \A q \in Tasks : InHand(u, c, q) = InHand(v, b, q)

TakesOut(b, v, c, u, h) == \A q \in Tasks : InHand(v, b, q) = InHand(u, c, q) + OneIf(h.task = q)

LEMMA HopIs ==
  ASSUME NEW h \in Work, NEW q \in Tasks
  PROVE  h \in HopOf(q) <=> h.task = q
BY DEF Work, HopOf

LEMMA InHandParts ==
  ASSUME NEW r, NEW b, NEW v, Counted(r, b, v), NEW q
  PROVE  /\ Count(b, HopOf(q)) \in Nat /\ Count(v.queue, HopOf(q)) \in Nat
         /\ Cardinality(v.serving \cap HopOf(q)) \in Nat
         /\ OneIf(q \in v.calling) \in {0, 1} /\ OneIf(q \in v.done) \in {0, 1}
         /\ InHand(v, b, q) \in Nat
<1>1. /\ b \in Seq(Work) /\ v.queue \in Seq(PlainWork) /\ IsFiniteSet(v.serving)
  BY DEF Counted, Working
<1>2. /\ Count(b, HopOf(q)) \in Nat /\ Count(v.queue, HopOf(q)) \in Nat
      /\ Cardinality(v.serving \cap HopOf(q)) \in Nat
  BY <1>1, CountFinite, SetPart
<1>3. OneIf(q \in v.calling) \in {0, 1} /\ OneIf(q \in v.done) \in {0, 1}
  BY DEF OneIf
<1> QED
  BY <1>2, <1>3 DEF InHand

(* What is taken out is held. *)
LEMMA Takes ==
  ASSUME NEW r, NEW b, NEW v, Sane(r, b, v), NEW c, NEW u, Counted(r, c, u),
         NEW h \in Work, TakesOut(b, v, c, u, h)
  PROVE  Carrying(r, c, u, h)
BY DEF Carrying, Sane, TakesOut

(* What is put in is as it was. *)
LEMMA Puts ==
  ASSUME NEW r, NEW b, NEW v, NEW h, Carrying(r, b, v, h), NEW c, NEW u, Counted(r, c, u),
         TakesOut(c, u, b, v, h)
  PROVE  Sane(r, c, u)
<1>1. \A q \in Tasks : /\ InHand(v, b, q) + OneIf(h.task = q) <= 1
                       /\ InHand(u, c, q) = InHand(v, b, q) + OneIf(h.task = q)
  BY DEF Carrying, TakesOut
<1> QED
  BY <1>1 DEF Sane

LEMMA TakeMail ==
  ASSUME NEW r, NEW b, NEW v, Sane(r, b, v), b # <<>>
  PROVE  /\ Carrying(r, Tail(b), v, Head(b))
         /\ TakesOut(b, v, Tail(b), v, Head(b))
<1>1. b \in Seq(Work) /\ Counted(r, b, v)
  BY DEF Sane, Counted
<1>2. Tail(b) \in Seq(Work) /\ Head(b) \in Work
  BY <1>1, PopFront
<1>3. Counted(r, Tail(b), v)
  BY <1>1, <1>2 DEF Counted
<1>4. ASSUME NEW q \in Tasks
      PROVE  InHand(v, b, q) = InHand(v, Tail(b), q) + OneIf(Head(b).task = q)
  <2>1. Count(b, HopOf(q)) = Count(Tail(b), HopOf(q)) + OneIf(Head(b).task = q)
    <3>1. Count(b, HopOf(q)) = Count(Tail(b), HopOf(q)) + IF Head(b) \in HopOf(q) THEN 1 ELSE 0
      BY <1>1, CountPopFront
    <3>2. Head(b) \in HopOf(q) <=> Head(b).task = q
      BY <1>2, HopIs
    <3> QED
      BY <3>1, <3>2 DEF OneIf
  <2>2. /\ Count(Tail(b), HopOf(q)) \in Nat /\ Count(v.queue, HopOf(q)) \in Nat
        /\ Cardinality(v.serving \cap HopOf(q)) \in Nat
        /\ OneIf(q \in v.calling) \in {0, 1} /\ OneIf(q \in v.done) \in {0, 1}
    BY <1>3, InHandParts
  <2>3. OneIf(Head(b).task = q) \in {0, 1}
    BY DEF OneIf
  <2> QED
    BY <2>1, <2>2, <2>3 DEF InHand
<1>5. TakesOut(b, v, Tail(b), v, Head(b))
  BY <1>4 DEF TakesOut
<1> QED
  BY <1>2, <1>3, <1>5, Takes

LEMMA TakeQueued ==
  ASSUME NEW r, NEW b, NEW v, Sane(r, b, v), v.queue # <<>>,
         NEW u, u = [v EXCEPT !.queue = Tail(@)]
  PROVE  /\ Carrying(r, b, u, Head(v.queue)) /\ ~Head(v.queue).slot
         /\ TakesOut(b, v, b, u, Head(v.queue))
<1>1. /\ Counted(r, b, v) /\ v.queue \in Seq(PlainWork)
  BY DEF Sane, Counted, Working
<1>2. Tail(v.queue) \in Seq(PlainWork) /\ Head(v.queue) \in PlainWork
  BY <1>1, PopFront
<1>3. u.queue = Tail(v.queue) /\ u.serving = v.serving /\ u.calling = v.calling /\ u.done = v.done
  BY <1>1 DEF Counted, Working
<1>4. Counted(r, b, u)
  BY <1>1, <1>2 DEF Counted, Working
<1>5. Head(v.queue) \in Work /\ ~Head(v.queue).slot
  BY <1>2 DEF PlainWork, Work
<1>6. ASSUME NEW q \in Tasks
      PROVE  InHand(v, b, q) = InHand(u, b, q) + OneIf(Head(v.queue).task = q)
  <2>1. Count(v.queue, HopOf(q)) = Count(u.queue, HopOf(q)) + OneIf(Head(v.queue).task = q)
    <3>1. Count(v.queue, HopOf(q)) = Count(u.queue, HopOf(q)) + IF Head(v.queue) \in HopOf(q) THEN 1 ELSE 0
      BY <1>1, <1>3, CountPopFront
    <3>2. Head(v.queue) \in HopOf(q) <=> Head(v.queue).task = q
      BY <1>5, HopIs
    <3> QED
      BY <3>1, <3>2 DEF OneIf
  <2>2. /\ Count(b, HopOf(q)) \in Nat /\ Count(u.queue, HopOf(q)) \in Nat
        /\ Cardinality(u.serving \cap HopOf(q)) \in Nat
        /\ OneIf(q \in u.calling) \in {0, 1} /\ OneIf(q \in u.done) \in {0, 1}
    BY <1>4, InHandParts
  <2>3. OneIf(Head(v.queue).task = q) \in {0, 1}
    BY DEF OneIf
  <2> QED
    BY <1>3, <2>1, <2>2, <2>3 DEF InHand
<1>7. TakesOut(b, v, b, u, Head(v.queue))
  BY <1>6 DEF TakesOut
<1> QED
  BY <1>4, <1>5, <1>7, Takes

LEMMA TakeServed ==
  ASSUME NEW r, NEW b, NEW v, Sane(r, b, v), NEW h \in v.serving,
         NEW u, u = [v EXCEPT !.in_flight = @ - 1, !.serving = @ \ {h}]
  PROVE  /\ Carrying(r, b, u, h)
         /\ TakesOut(b, v, b, u, h)
         /\ v.in_flight = u.in_flight + 1
<1>1. Counted(r, b, v) /\ h \in Work /\ IsFiniteSet(v.serving) /\ Cardinality(v.serving) = v.in_flight
  BY DEF Sane, Counted, Working
<1>2. IsFiniteSet(v.serving \ {h}) /\ Cardinality(v.serving) = Cardinality(v.serving \ {h}) + 1
  BY <1>1, SetDrop
<1>3. Cardinality(v.serving \ {h}) \in Nat
  BY <1>2, FS_CardinalityType
<1>4. /\ u.queue = v.queue /\ u.serving = v.serving \ {h} /\ u.calling = v.calling /\ u.done = v.done
      /\ u.in_flight = v.in_flight - 1
  BY <1>1 DEF Counted, Working
<1>5. u.in_flight = Cardinality(u.serving) /\ v.in_flight = u.in_flight + 1
  BY <1>1, <1>2, <1>3, <1>4
<1>6. u \in Working(r)
  <2>1. v \in Working(r) /\ u.in_flight \in Nat
    BY <1>1, <1>3, <1>4, <1>5 DEF Counted
  <2> QED
    BY <2>1, <1>4 DEF Working
<1>7. Counted(r, b, u)
  BY <1>1, <1>2, <1>4, <1>5, <1>6 DEF Counted
<1>8. ASSUME NEW q \in Tasks
      PROVE  InHand(v, b, q) = InHand(u, b, q) + OneIf(h.task = q)
  <2>1. Cardinality(v.serving \cap HopOf(q)) = Cardinality(u.serving \cap HopOf(q)) + OneIf(h.task = q)
    <3>1. Cardinality(v.serving \cap HopOf(q)) = Cardinality(u.serving \cap HopOf(q)) + OneIf(h \in HopOf(q))
      <4>1. \A T : Cardinality(v.serving \cap T) = Cardinality((v.serving \ {h}) \cap T) + OneIf(h \in T)
        BY <1>1, SetDrop
      <4> QED
        BY <1>4, <4>1
    <3>2. h \in HopOf(q) <=> h.task = q
      BY <1>1, HopIs
    <3> QED
      BY <3>1, <3>2 DEF OneIf
  <2>2. /\ Count(b, HopOf(q)) \in Nat /\ Count(u.queue, HopOf(q)) \in Nat
        /\ Cardinality(u.serving \cap HopOf(q)) \in Nat
        /\ OneIf(q \in u.calling) \in {0, 1} /\ OneIf(q \in u.done) \in {0, 1}
    BY <1>7, InHandParts
  <2>3. OneIf(h.task = q) \in {0, 1}
    BY DEF OneIf
  <2> QED
    BY <1>4, <2>1, <2>2, <2>3 DEF InHand
<1>9. TakesOut(b, v, b, u, h)
  BY <1>8 DEF TakesOut
<1> QED
  BY <1>1, <1>5, <1>7, <1>9, Takes

LEMMA PutServed ==
  ASSUME NEW r, NEW b, NEW v, NEW h, Carrying(r, b, v, h), NEW u, u = BeginService(v, h)
  PROVE  /\ Sane(r, b, u) /\ TakesOut(b, u, b, v, h) /\ h \notin v.serving
         /\ u.in_flight = v.in_flight + 1 /\ u.serving = v.serving \cup {h}
<1>1. Counted(r, b, v) /\ h \in Work /\ IsFiniteSet(v.serving) /\ Cardinality(v.serving) = v.in_flight
  BY DEF Carrying, Counted, Working
<1>2. h.task \in Tasks /\ h \in HopOf(h.task)
  BY <1>1 DEF Work, HopOf
<1>3. h \notin v.serving
  <2>1. /\ Count(b, HopOf(h.task)) \in Nat /\ Count(v.queue, HopOf(h.task)) \in Nat
        /\ Cardinality(v.serving \cap HopOf(h.task)) \in Nat
        /\ OneIf(h.task \in v.calling) \in {0, 1} /\ OneIf(h.task \in v.done) \in {0, 1}
    BY <1>1, InHandParts
  <2>2. InHand(v, b, h.task) + 1 <= 1
    BY <1>2 DEF Carrying, OneIf
  <2>3. Cardinality(v.serving \cap HopOf(h.task)) = 0
    BY <2>1, <2>2 DEF InHand
  <2>4. v.serving \cap HopOf(h.task) = {}
    BY <1>1, <2>3, FS_Intersection, FS_EmptySet
  <2> QED
    BY <1>2, <2>4
<1>4. /\ u.queue = v.queue /\ u.serving = v.serving \cup {h} /\ u.calling = v.calling
      /\ u.done = v.done /\ u.in_flight = v.in_flight + 1
  BY <1>1 DEF Counted, Working, BeginService
<1>5. IsFiniteSet(u.serving) /\ Cardinality(u.serving) = u.in_flight
  BY <1>1, <1>3, <1>4, SetAdd
<1>6. u \in Working(r)
  <2>1. v \in Working(r) /\ u.serving \subseteq Work /\ u.in_flight \in Nat
    BY <1>1, <1>4 DEF Counted, Working
  <2>2. u = [v EXCEPT !.in_flight = v.in_flight + 1, !.serving = v.serving \cup {h}]
    BY DEF BeginService
  <2> QED
    BY <1>4, <2>1, <2>2 DEF Working
<1>7. Counted(r, b, u)
  BY <1>1, <1>5, <1>6 DEF Counted
<1>8. ASSUME NEW q \in Tasks
      PROVE  InHand(u, b, q) = InHand(v, b, q) + OneIf(h.task = q)
  <2>1. Cardinality(u.serving \cap HopOf(q)) = Cardinality(v.serving \cap HopOf(q)) + OneIf(h.task = q)
    <3>1. Cardinality(u.serving \cap HopOf(q)) = Cardinality(v.serving \cap HopOf(q)) + OneIf(h \in HopOf(q))
      <4>1. \A T : Cardinality((v.serving \cup {h}) \cap T) = Cardinality(v.serving \cap T) + OneIf(h \in T)
        BY <1>1, <1>3, SetAdd
      <4> QED
        BY <1>4, <4>1
    <3>2. h \in HopOf(q) <=> h.task = q
      BY <1>1, HopIs
    <3> QED
      BY <3>1, <3>2 DEF OneIf
  <2>2. /\ Count(b, HopOf(q)) \in Nat /\ Count(v.queue, HopOf(q)) \in Nat
        /\ Cardinality(v.serving \cap HopOf(q)) \in Nat
        /\ OneIf(q \in v.calling) \in {0, 1} /\ OneIf(q \in v.done) \in {0, 1}
    BY <1>1, InHandParts
  <2>3. OneIf(h.task = q) \in {0, 1}
    BY DEF OneIf
  <2> QED
    BY <1>4, <2>1, <2>2, <2>3 DEF InHand
<1>9. TakesOut(b, u, b, v, h)
  BY <1>8 DEF TakesOut
<1> QED
  BY <1>3, <1>4, <1>7, <1>9, Puts

(* Vec::push, or Vec::insert before the first with a later deadline *)
LEMMA EnqueueIs ==
  ASSUME NEW S, NEW l \in Seq(S), NEW x \in S, NEW edf, NEW p, p = Enqueue(l, x, edf)
  PROVE  /\ p \in Seq(S) /\ Len(p) = Len(l) + 1
         /\ \A T : Count(p, T) = Count(l, T) + IF x \in T THEN 1 ELSE 0
<1> DEFINE i == SelectInSeq(l, LAMBDA a : Deadline[a.task] > Deadline[x.task])
           I == {j \in 1 .. Len(l) : Deadline[l[j].task] > Deadline[x.task]}
<1>1. i = 0 \/ i \in DOMAIN l
  <2>1. I \in SUBSET Nat /\ I \subseteq DOMAIN l
    OBVIOUS
  <2>2. I # {} => Min(I) \in I
    BY <2>1, MinIsSmallest
  <2>3. i = IF I = {} THEN 0 ELSE Min(I)
    BY DEF SelectInSeq
  <2> HIDE DEF I, i
  <2> QED
    BY <2>1, <2>2, <2>3
<1>2. p = IF edf /\ i # 0 THEN InsertAt(l, i, x) ELSE Append(l, x)
  BY DEF Enqueue
<1> HIDE DEF i
<1>3. CASE edf /\ i # 0
  <2>1. i \in DOMAIN l /\ p = InsertAt(l, i, x)
    BY <1>1, <1>2, <1>3
  <2> QED
    BY <2>1, CountInsertAt
<1>4. CASE ~(edf /\ i # 0)
  <2>1. p = Append(l, x)
    BY <1>2, <1>4
  <2> QED
    BY <2>1, PushBack, CountPushBack
<1> QED
  BY <1>3, <1>4

LEMMA PutQueued ==
  ASSUME NEW r, NEW b, NEW v, NEW h, Carrying(r, b, v, h), ~h.slot,
         NEW edf, NEW u, u = [v EXCEPT !.queue = Enqueue(@, h, edf)]
  PROVE  Sane(r, b, u) /\ TakesOut(b, u, b, v, h)
<1> DEFINE p == Enqueue(v.queue, h, edf)
<1>0. u = [v EXCEPT !.queue = p]
  OBVIOUS
<1>1. Counted(r, b, v) /\ h \in Work /\ v.queue \in Seq(PlainWork)
  BY DEF Carrying, Counted, Working
<1>2. h \in PlainWork
  BY <1>1 DEF Work, PlainWork
<1>3. /\ p \in Seq(PlainWork)
      /\ \A T : Count(p, T) = Count(v.queue, T) + IF h \in T THEN 1 ELSE 0
  BY <1>1, <1>2, EnqueueIs
<1>4. u.queue = p /\ u.serving = v.serving /\ u.calling = v.calling /\ u.done = v.done
  BY <1>1 DEF Counted, Working
<1> HIDE DEF p
<1>5. Counted(r, b, u)
  BY <1>0, <1>1, <1>3 DEF Counted, Working
<1>6. ASSUME NEW q \in Tasks
      PROVE  InHand(u, b, q) = InHand(v, b, q) + OneIf(h.task = q)
  <2>1. Count(u.queue, HopOf(q)) = Count(v.queue, HopOf(q)) + OneIf(h.task = q)
    <3>1. Count(u.queue, HopOf(q)) = Count(v.queue, HopOf(q)) + IF h \in HopOf(q) THEN 1 ELSE 0
      BY <1>3, <1>4
    <3>2. h \in HopOf(q) <=> h.task = q
      BY <1>1, HopIs
    <3> QED
      BY <3>1, <3>2 DEF OneIf
  <2>2. /\ Count(b, HopOf(q)) \in Nat /\ Count(v.queue, HopOf(q)) \in Nat
        /\ Cardinality(v.serving \cap HopOf(q)) \in Nat
        /\ OneIf(q \in v.calling) \in {0, 1} /\ OneIf(q \in v.done) \in {0, 1}
    BY <1>1, InHandParts
  <2>3. OneIf(h.task = q) \in {0, 1}
    BY DEF OneIf
  <2> QED
    BY <1>4, <2>1, <2>2, <2>3 DEF InHand
<1>7. TakesOut(b, u, b, v, h)
  BY <1>6 DEF TakesOut
<1> QED
  BY <1>5, <1>7, Puts

(* A task goes out on its call, or is done. *)
LEMMA PutAway ==
  ASSUME NEW r, NEW b, NEW v, NEW h, Carrying(r, b, v, h), NEW u, Counted(r, b, u),
         u.queue = v.queue, u.serving = v.serving,
         \/ u.calling = v.calling \cup {h.task} /\ u.done = v.done
         \/ u.calling = v.calling /\ u.done = v.done \cup {h.task}
  PROVE  Sane(r, b, u) /\ TakesOut(b, u, b, v, h)
<1>1. Counted(r, b, v) /\ h \in Work /\ h.task \in Tasks
  BY DEF Carrying, Work
<1>2. h.task \notin v.calling /\ h.task \notin v.done
  <2>1. /\ Count(b, HopOf(h.task)) \in Nat /\ Count(v.queue, HopOf(h.task)) \in Nat
        /\ Cardinality(v.serving \cap HopOf(h.task)) \in Nat
        /\ OneIf(h.task \in v.calling) \in {0, 1} /\ OneIf(h.task \in v.done) \in {0, 1}
    BY <1>1, InHandParts
  <2>2. InHand(v, b, h.task) + 1 <= 1
    BY <1>1 DEF Carrying, OneIf
  <2>3. OneIf(h.task \in v.calling) = 0 /\ OneIf(h.task \in v.done) = 0
    BY <2>1, <2>2 DEF InHand
  <2> QED
    BY <2>3 DEF OneIf
<1>3. ASSUME NEW q \in Tasks
      PROVE  InHand(u, b, q) = InHand(v, b, q) + OneIf(h.task = q)
  <2>1. OneIf(q \in u.calling) + OneIf(q \in u.done)
          = OneIf(q \in v.calling) + OneIf(q \in v.done) + OneIf(h.task = q)
    BY <1>2 DEF OneIf
  <2>2. /\ Count(b, HopOf(q)) \in Nat /\ Count(v.queue, HopOf(q)) \in Nat
        /\ Cardinality(v.serving \cap HopOf(q)) \in Nat
        /\ OneIf(q \in v.calling) \in {0, 1} /\ OneIf(q \in v.done) \in {0, 1}
        /\ OneIf(q \in u.calling) \in {0, 1} /\ OneIf(q \in u.done) \in {0, 1}
    BY <1>1, InHandParts
  <2>3. OneIf(h.task = q) \in {0, 1}
    BY DEF OneIf
  <2> QED
    BY <2>1, <2>2, <2>3 DEF InHand
<1>4. TakesOut(b, u, b, v, h)
  BY <1>3 DEF TakesOut
<1> QED
  BY <1>4, Puts

(* As many releases as ingress tasks were finished *)
Freed(v, u) ==
  /\ v.done \subseteq u.done
  /\ u.released = v.released + Cardinality((u.done \ v.done) \cap Ingress)

LEMMA TasksFinite ==
  ASSUME NEW T, T \subseteq Tasks
  PROVE  IsFiniteSet(T) /\ Cardinality(T) \in Nat
<1>1. IsFiniteSet(Tasks)
  BY SidecarAssumption
<1>2. IsFiniteSet(T)
  BY <1>1, FS_Subset
<1> QED
  BY <1>2, FS_CardinalityType

LEMMA FreedNothing ==
  ASSUME NEW v, NEW u, v.released \in Nat, u.released = v.released, u.done = v.done
  PROVE  Freed(v, u)
<1>1. (u.done \ v.done) \cap Ingress = {}
  OBVIOUS
<1>2. Cardinality((u.done \ v.done) \cap Ingress) = 0
  BY <1>1, FS_EmptySet
<1> QED
  BY <1>2 DEF Freed

LEMMA FreedFurther ==
  ASSUME NEW v, NEW u, NEW w, Freed(v, u), Freed(u, w), v.released \in Nat, w.done \subseteq Tasks
  PROVE  Freed(v, w)
<1> DEFINE A == (u.done \ v.done) \cap Ingress
           B == (w.done \ u.done) \cap Ingress
           C == (w.done \ v.done) \cap Ingress
<1>1. /\ v.done \subseteq u.done /\ u.done \subseteq w.done
      /\ u.released = v.released + Cardinality(A) /\ w.released = u.released + Cardinality(B)
  BY DEF Freed
<1>2. C = A \cup B /\ A \cap B = {} /\ A \subseteq Tasks /\ B \subseteq Tasks
  BY <1>1
<1> HIDE DEF A, B, C
<1>3. IsFiniteSet(A) /\ IsFiniteSet(B) /\ Cardinality(A) \in Nat /\ Cardinality(B) \in Nat
  BY <1>2, TasksFinite
<1>4. Cardinality(C) = Cardinality(A) + Cardinality(B)
  <2>1. Cardinality(A \cap B) = 0
    BY <1>2, FS_EmptySet
  <2>2. Cardinality(A \cup B) = Cardinality(A) + Cardinality(B) - Cardinality(A \cap B)
    BY <1>3, FS_Union
  <2>3. Cardinality(C) = Cardinality(A \cup B)
    BY <1>2
  <2> QED
    BY <1>3, <2>1, <2>2, <2>3
<1>5. w.released = v.released + Cardinality(C)
  BY <1>1, <1>3, <1>4
<1> QED
  BY <1>1, <1>5 DEF Freed, C

TasksIn(hops) == {hops[i].task : i \in DOMAIN hops}

(* Different tasks, none of them done *)
Unfinished(v, hops) ==
  /\ \A i, j \in DOMAIN hops : hops[i].task = hops[j].task => i = j
  /\ \A i \in DOMAIN hops : hops[i].task \notin v.done

LEMMA FinishIs ==
  ASSUME NEW r, NEW v \in Working(r), NEW hops \in Seq(Work), Unfinished(v, hops),
         NEW u, u = Finish(v, hops)
  PROVE  /\ u \in Working(r) /\ Freed(v, u)
         /\ u.done = v.done \cup TasksIn(hops)
         /\ u.queue = v.queue /\ u.in_flight = v.in_flight /\ u.serving = v.serving
         /\ u.calling = v.calling /\ u.events = v.events
<1> DEFINE I == {i \in DOMAIN hops : hops[i].task \in Ingress}
           D == {hops[i].task : i \in DOMAIN hops}
           f == [i \in I |-> hops[i].task]
<1>1. /\ v.done \subseteq Tasks /\ v.released \in Nat
      /\ v = [queue |-> v.queue, in_flight |-> v.in_flight, serving |-> v.serving,
              calling |-> v.calling, done |-> v.done, events |-> v.events, released |-> v.released]
  BY DEF Working
<1>2. \A i \in DOMAIN hops : hops[i] \in Work /\ hops[i].task \in Tasks
  <2>1. \A i \in DOMAIN hops : hops[i] \in Work
    OBVIOUS
  <2> QED
    BY <2>1 DEF Work
<1>3. D \subseteq Tasks
  BY <1>2
<1>4. f \in Bijection(I, D \cap Ingress)
  BY DEF Unfinished, Bijection, Injection, Surjection, IsInjective
<1>5. IsFiniteSet(I)
  <2>1. I = {i \in DOMAIN hops : hops[i] \in {h \in Work : h.task \in Ingress}}
    BY <1>2
  <2> QED
    BY <2>1, CountFinite
<1> HIDE DEF f
<1>6. Cardinality(D \cap Ingress) = Cardinality(I) /\ Cardinality(I) \in Nat
  BY <1>4, <1>5, FS_Bijection, FS_CardinalityType DEF ExistsBijection
<1>7. u = [v EXCEPT !.done = v.done \cup D, !.released = v.released + Cardinality(I)]
  BY <1>1 DEF Finish
<1>8. D \cap v.done = {}
  BY DEF Unfinished
<1> HIDE DEF I, D
<1>9. /\ u.done = v.done \cup D /\ u.released = v.released + Cardinality(I)
      /\ u.queue = v.queue /\ u.in_flight = v.in_flight /\ u.serving = v.serving
      /\ u.calling = v.calling /\ u.events = v.events
  BY <1>1, <1>7
<1>10. u \in Working(r)
  <2>1. u.done \in SUBSET Tasks /\ u.released \in Nat
    BY <1>1, <1>3, <1>6, <1>9
  <2> QED
    BY <1>7, <1>9, <2>1 DEF Working
<1>11. Freed(v, u)
  <2>1. (u.done \ v.done) \cap Ingress = D \cap Ingress
    BY <1>8, <1>9
  <2> QED
    BY <1>6, <1>9, <2>1 DEF Freed
<1> QED
  BY <1>9, <1>10, <1>11 DEF D, TasksIn

(* The first k of the queue are finished. *)
WithoutFirst(v, k) ==
  Finish([v EXCEPT !.queue = SubSeq(@, k + 1, Len(@))], SubSeq(v.queue, 1, k))

LEMMA FinishFirst ==
  ASSUME NEW r, NEW b, NEW v, Sane(r, b, v), NEW k \in 0 .. Len(v.queue),
         NEW u, u = WithoutFirst(v, k)
  PROVE  /\ Sane(r, b, u) /\ SameTasks(b, v, b, u) /\ Freed(v, u)
         /\ u.queue = SubSeq(v.queue, k + 1, Len(v.queue)) /\ Len(u.queue) = Len(v.queue) - k
         /\ u.in_flight = v.in_flight /\ u.serving = v.serving
         /\ u.calling = v.calling /\ u.events = v.events
<1> DEFINE q == v.queue
           hops == SubSeq(q, 1, k)
           rest == SubSeq(q, k + 1, Len(q))
<1>1. /\ Counted(r, b, v) /\ v \in Working(r) /\ q \in Seq(PlainWork)
      /\ \A t \in Tasks : InHand(v, b, t) <= 1
  BY DEF Sane, Counted, Working
<1>2. k \in Nat /\ k <= Len(q) /\ Len(q) \in Nat
  BY <1>1
<1>3. /\ hops \in Seq(PlainWork) /\ Len(hops) = k /\ DOMAIN hops = 1 .. k
      /\ \A i \in 1 .. k : hops[i] = q[i] /\ q[i] \in PlainWork
  <2>1. \A i \in 1 .. k : q[i] \in PlainWork
    BY <1>1, <1>2
  <2>2. 1 \in Int /\ k \in Int
    BY <1>2
  <2> HIDE DEF q
  <2>3. /\ hops \in Seq(PlainWork) /\ Len(hops) = IF 1 <= k THEN k - 1 + 1 ELSE 0
        /\ \A i \in 1 .. k - 1 + 1 : hops[i] = q[1 + i - 1]
    BY <2>1, <2>2, SubSeqProperties
  <2>4. Len(hops) = k /\ \A i \in 1 .. k : i \in 1 .. k - 1 + 1 /\ 1 + i - 1 = i
    BY <1>2, <2>3
  <2> HIDE DEF hops
  <2> QED
    BY <2>1, <2>3, <2>4
<1>4. /\ rest \in Seq(PlainWork) /\ Len(rest) = Len(q) - k
      /\ \A T : Count(q, T) = Between(q, 1, k, T) + Count(rest, T)
  <2>1. k \in 0 .. Len(q)
    OBVIOUS
  <2> HIDE DEF q
  <2> QED
    BY <1>1, <2>1, CountRest
<1> HIDE DEF hops, rest
<1>5. \A T : Count(hops, T) = Between(q, 1, k, T)
  <2> TAKE T
  <2>1. Agree(hops, T, q, T, 1, k)
    BY <1>3 DEF Agree
  <2>2. Count(hops, T) = Between(hops, 1, k, T)
    BY <1>3, CountIsBetween
  <2> QED
    BY <2>1, <2>2, BetweenAgree
<1>6. hops \in Seq(Work) /\ \A i \in 1 .. k : hops[i] \in Work /\ hops[i].task \in Tasks
  <2>1. PlainWork \subseteq Work
    BY DEF PlainWork, Work
  <2>2. \A i \in 1 .. k : hops[i] \in Work
    BY <1>3, <2>1
  <2>3. hops \in Seq(Work)
    BY <1>3, <2>2
  <2> QED
    BY <2>2, <2>3 DEF Work
<1> HIDE DEF q
<1>7. ASSUME NEW t \in Tasks
      PROVE  /\ Count(hops, HopOf(t)) \in Nat /\ Count(rest, HopOf(t)) \in Nat
             /\ Count(q, HopOf(t)) = Count(hops, HopOf(t)) + Count(rest, HopOf(t))
             /\ Count(hops, HopOf(t)) + OneIf(t \in v.done) <= 1
  <2>1. Count(hops, HopOf(t)) \in Nat /\ Count(rest, HopOf(t)) \in Nat
    BY <1>3, <1>4, CountFinite
  <2>2. Count(q, HopOf(t)) = Count(hops, HopOf(t)) + Count(rest, HopOf(t))
    BY <1>4, <1>5
  <2>3. /\ Count(b, HopOf(t)) \in Nat /\ Count(q, HopOf(t)) \in Nat
        /\ Cardinality(v.serving \cap HopOf(t)) \in Nat
        /\ OneIf(t \in v.calling) \in {0, 1} /\ OneIf(t \in v.done) \in {0, 1}
    BY <1>1, InHandParts DEF q
  <2>4. InHand(v, b, t) <= 1
    BY <1>1
  <2>5. Count(hops, HopOf(t)) + OneIf(t \in v.done) <= 1
    BY <2>1, <2>2, <2>3, <2>4 DEF InHand, q
  <2> QED
    BY <2>1, <2>2, <2>5
<1>8. ASSUME NEW i \in DOMAIN hops, NEW j \in DOMAIN hops, hops[i].task = hops[j].task
      PROVE  i = j
  <2>1. PICK t \in Tasks : t = hops[i].task
    BY <1>3, <1>6
  <2>2. hops[i] \in HopOf(t) /\ hops[j] \in HopOf(t)
    BY <1>3, <1>6, <1>8, <2>1, HopIs
  <2>3. Count(hops, HopOf(t)) <= 1
    BY <1>7 DEF OneIf
  <2> QED
    BY <1>3, <2>2, <2>3, CountSome
<1>9. ASSUME NEW t \in Tasks
      PROVE  Count(hops, HopOf(t)) = OneIf(t \in TasksIn(hops))
  <2>1. t \in TasksIn(hops) <=> \E i \in DOMAIN hops : hops[i] \in HopOf(t)
    BY <1>3, <1>6, HopIs DEF TasksIn
  <2>2. Count(hops, HopOf(t)) = 0 <=> \A i \in DOMAIN hops : hops[i] \notin HopOf(t)
    BY <1>3, CountSome
  <2>3. Count(hops, HopOf(t)) \in {0, 1}
    BY <1>7 DEF OneIf
  <2> QED
    BY <2>1, <2>2, <2>3 DEF OneIf
<1>10. \A i \in DOMAIN hops : hops[i].task \notin v.done
  <2> TAKE i \in DOMAIN hops
  <2>1. hops[i].task \in Tasks
    BY <1>3, <1>6
  <2>2. Count(hops, HopOf(hops[i].task)) = 1
    BY <1>9, <2>1 DEF OneIf, TasksIn
  <2> QED
    BY <1>7, <2>1, <2>2 DEF OneIf
<1> DEFINE w == [v EXCEPT !.queue = rest]
<1>11. /\ w \in Working(r) /\ w.queue = rest /\ w.in_flight = v.in_flight /\ w.serving = v.serving
       /\ w.calling = v.calling /\ w.events = v.events /\ w.done = v.done /\ w.released = v.released
  BY <1>1, <1>4 DEF Working
<1>12. u = Finish(w, hops)
  BY DEF q, rest, hops, WithoutFirst
<1> HIDE DEF w
<1>13. /\ u \in Working(r) /\ Freed(w, u)
       /\ u.done = w.done \cup TasksIn(hops)
       /\ u.queue = w.queue /\ u.in_flight = w.in_flight /\ u.serving = w.serving
       /\ u.calling = w.calling /\ u.events = w.events
  <2>1. Unfinished(w, hops)
    BY <1>8, <1>10, <1>11 DEF Unfinished
  <2> QED
    BY ONLY <1>6, <1>11, <1>12, <2>1, FinishIs
<1>14. Freed(v, u)
  BY <1>11, <1>13 DEF Freed
<1>15. Counted(r, b, u)
  BY <1>1, <1>11, <1>13 DEF Counted
<1>16. ASSUME NEW t \in Tasks
       PROVE  InHand(u, b, t) = InHand(v, b, t)
  <2>1. OneIf(t \in u.done) = OneIf(t \in v.done) + Count(hops, HopOf(t))
    <3>1. Count(hops, HopOf(t)) = OneIf(t \in TasksIn(hops))
      BY <1>9
    <3>2. Count(hops, HopOf(t)) + OneIf(t \in v.done) <= 1
      BY <1>7
    <3>3. t \in u.done <=> t \in v.done \/ t \in TasksIn(hops)
      BY <1>11, <1>13
    <3> QED
      BY <3>1, <3>2, <3>3 DEF OneIf
  <2>2. Count(v.queue, HopOf(t)) = Count(hops, HopOf(t)) + Count(u.queue, HopOf(t))
    BY <1>7, <1>11, <1>13 DEF q
  <2>3. /\ Count(b, HopOf(t)) \in Nat /\ Count(u.queue, HopOf(t)) \in Nat
        /\ Cardinality(v.serving \cap HopOf(t)) \in Nat /\ Count(hops, HopOf(t)) \in Nat
        /\ OneIf(t \in v.calling) \in {0, 1} /\ OneIf(t \in v.done) \in {0, 1}
    BY <1>1, <1>7, <1>15, InHandParts
  <2>4. /\ Cardinality(u.serving \cap HopOf(t)) = Cardinality(v.serving \cap HopOf(t))
        /\ OneIf(t \in u.calling) = OneIf(t \in v.calling)
    BY <1>11, <1>13, Zenon
  <2>5. Count(v.queue, HopOf(t)) + OneIf(t \in v.done) = Count(u.queue, HopOf(t)) + OneIf(t \in u.done)
    BY <2>1, <2>2, <2>3
  <2>6. Count(v.queue, HopOf(t)) \in Nat /\ OneIf(t \in u.done) \in {0, 1}
    BY <1>1, <1>15, InHandParts
  <2> QED
    BY ONLY <2>3, <2>4, <2>5, <2>6, SMTT(30) DEF InHand
<1>17. Sane(r, b, u)
  BY <1>1, <1>15, <1>16 DEF Sane
<1>18. SameTasks(b, v, b, u)
  BY <1>16 DEF SameTasks
<1> QED
  BY <1>4, <1>11, <1>13, <1>14, <1>17, <1>18 DEF q, rest

LEMMA SameTasksTwice ==
  ASSUME NEW b, NEW v, NEW c, NEW u, NEW d, NEW w, SameTasks(b, v, c, u), SameTasks(c, u, d, w)
  PROVE  SameTasks(b, v, d, w)
BY DEF SameTasks

(* Taken out of one place and put into another *)
LEMMA SameTasksMoved ==
  ASSUME NEW b, NEW v, NEW c, NEW u, NEW d, NEW w, NEW h,
         TakesOut(b, v, c, u, h), TakesOut(d, w, c, u, h)
  PROVE  SameTasks(b, v, d, w)
BY DEF SameTasks, TakesOut

Pulled(v) == {h \in v.serving : h.slot}

(* Notifications change nothing else. *)
LEMMA NotifyIs ==
  ASSUME NEW r, NEW v \in Working(r), NEW m \in EventMail(r), NEW u, u = Notify(v, m)
  PROVE  /\ u \in Working(r) /\ u.events = Append(v.events, m)
         /\ u.queue = v.queue /\ u.in_flight = v.in_flight /\ u.serving = v.serving
         /\ u.calling = v.calling /\ u.done = v.done /\ u.released = v.released
<1>1. v.events \in Seq(EventMail(r))
  BY DEF Working
<1>2. Append(v.events, m) \in Seq(EventMail(r))
  BY <1>1, PushBack
<1> QED
  BY <1>2 DEF Working, Notify

LEMMA LevelIs ==
  ASSUME NEW r, NEW v \in Working(r)
  PROVE  OccupancyLevel(v) \in Nat /\ v.in_flight <= OccupancyLevel(v)
<1>1. v.queue \in Seq(PlainWork) /\ v.in_flight \in Nat
  BY DEF Working
<1>2. Len(v.queue) \in Nat
  BY <1>1
<1> QED
  BY <1>1, <1>2 DEF OccupancyLevel

LevelReport(r, v) == [kind |-> "occupancy", server |-> r, level |-> OccupancyLevel(v)]

LEMMA ReportIs ==
  ASSUME NEW r, NEW v \in Working(r), NEW u, u = Report(v, r)
  PROVE  /\ u \in Working(r) /\ u.events = Append(v.events, LevelReport(r, u))
         /\ LevelReport(r, u) \in Reports(r) /\ LevelReport(r, u).level = OccupancyLevel(u)
         /\ LevelReport(r, u) \in EventMail(r)
         /\ u.queue = v.queue /\ u.in_flight = v.in_flight /\ u.serving = v.serving
         /\ u.calling = v.calling /\ u.done = v.done /\ u.released = v.released
<1> DEFINE m == LevelReport(r, v)
<1>1. OccupancyLevel(v) \in Nat
  BY LevelIs
<1>2. m \in Reports(r) /\ m.level = OccupancyLevel(v)
  BY <1>1 DEF LevelReport, Reports
<1>3. m \in EventMail(r)
  BY <1>2 DEF EventMail
<1>4. u = Notify(v, m)
  BY DEF Report, LevelReport
<1> HIDE DEF m
<1>5. /\ u \in Working(r) /\ u.events = Append(v.events, m)
      /\ u.queue = v.queue /\ u.in_flight = v.in_flight /\ u.serving = v.serving
      /\ u.calling = v.calling /\ u.done = v.done /\ u.released = v.released
  BY <1>3, <1>4, NotifyIs
<1>6. OccupancyLevel(u) = OccupancyLevel(v)
  BY <1>5 DEF OccupancyLevel
<1>7. LevelReport(r, u) = m
  BY <1>6 DEF LevelReport, m
<1> QED
  BY <1>2, <1>3, <1>5, <1>6, <1>7

(* As far as tasks go, v and u are the same. *)
LEMMA SaneAlike ==
  ASSUME NEW r, NEW b, NEW v, Sane(r, b, v), NEW u \in Working(r),
         u.queue = v.queue, u.in_flight = v.in_flight, u.serving = v.serving,
         u.calling = v.calling, u.done = v.done
  PROVE  Sane(r, b, u) /\ SameTasks(b, v, b, u)
<1>1. \A q \in Tasks : InHand(u, b, q) = InHand(v, b, q)
  BY DEF InHand
<1>2. Counted(r, b, u)
  BY DEF Sane, Counted
<1> QED
  BY <1>1, <1>2 DEF Sane, SameTasks

LEMMA CarryingAlike ==
  ASSUME NEW r, NEW b, NEW v, NEW h, Carrying(r, b, v, h), NEW u \in Working(r),
         u.queue = v.queue, u.in_flight = v.in_flight, u.serving = v.serving,
         u.calling = v.calling, u.done = v.done
  PROVE  Carrying(r, b, u, h) /\ SameTasks(b, v, b, u)
<1>1. \A q \in Tasks : InHand(u, b, q) = InHand(v, b, q)
  BY DEF InHand
<1>2. Counted(r, b, u)
  BY DEF Carrying, Counted
<1> QED
  BY <1>1, <1>2 DEF Carrying, SameTasks

(***************************************************************************)
(* drain_queue starts one task at most.  Where it leaves some although     *)
(* there was a slot, there is no slot left or there were more.             *)
(***************************************************************************)
LEMMA DrainQueueIs ==
  ASSUME NEW r, NEW b, NEW v, Sane(r, b, v), NEW u, u = DrainQueue(v, r)
  PROVE  /\ Sane(r, b, u) /\ SameTasks(b, v, b, u) /\ Freed(v, u)
         /\ u.events = Append(v.events, LevelReport(r, u)) /\ LevelReport(r, u) \in Reports(r)
         /\ Pulled(u) = Pulled(v) /\ u.calling = v.calling
         /\ u.in_flight >= v.in_flight
         /\ Len(u.queue) > 0 /\ v.in_flight < MaxConcurrency
              => u.in_flight = v.in_flight + 1 /\ Len(u.queue) < Len(v.queue)
<1> DEFINE i == SelectInSeq(v.queue, LAMBDA h : h.kind = "upstream")
           k == IF i = 0 THEN Len(v.queue) ELSE i - 1
           f == Finish([v EXCEPT !.queue = SubSeq(@, k + 1, Len(@))], SubSeq(v.queue, 1, k))
           g == BeginService([f EXCEPT !.queue = Tail(@)], v.queue[i])
           w == IF v.in_flight >= MaxConcurrency THEN v ELSE IF i = 0 THEN f ELSE g
<1>1. Counted(r, b, v) /\ v \in Working(r) /\ v.queue \in Seq(PlainWork) /\ v.in_flight \in Nat /\ v.released \in Nat
  BY DEF Sane, Counted, Working
<1>2. Len(v.queue) \in Nat /\ DOMAIN v.queue = 1 .. Len(v.queue)
  BY <1>1
<1>3. i = 0 \/ i \in 1 .. Len(v.queue)
  <2>1. i = 0 \/ i \in DOMAIN v.queue
    <3> DEFINE I == {j \in 1 .. Len(v.queue) : v.queue[j].kind = "upstream"}
    <3>1. I \in SUBSET Nat
      BY <1>2
    <3>2. I # {} => Min(I) \in I
      BY <3>1, MinIsSmallest
    <3>3. i = IF I = {} THEN 0 ELSE Min(I)
      BY DEF SelectInSeq
    <3> HIDE DEF I, i
    <3>4. I \subseteq DOMAIN v.queue
      BY <1>2 DEF I
    <3> QED
      BY <3>2, <3>3, <3>4
  <2> HIDE DEF i
  <2> QED
    BY <1>2, <2>1
<1>4. u = Report(w, r)
  BY Zenon DEF DrainQueue
<1> HIDE DEF i
<1>5. k \in 0 .. Len(v.queue) /\ (i # 0 => k + 1 = i /\ k < Len(v.queue))
  BY <1>2, <1>3
<1> HIDE DEF k
<1>6. /\ Sane(r, b, f) /\ SameTasks(b, v, b, f) /\ Freed(v, f)
      /\ f.queue = SubSeq(v.queue, k + 1, Len(v.queue)) /\ Len(f.queue) = Len(v.queue) - k
      /\ f.in_flight = v.in_flight /\ f.serving = v.serving
      /\ f.calling = v.calling /\ f.events = v.events
  <2>1. Sane(r, b, v)
    OBVIOUS
  <2>2. f = WithoutFirst(v, k)
    BY DEF WithoutFirst
  <2> HIDE DEF f
  <2> QED
    BY ONLY <1>5, <2>1, <2>2, FinishFirst
<1> HIDE DEF f
<1>7. f \in Working(r) /\ f.released \in Nat /\ f.queue \in Seq(PlainWork) /\ f.done \subseteq Tasks
  BY <1>6 DEF Sane, Counted, Working
<1>8. ASSUME i # 0
      PROVE  /\ Sane(r, b, g) /\ SameTasks(b, v, b, g) /\ Freed(v, g)
             /\ Len(g.queue) < Len(v.queue)
             /\ g.in_flight = v.in_flight + 1 /\ Pulled(g) = Pulled(v)
             /\ g.calling = v.calling /\ g.events = v.events
  <2> DEFINE x == [f EXCEPT !.queue = Tail(@)]
             h == Head(f.queue)
  <2>1. Len(f.queue) > 0 /\ f.queue # <<>>
    <3>1. Len(f.queue) > 0
      BY <1>2, <1>5, <1>6, <1>8
    <3> QED
      BY ONLY <1>7, <3>1
  <2>2. h = v.queue[i]
    <3>1. f.queue[1] = v.queue[k + 1]
      <4>1. \A j \in k + 1 .. Len(v.queue) : v.queue[j] \in PlainWork
        BY <1>1, <1>2, <1>5
      <4>2. k + 1 \in Int /\ Len(v.queue) \in Int /\ 1 \in 1 .. Len(v.queue) - (k + 1) + 1
        BY <1>2, <1>5, <1>8
      <4>3. \A j \in 1 .. Len(v.queue) - (k + 1) + 1 :
              SubSeq(v.queue, k + 1, Len(v.queue))[j] = v.queue[(k + 1) + j - 1]
        BY <4>1, <4>2, SubSeqProperties
      <4>4. (k + 1) + 1 - 1 = k + 1
        BY <1>5
      <4> QED
        BY <1>6, <4>2, <4>3, <4>4
    <3> QED
      BY <1>5, <1>7, <1>8, <2>1, <3>1, PopFront
  <2>3. /\ x.queue = Tail(f.queue) /\ x.in_flight = f.in_flight /\ x.serving = f.serving
        /\ x.calling = f.calling /\ x.done = f.done /\ x.events = f.events
        /\ x.released = f.released
    BY <1>7 DEF Working
  <2>4. /\ Carrying(r, b, x, h) /\ ~h.slot /\ TakesOut(b, f, b, x, h)
    BY <1>6, <2>1, TakeQueued
  <2>5. g = BeginService(x, h)
    BY <2>2
  <2>6. Len(x.queue) = Len(f.queue) - 1
    BY <1>7, <2>1, <2>3
  <2> HIDE DEF g, x, h
  <2>7. /\ Sane(r, b, g) /\ TakesOut(b, g, b, x, h)
        /\ g.in_flight = x.in_flight + 1 /\ g.serving = x.serving \cup {h}
    BY <2>4, <2>5, PutServed
  <2>8. /\ g.queue = x.queue /\ g.calling = x.calling /\ g.done = x.done /\ g.events = x.events
        /\ g.released = x.released
    <3>1. x \in Working(r)
      BY <2>4 DEF Carrying, Counted
    <3> QED
      BY <2>5, <3>1 DEF BeginService, Working
  <2>9. SameTasks(b, v, b, g)
    BY <1>6, <2>4, <2>7, SameTasksMoved, SameTasksTwice
  <2>10. Freed(v, g)
    <3>1. Freed(f, g)
      BY <1>7, <2>3, <2>8, FreedNothing
    <3>2. g.done \subseteq Tasks
      BY <1>7, <2>3, <2>8
    <3> QED
      BY <1>1, <1>6, <3>1, <3>2, FreedFurther
  <2>11. Pulled(g) = Pulled(v)
    BY <1>6, <2>3, <2>4, <2>7 DEF Pulled
  <2>12. Len(g.queue) < Len(v.queue)
    BY <1>2, <1>5, <1>6, <1>8, <2>6, <2>8
  <2> QED
    BY <1>6, <2>3, <2>7, <2>8, <2>9, <2>10, <2>11, <2>12
<1> HIDE DEF g
<1>9. /\ Sane(r, b, w) /\ SameTasks(b, v, b, w) /\ Freed(v, w)
      /\ Pulled(w) = Pulled(v) /\ w.calling = v.calling /\ w.events = v.events
      /\ w.in_flight >= v.in_flight
      /\ Len(w.queue) > 0 /\ v.in_flight < MaxConcurrency
           => w.in_flight = v.in_flight + 1 /\ Len(w.queue) < Len(v.queue)
  <2>1. MaxConcurrency \in Nat
    BY SidecarAssumption
  <2>2. CASE v.in_flight >= MaxConcurrency
    <3>1. w = v /\ ~(v.in_flight < MaxConcurrency)
      BY <1>1, <2>1, <2>2
    <3>2. SameTasks(b, v, b, v) /\ Freed(v, v)
      BY <1>1, FreedNothing DEF SameTasks
    <3> HIDE DEF w
    <3> QED
      BY <1>1, <3>1, <3>2
  <2>3. CASE ~(v.in_flight >= MaxConcurrency) /\ i = 0
    <3>1. w = f
      BY <2>3
    <3>2. Len(f.queue) = 0
      BY <1>2, <1>6, <2>3 DEF k
    <3>3. Pulled(f) = Pulled(v)
      BY <1>6 DEF Pulled
    <3>4. w.in_flight >= v.in_flight /\ ~(Len(w.queue) > 0)
      <4>1. f.in_flight = v.in_flight /\ v.in_flight \in Nat
        BY ONLY <1>1, <1>6, Zenon
      <4>2. f.in_flight >= v.in_flight
        BY ONLY <4>1
      <4>3. ~(Len(f.queue) > 0)
        BY ONLY <3>2
      <4> QED
        BY <3>1, <4>2, <4>3
    <3> HIDE DEF w
    <3> QED
      BY ONLY <1>6, <3>1, <3>3, <3>4, Zenon
  <2>4. CASE ~(v.in_flight >= MaxConcurrency) /\ i # 0
    <3>1. w = g
      BY <2>4
    <3> HIDE DEF w
    <3> QED
      BY <1>1, <1>8, <2>4, <3>1
  <2> QED
    BY <2>2, <2>3, <2>4
<1> HIDE DEF w
<1>10. w \in Working(r) /\ w.released \in Nat /\ w.done \subseteq Tasks
  BY <1>9 DEF Sane, Counted, Working
<1>11. /\ u \in Working(r) /\ u.events = Append(w.events, LevelReport(r, u))
       /\ LevelReport(r, u) \in Reports(r)
       /\ u.queue = w.queue /\ u.in_flight = w.in_flight /\ u.serving = w.serving
       /\ u.calling = w.calling /\ u.done = w.done /\ u.released = w.released
  BY ONLY <1>4, <1>10, ReportIs
<1>12. Sane(r, b, u) /\ SameTasks(b, w, b, u)
  BY ONLY <1>9, <1>11, SaneAlike
<1>13. SameTasks(b, v, b, u)
  BY <1>9, <1>12, SameTasksTwice
<1>14. Freed(v, u)
  <2>1. Freed(w, u)
    BY ONLY <1>10, <1>11, FreedNothing
  <2> QED
    BY ONLY <1>1, <1>9, <1>10, <1>11, <2>1, FreedFurther
<1>15. Pulled(u) = Pulled(v)
  BY <1>9, <1>11 DEF Pulled
<1> QED
  BY ONLY <1>9, <1>11, <1>12, <1>13, <1>14, <1>15

(* advance: a task that was held goes out on its call, or is done. *)
LEMMA AdvanceIs ==
  ASSUME NEW r, NEW b, NEW v, NEW h, Carrying(r, b, v, h), v.released \in Nat,
         NEW u, u = Advance(v, h)
  PROVE  /\ Sane(r, b, u) /\ TakesOut(b, u, b, v, h) /\ Freed(v, u)
         /\ u.queue = v.queue /\ u.in_flight = v.in_flight /\ u.serving = v.serving
         /\ u.events = v.events
<1>1. v \in Working(r) /\ Counted(r, b, v) /\ h \in Work /\ h.task \in Tasks
  BY DEF Carrying, Counted, Work
<1>2. CASE h.kind = "upstream" /\ h.task \in Nested
  <2>1. u = [v EXCEPT !.calling = @ \cup {h.task}]
    BY <1>2 DEF Advance
  <2>2. /\ u \in Working(r) /\ u.queue = v.queue /\ u.in_flight = v.in_flight
        /\ u.serving = v.serving /\ u.calling = v.calling \cup {h.task} /\ u.done = v.done
        /\ u.events = v.events /\ u.released = v.released
    BY <1>1, <1>2, <2>1 DEF Working
  <2>3. Counted(r, b, u)
    BY ONLY <1>1, <2>2 DEF Counted
  <2>4. Sane(r, b, u) /\ TakesOut(b, u, b, v, h)
    BY <2>2, <2>3, PutAway
  <2>5. Freed(v, u)
    BY <2>2, FreedNothing
  <2> QED
    BY ONLY <2>2, <2>4, <2>5
<1>3. CASE ~(h.kind = "upstream" /\ h.task \in Nested)
  <2>0. PICK one : one = <<h>> /\ one \in Seq(Work)
    <3>1. <<h>> \in Seq(Work)
      BY ONLY <1>1, h \in Work
    <3> QED
      BY <3>1
  <2>1. one = <<h>> /\ one \in Seq(Work)
    BY <2>0
  <2>2. u = Finish(v, one)
    BY <1>3, <2>1 DEF Advance
  <2>3. DOMAIN one = {1} /\ one[1] = h
    BY <2>1
  <2>4. h.task \notin v.done
    <3>1. InHand(v, b, h.task) + OneIf(h.task = h.task) <= 1
      BY <1>1 DEF Carrying
    <3>2. OneIf(h.task = h.task) = 1
      BY DEF OneIf
    <3>3. /\ Count(b, HopOf(h.task)) \in Nat /\ Count(v.queue, HopOf(h.task)) \in Nat
          /\ Cardinality(v.serving \cap HopOf(h.task)) \in Nat
          /\ OneIf(h.task \in v.calling) \in {0, 1} /\ OneIf(h.task \in v.done) \in {0, 1}
          /\ InHand(v, b, h.task) \in Nat
      BY <1>1, InHandParts
    <3>4. OneIf(h.task \in v.done) = 0
      BY ONLY <3>1, <3>2, <3>3 DEF InHand
    <3> QED
      BY <3>4 DEF OneIf
  <2>5. Unfinished(v, one)
    BY ONLY <2>3, <2>4 DEF Unfinished
  <2>6. TasksIn(one) = {h.task}
    BY <2>3 DEF TasksIn
  <2>7. /\ u \in Working(r) /\ Freed(v, u)
        /\ u.done = v.done \cup TasksIn(one)
        /\ u.queue = v.queue /\ u.in_flight = v.in_flight /\ u.serving = v.serving
        /\ u.calling = v.calling /\ u.events = v.events
    <3>1. v \in Working(r) /\ one \in Seq(Work)
      BY <1>1, <2>1
    <3> QED
      BY ONLY <3>1, <2>2, <2>5, FinishIs
  <2>8. Counted(r, b, u)
    BY ONLY <1>1, <2>7 DEF Counted
  <2>9. Sane(r, b, u) /\ TakesOut(b, u, b, v, h)
    BY <2>6, <2>7, <2>8, PutAway
  <2> QED
    BY ONLY <2>7, <2>9
<1> QED
  BY <1>2, <1>3

-----------------------------------------------------------------------------
(***************************************************************************)
(* A handler of r: v is its state before, b its mailbox, B the mailbox of  *)
(* its sidecar and occ what the sidecar believes.                          *)
(***************************************************************************)
Full(v) == v.queue # <<>> => v.in_flight >= MaxConcurrency

HeardOf(B, r, occ, b, v) ==
  Heard(B, r, occ, Cardinality(Pulled(v)), OccupancyLevel(v), Count(b, PushedTasks))

Awaiting(r, b, v, M, B, occ) ==
  /\ Sane(r, b, v) /\ v.events = <<>> /\ v.released = 0 /\ Full(v)
  /\ EventMail(r) \subseteq M /\ B \in Seq(M) /\ occ \in Nat
  /\ HeardOf(B, r, occ, b, v)

(* u and c are the state and the mailbox after it. *)
HandledBy(r, b, v, c, u, B, occ) ==
  /\ Sane(r, c, u) /\ SameTasks(b, v, c, u) /\ Freed(v, u) /\ Full(u)
  /\ Count(c, PulledCalls) + Count(u.events, Arrivals(r)) = Count(b, PulledCalls)
  /\ Count(c, PulledCalls) + Cardinality(Pulled(u)) <= Count(b, PulledCalls) + Cardinality(Pulled(v))
  /\ HeardOf(B \o u.events, r, occ, c, u)

LEMMA PulledIs ==
  ASSUME NEW r, NEW b, NEW v, Counted(r, b, v)
  PROVE  /\ IsFiniteSet(Pulled(v)) /\ Cardinality(Pulled(v)) \in Nat
         /\ Cardinality(Pulled(v)) <= v.in_flight
         /\ v.in_flight \in Nat /\ OccupancyLevel(v) \in Nat
         /\ Cardinality(Pulled(v)) <= OccupancyLevel(v)
<1>1. IsFiniteSet(v.serving) /\ Cardinality(v.serving) = v.in_flight /\ v \in Working(r)
  BY DEF Counted
<1>2. Pulled(v) \subseteq v.serving
  BY DEF Pulled
<1>3. IsFiniteSet(Pulled(v)) /\ Cardinality(Pulled(v)) <= Cardinality(v.serving)
  BY <1>1, <1>2, FS_Subset
<1>4. Cardinality(Pulled(v)) \in Nat
  BY <1>3, FS_CardinalityType
<1>5. OccupancyLevel(v) \in Nat /\ v.in_flight <= OccupancyLevel(v)
  BY <1>1, LevelIs
<1>6. v.in_flight \in Nat
  BY <1>1 DEF Working
<1>7. Cardinality(Pulled(v)) <= v.in_flight
  BY <1>1, <1>3
<1> QED
  BY ONLY <1>3, <1>4, <1>5, <1>6, <1>7

(* Arrivals are followed by a report. *)
LEMMA StartPulledIs ==
  ASSUME NEW r, NEW b, NEW v, NEW M, NEW B, NEW occ, Awaiting(r, b, v, M, B, occ),
         b # <<>>, NEW h, h = Head(b), h.kind = "upstream", h.slot,
         NEW u, u = Report(BeginService(Notify(v, [kind |-> "pull_arrived", server |-> r]), h), r)
  PROVE  HandledBy(r, b, v, Tail(b), u, B, occ)
<1> DEFINE a == [kind |-> "pull_arrived", server |-> r]
           x == Notify(v, a)
           y == BeginService(x, h)
           m == LevelReport(r, u)
<1>1. Sane(r, b, v) /\ Counted(r, b, v) /\ v \in Working(r) /\ b \in Seq(Work) /\ v.released \in Nat
  BY DEF Awaiting, Sane, Counted, Working
<1>2. a \in Arrivals(r) /\ a \in EventMail(r)
  BY DEF Arrivals, EventMail
<1>3. Carrying(r, Tail(b), v, h) /\ TakesOut(b, v, Tail(b), v, h)
  BY <1>1, TakeMail
<1> HIDE DEF a
<1>4. /\ x \in Working(r) /\ x.events = Append(v.events, a)
      /\ x.queue = v.queue /\ x.in_flight = v.in_flight /\ x.serving = v.serving
      /\ x.calling = v.calling /\ x.done = v.done /\ x.released = v.released
  BY <1>1, <1>2, NotifyIs
<1> HIDE DEF x
<1>5. Carrying(r, Tail(b), x, h) /\ SameTasks(Tail(b), v, Tail(b), x)
  BY ONLY <1>3, <1>4, CarryingAlike
<1>6. /\ Sane(r, Tail(b), y) /\ TakesOut(Tail(b), y, Tail(b), x, h) /\ h \notin x.serving
      /\ y.in_flight = x.in_flight + 1 /\ y.serving = x.serving \cup {h}
  BY <1>5, PutServed
<1>7. /\ y.queue = x.queue /\ y.calling = x.calling /\ y.done = x.done /\ y.events = x.events
      /\ y.released = x.released
  BY <1>4 DEF BeginService, Working
<1>8. u = Report(y, r)
  BY DEF a, x
<1> HIDE DEF y
<1>9. y \in Working(r)
  BY <1>6 DEF Sane, Counted
<1>10. /\ u \in Working(r) /\ u.events = Append(y.events, m)
       /\ m \in Reports(r) /\ m.level = OccupancyLevel(u) /\ m \in EventMail(r)
       /\ u.queue = y.queue /\ u.in_flight = y.in_flight /\ u.serving = y.serving
       /\ u.calling = y.calling /\ u.done = y.done /\ u.released = y.released
  BY ONLY <1>8, <1>9, ReportIs DEF m
<1> HIDE DEF m
<1>11. Sane(r, Tail(b), u) /\ SameTasks(Tail(b), y, Tail(b), u)
  BY ONLY <1>6, <1>10, SaneAlike
<1>12. SameTasks(b, v, Tail(b), u)
  <2>1. TakesOut(b, v, Tail(b), x, h)
    BY <1>3, <1>5 DEF TakesOut, SameTasks
  <2>2. SameTasks(b, v, Tail(b), y)
    BY <1>6, <2>1, SameTasksMoved
  <2> QED
    BY <1>11, <2>2, SameTasksTwice
<1>13. Freed(v, u)
  BY <1>1, <1>4, <1>7, <1>10, FreedNothing
<1>14. Full(u)
  <2>1. MaxConcurrency \in Nat /\ v.in_flight \in Nat /\ u.in_flight = v.in_flight + 1
    BY <1>1, <1>4, <1>6, <1>10, SidecarAssumption DEF Working
  <2>2. u.queue = v.queue /\ Full(v)
    BY <1>4, <1>7, <1>10 DEF Awaiting
  <2> QED
    BY ONLY <2>1, <2>2 DEF Full
<1>15. Cardinality(Pulled(u)) = Cardinality(Pulled(v)) + 1
  <2>1. Pulled(u) = Pulled(v) \cup {h} /\ h \notin Pulled(v)
    BY <1>4, <1>6, <1>10 DEF Pulled
  <2>2. IsFiniteSet(Pulled(v))
    BY <1>1, PulledIs
  <2> QED
    BY <2>1, <2>2, FS_AddElement
<1>16. Count(b, PulledCalls) = Count(Tail(b), PulledCalls) + 1
  <2>1. h \in PulledCalls
    BY <1>3 DEF Carrying, Work, PulledCalls
  <2> QED
    BY <1>1, <2>1, CountPopFront
<1>17. /\ Cardinality(Pulled(v)) \in Nat /\ Cardinality(Pulled(u)) \in Nat
       /\ OccupancyLevel(u) \in Nat /\ Cardinality(Pulled(u)) <= OccupancyLevel(u)
       /\ OccupancyLevel(v) \in Nat
  BY <1>1, <1>11, PulledIs DEF Sane
<1>18. u.events = Append(Append(<<>>, a), m)
  BY <1>4, <1>7, <1>10 DEF Awaiting
<1>19. Count(u.events, Arrivals(r)) = 1
  <2>1. <<>> \in Seq(EventMail(r)) /\ Append(<<>>, a) \in Seq(EventMail(r))
    BY <1>2, PushBack
  <2>2. m \notin Arrivals(r)
    BY <1>10, Apart
  <2>3. PICK z : z = <<>> /\ z \in Seq(EventMail(r)) /\ Count(z, Arrivals(r)) = 0
    BY <2>1, CountEmpty
  <2>4. PICK y1 : y1 = Append(z, a) /\ y1 \in Seq(EventMail(r))
    BY <2>1, <2>3
  <2>5. Count(Append(z, a), Arrivals(r)) = Count(z, Arrivals(r)) + IF a \in Arrivals(r) THEN 1 ELSE 0
    <3>1. z \in Seq(EventMail(r))
      BY <2>3
    <3> QED
      BY ONLY <1>2, <3>1, CountPushBack
  <2>6. Count(y1, Arrivals(r)) = 1
    BY ONLY <1>2, <2>3, <2>4, <2>5
  <2>7. Count(Append(y1, m), Arrivals(r)) = Count(y1, Arrivals(r)) + IF m \in Arrivals(r) THEN 1 ELSE 0
    <3>1. m \in EventMail(r) /\ y1 \in Seq(EventMail(r))
      BY ONLY <1>10, <2>4
    <3> QED
      BY ONLY <3>1, CountPushBack
  <2>8. u.events = Append(y1, m)
    BY <1>18, <2>3, <2>4
  <2> QED
    BY ONLY <2>2, <2>6, <2>7, <2>8
<1>20. HeardOf(B \o u.events, r, occ, Tail(b), u)
  <2>1. B \in Seq(M) /\ a \in M /\ m \in M /\ occ \in Nat
    BY <1>2, <1>10 DEF Awaiting
  <2>2. Heard(B, r, occ, Cardinality(Pulled(v)), OccupancyLevel(v), Count(b, PushedTasks))
    BY DEF Awaiting, HeardOf
  <2>3. B \o u.events = Append(Append(B, a), m)
    <3>1. <<>> \in Seq(M) /\ Append(<<>>, a) \in Seq(M)
      BY <2>1, PushBack
    <3>2. B \o Append(Append(<<>>, a), m) = Append(B \o Append(<<>>, a), m)
      BY <2>1, <3>1, ConcatPush
    <3>3. B \o Append(<<>>, a) = Append(B \o <<>>, a)
      BY <2>1, <3>1, ConcatPush
    <3>4. B \o <<>> = B
      BY <2>1
    <3> QED
      BY ONLY <1>18, <3>2, <3>3, <3>4
  <2>4. Cardinality(Pulled(u)) <= Cardinality(Pulled(v)) + 1 /\ Cardinality(Pulled(u)) <= m.level
    BY ONLY <1>10, <1>15, <1>17
  <2>5. Heard(Append(Append(B, a), m), r, occ, Cardinality(Pulled(u)), m.level, Count(Tail(b), PushedTasks))
    BY ONLY <1>2, <1>10, <1>17, <2>1, <2>2, <2>4, HeardArrival
  <2> QED
    BY <1>10, <2>3, <2>5 DEF HeardOf
<1>21. Count(b, PulledCalls) \in Nat /\ Count(Tail(b), PulledCalls) \in Nat
  BY <1>1, CountFinite, PopFront
<1>22. /\ Count(Tail(b), PulledCalls) + Count(u.events, Arrivals(r)) = Count(b, PulledCalls)
       /\ Count(Tail(b), PulledCalls) + Cardinality(Pulled(u))
            <= Count(b, PulledCalls) + Cardinality(Pulled(v))
  BY ONLY <1>15, <1>16, <1>17, <1>19, <1>21
<1> QED
  BY ONLY <1>11, <1>12, <1>13, <1>14, <1>20, <1>22 DEF HandledBy

(* One more event, m *)
LEMMA OneEvent ==
  ASSUME NEW r, NEW v \in Working(r), NEW u, NEW m, m \in EventMail(r), u.events = Append(v.events, m),
         NEW M, EventMail(r) \subseteq M, NEW B \in Seq(M)
  PROVE  /\ Count(v.events, Arrivals(r)) \in Nat
         /\ Count(u.events, Arrivals(r)) = Count(v.events, Arrivals(r)) + OneIf(m \in Arrivals(r))
         /\ B \o u.events = Append(B \o v.events, m) /\ B \o v.events \in Seq(M)
<1>1. v.events \in Seq(EventMail(r)) /\ v.events \in Seq(M) /\ m \in M
  <2>1. v.events \in Seq(EventMail(r))
    BY DEF Working
  <2> QED
    BY <2>1
<1>2. Count(u.events, Arrivals(r)) = Count(v.events, Arrivals(r)) + IF m \in Arrivals(r) THEN 1 ELSE 0
  BY <1>1, CountPushBack
<1>3. Count(v.events, Arrivals(r)) \in Nat
  BY <1>1, CountFinite
<1>4. B \o Append(v.events, m) = Append(B \o v.events, m) /\ B \o v.events \in Seq(M)
  BY ONLY <1>1, B \in Seq(M), ConcatPush
<1> QED
  BY <1>2, <1>3, <1>4 DEF OneIf

(* An occupancy report is one more event. *)
ReportAdded(r, v, u, m, M, B) ==
  /\ v \in Working(r) /\ m \in Reports(r) /\ u.events = Append(v.events, m)
  /\ EventMail(r) \subseteq M /\ B \in Seq(M)

ReportEnds(r, v, u, m, M, B) ==
  /\ Count(u.events, Arrivals(r)) = Count(v.events, Arrivals(r))
  /\ B \o u.events = Append(B \o v.events, m) /\ B \o v.events \in Seq(M) /\ m \in M

LEMMA OneReport ==
  ASSUME NEW r, NEW v, NEW u, NEW m, NEW M, NEW B, ReportAdded(r, v, u, m, M, B)
  PROVE  ReportEnds(r, v, u, m, M, B)
<1> USE DEF ReportAdded
<1>1. m \in EventMail(r) /\ m \in M
  BY DEF EventMail
<1>2. m \notin Arrivals(r)
  BY Apart
<1>3. /\ Count(v.events, Arrivals(r)) \in Nat
      /\ Count(u.events, Arrivals(r)) = Count(v.events, Arrivals(r)) + OneIf(m \in Arrivals(r))
      /\ B \o u.events = Append(B \o v.events, m) /\ B \o v.events \in Seq(M)
  BY <1>1, OneEvent
<1>4. OneIf(m \in Arrivals(r)) = 0
  BY <1>2 DEF OneIf
<1> QED
  BY ONLY <1>1, <1>3, <1>4 DEF ReportEnds

(* Work that has to wait is started if there is a slot. *)
LEMMA EnqueueWorkIs ==
  ASSUME NEW r, NEW b, NEW v, NEW M, NEW B, NEW occ, Awaiting(r, b, v, M, B, occ),
         b # <<>>, NEW h, h = Head(b), ~h.slot,
         NEW edf, NEW u, u = DrainQueue([v EXCEPT !.queue = Enqueue(@, h, edf)], r)
  PROVE  HandledBy(r, b, v, Tail(b), u, B, occ)
<1> DEFINE x == [v EXCEPT !.queue = Enqueue(@, h, edf)]
           m == LevelReport(r, u)
<1>1. /\ Sane(r, b, v) /\ Counted(r, b, v) /\ v \in Working(r) /\ b \in Seq(Work) /\ v.released \in Nat
      /\ v.queue \in Seq(PlainWork) /\ v.in_flight \in Nat
  BY DEF Awaiting, Sane, Counted, Working
<1>2. Carrying(r, Tail(b), v, h) /\ TakesOut(b, v, Tail(b), v, h)
  BY <1>1, TakeMail
<1>3. Sane(r, Tail(b), x) /\ TakesOut(Tail(b), x, Tail(b), v, h)
  BY <1>2, PutQueued
<1>4. /\ Len(x.queue) = Len(v.queue) + 1 /\ x.in_flight = v.in_flight /\ x.serving = v.serving
      /\ x.calling = v.calling /\ x.done = v.done /\ x.events = v.events /\ x.released = v.released
  <2>1. x.queue = Enqueue(v.queue, h, edf)
    BY <1>1 DEF Working
  <2>2. h \in PlainWork
    <3>1. h \in Work
      BY <1>1, PopFront
    <3> QED
      BY <3>1 DEF Work, PlainWork
  <2>3. Len(x.queue) = Len(v.queue) + 1
    BY <1>1, <2>1, <2>2, EnqueueIs
  <2> QED
    BY <1>1, <2>3 DEF Working
<1>5. u = DrainQueue(x, r)
  OBVIOUS
<1> HIDE DEF x
<1>6. Counted(r, Tail(b), x) /\ x \in Working(r)
  BY <1>3 DEF Sane, Counted
<1>7. /\ Sane(r, Tail(b), u) /\ SameTasks(Tail(b), x, Tail(b), u) /\ Freed(x, u)
      /\ u.events = Append(x.events, m) /\ m \in Reports(r)
      /\ Pulled(u) = Pulled(x)
      /\ u.in_flight >= x.in_flight
      /\ Len(u.queue) > 0 /\ x.in_flight < MaxConcurrency
           => u.in_flight = x.in_flight + 1 /\ Len(u.queue) < Len(x.queue)
  BY ONLY <1>3, <1>5, DrainQueueIs DEF m
<1>8. m.level = OccupancyLevel(u)
  BY DEF m, LevelReport
<1> HIDE DEF m
<1>9. u \in Working(r) /\ u.done \subseteq Tasks /\ u.queue \in Seq(PlainWork) /\ u.in_flight \in Nat
  BY <1>7 DEF Sane, Counted, Working
<1>10. SameTasks(b, v, Tail(b), u)
  <2>1. SameTasks(b, v, Tail(b), x)
    BY <1>2, <1>3, SameTasksMoved
  <2> QED
    BY <1>7, <2>1, SameTasksTwice
<1>11. Freed(v, u)
  <2>1. Freed(v, x)
    BY <1>1, <1>4, FreedNothing
  <2> QED
    BY <1>1, <1>7, <1>9, <2>1, FreedFurther
<1>12. Full(u)
  <2>1. MaxConcurrency \in Nat
    BY SidecarAssumption
  <2>2. Len(u.queue) \in Nat /\ (u.queue # <<>> => Len(u.queue) > 0)
    BY ONLY <1>9
  <2>3. v.queue = <<>> => Len(x.queue) = 1
    BY ONLY <1>4
  <2>4. v.in_flight >= MaxConcurrency => u.in_flight >= MaxConcurrency
    BY ONLY <1>1, <1>4, <1>7, <1>9, <2>1
  <2>5. v.in_flight < MaxConcurrency => v.queue = <<>>
    BY <1>1, <2>1 DEF Awaiting, Full
  <2>6. v.in_flight < MaxConcurrency => Len(x.queue) = 1
    BY ONLY <2>3, <2>5
  <2>7. v.in_flight < MaxConcurrency => ~(Len(u.queue) > 0)
    BY ONLY <1>4, <1>7, <2>2, <2>6
  <2> QED
    BY ONLY <1>1, <2>1, <2>2, <2>4, <2>7 DEF Full
<1>13. Pulled(u) = Pulled(v)
  BY <1>4, <1>7 DEF Pulled
<1>14. Count(b, PulledCalls) = Count(Tail(b), PulledCalls) /\ Count(b, PulledCalls) \in Nat
  <2>1. h \notin PulledCalls
    BY DEF PulledCalls
  <2>2. Count(Tail(b), PulledCalls) \in Nat
    BY <1>1, CountFinite, PopFront
  <2>3. Count(b, PulledCalls) = Count(Tail(b), PulledCalls) + IF h \in PulledCalls THEN 1 ELSE 0
    BY <1>1, CountPopFront
  <2> QED
    BY ONLY <2>1, <2>2, <2>3
<1>15. /\ Cardinality(Pulled(v)) \in Nat /\ Cardinality(Pulled(u)) \in Nat
       /\ OccupancyLevel(u) \in Nat /\ Cardinality(Pulled(u)) <= OccupancyLevel(u)
  BY <1>1, <1>7, PulledIs DEF Sane
<1>16. B \in Seq(M) /\ EventMail(r) \subseteq M /\ occ \in Nat /\ v.events = <<>>
  BY DEF Awaiting
<1>17. /\ Count(u.events, Arrivals(r)) = Count(x.events, Arrivals(r))
       /\ B \o u.events = Append(B \o x.events, m) /\ m \in M
  <2>1. x \in Working(r) /\ m \in Reports(r) /\ u.events = Append(x.events, m) /\ EventMail(r) \subseteq M /\ B \in Seq(M)
    BY ONLY <1>6, <1>7, <1>16
  <2>0. ReportEnds(r, x, u, m, M, B)
    <3>1. ReportAdded(r, x, u, m, M, B)
      BY ONLY <2>1 DEF ReportAdded
    <3> QED
      BY ONLY <3>1, OneReport
  <2>2. m \in M
    BY ONLY <2>0 DEF ReportEnds
  <2>3. Count(u.events, Arrivals(r)) = Count(x.events, Arrivals(r))
    BY ONLY <2>0 DEF ReportEnds
  <2>4. B \o u.events = Append(B \o x.events, m)
    BY ONLY <2>0 DEF ReportEnds
  <2> QED
    BY ONLY <2>2, <2>3, <2>4
<1>18. Count(u.events, Arrivals(r)) = 0
  BY <1>4, <1>16, <1>17, CountEmpty
<1>19. HeardOf(B \o u.events, r, occ, Tail(b), u)
  <2>1. B \o u.events = Append(B, m)
    BY <1>4, <1>16, <1>17
  <2>2. Heard(B, r, occ, Cardinality(Pulled(v)), OccupancyLevel(v), Count(b, PushedTasks))
    BY DEF Awaiting, HeardOf
  <2>3. Cardinality(Pulled(u)) <= Cardinality(Pulled(v)) /\ Cardinality(Pulled(u)) <= m.level
    BY <1>8, <1>13, <1>15
  <2>4. Heard(Append(B, m), r, occ, Cardinality(Pulled(u)), m.level, Count(Tail(b), PushedTasks))
    BY ONLY <1>7, <1>15, <1>16, <1>17, <2>2, <2>3, HeardReport
  <2> QED
    BY <1>8, <2>1, <2>4 DEF HeardOf
<1>20. /\ Count(Tail(b), PulledCalls) + Count(u.events, Arrivals(r)) = Count(b, PulledCalls)
       /\ Count(Tail(b), PulledCalls) + Cardinality(Pulled(u))
            <= Count(b, PulledCalls) + Cardinality(Pulled(v))
  <2>1. Cardinality(Pulled(u)) = Cardinality(Pulled(v))
    BY <1>13
  <2> QED
    BY ONLY <1>14, <1>15, <1>18, <2>1
<1> QED
  BY ONLY <1>7, <1>10, <1>11, <1>12, <1>19, <1>20 DEF HandledBy

(* A service ends: its slot is reported free, and used. *)
LEMMA CompleteIs ==
  ASSUME NEW r, NEW b, NEW v, NEW M, NEW B, NEW occ, Awaiting(r, b, v, M, B, occ),
         NEW h \in v.serving,
         NEW w, w = Report([v EXCEPT !.in_flight = @ - 1, !.serving = @ \ {h}], r),
         NEW x, x = IF h.slot THEN Notify(w, [kind |-> "completed", server |-> r]) ELSE w,
         NEW u, u = DrainQueue(Advance(x, h), r)
  PROVE  HandledBy(r, b, v, b, u, B, occ)
<1> DEFINE t == [v EXCEPT !.in_flight = @ - 1, !.serving = @ \ {h}]
           y == Advance(x, h)
           k == LevelReport(r, w)
           m == LevelReport(r, u)
           d == [kind |-> "completed", server |-> r]
<1>1. /\ Sane(r, b, v) /\ Counted(r, b, v) /\ v \in Working(r) /\ b \in Seq(Work) /\ v.released \in Nat
      /\ v.queue \in Seq(PlainWork) /\ v.in_flight \in Nat
  BY DEF Awaiting, Sane, Counted, Working
<1>2. Carrying(r, b, t, h) /\ TakesOut(b, v, b, t, h) /\ v.in_flight = t.in_flight + 1
  <2>1. t = [v EXCEPT !.in_flight = @ - 1, !.serving = @ \ {h}]
    OBVIOUS
  <2> HIDE DEF t
  <2>2. Carrying(r, b, t, h)
    BY <1>1, <2>1, TakeServed
  <2>3. TakesOut(b, v, b, t, h)
    BY <1>1, <2>1, TakeServed
  <2>4. v.in_flight = t.in_flight + 1
    <3>1. t.in_flight = v.in_flight - 1
      BY <1>1, <2>1 DEF Working
    <3> QED
      BY ONLY <1>1, <3>1
  <2> QED
    BY ONLY <2>2, <2>3, <2>4
<1>3. /\ t.queue = v.queue /\ t.serving = v.serving \ {h}
      /\ t.calling = v.calling /\ t.done = v.done /\ t.events = v.events /\ t.released = v.released
  BY <1>1 DEF Working
<1>4. w = Report(t, r) /\ u = DrainQueue(y, r)
  OBVIOUS
<1> HIDE DEF t
<1>5. Counted(r, b, t) /\ t \in Working(r)
  BY <1>2 DEF Carrying, Counted
<1>6. /\ w \in Working(r) /\ w.events = Append(t.events, k)
      /\ k \in Reports(r) /\ k.level = OccupancyLevel(w) /\ k \in EventMail(r)
      /\ w.queue = t.queue /\ w.in_flight = t.in_flight /\ w.serving = t.serving
      /\ w.calling = t.calling /\ w.done = t.done /\ w.released = t.released
  BY ONLY <1>4, <1>5, ReportIs DEF k
<1> HIDE DEF k
<1>7. /\ x \in Working(r) /\ x.queue = w.queue /\ x.in_flight = w.in_flight /\ x.serving = w.serving
      /\ x.calling = w.calling /\ x.done = w.done /\ x.released = w.released
      /\ h.slot => x.events = Append(w.events, d)
      /\ ~h.slot => x.events = w.events
      /\ d \in EventMail(r) /\ d \notin Arrivals(r) /\ Foreign(d, r)
  <2>1. d \in EventMail(r) /\ d \notin Arrivals(r) /\ Foreign(d, r)
    BY DEF EventMail, Completions, Arrivals, Reports, Foreign
  <2>2. CASE h.slot
    <3>1. x = Notify(w, d)
      BY <2>2
    <3>2. w \in Working(r) /\ d \in EventMail(r)
      BY <1>6, <2>1
    <3> HIDE DEF d
    <3>3. /\ x \in Working(r) /\ x.events = Append(w.events, d)
          /\ x.queue = w.queue /\ x.in_flight = w.in_flight /\ x.serving = w.serving
          /\ x.calling = w.calling /\ x.done = w.done /\ x.released = w.released
      BY ONLY <3>1, <3>2, NotifyIs
    <3> QED
      BY ONLY <2>1, <2>2, <3>3
  <2>3. CASE ~h.slot
    BY <1>6, <2>1, <2>3
  <2> QED
    BY <2>2, <2>3
<1> HIDE DEF d
<1>8. Carrying(r, b, x, h) /\ SameTasks(b, t, b, x)
  <2>1. /\ x \in Working(r) /\ x.queue = t.queue /\ x.in_flight = t.in_flight /\ x.serving = t.serving
        /\ x.calling = t.calling /\ x.done = t.done
    BY <1>6, <1>7
  <2> QED
    BY ONLY <1>2, <2>1, CarryingAlike
<1>9. x.released \in Nat
  BY <1>1, <1>3, <1>6, <1>7
<1>10. /\ Sane(r, b, y) /\ TakesOut(b, y, b, x, h) /\ Freed(x, y)
       /\ y.queue = x.queue /\ y.in_flight = x.in_flight /\ y.serving = x.serving
       /\ y.events = x.events
  BY <1>8, <1>9, AdvanceIs
<1> HIDE DEF y
<1>11. Counted(r, b, y) /\ y \in Working(r) /\ y.done \subseteq Tasks
  BY <1>10 DEF Sane, Counted, Working
<1>12. /\ Sane(r, b, u) /\ SameTasks(b, y, b, u) /\ Freed(y, u)
       /\ u.events = Append(y.events, m) /\ m \in Reports(r)
       /\ Pulled(u) = Pulled(y)
       /\ u.in_flight >= y.in_flight
       /\ Len(u.queue) > 0 /\ y.in_flight < MaxConcurrency
            => u.in_flight = y.in_flight + 1 /\ Len(u.queue) < Len(y.queue)
  BY ONLY <1>4, <1>10, DrainQueueIs, SMTT(30) DEF m
<1>13. m.level = OccupancyLevel(u)
  BY DEF m, LevelReport
<1> HIDE DEF m
<1>14. u \in Working(r) /\ u.done \subseteq Tasks /\ u.queue \in Seq(PlainWork) /\ u.in_flight \in Nat
  BY <1>12 DEF Sane, Counted, Working
<1>15. SameTasks(b, v, b, u)
  <2>1. TakesOut(b, v, b, x, h)
    BY <1>2, <1>8 DEF TakesOut, SameTasks
  <2>2. SameTasks(b, v, b, y)
    BY <1>10, <2>1, SameTasksMoved
  <2> QED
    BY <1>12, <2>2, SameTasksTwice
<1>16. Freed(v, u)
  <2>1. Freed(v, x)
    <3>1. x.released = v.released /\ x.done = v.done
      BY <1>3, <1>6, <1>7
    <3> QED
      BY <1>1, <3>1, FreedNothing
  <2>2. Freed(v, y)
    BY <1>1, <1>10, <1>11, <2>1, FreedFurther
  <2> QED
    BY <1>1, <1>12, <1>14, <2>2, FreedFurther
<1>17. Full(u)
  <2>1. MaxConcurrency \in Nat
    BY SidecarAssumption
  <2>2. Len(u.queue) \in Nat /\ (u.queue # <<>> => Len(u.queue) > 0)
    BY ONLY <1>14
  <2>3. y.queue = v.queue /\ v.in_flight = y.in_flight + 1
    BY <1>2, <1>3, <1>6, <1>7, <1>10
  <2>4. y.in_flight \in Nat
    BY <1>11 DEF Working
  <2>5. v.in_flight < MaxConcurrency => v.queue = <<>>
    BY <1>1, <2>1 DEF Awaiting, Full
  <2>6. v.in_flight < MaxConcurrency => Len(y.queue) = 0
    BY ONLY <2>3, <2>5
  <2>7. CASE v.in_flight < MaxConcurrency
    <3>1. y.in_flight < MaxConcurrency /\ Len(y.queue) = 0
      BY ONLY <1>1, <2>1, <2>3, <2>4, <2>6, <2>7
    <3>2. ~(Len(u.queue) > 0)
      BY ONLY <1>12, <2>2, <3>1
    <3> QED
      BY ONLY <2>2, <3>2 DEF Full
  <2>8. CASE ~(v.in_flight < MaxConcurrency) /\ u.queue # <<>>
    <3>1. CASE y.in_flight < MaxConcurrency
      <4>1. u.in_flight = y.in_flight + 1
        BY ONLY <1>12, <2>2, <2>8, <3>1
      <4>2. u.in_flight >= MaxConcurrency
        BY ONLY <1>1, <2>1, <2>3, <2>4, <2>8, <4>1
      <4> QED
        BY ONLY <4>2 DEF Full
    <3>2. CASE ~(y.in_flight < MaxConcurrency)
      <4>1. u.in_flight >= MaxConcurrency
        BY ONLY <1>12, <1>14, <2>1, <2>4, <3>2
      <4> QED
        BY ONLY <4>1 DEF Full
    <3> QED
      BY ONLY <3>1, <3>2
  <2>9. CASE u.queue = <<>>
    BY ONLY <2>9 DEF Full
  <2> QED
    BY ONLY <2>7, <2>8, <2>9
<1>18. /\ Cardinality(Pulled(v)) \in Nat /\ Cardinality(Pulled(u)) \in Nat
       /\ Cardinality(Pulled(t)) \in Nat
       /\ Cardinality(Pulled(t)) <= k.level /\ Cardinality(Pulled(u)) <= m.level
       /\ Cardinality(Pulled(t)) <= Cardinality(Pulled(v))
       /\ Cardinality(Pulled(u)) = Cardinality(Pulled(t))
       /\ k.level \in Nat
  <2>1. Counted(r, b, u)
    BY <1>12 DEF Sane
  <2>2. /\ Cardinality(Pulled(u)) \in Nat /\ OccupancyLevel(u) \in Nat
        /\ Cardinality(Pulled(u)) <= OccupancyLevel(u)
    BY ONLY <2>1, PulledIs
  <2>3. /\ Cardinality(Pulled(t)) \in Nat /\ OccupancyLevel(t) \in Nat
        /\ Cardinality(Pulled(t)) <= OccupancyLevel(t)
    BY ONLY <1>5, PulledIs
  <2>4. Cardinality(Pulled(v)) \in Nat /\ IsFiniteSet(Pulled(v))
    BY ONLY <1>1, PulledIs
  <2>5. OccupancyLevel(w) = OccupancyLevel(t)
    BY <1>6 DEF OccupancyLevel
  <2>6. Pulled(t) \subseteq Pulled(v)
    BY <1>3 DEF Pulled
  <2>7. Cardinality(Pulled(t)) <= Cardinality(Pulled(v))
    BY ONLY <2>4, <2>6, FS_Subset
  <2>8. Pulled(u) = Pulled(t)
    BY <1>6, <1>7, <1>10, <1>12 DEF Pulled
  <2> QED
    BY <1>6, <1>13, <2>2, <2>3, <2>4, <2>5, <2>7, <2>8
<1>19. /\ B \in Seq(M) /\ EventMail(r) \subseteq M /\ occ \in Nat /\ v.events = <<>>
       /\ Count(v.events, Arrivals(r)) = 0 /\ B \o v.events = B
  <2>1. B \in Seq(M) /\ EventMail(r) \subseteq M /\ occ \in Nat /\ v.events = <<>>
    BY DEF Awaiting
  <2>2. Count(v.events, Arrivals(r)) = 0
    BY <2>1, CountEmpty
  <2>3. B \o v.events = B
    BY <2>1
  <2> QED
    BY <2>1, <2>2, <2>3
<1>20. /\ Count(w.events, Arrivals(r)) = 0
       /\ B \o w.events = Append(B, k) /\ B \o w.events \in Seq(M) /\ k \in M
  <2>1. /\ t \in Working(r) /\ k \in Reports(r) /\ w.events = Append(t.events, k)
        /\ EventMail(r) \subseteq M /\ B \in Seq(M)
    BY ONLY <1>5, <1>6, <1>19
  <2>0. ReportEnds(r, t, w, k, M, B)
    <3>1. ReportAdded(r, t, w, k, M, B)
      BY ONLY <2>1 DEF ReportAdded
    <3> QED
      BY ONLY <3>1, OneReport
  <2>2. k \in M
    BY ONLY <2>0 DEF ReportEnds
  <2>3. Count(w.events, Arrivals(r)) = Count(t.events, Arrivals(r))
    BY ONLY <2>0 DEF ReportEnds
  <2>4. B \o w.events = Append(B \o t.events, k)
    BY ONLY <2>0 DEF ReportEnds
  <2>5. Count(w.events, Arrivals(r)) = 0 /\ B \o w.events = Append(B, k)
    BY <1>3, <1>19, <2>3, <2>4
  <2>6. Append(B, k) \in Seq(M)
    BY ONLY <2>1, <2>2
  <2> QED
    BY ONLY <2>2, <2>5, <2>6
<1>21. Heard(B \o w.events, r, occ, Cardinality(Pulled(t)), k.level, 0)
  <2>1. Heard(B, r, occ, Cardinality(Pulled(v)), OccupancyLevel(v), Count(b, PushedTasks))
    BY DEF Awaiting, HeardOf
  <2>2. Heard(Append(B, k), r, occ, Cardinality(Pulled(t)), k.level, 0)
    BY ONLY <1>6, <1>18, <1>19, <1>20, <2>1, HeardReport
  <2> QED
    BY <1>20, <2>2
<1>22. /\ Heard(B \o x.events, r, occ, Cardinality(Pulled(t)), k.level, 0)
       /\ B \o x.events \in Seq(M) /\ Count(x.events, Arrivals(r)) = 0
  <2>1. CASE h.slot
    <3>1. /\ w \in Working(r) /\ d \in EventMail(r) /\ x.events = Append(w.events, d)
          /\ EventMail(r) \subseteq M /\ B \in Seq(M)
      BY ONLY <1>6, <1>7, <1>19, <2>1
    <3>8. Count(x.events, Arrivals(r)) = Count(w.events, Arrivals(r)) + OneIf(d \in Arrivals(r))
      BY ONLY <3>1, OneEvent
    <3>9. B \o x.events = Append(B \o w.events, d)
      BY ONLY <3>1, OneEvent
    <3>2. /\ Count(x.events, Arrivals(r)) = Count(w.events, Arrivals(r)) + OneIf(d \in Arrivals(r))
          /\ B \o x.events = Append(B \o w.events, d)
      BY ONLY <3>8, <3>9
    <3>3. OneIf(d \in Arrivals(r)) = 0
      BY <1>7 DEF OneIf
    <3>4. d \in M
      BY ONLY <3>1
    <3>5. Heard(Append(B \o w.events, d), r, occ, Cardinality(Pulled(t)), k.level, 0)
      BY ONLY <1>7, <1>20, <1>21, <3>4, HeardForeign
    <3>6. Append(B \o w.events, d) \in Seq(M)
      BY ONLY <1>20, <3>4, PushBack
    <3>7. Count(x.events, Arrivals(r)) = 0
      BY ONLY <1>20, <3>2, <3>3
    <3> QED
      BY <3>2, <3>5, <3>6, <3>7
  <2>2. CASE ~h.slot
    <3>1. x.events = w.events
      BY <1>7, <2>2
    <3> QED
      BY <1>20, <1>21, <3>1
  <2> QED
    BY <2>1, <2>2
<1>23. /\ Count(u.events, Arrivals(r)) = 0 /\ B \o u.events = Append(B \o x.events, m) /\ m \in M
  <2>1. /\ y \in Working(r) /\ m \in Reports(r) /\ u.events = Append(y.events, m)
        /\ EventMail(r) \subseteq M /\ B \in Seq(M)
    BY ONLY <1>11, <1>12, <1>19
  <2>0. ReportEnds(r, y, u, m, M, B)
    <3>1. ReportAdded(r, y, u, m, M, B)
      BY ONLY <2>1 DEF ReportAdded
    <3> QED
      BY ONLY <3>1, OneReport
  <2>2. m \in M
    BY ONLY <2>0 DEF ReportEnds
  <2>3. Count(u.events, Arrivals(r)) = Count(y.events, Arrivals(r))
    BY ONLY <2>0 DEF ReportEnds
  <2>4. B \o u.events = Append(B \o y.events, m)
    BY ONLY <2>0 DEF ReportEnds
  <2> QED
    BY <1>10, <1>22, <2>2, <2>3, <2>4
<1>24. HeardOf(B \o u.events, r, occ, b, u)
  <2>1. Cardinality(Pulled(u)) <= Cardinality(Pulled(t)) /\ Cardinality(Pulled(u)) <= m.level
    BY ONLY <1>18
  <2>2. Heard(Append(B \o x.events, m), r, occ, Cardinality(Pulled(u)), m.level, Count(b, PushedTasks))
    BY ONLY <1>12, <1>18, <1>19, <1>22, <1>23, <2>1, HeardReport
  <2> QED
    BY <1>13, <1>23, <2>2 DEF HeardOf
<1>25. Count(b, PulledCalls) \in Nat
  BY <1>1, CountFinite
<1>26. /\ Count(b, PulledCalls) + Count(u.events, Arrivals(r)) = Count(b, PulledCalls)
       /\ Count(b, PulledCalls) + Cardinality(Pulled(u))
            <= Count(b, PulledCalls) + Cardinality(Pulled(v))
  BY ONLY <1>18, <1>23, <1>25
<1> QED
  BY ONLY <1>12, <1>15, <1>16, <1>17, <1>24, <1>26 DEF HandledBy

(* The child call returns: the task goes from the calls into the mailbox. *)
LEMMA ChildReturnsIs ==
  ASSUME NEW r, NEW b, NEW v, NEW M, NEW B, NEW occ, Awaiting(r, b, v, M, B, occ),
         NEW q \in v.calling, NEW m, m = [kind |-> "return", task |-> q, slot |-> FALSE],
         NEW u, u = [v EXCEPT !.calling = @ \ {q}]
  PROVE  HandledBy(r, b, v, Append(b, m), u, B, occ)
<1> DEFINE c == Append(b, m)
<1>1. /\ Sane(r, b, v) /\ Counted(r, b, v) /\ v \in Working(r) /\ b \in Seq(Work) /\ v.released \in Nat
      /\ v.queue \in Seq(PlainWork) /\ v.in_flight \in Nat
  BY DEF Awaiting, Sane, Counted, Working
<1>2. q \in Tasks /\ m \in Work /\ m.task = q
  <2>1. q \in Tasks
    BY <1>1, SidecarAssumption DEF Working
  <2> QED
    BY <2>1 DEF Work
<1>3. /\ u \in Working(r) /\ u.queue = v.queue /\ u.in_flight = v.in_flight /\ u.serving = v.serving
      /\ u.calling = v.calling \ {q} /\ u.done = v.done /\ u.events = v.events
      /\ u.released = v.released
  BY <1>1 DEF Working
<1>4. c \in Seq(Work) /\ m \notin PulledCalls
  <2>1. c \in Seq(Work)
    BY <1>1, <1>2, PushBack
  <2>2. m \notin PulledCalls
    BY DEF PulledCalls
  <2> QED
    BY <2>1, <2>2
<1>5. m \notin PushedTasks
  BY DEF PushedTasks
<1>6. \A T : Count(c, T) = Count(b, T) + IF m \in T THEN 1 ELSE 0
  BY <1>1, <1>2, CountPushBack
<1> HIDE DEF c
<1>7. Counted(r, c, u)
  BY ONLY <1>1, <1>3, <1>4 DEF Counted
<1>8. ASSUME NEW t \in Tasks
      PROVE  InHand(u, c, t) = InHand(v, b, t)
  <2>1. Count(c, HopOf(t)) = Count(b, HopOf(t)) + OneIf(t = q)
    <3>1. m \in HopOf(t) <=> t = q
      BY <1>2, HopIs
    <3> QED
      BY <1>6, <3>1 DEF OneIf
  <2>2. OneIf(t \in v.calling) = OneIf(t \in u.calling) + OneIf(t = q)
    BY <1>3 DEF OneIf
  <2>3. /\ Count(b, HopOf(t)) \in Nat /\ Count(v.queue, HopOf(t)) \in Nat
        /\ Cardinality(v.serving \cap HopOf(t)) \in Nat
        /\ OneIf(t \in v.calling) \in {0, 1} /\ OneIf(t \in v.done) \in {0, 1}
    BY ONLY <1>1, InHandParts
  <2>4. OneIf(t = q) \in {0, 1} /\ OneIf(t \in u.calling) \in {0, 1}
    BY DEF OneIf
  <2>5. /\ Count(u.queue, HopOf(t)) = Count(v.queue, HopOf(t))
        /\ Cardinality(u.serving \cap HopOf(t)) = Cardinality(v.serving \cap HopOf(t))
        /\ OneIf(t \in u.done) = OneIf(t \in v.done)
    BY <1>3, Zenon
  <2> QED
    BY ONLY <2>1, <2>2, <2>3, <2>4, <2>5 DEF InHand
<1>9. Sane(r, c, u) /\ SameTasks(b, v, c, u)
  BY <1>1, <1>7, <1>8 DEF Sane, SameTasks
<1>10. Freed(v, u)
  BY <1>1, <1>3, FreedNothing
<1>11. Full(u)
  BY <1>3 DEF Awaiting, Full
<1>12. Pulled(u) = Pulled(v) /\ OccupancyLevel(u) = OccupancyLevel(v)
  BY <1>3 DEF Pulled, OccupancyLevel
<1>13. Count(c, PulledCalls) = Count(b, PulledCalls) /\ Count(c, PushedTasks) = Count(b, PushedTasks)
  <2>1. Count(b, PulledCalls) \in Nat /\ Count(b, PushedTasks) \in Nat
    BY <1>1, CountFinite
  <2> QED
    BY ONLY <1>4, <1>5, <1>6, <2>1
<1>14. Count(u.events, Arrivals(r)) = 0 /\ B \o u.events = B
  <2>1. u.events = <<>> /\ B \in Seq(M)
    BY <1>3 DEF Awaiting
  <2> QED
    BY <2>1, CountEmpty
<1>15. HeardOf(B \o u.events, r, occ, c, u)
  BY <1>12, <1>13, <1>14 DEF Awaiting, HeardOf
<1>16. Cardinality(Pulled(v)) \in Nat /\ Count(b, PulledCalls) \in Nat
  BY <1>1, PulledIs, CountFinite
<1>17. Cardinality(Pulled(u)) = Cardinality(Pulled(v))
  BY <1>12
<1>18. /\ Count(c, PulledCalls) + Count(u.events, Arrivals(r)) = Count(b, PulledCalls)
       /\ Count(c, PulledCalls) + Cardinality(Pulled(u)) <= Count(b, PulledCalls) + Cardinality(Pulled(v))
  BY ONLY <1>13, <1>14, <1>16, <1>17
<1>19. HandledBy(r, b, v, c, u, B, occ)
  BY ONLY <1>9, <1>10, <1>11, <1>15, <1>18 DEF HandledBy
<1> QED
  BY <1>19 DEF c

-----------------------------------------------------------------------------
(***************************************************************************)
(* Where the tasks are: with a client, in the mailbox of a sidecar, or     *)
(* with a replica, every task that has come in exactly one of the places.  *)
(***************************************************************************)
CallOf(q) == [task : {q}]

SpotsOf(S) ==
  {ClientBox(c) : c \in Clients} \cup {SidecarBox(s) : s \in S} \cup {ReplicaBox(r) : r \in Replicas}

(* w says how often each place has q. *)
Presence(q, S, cl, rp, bx, w) ==
  /\ w \in [SpotsOf(S) -> Nat]
  /\ \A c \in Clients : w[ClientBox(c)] = Count(cl[c].queue, CallOf(q))
  /\ \A s \in S : w[SidecarBox(s)] = Count(bx[SidecarBox(s)], HopOf(q))
  /\ \A r \in Replicas : w[ReplicaBox(r)] = InHand(rp[r], bx[ReplicaBox(r)], q)

Placed ==
  \A q \in Tasks : \E w : /\ Presence(q, Sidecars, client, replica, inbox, w)
                          /\ Single(w, SpotsOf(Sidecars), q \in arrived)

Carried(q, h, x, y, S, cl, rp, bx, cn, rn, bn) ==
  /\ \A c \in Clients : Shifts(q, h, x, y, ClientBox(c), Count(cl[c].queue, CallOf(q)),
                               Count(cn[c].queue, CallOf(q)))
  /\ \A s \in S : Shifts(q, h, x, y, SidecarBox(s), Count(bx[SidecarBox(s)], HopOf(q)),
                         Count(bn[SidecarBox(s)], HopOf(q)))
  /\ \A r \in Replicas : Shifts(q, h, x, y, ReplicaBox(r), InHand(rp[r], bx[ReplicaBox(r)], q),
                                InHand(rn[r], bn[ReplicaBox(r)], q))

LEMMA PresenceMoves ==
  ASSUME NEW S, NEW q, NEW h, NEW x, NEW y, NEW cl, NEW rp, NEW bx, NEW cn, NEW rn, NEW bn,
         Carried(q, h, x, y, S, cl, rp, bx, cn, rn, bn),
         NEW w, Presence(q, S, cl, rp, bx, w)
  PROVE  \E n : Presence(q, S, cn, rn, bn, n)
                /\ \A z \in SpotsOf(S) : Shifts(q, h, x, y, z, w[z], n[z])
<1> DEFINE n == [z \in SpotsOf(S) |-> w[z] + OneIf(q = h /\ z = y) - OneIf(q = h /\ z = x)]
<1>1. \A z \in SpotsOf(S) : w[z] \in Nat
  BY DEF Presence
<1>2. \A p : OneIf(p) \in {0, 1}
  BY DEF OneIf
<1>3. ASSUME NEW z \in SpotsOf(S), NEW k, Shifts(q, h, x, y, z, w[z], k)
      PROVE  n[z] = k
  <2>1. OneIf(q = h /\ z = y) \in Int /\ OneIf(q = h /\ z = x) \in Int /\ w[z] \in Int
    BY <1>1, <1>2
  <2>2. k \in Int /\ k + OneIf(q = h /\ z = x) = w[z] + OneIf(q = h /\ z = y)
    BY <1>3 DEF Shifts
  <2>3. n[z] = w[z] + OneIf(q = h /\ z = y) - OneIf(q = h /\ z = x)
    OBVIOUS
  <2> HIDE DEF n
  <2> QED
    BY ONLY <2>1, <2>2, <2>3
<1> HIDE DEF n
<1>4. ASSUME NEW c \in Clients
      PROVE  /\ Shifts(q, h, x, y, ClientBox(c), w[ClientBox(c)], n[ClientBox(c)])
             /\ n[ClientBox(c)] = Count(cn[c].queue, CallOf(q))
  <2>1. ClientBox(c) \in SpotsOf(S)
    BY DEF SpotsOf
  <2>2. Shifts(q, h, x, y, ClientBox(c), w[ClientBox(c)], Count(cn[c].queue, CallOf(q)))
    BY DEF Presence, Carried
  <2> QED
    BY <1>3, <2>1, <2>2
<1>5. ASSUME NEW s \in S
      PROVE  /\ Shifts(q, h, x, y, SidecarBox(s), w[SidecarBox(s)], n[SidecarBox(s)])
             /\ n[SidecarBox(s)] = Count(bn[SidecarBox(s)], HopOf(q))
  <2>1. SidecarBox(s) \in SpotsOf(S)
    BY DEF SpotsOf
  <2>2. Shifts(q, h, x, y, SidecarBox(s), w[SidecarBox(s)], Count(bn[SidecarBox(s)], HopOf(q)))
    BY DEF Presence, Carried
  <2> QED
    BY <1>3, <2>1, <2>2
<1>6. ASSUME NEW r \in Replicas
      PROVE  /\ Shifts(q, h, x, y, ReplicaBox(r), w[ReplicaBox(r)], n[ReplicaBox(r)])
             /\ n[ReplicaBox(r)] = InHand(rn[r], bn[ReplicaBox(r)], q)
  <2>1. ReplicaBox(r) \in SpotsOf(S)
    BY DEF SpotsOf
  <2>2. Shifts(q, h, x, y, ReplicaBox(r), w[ReplicaBox(r)], InHand(rn[r], bn[ReplicaBox(r)], q))
    BY DEF Presence, Carried
  <2> QED
    BY <1>3, <2>1, <2>2
<1>7. \A z \in SpotsOf(S) : Shifts(q, h, x, y, z, w[z], n[z])
  BY <1>4, <1>5, <1>6 DEF SpotsOf
<1>8. n \in [SpotsOf(S) -> Nat]
  BY <1>7 DEF n, Shifts
<1> QED
  BY <1>4, <1>5, <1>6, <1>7, <1>8 DEF Presence

LEMMA PlacedMoves ==
  ASSUME Placed, config' = config, NEW h, NEW x, NEW y \in SpotsOf(Sidecars),
         \A q \in Tasks : Comes(q, h, x, SpotsOf(Sidecars), q \in arrived, q \in arrived'),
         \A q \in Tasks : Carried(q, h, x, y, Sidecars, client, replica, inbox, client', replica', inbox')
  PROVE  Placed'
<1>1. Sidecars' = Sidecars
  BY SameGroups
<1> SUFFICES ASSUME NEW q \in Tasks
             PROVE  \E n : /\ Presence(q, Sidecars, client', replica', inbox', n)
                           /\ Single(n, SpotsOf(Sidecars), q \in arrived')
  BY <1>1 DEF Placed
<1>2. PICK w : /\ Presence(q, Sidecars, client, replica, inbox, w)
               /\ Single(w, SpotsOf(Sidecars), q \in arrived)
  BY DEF Placed
<1>3. PICK n : /\ Presence(q, Sidecars, client', replica', inbox', n)
               /\ \A z \in SpotsOf(Sidecars) : Shifts(q, h, x, y, z, w[z], n[z])
  BY <1>2, PresenceMoves
<1>4. w \in [SpotsOf(Sidecars) -> Nat] /\ n \in [SpotsOf(Sidecars) -> Nat]
  BY <1>2, <1>3 DEF Presence
<1>5. Single(n, SpotsOf(Sidecars), q \in arrived')
  <2>1. Comes(q, h, x, SpotsOf(Sidecars), q \in arrived, q \in arrived')
    OBVIOUS
  <2> QED
    BY ONLY <1>2, <1>3, <1>4, <2>1, y \in SpotsOf(Sidecars), SingleMoves
<1> QED
  BY <1>3, <1>5

-----------------------------------------------------------------------------
(* What holds in every state *)

AllCounted == \A r \in Replicas : Counted(r, inbox[ReplicaBox(r)], replica[r])

AllFull == \A r \in Replicas : Full(replica[r])

(* The mailbox of the sidecar of r, and what the sidecar knows of r *)
EventsOf(r) == inbox[SidecarBox(SidecarId(r))]
OccOf(r)    == sidecar[SidecarId(r)].occupancy[r]

Reported ==
  \A r \in Replicas : HeardOf(EventsOf(r), r, OccOf(r), inbox[ReplicaBox(r)], replica[r])

(* The calls pulled for r that are under way *)
UnderWay(r) == Across(ClientMail(inbox), Clients, Pulls(r)) + Count(inbox[ReplicaBox(r)], PulledCalls)

Reserved ==
  \A r \in Replicas :
    sidecar[SidecarId(r)].pending_pulls[r] = UnderWay(r) + Count(EventsOf(r), Arrivals(r))

InSlots ==
  \A r \in Replicas : UnderWay(r) + Cardinality(Pulled(replica[r])) <= MaxConcurrency

PullInv == Types /\ AllCounted /\ AllFull /\ Placed /\ Reported /\ Reserved /\ InSlots

(* Of a task in one place, each place has one at most. *)
LEMMA AllSane ==
  ASSUME AllCounted, Placed
  PROVE  \A r \in Replicas : Sane(r, inbox[ReplicaBox(r)], replica[r])
<1> SUFFICES ASSUME NEW r \in Replicas, NEW q \in Tasks
             PROVE  InHand(replica[r], inbox[ReplicaBox(r)], q) <= 1
  BY DEF AllCounted, Sane
<1>1. PICK w : /\ Presence(q, Sidecars, client, replica, inbox, w)
               /\ Single(w, SpotsOf(Sidecars), q \in arrived)
  BY DEF Placed
<1>2. ReplicaBox(r) \in SpotsOf(Sidecars)
  BY DEF SpotsOf
<1>3. w[ReplicaBox(r)] = InHand(replica[r], inbox[ReplicaBox(r)], q)
  BY <1>1 DEF Presence
<1>4. w[ReplicaBox(r)] = 0 \/ w[ReplicaBox(r)] = 1
  BY <1>1, <1>2 DEF Single
<1> QED
  BY <1>3, <1>4

(* A task found in one place is in no other. *)
LEMMA FoundOnce ==
  ASSUME Placed, NEW q \in Tasks
  PROVE  \E w : /\ Presence(q, Sidecars, client, replica, inbox, w)
                /\ \A x, y \in SpotsOf(Sidecars) : w[x] # 0 /\ x # y => w[y] = 0
                /\ \A x \in SpotsOf(Sidecars) : w[x] # 0 => w[x] = 1 /\ q \in arrived
<1>1. PICK w : /\ Presence(q, Sidecars, client, replica, inbox, w)
               /\ Single(w, SpotsOf(Sidecars), q \in arrived)
  BY DEF Placed
<1>2. \A x, y \in SpotsOf(Sidecars) : w[x] # 0 /\ x # y => w[y] = 0
  BY <1>1 DEF Single
<1>3. \A x \in SpotsOf(Sidecars) : w[x] # 0 => w[x] = 1 /\ q \in arrived
  BY <1>1 DEF Single
<1> QED
  BY <1>1, <1>2, <1>3

-----------------------------------------------------------------------------
(* A handler of a replica, in the whole model *)

Handled(r, c, u) ==
  /\ UNCHANGED <<config, arrived, client, sidecar, edge>>
  /\ replica' = [replica EXCEPT ![r] = [u EXCEPT !.events = <<>>, !.released = 0]]
  /\ inbox' = [x \in Boxes |-> inbox'[x]]
  /\ inbox'[ReplicaBox(r)] = c
  /\ \A o \in Replicas \ {r} : inbox'[ReplicaBox(o)] = inbox[ReplicaBox(o)]
  /\ inbox'[SidecarBox(SidecarId(r))] = EventsOf(r) \o u.events
  /\ \A s \in Sidecars \ {SidecarId(r)} : inbox'[SidecarBox(s)] = inbox[SidecarBox(s)]
  /\ inbox'[EdgeBox] = inbox[EdgeBox] \o [i \in 1 .. u.released |-> Release(r)]
  /\ \A a \in Clients : inbox'[ClientBox(a)] = inbox[ClientBox(a)]

LEMMA ReplicaBecomesIs ==
  ASSUME Types, NEW r \in Replicas, NEW c, NEW u,
         NEW boxes, boxes = [inbox EXCEPT ![ReplicaBox(r)] = c], ReplicaBecomes(r, u, boxes)
  PROVE  Handled(r, c, u)
<1>1. /\ inbox = [x \in Boxes |-> inbox[x]]
      /\ config \in [share : Shares, pull_sched : Scheds, scheduling : Schedulings]
  BY DEF Types, Mailboxes
<1>2. /\ \A a \in Clients : ClientBox(a) \in Boxes
      /\ \A s \in Sidecars : SidecarBox(s) \in Boxes
      /\ \A o \in Replicas : ReplicaBox(o) \in Boxes
      /\ EdgeBox \in Boxes /\ SidecarId(r) \in Sidecars
  BY <1>1, BoxesAre, MembersAre
<1> DEFINE sb == SidecarBox(SidecarId(r))
           rb == ReplicaBox(r)
           rel == [i \in 1 .. u.released |-> Release(r)]
<1>3. inbox' = [boxes EXCEPT ![sb] = @ \o u.events, ![EdgeBox] = @ \o rel]
  BY DEF ReplicaBecomes
<1>4. sb # rb /\ sb # EdgeBox /\ rb # EdgeBox
  BY BoxesDiffer
<1>5. sb \in Boxes /\ rb \in Boxes
  BY <1>2
<1>6. UNCHANGED <<config, arrived, client, sidecar, edge>>
  BY DEF ReplicaBecomes
<1>7. replica' = [replica EXCEPT ![r] = [u EXCEPT !.events = <<>>, !.released = 0]]
  BY DEF ReplicaBecomes
<1> HIDE DEF sb, rb, rel
<1>8. boxes = [inbox EXCEPT ![rb] = c]
  BY DEF rb
<1>9. /\ inbox' = [x \in Boxes |-> inbox'[x]]
      /\ inbox'[rb] = c
      /\ inbox'[sb] = inbox[sb] \o u.events
      /\ inbox'[EdgeBox] = inbox[EdgeBox] \o rel
      /\ \A x \in Boxes \ {rb, sb, EdgeBox} : inbox'[x] = inbox[x]
  BY ONLY <1>1, <1>2, <1>3, <1>4, <1>5, <1>8
<1>10. \A o \in Replicas \ {r} : ReplicaBox(o) \in Boxes \ {rb, sb, EdgeBox}
  BY <1>2, BoxesDiffer DEF rb, sb
<1>11. \A s \in Sidecars \ {SidecarId(r)} : SidecarBox(s) \in Boxes \ {rb, sb, EdgeBox}
  BY <1>2, BoxesDiffer DEF rb, sb
<1>12. \A a \in Clients : ClientBox(a) \in Boxes \ {rb, sb, EdgeBox}
  BY <1>2, BoxesDiffer DEF rb, sb
<1>13. EventsOf(r) = inbox[sb]
  BY DEF EventsOf, sb
<1>14. \A o \in Replicas \ {r} : inbox'[ReplicaBox(o)] = inbox[ReplicaBox(o)]
  BY ONLY <1>9, <1>10
<1>15. \A s \in Sidecars \ {SidecarId(r)} : inbox'[SidecarBox(s)] = inbox[SidecarBox(s)]
  BY ONLY <1>9, <1>11
<1>16. \A a \in Clients : inbox'[ClientBox(a)] = inbox[ClientBox(a)]
  BY ONLY <1>9, <1>12
<1>17. inbox'[SidecarBox(SidecarId(r))] = EventsOf(r) \o u.events
  BY <1>9, <1>13 DEF sb
<1>18. inbox'[ReplicaBox(r)] = c
  BY <1>9 DEF rb
<1>19. inbox'[EdgeBox] = inbox[EdgeBox] \o [i \in 1 .. u.released |-> Release(r)]
  BY <1>9 DEF rel
<1>20. inbox' = [x \in Boxes |-> inbox'[x]]
  BY ONLY <1>9
<1> QED
  BY <1>6, <1>7, <1>14, <1>15, <1>16, <1>17, <1>18, <1>19, <1>20 DEF Handled

(* The state functions after a step *)
LEMMA NextIs ==
  ASSUME config' = config
  PROVE  /\ \A r : EventsOf(r)' = inbox'[SidecarBox(SidecarId(r))]
         /\ \A r : OccOf(r)' = sidecar'[SidecarId(r)].occupancy[r]
         /\ \A r : UnderWay(r)' = Across(ClientMail(inbox'), Clients, Pulls(r))
                                    + Count(inbox'[ReplicaBox(r)], PulledCalls)
<1>1. (\A r : SidecarId(r)' = SidecarId(r)) /\ (\A r : Pulls(r)' = Pulls(r))
  BY SameGroups
<1>2. \A r : EventsOf(r)' = inbox'[SidecarBox(SidecarId(r))]
  BY <1>1 DEF EventsOf
<1>3. \A r : OccOf(r)' = sidecar'[SidecarId(r)].occupancy[r]
  BY <1>1 DEF OccOf
<1>4. \A r : UnderWay(r)' = Across(ClientMail(inbox'), Clients, Pulls(r))
                              + Count(inbox'[ReplicaBox(r)], PulledCalls)
  BY <1>1 DEF UnderWay
<1> QED
  BY <1>2, <1>3, <1>4

Handles(r, c, u) ==
  /\ Handled(r, c, u)
  /\ HandledBy(r, inbox[ReplicaBox(r)], replica[r], c, u, EventsOf(r), OccOf(r))

(* What is kept of u, and what is left as it was *)
LEMMA HandlesIs ==
  ASSUME Types, NEW r \in Replicas, NEW c, NEW u, Handles(r, c, u)
  PROVE  /\ Counted(r, c, u) /\ Counted(r, c, replica'[r]) /\ replica'[r] \in ReplicaState
         /\ \A q \in Tasks : InHand(replica'[r], c, q) = InHand(u, c, q)
         /\ Pulled(replica'[r]) = Pulled(u) /\ OccupancyLevel(replica'[r]) = OccupancyLevel(u)
         /\ Full(u) => Full(replica'[r])
         /\ \A o \in Replicas \ {r} : replica'[o] = replica[o]
         /\ replica'[r].queue = u.queue /\ replica'[r].in_flight = u.in_flight
         /\ replica'[r].serving = u.serving /\ replica'[r].calling = u.calling
         /\ replica'[r].done = u.done
         /\ ClientMail(inbox') = ClientMail(inbox)
         /\ inbox'[ReplicaBox(r)] = c
<1> DEFINE z == [u EXCEPT !.events = <<>>, !.released = 0]
<1>1. Counted(r, c, u) /\ u \in Working(r)
  BY DEF Handles, HandledBy, Sane, Counted
<1>2. replica \in [Replicas -> ReplicaState]
  BY DEF Types
<1>3. replica' = [replica EXCEPT ![r] = z]
  BY DEF Handles, Handled
<1>4. /\ z \in ReplicaState /\ z \in Working(r)
      /\ z.queue = u.queue /\ z.in_flight = u.in_flight /\ z.serving = u.serving
      /\ z.calling = u.calling /\ z.done = u.done
  <2>1. u \in Working(r)
    BY <1>1
  <2>2. /\ z.queue = u.queue /\ z.in_flight = u.in_flight /\ z.serving = u.serving
        /\ z.calling = u.calling /\ z.done = u.done
    BY ONLY <2>1 DEF Working, z
  <2>3. z \in Working(r)
    <3>1. <<>> \in Seq(EventMail(r)) /\ 0 \in Nat
      OBVIOUS
    <3> HIDE DEF EventMail
    <3>2. PICK n, z0 : n = <<>> /\ z0 = 0 /\ n \in Seq(EventMail(r)) /\ z0 \in Nat
      BY <3>1
    <3>3. z = [u EXCEPT !.events = n, !.released = z0]
      BY <3>2 DEF z
    <3>4. n \in Seq(EventMail(r)) /\ z0 \in Nat
      BY <3>2
    <3> QED
      BY ONLY <2>1, <3>3, <3>4 DEF Working
  <2>4. z \in ReplicaState
    BY ONLY <2>1 DEF Working, ReplicaState, z
  <2> QED
    BY ONLY <2>2, <2>3, <2>4
<1> HIDE DEF z
<1>5. replica'[r] = z /\ \A o \in Replicas \ {r} : replica'[o] = replica[o]
  BY <1>2, <1>3
<1>6. Counted(r, c, z)
  BY ONLY <1>1, <1>4 DEF Counted
<1>7. \A q \in Tasks : InHand(z, c, q) = InHand(u, c, q)
  BY <1>4 DEF InHand
<1>8. Pulled(z) = Pulled(u) /\ OccupancyLevel(z) = OccupancyLevel(u) /\ (Full(u) => Full(z))
  BY <1>4 DEF Pulled, OccupancyLevel, Full
<1>9. ClientMail(inbox') = ClientMail(inbox)
  BY DEF Handles, Handled, ClientMail
<1>10. inbox'[ReplicaBox(r)] = c
  BY DEF Handles, Handled
<1> QED
  BY <1>1, <1>4, <1>5, <1>6, <1>7, <1>8, <1>9, <1>10

LEMMA HandlesTypes ==
  ASSUME Types, NEW r \in Replicas, NEW c, NEW u, Handles(r, c, u)
  PROVE  Types'
<1>1. /\ Counted(r, c, u) /\ replica'[r] \in ReplicaState
      /\ \A o \in Replicas \ {r} : replica'[o] = replica[o]
  BY HandlesIs
<1>2. Handled(r, c, u)
  BY DEF Handles
<1>3. UNCHANGED <<config, arrived, client, sidecar, edge>>
  BY <1>2 DEF Handled
<1>4. /\ Sidecars' = Sidecars /\ PullMail' = PullMail /\ ClientState' = ClientState
      /\ (\A s : SidecarMail(s)' = SidecarMail(s)) /\ EdgeMail' = EdgeMail
      /\ \A s : SidecarState(s)' = SidecarState(s)
  BY <1>3, SameGroups
<1>5. config \in [share : Shares, pull_sched : Scheds, scheduling : Schedulings]
  BY DEF Types
<1>6. SidecarId(r) \in Sidecars /\ r \in Members(SidecarId(r))
  BY <1>5, MembersAre
<1>7. u \in Working(r) /\ c \in Seq(Work)
  BY <1>1 DEF Counted
<1>8. inbox'[SidecarBox(SidecarId(r))] \in Seq(SidecarMail(SidecarId(r)))
  <2>1. EventMail(r) \subseteq SidecarMail(SidecarId(r))
    BY <1>6 DEF SidecarMail
  <2>2. u.events \in Seq(SidecarMail(SidecarId(r)))
    BY <1>7, <2>1 DEF Working
  <2>3. EventsOf(r) \in Seq(SidecarMail(SidecarId(r)))
    BY <1>6 DEF Types, Mailboxes, EventsOf
  <2>4. inbox'[SidecarBox(SidecarId(r))] = EventsOf(r) \o u.events
    BY <1>2 DEF Handled
  <2> QED
    BY ONLY <2>2, <2>3, <2>4
<1>9. inbox'[EdgeBox] \in Seq(EdgeMail)
  <2>1. [i \in 1 .. u.released |-> Release(r)] \in Seq(EdgeMail)
    <3>1. Release(r) \in EdgeMail
      BY <1>6 DEF Release, EdgeMail
    <3>2. u.released \in Nat
      BY <1>7 DEF Working
    <3> QED
      BY ONLY <3>1, <3>2
  <2>2. inbox[EdgeBox] \in Seq(EdgeMail)
    BY DEF Types, Mailboxes
  <2>3. inbox'[EdgeBox] = inbox[EdgeBox] \o [i \in 1 .. u.released |-> Release(r)]
    BY <1>2 DEF Handled
  <2> QED
    BY ONLY <2>1, <2>2, <2>3
<1>10. /\ inbox' = [x \in Boxes |-> inbox'[x]]
       /\ \A a \in Clients : inbox'[ClientBox(a)] \in Seq(PullMail)
       /\ \A s \in Sidecars : inbox'[SidecarBox(s)] \in Seq(SidecarMail(s))
       /\ \A o \in Replicas : inbox'[ReplicaBox(o)] \in Seq(Work)
  <2>1. \A a \in Clients : inbox'[ClientBox(a)] \in Seq(PullMail)
    BY <1>2 DEF Handled, Types, Mailboxes
  <2>2. \A s \in Sidecars : inbox'[SidecarBox(s)] \in Seq(SidecarMail(s))
    <3> TAKE s \in Sidecars
    <3>1. CASE s = SidecarId(r)
      BY <1>8, <3>1
    <3>2. CASE s # SidecarId(r)
      BY <1>2, <3>2 DEF Handled, Types, Mailboxes
    <3> QED
      BY <3>1, <3>2
  <2>3. \A o \in Replicas : inbox'[ReplicaBox(o)] \in Seq(Work)
    <3> TAKE o \in Replicas
    <3>1. CASE o = r
      BY <1>2, <1>7, <3>1 DEF Handled
    <3>2. CASE o # r
      BY <1>2, <3>2 DEF Handled, Types, Mailboxes
    <3> QED
      BY <3>1, <3>2
  <2>4. inbox' = [x \in Boxes |-> inbox'[x]]
    BY <1>2 DEF Handled
  <2> QED
    BY <2>1, <2>2, <2>3, <2>4
<1>11. Mailboxes'
  BY <1>4, <1>9, <1>10 DEF Mailboxes
<1>12. replica' \in [Replicas -> ReplicaState]
  <2>1. replica \in [Replicas -> ReplicaState]
    BY DEF Types
  <2>2. replica' = [replica EXCEPT ![r] = [u EXCEPT !.events = <<>>, !.released = 0]]
    BY <1>2 DEF Handled
  <2>3. \A o \in Replicas : replica'[o] \in ReplicaState
    BY <1>1, <2>1
  <2> QED
    BY <2>1, <2>2, <2>3
<1> QED
  BY <1>3, <1>4, <1>11, <1>12 DEF Types

(* What others say of r, or of tasks, is none of what r says. *)
LEMMA EventsApart ==
  ASSUME NEW r, NEW l \in Seq(EventMail(r))
  PROVE  /\ \A q : Count(l, HopOf(q)) = 0
         /\ \A c : Count(l, IntentsOf(c)) = 0
         /\ \A o : o # r => /\ Count(l, Arrivals(o)) = 0
                            /\ \A i \in DOMAIN l : Foreign(l[i], o)
<1>1. \A i \in DOMAIN l : l[i] \in EventMail(r)
  OBVIOUS
<1>2. \A m \in EventMail(r) : /\ \A q : m \notin HopOf(q)
                              /\ \A c : m \notin IntentsOf(c)
                              /\ \A o : o # r => m \notin Arrivals(o) /\ m \notin Reports(o)
  BY DEF EventMail, Arrivals, Completions, Reports, HopOf, IntentsOf
<1>3. \A q : \A i \in DOMAIN l : l[i] \notin HopOf(q)
  BY <1>1, <1>2
<1>4. \A c : \A i \in DOMAIN l : l[i] \notin IntentsOf(c)
  BY <1>1, <1>2
<1>5. \A o : o # r => \A i \in DOMAIN l : l[i] \notin Arrivals(o) /\ l[i] \notin Reports(o)
  BY <1>1, <1>2
<1>6. \A q : Count(l, HopOf(q)) = 0
  BY <1>3, CountNone
<1>7. \A c : Count(l, IntentsOf(c)) = 0
  BY <1>4, CountNone
<1>8. \A o : o # r => Count(l, Arrivals(o)) = 0
  BY <1>5, CountNone
<1>9. \A o : o # r => \A i \in DOMAIN l : Foreign(l[i], o)
  BY <1>5 DEF Foreign
<1> QED
  BY <1>6, <1>7, <1>8, <1>9

LEMMA SpotsAre ==
  /\ \A c \in Clients : ClientBox(c) \in SpotsOf(Sidecars)
  /\ \A s \in Sidecars : SidecarBox(s) \in SpotsOf(Sidecars)
  /\ \A r \in Replicas : ReplicaBox(r) \in SpotsOf(Sidecars)
  /\ EdgeBox \notin SpotsOf(Sidecars)
BY BoxesDiffer DEF SpotsOf

(* Nothing changes, or the same goes and comes. *)
LEMMA ShiftsNone ==
  ASSUME NEW q, NEW h, NEW x, NEW z, NEW k \in Nat
  PROVE  Shifts(q, h, x, x, z, k, k)
BY DEF Shifts, OneIf

LEMMA ComesNone ==
  ASSUME NEW q, NEW h, NEW D, NEW x \in D, NEW p
  PROVE  Comes(q, h, x, D, p, p)
BY DEF Comes

LEMMA Naturals ==
  ASSUME Types, AllCounted
  PROVE  \A q : /\ \A c \in Clients : Count(client[c].queue, CallOf(q)) \in Nat
                /\ \A s \in Sidecars : Count(inbox[SidecarBox(s)], HopOf(q)) \in Nat
                /\ \A r \in Replicas : InHand(replica[r], inbox[ReplicaBox(r)], q) \in Nat
<1> SUFFICES ASSUME NEW q
             PROVE  /\ \A c \in Clients : Count(client[c].queue, CallOf(q)) \in Nat
                    /\ \A s \in Sidecars : Count(inbox[SidecarBox(s)], HopOf(q)) \in Nat
                    /\ \A r \in Replicas : InHand(replica[r], inbox[ReplicaBox(r)], q) \in Nat
  OBVIOUS
<1>1. \A c \in Clients : client[c].queue \in Seq([task : Calls])
  BY DEF Types, ClientState
<1>2. \A c \in Clients : Count(client[c].queue, CallOf(q)) \in Nat
  BY <1>1, CountFinite
<1>3. \A s \in Sidecars : inbox[SidecarBox(s)] \in Seq(SidecarMail(s))
  BY DEF Types, Mailboxes
<1>4. \A s \in Sidecars : Count(inbox[SidecarBox(s)], HopOf(q)) \in Nat
  BY <1>3, CountFinite
<1>5. \A r \in Replicas : InHand(replica[r], inbox[ReplicaBox(r)], q) \in Nat
  BY InHandParts DEF AllCounted
<1> QED
  BY <1>2, <1>4, <1>5

LEMMA HandlesPlaced ==
  ASSUME Types, AllCounted, Placed, NEW r \in Replicas, NEW c, NEW u, Handles(r, c, u)
  PROVE  Placed'
<1> DEFINE x == ReplicaBox(r)
<1>1. Handled(r, c, u) /\ SameTasks(inbox[ReplicaBox(r)], replica[r], c, u)
  BY DEF Handles, HandledBy
<1>2. config' = config /\ arrived' = arrived /\ client' = client
  BY <1>1 DEF Handled
<1>3. x \in SpotsOf(Sidecars)
  BY SpotsAre
<1>4. /\ \A q \in Tasks : InHand(replica'[r], c, q) = InHand(u, c, q)
      /\ \A o \in Replicas \ {r} : replica'[o] = replica[o]
      /\ u \in Working(r) /\ inbox'[ReplicaBox(r)] = c
  BY HandlesIs DEF Counted
<1>5. u.events \in Seq(EventMail(r)) /\ SidecarId(r) \in Sidecars
  BY <1>4, MembersAre DEF Working, Types
<1> HIDE DEF x
<1>6. ASSUME NEW q \in Tasks
      PROVE  Carried(q, 0, x, x, Sidecars, client, replica, inbox, client', replica', inbox')
  <2>1. ASSUME NEW a \in Clients
        PROVE  Shifts(q, 0, x, x, ClientBox(a), Count(client[a].queue, CallOf(q)),
                      Count(client'[a].queue, CallOf(q)))
    BY <1>2, Naturals, ShiftsNone
  <2>2. ASSUME NEW s \in Sidecars
        PROVE  Shifts(q, 0, x, x, SidecarBox(s), Count(inbox[SidecarBox(s)], HopOf(q)),
                      Count(inbox'[SidecarBox(s)], HopOf(q)))
    <3>1. Count(inbox'[SidecarBox(s)], HopOf(q)) = Count(inbox[SidecarBox(s)], HopOf(q))
      <4>1. CASE s = SidecarId(r)
        <5>1. EventsOf(r) \in Seq(SidecarMail(s)) /\ u.events \in Seq(SidecarMail(s))
          <6>1. EventMail(r) \subseteq SidecarMail(s)
            BY <4>1, MembersAre DEF SidecarMail, Types
          <6>2. u.events \in Seq(SidecarMail(s))
            BY ONLY <1>5, <6>1
          <6>3. EventsOf(r) \in Seq(SidecarMail(s))
            BY <1>5, <4>1 DEF EventsOf, Types, Mailboxes
          <6> QED
            BY ONLY <6>2, <6>3
        <5>2. Count(EventsOf(r) \o u.events, HopOf(q)) = Count(EventsOf(r), HopOf(q)) + Count(u.events, HopOf(q))
          BY <5>1, CountConcat
        <5>3. Count(u.events, HopOf(q)) = 0
          BY <1>5, EventsApart
        <5>4. Count(EventsOf(r), HopOf(q)) \in Nat
          BY <5>1, CountFinite
        <5>5. inbox'[SidecarBox(s)] = EventsOf(r) \o u.events /\ inbox[SidecarBox(s)] = EventsOf(r)
          BY <1>1, <4>1 DEF Handled, EventsOf
        <5> QED
          BY <5>2, <5>3, <5>4, <5>5
      <4>2. CASE s # SidecarId(r)
        BY <1>1, <4>2 DEF Handled
      <4> QED
        BY <4>1, <4>2
    <3>2. Count(inbox[SidecarBox(s)], HopOf(q)) \in Nat
      BY Naturals
    <3> QED
      BY <3>1, <3>2, ShiftsNone
  <2>3. ASSUME NEW o \in Replicas
        PROVE  Shifts(q, 0, x, x, ReplicaBox(o), InHand(replica[o], inbox[ReplicaBox(o)], q),
                      InHand(replica'[o], inbox'[ReplicaBox(o)], q))
    <3>1. InHand(replica'[o], inbox'[ReplicaBox(o)], q) = InHand(replica[o], inbox[ReplicaBox(o)], q)
      <4>1. CASE o = r
        BY <1>1, <1>4, <4>1 DEF SameTasks
      <4>2. CASE o # r
        <5>1. replica'[o] = replica[o] /\ inbox'[ReplicaBox(o)] = inbox[ReplicaBox(o)]
          BY <1>1, <1>4, <4>2 DEF Handled
        <5> QED
          BY <5>1
      <4> QED
        BY <4>1, <4>2
    <3>2. InHand(replica[o], inbox[ReplicaBox(o)], q) \in Nat
      BY Naturals
    <3> QED
      BY <3>1, <3>2, ShiftsNone
  <2> QED
    BY <2>1, <2>2, <2>3 DEF Carried
<1>7. \A q \in Tasks : Comes(q, 0, x, SpotsOf(Sidecars), q \in arrived, q \in arrived')
  BY <1>2, <1>3, ComesNone
<1> QED
  BY ONLY <1>2, <1>3, <1>6, <1>7, Placed, PlacedMoves

LEMMA HandlesReported ==
  ASSUME Types, AllCounted, Reported, NEW r \in Replicas, NEW c, NEW u, Handles(r, c, u)
  PROVE  Reported'
<1>1. Handled(r, c, u) /\ HeardOf(EventsOf(r) \o u.events, r, OccOf(r), c, u)
  BY DEF Handles, HandledBy
<1>2. UNCHANGED <<config, sidecar>>
  BY <1>1 DEF Handled
<1>3. /\ \A o : EventsOf(o)' = inbox'[SidecarBox(SidecarId(o))]
      /\ \A o : OccOf(o)' = OccOf(o)
  BY <1>2, NextIs DEF OccOf
<1>4. /\ Pulled(replica'[r]) = Pulled(u) /\ OccupancyLevel(replica'[r]) = OccupancyLevel(u)
      /\ \A o \in Replicas \ {r} : replica'[o] = replica[o]
      /\ u \in Working(r) /\ inbox'[ReplicaBox(r)] = c
  BY HandlesIs DEF Counted
<1>5. u.events \in Seq(EventMail(r)) /\ SidecarId(r) \in Sidecars /\ r \in Members(SidecarId(r))
  BY <1>4, MembersAre DEF Working, Types
<1> SUFFICES ASSUME NEW o \in Replicas
             PROVE  HeardOf(inbox'[SidecarBox(SidecarId(o))], o, OccOf(o), inbox'[ReplicaBox(o)], replica'[o])
  BY <1>3 DEF Reported
<1>6. HeardOf(EventsOf(o), o, OccOf(o), inbox[ReplicaBox(o)], replica[o])
  BY DEF Reported
<1>7. CASE o = r
  <2>1. inbox'[SidecarBox(SidecarId(o))] = EventsOf(r) \o u.events
    BY <1>1, <1>7 DEF Handled
  <2> QED
    BY <1>1, <1>4, <1>7, <2>1 DEF HeardOf
<1>8. CASE o # r
  <2>1. replica'[o] = replica[o] /\ inbox'[ReplicaBox(o)] = inbox[ReplicaBox(o)]
    BY <1>1, <1>4, <1>8 DEF Handled
  <2>2. CASE SidecarId(o) = SidecarId(r)
    <3>1. inbox'[SidecarBox(SidecarId(o))] = EventsOf(o) \o u.events
      BY <1>1, <2>2 DEF Handled, EventsOf
    <3>2. EventMail(r) \subseteq SidecarMail(SidecarId(r))
      BY <1>5 DEF SidecarMail
    <3>3. u.events \in Seq(SidecarMail(SidecarId(r)))
      BY ONLY <1>5, <3>2
    <3>4. EventsOf(o) \in Seq(SidecarMail(SidecarId(r)))
      BY <1>5, <2>2 DEF EventsOf, Types, Mailboxes
    <3>5. \A i \in DOMAIN u.events : Foreign(u.events[i], o)
      <4>1. u.events \in Seq(EventMail(r))
        BY <1>5
      <4>2. \A m \in EventMail(r) : Foreign(m, o)
        BY <1>8 DEF EventMail, Arrivals, Completions, Reports, Foreign
      <4>3. \A i \in DOMAIN u.events : u.events[i] \in EventMail(r)
        BY ONLY <4>1
      <4> QED
        BY ONLY <4>2, <4>3
    <3>6. Heard(EventsOf(o), o, OccOf(o), Cardinality(Pulled(replica[o])), OccupancyLevel(replica[o]),
                Count(inbox[ReplicaBox(o)], PushedTasks))
      BY <1>6 DEF HeardOf
    <3>7. Heard(EventsOf(o) \o u.events, o, OccOf(o), Cardinality(Pulled(replica[o])),
                OccupancyLevel(replica[o]), Count(inbox[ReplicaBox(o)], PushedTasks))
      BY ONLY <3>3, <3>4, <3>5, <3>6, HeardMore
    <3> QED
      BY <2>1, <3>1, <3>7 DEF HeardOf
  <2>3. CASE SidecarId(o) # SidecarId(r)
    <3>1. SidecarId(o) \in Sidecars
      BY MembersAre DEF Types
    <3>2. inbox'[SidecarBox(SidecarId(o))] = EventsOf(o)
      BY <1>1, <2>3, <3>1 DEF Handled, EventsOf
    <3> QED
      BY <1>6, <2>1, <3>2
  <2> QED
    BY <2>2, <2>3
<1> QED
  BY <1>7, <1>8

(* What a replica hears and says about pulls *)
LEMMA HandlesUnderWay ==
  ASSUME Types, AllCounted, NEW r \in Replicas, NEW c, NEW u, Handles(r, c, u)
  PROVE  /\ \A o \in Replicas : /\ UnderWay(o) \in Nat /\ UnderWay(o)' \in Nat
                                /\ Count(EventsOf(o), Arrivals(o)) \in Nat
         /\ \A o \in Replicas \ {r} : /\ UnderWay(o)' = UnderWay(o)
                                      /\ Count(EventsOf(o)', Arrivals(o)) = Count(EventsOf(o), Arrivals(o))
         /\ UnderWay(r)' + Count(EventsOf(r)', Arrivals(r)) = UnderWay(r) + Count(EventsOf(r), Arrivals(r))
         /\ UnderWay(r)' + Cardinality(Pulled(replica'[r])) <= UnderWay(r) + Cardinality(Pulled(replica[r]))
<1>1. /\ Handled(r, c, u)
      /\ Count(c, PulledCalls) + Count(u.events, Arrivals(r)) = Count(inbox[ReplicaBox(r)], PulledCalls)
      /\ Count(c, PulledCalls) + Cardinality(Pulled(u))
           <= Count(inbox[ReplicaBox(r)], PulledCalls) + Cardinality(Pulled(replica[r]))
  BY DEF Handles, HandledBy
<1>2. config' = config /\ inbox'[ReplicaBox(r)] = c
  BY <1>1 DEF Handled
<1>3. /\ \A o : EventsOf(o)' = inbox'[SidecarBox(SidecarId(o))]
      /\ \A o : UnderWay(o)' = Across(ClientMail(inbox'), Clients, Pulls(o))
                                 + Count(inbox'[ReplicaBox(o)], PulledCalls)
  BY <1>2, NextIs
<1>4. /\ ClientMail(inbox') = ClientMail(inbox) /\ Pulled(replica'[r]) = Pulled(u)
      /\ u \in Working(r) /\ Counted(r, c, u)
  BY HandlesIs DEF Counted
<1>5. u.events \in Seq(EventMail(r)) /\ SidecarId(r) \in Sidecars /\ r \in Members(SidecarId(r))
  BY <1>4, MembersAre DEF Working, Types
<1>6. \A o : Across(ClientMail(inbox), Clients, Pulls(o)) \in Nat
  <2>1. AreQueues(ClientMail(inbox), Clients, PullMail)
    BY DEF AreQueues, ClientMail, Types, Mailboxes
  <2>2. \A T : IsFiniteSet(UNION {Matches(ClientMail(inbox), d, T) : d \in Clients})
    BY <2>1, SidecarAssumption, MatchesFinite
  <2> QED
    BY <2>2, FS_CardinalityType DEF Across
<1>7. \A o \in Replicas : inbox[ReplicaBox(o)] \in Seq(Work) /\ c \in Seq(Work)
  BY <1>4 DEF Types, Mailboxes, Counted
<1>8. \A o \in Replicas : Count(inbox[ReplicaBox(o)], PulledCalls) \in Nat /\ Count(c, PulledCalls) \in Nat
  BY <1>7, CountFinite
<1>9. \A o \in Replicas : SidecarId(o) \in Sidecars /\ EventsOf(o) \in Seq(SidecarMail(SidecarId(o)))
  BY MembersAre DEF EventsOf, Types, Mailboxes
<1>10. \A o \in Replicas : \A T : Count(EventsOf(o), T) \in Nat
  BY <1>9, CountFinite
<1>11. EventMail(r) \subseteq SidecarMail(SidecarId(r))
  BY <1>5 DEF SidecarMail
<1>12. u.events \in Seq(SidecarMail(SidecarId(r)))
  BY ONLY <1>5, <1>11
<1>13. ASSUME NEW o \in Replicas
       PROVE  Count(EventsOf(o)', Arrivals(o)) = Count(EventsOf(o), Arrivals(o))
                + IF SidecarId(o) = SidecarId(r) THEN Count(u.events, Arrivals(o)) ELSE 0
  <2>1. CASE SidecarId(o) = SidecarId(r)
    <3>1. EventsOf(o)' = EventsOf(o) \o u.events
      BY <1>1, <1>3, <2>1 DEF Handled, EventsOf
    <3>2. EventsOf(o) \in Seq(SidecarMail(SidecarId(r)))
      BY <1>9, <2>1
    <3>3. Count(EventsOf(o) \o u.events, Arrivals(o)) = Count(EventsOf(o), Arrivals(o)) + Count(u.events, Arrivals(o))
      BY ONLY <1>12, <3>2, CountConcat
    <3> QED
      BY <2>1, <3>1, <3>3
  <2>2. CASE SidecarId(o) # SidecarId(r)
    <3>1. EventsOf(o)' = EventsOf(o)
      BY <1>1, <1>3, <1>9, <2>2 DEF Handled, EventsOf
    <3>2. Count(EventsOf(o), Arrivals(o)) \in Nat
      BY <1>10
    <3> QED
      BY <2>2, <3>1, <3>2
  <2> QED
    BY <2>1, <2>2
<1>14. ASSUME NEW o \in Replicas
       PROVE  UnderWay(o) \in Nat /\ UnderWay(o)' \in Nat
  <2>1. UnderWay(o) \in Nat
    BY <1>6, <1>8 DEF UnderWay
  <2>2. Count(inbox'[ReplicaBox(o)], PulledCalls) \in Nat
    <3>1. inbox'[ReplicaBox(o)] = c \/ inbox'[ReplicaBox(o)] = inbox[ReplicaBox(o)]
      BY <1>1 DEF Handled
    <3> QED
      BY <1>8, <3>1
  <2>3. Across(ClientMail(inbox'), Clients, Pulls(o)) \in Nat
    BY <1>4, <1>6
  <2> QED
    BY <1>3, <2>1, <2>2, <2>3
<1>15. ASSUME NEW o \in Replicas \ {r}
       PROVE  /\ UnderWay(o)' = UnderWay(o)
              /\ Count(EventsOf(o)', Arrivals(o)) = Count(EventsOf(o), Arrivals(o))
  <2>1. inbox'[ReplicaBox(o)] = inbox[ReplicaBox(o)]
    BY <1>1 DEF Handled
  <2>2. UnderWay(o)' = UnderWay(o)
    BY <1>3, <1>4, <2>1 DEF UnderWay
  <2>3. Count(u.events, Arrivals(o)) = 0
    BY <1>5, EventsApart
  <2>4. Count(EventsOf(o)', Arrivals(o)) = Count(EventsOf(o), Arrivals(o))
    BY <1>10, <1>13, <2>3
  <2> QED
    BY <2>2, <2>4
<1>16. /\ UnderWay(r)' + Count(EventsOf(r)', Arrivals(r)) = UnderWay(r) + Count(EventsOf(r), Arrivals(r))
       /\ UnderWay(r)' + Cardinality(Pulled(replica'[r])) <= UnderWay(r) + Cardinality(Pulled(replica[r]))
  <2> DEFINE k == Across(ClientMail(inbox), Clients, Pulls(r))
  <2>1. /\ UnderWay(r)' = k + Count(c, PulledCalls)
        /\ UnderWay(r) = k + Count(inbox[ReplicaBox(r)], PulledCalls)
    BY <1>2, <1>3, <1>4 DEF UnderWay
  <2>2. k \in Nat
    BY <1>6
  <2>3. Count(EventsOf(r)', Arrivals(r)) = Count(EventsOf(r), Arrivals(r)) + Count(u.events, Arrivals(r))
    BY <1>13
  <2>4. /\ Count(c, PulledCalls) \in Nat /\ Count(inbox[ReplicaBox(r)], PulledCalls) \in Nat
        /\ Count(EventsOf(r), Arrivals(r)) \in Nat /\ Count(u.events, Arrivals(r)) \in Nat
    BY <1>5, <1>8, <1>10, CountFinite
  <2>5. Cardinality(Pulled(u)) \in Nat /\ Cardinality(Pulled(replica[r])) \in Nat
    BY <1>4, PulledIs DEF AllCounted
  <2>6. Cardinality(Pulled(replica'[r])) = Cardinality(Pulled(u))
    BY <1>4
  <2> HIDE DEF k
  <2> QED
    BY ONLY <1>1, <2>1, <2>2, <2>3, <2>4, <2>5, <2>6
<1> QED
  BY <1>10, <1>14, <1>15, <1>16

LEMMA HandlesKeeps ==
  ASSUME PullInv, NEW r \in Replicas, NEW c, NEW u, Handles(r, c, u)
  PROVE  PullInv'
<1>1. Types /\ AllCounted /\ AllFull /\ Placed /\ Reported /\ Reserved /\ InSlots
  BY DEF PullInv
<1>2. Types' /\ Placed' /\ Reported'
  BY <1>1, HandlesTypes, HandlesPlaced, HandlesReported
<1>3. /\ Counted(r, c, replica'[r]) /\ inbox'[ReplicaBox(r)] = c
      /\ Full(u) => Full(replica'[r])
      /\ \A o \in Replicas \ {r} : replica'[o] = replica[o]
  BY <1>1, HandlesIs
<1>4. /\ \A o \in Replicas \ {r} : inbox'[ReplicaBox(o)] = inbox[ReplicaBox(o)]
      /\ UNCHANGED <<config, sidecar>> /\ Full(u)
  BY DEF Handles, HandledBy, Handled
<1>5. AllCounted'
  BY <1>1, <1>3, <1>4 DEF AllCounted
<1>6. AllFull'
  BY <1>1, <1>3, <1>4 DEF AllFull
<1>7. /\ \A o \in Replicas : /\ UnderWay(o) \in Nat /\ UnderWay(o)' \in Nat
                             /\ Count(EventsOf(o), Arrivals(o)) \in Nat
      /\ \A o \in Replicas \ {r} : /\ UnderWay(o)' = UnderWay(o)
                                   /\ Count(EventsOf(o)', Arrivals(o)) = Count(EventsOf(o), Arrivals(o))
      /\ UnderWay(r)' + Count(EventsOf(r)', Arrivals(r)) = UnderWay(r) + Count(EventsOf(r), Arrivals(r))
      /\ UnderWay(r)' + Cardinality(Pulled(replica'[r])) <= UnderWay(r) + Cardinality(Pulled(replica[r]))
  BY <1>1, HandlesUnderWay
<1>8. Reserved'
  <2>1. (\A o : SidecarId(o)' = SidecarId(o)) /\ sidecar' = sidecar
    BY <1>4, SameGroups
  <2> SUFFICES ASSUME NEW o \in Replicas
               PROVE  sidecar[SidecarId(o)].pending_pulls[o] = UnderWay(o)' + Count(EventsOf(o)', Arrivals(o))
    BY <2>1 DEF Reserved
  <2>2. sidecar[SidecarId(o)].pending_pulls[o] = UnderWay(o) + Count(EventsOf(o), Arrivals(o))
    BY <1>1 DEF Reserved
  <2>3. CASE o = r
    BY <1>7, <2>2, <2>3
  <2>4. CASE o # r
    BY <1>7, <2>2, <2>4
  <2> QED
    BY <2>3, <2>4
<1>9. InSlots'
  <2> SUFFICES ASSUME NEW o \in Replicas
               PROVE  UnderWay(o)' + Cardinality(Pulled(replica'[o])) <= MaxConcurrency
    BY DEF InSlots
  <2>1. UnderWay(o) + Cardinality(Pulled(replica[o])) <= MaxConcurrency
    BY <1>1 DEF InSlots
  <2>2. CASE o = r
    <3>1. Cardinality(Pulled(replica[r])) \in Nat /\ Cardinality(Pulled(replica'[r])) \in Nat
      <4>1. Counted(r, inbox[ReplicaBox(r)], replica[r])
        BY <1>1 DEF AllCounted
      <4> QED
        BY <1>3, <4>1, PulledIs
    <3>2. MaxConcurrency \in Nat
      BY SidecarAssumption
    <3>3. UnderWay(r) \in Nat /\ UnderWay(r)' \in Nat
      BY <1>7
    <3>4. UnderWay(r)' + Cardinality(Pulled(replica'[r])) <= UnderWay(r) + Cardinality(Pulled(replica[r]))
      BY <1>7
    <3>5. UnderWay(r) + Cardinality(Pulled(replica[r])) <= MaxConcurrency
      BY <2>1, <2>2
    <3>6. UnderWay(r)' + Cardinality(Pulled(replica'[r])) <= MaxConcurrency
      BY ONLY <3>1, <3>2, <3>3, <3>4, <3>5
    <3> QED
      BY <2>2, <3>6
  <2>3. CASE o # r
    BY <1>3, <1>7, <2>1, <2>3
  <2> QED
    BY <2>2, <2>3
<1> QED
  BY <1>2, <1>5, <1>6, <1>8, <1>9 DEF PullInv

(* What a handler of r finds *)
LEMMA HandlerFinds ==
  ASSUME PullInv, NEW r \in Replicas
  PROVE  Awaiting(r, inbox[ReplicaBox(r)], replica[r], SidecarMail(SidecarId(r)), EventsOf(r), OccOf(r))
<1>1. Types /\ AllCounted /\ AllFull /\ Placed /\ Reported
  BY DEF PullInv
<1>2. Sane(r, inbox[ReplicaBox(r)], replica[r])
  BY <1>1, AllSane
<1>3. replica[r] \in ReplicaState
  BY <1>1 DEF Types
<1>4. replica[r].events = <<>> /\ replica[r].released = 0
  BY <1>3 DEF ReplicaState
<1>5. SidecarId(r) \in Sidecars /\ r \in Members(SidecarId(r))
  BY <1>1, MembersAre DEF Types
<1>6. EventMail(r) \subseteq SidecarMail(SidecarId(r))
  BY <1>5 DEF SidecarMail
<1>7. EventsOf(r) \in Seq(SidecarMail(SidecarId(r)))
  BY <1>1, <1>5 DEF Types, Mailboxes, EventsOf
<1>8. OccOf(r) \in Nat
  <2>1. sidecar[SidecarId(r)] \in SidecarState(SidecarId(r))
    BY <1>1, <1>5 DEF Types
  <2>2. sidecar[SidecarId(r)].occupancy \in [Members(SidecarId(r)) -> Nat]
    BY ONLY <2>1 DEF SidecarState
  <2> QED
    BY <1>5, <2>2 DEF OccOf
<1>9. Full(replica[r]) /\ HeardOf(EventsOf(r), r, OccOf(r), inbox[ReplicaBox(r)], replica[r])
  BY <1>1 DEF AllFull, Reported
<1> QED
  BY <1>2, <1>4, <1>6, <1>7, <1>8, <1>9 DEF Awaiting

(* Each handler of a replica *)
LEMMA StartPulledHandles ==
  ASSUME PullInv, NEW r \in Replicas, StartPulled(r)
  PROVE  \E c, u : Handles(r, c, u)
<1> DEFINE b == inbox[ReplicaBox(r)]
           h == Head(b)
           u == Report(BeginService(Notify(replica[r], [kind |-> "pull_arrived", server |-> r]), h), r)
<1>1. b # <<>> /\ h.kind = "upstream" /\ h.slot
  BY DEF StartPulled, Receives
<1>2. ReplicaBecomes(r, u, Rest(ReplicaBox(r)))
  BY DEF StartPulled
<1>3. Rest(ReplicaBox(r)) = [inbox EXCEPT ![ReplicaBox(r)] = Tail(b)]
  BY DEF Rest
<1>4. Awaiting(r, b, replica[r], SidecarMail(SidecarId(r)), EventsOf(r), OccOf(r))
  BY HandlerFinds
<1>5. HandledBy(r, b, replica[r], Tail(b), u, EventsOf(r), OccOf(r))
  BY <1>1, <1>4, StartPulledIs
<1> HIDE DEF u
<1>6. Handled(r, Tail(b), u)
  BY <1>2, <1>3, ReplicaBecomesIs DEF PullInv
<1>7. Handles(r, Tail(b), u)
  BY <1>5, <1>6 DEF Handles
<1> QED
  BY <1>7

LEMMA EnqueueWorkHandles ==
  ASSUME PullInv, NEW r \in Replicas, EnqueueWork(r)
  PROVE  \E c, u : Handles(r, c, u)
<1> DEFINE b == inbox[ReplicaBox(r)]
           h == Head(b)
           edf == config.scheduling = "edf"
           u == DrainQueue([replica[r] EXCEPT !.queue = Enqueue(@, h, edf)], r)
<1>1. b # <<>> /\ ~h.slot
  BY DEF EnqueueWork, Receives
<1>2. ReplicaBecomes(r, u, Rest(ReplicaBox(r)))
  BY DEF EnqueueWork
<1>3. Rest(ReplicaBox(r)) = [inbox EXCEPT ![ReplicaBox(r)] = Tail(b)]
  BY DEF Rest
<1>4. Awaiting(r, b, replica[r], SidecarMail(SidecarId(r)), EventsOf(r), OccOf(r))
  BY HandlerFinds
<1>5. HandledBy(r, b, replica[r], Tail(b), u, EventsOf(r), OccOf(r))
  BY <1>1, <1>4, EnqueueWorkIs
<1> HIDE DEF u
<1>6. Handled(r, Tail(b), u)
  BY <1>2, <1>3, ReplicaBecomesIs DEF PullInv
<1>7. Handles(r, Tail(b), u)
  BY <1>5, <1>6 DEF Handles
<1> QED
  BY <1>7

LEMMA CompleteHandles ==
  ASSUME PullInv, NEW r \in Replicas, NEW h, Complete(r, h)
  PROVE  \E c, u : Handles(r, c, u)
<1> DEFINE b == inbox[ReplicaBox(r)]
           w == Report([replica[r] EXCEPT !.in_flight = @ - 1, !.serving = @ \ {h}], r)
           x == IF h.slot THEN Notify(w, [kind |-> "completed", server |-> r]) ELSE w
           u == DrainQueue(Advance(x, h), r)
<1>1. h \in replica[r].serving
  BY DEF Complete
<1>2. ReplicaBecomes(r, u, inbox)
  BY DEF Complete
<1>3. inbox = [inbox EXCEPT ![ReplicaBox(r)] = b]
  <2>1. inbox = [y \in Boxes |-> inbox[y]]
    BY DEF PullInv, Types, Mailboxes
  <2> QED
    BY <2>1
<1>4. Awaiting(r, b, replica[r], SidecarMail(SidecarId(r)), EventsOf(r), OccOf(r))
  BY HandlerFinds
<1>5. HandledBy(r, b, replica[r], b, u, EventsOf(r), OccOf(r))
  BY <1>1, <1>4, CompleteIs
<1> HIDE DEF u
<1>6. Handled(r, b, u)
  BY <1>2, <1>3, ReplicaBecomesIs DEF PullInv
<1>7. Handles(r, b, u)
  BY <1>5, <1>6 DEF Handles
<1> QED
  BY <1>7

LEMMA ChildReturnsHandles ==
  ASSUME PullInv, NEW r \in Replicas, NEW q, ChildReturns(r, q)
  PROVE  \E c, u : Handles(r, c, u)
<1> DEFINE b == inbox[ReplicaBox(r)]
           m == [kind |-> "return", task |-> q, slot |-> FALSE]
           u == [replica[r] EXCEPT !.calling = @ \ {q}]
<1>1. /\ q \in replica[r].calling
      /\ replica' = [replica EXCEPT ![r].calling = @ \ {q}]
      /\ inbox' = [inbox EXCEPT ![ReplicaBox(r)] = Append(b, m)]
      /\ UNCHANGED <<config, arrived, client, sidecar, edge>>
  BY DEF ChildReturns
<1>2. Awaiting(r, b, replica[r], SidecarMail(SidecarId(r)), EventsOf(r), OccOf(r))
  BY HandlerFinds
<1>3. HandledBy(r, b, replica[r], Append(b, m), u, EventsOf(r), OccOf(r))
  BY <1>1, <1>2, ChildReturnsIs
<1>4. Types
  BY DEF PullInv
<1>5. replica[r] \in ReplicaState /\ replica \in [Replicas -> ReplicaState]
  BY <1>4 DEF Types
<1>6. u.events = <<>> /\ u.released = 0 /\ u = [u EXCEPT !.events = <<>>, !.released = 0]
  BY <1>5 DEF ReplicaState
<1>7. replica' = [replica EXCEPT ![r] = u]
  BY <1>1
<1> HIDE DEF u, m
<1>8. /\ inbox = [y \in Boxes |-> inbox[y]]
      /\ config \in [share : Shares, pull_sched : Scheds, scheduling : Schedulings]
  BY <1>4 DEF Types, Mailboxes
<1>9. /\ \A a \in Clients : ClientBox(a) \in Boxes
      /\ \A s \in Sidecars : SidecarBox(s) \in Boxes
      /\ \A o \in Replicas : ReplicaBox(o) \in Boxes
      /\ EdgeBox \in Boxes /\ SidecarId(r) \in Sidecars
  BY <1>8, BoxesAre, MembersAre
<1>10. /\ inbox' = [y \in Boxes |-> inbox'[y]]
       /\ inbox'[ReplicaBox(r)] = Append(b, m)
       /\ \A y \in Boxes : y # ReplicaBox(r) => inbox'[y] = inbox[y]
  BY <1>1, <1>8, <1>9
<1>11. /\ \A o \in Replicas \ {r} : inbox'[ReplicaBox(o)] = inbox[ReplicaBox(o)]
       /\ \A s \in Sidecars : inbox'[SidecarBox(s)] = inbox[SidecarBox(s)]
       /\ inbox'[EdgeBox] = inbox[EdgeBox]
       /\ \A a \in Clients : inbox'[ClientBox(a)] = inbox[ClientBox(a)]
  BY <1>9, <1>10, BoxesDiffer
<1>12. EventsOf(r) \o u.events = EventsOf(r)
  <2>1. EventsOf(r) \in Seq(SidecarMail(SidecarId(r)))
    BY <1>4, <1>9 DEF Types, Mailboxes, EventsOf
  <2> QED
    BY <1>6, <2>1
<1>13. inbox[EdgeBox] \o [i \in 1 .. u.released |-> Release(r)] = inbox[EdgeBox]
  <2>1. inbox[EdgeBox] \in Seq(EdgeMail)
    BY <1>4 DEF Types, Mailboxes
  <2>2. [i \in 1 .. u.released |-> Release(r)] = <<>>
    BY <1>6
  <2>3. inbox[EdgeBox] \o <<>> = inbox[EdgeBox]
    BY ONLY <2>1
  <2> QED
    BY <2>2, <2>3, Zenon
<1>14. Handled(r, Append(b, m), u)
  <2>1. inbox'[SidecarBox(SidecarId(r))] = EventsOf(r) \o u.events
    BY <1>9, <1>11, <1>12 DEF EventsOf
  <2>2. inbox'[EdgeBox] = inbox[EdgeBox] \o [i \in 1 .. u.released |-> Release(r)]
    BY <1>11, <1>13
  <2>3. replica' = [replica EXCEPT ![r] = [u EXCEPT !.events = <<>>, !.released = 0]]
    BY <1>6, <1>7
  <2> QED
    BY <1>1, <1>10, <1>11, <2>1, <2>2, <2>3 DEF Handled
<1>15. Handles(r, Append(b, m), u)
  BY <1>3, <1>14 DEF Handles
<1> QED
  BY <1>15

-----------------------------------------------------------------------------
(***************************************************************************)
(* A sidecar takes its first message and becomes u, sending what u holds.  *)
(***************************************************************************)
Taken(s, u) ==
  /\ UNCHANGED <<config, arrived, client, replica, edge>>
  /\ sidecar' = [sidecar EXCEPT ![s] = [u EXCEPT !.out = <<>>]]
  /\ inbox'[SidecarBox(s)] = Tail(inbox[SidecarBox(s)])
  /\ \A o \in Sidecars \ {s} : inbox'[SidecarBox(o)] = inbox[SidecarBox(o)]
  /\ \A r \in Replicas : inbox'[ReplicaBox(r)] = inbox[ReplicaBox(r)]
  /\ inbox'[EdgeBox] = inbox[EdgeBox]
  /\ MailOf(inbox')
  /\ \A T :
       /\ \A c \in Clients : Count(inbox'[ClientBox(c)], T)
                               = Count(inbox[ClientBox(c)], T) + Count(u.out, SentTo(c, T))
       /\ Across(ClientMail(inbox'), Clients, T)
            = Across(ClientMail(inbox), Clients, T)
              + Count(u.out, [to : {ClientBox(c) : c \in Clients}, msg : T])

(* Its mailbox without the first message *)
LEMMA RestIs ==
  ASSUME Types, NEW s \in Sidecars
  PROVE  /\ Rest(SidecarBox(s)) = [x \in Boxes |-> Rest(SidecarBox(s))[x]]
         /\ Rest(SidecarBox(s))[SidecarBox(s)] = Tail(inbox[SidecarBox(s)])
         /\ \A o \in Sidecars \ {s} : Rest(SidecarBox(s))[SidecarBox(o)] = inbox[SidecarBox(o)]
         /\ \A r \in Replicas : Rest(SidecarBox(s))[ReplicaBox(r)] = inbox[ReplicaBox(r)]
         /\ Rest(SidecarBox(s))[EdgeBox] = inbox[EdgeBox]
         /\ \A c \in Clients : Rest(SidecarBox(s))[ClientBox(c)] = inbox[ClientBox(c)]
         /\ MailOf(Rest(SidecarBox(s)))
         /\ ClientMail(Rest(SidecarBox(s))) = ClientMail(inbox)
<1>1. /\ inbox = [y \in Boxes |-> inbox[y]]
      /\ config \in [share : Shares, pull_sched : Scheds, scheduling : Schedulings]
      /\ \A c \in Clients : inbox[ClientBox(c)] \in Seq(PullMail)
  BY DEF Types, Mailboxes
<1>2. /\ \A a \in Clients : ClientBox(a) \in Boxes
      /\ \A o \in Sidecars : SidecarBox(o) \in Boxes
      /\ \A o \in Replicas : ReplicaBox(o) \in Boxes
      /\ EdgeBox \in Boxes
  BY <1>1, BoxesAre
<1> DEFINE R == Rest(SidecarBox(s))
<1>3. R = [inbox EXCEPT ![SidecarBox(s)] = Tail(inbox[SidecarBox(s)])]
  BY DEF Rest
<1> HIDE DEF R
<1>4. /\ R = [x \in Boxes |-> R[x]]
      /\ R[SidecarBox(s)] = Tail(inbox[SidecarBox(s)])
      /\ \A x \in Boxes : x # SidecarBox(s) => R[x] = inbox[x]
  BY <1>1, <1>2, <1>3
<1>5. /\ \A o \in Sidecars \ {s} : R[SidecarBox(o)] = inbox[SidecarBox(o)]
      /\ \A r \in Replicas : R[ReplicaBox(r)] = inbox[ReplicaBox(r)]
      /\ R[EdgeBox] = inbox[EdgeBox]
      /\ \A c \in Clients : R[ClientBox(c)] = inbox[ClientBox(c)]
  BY <1>2, <1>4, BoxesDiffer
<1>6. MailOf(R)
  BY <1>1, <1>4, <1>5 DEF MailOf
<1>7. ClientMail(R) = ClientMail(inbox)
  BY <1>5 DEF ClientMail
<1> QED
  BY <1>4, <1>5, <1>6, <1>7 DEF R

LEMMA SidecarBecomesIs ==
  ASSUME Types, NEW s \in Sidecars, NEW u \in Draining(s), SidecarBecomes(s, u)
  PROVE  Taken(s, u)
<1> DEFINE R == Rest(SidecarBox(s))
<1>1. config \in [share : Shares, pull_sched : Scheds, scheduling : Schedulings]
  BY DEF Types
<1>2. /\ R[SidecarBox(s)] = Tail(inbox[SidecarBox(s)])
      /\ \A o \in Sidecars \ {s} : R[SidecarBox(o)] = inbox[SidecarBox(o)]
      /\ \A r \in Replicas : R[ReplicaBox(r)] = inbox[ReplicaBox(r)]
      /\ R[EdgeBox] = inbox[EdgeBox]
      /\ \A c \in Clients : R[ClientBox(c)] = inbox[ClientBox(c)]
      /\ MailOf(R)
      /\ ClientMail(R) = ClientMail(inbox)
  BY RestIs
<1>3. inbox' = Deliver(R, u.out)
  BY DEF SidecarBecomes
<1> HIDE DEF R
<1>4. u.out \in Seq(Sends)
  BY DEF Draining
<1>5. ASSUME NEW T
      PROVE  HasSent(R, u.out, Len(u.out), inbox', T)
  BY <1>1, <1>2, <1>3, <1>4, DeliverSends
<1>6. \A T : Count(u.out, T) = Between(u.out, 1, Len(u.out), T)
  BY <1>4, CountIsBetween
<1>7. ASSUME NEW T
      PROVE  /\ \A c \in Clients : Count(inbox'[ClientBox(c)], T)
                                     = Count(inbox[ClientBox(c)], T) + Count(u.out, SentTo(c, T))
             /\ Across(ClientMail(inbox'), Clients, T)
                  = Across(ClientMail(inbox), Clients, T)
                    + Count(u.out, [to : {ClientBox(c) : c \in Clients}, msg : T])
  <2>1. HasSent(R, u.out, Len(u.out), inbox', T)
    BY <1>5
  <2>2. \A c \in Clients : Count(inbox'[ClientBox(c)], T)
                             = Count(R[ClientBox(c)], T) + Between(u.out, 1, Len(u.out), SentTo(c, T))
    BY <2>1 DEF HasSent
  <2>3. Across(ClientMail(inbox'), Clients, T)
          = Across(ClientMail(R), Clients, T)
            + Between(u.out, 1, Len(u.out), [to : {ClientBox(c) : c \in Clients}, msg : T])
    BY <2>1 DEF HasSent
  <2>4. \A c \in Clients : Count(inbox'[ClientBox(c)], T)
                             = Count(inbox[ClientBox(c)], T) + Count(u.out, SentTo(c, T))
    BY <1>2, <1>6, <2>2
  <2>5. Across(ClientMail(inbox'), Clients, T)
          = Across(ClientMail(inbox), Clients, T)
            + Count(u.out, [to : {ClientBox(c) : c \in Clients}, msg : T])
    <3> DEFINE W == [to : {ClientBox(c) : c \in Clients}, msg : T]
    <3>1. Count(u.out, W) = Between(u.out, 1, Len(u.out), W)
      BY <1>6
    <3> HIDE DEF W
    <3>2. Across(ClientMail(inbox'), Clients, T)
            = Across(ClientMail(R), Clients, T) + Between(u.out, 1, Len(u.out), W)
      BY <2>3 DEF W
    <3>3. Across(ClientMail(inbox'), Clients, T) = Across(ClientMail(inbox), Clients, T) + Count(u.out, W)
      BY ONLY <1>2, <3>1, <3>2
    <3> QED
      BY <3>3 DEF W
  <2> QED
    BY <2>4, <2>5
<1>8. MailOf(inbox') /\ \A x \in Boxes : ~IsClientBox(x) => inbox'[x] = R[x]
  <2>1. HasSent(R, u.out, Len(u.out), inbox', PullMail)
    BY <1>5
  <2> QED
    BY <2>1 DEF HasSent
<1>9. /\ \A o \in Sidecars : SidecarBox(o) \in Boxes /\ ~IsClientBox(SidecarBox(o))
      /\ \A r \in Replicas : ReplicaBox(r) \in Boxes /\ ~IsClientBox(ReplicaBox(r))
      /\ EdgeBox \in Boxes /\ ~IsClientBox(EdgeBox)
  BY <1>1, BoxesAre, BoxesDiffer DEF IsClientBox
<1>10. /\ inbox'[SidecarBox(s)] = Tail(inbox[SidecarBox(s)])
       /\ \A o \in Sidecars \ {s} : inbox'[SidecarBox(o)] = inbox[SidecarBox(o)]
       /\ \A r \in Replicas : inbox'[ReplicaBox(r)] = inbox[ReplicaBox(r)]
       /\ inbox'[EdgeBox] = inbox[EdgeBox]
  BY <1>2, <1>8, <1>9
<1>11. /\ UNCHANGED <<config, arrived, client, replica, edge>>
       /\ sidecar' = [sidecar EXCEPT ![s] = [u EXCEPT !.out = <<>>]]
  BY DEF SidecarBecomes
<1>12. MailOf(inbox')
  BY <1>8
<1> QED
  BY ONLY <1>7, <1>10, <1>11, <1>12 DEF Taken

(* v is what the sidecar knew, u what it knows and sends after message m. *)
Hears(s, v, m, u) ==
  /\ u \in Draining(s)
  /\ \A q \in Tasks : m \notin HopOf(q)
  /\ \A r \in Members(s) :
       /\ u.occupancy[r] = IF m \in Reports(r) THEN m.level ELSE v.occupancy[r]
       /\ u.pending_pulls[r] + OneIf(m \in Arrivals(r)) = v.pending_pulls[r] + Count(u.out, Answering(r))
       /\ Count(u.out, Answering(r)) # 0
            => u.occupancy[r] + u.pending_pulls[r] <= MaxConcurrency /\ m \notin Arrivals(r)
  /\ \A r \in Replicas \ Members(s) : Count(u.out, Answering(r)) = 0

Told(s, u) ==
  /\ Taken(s, u) /\ inbox[SidecarBox(s)] # <<>>
  /\ Hears(s, sidecar[s], Head(inbox[SidecarBox(s)]), u)

LEMMA ToldIs ==
  ASSUME Types, NEW s \in Sidecars, NEW u, Told(s, u)
  PROVE  /\ sidecar'[s] \in SidecarState(s)
         /\ sidecar'[s].occupancy = u.occupancy /\ sidecar'[s].pending_pulls = u.pending_pulls
         /\ sidecar'[s].pull_intents = u.pull_intents
         /\ \A o \in Sidecars \ {s} : sidecar'[o] = sidecar[o]
         /\ sidecar' = [o \in Sidecars |-> sidecar'[o]]
<1> DEFINE z == [u EXCEPT !.out = <<>>]
<1>1. sidecar = [o \in Sidecars |-> sidecar[o]]
  BY DEF Types
<1>2. sidecar' = [sidecar EXCEPT ![s] = z]
  BY DEF Told, Taken
<1>3. u \in Draining(s)
  BY DEF Told, Hears
<1>4. /\ z \in SidecarState(s) /\ z.occupancy = u.occupancy /\ z.pending_pulls = u.pending_pulls
      /\ z.pull_intents = u.pull_intents
  BY ONLY <1>3 DEF z, Draining, SidecarState
<1> HIDE DEF z
<1>5. /\ sidecar'[s] = z /\ \A o \in Sidecars \ {s} : sidecar'[o] = sidecar[o]
      /\ sidecar' = [o \in Sidecars |-> sidecar'[o]]
  BY <1>1, <1>2
<1> QED
  BY <1>4, <1>5

LEMMA ToldTypes ==
  ASSUME Types, NEW s \in Sidecars, NEW u, Told(s, u)
  PROVE  Types'
<1>1. Taken(s, u) /\ inbox[SidecarBox(s)] # <<>>
  BY DEF Told
<1>2. UNCHANGED <<config, arrived, client, replica, edge>>
  BY <1>1 DEF Taken
<1>3. /\ Sidecars' = Sidecars /\ PullMail' = PullMail /\ ClientState' = ClientState
      /\ (\A o : SidecarMail(o)' = SidecarMail(o)) /\ EdgeMail' = EdgeMail
      /\ \A o : SidecarState(o)' = SidecarState(o)
  BY <1>2, SameGroups
<1>4. sidecar' = [o \in Sidecars |-> sidecar'[o]]
  BY ToldIs
<1>5. \A o \in Sidecars : sidecar'[o] \in SidecarState(o)
  <2> TAKE o \in Sidecars
  <2>1. CASE o = s
    BY <2>1, ToldIs
  <2>2. CASE o # s
    <3>1. sidecar'[o] = sidecar[o]
      BY <2>2, ToldIs
    <3> QED
      BY <3>1 DEF Types
  <2> QED
    BY <2>1, <2>2
<1>6. \A o \in Sidecars : inbox'[SidecarBox(o)] \in Seq(SidecarMail(o))
  <2> TAKE o \in Sidecars
  <2>1. inbox[SidecarBox(o)] \in Seq(SidecarMail(o))
    BY DEF Types, Mailboxes
  <2>2. CASE o = s
    <3>1. inbox'[SidecarBox(o)] = Tail(inbox[SidecarBox(o)]) /\ inbox[SidecarBox(o)] # <<>>
      BY <1>1, <2>2 DEF Taken
    <3> QED
      BY <2>1, <3>1
  <2>3. CASE o # s
    BY <1>1, <2>1, <2>3 DEF Taken
  <2> QED
    BY <2>2, <2>3
<1>7. /\ inbox' = [x \in Boxes |-> inbox'[x]]
      /\ \A c \in Clients : inbox'[ClientBox(c)] \in Seq(PullMail)
  BY <1>1 DEF Taken, MailOf
<1>8. \A r \in Replicas : inbox'[ReplicaBox(r)] \in Seq(Work)
  BY <1>1 DEF Taken, Types, Mailboxes
<1>9. inbox'[EdgeBox] \in Seq(EdgeMail)
  BY <1>1 DEF Taken, Types, Mailboxes
<1>10. Mailboxes'
  BY <1>3, <1>6, <1>7, <1>8, <1>9 DEF Mailboxes
<1> QED
  BY <1>2, <1>3, <1>4, <1>5, <1>10 DEF Types

LEMMA ToldPlaced ==
  ASSUME Types, AllCounted, Placed, NEW s \in Sidecars, NEW u, Told(s, u)
  PROVE  Placed'
<1> DEFINE x == SidecarBox(s)
           b == inbox[SidecarBox(s)]
<1>1. Taken(s, u) /\ b # <<>> /\ \A q \in Tasks : Head(b) \notin HopOf(q)
  BY DEF Told, Hears
<1>2. UNCHANGED <<config, arrived, client, replica>>
  BY <1>1 DEF Taken
<1>3. x \in SpotsOf(Sidecars)
  BY SpotsAre
<1> HIDE DEF x
<1>4. ASSUME NEW q \in Tasks
      PROVE  Carried(q, 0, x, x, Sidecars, client, replica, inbox, client', replica', inbox')
  <2>1. ASSUME NEW a \in Clients
        PROVE  Shifts(q, 0, x, x, ClientBox(a), Count(client[a].queue, CallOf(q)),
                      Count(client'[a].queue, CallOf(q)))
    BY <1>2, Naturals, ShiftsNone
  <2>2. ASSUME NEW o \in Sidecars
        PROVE  Shifts(q, 0, x, x, SidecarBox(o), Count(inbox[SidecarBox(o)], HopOf(q)),
                      Count(inbox'[SidecarBox(o)], HopOf(q)))
    <3>1. Count(inbox[SidecarBox(o)], HopOf(q)) \in Nat
      BY Naturals
    <3>2. Count(inbox'[SidecarBox(o)], HopOf(q)) = Count(inbox[SidecarBox(o)], HopOf(q))
      <4>1. CASE o = s
        <5>1. b \in Seq(SidecarMail(s))
          BY DEF Types, Mailboxes
        <5>2. Count(b, HopOf(q)) = Count(Tail(b), HopOf(q)) + IF Head(b) \in HopOf(q) THEN 1 ELSE 0
          BY <1>1, <5>1, CountPopFront
        <5>3. Count(Tail(b), HopOf(q)) \in Nat
          BY <1>1, <5>1, CountFinite, PopFront
        <5>4. Count(Tail(b), HopOf(q)) = Count(b, HopOf(q))
          BY <1>1, <5>2, <5>3
        <5>5. inbox'[SidecarBox(s)] = Tail(b)
          BY <1>1 DEF Taken
        <5> QED
          BY <4>1, <5>4, <5>5
      <4>2. CASE o # s
        BY <1>1, <4>2 DEF Taken
      <4> QED
        BY <4>1, <4>2
    <3> QED
      BY <3>1, <3>2, ShiftsNone
  <2>3. ASSUME NEW o \in Replicas
        PROVE  Shifts(q, 0, x, x, ReplicaBox(o), InHand(replica[o], inbox[ReplicaBox(o)], q),
                      InHand(replica'[o], inbox'[ReplicaBox(o)], q))
    <3>1. replica'[o] = replica[o] /\ inbox'[ReplicaBox(o)] = inbox[ReplicaBox(o)]
      BY <1>1, <1>2 DEF Taken
    <3>2. InHand(replica[o], inbox[ReplicaBox(o)], q) \in Nat
      BY Naturals
    <3> QED
      BY <3>1, <3>2, ShiftsNone
  <2> QED
    BY <2>1, <2>2, <2>3 DEF Carried
<1>5. \A q \in Tasks : Comes(q, 0, x, SpotsOf(Sidecars), q \in arrived, q \in arrived')
  BY <1>2, <1>3, ComesNone
<1> QED
  BY ONLY <1>2, <1>3, <1>4, <1>5, Placed, PlacedMoves

(* What is heard of a replica, and what is under way to it *)
LEMMA ToldReplica ==
  ASSUME PullInv, NEW s \in Sidecars, NEW u, Told(s, u), NEW r \in Replicas
  PROVE  /\ HeardOf(EventsOf(r)', r, OccOf(r)', inbox'[ReplicaBox(r)], replica'[r])
         /\ sidecar'[SidecarId(r)].pending_pulls[r] = UnderWay(r)' + Count(EventsOf(r)', Arrivals(r))
         /\ UnderWay(r)' + Cardinality(Pulled(replica'[r])) <= MaxConcurrency
<1> DEFINE b == inbox[SidecarBox(s)]
           m == Head(b)
           v == sidecar[s]
           n == Cardinality(Pulled(replica[r]))
           level == OccupancyLevel(replica[r])
           pushed == Count(inbox[ReplicaBox(r)], PushedTasks)
           k == Count(u.out, Answering(r))
<1>1. Types /\ AllCounted /\ Reported /\ Reserved /\ InSlots
  BY DEF PullInv
<1>2. Taken(s, u) /\ b # <<>> /\ Hears(s, v, m, u)
  BY DEF Told
<1>3. UNCHANGED <<config, replica>> /\ inbox'[ReplicaBox(r)] = inbox[ReplicaBox(r)]
  BY <1>2 DEF Taken
<1>4. /\ EventsOf(r)' = inbox'[SidecarBox(SidecarId(r))]
      /\ OccOf(r)' = sidecar'[SidecarId(r)].occupancy[r]
      /\ UnderWay(r)' = Across(ClientMail(inbox'), Clients, Pulls(r)) + Count(inbox'[ReplicaBox(r)], PulledCalls)
  BY <1>3, NextIs
<1>5. SidecarId(r) \in Sidecars /\ r \in Members(SidecarId(r))
  BY <1>1, MembersAre DEF Types
<1>6. EventsOf(r) \in Seq(SidecarMail(SidecarId(r)))
  BY <1>1, <1>5 DEF Types, Mailboxes, EventsOf
<1>7. /\ HeardOf(EventsOf(r), r, OccOf(r), inbox[ReplicaBox(r)], replica[r])
      /\ sidecar[SidecarId(r)].pending_pulls[r] = UnderWay(r) + Count(EventsOf(r), Arrivals(r))
      /\ UnderWay(r) + n <= MaxConcurrency
  BY <1>1 DEF Reported, Reserved, InSlots
<1>8. UnderWay(r)' = UnderWay(r) + k /\ UnderWay(r) \in Nat /\ k \in Nat
  <2>1. u.out \in Seq(Sends)
    BY <1>2 DEF Hears, Draining
  <2>2. k \in Nat
    BY <2>1, CountFinite
  <2>3. AreQueues(ClientMail(inbox), Clients, PullMail)
    BY <1>1 DEF Types, Mailboxes, AreQueues, ClientMail
  <2>4. Across(ClientMail(inbox), Clients, Pulls(r)) \in Nat
    BY <2>3, SidecarAssumption, MatchesFinite, FS_CardinalityType DEF Across
  <2>5. inbox[ReplicaBox(r)] \in Seq(Work)
    BY <1>1 DEF Types, Mailboxes
  <2>6. Count(inbox[ReplicaBox(r)], PulledCalls) \in Nat
    BY <2>5, CountFinite
  <2>7. Across(ClientMail(inbox'), Clients, Pulls(r)) = Across(ClientMail(inbox), Clients, Pulls(r)) + k
    BY <1>2 DEF Taken, Answering
  <2> QED
    BY <1>3, <1>4, <2>2, <2>4, <2>6, <2>7 DEF UnderWay
<1>9. n \in Nat /\ level \in Nat
  BY <1>1, PulledIs DEF AllCounted
<1>10. sidecar[SidecarId(r)] \in SidecarState(SidecarId(r))
  BY <1>1, <1>5 DEF Types
<1>11. sidecar[SidecarId(r)].pending_pulls[r] \in Nat /\ OccOf(r) \in Nat
  BY <1>5, <1>10 DEF SidecarState, OccOf
<1>12. Count(EventsOf(r), Arrivals(r)) \in Nat
  BY <1>6, CountFinite
<1> HIDE DEF k, n, level, pushed
<1>13. CASE SidecarId(r) # s
  <2>1. EventsOf(r)' = EventsOf(r) /\ sidecar'[SidecarId(r)] = sidecar[SidecarId(r)]
    BY <1>2, <1>4, <1>5, <1>13, ToldIs DEF Taken, EventsOf, PullInv
  <2>2. k = 0
    <3>1. r \in Replicas \ Members(s)
      BY <1>13 DEF Members
    <3> QED
      BY <1>2, <3>1 DEF Hears, k
  <2>3. OccOf(r)' = OccOf(r)
    BY <1>4, <2>1 DEF OccOf
  <2>4. UnderWay(r)' = UnderWay(r)
    BY <1>8, <2>2
  <2> QED
    BY <1>3, <1>7, <2>1, <2>3, <2>4 DEF n
<1>14. CASE SidecarId(r) = s
  <2>1. EventsOf(r) = b /\ EventsOf(r)' = Tail(b)
    BY <1>2, <1>4, <1>14 DEF Taken, EventsOf
  <2>2. sidecar'[s].occupancy = u.occupancy /\ sidecar'[s].pending_pulls = u.pending_pulls
    BY <1>1, <1>5, <1>14, ToldIs
  <2>3. /\ u.occupancy[r] = IF m \in Reports(r) THEN m.level ELSE OccOf(r)
        /\ u.pending_pulls[r] + OneIf(m \in Arrivals(r)) = v.pending_pulls[r] + k
        /\ k # 0 => u.occupancy[r] + u.pending_pulls[r] <= MaxConcurrency /\ m \notin Arrivals(r)
    BY <1>2, <1>5, <1>14 DEF Hears, k, OccOf
  <2>4. u.occupancy[r] \in Nat /\ u.pending_pulls[r] \in Nat
    BY <1>2, <1>5, <1>14 DEF Hears, Draining
  <2>5. Heard(b, r, OccOf(r), n, level, pushed)
    BY <1>7, <2>1 DEF HeardOf, n, level, pushed
  <2>6. b \in Seq(SidecarMail(s)) /\ b # <<>>
    BY <1>2, <1>6, <1>14, <2>1
  <2> HIDE DEF b, m, v
  <2>7. PICK o : o = u.occupancy[r]
    OBVIOUS
  <2>8. m = Head(b)
    BY DEF m
  <2>9. o = IF Head(b) \in Reports(r) THEN Head(b).level ELSE OccOf(r)
    BY <2>3, <2>7, <2>8
  <2>10. /\ Heard(Tail(b), r, o, n, level, pushed)
         /\ Head(b) \notin Arrivals(r) => n <= o + Count(Tail(b), Arrivals(r))
    BY ONLY <1>9, <1>11, <2>5, <2>6, <2>9, HeardNext
  <2>11. HeardOf(EventsOf(r)', r, OccOf(r)', inbox'[ReplicaBox(r)], replica'[r])
    <3>1. OccOf(r)' = o
      BY <1>4, <1>14, <2>2, <2>7
    <3> QED
      BY <1>3, <2>1, <2>10, <3>1 DEF HeardOf, n, level, pushed
  <2>12. sidecar'[SidecarId(r)].pending_pulls[r] = UnderWay(r)' + Count(EventsOf(r)', Arrivals(r))
    <3>1. Count(b, Arrivals(r)) = Count(Tail(b), Arrivals(r)) + IF Head(b) \in Arrivals(r) THEN 1 ELSE 0
      BY <2>6, CountPopFront
    <3>2. Count(b, Arrivals(r)) = Count(Tail(b), Arrivals(r)) + OneIf(m \in Arrivals(r))
      BY <2>8, <3>1 DEF OneIf
    <3>3. Tail(b) \in Seq(SidecarMail(s))
      BY <2>6
    <3>4. Count(Tail(b), Arrivals(r)) \in Nat
      BY <3>3, CountFinite
    <3>5. v.pending_pulls[r] = UnderWay(r) + Count(b, Arrivals(r))
      BY <1>7, <1>14, <2>1 DEF v
    <3>6. OneIf(m \in Arrivals(r)) \in {0, 1}
      BY DEF OneIf
    <3>7. u.pending_pulls[r] = UnderWay(r)' + Count(Tail(b), Arrivals(r))
      <4>1. u.pending_pulls[r] + OneIf(m \in Arrivals(r)) = v.pending_pulls[r] + k
        BY <2>3
      <4>2. Count(b, Arrivals(r)) \in Nat
        BY ONLY <3>2, <3>4, <3>6
      <4> QED
        BY ONLY <1>8, <2>4, <3>2, <3>4, <3>5, <3>6, <4>1, <4>2
    <3> QED
      BY <1>14, <2>1, <2>2, <3>7
  <2>13. UnderWay(r)' + n <= MaxConcurrency
    <3>1. CASE k = 0
      BY <1>7, <1>8, <3>1
    <3>2. CASE k # 0
      <4>1. o + u.pending_pulls[r] <= MaxConcurrency /\ n <= o + Count(Tail(b), Arrivals(r))
        BY <2>3, <2>7, <2>8, <2>10, <3>2
      <4>2. u.pending_pulls[r] = UnderWay(r)' + Count(Tail(b), Arrivals(r))
        BY <1>14, <2>1, <2>2, <2>12
      <4>3. Tail(b) \in Seq(SidecarMail(s))
        BY <2>6
      <4>4. Count(Tail(b), Arrivals(r)) \in Nat /\ MaxConcurrency \in Nat /\ o \in Nat
        BY <2>4, <2>7, <4>3, CountFinite, SidecarAssumption
      <4>5. UnderWay(r)' \in Nat
        BY <1>8
      <4> QED
        BY ONLY <1>9, <2>4, <4>1, <4>2, <4>4, <4>5
    <3> QED
      BY <3>1, <3>2
  <2> QED
    BY <1>3, <2>11, <2>12, <2>13 DEF n
<1> QED
  BY <1>13, <1>14

LEMMA ToldKeeps ==
  ASSUME PullInv, NEW s \in Sidecars, NEW u, Told(s, u)
  PROVE  PullInv'
<1>1. Types /\ AllCounted /\ AllFull /\ Placed
  BY DEF PullInv
<1>2. Types' /\ Placed'
  BY <1>1, ToldTypes, ToldPlaced
<1>3. UNCHANGED <<config, replica>> /\ \A r \in Replicas : inbox'[ReplicaBox(r)] = inbox[ReplicaBox(r)]
  BY DEF Told, Taken
<1>4. AllCounted' /\ AllFull'
  BY <1>1, <1>3 DEF AllCounted, AllFull
<1>5. \A r : SidecarId(r)' = SidecarId(r)
  BY <1>3, SameGroups
<1>6. Reported'
  BY ToldReplica DEF Reported
<1>7. Reserved'
  BY <1>5, ToldReplica DEF Reserved
<1>8. InSlots'
  BY ToldReplica DEF InSlots
<1> QED
  BY <1>2, <1>4, <1>6, <1>7, <1>8 DEF PullInv

-----------------------------------------------------------------------------
(* Each handler of a sidecar *)

(* w is what is known before the drains. *)
Before(s, v, m, w) ==
  /\ w \in Draining(s) /\ w.out = <<>> /\ w.pending_pulls = v.pending_pulls
  /\ \A q \in Tasks : m \notin HopOf(q)
  /\ \A r \in Members(s) :
       /\ m \notin Arrivals(r)
       /\ w.occupancy[r] = IF m \in Reports(r) THEN m.level ELSE v.occupancy[r]

LEMMA DrainedHears ==
  ASSUME NEW s, NEW v, NEW m, NEW w, Before(s, v, m, w), NEW u, Drained(s, w, u)
  PROVE  Hears(s, v, m, u)
<1>1. u \in Draining(s) /\ w \in Draining(s)
  BY DEF Drained, Before
<1>2. \A T : Count(w.out, T) = 0
  BY CountEmpty DEF Before
<1>3. ASSUME NEW r \in Members(s)
      PROVE  /\ u.occupancy[r] = IF m \in Reports(r) THEN m.level ELSE v.occupancy[r]
             /\ u.pending_pulls[r] + OneIf(m \in Arrivals(r)) = v.pending_pulls[r] + Count(u.out, Answering(r))
             /\ Count(u.out, Answering(r)) # 0
                  => u.occupancy[r] + u.pending_pulls[r] <= MaxConcurrency /\ m \notin Arrivals(r)
  <2>1. /\ u.occupancy = w.occupancy /\ w.pending_pulls = v.pending_pulls
        /\ w.pending_pulls[r] < u.pending_pulls[r]
             => w.occupancy[r] + u.pending_pulls[r] <= MaxConcurrency
        /\ u.pending_pulls[r] + Count(w.out, Answering(r))
             = w.pending_pulls[r] + Count(u.out, Answering(r))
    BY DEF Drained, Before
  <2>2. /\ m \notin Arrivals(r)
        /\ w.occupancy[r] = IF m \in Reports(r) THEN m.level ELSE v.occupancy[r]
    BY DEF Before
  <2>3. /\ w.pending_pulls[r] \in Nat /\ u.pending_pulls[r] \in Nat
        /\ Count(u.out, Answering(r)) \in Nat
    BY <1>1, DrainingCounts
  <2>4. OneIf(m \in Arrivals(r)) = 0 /\ Count(w.out, Answering(r)) = 0
    BY <1>2, <2>2 DEF OneIf
  <2>5. u.pending_pulls[r] = v.pending_pulls[r] + Count(u.out, Answering(r))
    BY <2>1, <2>3, <2>4
  <2>6. ASSUME Count(u.out, Answering(r)) # 0
        PROVE  u.occupancy[r] + u.pending_pulls[r] <= MaxConcurrency
    <3>1. w.pending_pulls[r] < u.pending_pulls[r]
      BY <2>1, <2>3, <2>5, <2>6
    <3> QED
      BY <2>1, <3>1
  <2>7. u.occupancy[r] = IF m \in Reports(r) THEN m.level ELSE v.occupancy[r]
    BY <2>1, <2>2
  <2>8. u.pending_pulls[r] + OneIf(m \in Arrivals(r)) = v.pending_pulls[r] + Count(u.out, Answering(r))
    BY <2>3, <2>4, <2>5
  <2> QED
    BY <2>2, <2>6, <2>7, <2>8
<1>4. \A r \in Replicas \ Members(s) : Count(u.out, Answering(r)) = 0
  BY <1>2 DEF Drained
<1>5. \A q \in Tasks : m \notin HopOf(q)
  BY DEF Before
<1> QED
  BY ONLY <1>1, <1>3, <1>4, <1>5 DEF Hears

(* What a sidecar is, and what kinds of messages it finds *)
LEMMA SidecarFinds ==
  ASSUME Types, NEW s \in Sidecars, inbox[SidecarBox(s)] # <<>>,
         NEW m, m = Head(inbox[SidecarBox(s)])
  PROVE  /\ sidecar[s] \in SidecarState(s) /\ sidecar[s] \in Draining(s) /\ sidecar[s].out = <<>>
         /\ m \in SidecarMail(s)
         /\ m.kind = "intent" => m \in Intents
         /\ m.kind = "upstream" => m \in Ingested
         /\ m.kind = "pull_arrived" => m.server \in Members(s) /\ m \in Arrivals(m.server)
         /\ m.kind = "completed" => m.server \in Members(s) /\ m \in Completions(m.server)
         /\ m.kind = "occupancy" => m.server \in Members(s) /\ m \in Reports(m.server)
<1>1. sidecar[s] \in SidecarState(s)
  BY DEF Types
<1>2. sidecar[s] \in Draining(s) /\ sidecar[s].out = <<>>
  <2> DEFINE v == sidecar[s]
  <2>1. v \in SidecarState(s)
    BY <1>1
  <2> HIDE DEF v
  <2>2. v.out = <<>>
    BY ONLY <2>1 DEF SidecarState
  <2>3. <<>> \in Seq(Sends)
    OBVIOUS
  <2>4. v.out \in Seq(Sends)
    BY <2>2, <2>3
  <2>5. v \in Draining(s)
    BY ONLY <2>1, <2>4 DEF SidecarState, Draining
  <2> QED
    BY <2>2, <2>5 DEF v
<1>3. inbox[SidecarBox(s)] \in Seq(SidecarMail(s))
  BY DEF Types, Mailboxes
<1>4. m \in SidecarMail(s)
  BY <1>3
<1>5. m \in Ingested \/ m \in Intents \/ \E r \in Members(s) : m \in EventMail(r)
  BY <1>4 DEF SidecarMail
<1>6. \A r : /\ m \in Arrivals(r) => m.kind = "pull_arrived" /\ m.server = r
             /\ m \in Completions(r) => m.kind = "completed" /\ m.server = r
             /\ m \in Reports(r) => m.kind = "occupancy" /\ m.server = r
  BY DEF Arrivals, Completions, Reports
<1>7. (m \in Ingested => m.kind = "upstream") /\ (m \in Intents => m.kind = "intent")
  BY DEF Ingested, Intents
<1>8. m.kind = "intent" => m \in Intents
  BY <1>5, <1>6, <1>7 DEF EventMail
<1>9. m.kind = "upstream" => m \in Ingested
  BY <1>5, <1>6, <1>7 DEF EventMail
<1>10. m.kind = "pull_arrived" => m.server \in Members(s) /\ m \in Arrivals(m.server)
  BY <1>5, <1>6, <1>7 DEF EventMail
<1>11. m.kind = "completed" => m.server \in Members(s) /\ m \in Completions(m.server)
  BY <1>5, <1>6, <1>7 DEF EventMail
<1>12. m.kind = "occupancy" => m.server \in Members(s) /\ m \in Reports(m.server)
  BY <1>5, <1>6, <1>7 DEF EventMail
<1> QED
  BY <1>1, <1>2, <1>4, <1>8, <1>9, <1>10, <1>11, <1>12

(* An intent is queued and every replica is offered to. *)
LEMMA ReceivePullIntentTells ==
  ASSUME Types, NEW s \in Sidecars, ReceivePullIntent(s)
  PROVE  \E w \in Draining(s) :
           /\ Told(s, DrainIdle(w, s)) /\ Head(inbox[SidecarBox(s)]) \in Intents
           /\ w.occupancy = sidecar[s].occupancy /\ w.pending_pulls = sidecar[s].pending_pulls
           /\ w.out = <<>>
           /\ \A T : Count(w.pull_intents, T) = Count(sidecar[s].pull_intents, T)
                       + IF Head(inbox[SidecarBox(s)]) \in T THEN 1 ELSE 0
<1> DEFINE m == Head(inbox[SidecarBox(s)])
           v == sidecar[s]
           edf == config.pull_sched = "edf+"
           p == Enqueue(v.pull_intents, m, edf)
           w == [v EXCEPT !.pull_intents = p]
           u == DrainIdle(w, s)
<1>1. inbox[SidecarBox(s)] # <<>> /\ m.kind = "intent" /\ SidecarBecomes(s, u)
  BY DEF ReceivePullIntent, Receives
<1>2. config \in [share : Shares, pull_sched : Scheds, scheduling : Schedulings]
  BY DEF Types
<1>3. v \in Draining(s) /\ v.out = <<>> /\ m \in Intents
  BY <1>1, SidecarFinds
<1>4. v.pull_intents \in Seq(Intents)
  BY <1>3 DEF Draining
<1>5. /\ p \in Seq(Intents)
      /\ \A T : Count(p, T) = Count(v.pull_intents, T) + IF m \in T THEN 1 ELSE 0
  BY <1>3, <1>4, EnqueueIs
<1> HIDE DEF p, v
<1>6. /\ w \in Draining(s) /\ w.occupancy = v.occupancy /\ w.pending_pulls = v.pending_pulls
      /\ w.out = <<>> /\ w.pull_intents = p
  BY ONLY <1>3, <1>5 DEF Draining, w
<1> HIDE DEF w
<1>7. Drained(s, w, u)
  BY <1>2, <1>6, DrainIdleDrains
<1>8. Before(s, v, m, w)
  <2>1. \A r : m \notin Arrivals(r) /\ m \notin Reports(r)
    BY <1>1 DEF Arrivals, Reports
  <2>2. \A q : m \notin HopOf(q)
    BY <1>1 DEF HopOf
  <2> QED
    BY <1>6, <2>1, <2>2 DEF Before
<1>9. Hears(s, v, m, u)
  BY <1>7, <1>8, DrainedHears
<1>10. u \in Draining(s)
  BY <1>7 DEF Drained
<1> HIDE DEF u
<1>11. Taken(s, u)
  BY <1>1, <1>10, SidecarBecomesIs
<1>12. Told(s, u)
  BY <1>1, <1>9, <1>11 DEF Told, v
<1> QED
  BY <1>3, <1>5, <1>6, <1>12 DEF u, v

(* A report, or a completion, offers to its replica: w is what is known before. *)
ByReport(s, m, w) ==
  /\ w \in Draining(s) /\ m.server \in Members(s)
  /\ m \in Completions(m.server) \cup Reports(m.server)
  /\ w.pending_pulls = sidecar[s].pending_pulls /\ w.pull_intents = sidecar[s].pull_intents
  /\ w.out = <<>>
  /\ \A r \in Members(s) \ {m.server} : w.occupancy[r] = sidecar[s].occupancy[r]

LEMMA ReportedTells ==
  ASSUME Types, NEW s \in Sidecars, inbox[SidecarBox(s)] # <<>>,
         NEW m, m = Head(inbox[SidecarBox(s)]), m.kind \in {"completed", "occupancy"},
         NEW w, w = IF m.kind = "occupancy" THEN [sidecar[s] EXCEPT !.occupancy[m.server] = m.level]
                    ELSE sidecar[s],
         SidecarBecomes(s, DrainCapacity(w, m.server))
  PROVE  Told(s, DrainCapacity(w, m.server)) /\ ByReport(s, m, w)
<1> DEFINE v == sidecar[s]
           k == m.server
           u == DrainCapacity(w, k)
<1>1. config \in [share : Shares, pull_sched : Scheds, scheduling : Schedulings]
  BY DEF Types
<1>2. v \in Draining(s) /\ v.out = <<>> /\ k \in Members(s)
  BY SidecarFinds
<1>3. m.kind = "completed" => m \in Completions(k)
  BY SidecarFinds
<1>4. m.kind = "occupancy" => m \in Reports(k)
  BY SidecarFinds
<1>5. \A r : m \notin Arrivals(r) /\ (m \in Reports(r) <=> m.kind = "occupancy" /\ r = k)
  BY <1>4 DEF Arrivals, Reports
<1>6. \A q : m \notin HopOf(q)
  BY DEF HopOf
<1>7. m.kind = "occupancy" => m.level \in Nat
  BY <1>4 DEF Reports
<1> HIDE DEF v, k
<1>8. /\ w \in Draining(s) /\ w.pending_pulls = v.pending_pulls /\ w.out = <<>>
      /\ w.pull_intents = v.pull_intents
      /\ \A r \in Members(s) : w.occupancy[r] = IF m.kind = "occupancy" /\ r = k THEN m.level ELSE v.occupancy[r]
  <2>1. CASE m.kind = "occupancy"
    <3>1. w = [v EXCEPT !.occupancy[k] = m.level]
      BY <2>1 DEF v, k
    <3>2. m.level \in Nat /\ v.occupancy \in [Members(s) -> Nat]
      BY <1>2, <1>7, <2>1 DEF Draining
    <3>3. PICK f : f = [v.occupancy EXCEPT ![k] = m.level]
      OBVIOUS
    <3>4. /\ f \in [Members(s) -> Nat]
          /\ \A r \in Members(s) : f[r] = IF r = k THEN m.level ELSE v.occupancy[r]
      BY <1>2, <3>2, <3>3
    <3>5. w = [v EXCEPT !.occupancy = f]
      BY <3>1, <3>3
    <3>6. /\ w \in Draining(s) /\ w.pending_pulls = v.pending_pulls /\ w.out = v.out
          /\ w.pull_intents = v.pull_intents /\ w.occupancy = f
      BY ONLY <1>2, <3>4, <3>5 DEF Draining
    <3> QED
      BY <1>2, <2>1, <3>4, <3>6
  <2>2. CASE m.kind = "completed"
    <3>1. w = v
      BY <2>2 DEF v
    <3> QED
      BY <1>2, <2>2, <3>1
  <2> QED
    BY <2>1, <2>2
<1>9. Drained(s, w, u)
  BY <1>1, <1>2, <1>8, DrainCapacityDrains
<1>10. Before(s, v, m, w)
  BY <1>5, <1>6, <1>8 DEF Before
<1>11. Hears(s, v, m, u)
  BY <1>9, <1>10, DrainedHears
<1>12. u \in Draining(s)
  BY <1>9 DEF Drained
<1>13. SidecarBecomes(s, u)
  BY DEF k
<1> HIDE DEF u
<1>14. Taken(s, u)
  BY <1>12, <1>13, SidecarBecomesIs
<1>15. Told(s, u)
  BY <1>11, <1>14 DEF Told, v
<1>16. m \in Completions(k) \cup Reports(k)
  BY <1>3, <1>4
<1> QED
  BY <1>2, <1>8, <1>15, <1>16 DEF u, v, k, ByReport

(* The arrival of a pulled call ends its reservation. *)
ByArrival(s, m, u) ==
  /\ Told(s, u) /\ m.server \in Members(s) /\ m \in Arrivals(m.server)
  /\ u.pull_intents = sidecar[s].pull_intents /\ u.occupancy = sidecar[s].occupancy
  /\ u.out = <<>>
  /\ \A r \in Members(s) \ {m.server} : u.pending_pulls[r] = sidecar[s].pending_pulls[r]

LEMMA ArrivedTells ==
  ASSUME PullInv, NEW s \in Sidecars, inbox[SidecarBox(s)] # <<>>,
         NEW m, m = Head(inbox[SidecarBox(s)]), m.kind = "pull_arrived",
         sidecar' = [sidecar EXCEPT ![s].pending_pulls[m.server] = SaturatingDec(@)],
         inbox' = Rest(SidecarBox(s)), UNCHANGED <<config, arrived, client, replica, edge>>
  PROVE  \E u : ByArrival(s, m, u)
<1> DEFINE v == sidecar[s]
           k == m.server
           b == inbox[SidecarBox(s)]
<1>1. Types /\ Reserved
  BY DEF PullInv
<1>2. v \in Draining(s) /\ v.out = <<>> /\ k \in Members(s) /\ m \in Arrivals(k)
  BY <1>1, SidecarFinds
<1>3. \A r : /\ m \notin Reports(r) /\ (m \in Arrivals(r) <=> r = k)
  BY <1>2 DEF Arrivals, Reports
<1>4. \A q : m \notin HopOf(q)
  BY DEF HopOf
<1>5. v.pending_pulls \in [Members(s) -> Nat]
  BY <1>2 DEF Draining
<1>6. v.pending_pulls[k] > 0
  <2>1. k \in Replicas /\ SidecarId(k) = s
    BY <1>2 DEF Members
  <2>2. v.pending_pulls[k] = UnderWay(k) + Count(b, Arrivals(k))
    BY <1>1, <2>1 DEF Reserved, EventsOf
  <2>3. b \in Seq(SidecarMail(s))
    BY <1>1 DEF Types, Mailboxes
  <2>4. Count(b, Arrivals(k)) = Count(Tail(b), Arrivals(k)) + IF m \in Arrivals(k) THEN 1 ELSE 0
    BY <2>3, CountPopFront
  <2>5. Count(Tail(b), Arrivals(k)) \in Nat
    <3>1. Tail(b) \in Seq(SidecarMail(s))
      BY <2>3, SMTT(30)
    <3> QED
      BY <3>1, CountFinite
  <2>6. UnderWay(k) \in Nat
    <3>1. AreQueues(ClientMail(inbox), Clients, PullMail)
      BY <1>1 DEF Types, Mailboxes, AreQueues, ClientMail
    <3>2. Across(ClientMail(inbox), Clients, Pulls(k)) \in Nat
      <4>1. IsFiniteSet(Clients)
        BY SidecarAssumption
      <4>2. IsFiniteSet(UNION {Matches(ClientMail(inbox), c, Pulls(k)) : c \in Clients})
        BY <3>1, <4>1, MatchesFinite
      <4> QED
        BY <4>2, FS_CardinalityType DEF Across
    <3>3. inbox[ReplicaBox(k)] \in Seq(Work)
      BY <1>1, <2>1 DEF Types, Mailboxes
    <3>4. Count(inbox[ReplicaBox(k)], PulledCalls) \in Nat
      BY <3>3, CountFinite
    <3> QED
      BY <3>2, <3>4 DEF UnderWay
  <2> HIDE DEF v, k, b
  <2> QED
    BY ONLY <1>2, <2>2, <2>4, <2>5, <2>6
<1> HIDE DEF v, k
<1>7. PICK p : p = [v.pending_pulls EXCEPT ![k] = v.pending_pulls[k] - 1]
  OBVIOUS
<1>8. /\ p \in [Members(s) -> Nat] /\ p[k] = v.pending_pulls[k] - 1
      /\ \A r \in Members(s) \ {k} : p[r] = v.pending_pulls[r]
  <2>1. v.pending_pulls[k] \in Nat
    BY <1>2, <1>5
  <2>2. v.pending_pulls[k] - 1 \in Nat
    BY ONLY <1>6, <2>1
  <2> QED
    BY <1>2, <1>5, <1>7, <2>2
<1>9. PICK u : u = [v EXCEPT !.pending_pulls = p]
  OBVIOUS
<1>10. /\ u \in Draining(s) /\ u.occupancy = v.occupancy /\ u.pending_pulls = p
       /\ u.pull_intents = v.pull_intents /\ u.out = v.out
  BY ONLY <1>2, <1>8, <1>9 DEF Draining
<1>11. Hears(s, v, m, u)
  <2>1. \A T : Count(u.out, T) = 0
    BY <1>2, <1>10, CountEmpty
  <2>2. ASSUME NEW r \in Members(s)
        PROVE  u.pending_pulls[r] + OneIf(m \in Arrivals(r)) = v.pending_pulls[r] + Count(u.out, Answering(r))
    <3>1. v.pending_pulls[r] \in Nat /\ Count(u.out, Answering(r)) = 0
      BY <1>5, <2>1
    <3>2. CASE r = k
      <4>1. OneIf(m \in Arrivals(r)) = 1
        BY <1>3, <3>2 DEF OneIf
      <4> QED
        BY <1>8, <1>10, <3>1, <3>2, <4>1
    <3>3. CASE r # k
      <4>1. OneIf(m \in Arrivals(r)) = 0
        BY <1>3, <3>3 DEF OneIf
      <4> QED
        BY <1>8, <1>10, <3>1, <3>3, <4>1
    <3> QED
      BY <3>2, <3>3
  <2> QED
    BY <1>3, <1>4, <1>10, <2>1, <2>2 DEF Hears
<1>12. Taken(s, u)
  <2>1. sidecar' = [sidecar EXCEPT ![s] = [u EXCEPT !.out = <<>>]]
    <3>1. SaturatingDec(v.pending_pulls[k]) = v.pending_pulls[k] - 1
      BY <1>6 DEF SaturatingDec
    <3>2. sidecar' = [sidecar EXCEPT ![s] = [v EXCEPT !.pending_pulls = p]]
      <4>1. sidecar' = [sidecar EXCEPT ![s] = [v EXCEPT !.pending_pulls =
                          [v.pending_pulls EXCEPT ![k] = SaturatingDec(v.pending_pulls[k])]]]
        BY DEF v, k
      <4> QED
        BY <1>7, <3>1, <4>1
    <3>3. [u EXCEPT !.out = <<>>] = u
      <4>1. u.out = <<>>
        BY <1>2, <1>10
      <4> QED
        BY ONLY <1>10, <4>1 DEF Draining
    <3> QED
      BY <1>9, <3>2, <3>3
  <2>2. /\ inbox'[SidecarBox(s)] = Tail(inbox[SidecarBox(s)])
        /\ \A o \in Sidecars \ {s} : inbox'[SidecarBox(o)] = inbox[SidecarBox(o)]
        /\ \A r \in Replicas : inbox'[ReplicaBox(r)] = inbox[ReplicaBox(r)]
        /\ inbox'[EdgeBox] = inbox[EdgeBox]
        /\ \A c \in Clients : inbox'[ClientBox(c)] = inbox[ClientBox(c)]
        /\ MailOf(inbox')
        /\ ClientMail(inbox') = ClientMail(inbox)
    BY <1>1, RestIs
  <2>3. \A T : Count(u.out, T) = 0
    BY <1>2, <1>10, CountEmpty
  <2>4. ASSUME NEW T
        PROVE  /\ \A c \in Clients : Count(inbox'[ClientBox(c)], T)
                                       = Count(inbox[ClientBox(c)], T) + Count(u.out, SentTo(c, T))
               /\ Across(ClientMail(inbox'), Clients, T)
                    = Across(ClientMail(inbox), Clients, T)
                      + Count(u.out, [to : {ClientBox(c) : c \in Clients}, msg : T])
    <3>1. AreQueues(ClientMail(inbox), Clients, PullMail)
      BY <1>1 DEF Types, Mailboxes, AreQueues, ClientMail
    <3>2. Across(ClientMail(inbox), Clients, T) \in Nat
      BY <3>1, SidecarAssumption, MatchesFinite, FS_CardinalityType DEF Across
    <3>3. \A c \in Clients : inbox[ClientBox(c)] \in Seq(PullMail)
      BY <1>1 DEF Types, Mailboxes
    <3>4. \A c \in Clients : Count(inbox[ClientBox(c)], T) \in Nat
      BY <3>3, CountFinite
    <3>5. \A c \in Clients : Count(inbox'[ClientBox(c)], T)
                               = Count(inbox[ClientBox(c)], T) + Count(u.out, SentTo(c, T))
      BY <2>2, <2>3, <3>4
    <3> DEFINE W == [to : {ClientBox(c) : c \in Clients}, msg : T]
    <3>6. Count(u.out, W) = 0
      BY <2>3
    <3> HIDE DEF W
    <3>7. Across(ClientMail(inbox'), Clients, T) = Across(ClientMail(inbox), Clients, T) + Count(u.out, W)
      BY <2>2, <3>2, <3>6
    <3> QED
      BY <3>5, <3>7 DEF W
  <2>5. UNCHANGED <<config, arrived, client, replica, edge>>
    OBVIOUS
  <2> QED
    BY ONLY <2>1, <2>2, <2>4, <2>5 DEF Taken
<1>13. Told(s, u)
  BY <1>11, <1>12 DEF Told, v
<1> QED
  BY <1>2, <1>8, <1>10, <1>13 DEF v, k, ByArrival

(* Whatever a sidecar is told by its replicas *)
LEMMA CapacityEventTells ==
  ASSUME PullInv, NEW s \in Sidecars, CapacityEvent(s)
  PROVE  \E u : Told(s, u)
<1> DEFINE m == Head(inbox[SidecarBox(s)])
           v == sidecar[s]
<1>1. Types
  BY DEF PullInv
<1>2. CASE /\ Receives(SidecarBox(s), {"pull_arrived"})
           /\ sidecar' = [sidecar EXCEPT ![s].pending_pulls[m.server] = SaturatingDec(@)]
           /\ inbox' = Rest(SidecarBox(s))
           /\ UNCHANGED <<config, arrived, client, replica, edge>>
  <2>1. inbox[SidecarBox(s)] # <<>> /\ m.kind = "pull_arrived"
    BY <1>2 DEF Receives
  <2> QED
    BY <1>2, <2>1, ArrivedTells DEF ByArrival
<1>3. CASE Receives(SidecarBox(s), {"completed"}) /\ SidecarBecomes(s, DrainCapacity(v, m.server))
  <2>1. inbox[SidecarBox(s)] # <<>> /\ m.kind = "completed"
    BY <1>3 DEF Receives
  <2>2. v = IF m.kind = "occupancy" THEN [v EXCEPT !.occupancy[m.server] = m.level] ELSE v
    BY <2>1
  <2> HIDE DEF v
  <2>3. SidecarBecomes(s, DrainCapacity(v, m.server))
    BY <1>3
  <2> QED
    BY <1>1, <2>1, <2>2, <2>3, ReportedTells DEF v
<1>4. CASE Receives(SidecarBox(s), {"occupancy"}) /\ SidecarBecomes(s, OccupancyReported(v, m))
  <2>1. inbox[SidecarBox(s)] # <<>> /\ m.kind = "occupancy"
    BY <1>4 DEF Receives
  <2>2. PICK w : w = [v EXCEPT !.occupancy[m.server] = m.level]
    OBVIOUS
  <2>3. w = IF m.kind = "occupancy" THEN [sidecar[s] EXCEPT !.occupancy[m.server] = m.level] ELSE sidecar[s]
    BY <2>1, <2>2
  <2>4. SidecarBecomes(s, DrainCapacity(w, m.server))
    BY <1>4, <2>2 DEF OccupancyReported
  <2>5. m.kind \in {"completed", "occupancy"}
    BY <2>1
  <2>6. Told(s, DrainCapacity(w, m.server))
    BY ONLY <1>1, <2>1, <2>3, <2>4, <2>5, ReportedTells
  <2> QED
    BY <2>6
<1> QED
  BY <1>2, <1>3, <1>4 DEF CapacityEvent

-----------------------------------------------------------------------------
(***************************************************************************)
(* A task is passed on: m is added to the mailbox of replica d, if d is    *)
(* one, and the sidecars' mailboxes change by what is not about pulls.     *)
(***************************************************************************)
Aside(m) == \A r : Foreign(m, r)

Elsewhere(b, c, M) ==
  \/ c = b
  \/ \E e \in M : Aside(e) /\ c = Append(b, e)
  \/ b # <<>> /\ Aside(Head(b)) /\ c = Tail(b)

Receiving(d, m) ==
  /\ UNCHANGED <<config, replica>>
  /\ m \in Work /\ m.kind = "upstream"
  /\ \A r \in Replicas : inbox'[ReplicaBox(r)] = IF r = d THEN Append(inbox[ReplicaBox(r)], m)
                                                 ELSE inbox[ReplicaBox(r)]

Passing(d, m) ==
  /\ Receiving(d, m)
  /\ \A s \in Sidecars : /\ Elsewhere(inbox[SidecarBox(s)], inbox'[SidecarBox(s)], SidecarMail(s))
                         /\ sidecar'[s].pending_pulls = sidecar[s].pending_pulls
  /\ \A r \in Replicas :
       /\ sidecar'[SidecarId(r)].occupancy[r] >= OccOf(r)
       /\ r # d \/ m.slot => sidecar'[SidecarId(r)].occupancy[r] = OccOf(r)
       /\ Across(ClientMail(inbox'), Clients, Pulls(r)) + OneIf(r = d /\ m.slot)
            = Across(ClientMail(inbox), Clients, Pulls(r))

(* c is b and m. *)
Pushed(b, m, c) == c = Append(b, m)

LEMMA Receives1 ==
  ASSUME NEW r, NEW b, NEW v, Counted(r, b, v), NEW m \in Work, NEW c, Pushed(b, m, c)
  PROVE  /\ Counted(r, c, v)
         /\ \A q \in Tasks : InHand(v, c, q) = InHand(v, b, q) + OneIf(m.task = q)
<1>1. b \in Seq(Work)
  BY DEF Counted
<1>2. c \in Seq(Work)
  BY <1>1 DEF Pushed
<1>3. Counted(r, c, v)
  BY <1>2 DEF Counted
<1>4. ASSUME NEW q \in Tasks
      PROVE  InHand(v, c, q) = InHand(v, b, q) + OneIf(m.task = q)
  <2>1. Count(c, HopOf(q)) = Count(b, HopOf(q)) + IF m \in HopOf(q) THEN 1 ELSE 0
    BY <1>1, CountPushBack DEF Pushed
  <2>2. Count(c, HopOf(q)) = Count(b, HopOf(q)) + OneIf(m.task = q)
    BY <2>1, HopIs DEF OneIf
  <2>3. OneIf(m.task = q) \in Nat
    BY DEF OneIf
  <2> QED
    BY ONLY <1>3, <2>2, <2>3, Counted(r, b, v), InHandParts DEF InHand
<1> QED
  BY <1>3, <1>4

(* What the replicas have then *)
LEMMA ReceivingIs ==
  ASSUME Types, AllCounted, NEW d, NEW m, Receiving(d, m)
  PROVE  /\ AllCounted'
         /\ \A r \in Replicas :
              /\ \A q \in Tasks : InHand(replica'[r], inbox'[ReplicaBox(r)], q)
                                    = InHand(replica[r], inbox[ReplicaBox(r)], q) + OneIf(r = d /\ m.task = q)
              /\ Count(inbox'[ReplicaBox(r)], PulledCalls)
                   = Count(inbox[ReplicaBox(r)], PulledCalls) + OneIf(r = d /\ m.slot)
              /\ Count(inbox'[ReplicaBox(r)], PushedTasks)
                   = Count(inbox[ReplicaBox(r)], PushedTasks) + OneIf(r = d /\ ~m.slot)
              /\ inbox'[ReplicaBox(r)] \in Seq(Work)
<1>1. replica' = replica /\ config' = config /\ m \in Work /\ m.kind = "upstream"
  BY DEF Receiving
<1>2. /\ m \in PulledCalls <=> m.slot
      /\ m \in PushedTasks <=> ~m.slot
  BY <1>1 DEF PulledCalls, PushedTasks, Work
<1>3. ASSUME NEW r \in Replicas
      PROVE  /\ Counted(r, inbox'[ReplicaBox(r)], replica[r])
             /\ \A q \in Tasks : InHand(replica[r], inbox'[ReplicaBox(r)], q)
                                   = InHand(replica[r], inbox[ReplicaBox(r)], q) + OneIf(r = d /\ m.task = q)
             /\ Count(inbox'[ReplicaBox(r)], PulledCalls)
                  = Count(inbox[ReplicaBox(r)], PulledCalls) + OneIf(r = d /\ m.slot)
             /\ Count(inbox'[ReplicaBox(r)], PushedTasks)
                  = Count(inbox[ReplicaBox(r)], PushedTasks) + OneIf(r = d /\ ~m.slot)
  <2> DEFINE b == inbox[ReplicaBox(r)]
             c == inbox'[ReplicaBox(r)]
  <2>1. Counted(r, b, replica[r])
    BY DEF AllCounted
  <2>2. b \in Seq(Work)
    BY <2>1 DEF Counted
  <2>3. /\ \A q \in Tasks : InHand(replica[r], b, q) \in Nat
        /\ Count(b, PulledCalls) \in Nat /\ Count(b, PushedTasks) \in Nat
    BY <2>1, <2>2, InHandParts, CountFinite
  <2>4. CASE r = d
    <3>1. PICK old, new, v : old = b /\ new = c /\ v = replica[r]
      OBVIOUS
    <3>2. new = Append(old, m) /\ m \in Work
      BY <1>1, <2>4, <3>1 DEF Receiving
    <3>3. Counted(r, old, v) /\ old \in Seq(Work)
      BY <2>1, <2>2, <3>1
    <3>4. /\ Count(new, PulledCalls) = Count(old, PulledCalls) + IF m \in PulledCalls THEN 1 ELSE 0
          /\ Count(new, PushedTasks) = Count(old, PushedTasks) + IF m \in PushedTasks THEN 1 ELSE 0
      BY ONLY <3>2, <3>3, CountPushBack
    <3>5. /\ Counted(r, new, v)
          /\ \A q \in Tasks : InHand(v, new, q) = InHand(v, old, q) + OneIf(m.task = q)
      <4>1. Pushed(old, m, new)
        BY <3>2 DEF Pushed
      <4>2. m \in Work
        BY <3>2
      <4>3. Counted(r, old, v)
        BY <3>3
      <4> QED
        BY ONLY <4>1, <4>2, <4>3, Receives1
    <3>6. /\ OneIf(r = d /\ m.slot) = IF m \in PulledCalls THEN 1 ELSE 0
          /\ OneIf(r = d /\ ~m.slot) = IF m \in PushedTasks THEN 1 ELSE 0
      BY <1>2, <2>4 DEF OneIf
    <3>7. \A q : OneIf(r = d /\ m.task = q) = OneIf(m.task = q)
      BY <2>4 DEF OneIf
    <3> QED
      BY <3>1, <3>4, <3>5, <3>6, <3>7
  <2>5. CASE r # d
    <3>1. c = b
      BY <2>5 DEF Receiving
    <3>2. /\ OneIf(r = d /\ m.slot) = 0 /\ OneIf(r = d /\ ~m.slot) = 0
          /\ \A q : OneIf(r = d /\ m.task = q) = 0
      BY <2>5 DEF OneIf
    <3> QED
      BY <2>1, <2>3, <3>1, <3>2
  <2> QED
    BY <2>4, <2>5
<1>4. AllCounted'
  BY <1>1, <1>3 DEF AllCounted
<1> QED
  BY <1>1, <1>3, <1>4 DEF Counted

(* Nothing about r is said there. *)
LEMMA HeardElsewhere ==
  ASSUME NEW M, NEW b \in Seq(M), NEW c, Elsewhere(b, c, M), NEW r,
         NEW occ \in Nat, NEW n \in Nat, NEW level \in Nat, NEW pushed,
         Heard(b, r, occ, n, level, pushed)
  PROVE  /\ Heard(c, r, occ, n, level, pushed)
         /\ Count(c, Arrivals(r)) = Count(b, Arrivals(r)) /\ c \in Seq(M)
<1>1. CASE c = b
  BY <1>1
<1>2. CASE \E e \in M : Aside(e) /\ c = Append(b, e)
  <2>1. PICK m \in M : Aside(m) /\ c = Append(b, m)
    BY <1>2
  <2>2. Foreign(m, r) /\ m \notin Arrivals(r)
    BY <2>1 DEF Aside, Foreign
  <2>3. Heard(Append(b, m), r, occ, n, level, pushed)
    BY <2>2, HeardForeign
  <2>4. Count(Append(b, m), Arrivals(r)) = Count(b, Arrivals(r)) + IF m \in Arrivals(r) THEN 1 ELSE 0
    BY CountPushBack
  <2>5. Count(b, Arrivals(r)) \in Nat
    BY CountFinite
  <2>6. Count(Append(b, m), Arrivals(r)) = Count(b, Arrivals(r))
    BY <2>2, <2>4, <2>5
  <2>7. Append(b, m) \in Seq(M)
    BY PushBack
  <2> QED
    BY <2>1, <2>3, <2>6, <2>7
<1>3. CASE b # <<>> /\ Aside(Head(b)) /\ c = Tail(b)
  <2>1. Head(b) \notin Arrivals(r) /\ Head(b) \notin Reports(r)
    BY <1>3 DEF Aside, Foreign
  <2>2. Tail(b) \in Seq(M)
    BY <1>3
  <2>3. Count(b, Arrivals(r)) = Count(Tail(b), Arrivals(r)) + IF Head(b) \in Arrivals(r) THEN 1 ELSE 0
    BY <1>3, CountPopFront
  <2>4. Count(Tail(b), Arrivals(r)) \in Nat
    BY <2>2, CountFinite
  <2>5. Count(Tail(b), Arrivals(r)) = Count(b, Arrivals(r))
    BY <2>1, <2>3, <2>4
  <2>6. occ = IF Head(b) \in Reports(r) THEN Head(b).level ELSE occ
    BY <2>1
  <2>7. Heard(Tail(b), r, occ, n, level, pushed)
    BY <1>3, <2>6, HeardNext
  <2> QED
    BY <1>3, <2>2, <2>5, <2>7
<1> QED
  BY <1>1, <1>2, <1>3 DEF Elsewhere

(* Where the tasks are is up to the step. *)
LEMMA PassingKeeps ==
  ASSUME PullInv, NEW d, NEW m, Passing(d, m), Types', Placed'
  PROVE  PullInv'
<1>1. Types /\ AllCounted /\ AllFull /\ Reported /\ Reserved /\ InSlots
  BY DEF PullInv
<1>2. Receiving(d, m) /\ config' = config /\ replica' = replica
  BY DEF Passing, Receiving
<1>3. AllCounted'
  BY <1>1, <1>2, ReceivingIs
<1>4. AllFull'
  BY <1>1, <1>2 DEF AllFull
<1>5. ASSUME NEW r \in Replicas
      PROVE  /\ HeardOf(EventsOf(r)', r, OccOf(r)', inbox'[ReplicaBox(r)], replica'[r])
             /\ sidecar'[SidecarId(r)].pending_pulls[r] = UnderWay(r)' + Count(EventsOf(r)', Arrivals(r))
             /\ UnderWay(r)' = UnderWay(r)
  <2> DEFINE s == SidecarId(r)
             n == Cardinality(Pulled(replica[r]))
             level == OccupancyLevel(replica[r])
             pushed == Count(inbox[ReplicaBox(r)], PushedTasks)
  <2>1. s \in Sidecars /\ r \in Members(s)
    BY <1>1, MembersAre DEF Types
  <2>2. /\ EventsOf(r)' = inbox'[SidecarBox(s)]
        /\ OccOf(r)' = sidecar'[s].occupancy[r]
        /\ UnderWay(r)' = Across(ClientMail(inbox'), Clients, Pulls(r)) + Count(inbox'[ReplicaBox(r)], PulledCalls)
    BY <1>2, NextIs
  <2>3. EventsOf(r) \in Seq(SidecarMail(s)) /\ Elsewhere(EventsOf(r), EventsOf(r)', SidecarMail(s))
    BY <1>1, <2>1, <2>2 DEF Types, Mailboxes, EventsOf, Passing
  <2>4. n \in Nat /\ level \in Nat
    BY <1>1, PulledIs DEF AllCounted
  <2>5. OccOf(r) \in Nat /\ OccOf(r)' \in Nat
    <3>1. sidecar[s] \in SidecarState(s) /\ sidecar'[s] \in SidecarState(s)
      BY <1>1, <1>2, <2>1, SameGroups DEF Types
    <3> QED
      BY <2>1, <2>2, <3>1 DEF SidecarState, OccOf
  <2>6. /\ HeardOf(EventsOf(r), r, OccOf(r), inbox[ReplicaBox(r)], replica[r])
        /\ sidecar[s].pending_pulls[r] = UnderWay(r) + Count(EventsOf(r), Arrivals(r))
    BY <1>1 DEF Reported, Reserved
  <2>7. /\ OccOf(r)' >= OccOf(r)
        /\ r # d \/ m.slot => OccOf(r)' = OccOf(r)
        /\ sidecar'[s].pending_pulls = sidecar[s].pending_pulls
        /\ Across(ClientMail(inbox'), Clients, Pulls(r)) + OneIf(r = d /\ m.slot)
             = Across(ClientMail(inbox), Clients, Pulls(r))
    BY <2>1, <2>2 DEF Passing
  <2>8. /\ Count(inbox'[ReplicaBox(r)], PulledCalls) = Count(inbox[ReplicaBox(r)], PulledCalls) + OneIf(r = d /\ m.slot)
        /\ Count(inbox'[ReplicaBox(r)], PushedTasks) = pushed + OneIf(r = d /\ ~m.slot)
    BY <1>1, <1>2, ReceivingIs
  <2>9. pushed \in Nat /\ Count(inbox[ReplicaBox(r)], PulledCalls) \in Nat
    <3>1. inbox[ReplicaBox(r)] \in Seq(Work)
      BY <1>1 DEF Types, Mailboxes
    <3> QED
      BY <3>1, CountFinite
  <2>10. Across(ClientMail(inbox'), Clients, Pulls(r)) \in Nat
    <3>1. AreQueues(ClientMail(inbox'), Clients, PullMail')
      BY DEF Types, Mailboxes, AreQueues, ClientMail
    <3>2. AreQueues(ClientMail(inbox'), Clients, PullMail)
      BY <1>2, <3>1, SameGroups
    <3> QED
      BY <3>2, SidecarAssumption, MatchesFinite, FS_CardinalityType DEF Across
  <2>11. UnderWay(r)' = UnderWay(r)
    <3>1. UnderWay(r) = Across(ClientMail(inbox), Clients, Pulls(r)) + Count(inbox[ReplicaBox(r)], PulledCalls)
      BY DEF UnderWay
    <3>2. OneIf(r = d /\ m.slot) \in Nat
      BY DEF OneIf
    <3> QED
      BY ONLY <2>2, <2>7, <2>8, <2>9, <2>10, <3>1, <3>2
  <2>12. PICK b, c, o, now : b = EventsOf(r) /\ c = EventsOf(r)' /\ o = OccOf(r) /\ now = OccOf(r)'
    OBVIOUS
  <2> HIDE DEF n, level, pushed, s
  <2>13. Heard(b, r, o, n, level, pushed)
    BY <2>6, <2>12 DEF HeardOf, n, level, pushed
  <2>14. /\ b \in Seq(SidecarMail(s)) /\ Elsewhere(b, c, SidecarMail(s)) /\ o \in Nat /\ now \in Nat
    BY <2>3, <2>5, <2>12
  <2>15. /\ Heard(c, r, o, n, level, pushed)
         /\ Count(c, Arrivals(r)) = Count(b, Arrivals(r)) /\ c \in Seq(SidecarMail(s))
    BY ONLY <2>4, <2>13, <2>14, HeardElsewhere
  <2>16. Heard(c, r, now, n, level, Count(inbox'[ReplicaBox(r)], PushedTasks))
    <3>1. CASE r # d \/ m.slot
      <4>1. now = o
        BY <2>7, <2>12, <3>1
      <4>2. OneIf(r = d /\ ~m.slot) = 0
        BY <3>1 DEF OneIf
      <4>3. Count(inbox'[ReplicaBox(r)], PushedTasks) = pushed
        BY <2>8, <2>9, <4>2
      <4> QED
        BY <2>15, <4>1, <4>3
    <3>2. CASE r = d /\ ~m.slot
      <4>1. now >= o
        BY <2>7, <2>12
      <4>2. OneIf(r = d /\ ~m.slot) = 1
        BY <3>2 DEF OneIf
      <4>3. PICK more : more = Count(inbox'[ReplicaBox(r)], PushedTasks)
        OBVIOUS
      <4>4. more \in Nat /\ more > 0
        BY <2>8, <2>9, <4>2, <4>3
      <4>5. Heard(c, r, now, n, level, more)
        BY ONLY <2>4, <2>14, <2>15, <4>1, <4>4, HeardForwarded
      <4> QED
        BY <4>3, <4>5
    <3> QED
      BY <3>1, <3>2
  <2>17. HeardOf(EventsOf(r)', r, OccOf(r)', inbox'[ReplicaBox(r)], replica'[r])
    BY <1>2, <2>12, <2>16 DEF HeardOf, n, level
  <2>18. sidecar'[s].pending_pulls[r] = UnderWay(r)' + Count(EventsOf(r)', Arrivals(r))
    BY <2>6, <2>7, <2>11, <2>12, <2>15
  <2> QED
    BY <2>11, <2>17, <2>18 DEF s
<1>6. Reported'
  BY <1>5 DEF Reported
<1>7. Reserved'
  <2>1. \A r : SidecarId(r)' = SidecarId(r)
    BY <1>2, SameGroups
  <2> QED
    BY <1>5, <2>1 DEF Reserved
<1>8. InSlots'
  BY <1>1, <1>2, <1>5 DEF InSlots
<1> QED
  BY <1>3, <1>4, <1>6, <1>7, <1>8 DEF PullInv

(* Of the replicas, only the mailbox of d is y, and none is x. *)
EndsAt(x, y, d) == \A r \in Replicas : ReplicaBox(r) # x /\ (ReplicaBox(r) = y <=> r = d)

(* The replicas' part of a move that ends at y *)
LEMMA CarriedToReplica ==
  ASSUME Types, AllCounted, NEW d, NEW m, Receiving(d, m), NEW x, NEW y, EndsAt(x, y, d),
         NEW q \in Tasks
  PROVE  \A r \in Replicas : Shifts(q, m.task, x, y, ReplicaBox(r), InHand(replica[r], inbox[ReplicaBox(r)], q),
                                    InHand(replica'[r], inbox'[ReplicaBox(r)], q))
<1> TAKE r \in Replicas
<1>1. InHand(replica'[r], inbox'[ReplicaBox(r)], q)
        = InHand(replica[r], inbox[ReplicaBox(r)], q) + OneIf(r = d /\ m.task = q)
  BY ReceivingIs
<1>2. InHand(replica[r], inbox[ReplicaBox(r)], q) \in Nat
  BY Naturals
<1>3. OneIf(r = d /\ m.task = q) = OneIf(q = m.task /\ ReplicaBox(r) = y)
  BY DEF OneIf, EndsAt
<1>4. OneIf(q = m.task /\ ReplicaBox(r) = x) = 0
  BY DEF OneIf, EndsAt
<1>5. OneIf(q = m.task /\ ReplicaBox(r) = y) \in Nat
  BY DEF OneIf
<1> QED
  BY ONLY <1>1, <1>2, <1>3, <1>4, <1>5 DEF Shifts

(* The clients' part of a move that does not concern them *)
LEMMA CarriedPastClients ==
  ASSUME Types, AllCounted, client' = client, NEW h, NEW x, NEW y,
         \A c \in Clients : ClientBox(c) # x /\ ClientBox(c) # y, NEW q \in Tasks
  PROVE  \A c \in Clients : Shifts(q, h, x, y, ClientBox(c), Count(client[c].queue, CallOf(q)),
                                   Count(client'[c].queue, CallOf(q)))
<1> TAKE c \in Clients
<1>1. Count(client[c].queue, CallOf(q)) \in Nat
  BY Naturals
<1>2. OneIf(q = h /\ ClientBox(c) = x) = 0 /\ OneIf(q = h /\ ClientBox(c) = y) = 0
  BY DEF OneIf
<1> QED
  BY <1>1, <1>2 DEF Shifts

(* One part: what goes out, what comes in *)
LEMMA ShiftsOut ==
  ASSUME NEW q, NEW h, NEW x, NEW y, x # y, NEW old \in Nat, NEW new \in Nat, old = new + OneIf(q = h)
  PROVE  Shifts(q, h, x, y, x, old, new)
BY DEF Shifts, OneIf

LEMMA ShiftsIn ==
  ASSUME NEW q, NEW h, NEW x, NEW y, x # y, NEW old \in Nat, NEW new \in Nat, new = old + OneIf(q = h)
  PROVE  Shifts(q, h, x, y, y, old, new)
BY DEF Shifts, OneIf

LEMMA ShiftsNot ==
  ASSUME NEW q, NEW h, NEW x, NEW y, NEW z, x # z, y # z, NEW k \in Nat
  PROVE  Shifts(q, h, x, y, z, k, k)
BY DEF Shifts, OneIf

-----------------------------------------------------------------------------
(* A sidecar forwards a task to replica r. *)
Forwards(s, r) ==
  /\ UNCHANGED <<config, arrived, client, replica, edge>>
  /\ r \in Members(s) /\ inbox[SidecarBox(s)] # <<>> /\ Head(inbox[SidecarBox(s)]) \in Ingested
  /\ inbox' = [x \in Boxes |-> inbox'[x]]
  /\ inbox'[SidecarBox(s)] = Tail(inbox[SidecarBox(s)])
  /\ \A o \in Sidecars \ {s} : inbox'[SidecarBox(o)] = inbox[SidecarBox(o)]
  /\ inbox'[ReplicaBox(r)] = Append(inbox[ReplicaBox(r)], Head(inbox[SidecarBox(s)]))
  /\ \A o \in Replicas \ {r} : inbox'[ReplicaBox(o)] = inbox[ReplicaBox(o)]
  /\ \A c \in Clients : inbox'[ClientBox(c)] = inbox[ClientBox(c)]
  /\ inbox'[EdgeBox] = inbox[EdgeBox]
  /\ sidecar' = [o \in Sidecars |-> sidecar'[o]]
  /\ \A o \in Sidecars \ {s} : sidecar'[o] = sidecar[o]
  /\ sidecar'[s] \in SidecarState(s)
  /\ sidecar'[s].pending_pulls = sidecar[s].pending_pulls
  /\ sidecar'[s].pull_intents = sidecar[s].pull_intents
  /\ sidecar'[s].occupancy[r] = sidecar[s].occupancy[r] + 1
  /\ \A o \in Members(s) \ {r} : sidecar'[s].occupancy[o] = sidecar[s].occupancy[o]

(* The replica it selects is one of its own. *)
LEMMA SelectReplicaIs ==
  ASSUME Types, NEW s \in Sidecars
  PROVE  SelectReplica(sidecar[s]) \in Members(s)
<1> DEFINE f == sidecar[s].occupancy
           levels == {f[r] : r \in Members(s)}
           least == {r \in Members(s) : \A o \in Members(s) : f[r] <= f[o]}
<1>1. f \in [Members(s) -> Nat]
  BY DEF Types, SidecarState
<1>2. Members(s) # {} /\ Members(s) \subseteq Nat
  <2>1. Members(s) # {}
    BY MembersAre DEF Types
  <2>2. Members(s) \subseteq Replicas /\ Replicas \subseteq Nat
    BY SidecarAssumption DEF Members, Replicas
  <2> QED
    BY <2>1, <2>2
<1>3. levels \in SUBSET Nat /\ levels # {}
  BY <1>1, <1>2
<1>4. PICK k \in levels : \A j \in levels : k <= j
  BY <1>3, Smallest
<1>5. least # {} /\ least \in SUBSET Nat
  BY <1>2, <1>4
<1>6. Min(least) \in least
  BY <1>5, MinIsSmallest
<1>7. SelectReplica(sidecar[s]) = Min(least)
  BY <1>1 DEF SelectReplica
<1> QED
  BY <1>6, <1>7

LEMMA ReceiveUpstreamForwards ==
  ASSUME Types, NEW s \in Sidecars, ReceiveUpstream(s)
  PROVE  \E r : Forwards(s, r)
<1>1. PICK r : r = SelectReplica(sidecar[s])
  OBVIOUS
<1> DEFINE b == inbox[SidecarBox(s)]
           v == sidecar[s]
<1>2. r \in Members(s) /\ r \in Replicas
  BY <1>1, SelectReplicaIs DEF Members
<1>3. /\ b # <<>> /\ Head(b).kind = "upstream"
      /\ sidecar' = [sidecar EXCEPT ![s].occupancy[r] = @ + 1]
      /\ inbox' = [Rest(SidecarBox(s)) EXCEPT ![ReplicaBox(r)] = Append(@, Head(b))]
      /\ UNCHANGED <<config, arrived, client, replica, edge>>
  BY <1>1 DEF ReceiveUpstream, Receives
<1>4. Head(b) \in Ingested
  BY <1>3, SidecarFinds
<1>5. v \in SidecarState(s) /\ sidecar = [o \in Sidecars |-> sidecar[o]]
  BY DEF Types
<1>6. v.occupancy \in [Members(s) -> Nat]
  BY <1>5 DEF SidecarState
<1> HIDE DEF v
<1>7. PICK f : f = [v.occupancy EXCEPT ![r] = v.occupancy[r] + 1]
  OBVIOUS
<1>8. /\ f \in [Members(s) -> Nat] /\ f[r] = v.occupancy[r] + 1
      /\ \A o \in Members(s) \ {r} : f[o] = v.occupancy[o]
  BY <1>2, <1>6, <1>7
<1>9. PICK u : u = [v EXCEPT !.occupancy = f]
  OBVIOUS
<1>10. /\ u \in SidecarState(s) /\ u.occupancy = f /\ u.pending_pulls = v.pending_pulls
       /\ u.pull_intents = v.pull_intents
  BY ONLY <1>5, <1>8, <1>9 DEF SidecarState
<1>11. sidecar' = [sidecar EXCEPT ![s] = u]
  BY <1>3, <1>7, <1>9 DEF v
<1>12. /\ sidecar' = [o \in Sidecars |-> sidecar'[o]]
       /\ sidecar'[s] = u
       /\ \A o \in Sidecars \ {s} : sidecar'[o] = sidecar[o]
  BY ONLY <1>5, <1>11, s \in Sidecars
<1>13. /\ inbox' = [x \in Boxes |-> inbox'[x]]
       /\ \A x \in Boxes : inbox'[x] = IF x = ReplicaBox(r) THEN Append(Rest(SidecarBox(s))[x], Head(b))
                                       ELSE Rest(SidecarBox(s))[x]
  <2>1. Rest(SidecarBox(s)) = [x \in Boxes |-> Rest(SidecarBox(s))[x]]
    BY RestIs
  <2>2. ReplicaBox(r) \in Boxes
    BY <1>2, BoxesAre DEF Types
  <2> QED
    BY <1>3, <2>1, <2>2
<1>14. /\ \A o \in Sidecars : inbox'[SidecarBox(o)] = Rest(SidecarBox(s))[SidecarBox(o)]
       /\ \A o \in Replicas \ {r} : inbox'[ReplicaBox(o)] = Rest(SidecarBox(s))[ReplicaBox(o)]
       /\ inbox'[ReplicaBox(r)] = Append(Rest(SidecarBox(s))[ReplicaBox(r)], Head(b))
       /\ \A c \in Clients : inbox'[ClientBox(c)] = Rest(SidecarBox(s))[ClientBox(c)]
       /\ inbox'[EdgeBox] = Rest(SidecarBox(s))[EdgeBox]
  BY <1>2, <1>13, BoxesAre, BoxesDiffer DEF Types
<1>15. /\ inbox'[SidecarBox(s)] = Tail(inbox[SidecarBox(s)])
       /\ \A o \in Sidecars \ {s} : inbox'[SidecarBox(o)] = inbox[SidecarBox(o)]
       /\ inbox'[ReplicaBox(r)] = Append(inbox[ReplicaBox(r)], Head(b))
       /\ \A o \in Replicas \ {r} : inbox'[ReplicaBox(o)] = inbox[ReplicaBox(o)]
       /\ \A c \in Clients : inbox'[ClientBox(c)] = inbox[ClientBox(c)]
       /\ inbox'[EdgeBox] = inbox[EdgeBox]
  <2>1. /\ Rest(SidecarBox(s))[SidecarBox(s)] = Tail(inbox[SidecarBox(s)])
        /\ \A o \in Sidecars \ {s} : Rest(SidecarBox(s))[SidecarBox(o)] = inbox[SidecarBox(o)]
        /\ \A o \in Replicas : Rest(SidecarBox(s))[ReplicaBox(o)] = inbox[ReplicaBox(o)]
        /\ Rest(SidecarBox(s))[EdgeBox] = inbox[EdgeBox]
        /\ \A c \in Clients : Rest(SidecarBox(s))[ClientBox(c)] = inbox[ClientBox(c)]
    BY RestIs
  <2> QED
    BY ONLY <1>2, <1>14, <2>1
<1>16. sidecar'[s] \in SidecarState(s)
  BY <1>10, <1>12
<1> QED
  BY <1>2, <1>3, <1>4, <1>8, <1>10, <1>12, <1>13, <1>15, <1>16 DEF Forwards, v

LEMMA ForwardsTypes ==
  ASSUME Types, NEW s \in Sidecars, NEW r, Forwards(s, r)
  PROVE  Types'
<1>1. UNCHANGED <<config, arrived, client, replica, edge>>
  BY DEF Forwards
<1>2. /\ Sidecars' = Sidecars /\ PullMail' = PullMail /\ ClientState' = ClientState
      /\ (\A o : SidecarMail(o)' = SidecarMail(o)) /\ EdgeMail' = EdgeMail
      /\ \A o : SidecarState(o)' = SidecarState(o)
  BY <1>1, SameGroups
<1>3. sidecar' = [o \in Sidecars |-> sidecar'[o]] /\ \A o \in Sidecars : sidecar'[o] \in SidecarState(o)
  BY DEF Forwards, Types
<1>4. \A o \in Sidecars : inbox'[SidecarBox(o)] \in Seq(SidecarMail(o))
  <2> TAKE o \in Sidecars
  <2>1. inbox[SidecarBox(o)] \in Seq(SidecarMail(o))
    BY DEF Types, Mailboxes
  <2>2. CASE o = s
    <3>1. inbox'[SidecarBox(o)] = Tail(inbox[SidecarBox(o)]) /\ inbox[SidecarBox(o)] # <<>>
      BY <2>2 DEF Forwards
    <3> QED
      BY <2>1, <3>1
  <2>3. CASE o # s
    BY <2>1, <2>3 DEF Forwards
  <2> QED
    BY <2>2, <2>3
<1>5. \A o \in Replicas : inbox'[ReplicaBox(o)] \in Seq(Work)
  <2> TAKE o \in Replicas
  <2>1. inbox[ReplicaBox(o)] \in Seq(Work)
    BY DEF Types, Mailboxes
  <2>2. CASE o = r
    <3>1. inbox'[ReplicaBox(o)] = Append(inbox[ReplicaBox(o)], Head(inbox[SidecarBox(s)]))
      BY <2>2 DEF Forwards
    <3>2. Head(inbox[SidecarBox(s)]) \in Work
      <4>1. Ingested \subseteq Work
        BY DEF Ingested, Work, Tasks
      <4> QED
        BY <4>1 DEF Forwards
    <3> QED
      BY <2>1, <3>1, <3>2
  <2>3. CASE o # r
    BY <2>1, <2>3 DEF Forwards
  <2> QED
    BY <2>2, <2>3
<1>6. /\ inbox' = [x \in Boxes |-> inbox'[x]]
      /\ \A c \in Clients : inbox'[ClientBox(c)] \in Seq(PullMail)
      /\ inbox'[EdgeBox] \in Seq(EdgeMail)
  BY DEF Forwards, Types, Mailboxes
<1>7. Mailboxes'
  BY <1>2, <1>4, <1>5, <1>6 DEF Mailboxes
<1> QED
  BY <1>1, <1>2, <1>3, <1>7 DEF Types

LEMMA ForwardsPasses ==
  ASSUME Types, NEW s \in Sidecars, NEW r, Forwards(s, r)
  PROVE  Receiving(r, Head(inbox[SidecarBox(s)])) /\ Passing(r, Head(inbox[SidecarBox(s)]))
<1> DEFINE m == Head(inbox[SidecarBox(s)])
<1>1. m \in Ingested /\ r \in Members(s) /\ r \in Replicas
  BY DEF Forwards, Members
<1>2. m \in Work /\ m.kind = "upstream" /\ ~m.slot /\ Aside(m)
  BY <1>1 DEF Ingested, Work, Tasks, Aside, Foreign, Arrivals, Reports
<1>3. Receiving(r, m)
  BY <1>2 DEF Receiving, Forwards
<1>4. ASSUME NEW o \in Sidecars
      PROVE  /\ Elsewhere(inbox[SidecarBox(o)], inbox'[SidecarBox(o)], SidecarMail(o))
             /\ sidecar'[o].pending_pulls = sidecar[o].pending_pulls
  <2>1. CASE o = s
    BY <1>2, <2>1 DEF Forwards, Elsewhere
  <2>2. CASE o # s
    BY <2>2 DEF Forwards, Elsewhere
  <2> QED
    BY <2>1, <2>2
<1>5. ClientMail(inbox') = ClientMail(inbox)
  BY DEF ClientMail, Forwards
<1>6. ASSUME NEW o \in Replicas
      PROVE  /\ sidecar'[SidecarId(o)].occupancy[o] >= OccOf(o)
             /\ o # r \/ m.slot => sidecar'[SidecarId(o)].occupancy[o] = OccOf(o)
             /\ Across(ClientMail(inbox'), Clients, Pulls(o)) + OneIf(o = r /\ m.slot)
                  = Across(ClientMail(inbox), Clients, Pulls(o))
  <2>1. SidecarId(o) \in Sidecars /\ o \in Members(SidecarId(o))
    BY MembersAre DEF Types
  <2>2. sidecar[SidecarId(o)] \in SidecarState(SidecarId(o))
    BY <2>1 DEF Types
  <2>3. OccOf(o) \in Nat
    BY <2>1, <2>2 DEF SidecarState, OccOf
  <2>4. AreQueues(ClientMail(inbox), Clients, PullMail)
    BY DEF Types, Mailboxes, AreQueues, ClientMail
  <2>5. Across(ClientMail(inbox), Clients, Pulls(o)) \in Nat
    BY <2>4, SidecarAssumption, MatchesFinite, FS_CardinalityType DEF Across
  <2>6. OneIf(o = r /\ m.slot) = 0
    BY <1>2 DEF OneIf
  <2>7. Across(ClientMail(inbox'), Clients, Pulls(o)) + OneIf(o = r /\ m.slot)
          = Across(ClientMail(inbox), Clients, Pulls(o))
    BY <1>5, <2>5, <2>6
  <2>8. CASE o = r
    <3>1. SidecarId(o) = s
      BY <1>1, <2>8 DEF Members
    <3>2. sidecar'[SidecarId(o)].occupancy[o] = OccOf(o) + 1
      BY <2>8, <3>1 DEF Forwards, OccOf
    <3> QED
      BY <1>2, <2>3, <2>7, <2>8, <3>2
  <2>9. CASE o # r
    <3>1. sidecar'[SidecarId(o)].occupancy[o] = OccOf(o)
      BY <2>1, <2>9 DEF Forwards, OccOf
    <3> QED
      BY <2>3, <2>7, <3>1
  <2> QED
    BY <2>8, <2>9
<1> QED
  BY <1>3, <1>4, <1>6 DEF Passing

LEMMA ForwardsPlaced ==
  ASSUME Types, AllCounted, Placed, NEW s \in Sidecars, NEW r, Forwards(s, r)
  PROVE  Placed'
<1> DEFINE m == Head(inbox[SidecarBox(s)])
           b == inbox[SidecarBox(s)]
<1>1. PICK x, y, h : x = SidecarBox(s) /\ y = ReplicaBox(r) /\ h = m.task
  OBVIOUS
<1>2. /\ config' = config /\ arrived' = arrived /\ client' = client
      /\ m \in Ingested /\ r \in Replicas /\ b # <<>>
  BY DEF Forwards, Members
<1>3. Receiving(r, m)
  BY ForwardsPasses
<1>4. x \in SpotsOf(Sidecars) /\ y \in SpotsOf(Sidecars)
  BY <1>1, <1>2, SpotsAre
<1>5. /\ x # y
      /\ EndsAt(x, y, r)
      /\ \A c \in Clients : ClientBox(c) # x /\ ClientBox(c) # y
      /\ \A o \in Sidecars : SidecarBox(o) # y /\ (SidecarBox(o) = x <=> o = s)
  BY <1>1, BoxesDiffer DEF EndsAt
<1>6. ASSUME NEW q \in Tasks
      PROVE  Carried(q, h, x, y, Sidecars, client, replica, inbox, client', replica', inbox')
  <2>1. \A c \in Clients : Shifts(q, h, x, y, ClientBox(c), Count(client[c].queue, CallOf(q)),
                                  Count(client'[c].queue, CallOf(q)))
    BY ONLY <1>2, <1>5, Types, AllCounted, q \in Tasks, CarriedPastClients
  <2>2. \A o \in Replicas : Shifts(q, m.task, x, y, ReplicaBox(o), InHand(replica[o], inbox[ReplicaBox(o)], q),
                                   InHand(replica'[o], inbox'[ReplicaBox(o)], q))
    BY ONLY <1>3, <1>5, Types, AllCounted, q \in Tasks, CarriedToReplica
  <2>3. \A o \in Sidecars : Shifts(q, h, x, y, SidecarBox(o), Count(inbox[SidecarBox(o)], HopOf(q)),
                                   Count(inbox'[SidecarBox(o)], HopOf(q)))
    <3> TAKE o \in Sidecars
    <3>1. Count(inbox[SidecarBox(o)], HopOf(q)) \in Nat
      BY Naturals
    <3>2. CASE o = s
      <4>1. b \in Seq(SidecarMail(s))
        BY DEF Types, Mailboxes
      <4>2. Count(b, HopOf(q)) = Count(Tail(b), HopOf(q)) + IF m \in HopOf(q) THEN 1 ELSE 0
        BY <1>2, <4>1, CountPopFront
      <4>3. m \in HopOf(q) <=> q = h
        <5>1. m \in Work
          BY <1>3 DEF Receiving
        <5> QED
          BY <1>1, <5>1, HopIs
      <4>4. Count(b, HopOf(q)) = Count(Tail(b), HopOf(q)) + OneIf(q = h)
        BY <4>2, <4>3 DEF OneIf
      <4>5. Tail(b) \in Seq(SidecarMail(s))
        BY <1>2, <4>1
      <4>6. Count(Tail(b), HopOf(q)) \in Nat
        BY <4>5, CountFinite
      <4>7. PICK old, new : old = Count(b, HopOf(q)) /\ new = Count(Tail(b), HopOf(q))
        OBVIOUS
      <4>8. old \in Nat /\ new \in Nat /\ old = new + OneIf(q = h)
        BY <3>1, <3>2, <4>4, <4>6, <4>7
      <4>9. Shifts(q, h, x, y, x, old, new)
        BY ONLY <1>5, <4>8, ShiftsOut
      <4>10. inbox'[SidecarBox(o)] = Tail(b) /\ SidecarBox(o) = x
        BY <1>1, <3>2 DEF Forwards
      <4> QED
        BY <3>2, <4>7, <4>9, <4>10
    <3>3. CASE o # s
      <4>1. inbox'[SidecarBox(o)] = inbox[SidecarBox(o)]
        BY <3>3 DEF Forwards
      <4>2. x # SidecarBox(o) /\ y # SidecarBox(o)
        BY <1>5, <3>3
      <4> QED
        BY <3>1, <4>1, <4>2, ShiftsNot
    <3> QED
      BY <3>2, <3>3
  <2> QED
    BY <1>1, <2>1, <2>2, <2>3 DEF Carried
<1>7. \A q \in Tasks : Comes(q, h, x, SpotsOf(Sidecars), q \in arrived, q \in arrived')
  BY <1>2, <1>4 DEF Comes
<1> QED
  BY ONLY <1>2, <1>4, <1>6, <1>7, Placed, PlacedMoves

LEMMA ForwardsKeeps ==
  ASSUME PullInv, NEW s \in Sidecars, NEW r, Forwards(s, r)
  PROVE  PullInv'
<1>1. Types /\ AllCounted /\ Placed
  BY DEF PullInv
<1>2. Types' /\ Placed' /\ Passing(r, Head(inbox[SidecarBox(s)]))
  BY <1>1, ForwardsTypes, ForwardsPlaced, ForwardsPasses
<1> QED
  BY <1>2, PassingKeeps

-----------------------------------------------------------------------------
(* A pull takes the call at position i of client c to its replica. *)
PulledCall(c, i) == [kind |-> "upstream", task |-> client[c].queue[i].task, slot |-> TRUE]

Fetches(c, m, i) ==
  /\ UNCHANGED <<config, arrived, sidecar, replica, edge>>
  /\ inbox[ClientBox(c)] # <<>> /\ m = Head(inbox[ClientBox(c)]) /\ m \in PullMail
  /\ i \in DOMAIN client[c].queue
  /\ client' = [a \in Clients |-> client'[a]]
  /\ client'[c].queue = RemoveAt(client[c].queue, i)
  /\ client'[c].pull_intent_load =
       [client[c].pull_intent_load EXCEPT ![m.target] = SaturatingDec(@)]
  /\ client'[c] \in ClientState
  /\ \A a \in Clients \ {c} : client'[a] = client[a]
  /\ inbox' = [x \in Boxes |-> inbox'[x]]
  /\ inbox'[ClientBox(c)] = Tail(inbox[ClientBox(c)])
  /\ \A a \in Clients \ {c} : inbox'[ClientBox(a)] = inbox[ClientBox(a)]
  /\ inbox'[ReplicaBox(m.server)] = Append(inbox[ReplicaBox(m.server)], PulledCall(c, i))
  /\ \A o \in Replicas \ {m.server} : inbox'[ReplicaBox(o)] = inbox[ReplicaBox(o)]
  /\ \A s \in Sidecars : inbox'[SidecarBox(s)] = inbox[SidecarBox(s)]
  /\ inbox'[EdgeBox] = inbox[EdgeBox]

(* What is taken from the queue *)
LEMMA CallTaken ==
  ASSUME NEW l \in Seq([task : Calls]), NEW i \in DOMAIN l
  PROVE  l[i].task \in Calls /\ l[i] \in [task : Calls] /\ RemoveAt(l, i) \in Seq([task : Calls])
<1> DEFINE T == [task : Calls]
<1>1. l[i] \in T
  <2>1. l \in Seq(T) /\ i \in 1 .. Len(l)
    OBVIOUS
  <2> HIDE DEF T
  <2> QED
    BY ONLY <2>1
<1>2. RemoveAt(l, i) \in Seq([task : Calls])
  BY RemoveAtProperties
<1> QED
  BY <1>1, <1>2

LEMMA PullArrivesFetches ==
  ASSUME Types, NEW c \in Clients, PullArrives(c)
  PROVE  \E m, i : Fetches(c, m, i)
<1> DEFINE b == inbox[ClientBox(c)]
           l == client[c].queue
<1> DEFINE m == Head(b)
           i == Min(PullPositions(l, m.task))
<1>1. m = Head(b) /\ i = Min(PullPositions(l, m.task))
  OBVIOUS
<1>2. /\ b # <<>> /\ PullPositions(l, m.task) # {}
      /\ client' = [client EXCEPT ![c].queue = RemoveAt(@, i),
                                  ![c].pull_intent_load[m.target] = SaturatingDec(@)]
      /\ inbox' = [Rest(ClientBox(c)) EXCEPT ![ReplicaBox(m.server)] = Append(@, PulledCall(c, i))]
      /\ UNCHANGED <<config, arrived, sidecar, replica, edge>>
  BY <1>1 DEF PullArrives, Receives, PulledCall
<1>3. b \in Seq(PullMail) /\ client[c] \in ClientState
  BY DEF Types, Mailboxes
<1>4. m \in PullMail
  BY <1>1, <1>2, <1>3
<1> HIDE DEF m, i
<1>5. m.server \in Replicas /\ m.target \in Sidecars
  BY <1>4 DEF PullMail
<1>6. l \in Seq([task : Calls]) /\ client[c].pull_intent_load \in [Sidecars -> Nat]
  BY <1>3 DEF ClientState
<1>7. i \in DOMAIN l
  <2>1. PullPositions(l, m.task) \subseteq DOMAIN l /\ DOMAIN l \subseteq Nat
    BY <1>6 DEF PullPositions
  <2>2. Min(PullPositions(l, m.task)) \in PullPositions(l, m.task)
    BY <1>2, <2>1, MinIsSmallest
  <2> QED
    BY <1>1, <2>1, <2>2
<1>8. RemoveAt(l, i) \in Seq([task : Calls])
  BY <1>6, <1>7, CallTaken
<1>9. PICK f : f = [client[c].pull_intent_load EXCEPT ![m.target] = SaturatingDec(client[c].pull_intent_load[m.target])]
  OBVIOUS
<1>10. f \in [Sidecars -> Nat]
  <2>1. client[c].pull_intent_load[m.target] \in Nat
    BY <1>5, <1>6
  <2>2. SaturatingDec(client[c].pull_intent_load[m.target]) \in Nat
    BY <2>1 DEF SaturatingDec
  <2> QED
    BY <1>6, <1>9, <2>2
<1>11. PICK p : p = RemoveAt(l, i)
  OBVIOUS
<1>12. PICK u : u = [client[c] EXCEPT !.queue = p, !.pull_intent_load = f]
  OBVIOUS
<1>13. u \in ClientState /\ u.queue = p /\ u.pull_intent_load = f
  BY <1>3, <1>8, <1>10, <1>11, <1>12 DEF ClientState
<1>14. client' = [client EXCEPT ![c] = u]
  BY <1>2, <1>9, <1>11, <1>12
<1>15. /\ client' = [a \in Clients |-> client'[a]] /\ client'[c] = u
       /\ \A a \in Clients \ {c} : client'[a] = client[a]
  <2>1. client \in [Clients -> ClientState]
    BY DEF Types
  <2> QED
    BY <1>14, <2>1
<1>16. ClientBox(c) \in Boxes /\ ReplicaBox(m.server) \in Boxes
  BY <1>5, BoxesAre DEF Types
<1>17. ReplicaBox(m.server) # ClientBox(c)
  BY BoxesDiffer
<1>18. inbox = [x \in Boxes |-> inbox[x]]
  BY DEF Types, Mailboxes
<1>19. /\ inbox' = [x \in Boxes |-> inbox'[x]]
       /\ inbox'[ClientBox(c)] = Tail(inbox[ClientBox(c)])
       /\ inbox'[ReplicaBox(m.server)] = Append(inbox[ReplicaBox(m.server)], PulledCall(c, i))
       /\ \A x \in Boxes \ {ClientBox(c), ReplicaBox(m.server)} : inbox'[x] = inbox[x]
  <2>1. inbox' = [[inbox EXCEPT ![ClientBox(c)] = Tail(@)] EXCEPT ![ReplicaBox(m.server)] = Append(@, PulledCall(c, i))]
    BY <1>2 DEF Rest
  <2> QED
    BY ONLY <1>16, <1>17, <1>18, <2>1
<1>20. /\ \A a \in Clients \ {c} : inbox'[ClientBox(a)] = inbox[ClientBox(a)]
       /\ \A o \in Replicas \ {m.server} : inbox'[ReplicaBox(o)] = inbox[ReplicaBox(o)]
       /\ \A s \in Sidecars : inbox'[SidecarBox(s)] = inbox[SidecarBox(s)]
       /\ inbox'[EdgeBox] = inbox[EdgeBox]
  BY <1>19, BoxesAre, BoxesDiffer DEF Types
<1>21. client'[c].queue = RemoveAt(client[c].queue, i)
  BY <1>11, <1>13, <1>15
<1>22. client'[c].pull_intent_load = [client[c].pull_intent_load EXCEPT ![m.target] = SaturatingDec(@)]
  BY <1>9, <1>13, <1>15
<1>23. client'[c] \in ClientState
  BY <1>13, <1>15
<1>24. /\ inbox[ClientBox(c)] # <<>> /\ m = Head(inbox[ClientBox(c)]) /\ i \in DOMAIN client[c].queue
       /\ client' = [a \in Clients |-> client'[a]]
       /\ \A a \in Clients \ {c} : client'[a] = client[a]
  BY <1>1, <1>2, <1>7, <1>15
<1>25. Fetches(c, m, i)
  BY ONLY <1>2, <1>4, <1>19, <1>20, <1>21, <1>22, <1>23, <1>24 DEF Fetches
<1> QED
  BY <1>25

LEMMA FetchesReceiving ==
  ASSUME Types, NEW c \in Clients, NEW m, NEW i, Fetches(c, m, i)
  PROVE  /\ Receiving(m.server, PulledCall(c, i)) /\ PulledCall(c, i) \in Work
         /\ PulledCall(c, i).task = client[c].queue[i].task /\ PulledCall(c, i).task \in Calls
         /\ PulledCall(c, i).slot
         /\ m.server \in Replicas /\ m.target \in Sidecars /\ m.target = SidecarId(m.server)
<1>1. client[c].queue \in Seq([task : Calls])
  BY DEF Types, ClientState
<1>2. i \in DOMAIN client[c].queue /\ m \in PullMail
  BY DEF Fetches
<1>3. client[c].queue[i].task \in Calls
  BY <1>1, <1>2, CallTaken
<1>4. /\ PulledCall(c, i) \in Work /\ PulledCall(c, i).kind = "upstream"
      /\ PulledCall(c, i).task = client[c].queue[i].task /\ PulledCall(c, i).slot
  BY <1>3 DEF PulledCall, Work, Tasks
<1>5. m.server \in Replicas /\ m.target \in Sidecars /\ m.target = SidecarId(m.server)
  BY <1>2 DEF PullMail
<1>6. Receiving(m.server, PulledCall(c, i))
  BY <1>4 DEF Receiving, Fetches
<1> QED
  BY <1>3, <1>4, <1>5, <1>6

LEMMA FetchesTypes ==
  ASSUME Types, NEW c \in Clients, NEW m, NEW i, Fetches(c, m, i)
  PROVE  Types'
<1>1. UNCHANGED <<config, arrived, sidecar, replica, edge>>
  BY DEF Fetches
<1>2. /\ Sidecars' = Sidecars /\ PullMail' = PullMail /\ ClientState' = ClientState
      /\ (\A o : SidecarMail(o)' = SidecarMail(o)) /\ EdgeMail' = EdgeMail
      /\ \A o : SidecarState(o)' = SidecarState(o)
  BY <1>1, SameGroups
<1>3. client' \in [Clients -> ClientState]
  <2>1. client' = [a \in Clients |-> client'[a]]
    BY DEF Fetches
  <2>2. \A a \in Clients : client'[a] \in ClientState
    BY DEF Fetches, Types
  <2> QED
    BY ONLY <2>1, <2>2
<1>4. \A o \in Sidecars : inbox'[SidecarBox(o)] \in Seq(SidecarMail(o))
  BY DEF Fetches, Types, Mailboxes
<1>5. \A o \in Replicas : inbox'[ReplicaBox(o)] \in Seq(Work)
  <2> TAKE o \in Replicas
  <2>1. inbox[ReplicaBox(o)] \in Seq(Work) /\ PulledCall(c, i) \in Work
    BY FetchesReceiving DEF Types, Mailboxes
  <2>2. inbox'[ReplicaBox(o)] = IF o = m.server THEN Append(inbox[ReplicaBox(o)], PulledCall(c, i))
                                ELSE inbox[ReplicaBox(o)]
    BY DEF Fetches
  <2> QED
    BY <2>1, <2>2
<1>6. \A a \in Clients : inbox'[ClientBox(a)] \in Seq(PullMail)
  <2> TAKE a \in Clients
  <2>1. inbox[ClientBox(a)] \in Seq(PullMail) /\ inbox[ClientBox(c)] # <<>>
    BY DEF Types, Mailboxes, Fetches
  <2>2. inbox'[ClientBox(a)] = IF a = c THEN Tail(inbox[ClientBox(a)]) ELSE inbox[ClientBox(a)]
    BY DEF Fetches
  <2> QED
    BY <2>1, <2>2
<1>7. inbox' = [x \in Boxes |-> inbox'[x]] /\ inbox'[EdgeBox] \in Seq(EdgeMail)
  BY DEF Fetches, Types, Mailboxes
<1>8. Mailboxes'
  BY <1>2, <1>4, <1>5, <1>6, <1>7 DEF Mailboxes
<1> QED
  BY <1>1, <1>2, <1>3, <1>8 DEF Types

LEMMA FetchesPasses ==
  ASSUME Types, NEW c \in Clients, NEW m, NEW i, Fetches(c, m, i)
  PROVE  Passing(m.server, PulledCall(c, i))
<1>1. /\ Receiving(m.server, PulledCall(c, i)) /\ PulledCall(c, i).slot
      /\ m.server \in Replicas /\ m.target \in Sidecars /\ m.target = SidecarId(m.server)
  BY FetchesReceiving
<1>2. UNCHANGED <<config, sidecar>>
  BY DEF Fetches
<1>3. \A s \in Sidecars : /\ Elsewhere(inbox[SidecarBox(s)], inbox'[SidecarBox(s)], SidecarMail(s))
                          /\ sidecar'[s].pending_pulls = sidecar[s].pending_pulls
  BY <1>2 DEF Fetches, Elsewhere
<1>4. AreQueues(ClientMail(inbox), Clients, PullMail)
  BY DEF Types, Mailboxes, AreQueues, ClientMail
<1>5. AreQueues(ClientMail(inbox'), Clients, PullMail)
  <2>1. AreQueues(ClientMail(inbox'), Clients, PullMail')
    BY FetchesTypes DEF Types, Mailboxes, AreQueues, ClientMail
  <2> QED
    BY <1>2, <2>1, SameGroups
<1>6. KeepsApart(ClientMail(inbox), ClientMail(inbox'), Clients, c)
  BY DEF KeepsApart, ClientMail, Fetches
<1>7. ASSUME NEW r \in Replicas
      PROVE  /\ sidecar'[SidecarId(r)].occupancy[r] >= OccOf(r)
             /\ sidecar'[SidecarId(r)].occupancy[r] = OccOf(r)
             /\ Across(ClientMail(inbox'), Clients, Pulls(r)) + OneIf(r = m.server /\ PulledCall(c, i).slot)
                  = Across(ClientMail(inbox), Clients, Pulls(r))
  <2> DEFINE b == inbox[ClientBox(c)]
  <2>1. SidecarId(r) \in Sidecars /\ r \in Members(SidecarId(r))
    BY MembersAre DEF Types
  <2>2. OccOf(r) \in Nat
    BY <2>1 DEF SidecarState, OccOf, Types
  <2>3. sidecar'[SidecarId(r)].occupancy[r] = OccOf(r)
    BY <1>2 DEF OccOf
  <2>4. Across(ClientMail(inbox'), Clients, Pulls(r)) + Count(ClientMail(inbox)[c], Pulls(r))
          = Across(ClientMail(inbox), Clients, Pulls(r)) + Count(ClientMail(inbox')[c], Pulls(r))
    BY ONLY <1>4, <1>5, <1>6, SidecarAssumption, c \in Clients, AcrossChanges
  <2>5. ClientMail(inbox)[c] = b /\ ClientMail(inbox')[c] = Tail(b)
    BY DEF ClientMail, Fetches
  <2>6. b \in Seq(PullMail) /\ b # <<>> /\ Head(b) = m /\ m \in PullMail
    BY DEF Fetches, Types, Mailboxes
  <2>7. Count(b, Pulls(r)) = Count(Tail(b), Pulls(r)) + IF m \in Pulls(r) THEN 1 ELSE 0
    BY <2>6, CountPopFront
  <2>8. m \in Pulls(r) <=> r = m.server
    BY <2>6 DEF Pulls, PullMail
  <2>9. OneIf(r = m.server /\ PulledCall(c, i).slot) = IF m \in Pulls(r) THEN 1 ELSE 0
    BY <1>1, <2>8 DEF OneIf
  <2>10. OneIf(r = m.server /\ PulledCall(c, i).slot) \in Nat
    BY DEF OneIf
  <2>11. /\ Across(ClientMail(inbox), Clients, Pulls(r)) \in Nat
         /\ Across(ClientMail(inbox'), Clients, Pulls(r)) \in Nat
    BY <1>4, <1>5, SidecarAssumption, MatchesFinite, FS_CardinalityType DEF Across
  <2>12. Tail(b) \in Seq(PullMail)
    BY <2>6
  <2>13. Count(Tail(b), Pulls(r)) \in Nat
    BY <2>12, CountFinite
  <2>14. Across(ClientMail(inbox'), Clients, Pulls(r)) + OneIf(r = m.server /\ PulledCall(c, i).slot)
           = Across(ClientMail(inbox), Clients, Pulls(r))
    <3>1. Across(ClientMail(inbox'), Clients, Pulls(r)) + Count(b, Pulls(r))
            = Across(ClientMail(inbox), Clients, Pulls(r)) + Count(Tail(b), Pulls(r))
      BY <2>4, <2>5
    <3>2. Count(b, Pulls(r)) = Count(Tail(b), Pulls(r)) + OneIf(r = m.server /\ PulledCall(c, i).slot)
      BY <2>7, <2>9
    <3> HIDE DEF b
    <3> QED
      BY ONLY <2>10, <2>11, <2>13, <3>1, <3>2
  <2> QED
    BY <2>2, <2>3, <2>14
<1> QED
  BY <1>1, <1>3, <1>7 DEF Passing

LEMMA FetchesPlaced ==
  ASSUME Types, AllCounted, Placed, NEW c \in Clients, NEW m, NEW i, Fetches(c, m, i)
  PROVE  Placed'
<1> DEFINE l == client[c].queue
<1>1. PICK x, y, h : x = ClientBox(c) /\ y = ReplicaBox(m.server) /\ h = PulledCall(c, i).task
  OBVIOUS
<1>2. /\ Receiving(m.server, PulledCall(c, i)) /\ h \in Calls /\ h = l[i].task
      /\ m.server \in Replicas
  BY <1>1, FetchesReceiving
<1>3. config' = config /\ arrived' = arrived /\ i \in DOMAIN l /\ l \in Seq([task : Calls])
  BY DEF Fetches, Types, ClientState
<1>4. x \in SpotsOf(Sidecars) /\ y \in SpotsOf(Sidecars)
  BY <1>1, <1>2, SpotsAre
<1>5. /\ x # y
      /\ EndsAt(x, y, m.server)
      /\ \A a \in Clients : ClientBox(a) # y /\ (ClientBox(a) = x <=> a = c)
      /\ \A o \in Sidecars : SidecarBox(o) # y /\ SidecarBox(o) # x
  BY <1>1, BoxesDiffer DEF EndsAt
<1>6. ASSUME NEW q \in Tasks
      PROVE  Carried(q, h, x, y, Sidecars, client, replica, inbox, client', replica', inbox')
  <2>1. \A o \in Replicas : Shifts(q, PulledCall(c, i).task, x, y, ReplicaBox(o), InHand(replica[o], inbox[ReplicaBox(o)], q),
                                   InHand(replica'[o], inbox'[ReplicaBox(o)], q))
    BY ONLY <1>2, <1>5, Types, AllCounted, q \in Tasks, CarriedToReplica
  <2>2. \A o \in Sidecars : Shifts(q, h, x, y, SidecarBox(o), Count(inbox[SidecarBox(o)], HopOf(q)),
                                   Count(inbox'[SidecarBox(o)], HopOf(q)))
    <3> TAKE o \in Sidecars
    <3>1. Count(inbox[SidecarBox(o)], HopOf(q)) \in Nat
      BY Naturals
    <3>2. inbox'[SidecarBox(o)] = inbox[SidecarBox(o)]
      BY DEF Fetches
    <3> QED
      BY <1>5, <3>1, <3>2, ShiftsNot
  <2>3. \A a \in Clients : Shifts(q, h, x, y, ClientBox(a), Count(client[a].queue, CallOf(q)),
                                  Count(client'[a].queue, CallOf(q)))
    <3> TAKE a \in Clients
    <3>1. Count(client[a].queue, CallOf(q)) \in Nat
      BY Naturals
    <3>2. CASE a = c
      <4>1. Count(l, CallOf(q)) = Count(RemoveAt(l, i), CallOf(q)) + IF l[i] \in CallOf(q) THEN 1 ELSE 0
        BY <1>3, CountRemoveAt
      <4>2. l[i] \in CallOf(q) <=> q = h
        <5>1. l[i] \in [task : Calls]
          BY <1>3, CallTaken
        <5> QED
          BY <1>2, <5>1 DEF CallOf
      <4>3. Count(l, CallOf(q)) = Count(RemoveAt(l, i), CallOf(q)) + OneIf(q = h)
        BY <4>1, <4>2 DEF OneIf
      <4>4. RemoveAt(l, i) \in Seq([task : Calls])
        BY <1>3, CallTaken
      <4>5. Count(RemoveAt(l, i), CallOf(q)) \in Nat
        BY <4>4, CountFinite
      <4>6. PICK old, new : old = Count(l, CallOf(q)) /\ new = Count(RemoveAt(l, i), CallOf(q))
        OBVIOUS
      <4>7. old \in Nat /\ new \in Nat /\ old = new + OneIf(q = h)
        BY <3>1, <3>2, <4>3, <4>5, <4>6
      <4>8. Shifts(q, h, x, y, x, old, new)
        BY ONLY <1>5, <4>7, ShiftsOut
      <4>9. client'[a].queue = RemoveAt(l, i) /\ ClientBox(a) = x
        BY <1>1, <3>2 DEF Fetches
      <4> QED
        BY <3>2, <4>6, <4>8, <4>9
    <3>3. CASE a # c
      <4>1. client'[a] = client[a]
        BY <3>3 DEF Fetches
      <4>2. x # ClientBox(a) /\ y # ClientBox(a)
        BY <1>5, <3>3
      <4> QED
        BY <3>1, <4>1, <4>2, ShiftsNot
    <3> QED
      BY <3>2, <3>3
  <2> QED
    BY <1>1, <2>1, <2>2, <2>3 DEF Carried
<1>7. \A q \in Tasks : Comes(q, h, x, SpotsOf(Sidecars), q \in arrived, q \in arrived')
  BY <1>3, <1>4 DEF Comes
<1> QED
  BY ONLY <1>3, <1>4, <1>6, <1>7, Placed, PlacedMoves

LEMMA FetchesKeeps ==
  ASSUME PullInv, NEW c \in Clients, NEW m, NEW i, Fetches(c, m, i)
  PROVE  PullInv'
<1>1. Types /\ AllCounted /\ Placed
  BY DEF PullInv
<1>2. Types' /\ Placed' /\ Passing(m.server, PulledCall(c, i))
  BY <1>1, FetchesTypes, FetchesPlaced, FetchesPasses
<1> QED
  BY <1>2, PassingKeeps

-----------------------------------------------------------------------------
(* A call is queued at its client, which tells sidecar s. *)
CallQueued(c, q, s) ==
  /\ UNCHANGED <<config, sidecar, replica, edge>>
  /\ q \in Calls \ arrived /\ arrived' = arrived \cup {q} /\ s \in Sidecars
  /\ client' = [a \in Clients |-> client'[a]]
  /\ client'[c] \in ClientState
  /\ \A T : Count(client'[c].queue, T) = Count(client[c].queue, T) + IF [task |-> q] \in T THEN 1 ELSE 0
  /\ Len(client'[c].queue) = Len(client[c].queue) + 1
  /\ client'[c].pull_intent_load = [client[c].pull_intent_load EXCEPT ![s] = @ + 1]
  /\ \A a \in Clients \ {c} : client'[a] = client[a]
  /\ inbox' = [x \in Boxes |-> inbox'[x]]
  /\ inbox'[SidecarBox(s)] = Append(inbox[SidecarBox(s)], [kind |-> "intent", client |-> c, task |-> q])
  /\ \A o \in Sidecars \ {s} : inbox'[SidecarBox(o)] = inbox[SidecarBox(o)]
  /\ \A a \in Clients : inbox'[ClientBox(a)] = inbox[ClientBox(a)]
  /\ \A r \in Replicas : inbox'[ReplicaBox(r)] = inbox[ReplicaBox(r)]
  /\ inbox'[EdgeBox] = inbox[EdgeBox]

LEMMA CallIs ==
  ASSUME Types, NEW q, Call(q)
  PROVE  ClientOf[q] \in Clients /\ \E s : CallQueued(ClientOf[q], q, s)
<1> DEFINE c == ClientOf[q]
<1>1. q \in Calls \ arrived /\ arrived' = arrived \cup {q} /\ UNCHANGED <<config, sidecar, replica, edge>>
  BY DEF Call
<1>2. c \in Clients
  BY <1>1, SidecarAssumption
<1> HIDE DEF c
<1>3. PICK s \in Sidecars :
        /\ client' = [client EXCEPT
             ![c].queue = Enqueue(@, [task |-> q], config.pull_sched \in {"edf", "edf+"}),
             ![c].pull_intent_load[s] = @ + 1]
        /\ inbox' = [inbox EXCEPT ![SidecarBox(s)] = Append(@, [kind |-> "intent", client |-> c, task |-> q])]
  BY DEF Call, c
<1>4. client[c] \in ClientState
  BY <1>2 DEF Types
<1>5. client[c].queue \in Seq([task : Calls]) /\ client[c].pull_intent_load \in [Sidecars -> Nat]
  BY <1>4 DEF ClientState
<1>6. PICK edf : edf = (config.pull_sched \in {"edf", "edf+"})
  OBVIOUS
<1>7. PICK p : p = Enqueue(client[c].queue, [task |-> q], edf)
  OBVIOUS
<1>8. PICK T : T = [task : Calls]
  OBVIOUS
<1>9. PICK e : e = [task |-> q]
  OBVIOUS
<1>10. e \in T /\ client[c].queue \in Seq(T)
  BY <1>1, <1>5, <1>8, <1>9
<1>11. p = Enqueue(client[c].queue, e, edf)
  BY <1>7, <1>9
<1>12. /\ p \in Seq(T) /\ Len(p) = Len(client[c].queue) + 1
       /\ \A U : Count(p, U) = Count(client[c].queue, U) + IF e \in U THEN 1 ELSE 0
  BY ONLY <1>10, <1>11, EnqueueIs
<1>13. PICK f : f = [client[c].pull_intent_load EXCEPT ![s] = client[c].pull_intent_load[s] + 1]
  OBVIOUS
<1>14. f \in [Sidecars -> Nat]
  BY <1>5, <1>13
<1>15. PICK u : u = [client[c] EXCEPT !.queue = p, !.pull_intent_load = f]
  OBVIOUS
<1>16. u \in ClientState /\ u.queue = p /\ u.pull_intent_load = f
  <2>1. p \in Seq([task : Calls])
    BY <1>8, <1>12
  <2> QED
    BY ONLY <1>4, <1>14, <1>15, <2>1 DEF ClientState
<1>17. client' = [client EXCEPT ![c] = u]
  BY <1>3, <1>6, <1>7, <1>13, <1>15
<1>18. /\ client' = [a \in Clients |-> client'[a]] /\ client'[c] = u
       /\ \A a \in Clients \ {c} : client'[a] = client[a]
  <2>1. client \in [Clients -> ClientState]
    BY DEF Types
  <2> QED
    BY ONLY <1>2, <1>17, <2>1
<1>19. inbox = [x \in Boxes |-> inbox[x]] /\ SidecarBox(s) \in Boxes
  BY BoxesAre DEF Types, Mailboxes
<1>20. PICK n : n = [kind |-> "intent", client |-> c, task |-> q]
  OBVIOUS
<1>21. /\ inbox' = [x \in Boxes |-> inbox'[x]]
       /\ inbox'[SidecarBox(s)] = Append(inbox[SidecarBox(s)], n)
       /\ \A x \in Boxes \ {SidecarBox(s)} : inbox'[x] = inbox[x]
  <2>1. inbox' = [inbox EXCEPT ![SidecarBox(s)] = Append(@, n)]
    BY <1>3, <1>20
  <2> QED
    BY ONLY <1>19, <2>1
<1>22. /\ \A o \in Sidecars \ {s} : inbox'[SidecarBox(o)] = inbox[SidecarBox(o)]
       /\ \A a \in Clients : inbox'[ClientBox(a)] = inbox[ClientBox(a)]
       /\ \A r \in Replicas : inbox'[ReplicaBox(r)] = inbox[ReplicaBox(r)]
       /\ inbox'[EdgeBox] = inbox[EdgeBox]
  BY <1>21, BoxesAre, BoxesDiffer DEF Types
<1>23. /\ \A U : Count(client'[c].queue, U) = Count(client[c].queue, U) + IF [task |-> q] \in U THEN 1 ELSE 0
       /\ Len(client'[c].queue) = Len(client[c].queue) + 1
       /\ client'[c] \in ClientState
  BY <1>9, <1>12, <1>16, <1>18
<1>24. client'[c].pull_intent_load = [client[c].pull_intent_load EXCEPT ![s] = @ + 1]
  BY <1>13, <1>16, <1>18
<1>25. inbox'[SidecarBox(s)] = Append(inbox[SidecarBox(s)], [kind |-> "intent", client |-> c, task |-> q])
  BY <1>20, <1>21
<1>26. s \in Sidecars
  OBVIOUS
<1>27. CallQueued(c, q, s)
  BY ONLY <1>1, <1>18, <1>21, <1>22, <1>23, <1>24, <1>25, <1>26 DEF CallQueued
<1> QED
  BY <1>2, <1>27 DEF c

LEMMA CallQueuedTypes ==
  ASSUME Types, NEW c \in Clients, NEW q, NEW s, CallQueued(c, q, s)
  PROVE  Types'
<1>1. /\ UNCHANGED <<config, sidecar, replica, edge>> /\ q \in Calls
      /\ arrived' = arrived \cup {q} /\ s \in Sidecars
  BY DEF CallQueued
<1>2. /\ Sidecars' = Sidecars /\ PullMail' = PullMail /\ ClientState' = ClientState
      /\ (\A o : SidecarMail(o)' = SidecarMail(o)) /\ EdgeMail' = EdgeMail
      /\ \A o : SidecarState(o)' = SidecarState(o)
  BY <1>1, SameGroups
<1>3. client' \in [Clients -> ClientState]
  <2>1. client' = [a \in Clients |-> client'[a]]
    BY DEF CallQueued
  <2>2. \A a \in Clients : client'[a] \in ClientState
    BY DEF CallQueued, Types
  <2> QED
    BY ONLY <2>1, <2>2
<1>4. PICK n : n = [kind |-> "intent", client |-> c, task |-> q]
  OBVIOUS
<1>5. n \in SidecarMail(s)
  BY <1>1, <1>4 DEF SidecarMail, Intents
<1>6. \A o \in Sidecars : inbox'[SidecarBox(o)] \in Seq(SidecarMail(o))
  <2> TAKE o \in Sidecars
  <2>1. inbox[SidecarBox(o)] \in Seq(SidecarMail(o))
    BY DEF Types, Mailboxes
  <2>2. inbox'[SidecarBox(o)] = IF o = s THEN Append(inbox[SidecarBox(o)], n) ELSE inbox[SidecarBox(o)]
    BY <1>4 DEF CallQueued
  <2> QED
    BY <1>5, <2>1, <2>2
<1>7. /\ \A r \in Replicas : inbox'[ReplicaBox(r)] \in Seq(Work)
      /\ \A a \in Clients : inbox'[ClientBox(a)] \in Seq(PullMail)
      /\ inbox' = [x \in Boxes |-> inbox'[x]] /\ inbox'[EdgeBox] \in Seq(EdgeMail)
  BY DEF CallQueued, Types, Mailboxes
<1>8. Mailboxes'
  BY <1>2, <1>6, <1>7 DEF Mailboxes
<1>9. arrived' \subseteq Tasks
  BY <1>1 DEF Types, Tasks
<1> QED
  BY <1>1, <1>2, <1>3, <1>8, <1>9 DEF Types

Nobody == -1
HopTo(q) == [kind |-> "upstream", task |-> q, slot |-> FALSE]

LEMMA NobodyIs == \A r \in Replicas : r # Nobody
BY SidecarAssumption DEF Replicas, Nobody

LEMMA CallQueuedPasses ==
  ASSUME Types, NEW c \in Clients, NEW q, NEW s, CallQueued(c, q, s)
  PROVE  Receiving(Nobody, HopTo(q)) /\ Passing(Nobody, HopTo(q)) /\ HopTo(q).task = q
<1>1. /\ UNCHANGED <<config, sidecar, replica>> /\ q \in Calls /\ s \in Sidecars
      /\ \A r \in Replicas : inbox'[ReplicaBox(r)] = inbox[ReplicaBox(r)]
      /\ \A a \in Clients : inbox'[ClientBox(a)] = inbox[ClientBox(a)]
  BY DEF CallQueued
<1>2. HopTo(q) \in Work /\ HopTo(q).kind = "upstream" /\ HopTo(q).task = q
  BY <1>1 DEF HopTo, Work, Tasks
<1>3. Receiving(Nobody, HopTo(q))
  BY <1>1, <1>2, NobodyIs DEF Receiving
<1>4. PICK n : n = [kind |-> "intent", client |-> c, task |-> q]
  OBVIOUS
<1>5. n \in SidecarMail(s) /\ Aside(n)
  BY <1>1, <1>4 DEF SidecarMail, Intents, Aside, Foreign, Arrivals, Reports
<1>6. \A o \in Sidecars : Elsewhere(inbox[SidecarBox(o)], inbox'[SidecarBox(o)], SidecarMail(o))
  <2> TAKE o \in Sidecars
  <2>1. inbox'[SidecarBox(o)] = IF o = s THEN Append(inbox[SidecarBox(o)], n) ELSE inbox[SidecarBox(o)]
    BY <1>4 DEF CallQueued
  <2> QED
    BY <1>5, <2>1 DEF Elsewhere
<1>7. ClientMail(inbox') = ClientMail(inbox)
  BY <1>1 DEF ClientMail
<1>8. ASSUME NEW r \in Replicas
      PROVE  /\ sidecar'[SidecarId(r)].occupancy[r] >= OccOf(r)
             /\ sidecar'[SidecarId(r)].occupancy[r] = OccOf(r)
             /\ Across(ClientMail(inbox'), Clients, Pulls(r)) + OneIf(r = Nobody /\ HopTo(q).slot)
                  = Across(ClientMail(inbox), Clients, Pulls(r))
  <2>1. SidecarId(r) \in Sidecars /\ r \in Members(SidecarId(r))
    BY MembersAre DEF Types
  <2>2. OccOf(r) \in Nat
    BY <2>1 DEF SidecarState, OccOf, Types
  <2>3. sidecar'[SidecarId(r)].occupancy[r] = OccOf(r)
    BY <1>1 DEF OccOf
  <2>4. AreQueues(ClientMail(inbox), Clients, PullMail)
    BY DEF Types, Mailboxes, AreQueues, ClientMail
  <2>5. Across(ClientMail(inbox), Clients, Pulls(r)) \in Nat
    BY <2>4, SidecarAssumption, MatchesFinite, FS_CardinalityType DEF Across
  <2>6. OneIf(r = Nobody /\ HopTo(q).slot) = 0
    BY NobodyIs DEF OneIf
  <2> QED
    BY <1>7, <2>2, <2>3, <2>5, <2>6
<1>9. \A o \in Sidecars : sidecar'[o].pending_pulls = sidecar[o].pending_pulls
  BY <1>1
<1>10. Passing(Nobody, HopTo(q))
  BY <1>3, <1>6, <1>8, <1>9 DEF Passing
<1> QED
  BY <1>2, <1>3, <1>10

LEMMA CallQueuedPlaced ==
  ASSUME Types, AllCounted, Placed, NEW c \in Clients, NEW q, NEW s, CallQueued(c, q, s)
  PROVE  Placed'
<1>1. PICK x, y : x = EdgeBox /\ y = ClientBox(c)
  OBVIOUS
<1>2. /\ Receiving(Nobody, HopTo(q)) /\ HopTo(q).task = q
      /\ q \in Calls \ arrived /\ arrived' = arrived \cup {q} /\ s \in Sidecars /\ config' = config
  BY CallQueuedPasses DEF CallQueued
<1>3. x \notin SpotsOf(Sidecars) /\ y \in SpotsOf(Sidecars)
  BY <1>1, SpotsAre
<1>4. /\ x # y
      /\ EndsAt(x, y, Nobody)
      /\ \A a \in Clients : ClientBox(a) # x /\ (ClientBox(a) = y <=> a = c)
      /\ \A o \in Sidecars : SidecarBox(o) # y /\ SidecarBox(o) # x
  BY <1>1, BoxesDiffer, NobodyIs DEF EndsAt
<1>5. ASSUME NEW t \in Tasks
      PROVE  Carried(t, q, x, y, Sidecars, client, replica, inbox, client', replica', inbox')
  <2>1. \A o \in Replicas : Shifts(t, HopTo(q).task, x, y, ReplicaBox(o), InHand(replica[o], inbox[ReplicaBox(o)], t),
                                   InHand(replica'[o], inbox'[ReplicaBox(o)], t))
    BY ONLY <1>2, <1>4, Types, AllCounted, t \in Tasks, CarriedToReplica
  <2>2. \A o \in Sidecars : Shifts(t, q, x, y, SidecarBox(o), Count(inbox[SidecarBox(o)], HopOf(t)),
                                   Count(inbox'[SidecarBox(o)], HopOf(t)))
    <3> TAKE o \in Sidecars
    <3>1. Count(inbox[SidecarBox(o)], HopOf(t)) \in Nat
      BY Naturals
    <3>2. Count(inbox'[SidecarBox(o)], HopOf(t)) = Count(inbox[SidecarBox(o)], HopOf(t))
      <4>1. CASE o = s
        <5>1. PICK n : n = [kind |-> "intent", client |-> c, task |-> q]
          OBVIOUS
        <5>2. n \in SidecarMail(s) /\ n \notin HopOf(t)
          BY <1>2, <5>1 DEF SidecarMail, Intents, HopOf
        <5>3. inbox[SidecarBox(o)] \in Seq(SidecarMail(s))
          BY <4>1 DEF Types, Mailboxes
        <5>4. inbox'[SidecarBox(o)] = Append(inbox[SidecarBox(o)], n)
          BY <4>1, <5>1 DEF CallQueued
        <5>5. Count(Append(inbox[SidecarBox(o)], n), HopOf(t))
                = Count(inbox[SidecarBox(o)], HopOf(t)) + IF n \in HopOf(t) THEN 1 ELSE 0
          BY ONLY <5>2, <5>3, CountPushBack
        <5> QED
          BY <3>1, <5>2, <5>4, <5>5
      <4>2. CASE o # s
        BY <4>2 DEF CallQueued
      <4> QED
        BY <4>1, <4>2
    <3> QED
      BY <1>4, <3>1, <3>2, ShiftsNot
  <2>3. \A a \in Clients : Shifts(t, q, x, y, ClientBox(a), Count(client[a].queue, CallOf(t)),
                                  Count(client'[a].queue, CallOf(t)))
    <3> TAKE a \in Clients
    <3>1. Count(client[a].queue, CallOf(t)) \in Nat
      BY Naturals
    <3>2. CASE a = c
      <4>1. Count(client'[c].queue, CallOf(t)) = Count(client[c].queue, CallOf(t))
                                                  + IF [task |-> q] \in CallOf(t) THEN 1 ELSE 0
        BY DEF CallQueued
      <4>2. [task |-> q] \in CallOf(t) <=> t = q
        BY DEF CallOf
      <4>3. Count(client'[c].queue, CallOf(t)) = Count(client[c].queue, CallOf(t)) + OneIf(t = q)
        BY <4>1, <4>2 DEF OneIf
      <4>4. PICK old, new : old = Count(client[c].queue, CallOf(t)) /\ new = Count(client'[c].queue, CallOf(t))
        OBVIOUS
      <4>5. OneIf(t = q) \in Nat
        BY DEF OneIf
      <4>6. old \in Nat /\ new \in Nat /\ new = old + OneIf(t = q)
        BY <3>1, <3>2, <4>3, <4>4, <4>5
      <4>7. Shifts(t, q, x, y, y, old, new)
        BY ONLY <1>4, <4>6, ShiftsIn
      <4> QED
        BY <1>1, <3>2, <4>4, <4>7
    <3>3. CASE a # c
      <4>1. client'[a] = client[a]
        BY <3>3 DEF CallQueued
      <4>2. x # ClientBox(a) /\ y # ClientBox(a)
        BY <1>4, <3>3
      <4> QED
        BY <3>1, <4>1, <4>2, ShiftsNot
    <3> QED
      BY <3>2, <3>3
  <2> QED
    BY <1>2, <2>1, <2>2, <2>3 DEF Carried
<1>6. \A t \in Tasks : Comes(t, q, x, SpotsOf(Sidecars), t \in arrived, t \in arrived')
  BY <1>2, <1>3 DEF Comes
<1> QED
  BY ONLY <1>2, <1>3, <1>5, <1>6, Placed, PlacedMoves

LEMMA CallQueuedKeeps ==
  ASSUME PullInv, NEW c \in Clients, NEW q, NEW s, CallQueued(c, q, s)
  PROVE  PullInv'
<1>1. Types /\ AllCounted /\ Placed
  BY DEF PullInv
<1>2. Types' /\ Placed' /\ Passing(Nobody, HopTo(q))
  BY <1>1, CallQueuedTypes, CallQueuedPlaced, CallQueuedPasses
<1> QED
  BY <1>2, PassingKeeps

-----------------------------------------------------------------------------
(***************************************************************************)
(* A user request comes in at entry s: it goes to replica d, where entries *)
(* are wired to replicas, else (d is Nobody) to the sidecar.               *)
(***************************************************************************)
EdgeEnters(q, s, d) ==
  /\ UNCHANGED <<config, client, sidecar, replica>>
  /\ q \in Ingress \ arrived /\ arrived' = arrived \cup {q} /\ s \in Sidecars
  /\ edge' = [edge EXCEPT ![s] = @ + 1]
  /\ d = Nobody \/ (d \in Replicas /\ SidecarId(d) = s)
  /\ inbox' = [x \in Boxes |-> inbox'[x]]
  /\ \A r \in Replicas : inbox'[ReplicaBox(r)] = IF r = d THEN Append(inbox[ReplicaBox(r)], HopTo(q))
                                                 ELSE inbox[ReplicaBox(r)]
  /\ \A o \in Sidecars : inbox'[SidecarBox(o)] =
       IF o = s /\ d = Nobody THEN Append(inbox[SidecarBox(o)], HopTo(q)) ELSE inbox[SidecarBox(o)]
  /\ \A a \in Clients : inbox'[ClientBox(a)] = inbox[ClientBox(a)]
  /\ inbox'[EdgeBox] = inbox[EdgeBox]

(* With one replica a sidecar they have the same numbers. *)
LEMMA OwnSidecar ==
  ASSUME Types, config.share = 1, NEW s \in Sidecars
  PROVE  s \in Replicas /\ SidecarId(s) = s
<1>1. SidecarsOf(1) = 0 .. ((ReplicaCount + 1 - 1) \div 1) - 1 /\ Sidecars = SidecarsOf(1)
  BY DEF SidecarsOf, Sidecars
<1>2. ReplicaCount \in Nat
  BY SidecarAssumption
<1>3. (ReplicaCount + 1 - 1) \div 1 = ReplicaCount
  BY <1>2
<1>4. s \in 0 .. ReplicaCount - 1
  BY <1>1, <1>3
<1>5. s \div 1 = s
  BY <1>2, <1>4
<1> QED
  BY <1>4, <1>5 DEF Replicas, SidecarId

LEMMA EdgeInputEnters ==
  ASSUME Types, NEW q, EdgeInput(q)
  PROVE  \E s, d : EdgeEnters(q, s, d)
<1>1. /\ q \in Ingress \ arrived /\ arrived' = arrived \cup {q}
      /\ UNCHANGED <<config, client, sidecar, replica>>
  BY DEF EdgeInput
<1>2. PICK h : h = HopTo(q)
  OBVIOUS
<1>3. PICK s \in Sidecars : edge' = [edge EXCEPT ![s] = @ + 1]
                            /\ inbox' = [inbox EXCEPT ![EdgeTarget(s)] = Append(@, h)]
  BY <1>2 DEF EdgeInput, HopTo
<1>4. inbox = [x \in Boxes |-> inbox[x]]
  BY DEF Types, Mailboxes
<1>5. CASE config.share = 1
  <2>1. s \in Replicas /\ SidecarId(s) = s
    BY <1>5, OwnSidecar
  <2>2. inbox' = [inbox EXCEPT ![ReplicaBox(s)] = Append(@, h)]
    BY <1>3, <1>5 DEF EdgeTarget
  <2>3. ReplicaBox(s) \in Boxes
    BY <2>1, BoxesAre DEF Types
  <2>4. /\ inbox' = [x \in Boxes |-> inbox'[x]]
        /\ \A x \in Boxes : inbox'[x] = IF x = ReplicaBox(s) THEN Append(inbox[x], h) ELSE inbox[x]
    BY ONLY <1>4, <2>2, <2>3
  <2>5. /\ \A r \in Replicas : inbox'[ReplicaBox(r)] = IF r = s THEN Append(inbox[ReplicaBox(r)], h)
                                                       ELSE inbox[ReplicaBox(r)]
        /\ \A o \in Sidecars : inbox'[SidecarBox(o)] = inbox[SidecarBox(o)]
        /\ \A a \in Clients : inbox'[ClientBox(a)] = inbox[ClientBox(a)]
        /\ inbox'[EdgeBox] = inbox[EdgeBox]
    BY <2>4, BoxesAre, BoxesDiffer DEF Types
  <2>6. s # Nobody
    BY <2>1, NobodyIs
  <2>7. EdgeEnters(q, s, s)
    BY <1>1, <1>2, <1>3, <2>1, <2>4, <2>5, <2>6 DEF EdgeEnters
  <2> QED
    BY <2>7
<1>6. CASE config.share # 1
  <2>1. inbox' = [inbox EXCEPT ![SidecarBox(s)] = Append(@, h)]
    BY <1>3, <1>6 DEF EdgeTarget
  <2>2. SidecarBox(s) \in Boxes
    BY BoxesAre DEF Types
  <2>3. /\ inbox' = [x \in Boxes |-> inbox'[x]]
        /\ \A x \in Boxes : inbox'[x] = IF x = SidecarBox(s) THEN Append(inbox[x], h) ELSE inbox[x]
    BY ONLY <1>4, <2>1, <2>2
  <2>4. /\ \A r \in Replicas : inbox'[ReplicaBox(r)] = inbox[ReplicaBox(r)]
        /\ \A o \in Sidecars : inbox'[SidecarBox(o)] = IF o = s THEN Append(inbox[SidecarBox(o)], h)
                                                       ELSE inbox[SidecarBox(o)]
        /\ \A a \in Clients : inbox'[ClientBox(a)] = inbox[ClientBox(a)]
        /\ inbox'[EdgeBox] = inbox[EdgeBox]
    BY <2>3, BoxesAre, BoxesDiffer DEF Types
  <2>5. EdgeEnters(q, s, Nobody)
    BY <1>1, <1>2, <1>3, <2>3, <2>4, NobodyIs DEF EdgeEnters
  <2> QED
    BY <2>5
<1> QED
  BY <1>5, <1>6

LEMMA EdgeEntersTypes ==
  ASSUME Types, NEW q, NEW s, NEW d, EdgeEnters(q, s, d)
  PROVE  Types' /\ HopTo(q) \in Work /\ HopTo(q) \in Ingested
<1>1. /\ UNCHANGED <<config, client, sidecar, replica>> /\ q \in Ingress
      /\ arrived' = arrived \cup {q} /\ s \in Sidecars /\ edge' = [edge EXCEPT ![s] = @ + 1]
  BY DEF EdgeEnters
<1>2. /\ Sidecars' = Sidecars /\ PullMail' = PullMail /\ ClientState' = ClientState
      /\ (\A o : SidecarMail(o)' = SidecarMail(o)) /\ EdgeMail' = EdgeMail
      /\ \A o : SidecarState(o)' = SidecarState(o)
  BY <1>1, SameGroups
<1>3. HopTo(q) \in Ingested /\ HopTo(q) \in Work
  BY <1>1 DEF HopTo, Ingested, Work, Tasks
<1>4. HopTo(q) \in SidecarMail(s)
  BY <1>3 DEF SidecarMail
<1>5. \A o \in Sidecars : inbox'[SidecarBox(o)] \in Seq(SidecarMail(o))
  <2> TAKE o \in Sidecars
  <2>1. inbox[SidecarBox(o)] \in Seq(SidecarMail(o))
    BY DEF Types, Mailboxes
  <2>2. inbox'[SidecarBox(o)] = IF o = s /\ d = Nobody THEN Append(inbox[SidecarBox(o)], HopTo(q))
                                ELSE inbox[SidecarBox(o)]
    BY DEF EdgeEnters
  <2> QED
    BY <1>4, <2>1, <2>2
<1>6. \A o \in Replicas : inbox'[ReplicaBox(o)] \in Seq(Work)
  <2> TAKE o \in Replicas
  <2>1. inbox[ReplicaBox(o)] \in Seq(Work)
    BY DEF Types, Mailboxes
  <2>2. inbox'[ReplicaBox(o)] = IF o = d THEN Append(inbox[ReplicaBox(o)], HopTo(q)) ELSE inbox[ReplicaBox(o)]
    BY DEF EdgeEnters
  <2> QED
    BY <1>3, <2>1, <2>2
<1>7. /\ \A a \in Clients : inbox'[ClientBox(a)] \in Seq(PullMail)
      /\ inbox' = [x \in Boxes |-> inbox'[x]] /\ inbox'[EdgeBox] \in Seq(EdgeMail)
  BY DEF EdgeEnters, Types, Mailboxes
<1>8. Mailboxes'
  BY <1>2, <1>5, <1>6, <1>7 DEF Mailboxes
<1>9. arrived' \subseteq Tasks /\ edge' \in [Sidecars -> Nat]
  BY <1>1 DEF Types, Tasks
<1> QED
  BY <1>1, <1>2, <1>3, <1>8, <1>9 DEF Types

LEMMA EdgeEntersPasses ==
  ASSUME Types, NEW q, NEW s, NEW d, EdgeEnters(q, s, d)
  PROVE  Receiving(d, HopTo(q)) /\ Passing(d, HopTo(q)) /\ HopTo(q).task = q
<1>1. /\ UNCHANGED <<config, sidecar, replica>> /\ s \in Sidecars
      /\ \A a \in Clients : inbox'[ClientBox(a)] = inbox[ClientBox(a)]
  BY DEF EdgeEnters
<1>2. HopTo(q) \in Work /\ HopTo(q) \in Ingested
  BY EdgeEntersTypes
<1>3. HopTo(q).kind = "upstream" /\ HopTo(q).task = q /\ ~HopTo(q).slot
  BY DEF HopTo
<1>4. Receiving(d, HopTo(q))
  BY <1>1, <1>2, <1>3 DEF Receiving, EdgeEnters
<1>5. HopTo(q) \in SidecarMail(s) /\ Aside(HopTo(q))
  BY <1>2, <1>3 DEF SidecarMail, Aside, Foreign, Arrivals, Reports
<1>6. \A o \in Sidecars : Elsewhere(inbox[SidecarBox(o)], inbox'[SidecarBox(o)], SidecarMail(o))
  <2> TAKE o \in Sidecars
  <2>1. inbox'[SidecarBox(o)] = IF o = s /\ d = Nobody THEN Append(inbox[SidecarBox(o)], HopTo(q))
                                ELSE inbox[SidecarBox(o)]
    BY DEF EdgeEnters
  <2> QED
    BY <1>5, <2>1 DEF Elsewhere
<1>7. ClientMail(inbox') = ClientMail(inbox)
  BY <1>1 DEF ClientMail
<1>8. ASSUME NEW r \in Replicas
      PROVE  /\ sidecar'[SidecarId(r)].occupancy[r] >= OccOf(r)
             /\ sidecar'[SidecarId(r)].occupancy[r] = OccOf(r)
             /\ Across(ClientMail(inbox'), Clients, Pulls(r)) + OneIf(r = d /\ HopTo(q).slot)
                  = Across(ClientMail(inbox), Clients, Pulls(r))
  <2>1. SidecarId(r) \in Sidecars /\ r \in Members(SidecarId(r))
    BY MembersAre DEF Types
  <2>2. OccOf(r) \in Nat
    BY <2>1 DEF SidecarState, OccOf, Types
  <2>3. sidecar'[SidecarId(r)].occupancy[r] = OccOf(r)
    BY <1>1 DEF OccOf
  <2>4. AreQueues(ClientMail(inbox), Clients, PullMail)
    BY DEF Types, Mailboxes, AreQueues, ClientMail
  <2>5. Across(ClientMail(inbox), Clients, Pulls(r)) \in Nat
    BY <2>4, SidecarAssumption, MatchesFinite, FS_CardinalityType DEF Across
  <2>6. OneIf(r = d /\ HopTo(q).slot) = 0
    BY <1>3 DEF OneIf
  <2> QED
    BY <1>7, <2>2, <2>3, <2>5, <2>6
<1>9. \A o \in Sidecars : sidecar'[o].pending_pulls = sidecar[o].pending_pulls
  BY <1>1
<1>10. Passing(d, HopTo(q))
  BY <1>4, <1>6, <1>8, <1>9 DEF Passing
<1> QED
  BY <1>3, <1>4, <1>10

LEMMA EdgeEntersPlaced ==
  ASSUME Types, AllCounted, Placed, NEW q, NEW s, NEW d, EdgeEnters(q, s, d)
  PROVE  Placed'
<1>1. PICK x, y : x = EdgeBox /\ y = IF d = Nobody THEN SidecarBox(s) ELSE ReplicaBox(d)
  OBVIOUS
<1>2. /\ Receiving(d, HopTo(q)) /\ HopTo(q).task = q /\ HopTo(q) \in Ingested /\ HopTo(q) \in Work
      /\ q \in Ingress \ arrived /\ arrived' = arrived \cup {q} /\ s \in Sidecars /\ config' = config
      /\ client' = client
      /\ d = Nobody \/ d \in Replicas
  <2>1. Receiving(d, HopTo(q)) /\ HopTo(q).task = q
    BY EdgeEntersPasses
  <2>2. HopTo(q) \in Ingested /\ HopTo(q) \in Work
    BY EdgeEntersTypes
  <2>3. /\ q \in Ingress \ arrived /\ arrived' = arrived \cup {q} /\ s \in Sidecars
        /\ config' = config /\ client' = client
        /\ d = Nobody \/ d \in Replicas
    BY DEF EdgeEnters
  <2> QED
    BY <2>1, <2>2, <2>3
<1>3. x \notin SpotsOf(Sidecars) /\ y \in SpotsOf(Sidecars)
  BY <1>1, <1>2, SpotsAre
<1>4. /\ x # y
      /\ EndsAt(x, y, d)
      /\ \A a \in Clients : ClientBox(a) # x /\ ClientBox(a) # y
      /\ \A o \in Sidecars : SidecarBox(o) # x /\ (SidecarBox(o) = y <=> o = s /\ d = Nobody)
  BY <1>1, <1>2, BoxesDiffer, NobodyIs DEF EndsAt
<1>5. ASSUME NEW t \in Tasks
      PROVE  Carried(t, q, x, y, Sidecars, client, replica, inbox, client', replica', inbox')
  <2>1. \A o \in Replicas : Shifts(t, HopTo(q).task, x, y, ReplicaBox(o), InHand(replica[o], inbox[ReplicaBox(o)], t),
                                   InHand(replica'[o], inbox'[ReplicaBox(o)], t))
    BY ONLY <1>2, <1>4, Types, AllCounted, t \in Tasks, CarriedToReplica
  <2>2. \A o \in Sidecars : Shifts(t, q, x, y, SidecarBox(o), Count(inbox[SidecarBox(o)], HopOf(t)),
                                   Count(inbox'[SidecarBox(o)], HopOf(t)))
    <3> TAKE o \in Sidecars
    <3>1. Count(inbox[SidecarBox(o)], HopOf(t)) \in Nat
      BY Naturals
    <3>2. CASE o = s /\ d = Nobody
      <4>1. HopTo(q) \in HopOf(t) <=> t = q
        BY <1>2, HopIs
      <4>2. HopTo(q) \in SidecarMail(o)
        BY <1>2 DEF SidecarMail
      <4>3. inbox[SidecarBox(o)] \in Seq(SidecarMail(o))
        BY DEF Types, Mailboxes
      <4>4. inbox'[SidecarBox(o)] = Append(inbox[SidecarBox(o)], HopTo(q))
        BY <3>2 DEF EdgeEnters
      <4>5. Count(Append(inbox[SidecarBox(o)], HopTo(q)), HopOf(t))
              = Count(inbox[SidecarBox(o)], HopOf(t)) + IF HopTo(q) \in HopOf(t) THEN 1 ELSE 0
        BY ONLY <4>2, <4>3, CountPushBack
      <4>6. Count(Append(inbox[SidecarBox(o)], HopTo(q)), HopOf(t)) = Count(inbox[SidecarBox(o)], HopOf(t)) + OneIf(t = q)
        BY <4>1, <4>5 DEF OneIf
      <4>7. PICK old, new : old = Count(inbox[SidecarBox(o)], HopOf(t)) /\ new = Count(inbox'[SidecarBox(o)], HopOf(t))
        OBVIOUS
      <4>8. OneIf(t = q) \in Nat
        BY DEF OneIf
      <4>9. old \in Nat /\ new \in Nat /\ new = old + OneIf(t = q)
        BY <3>1, <4>4, <4>6, <4>7, <4>8
      <4>10. Shifts(t, q, x, y, y, old, new)
        BY ONLY <1>4, <4>9, ShiftsIn
      <4> QED
        BY <1>4, <3>2, <4>7, <4>10
    <3>3. CASE ~(o = s /\ d = Nobody)
      <4>1. inbox'[SidecarBox(o)] = inbox[SidecarBox(o)]
        BY <3>3 DEF EdgeEnters
      <4>2. x # SidecarBox(o) /\ y # SidecarBox(o)
        BY <1>4, <3>3
      <4> QED
        BY <3>1, <4>1, <4>2, ShiftsNot
    <3> QED
      BY <3>2, <3>3
  <2>3. \A a \in Clients : Shifts(t, q, x, y, ClientBox(a), Count(client[a].queue, CallOf(t)),
                                  Count(client'[a].queue, CallOf(t)))
    BY ONLY <1>2, <1>4, Types, AllCounted, t \in Tasks, CarriedPastClients
  <2> QED
    BY <1>2, <2>1, <2>2, <2>3 DEF Carried
<1>6. \A t \in Tasks : Comes(t, q, x, SpotsOf(Sidecars), t \in arrived, t \in arrived')
  BY <1>2, <1>3 DEF Comes
<1> QED
  BY ONLY <1>2, <1>3, <1>5, <1>6, Placed, PlacedMoves

LEMMA EdgeEntersKeeps ==
  ASSUME PullInv, NEW q, NEW s, NEW d, EdgeEnters(q, s, d)
  PROVE  PullInv'
<1>1. Types /\ AllCounted /\ Placed
  BY DEF PullInv
<1>2. Types' /\ Placed' /\ Passing(d, HopTo(q))
  BY <1>1, EdgeEntersTypes, EdgeEntersPlaced, EdgeEntersPasses
<1> QED
  BY <1>2, PassingKeeps

-----------------------------------------------------------------------------
(* The edge hears of a finished task. *)
ReleaseTaken ==
  /\ UNCHANGED <<config, arrived, client, sidecar, replica>>
  /\ inbox[EdgeBox] # <<>>
  /\ edge' = [edge EXCEPT ![Head(inbox[EdgeBox]).target] = SaturatingDec(@)]
  /\ inbox' = [x \in Boxes |-> inbox'[x]]
  /\ inbox'[EdgeBox] = Tail(inbox[EdgeBox])
  /\ \A a \in Clients : inbox'[ClientBox(a)] = inbox[ClientBox(a)]
  /\ \A s \in Sidecars : inbox'[SidecarBox(s)] = inbox[SidecarBox(s)]
  /\ \A r \in Replicas : inbox'[ReplicaBox(r)] = inbox[ReplicaBox(r)]

LEMMA EdgeReleaseIs ==
  ASSUME Types, EdgeRelease
  PROVE  ReleaseTaken
<1>1. /\ inbox[EdgeBox] # <<>> /\ UNCHANGED <<config, arrived, client, sidecar, replica>>
      /\ edge' = [edge EXCEPT ![Head(inbox[EdgeBox]).target] = SaturatingDec(@)]
      /\ inbox' = [inbox EXCEPT ![EdgeBox] = Tail(@)]
  BY DEF EdgeRelease, Receives, Rest
<1>2. inbox = [x \in Boxes |-> inbox[x]] /\ EdgeBox \in Boxes
  BY BoxesAre DEF Types, Mailboxes
<1>3. /\ inbox' = [x \in Boxes |-> inbox'[x]]
      /\ inbox'[EdgeBox] = Tail(inbox[EdgeBox])
      /\ \A x \in Boxes \ {EdgeBox} : inbox'[x] = inbox[x]
  BY ONLY <1>1, <1>2
<1>4. /\ \A a \in Clients : inbox'[ClientBox(a)] = inbox[ClientBox(a)]
      /\ \A s \in Sidecars : inbox'[SidecarBox(s)] = inbox[SidecarBox(s)]
      /\ \A r \in Replicas : inbox'[ReplicaBox(r)] = inbox[ReplicaBox(r)]
  BY <1>3, BoxesAre, BoxesDiffer DEF Types
<1> QED
  BY <1>1, <1>3, <1>4 DEF ReleaseTaken

(* Nothing but the edge and its mailbox is different. *)
Besides ==
  /\ UNCHANGED <<config, arrived, client, sidecar, replica>>
  /\ \A a \in Clients : inbox'[ClientBox(a)] = inbox[ClientBox(a)]
  /\ \A s \in Sidecars : inbox'[SidecarBox(s)] = inbox[SidecarBox(s)]
  /\ \A r \in Replicas : inbox'[ReplicaBox(r)] = inbox[ReplicaBox(r)]

LEMMA BesidesKeeps ==
  ASSUME PullInv, Besides, Types'
  PROVE  PullInv'
<1>1. Types /\ AllCounted /\ AllFull /\ Placed /\ Reported /\ Reserved /\ InSlots
  BY DEF PullInv
<1>2. /\ UNCHANGED <<config, arrived, client, sidecar, replica>>
      /\ \A a \in Clients : inbox'[ClientBox(a)] = inbox[ClientBox(a)]
      /\ \A s \in Sidecars : inbox'[SidecarBox(s)] = inbox[SidecarBox(s)]
      /\ \A r \in Replicas : inbox'[ReplicaBox(r)] = inbox[ReplicaBox(r)]
  BY DEF Besides
<1>3. AllCounted' /\ AllFull'
  BY <1>1, <1>2 DEF AllCounted, AllFull
<1>4. Sidecars' = Sidecars /\ \A r : SidecarId(r)' = SidecarId(r)
  BY <1>2, SameGroups
<1>5. \A r \in Replicas : SidecarId(r) \in Sidecars
  BY <1>1, MembersAre DEF Types
<1>6. ClientMail(inbox') = ClientMail(inbox)
  BY <1>2 DEF ClientMail
<1>7. \A r \in Replicas : EventsOf(r)' = EventsOf(r) /\ OccOf(r)' = OccOf(r) /\ UnderWay(r)' = UnderWay(r)
  BY <1>2, <1>5, <1>6, NextIs DEF EventsOf, OccOf, UnderWay
<1>8. Placed'
  <2> SUFFICES ASSUME NEW q \in Tasks
               PROVE  \E w : /\ Presence(q, Sidecars', client', replica', inbox', w)
                             /\ Single(w, SpotsOf(Sidecars'), q \in arrived')
    BY DEF Placed
  <2>1. PICK w : /\ Presence(q, Sidecars, client, replica, inbox, w)
                 /\ Single(w, SpotsOf(Sidecars), q \in arrived)
    BY <1>1 DEF Placed
  <2>2. Presence(q, Sidecars, client', replica', inbox', w)
    BY <1>2, <2>1 DEF Presence
  <2>3. Presence(q, Sidecars', client', replica', inbox', w)
    BY <1>4, <2>2
  <2>4. Single(w, SpotsOf(Sidecars'), q \in arrived')
    BY <1>2, <1>4, <2>1
  <2> QED
    BY <2>3, <2>4
<1>9. Reported'
  BY <1>1, <1>2, <1>7 DEF Reported, HeardOf
<1>10. Reserved'
  BY <1>1, <1>2, <1>4, <1>7 DEF Reserved
<1>11. InSlots'
  BY <1>1, <1>2, <1>7 DEF InSlots
<1> QED
  BY <1>3, <1>8, <1>9, <1>10, <1>11 DEF PullInv

LEMMA ReleaseTakenKeeps ==
  ASSUME PullInv, ReleaseTaken
  PROVE  PullInv'
<1>1. Types
  BY DEF PullInv
<1>2. Besides
  BY DEF ReleaseTaken, Besides
<1>3. config' = config
  BY DEF ReleaseTaken
<1>4. /\ Sidecars' = Sidecars /\ PullMail' = PullMail /\ ClientState' = ClientState
      /\ (\A o : SidecarMail(o)' = SidecarMail(o)) /\ EdgeMail' = EdgeMail
      /\ \A o : SidecarState(o)' = SidecarState(o)
  BY <1>3, SameGroups
<1>5. inbox[EdgeBox] \in Seq(EdgeMail) /\ inbox[EdgeBox] # <<>>
  BY <1>1 DEF Types, Mailboxes, ReleaseTaken
<1>6. Head(inbox[EdgeBox]).target \in Sidecars
  <2>1. Head(inbox[EdgeBox]) \in EdgeMail
    BY <1>5
  <2> QED
    BY <2>1 DEF EdgeMail
<1>7. edge' \in [Sidecars -> Nat]
  <2>1. edge \in [Sidecars -> Nat]
    BY <1>1 DEF Types
  <2>2. \A s \in Sidecars : SaturatingDec(edge[s]) \in Nat
    BY <2>1 DEF SaturatingDec
  <2>3. edge' = [edge EXCEPT ![Head(inbox[EdgeBox]).target] = SaturatingDec(@)]
    BY DEF ReleaseTaken
  <2> QED
    BY <1>6, <2>1, <2>2, <2>3
<1>8. inbox'[EdgeBox] \in Seq(EdgeMail)
  BY <1>5 DEF ReleaseTaken
<1>9. Mailboxes'
  BY <1>1, <1>4, <1>8 DEF Types, Mailboxes, ReleaseTaken
<1>10. Types'
  BY <1>1, <1>4, <1>7, <1>9 DEF Types, ReleaseTaken
<1> QED
  BY <1>2, <1>10, BesidesKeeps

-----------------------------------------------------------------------------
(* The beginning *)

LEMMA HeardNothing ==
  ASSUME NEW r, NEW pushed
  PROVE  Heard(<<>>, r, 0, 0, 0, pushed)
<1>1. Count(<<>>, Arrivals(r)) = 0 /\ Count(<<>>, Reports(r)) = 0
  BY CountEmpty
<1>2. DOMAIN <<>> = {}
  OBVIOUS
<1>3. Paired(<<>>, r)
  BY <1>2 DEF Paired
<1>4. Covers(<<>>, r, 0)
  BY <1>2 DEF Covers
<1>5. Known(<<>>, r, 0, 0)
  BY <1>1 DEF Known
<1>6. Latest(<<>>, r, 0, 0, pushed)
  BY <1>2 DEF Latest
<1> QED
  BY <1>3, <1>4, <1>5, <1>6 DEF Heard

LEMMA InitTypes ==
  ASSUME Init
  PROVE  /\ Types
         /\ \A s \in Sidecars : /\ \A r \in Members(s) : sidecar[s].occupancy[r] = 0 /\ sidecar[s].pending_pulls[r] = 0
                                /\ sidecar[s].pull_intents = <<>>
<1>1. config \in [share : Shares, pull_sched : Scheds, scheduling : Schedulings] /\ arrived = {} /\ edge = [s \in Sidecars |-> 0]
      /\ inbox = [x \in Boxes |-> <<>>]
  BY DEF Init
<1>2. client \in [Clients -> ClientState]
  BY DEF Init, ClientState
<1>3. replica \in [Replicas -> ReplicaState]
  <2> DEFINE v == [queue |-> <<>>, in_flight |-> 0, serving |-> {}, calling |-> {}, done |-> {},
                   events |-> <<>>, released |-> 0]
  <2>1. v \in ReplicaState
    BY DEF ReplicaState
  <2>2. replica = [r \in Replicas |-> v]
    BY DEF Init
  <2> HIDE DEF v
  <2> QED
    BY <2>1, <2>2
<1>4. \A s \in Sidecars : ToSet(SidecarReplicas(s, config.share)) = Members(s)
  BY <1>1, MembersAre
<1>5. ASSUME NEW s \in Sidecars
      PROVE  /\ sidecar[s] \in SidecarState(s) /\ sidecar[s].pull_intents = <<>>
             /\ \A r \in Members(s) : sidecar[s].occupancy[r] = 0 /\ sidecar[s].pending_pulls[r] = 0
  <2> DEFINE zero == [r \in Members(s) |-> 0]
  <2>1. sidecar[s] = [occupancy |-> zero, pending_pulls |-> zero, pull_intents |-> <<>>, out |-> <<>>]
    BY <1>4 DEF Init
  <2>2. zero \in [Members(s) -> Nat] /\ \A r \in Members(s) : zero[r] = 0
    OBVIOUS
  <2> HIDE DEF zero
  <2> QED
    BY <2>1, <2>2 DEF SidecarState
<1>6. sidecar = [s \in Sidecars |-> sidecar[s]]
  BY DEF Init
<1>7. \A x \in Boxes : inbox[x] = <<>>
  BY <1>1
<1>8. Mailboxes
  <2>1. inbox = [x \in Boxes |-> inbox[x]]
    BY <1>1
  <2> QED
    BY <1>1, <1>7, <2>1, BoxesAre DEF Mailboxes
<1>9. arrived \subseteq Tasks /\ edge \in [Sidecars -> Nat]
  BY <1>1
<1> QED
  BY <1>1, <1>2, <1>3, <1>5, <1>6, <1>8, <1>9 DEF Types

(* Between two handlers nothing is left to be sent. *)
LEMMA IdleWorks ==
  ASSUME NEW r, NEW v \in ReplicaState
  PROVE  v \in Working(r)
<1>1. PICK E, Z : E = {<<>>} /\ Z = {0}
  OBVIOUS
<1>2. E \subseteq Seq(EventMail(r)) /\ Z \subseteq Nat
  BY <1>1
<1>3. v \in [queue : Seq(PlainWork), in_flight : Nat, serving : SUBSET Work, calling : SUBSET Nested,
             done : SUBSET Tasks, events : E, released : Z]
  BY <1>1 DEF ReplicaState
<1> QED
  BY ONLY <1>2, <1>3 DEF Working

LEMMA InitPullInv ==
  ASSUME Init
  PROVE  PullInv
<1>1. Types
  BY InitTypes
<1>2. /\ \A c \in Clients : inbox[ClientBox(c)] = <<>> /\ client[c].queue = <<>>
      /\ \A s \in Sidecars : inbox[SidecarBox(s)] = <<>>
      /\ \A r \in Replicas : inbox[ReplicaBox(r)] = <<>>
  BY <1>1, BoxesAre DEF Init, Types
<1>3. \A r \in Replicas :
        /\ replica[r].queue = <<>> /\ replica[r].in_flight = 0 /\ replica[r].serving = {}
        /\ replica[r].calling = {} /\ replica[r].done = {} /\ replica[r].events = <<>>
        /\ replica[r].released = 0
  BY DEF Init
<1>4. AllCounted
  <2> SUFFICES \A r \in Replicas : Counted(r, inbox[ReplicaBox(r)], replica[r])
    BY DEF AllCounted
  <2>1. \A r \in Replicas : replica[r] \in Working(r)
    <3> TAKE r \in Replicas
    <3>1. replica[r] \in ReplicaState
      BY <1>1 DEF Types
    <3> QED
      BY <3>1, IdleWorks
  <2> TAKE r \in Replicas
  <2>2. inbox[ReplicaBox(r)] \in Seq(Work)
    BY <1>1 DEF Types, Mailboxes
  <2>3. IsFiniteSet(replica[r].serving) /\ Cardinality(replica[r].serving) = replica[r].in_flight
    BY <1>3, FS_EmptySet
  <2> QED
    BY <2>1, <2>2, <2>3 DEF Counted
<1>5. AllFull
  BY <1>3 DEF AllFull, Full
<1>6. \A r \in Replicas : SidecarId(r) \in Sidecars /\ r \in Members(SidecarId(r))
  BY <1>1, MembersAre DEF Types
<1>7. \A r \in Replicas : /\ OccOf(r) = 0 /\ EventsOf(r) = <<>>
                          /\ sidecar[SidecarId(r)].pending_pulls[r] = 0
  BY <1>2, <1>6, InitTypes DEF OccOf, EventsOf
<1>8. \A r \in Replicas : UnderWay(r) = 0
  <2> TAKE r \in Replicas
  <2>1. \A c \in Clients : ClientMail(inbox)[c] = <<>>
    BY <1>2 DEF ClientMail
  <2>2. Across(ClientMail(inbox), Clients, Pulls(r)) = 0
    BY <2>1, AcrossEmpty
  <2>3. Count(inbox[ReplicaBox(r)], PulledCalls) = 0
    BY <1>2, CountEmpty
  <2> QED
    BY <2>2, <2>3 DEF UnderWay
<1>9. \A r \in Replicas : Cardinality(Pulled(replica[r])) = 0 /\ OccupancyLevel(replica[r]) = 0
  <2> TAKE r \in Replicas
  <2>1. Pulled(replica[r]) = {}
    BY <1>3 DEF Pulled
  <2>2. Len(replica[r].queue) = 0
    BY <1>3
  <2> QED
    BY <1>3, <2>1, <2>2, FS_EmptySet DEF OccupancyLevel
<1>10. Reported
  BY <1>7, <1>9, HeardNothing DEF Reported, HeardOf
<1>11. Reserved
  BY <1>7, <1>8, CountEmpty DEF Reserved
<1>12. InSlots
  BY <1>8, <1>9, SidecarAssumption DEF InSlots
<1>13. Placed
  <2> SUFFICES ASSUME NEW q \in Tasks
               PROVE  \E w : /\ Presence(q, Sidecars, client, replica, inbox, w)
                             /\ Single(w, SpotsOf(Sidecars), q \in arrived)
    BY DEF Placed
  <2>1. PICK w : w = [z \in SpotsOf(Sidecars) |-> 0]
    OBVIOUS
  <2>2. w \in [SpotsOf(Sidecars) -> Nat] /\ \A z \in SpotsOf(Sidecars) : w[z] = 0
    BY <2>1
  <2>3. \A r \in Replicas : InHand(replica[r], inbox[ReplicaBox(r)], q) = 0
    <3> TAKE r \in Replicas
    <3>1. replica[r].serving \cap HopOf(q) = {}
      BY <1>3
    <3>2. Cardinality(replica[r].serving \cap HopOf(q)) = 0
      BY <3>1, FS_EmptySet
    <3>3. Count(inbox[ReplicaBox(r)], HopOf(q)) = 0 /\ Count(replica[r].queue, HopOf(q)) = 0
      BY <1>2, <1>3, CountEmpty
    <3>4. OneIf(q \in replica[r].calling) = 0 /\ OneIf(q \in replica[r].done) = 0
      BY <1>3 DEF OneIf
    <3> QED
      BY <3>2, <3>3, <3>4 DEF InHand
  <2>4. Presence(q, Sidecars, client, replica, inbox, w)
    BY <1>2, <2>2, <2>3, SpotsAre, CountEmpty DEF Presence
  <2>5. q \notin arrived
    BY DEF Init
  <2>6. Single(w, SpotsOf(Sidecars), q \in arrived)
    BY <2>2, <2>5 DEF Single
  <2> QED
    BY <2>4, <2>6
<1> QED
  BY <1>1, <1>4, <1>5, <1>10, <1>11, <1>12, <1>13 DEF PullInv

-----------------------------------------------------------------------------
LEMMA SpecKeepsPullInv ==
  ASSUME PullInv, [Next]_vars
  PROVE  PullInv'
<1>1. Types
  BY DEF PullInv
<1>2. ASSUME NEW q \in Tasks, Call(q)
      PROVE  PullInv'
  BY <1>1, <1>2, CallIs, CallQueuedKeeps
<1>3. ASSUME NEW q \in Tasks, EdgeInput(q)
      PROVE  PullInv'
  BY <1>1, <1>3, EdgeInputEnters, EdgeEntersKeeps
<1>4. ASSUME NEW s \in Sidecars, ReceiveUpstream(s)
      PROVE  PullInv'
  BY <1>1, <1>4, ReceiveUpstreamForwards, ForwardsKeeps
<1>5. ASSUME NEW s \in Sidecars, ReceivePullIntent(s)
      PROVE  PullInv'
  BY <1>1, <1>5, ReceivePullIntentTells, ToldKeeps
<1>6. ASSUME NEW s \in Sidecars, CapacityEvent(s)
      PROVE  PullInv'
  BY <1>6, CapacityEventTells, ToldKeeps
<1>7. ASSUME NEW c \in Clients, PullArrives(c)
      PROVE  PullInv'
  BY <1>1, <1>7, PullArrivesFetches, FetchesKeeps
<1>8. ASSUME NEW r \in Replicas, StartPulled(r)
      PROVE  PullInv'
  BY <1>8, StartPulledHandles, HandlesKeeps
<1>9. ASSUME NEW r \in Replicas, EnqueueWork(r)
      PROVE  PullInv'
  BY <1>9, EnqueueWorkHandles, HandlesKeeps
<1>10. ASSUME NEW r \in Replicas, NEW h \in replica[r].serving, Complete(r, h)
       PROVE  PullInv'
  BY <1>10, CompleteHandles, HandlesKeeps
<1>11. ASSUME NEW r \in Replicas, NEW q \in replica[r].calling, ChildReturns(r, q)
       PROVE  PullInv'
  BY <1>11, ChildReturnsHandles, HandlesKeeps
<1>12. CASE EdgeRelease
  BY <1>1, <1>12, EdgeReleaseIs, ReleaseTakenKeeps
<1>13. CASE UNCHANGED vars
  <2>1. Besides
    BY <1>13 DEF vars, Besides
  <2>2. Types'
    <3>1. UNCHANGED <<config, arrived, client, sidecar, replica, edge, inbox>>
      BY <1>13 DEF vars
    <3>2. /\ Sidecars' = Sidecars /\ PullMail' = PullMail /\ ClientState' = ClientState
          /\ (\A o : SidecarMail(o)' = SidecarMail(o)) /\ EdgeMail' = EdgeMail
          /\ \A o : SidecarState(o)' = SidecarState(o)
      BY <3>1, SameGroups
    <3> QED
      BY <1>1, <3>1, <3>2 DEF Types, Mailboxes
  <2> QED
    BY <2>1, <2>2, BesidesKeeps
<1>14. CASE Finished
  BY <1>13, <1>14 DEF Finished
<1> QED
  BY <1>2, <1>3, <1>4, <1>5, <1>6, <1>7, <1>8, <1>9, <1>10, <1>11, <1>12, <1>13, <1>14 DEF Next

(***************************************************************************)
(* The invariant behind the properties: every task is in one place, each   *)
(* sidecar has heard, or will have heard, of every pulled call its         *)
(* replicas serve, and its reservations are the pulls under way and the    *)
(* arrivals not yet heard of (has_capacity, capacity_event, input).        *)
(***************************************************************************)
THEOREM PullInvariant == Spec => []PullInv
<1>1. Init => PullInv
  BY InitPullInv
<1>2. PullInv /\ [Next]_vars => PullInv'
  BY SpecKeepsPullInv
<1> QED
  BY <1>1, <1>2, PTL DEF Spec

(* The model's counts, as the lemmas count *)
LEMMA HeldIs ==
  ASSUME NEW x, NEW T
  PROVE  Held(x, T) = Count(inbox[x], T)
BY DEF Held, Count

LEMMA PullsForIs ==
  ASSUME NEW r
  PROVE  PullsFor(r) = UnderWay(r)
<1>1. \A c \in Clients : PullsAt(c, r) = Matches(ClientMail(inbox), c, Pulls(r))
  BY DEF PullsAt, Matches, ClientMail
<1>2. UNION {PullsAt(c, r) : c \in Clients} = UNION {Matches(ClientMail(inbox), c, Pulls(r)) : c \in Clients}
  BY <1>1, Zenon
<1> QED
  BY <1>2, HeldIs DEF PullsFor, UnderWay, Across

LEMMA PullInvTypeOK ==
  ASSUME PullInv
  PROVE  TypeOK
<1>1. Types
  BY DEF PullInv
<1>2. \A s \in Sidecars : ToSet(SidecarReplicas(s, config.share)) = Members(s)
  BY <1>1, MembersAre DEF Types
<1>3. \A c \in Clients : /\ client[c].queue \in Seq([task : Calls])
                         /\ client[c].pull_intent_load \in [Sidecars -> Nat]
  BY <1>1 DEF Types, ClientState
<1>4. \A s \in Sidecars :
        /\ sidecar[s].occupancy \in [Members(s) -> Nat] /\ sidecar[s].pending_pulls \in [Members(s) -> Nat]
        /\ sidecar[s].pull_intents \in Seq(Intents)
  BY <1>1 DEF Types, SidecarState
<1>5. \A r \in Replicas :
        /\ replica[r].queue \in Seq(PlainWork) /\ replica[r].serving \subseteq Work
        /\ replica[r].in_flight \in Nat
        /\ replica[r].calling \subseteq Nested /\ replica[r].done \subseteq Tasks
  BY <1>1 DEF Types, ReplicaState
<1>6. \A r \in Replicas : replica[r].queue \in Seq(Work)
  <2>1. PlainWork \subseteq Work
    BY DEF PlainWork, Work
  <2> QED
    BY <1>5, <2>1
<1>7. /\ config \in [share : Shares, pull_sched : Scheds, scheduling : Schedulings] /\ arrived \subseteq Tasks
      /\ edge \in [Sidecars -> Nat]
  BY <1>1 DEF Types
<1> QED
  BY <1>2, <1>3, <1>4, <1>5, <1>6, <1>7 DEF TypeOK, Intents

(***************************************************************************)
(* Every field of the sidecars, replicas and balancers has its type, for   *)
(* any number of them: in_flight and the counts are never negative.        *)
(***************************************************************************)
THEOREM TypeCorrect == Spec => []TypeOK
<1>1. PullInv => TypeOK
  BY PullInvTypeOK
<1> QED
  BY <1>1, PullInvariant, PTL

(***************************************************************************)
(* pending_pulls counts the pulls under way to a replica and the arrivals  *)
(* its sidecar has not heard of (drain_capacity, capacity_event).          *)
(***************************************************************************)
THEOREM PendingPullsAreExact == Spec => []PendingPullsExact
<1>1. PullInv => PendingPullsExact
  <2> SUFFICES ASSUME PullInv, NEW r \in Replicas
               PROVE  sidecar[SidecarId(r)].pending_pulls[r]
                        = PullsFor(r) + Held(SidecarBox(SidecarId(r)), Arrivals(r))
    BY DEF PendingPullsExact
  <2>1. sidecar[SidecarId(r)].pending_pulls[r] = UnderWay(r) + Count(EventsOf(r), Arrivals(r))
    BY DEF PullInv, Reserved
  <2>2. PullsFor(r) = UnderWay(r)
    BY PullsForIs
  <2>3. Held(SidecarBox(SidecarId(r)), Arrivals(r)) = Count(EventsOf(r), Arrivals(r))
    BY HeldIs DEF EventsOf
  <2> QED
    BY <2>1, <2>2, <2>3
<1> QED
  BY <1>1, PullInvariant, PTL

(***************************************************************************)
(* Pulled calls never need more than the slots of their replica, although  *)
(* input starts them without asking (has_capacity, Replica::input).        *)
(***************************************************************************)
THEOREM PulledStayWithinSlots == Spec => []PulledWithinSlots
<1>1. PullInv => PulledWithinSlots
  <2> SUFFICES ASSUME PullInv, NEW r \in Replicas
               PROVE  PullsFor(r) + Cardinality(PulledServing(r)) <= MaxConcurrency
    BY DEF PulledWithinSlots
  <2>1. UnderWay(r) + Cardinality(Pulled(replica[r])) <= MaxConcurrency
    BY DEF PullInv, InSlots
  <2>2. PullsFor(r) = UnderWay(r) /\ PulledServing(r) = Pulled(replica[r])
    BY PullsForIs DEF PulledServing, Pulled
  <2> QED
    BY <2>1, <2>2
<1> QED
  BY <1>1, PullInvariant, PTL

(***************************************************************************)
(* With no report and no forwarded task under way, the occupancy a sidecar *)
(* selects by is the replica's (capacity_event, receive_upstream).         *)
(***************************************************************************)
THEOREM OccupancyIsCurrent == Spec => []OccupancyCurrent
<1>1. PullInv => OccupancyCurrent
  <2> SUFFICES ASSUME PullInv, NEW r \in Replicas,
                      Held(SidecarBox(SidecarId(r)), Reports(r)) + Held(ReplicaBox(r), PushedTasks) = 0
               PROVE  sidecar[SidecarId(r)].occupancy[r] = OccupancyLevel(replica[r])
    BY DEF OccupancyCurrent
  <2>1. /\ Held(SidecarBox(SidecarId(r)), Reports(r)) = Count(EventsOf(r), Reports(r))
        /\ Held(ReplicaBox(r), PushedTasks) = Count(inbox[ReplicaBox(r)], PushedTasks)
    BY HeldIs DEF EventsOf
  <2>2. Types
    BY DEF PullInv
  <2>3. SidecarId(r) \in Sidecars
    BY <2>2, MembersAre DEF Types
  <2>4. EventsOf(r) \in Seq(SidecarMail(SidecarId(r))) /\ inbox[ReplicaBox(r)] \in Seq(Work)
    BY <2>2, <2>3 DEF Types, Mailboxes, EventsOf
  <2>5. Count(EventsOf(r), Reports(r)) \in Nat /\ Count(inbox[ReplicaBox(r)], PushedTasks) \in Nat
    BY <2>4, CountFinite
  <2>6. Count(EventsOf(r), Reports(r)) = 0 /\ Count(inbox[ReplicaBox(r)], PushedTasks) = 0
    BY <2>1, <2>5
  <2>7. Latest(EventsOf(r), r, OccOf(r), OccupancyLevel(replica[r]), Count(inbox[ReplicaBox(r)], PushedTasks))
    BY DEF PullInv, Reported, HeardOf, Heard
  <2> QED
    BY <2>6, <2>7 DEF Latest, OccOf
<1> QED
  BY <1>1, PullInvariant, PTL

-----------------------------------------------------------------------------
(***************************************************************************)
(* The intents of client c that sidecar s has not answered, in its mailbox *)
(* and in its queue; the answers are in the client's mailbox.              *)
(***************************************************************************)
Unanswered(bx, sd, c, s) ==
  Count(bx[SidecarBox(s)], IntentsOf(c)) + Count(sd[s].pull_intents, IntentsOf(c))

IntentLoads ==
  \A s \in Sidecars : \A c \in Clients :
    client[c].pull_intent_load[s] =
      Unanswered(inbox, sidecar, c, s) + Count(inbox[ClientBox(c)], Answers(s))

SidecarBoxes(bx) == [s \in Sidecars |-> bx[SidecarBox(s)]]
IntentQueues(sd) == [s \in Sidecars |-> sd[s].pull_intents]

(* Every call that a client holds has its intent or its pull. *)
Announced ==
  \A c \in Clients :
    Len(client[c].queue) = Across(SidecarBoxes(inbox), Sidecars, IntentsOf(c))
                           + Across(IntentQueues(sidecar), Sidecars, IntentsOf(c))
                           + Len(inbox[ClientBox(c)])

(***************************************************************************)
(* A step between the clients and sidecar d: what each client has asked    *)
(* and what it counts change alike.                                        *)
(***************************************************************************)
Alike(c, d) ==
  /\ Len(client'[c].queue) + Unanswered(inbox, sidecar, c, d) + Len(inbox[ClientBox(c)])
       = Len(client[c].queue) + Unanswered(inbox', sidecar', c, d) + Len(inbox'[ClientBox(c)])
  /\ client'[c].pull_intent_load[d] + Unanswered(inbox, sidecar, c, d)
         + Count(inbox[ClientBox(c)], Answers(d))
       = client[c].pull_intent_load[d] + Unanswered(inbox', sidecar', c, d)
         + Count(inbox'[ClientBox(c)], Answers(d))
  /\ \A o \in Sidecars \ {d} :
       /\ client'[c].pull_intent_load[o] = client[c].pull_intent_load[o]
       /\ Count(inbox'[ClientBox(c)], Answers(o)) = Count(inbox[ClientBox(c)], Answers(o))

Turns(d) ==
  /\ config' = config /\ d \in Sidecars
  /\ \A o \in Sidecars \ {d} : /\ inbox'[SidecarBox(o)] = inbox[SidecarBox(o)]
                               /\ sidecar'[o].pull_intents = sidecar[o].pull_intents
  /\ \A c \in Clients : Alike(c, d)

(* What is counted is a number. *)
Typed(cl, sd, bx, c, s) ==
  /\ cl[c] \in ClientState /\ bx[ClientBox(c)] \in Seq(PullMail)
  /\ bx[SidecarBox(s)] \in Seq(SidecarMail(s)) /\ sd[s].pull_intents \in Seq(Intents)

Numbers(cl, sd, bx, c, s) ==
  /\ Len(cl[c].queue) \in Nat /\ Len(bx[ClientBox(c)]) \in Nat
  /\ cl[c].pull_intent_load[s] \in Nat
  /\ Count(bx[SidecarBox(s)], IntentsOf(c)) \in Nat
  /\ Count(sd[s].pull_intents, IntentsOf(c)) \in Nat
  /\ Count(bx[ClientBox(c)], Answers(s)) \in Nat
  /\ Unanswered(bx, sd, c, s) \in Nat

LEMMA TypedNumbers ==
  ASSUME NEW cl, NEW sd, NEW bx, NEW c \in Clients, NEW s \in Sidecars, Typed(cl, sd, bx, c, s)
  PROVE  Numbers(cl, sd, bx, c, s)
<1> USE DEF Typed
<1>1. Len(cl[c].queue) \in Nat /\ Len(bx[ClientBox(c)]) \in Nat /\ cl[c].pull_intent_load[s] \in Nat
  BY DEF ClientState
<1>2. Count(bx[SidecarBox(s)], IntentsOf(c)) \in Nat
  BY CountFinite
<1>3. Count(sd[s].pull_intents, IntentsOf(c)) \in Nat
  BY CountFinite
<1>4. Count(bx[ClientBox(c)], Answers(s)) \in Nat
  BY CountFinite
<1> QED
  BY <1>1, <1>2, <1>3, <1>4 DEF Unanswered, Numbers

LEMMA IntentNumbers ==
  ASSUME Types, NEW c \in Clients, NEW s \in Sidecars
  PROVE  Numbers(client, sidecar, inbox, c, s)
<1>1. Typed(client, sidecar, inbox, c, s)
  BY DEF Typed, Types, Mailboxes, SidecarState
<1> QED
  BY <1>1, TypedNumbers

LEMMA IntentNumbersNext ==
  ASSUME Types', config' = config, NEW c \in Clients, NEW s \in Sidecars
  PROVE  Numbers(client', sidecar', inbox', c, s)
<1>1. /\ Sidecars' = Sidecars /\ PullMail' = PullMail /\ SidecarMail(s)' = SidecarMail(s)
      /\ ClientState' = ClientState /\ SidecarState(s)' = SidecarState(s)
  BY SameGroups
<1>2. Typed(client', sidecar', inbox', c, s)
  <2>1. client'[c] \in ClientState
    BY <1>1 DEF Types
  <2>2. inbox'[ClientBox(c)] \in Seq(PullMail)
    BY <1>1 DEF Types, Mailboxes
  <2>3. inbox'[SidecarBox(s)] \in Seq(SidecarMail(s))
    BY <1>1 DEF Types, Mailboxes
  <2>4. sidecar'[s] \in SidecarState(s)
    BY <1>1 DEF Types
  <2> QED
    BY <2>1, <2>2, <2>3, <2>4 DEF Typed, SidecarState
<1> QED
  BY <1>2, TypedNumbers

LEMMA SidecarsFinite ==
  ASSUME Types
  PROVE  IsFiniteSet(Sidecars) /\ Sidecars # {}
<1>1. config \in [share : Shares, pull_sched : Scheds, scheduling : Schedulings]
  BY DEF Types
<1>2. config.share \in Nat \ {0} /\ ReplicaCount \in Nat \ {0}
  BY <1>1, BoxesAre, SidecarAssumption
<1>3. ReplicaCount + config.share - 1 \in Nat
  BY <1>2
<1>4. (ReplicaCount + config.share - 1) \div config.share \in Nat
  BY <1>2, <1>3, DividesDown
<1>5. IsFiniteSet(Sidecars)
  BY <1>4, FS_Interval DEF Sidecars, SidecarsOf
<1>6. 0 \in Replicas
  BY <1>2 DEF Replicas
<1> QED
  BY <1>1, <1>5, <1>6, MembersAre

MailOfAny == UNION {SidecarMail(s) : s \in Sidecars}

LEMMA QueuesAre ==
  ASSUME NEW sd, NEW bx,
         \A s \in Sidecars : bx[SidecarBox(s)] \in Seq(SidecarMail(s)) /\ sd[s].pull_intents \in Seq(Intents)
  PROVE  /\ AreQueues(SidecarBoxes(bx), Sidecars, MailOfAny)
         /\ AreQueues(IntentQueues(sd), Sidecars, Intents)
<1>1. ASSUME NEW s \in Sidecars
      PROVE  bx[SidecarBox(s)] \in Seq(MailOfAny)
  <2>1. bx[SidecarBox(s)] \in Seq(SidecarMail(s))
    OBVIOUS
  <2>2. SidecarMail(s) \subseteq MailOfAny
    BY DEF MailOfAny
  <2> QED
    BY ONLY <2>1, <2>2
<1> QED
  BY <1>1 DEF AreQueues, SidecarBoxes, IntentQueues

(* Both sides of what is counted stay equal. *)
LEMMA TurnsLoads ==
  ASSUME Types, Types', IntentLoads, NEW d, Turns(d)
  PROVE  IntentLoads'
<1>1. config' = config /\ d \in Sidecars /\ Sidecars' = Sidecars
  BY SameGroups DEF Turns
<1> SUFFICES ASSUME NEW s \in Sidecars, NEW c \in Clients
             PROVE  client'[c].pull_intent_load[s] =
                      Unanswered(inbox', sidecar', c, s) + Count(inbox'[ClientBox(c)], Answers(s))
  BY <1>1 DEF IntentLoads
<1>2. client[c].pull_intent_load[s] =
        Unanswered(inbox, sidecar, c, s) + Count(inbox[ClientBox(c)], Answers(s))
  BY DEF IntentLoads
<1>3. Numbers(client, sidecar, inbox, c, s) /\ Numbers(client', sidecar', inbox', c, s)
  BY <1>1, IntentNumbers, IntentNumbersNext
<1>4. Alike(c, d)
  BY DEF Turns
<1>5. CASE s = d
  <2>1. client'[c].pull_intent_load[s] + Unanswered(inbox, sidecar, c, s) + Count(inbox[ClientBox(c)], Answers(s))
       = client[c].pull_intent_load[s] + Unanswered(inbox', sidecar', c, s)
         + Count(inbox'[ClientBox(c)], Answers(s))
    BY ONLY <1>4, <1>5 DEF Alike
  <2> QED
    <3>1. PICK l \in Nat : l = client[c].pull_intent_load[s]
      BY <1>3 DEF Numbers
    <3>2. PICK n \in Nat : n = client'[c].pull_intent_load[s]
      BY <1>3 DEF Numbers
    <3>3. PICK a \in Nat : a = Unanswered(inbox, sidecar, c, s)
      BY <1>3 DEF Numbers
    <3>4. PICK b \in Nat : b = Count(inbox[ClientBox(c)], Answers(s))
      BY <1>3 DEF Numbers
    <3>5. PICK x \in Nat : x = Unanswered(inbox', sidecar', c, s)
      BY <1>3 DEF Numbers
    <3>6. PICK y \in Nat : y = Count(inbox'[ClientBox(c)], Answers(s))
      BY <1>3 DEF Numbers
    <3>7. n + a + b = l + x + y /\ l = a + b
      BY ONLY <1>2, <2>1, <3>1, <3>2, <3>3, <3>4, <3>5, <3>6
    <3>8. n = x + y
      BY ONLY <3>7, StaysEqual
    <3> QED
      BY ONLY <3>2, <3>5, <3>6, <3>8
<1>6. CASE s # d
  <2>1. client'[c].pull_intent_load[s] = client[c].pull_intent_load[s]
        /\ Count(inbox'[ClientBox(c)], Answers(s)) = Count(inbox[ClientBox(c)], Answers(s))
    BY <1>4, <1>6 DEF Alike
  <2>2. Unanswered(inbox', sidecar', c, s) = Unanswered(inbox, sidecar, c, s)
    BY <1>6 DEF Turns, Unanswered
  <2> QED
    BY ONLY <1>2, <2>1, <2>2
<1> QED
  BY <1>5, <1>6

LEMMA TurnsAnnounced ==
  ASSUME Types, Types', Announced, NEW d, Turns(d)
  PROVE  Announced'
<1>1. config' = config /\ d \in Sidecars /\ Sidecars' = Sidecars
  BY SameGroups DEF Turns
<1>2. SidecarBoxes(inbox)' = SidecarBoxes(inbox') /\ IntentQueues(sidecar)' = IntentQueues(sidecar')
  BY <1>1 DEF SidecarBoxes, IntentQueues
<1> SUFFICES ASSUME NEW c \in Clients
             PROVE  Len(client'[c].queue) = Across(SidecarBoxes(inbox'), Sidecars, IntentsOf(c))
                           + Across(IntentQueues(sidecar'), Sidecars, IntentsOf(c))
                           + Len(inbox'[ClientBox(c)])
  BY <1>1, <1>2 DEF Announced
<1> DEFINE T == IntentsOf(c)
<1>3. Len(client[c].queue) = Across(SidecarBoxes(inbox), Sidecars, T)
                           + Across(IntentQueues(sidecar), Sidecars, T) + Len(inbox[ClientBox(c)])
  BY DEF Announced
<1>4. Numbers(client, sidecar, inbox, c, d) /\ Numbers(client', sidecar', inbox', c, d)
  BY <1>1, IntentNumbers, IntentNumbersNext
<1>5. /\ AreQueues(SidecarBoxes(inbox), Sidecars, MailOfAny)
      /\ AreQueues(IntentQueues(sidecar), Sidecars, Intents)
  <2>1. \A s \in Sidecars : inbox[SidecarBox(s)] \in Seq(SidecarMail(s)) /\ sidecar[s].pull_intents \in Seq(Intents)
    BY DEF Types, Mailboxes, SidecarState
  <2> QED
    BY <2>1, QueuesAre
<1>6. /\ AreQueues(SidecarBoxes(inbox'), Sidecars, MailOfAny)
      /\ AreQueues(IntentQueues(sidecar'), Sidecars, Intents)
  <2>1. ASSUME NEW s \in Sidecars
        PROVE inbox'[SidecarBox(s)] \in Seq(SidecarMail(s)) /\ sidecar'[s].pull_intents \in Seq(Intents)
    <3>1. SidecarMail(s)' = SidecarMail(s) /\ SidecarState(s)' = SidecarState(s)
      BY <1>1, SameGroups
    <3>2. inbox'[SidecarBox(s)] \in Seq(SidecarMail(s)) /\ sidecar'[s] \in SidecarState(s)
      BY <1>1, <3>1 DEF Types, Mailboxes
    <3> QED
      BY <3>2 DEF SidecarState
  <2> QED
    BY <2>1, QueuesAre
<1>7. IsFiniteSet(Sidecars)
  BY SidecarsFinite
<1>8. /\ KeepsApart(SidecarBoxes(inbox), SidecarBoxes(inbox'), Sidecars, d)
      /\ KeepsApart(IntentQueues(sidecar), IntentQueues(sidecar'), Sidecars, d)
  BY DEF Turns, KeepsApart, SidecarBoxes, IntentQueues
<1>9. Across(SidecarBoxes(inbox'), Sidecars, T) + Count(SidecarBoxes(inbox)[d], T)
        = Across(SidecarBoxes(inbox), Sidecars, T) + Count(SidecarBoxes(inbox')[d], T)
  BY <1>1, <1>5, <1>6, <1>7, <1>8, AcrossChanges
<1>10. Across(IntentQueues(sidecar'), Sidecars, T) + Count(IntentQueues(sidecar)[d], T)
        = Across(IntentQueues(sidecar), Sidecars, T) + Count(IntentQueues(sidecar')[d], T)
  BY <1>1, <1>5, <1>6, <1>7, <1>8, AcrossChanges
<1>11. /\ SidecarBoxes(inbox)[d] = inbox[SidecarBox(d)] /\ SidecarBoxes(inbox')[d] = inbox'[SidecarBox(d)]
       /\ IntentQueues(sidecar)[d] = sidecar[d].pull_intents
       /\ IntentQueues(sidecar')[d] = sidecar'[d].pull_intents
  BY <1>1 DEF SidecarBoxes, IntentQueues
<1>12. /\ Across(SidecarBoxes(inbox), Sidecars, T) \in Nat /\ Across(SidecarBoxes(inbox'), Sidecars, T) \in Nat
  BY <1>1, <1>5, <1>6, <1>7, AcrossParts
<1>13. /\ Across(IntentQueues(sidecar), Sidecars, T) \in Nat
       /\ Across(IntentQueues(sidecar'), Sidecars, T) \in Nat
  BY <1>1, <1>5, <1>6, <1>7, AcrossParts
<1>14. Len(client'[c].queue) + Unanswered(inbox, sidecar, c, d) + Len(inbox[ClientBox(c)])
         = Len(client[c].queue) + Unanswered(inbox', sidecar', c, d) + Len(inbox'[ClientBox(c)])
  BY DEF Turns, Alike
<1>15. /\ Unanswered(inbox, sidecar, c, d) = Count(inbox[SidecarBox(d)], T) + Count(sidecar[d].pull_intents, T)
       /\ Unanswered(inbox', sidecar', c, d) = Count(inbox'[SidecarBox(d)], T) + Count(sidecar'[d].pull_intents, T)
  BY DEF Unanswered
<1>16. /\ Across(SidecarBoxes(inbox'), Sidecars, T) + Count(inbox[SidecarBox(d)], T)
            = Across(SidecarBoxes(inbox), Sidecars, T) + Count(inbox'[SidecarBox(d)], T)
       /\ Across(IntentQueues(sidecar'), Sidecars, T) + Count(sidecar[d].pull_intents, T)
            = Across(IntentQueues(sidecar), Sidecars, T) + Count(sidecar'[d].pull_intents, T)
  BY ONLY <1>9, <1>10, <1>11
<1> HIDE DEF T
<1>17. /\ Count(inbox[SidecarBox(d)], T) \in Nat /\ Count(inbox'[SidecarBox(d)], T) \in Nat
       /\ Count(sidecar[d].pull_intents, T) \in Nat /\ Count(sidecar'[d].pull_intents, T) \in Nat
       /\ Len(client[c].queue) \in Nat /\ Len(client'[c].queue) \in Nat
       /\ Len(inbox[ClientBox(c)]) \in Nat /\ Len(inbox'[ClientBox(c)]) \in Nat
  BY <1>4 DEF Numbers, T
<1>18. Len(client'[c].queue) = Across(SidecarBoxes(inbox'), Sidecars, T)
                           + Across(IntentQueues(sidecar'), Sidecars, T) + Len(inbox'[ClientBox(c)])
  <2>1. Len(client'[c].queue) + (Count(inbox[SidecarBox(d)], T) + Count(sidecar[d].pull_intents, T))
            + Len(inbox[ClientBox(c)])
          = Len(client[c].queue) + (Count(inbox'[SidecarBox(d)], T) + Count(sidecar'[d].pull_intents, T))
            + Len(inbox'[ClientBox(c)])
    BY ONLY <1>14, <1>15
  <2>2. Len(client[c].queue) = Across(SidecarBoxes(inbox), Sidecars, T)
                           + Across(IntentQueues(sidecar), Sidecars, T) + Len(inbox[ClientBox(c)])
    BY <1>3 DEF T
  <2> QED
    <3>1. PICK l \in Nat, n \in Nat : l = Len(client[c].queue) /\ n = Len(client'[c].queue)
      BY <1>17
    <3>2. PICK e \in Nat, f \in Nat : /\ e = Across(SidecarBoxes(inbox), Sidecars, T)
                                      /\ f = Across(IntentQueues(sidecar), Sidecars, T)
      BY <1>12, <1>13
    <3>3. PICK v \in Nat, w \in Nat : /\ v = Across(SidecarBoxes(inbox'), Sidecars, T)
                                      /\ w = Across(IntentQueues(sidecar'), Sidecars, T)
      BY <1>12, <1>13
    <3>4. PICK a \in Nat, b \in Nat : a = Count(inbox[SidecarBox(d)], T) /\ b = Count(sidecar[d].pull_intents, T)
      BY <1>17
    <3>5. PICK x \in Nat, y \in Nat : x = Count(inbox'[SidecarBox(d)], T) /\ y = Count(sidecar'[d].pull_intents, T)
      BY <1>17
    <3>6. PICK i \in Nat, j \in Nat : i = Len(inbox[ClientBox(c)]) /\ j = Len(inbox'[ClientBox(c)])
      BY <1>17
    <3>7. n + (a + b) + i = l + (x + y) + j
      BY ONLY <2>1, <3>1, <3>4, <3>5, <3>6
    <3>8. l = e + f + i
      BY ONLY <2>2, <3>1, <3>2, <3>6
    <3>9. v + a = e + x /\ w + b = f + y
      BY ONLY <1>16, <3>2, <3>3, <3>4, <3>5
    <3>10. n = v + w + j
      BY ONLY <3>7, <3>8, <3>9, StaysEqualAcross
    <3> QED
      BY ONLY <3>1, <3>3, <3>6, <3>10
<1> QED
  BY <1>18 DEF T

-----------------------------------------------------------------------------
(* Each step as one between the clients and a sidecar *)

(* Nothing is asked and nothing answered. *)
LEMMA TurnsQuietly ==
  ASSUME Types, UNCHANGED <<config, client>>, NEW d \in Sidecars,
         \A a \in Clients : inbox'[ClientBox(a)] = inbox[ClientBox(a)],
         \A o \in Sidecars : sidecar'[o].pull_intents = sidecar[o].pull_intents,
         \A o \in Sidecars \ {d} : inbox'[SidecarBox(o)] = inbox[SidecarBox(o)],
         \A a \in Clients : Count(inbox'[SidecarBox(d)], IntentsOf(a)) = Count(inbox[SidecarBox(d)], IntentsOf(a))
  PROVE  Turns(d)
<1>1. ASSUME NEW c \in Clients
      PROVE  Alike(c, d)
  <2>1. Unanswered(inbox', sidecar', c, d) = Unanswered(inbox, sidecar, c, d)
    BY DEF Unanswered
  <2> QED
    BY <2>1 DEF Alike
<1> QED
  BY <1>1 DEF Turns

LEMMA HandlesTurns ==
  ASSUME Types, NEW r \in Replicas, NEW c, NEW u, Handles(r, c, u)
  PROVE  Turns(SidecarId(r))
<1>1. config \in [share : Shares, pull_sched : Scheds, scheduling : Schedulings]
  BY DEF Types
<1>2. SidecarId(r) \in Sidecars /\ r \in Members(SidecarId(r))
  BY <1>1, MembersAre
<1>3. Handled(r, c, u)
  BY DEF Handles
<1>4. u.events \in Seq(EventMail(r))
  <2>1. Counted(r, c, u)
    BY HandlesIs
  <2> QED
    BY <2>1 DEF Counted, Working
<1>5. EventsOf(r) \in Seq(SidecarMail(SidecarId(r))) /\ u.events \in Seq(SidecarMail(SidecarId(r)))
  <2>1. EventMail(r) \subseteq SidecarMail(SidecarId(r))
    BY <1>2 DEF SidecarMail
  <2>2. EventsOf(r) \in Seq(SidecarMail(SidecarId(r)))
    BY <1>2 DEF Types, Mailboxes, EventsOf
  <2> QED
    BY ONLY <1>4, <2>1, <2>2
<1>6. \A a \in Clients : Count(inbox'[SidecarBox(SidecarId(r))], IntentsOf(a)) = Count(inbox[SidecarBox(SidecarId(r))], IntentsOf(a))
  <2> TAKE a \in Clients
  <2>1. Count(u.events, IntentsOf(a)) = 0
    BY <1>4, EventsApart
  <2>2. Count(EventsOf(r) \o u.events, IntentsOf(a)) = Count(EventsOf(r), IntentsOf(a)) + Count(u.events, IntentsOf(a))
    BY <1>5, CountConcat
  <2>3. Count(EventsOf(r), IntentsOf(a)) \in Nat
    BY <1>5, CountFinite
  <2>4. Count(EventsOf(r) \o u.events, IntentsOf(a)) = Count(EventsOf(r), IntentsOf(a))
    BY ONLY <2>1, <2>2, <2>3
  <2> QED
    BY <1>3, <2>4 DEF Handled, EventsOf
<1>7. UNCHANGED <<config, client, sidecar>>
  BY <1>3 DEF Handled
<1>8. \A a \in Clients : inbox'[ClientBox(a)] = inbox[ClientBox(a)]
  BY <1>3 DEF Handled
<1>9. \A o \in Sidecars \ {SidecarId(r)} : inbox'[SidecarBox(o)] = inbox[SidecarBox(o)]
  BY <1>3 DEF Handled
<1> QED
  BY <1>2, <1>6, <1>7, <1>8, <1>9, TurnsQuietly

LEMMA ForwardsTurns ==
  ASSUME Types, NEW s \in Sidecars, NEW r, Forwards(s, r)
  PROVE  Turns(s)
<1>1. \A a \in Clients : Count(inbox'[SidecarBox(s)], IntentsOf(a)) = Count(inbox[SidecarBox(s)], IntentsOf(a))
  <2> TAKE a \in Clients
  <2> DEFINE b == inbox[SidecarBox(s)]
             h == Head(inbox[SidecarBox(s)])
  <2>1. b \in Seq(SidecarMail(s)) /\ b # <<>>
    BY DEF Types, Mailboxes, Forwards
  <2>2. h \notin IntentsOf(a)
    BY DEF Forwards, Ingested, IntentsOf
  <2>3. Count(b, IntentsOf(a)) = Count(Tail(b), IntentsOf(a)) + IF h \in IntentsOf(a) THEN 1 ELSE 0
    BY <2>1, CountPopFront
  <2>4. Count(Tail(b), IntentsOf(a)) \in Nat
    <3>1. Tail(b) \in Seq(SidecarMail(s))
      BY <2>1
    <3> QED
      BY <3>1, CountFinite
  <2>5. inbox'[SidecarBox(s)] = Tail(b)
    BY DEF Forwards
  <2> QED
    BY ONLY <2>2, <2>3, <2>4, <2>5
<1>2. UNCHANGED <<config, client>>
  BY DEF Forwards
<1>3. \A o \in Sidecars : sidecar'[o].pull_intents = sidecar[o].pull_intents
  BY DEF Forwards
<1>4. \A a \in Clients : inbox'[ClientBox(a)] = inbox[ClientBox(a)]
  BY DEF Forwards
<1>5. \A o \in Sidecars \ {s} : inbox'[SidecarBox(o)] = inbox[SidecarBox(o)]
  BY DEF Forwards
<1> QED
  BY <1>1, <1>2, <1>3, <1>4, <1>5, TurnsQuietly

LEMMA EdgeEntersTurns ==
  ASSUME Types, NEW q, NEW s, NEW d, EdgeEnters(q, s, d)
  PROVE  s \in Sidecars /\ Turns(s)
<1>1. s \in Sidecars
  BY DEF EdgeEnters
<1>2. HopTo(q) \in Ingested
  BY EdgeEntersTypes
<1>3. \A a \in Clients : Count(inbox'[SidecarBox(s)], IntentsOf(a)) = Count(inbox[SidecarBox(s)], IntentsOf(a))
  <2> TAKE a \in Clients
  <2> DEFINE b == inbox[SidecarBox(s)]
             h == HopTo(q)
  <2>1. b \in Seq(SidecarMail(s)) /\ h \in SidecarMail(s)
    BY <1>1, <1>2 DEF Types, Mailboxes, SidecarMail
  <2>2. h \notin IntentsOf(a)
    BY <1>2 DEF Ingested, IntentsOf
  <2>3. Count(b, IntentsOf(a)) \in Nat
    BY <2>1, CountFinite
  <2> HIDE DEF b, h
  <2>4. Count(Append(b, h), IntentsOf(a)) = Count(b, IntentsOf(a)) + IF h \in IntentsOf(a) THEN 1 ELSE 0
    BY <2>1, CountPushBack
  <2>5. inbox'[SidecarBox(s)] = Append(b, h) \/ inbox'[SidecarBox(s)] = b
    BY <1>1 DEF EdgeEnters, b, h
  <2>6. Count(inbox'[SidecarBox(s)], IntentsOf(a)) = Count(b, IntentsOf(a))
    <3>1. CASE inbox'[SidecarBox(s)] = Append(b, h)
      BY ONLY <2>2, <2>3, <2>4, <3>1
    <3> QED
      BY <2>5, <3>1
  <2> QED
    BY <2>6 DEF b
<1>4. UNCHANGED <<config, client, sidecar>>
  BY DEF EdgeEnters
<1>5. \A a \in Clients : inbox'[ClientBox(a)] = inbox[ClientBox(a)]
  BY DEF EdgeEnters
<1>6. \A o \in Sidecars \ {s} : inbox'[SidecarBox(o)] = inbox[SidecarBox(o)]
  BY DEF EdgeEnters
<1> QED
  BY <1>1, <1>3, <1>4, <1>5, <1>6, TurnsQuietly

LEMMA BesidesTurns ==
  ASSUME Types, Besides
  PROVE  \E d : Turns(d)
<1>1. PICK d : d \in Sidecars
  BY SidecarsFinite
<1>2. Turns(d)
  BY <1>1, TurnsQuietly DEF Besides
<1> QED
  BY <1>2

LEMMA CallQueuedTurns ==
  ASSUME Types, NEW c \in Clients, NEW q, NEW s, CallQueued(c, q, s)
  PROVE  s \in Sidecars /\ Turns(s)
<1> DEFINE m == [kind |-> "intent", client |-> c, task |-> q]
           b == inbox[SidecarBox(s)]
<1>1. s \in Sidecars /\ q \in Calls
  BY DEF CallQueued
<1>2. b \in Seq(SidecarMail(s)) /\ m \in SidecarMail(s)
  <2>1. m \in Intents
    BY <1>1 DEF Intents
  <2> QED
    BY <1>1, <2>1 DEF Types, Mailboxes, SidecarMail
<1>3. inbox'[SidecarBox(s)] = Append(b, m)
  BY DEF CallQueued
<1>4. \A a \in Clients : m \in IntentsOf(a) <=> a = c
  BY <1>1 DEF IntentsOf
<1> HIDE DEF m, b
<1>5. \A a \in Clients : /\ Count(inbox'[SidecarBox(s)], IntentsOf(a)) = Count(b, IntentsOf(a)) + OneIf(a = c)
                         /\ Count(b, IntentsOf(a)) \in Nat
  <2> TAKE a \in Clients
  <2>1. Count(Append(b, m), IntentsOf(a)) = Count(b, IntentsOf(a)) + IF m \in IntentsOf(a) THEN 1 ELSE 0
    BY <1>2, CountPushBack
  <2>2. Count(b, IntentsOf(a)) \in Nat
    BY <1>2, CountFinite
  <2> QED
    BY <1>3, <1>4, <2>1, <2>2 DEF OneIf
<1>6. UNCHANGED <<config, sidecar>> /\ \A a \in Clients : inbox'[ClientBox(a)] = inbox[ClientBox(a)]
  BY DEF CallQueued
<1>7. \A o \in Sidecars \ {s} : inbox'[SidecarBox(o)] = inbox[SidecarBox(o)]
  BY DEF CallQueued
<1>8. ASSUME NEW a \in Clients
      PROVE  /\ Len(client'[a].queue) = Len(client[a].queue) + OneIf(a = c)
             /\ client'[a].pull_intent_load[s] = client[a].pull_intent_load[s] + OneIf(a = c)
             /\ \A o \in Sidecars \ {s} : client'[a].pull_intent_load[o] = client[a].pull_intent_load[o]
  <2>1. client[a].pull_intent_load \in [Sidecars -> Nat] /\ Len(client[a].queue) \in Nat
    BY DEF Types, ClientState
  <2>2. CASE a = c
    <3>1. client'[a].pull_intent_load = [client[a].pull_intent_load EXCEPT ![s] = @ + 1]
          /\ Len(client'[a].queue) = Len(client[a].queue) + 1
      BY <2>2 DEF CallQueued
    <3> QED
      BY <1>1, <2>1, <2>2, <3>1 DEF OneIf
  <2>3. CASE a # c
    <3>1. client'[a] = client[a]
      BY <2>3 DEF CallQueued
    <3>2. client[a].pull_intent_load[s] \in Nat
      BY <1>1, <2>1
    <3> QED
      BY <2>1, <2>3, <3>1, <3>2 DEF OneIf
  <2> QED
    BY <2>2, <2>3
<1>9. ASSUME NEW a \in Clients
      PROVE  Alike(a, s)
  <2>1. PICK k \in Nat : k = Count(b, IntentsOf(a))
    BY <1>5
  <2>2. PICK j \in Nat, p \in Nat, l \in Nat, w \in Nat :
          /\ j = Count(sidecar[s].pull_intents, IntentsOf(a)) /\ p = Len(client[a].queue)
          /\ l = client[a].pull_intent_load[s] /\ w = Len(inbox[ClientBox(a)])
    <3>1. Numbers(client, sidecar, inbox, a, s)
      BY <1>1, IntentNumbers
    <3> QED
      BY <3>1 DEF Numbers
  <2>3. PICK i \in Nat : i = OneIf(a = c)
    BY DEF OneIf
  <2>4. PICK z \in Nat : z = Count(inbox[ClientBox(a)], Answers(s))
    <3>1. Numbers(client, sidecar, inbox, a, s)
      BY <1>1, IntentNumbers
    <3> QED
      BY <3>1 DEF Numbers
  <2>5. Unanswered(inbox, sidecar, a, s) = k + j /\ Unanswered(inbox', sidecar', a, s) = (k + i) + j
    BY <1>5, <1>6, <2>1, <2>2, <2>3 DEF Unanswered, b
  <2>6. Len(client'[a].queue) = p + i /\ client'[a].pull_intent_load[s] = l + i
    BY <1>8, <2>2, <2>3
  <2>7. (p + i) + (k + j) + w = p + ((k + i) + j) + w /\ (l + i) + (k + j) + z = l + ((k + i) + j) + z
    <3>1. (p + i) + (k + j) + w = p + ((k + i) + j) + w
      OBVIOUS
    <3>2. (l + i) + (k + j) + z = l + ((k + i) + j) + z
      OBVIOUS
    <3> QED
      BY ONLY <3>1, <3>2
  <2>8. Len(inbox'[ClientBox(a)]) = w /\ Count(inbox'[ClientBox(a)], Answers(s)) = z
    BY <1>6, <2>2, <2>4
  <2>9. Len(client'[a].queue) + Unanswered(inbox, sidecar, a, s) + Len(inbox[ClientBox(a)])
       = Len(client[a].queue) + Unanswered(inbox', sidecar', a, s) + Len(inbox'[ClientBox(a)])
    BY ONLY <2>2, <2>5, <2>6, <2>7, <2>8
  <2>10. client'[a].pull_intent_load[s] + Unanswered(inbox, sidecar, a, s) + Count(inbox[ClientBox(a)], Answers(s))
       = client[a].pull_intent_load[s] + Unanswered(inbox', sidecar', a, s) + Count(inbox'[ClientBox(a)], Answers(s))
    BY ONLY <2>2, <2>4, <2>5, <2>6, <2>7, <2>8
  <2>11. \A o \in Sidecars \ {s} :
           /\ client'[a].pull_intent_load[o] = client[a].pull_intent_load[o]
           /\ Count(inbox'[ClientBox(a)], Answers(o)) = Count(inbox[ClientBox(a)], Answers(o))
    BY <1>6, <1>8
  <2> QED
    BY ONLY <2>9, <2>10, <2>11 DEF Alike
<1> QED
  BY <1>1, <1>6, <1>7, <1>9 DEF Turns

(* The mail of a client is pulls. *)
LEMMA FetchesTurns ==
  ASSUME Types, IntentLoads, NEW c \in Clients, NEW m, NEW i, Fetches(c, m, i)
  PROVE  m.target \in Sidecars /\ Turns(m.target)
<1> DEFINE d == m.target
           b == inbox[ClientBox(c)]
           l == client[c].queue
<1>1. d \in Sidecars /\ m \in PullMail
  BY FetchesReceiving DEF Fetches
<1>2. b \in Seq(PullMail) /\ b # <<>> /\ m = Head(b) /\ inbox'[ClientBox(c)] = Tail(b)
  BY DEF Types, Mailboxes, Fetches
<1>3. \A o \in Sidecars : m \in Answers(o) <=> o = d
  BY <1>1 DEF PullMail, Answers
<1>4. \A o \in Sidecars : /\ Count(b, Answers(o)) = Count(Tail(b), Answers(o)) + OneIf(o = d)
                          /\ Count(Tail(b), Answers(o)) \in Nat
  <2> TAKE o \in Sidecars
  <2> HIDE DEF b, d
  <2>1. Count(b, Answers(o)) = Count(Tail(b), Answers(o)) + IF Head(b) \in Answers(o) THEN 1 ELSE 0
    BY <1>2, CountPopFront
  <2>2. Count(Tail(b), Answers(o)) \in Nat
    <3>1. Tail(b) \in Seq(PullMail)
      BY <1>2
    <3> QED
      BY <3>1, CountFinite
  <2> QED
    BY <1>2, <1>3, <2>1, <2>2 DEF OneIf
<1>5. Len(Tail(b)) + 1 = Len(b) /\ Len(Tail(b)) \in Nat
  BY <1>2
<1>6. /\ l \in Seq([task : Calls]) /\ i \in DOMAIN l /\ client'[c].queue = RemoveAt(l, i)
      /\ client[c].pull_intent_load \in [Sidecars -> Nat]
      /\ client'[c].pull_intent_load = [client[c].pull_intent_load EXCEPT ![d] = SaturatingDec(@)]
  BY DEF Types, ClientState, Fetches
<1>7. Len(client'[c].queue) + 1 = Len(l) /\ Len(client'[c].queue) \in Nat
  <2> HIDE DEF l
  <2>1. Len(RemoveAt(l, i)) = Len(l) - 1 /\ Len(l) \in Nat /\ Len(l) >= 1
    BY <1>6, RemoveAtProperties
  <2> QED
    BY <1>6, <2>1
<1>8. UNCHANGED <<config, sidecar>> /\ \A o \in Sidecars : inbox'[SidecarBox(o)] = inbox[SidecarBox(o)]
  BY DEF Fetches
<1>9. \A a \in Clients \ {c} : client'[a] = client[a] /\ inbox'[ClientBox(a)] = inbox[ClientBox(a)]
  BY DEF Fetches
<1> HIDE DEF d, b, l
<1>10. \A a \in Clients : Unanswered(inbox', sidecar', a, d) = Unanswered(inbox, sidecar, a, d)
  BY <1>1, <1>8 DEF Unanswered
<1>11. Alike(c, d)
  <2>1. Numbers(client, sidecar, inbox, c, d)
    BY <1>1, IntentNumbers
  <2>2. PICK n \in Nat, k \in Nat : n = client[c].pull_intent_load[d] /\ k = Unanswered(inbox, sidecar, c, d)
    BY <2>1 DEF Numbers
  <2>3. PICK z \in Nat : z = Count(Tail(b), Answers(d)) /\ Count(b, Answers(d)) = z + 1
    BY <1>1, <1>4 DEF OneIf
  <2>4. n = k + (z + 1)
    BY <1>1, <2>2, <2>3 DEF IntentLoads, b
  <2>5. client'[c].pull_intent_load[d] = n - 1 /\ n # 0
    <3>1. n # 0
      BY ONLY <2>2, <2>3, <2>4
    <3>2. client'[c].pull_intent_load[d] = SaturatingDec(n)
      BY <1>1, <1>6, <2>2
    <3> QED
      BY ONLY <3>1, <3>2 DEF SaturatingDec
  <2>6. PICK p \in Nat, w \in Nat : /\ p = Len(client'[c].queue) /\ Len(client[c].queue) = p + 1
                                    /\ w = Len(Tail(b)) /\ Len(b) = w + 1
    BY <1>5, <1>7 DEF l
  <2>7. p + k + (w + 1) = (p + 1) + k + w /\ (n - 1) + k + (z + 1) = n + k + z
    <3>1. p \in Nat /\ w \in Nat /\ n \in Nat /\ k \in Nat /\ z \in Nat
      OBVIOUS
    <3> QED
      BY ONLY <3>1
  <2>8. Len(client'[c].queue) + Unanswered(inbox, sidecar, c, d) + Len(inbox[ClientBox(c)])
       = Len(client[c].queue) + Unanswered(inbox', sidecar', c, d) + Len(inbox'[ClientBox(c)])
    <3>1. Unanswered(inbox', sidecar', c, d) = k /\ inbox[ClientBox(c)] = b /\ inbox'[ClientBox(c)] = Tail(b)
      BY <1>2, <1>10, <2>2 DEF b
    <3> QED
      BY ONLY <2>2, <2>6, <2>7, <3>1
  <2>9. client'[c].pull_intent_load[d] + Unanswered(inbox, sidecar, c, d) + Count(inbox[ClientBox(c)], Answers(d))
       = client[c].pull_intent_load[d] + Unanswered(inbox', sidecar', c, d) + Count(inbox'[ClientBox(c)], Answers(d))
    <3>1. Unanswered(inbox', sidecar', c, d) = k /\ inbox[ClientBox(c)] = b /\ inbox'[ClientBox(c)] = Tail(b)
      BY <1>2, <1>10, <2>2 DEF b
    <3> QED
      BY ONLY <2>2, <2>3, <2>5, <2>7, <3>1
  <2>10. \A o \in Sidecars \ {d} :
           /\ client'[c].pull_intent_load[o] = client[c].pull_intent_load[o]
           /\ Count(inbox'[ClientBox(c)], Answers(o)) = Count(inbox[ClientBox(c)], Answers(o))
    <3> TAKE o \in Sidecars \ {d}
    <3>1. client'[c].pull_intent_load[o] = client[c].pull_intent_load[o]
      BY <1>1, <1>6
    <3>2. Count(b, Answers(o)) = Count(Tail(b), Answers(o))
      BY <1>4 DEF OneIf
    <3> QED
      BY <1>2, <3>1, <3>2 DEF b
  <2> QED
    BY ONLY <2>8, <2>9, <2>10 DEF Alike
<1>12. ASSUME NEW a \in Clients
       PROVE  Alike(a, d)
  <2>1. CASE a # c
    <3>1. client'[a] = client[a] /\ inbox'[ClientBox(a)] = inbox[ClientBox(a)]
      BY <1>9, <2>1
    <3> QED
      BY <1>10, <3>1 DEF Alike
  <2> QED
    BY <1>11, <2>1
<1>13. Turns(d)
  BY <1>1, <1>8, <1>12 DEF Turns
<1> QED
  BY <1>1, <1>13 DEF d

-----------------------------------------------------------------------------
(***************************************************************************)
(* A sidecar that becomes u answers an intent or keeps it.  It keeps one   *)
(* only if no replica has a slot to offer, or will report next.            *)
(***************************************************************************)
Asks(s, u) ==
  \A c \in Clients :
    /\ \A T \in {Answers(s), PullMail} :
         Count(Tail(inbox[SidecarBox(s)]), IntentsOf(c)) + Count(u.pull_intents, IntentsOf(c))
           + Count(u.out, SentTo(c, T)) = Unanswered(inbox, sidecar, c, s)
    /\ \A o \in Sidecars \ {s} : Count(u.out, SentTo(c, Answers(o))) = 0

Reporting(b, r) == b # <<>> /\ Head(b) \in Reports(r)

Rests(s, u) ==
  u.pull_intents # <<>> =>
    \A r \in Members(s) : FreeSlots(u, r) = 0 \/ Reporting(Tail(inbox[SidecarBox(s)]), r)

Kept ==
  \A s \in Sidecars :
    sidecar[s].pull_intents # <<>> =>
      \A r \in Members(s) : FreeSlots(sidecar[s], r) = 0 \/ Reporting(inbox[SidecarBox(s)], r)

(* w has the first message, if it is an intent. *)
HasNext(s, w) ==
  /\ w \in Draining(s) /\ w.out = <<>>
  /\ \A c \in Clients : Count(w.pull_intents, IntentsOf(c)) =
       Count(sidecar[s].pull_intents, IntentsOf(c)) + OneIf(Head(inbox[SidecarBox(s)]) \in IntentsOf(c))

LEMMA DrainedAsks ==
  ASSUME Types, NEW s \in Sidecars, inbox[SidecarBox(s)] # <<>>, NEW w, HasNext(s, w),
         NEW u, Drained(s, w, u)
  PROVE  Asks(s, u)
<1> SUFFICES ASSUME NEW c \in Clients
             PROVE  /\ \A T \in {Answers(s), PullMail} :
                         Count(Tail(inbox[SidecarBox(s)]), IntentsOf(c)) + Count(u.pull_intents, IntentsOf(c))
                           + Count(u.out, SentTo(c, T)) = Unanswered(inbox, sidecar, c, s)
                    /\ \A o \in Sidecars \ {s} : Count(u.out, SentTo(c, Answers(o))) = 0
  BY DEF Asks
<1> DEFINE b == inbox[SidecarBox(s)]
           I == IntentsOf(c)
<1>1. b \in Seq(SidecarMail(s)) /\ b # <<>>
  BY DEF Types, Mailboxes
<1>2. Numbers(client, sidecar, inbox, c, s)
  BY IntentNumbers
<1>3. Count(b, I) = Count(Tail(b), I) + OneIf(Head(b) \in I) /\ Count(Tail(b), I) \in Nat
  <2> HIDE DEF b, I
  <2>1. Count(b, I) = Count(Tail(b), I) + IF Head(b) \in I THEN 1 ELSE 0
    BY <1>1, CountPopFront
  <2>2. Tail(b) \in Seq(SidecarMail(s))
    BY <1>1
  <2>3. Count(Tail(b), I) \in Nat
    BY <2>2, CountFinite
  <2> QED
    BY <2>1, <2>3 DEF OneIf
<1>4. Count(w.pull_intents, I) = Count(sidecar[s].pull_intents, I) + OneIf(Head(b) \in I)
  BY DEF HasNext
<1>5. \A T : Count(w.out, SentTo(c, T)) = 0
  BY CountEmpty DEF HasNext
<1>6. ASSUME NEW T \in {Answers(s), PullMail}
      PROVE  Count(Tail(b), I) + Count(u.pull_intents, I) + Count(u.out, SentTo(c, T)) = Unanswered(inbox, sidecar, c, s)
  <2>1. Count(u.pull_intents, I) + Count(u.out, SentTo(c, T)) = Count(w.pull_intents, I) + Count(w.out, SentTo(c, T))
    BY DEF Drained
  <2>2. Count(u.pull_intents, I) \in Nat /\ Count(u.out, SentTo(c, T)) \in Nat
    <3>1. u \in Draining(s)
      BY DEF Drained
    <3> QED
      BY <3>1, DrainingCounts
  <2>3. Count(sidecar[s].pull_intents, I) \in Nat /\ Count(b, I) \in Nat
    BY <1>2 DEF Numbers
  <2>4. OneIf(Head(b) \in I) \in Nat
    BY DEF OneIf
  <2>5. Unanswered(inbox, sidecar, c, s) = Count(b, I) + Count(sidecar[s].pull_intents, I)
    BY DEF Unanswered
  <2>6. Count(w.out, SentTo(c, T)) = 0
    BY <1>5
  <2> HIDE DEF b, I
  <2> QED
    BY ONLY <1>3, <1>4, <2>1, <2>2, <2>3, <2>4, <2>5, <2>6
<1>7. \A o \in Sidecars \ {s} : Count(u.out, SentTo(c, Answers(o))) = 0
  BY <1>5 DEF Drained
<1> QED
  BY <1>6, <1>7

LEMMA ReceivePullIntentAnswers ==
  ASSUME Types, NEW s \in Sidecars, ReceivePullIntent(s)
  PROVE  \E u : Told(s, u) /\ Asks(s, u) /\ Rests(s, u)
<1>1. PICK w \in Draining(s) :
           /\ Told(s, DrainIdle(w, s)) /\ Head(inbox[SidecarBox(s)]) \in Intents
           /\ w.out = <<>>
           /\ \A T : Count(w.pull_intents, T) = Count(sidecar[s].pull_intents, T)
                       + IF Head(inbox[SidecarBox(s)]) \in T THEN 1 ELSE 0
  BY ReceivePullIntentTells
<1>2. PICK u : u = DrainIdle(w, s)
  OBVIOUS
<1>3. Drained(s, w, u) /\ Spent(u, Members(s))
  <2>1. config \in [share : Shares, pull_sched : Scheds, scheduling : Schedulings]
    BY DEF Types
  <2> QED
    BY <1>2, <2>1, DrainIdleDrains
<1>4. HasNext(s, w)
  <2>1. \A c \in Clients : Count(w.pull_intents, IntentsOf(c)) =
          Count(sidecar[s].pull_intents, IntentsOf(c)) + OneIf(Head(inbox[SidecarBox(s)]) \in IntentsOf(c))
    BY <1>1 DEF OneIf
  <2> QED
    BY <1>1, <2>1 DEF HasNext
<1>5. inbox[SidecarBox(s)] # <<>>
  BY <1>1 DEF Told
<1>6. Asks(s, u)
  BY <1>3, <1>4, <1>5, DrainedAsks
<1>7. Rests(s, u)
  BY <1>3 DEF Rests, Spent
<1> QED
  BY <1>1, <1>2, <1>6, <1>7

(* A replica that neither reports nor is offered to *)
LEMMA OthersRest ==
  ASSUME Kept, NEW s \in Sidecars, NEW u, NEW r \in Members(s),
         sidecar[s].pull_intents # <<>>, ~Reporting(inbox[SidecarBox(s)], r),
         u.occupancy[r] = sidecar[s].occupancy[r], u.pending_pulls[r] = sidecar[s].pending_pulls[r]
  PROVE  FreeSlots(u, r) = 0
<1>1. FreeSlots(sidecar[s], r) = 0
  BY DEF Kept
<1> QED
  BY <1>1 DEF FreeSlots

LEMMA ReportedAnswers ==
  ASSUME Types, Kept, NEW s \in Sidecars, inbox[SidecarBox(s)] # <<>>,
         NEW m, m = Head(inbox[SidecarBox(s)]), m.kind \in {"completed", "occupancy"},
         NEW w, w = IF m.kind = "occupancy" THEN [sidecar[s] EXCEPT !.occupancy[m.server] = m.level]
                    ELSE sidecar[s],
         SidecarBecomes(s, DrainCapacity(w, m.server))
  PROVE  \E u : Told(s, u) /\ Asks(s, u) /\ Rests(s, u)
<1>1. PICK k : k = m.server
  OBVIOUS
<1>2. PICK u : u = DrainCapacity(w, k)
  OBVIOUS
<1>3. /\ Told(s, u) /\ w \in Draining(s) /\ k \in Members(s)
      /\ m \in Completions(k) \cup Reports(k)
      /\ w.pending_pulls = sidecar[s].pending_pulls /\ w.pull_intents = sidecar[s].pull_intents
      /\ w.out = <<>>
      /\ \A r \in Members(s) \ {k} : w.occupancy[r] = sidecar[s].occupancy[r]
  <2>1. /\ Types /\ inbox[SidecarBox(s)] # <<>> /\ m = Head(inbox[SidecarBox(s)])
        /\ m.kind \in {"completed", "occupancy"} /\ SidecarBecomes(s, DrainCapacity(w, m.server))
    OBVIOUS
  <2>2. w = IF m.kind = "occupancy" THEN [sidecar[s] EXCEPT !.occupancy[m.server] = m.level] ELSE sidecar[s]
    OBVIOUS
  <2>3. Told(s, DrainCapacity(w, m.server)) /\ ByReport(s, m, w)
    BY ONLY <2>1, <2>2, ReportedTells
  <2> QED
    BY ONLY <1>1, <1>2, <2>3 DEF ByReport
<1>31. /\ Drained(s, w, u)
       /\ u.pull_intents # <<>> => w.pull_intents # <<>> /\ FreeSlots(u, k) = 0
       /\ \A o \in Members(s) \ {k} : u.pending_pulls[o] = w.pending_pulls[o]
  <2>1. config \in [share : Shares, pull_sched : Scheds, scheduling : Schedulings]
    BY DEF Types
  <2>2. /\ Drained(s, w, DrainCapacity(w, k))
        /\ DrainCapacity(w, k).pull_intents # <<>> =>
             w.pull_intents # <<>> /\ FreeSlots(DrainCapacity(w, k), k) = 0
        /\ \A o \in Members(s) \ {k} : DrainCapacity(w, k).pending_pulls[o] = w.pending_pulls[o]
    BY ONLY <1>3, <2>1, DrainCapacityDrains
  <2> QED
    BY ONLY <1>2, <2>2
<1>4. HasNext(s, w)
  <2>1. \A c \in Clients : m \notin IntentsOf(c)
    BY <1>3 DEF Completions, Reports, IntentsOf
  <2>2. ASSUME NEW c \in Clients
        PROVE  Count(w.pull_intents, IntentsOf(c)) = Count(sidecar[s].pull_intents, IntentsOf(c)) + OneIf(m \in IntentsOf(c))
    <3>1. Numbers(client, sidecar, inbox, c, s)
      BY IntentNumbers
    <3> QED
      BY <1>3, <2>1, <3>1 DEF Numbers, OneIf
  <2> QED
    BY <1>3, <2>2 DEF HasNext
<1>5. Asks(s, u)
  BY <1>31, <1>4, DrainedAsks
<1>6. Rests(s, u)
  <2> SUFFICES ASSUME u.pull_intents # <<>>, NEW r \in Members(s)
               PROVE  FreeSlots(u, r) = 0
    BY DEF Rests
  <2>1. CASE r = k
    BY <1>31, <2>1
  <2>2. CASE r # k
    <3>1. u.occupancy[r] = sidecar[s].occupancy[r] /\ u.pending_pulls[r] = sidecar[s].pending_pulls[r]
      BY <1>3, <1>31, <2>2 DEF Drained
    <3>2. sidecar[s].pull_intents # <<>>
      BY <1>3, <1>31
    <3>3. ~Reporting(inbox[SidecarBox(s)], r)
      BY <1>3, <2>2 DEF Reporting, Completions, Reports
    <3> QED
      BY <3>1, <3>2, <3>3, OthersRest
  <2> QED
    BY <2>1, <2>2
<1> QED
  BY <1>3, <1>5, <1>6

LEMMA ArrivedAnswers ==
  ASSUME PullInv, Kept, NEW s \in Sidecars, inbox[SidecarBox(s)] # <<>>,
         NEW m, m = Head(inbox[SidecarBox(s)]), m.kind = "pull_arrived",
         sidecar' = [sidecar EXCEPT ![s].pending_pulls[m.server] = SaturatingDec(@)],
         inbox' = Rest(SidecarBox(s)), UNCHANGED <<config, arrived, client, replica, edge>>
  PROVE  \E u : Told(s, u) /\ Asks(s, u) /\ Rests(s, u)
<1> DEFINE b == inbox[SidecarBox(s)]
<1>1. PICK k : k = m.server
  OBVIOUS
<1>2. PICK u : /\ Told(s, u) /\ k \in Members(s) /\ m \in Arrivals(k)
               /\ u.pull_intents = sidecar[s].pull_intents /\ u.occupancy = sidecar[s].occupancy
               /\ u.out = <<>>
               /\ \A r \in Members(s) \ {k} : u.pending_pulls[r] = sidecar[s].pending_pulls[r]
  <2>1. /\ PullInv /\ inbox[SidecarBox(s)] # <<>> /\ m = Head(inbox[SidecarBox(s)]) /\ m.kind = "pull_arrived"
        /\ sidecar' = [sidecar EXCEPT ![s].pending_pulls[m.server] = SaturatingDec(@)]
        /\ inbox' = Rest(SidecarBox(s)) /\ UNCHANGED <<config, arrived, client, replica, edge>>
    OBVIOUS
  <2>2. PICK u : ByArrival(s, m, u)
    BY ONLY <2>1, ArrivedTells
  <2> QED
    BY ONLY <1>1, <2>2 DEF ByArrival
<1>3. Types /\ Reported
  BY DEF PullInv
<1>4. u \in Draining(s)
  BY <1>2 DEF Told, Hears
<1>5. HasNext(s, u)
  <2> SUFFICES ASSUME NEW c \in Clients
               PROVE  Count(u.pull_intents, IntentsOf(c)) =
                        Count(sidecar[s].pull_intents, IntentsOf(c)) + OneIf(m \in IntentsOf(c))
    BY <1>2, <1>4 DEF HasNext
  <2>1. m \notin IntentsOf(c)
    BY <1>2 DEF Arrivals, IntentsOf
  <2>2. Numbers(client, sidecar, inbox, c, s)
    BY <1>3, IntentNumbers
  <2> QED
    BY <1>2, <2>1, <2>2 DEF Numbers, OneIf
<1>6. Asks(s, u)
  BY <1>3, <1>4, <1>5, DrainedItself, DrainedAsks
<1>7. Rests(s, u)
  <2> SUFFICES ASSUME u.pull_intents # <<>>, NEW r \in Members(s)
               PROVE  FreeSlots(u, r) = 0 \/ Reporting(Tail(b), r)
    BY DEF Rests
  <2>1. CASE r = k
    <3>1. r \in Replicas /\ SidecarId(r) = s
      BY DEF Members
    <3>2. HeardOf(EventsOf(r), r, OccOf(r), inbox[ReplicaBox(r)], replica[r]) /\ EventsOf(r) = b
      BY <1>3, <3>1 DEF Reported, EventsOf
    <3>3. Paired(b, r)
      BY <3>2 DEF HeardOf, Heard
    <3>4. b \in Seq(SidecarMail(s)) /\ b # <<>>
      BY <1>3 DEF Types, Mailboxes
    <3>5. 1 \in DOMAIN b /\ b[1] = m
      BY <3>4
    <3>6. b[1] \in Arrivals(r)
      BY <1>2, <2>1, <3>5
    <3>7. 2 \in DOMAIN b /\ b[2] \in Reports(r)
      <4> HIDE DEF b
      <4>1. 1 + 1 \in DOMAIN b /\ b[1 + 1] \in Reports(r)
        BY <3>3, <3>5, <3>6 DEF Paired
      <4> QED
        BY <4>1
    <3> HIDE DEF b
    <3>8. Tail(b) # <<>> /\ Head(Tail(b)) = b[2]
      <4>1. 2 \in DOMAIN b
        BY <3>7
      <4>2. /\ \A i \in DOMAIN b : i = 1 \/ (i - 1 \in DOMAIN Tail(b) /\ b[i] = Tail(b)[i - 1])
            /\ Tail(b) \in Seq(SidecarMail(s))
        BY <3>4, PopFront
      <4>3. 2 - 1 \in DOMAIN Tail(b) /\ b[2] = Tail(b)[2 - 1]
        BY <4>1, <4>2
      <4>4. 1 \in DOMAIN Tail(b) /\ b[2] = Tail(b)[1]
        BY ONLY <4>3
      <4>5. PICK c : c = Tail(b)
        OBVIOUS
      <4>6. c # <<>> /\ Head(c) = c[1]
        BY <4>2, <4>4, <4>5
      <4> QED
        BY <4>4, <4>5, <4>6
    <3> QED
      BY <3>7, <3>8 DEF Reporting
  <2>2. CASE r # k
    <3>1. u.occupancy[r] = sidecar[s].occupancy[r] /\ u.pending_pulls[r] = sidecar[s].pending_pulls[r]
      BY <1>2, <2>2
    <3>2. sidecar[s].pull_intents # <<>>
      BY <1>2
    <3>3. ~Reporting(inbox[SidecarBox(s)], r)
      BY <1>2 DEF Reporting, Arrivals, Reports
    <3> QED
      BY <3>1, <3>2, <3>3, OthersRest
  <2> QED
    BY <2>1, <2>2
<1> QED
  BY <1>2, <1>6, <1>7

LEMMA CapacityEventAnswers ==
  ASSUME PullInv, Kept, NEW s \in Sidecars, CapacityEvent(s)
  PROVE  \E u : Told(s, u) /\ Asks(s, u) /\ Rests(s, u)
<1> DEFINE m == Head(inbox[SidecarBox(s)])
           v == sidecar[s]
<1>1. Types
  BY DEF PullInv
<1>2. CASE /\ Receives(SidecarBox(s), {"pull_arrived"})
           /\ sidecar' = [sidecar EXCEPT ![s].pending_pulls[m.server] = SaturatingDec(@)]
           /\ inbox' = Rest(SidecarBox(s))
           /\ UNCHANGED <<config, arrived, client, replica, edge>>
  <2>1. inbox[SidecarBox(s)] # <<>> /\ m.kind = "pull_arrived"
    BY <1>2 DEF Receives
  <2> QED
    BY <1>2, <2>1, ArrivedAnswers
<1>3. CASE Receives(SidecarBox(s), {"completed"}) /\ SidecarBecomes(s, DrainCapacity(v, m.server))
  <2>1. inbox[SidecarBox(s)] # <<>> /\ m.kind = "completed"
    BY <1>3 DEF Receives
  <2>2. v = IF m.kind = "occupancy" THEN [v EXCEPT !.occupancy[m.server] = m.level] ELSE v
    BY <2>1
  <2> HIDE DEF v
  <2>3. SidecarBecomes(s, DrainCapacity(v, m.server))
    BY <1>3
  <2> QED
    BY <1>1, <2>1, <2>2, <2>3, ReportedAnswers DEF v
<1>4. CASE Receives(SidecarBox(s), {"occupancy"}) /\ SidecarBecomes(s, OccupancyReported(v, m))
  <2>1. inbox[SidecarBox(s)] # <<>> /\ m.kind = "occupancy"
    BY <1>4 DEF Receives
  <2>2. PICK w : w = [v EXCEPT !.occupancy[m.server] = m.level]
    OBVIOUS
  <2>3. w = IF m.kind = "occupancy" THEN [sidecar[s] EXCEPT !.occupancy[m.server] = m.level] ELSE sidecar[s]
    BY <2>1, <2>2
  <2>4. SidecarBecomes(s, DrainCapacity(w, m.server))
    BY <1>4, <2>2 DEF OccupancyReported
  <2>5. Kept /\ m.kind \in {"completed", "occupancy"}
    BY <2>1
  <2> QED
    BY ONLY <1>1, <2>1, <2>3, <2>4, <2>5, ReportedAnswers
<1> QED
  BY <1>2, <1>3, <1>4 DEF CapacityEvent

LEMMA ToldTurns ==
  ASSUME Types, NEW s \in Sidecars, NEW u, Told(s, u), Asks(s, u)
  PROVE  Turns(s)
<1>1. Taken(s, u)
  BY DEF Told
<1>2. /\ sidecar'[s].pull_intents = u.pull_intents
      /\ \A o \in Sidecars \ {s} : sidecar'[o] = sidecar[o]
  BY ToldIs
<1>3. ASSUME NEW c \in Clients
      PROVE  Alike(c, s)
  <2>1. Numbers(client, sidecar, inbox, c, s) /\ client'[c] = client[c]
    BY <1>1, IntentNumbers DEF Taken
  <2>2. inbox[ClientBox(c)] \in Seq(PullMail) /\ inbox'[ClientBox(c)] \in Seq(PullMail)
    BY <1>1 DEF Types, Mailboxes, Taken, MailOf
  <2>3. Len(inbox[ClientBox(c)]) = Count(inbox[ClientBox(c)], PullMail)
        /\ Len(inbox'[ClientBox(c)]) = Count(inbox'[ClientBox(c)], PullMail)
    BY <2>2, CountAll
  <2>4. \A T : Count(inbox'[ClientBox(c)], T) = Count(inbox[ClientBox(c)], T) + Count(u.out, SentTo(c, T))
    BY <1>1 DEF Taken
  <2>5. u \in Draining(s)
    BY DEF Told, Hears
  <2>6. PICK a, x, y, n :
             /\ a = Count(inbox'[SidecarBox(s)], IntentsOf(c)) /\ x = Count(u.pull_intents, IntentsOf(c))
             /\ y = Count(u.out, SentTo(c, Answers(s))) /\ n = Count(u.out, SentTo(c, PullMail))
    OBVIOUS
  <2>7. x \in Nat /\ y \in Nat /\ n \in Nat
    BY <2>5, <2>6, DrainingCounts
  <2>8. a \in Nat
    <3>1. inbox[SidecarBox(s)] \in Seq(SidecarMail(s)) /\ inbox[SidecarBox(s)] # <<>>
          /\ inbox'[SidecarBox(s)] = Tail(inbox[SidecarBox(s)])
      BY <1>1 DEF Types, Mailboxes, Taken, Told
    <3>2. inbox'[SidecarBox(s)] \in Seq(SidecarMail(s))
      BY <3>1
    <3> QED
      BY <2>6, <3>2, CountFinite
  <2>9. /\ a + x + y = Unanswered(inbox, sidecar, c, s) /\ a + x + n = Unanswered(inbox, sidecar, c, s)
        /\ \A o \in Sidecars \ {s} : Count(u.out, SentTo(c, Answers(o))) = 0
    BY <1>1, <2>6 DEF Asks, Taken
  <2>10. Unanswered(inbox', sidecar', c, s) = a + x
    BY <1>2, <2>6 DEF Unanswered
  <2>11. /\ Count(inbox'[ClientBox(c)], Answers(s)) = Count(inbox[ClientBox(c)], Answers(s)) + y
         /\ Len(inbox'[ClientBox(c)]) = Len(inbox[ClientBox(c)]) + n
         /\ \A o \in Sidecars \ {s} : Count(inbox'[ClientBox(c)], Answers(o)) = Count(inbox[ClientBox(c)], Answers(o))
    <3>1. \A o : Count(inbox[ClientBox(c)], Answers(o)) \in Nat
      BY <2>2, CountFinite
    <3> QED
      BY <2>3, <2>4, <2>6, <2>9, <3>1
  <2>12. /\ Len(client'[c].queue) + Unanswered(inbox, sidecar, c, s) + Len(inbox[ClientBox(c)])
              = Len(client[c].queue) + Unanswered(inbox', sidecar', c, s) + Len(inbox'[ClientBox(c)])
         /\ client'[c].pull_intent_load[s] + Unanswered(inbox, sidecar, c, s) + Count(inbox[ClientBox(c)], Answers(s))
              = client[c].pull_intent_load[s] + Unanswered(inbox', sidecar', c, s)
                + Count(inbox'[ClientBox(c)], Answers(s))
    <3>1. /\ Len(client[c].queue) \in Nat /\ Len(inbox[ClientBox(c)]) \in Nat
          /\ client[c].pull_intent_load[s] \in Nat
          /\ Count(inbox[ClientBox(c)], Answers(s)) \in Nat /\ Unanswered(inbox, sidecar, c, s) \in Nat
          /\ client'[c] = client[c]
      BY <2>1 DEF Numbers
    <3>2. PICK l, i, j, d, g, h, w, z :
               /\ l = Len(client[c].queue) /\ i = Len(inbox[ClientBox(c)]) /\ j = Len(inbox'[ClientBox(c)])
               /\ d = client[c].pull_intent_load[s]
               /\ g = Count(inbox[ClientBox(c)], Answers(s)) /\ h = Count(inbox'[ClientBox(c)], Answers(s))
               /\ w = Unanswered(inbox, sidecar, c, s) /\ z = Unanswered(inbox', sidecar', c, s)
      OBVIOUS
    <3>3. /\ l \in Nat /\ i \in Nat /\ d \in Nat /\ g \in Nat /\ w \in Nat
          /\ a \in Nat /\ x \in Nat /\ y \in Nat /\ n \in Nat
          /\ z = a + x /\ h = g + y /\ j = i + n /\ a + x + y = w /\ a + x + n = w
      BY <2>7, <2>8, <2>9, <2>10, <2>11, <3>1, <3>2
    <3>4. l + w + i = l + z + j /\ d + w + g = d + z + h
      BY ONLY <3>3
    <3> QED
      BY <3>1, <3>2, <3>4
  <2> QED
    BY <2>1, <2>11, <2>12 DEF Alike
<1> QED
  BY <1>1, <1>2, <1>3 DEF Turns, Taken

LEMMA ToldKept ==
  ASSUME Types, Kept, NEW s \in Sidecars, NEW u, Told(s, u), Rests(s, u)
  PROVE  Kept'
<1>1. Taken(s, u)
  BY DEF Told
<1>2. /\ sidecar'[s].occupancy = u.occupancy /\ sidecar'[s].pending_pulls = u.pending_pulls
      /\ sidecar'[s].pull_intents = u.pull_intents
      /\ \A o \in Sidecars \ {s} : sidecar'[o] = sidecar[o]
  BY ToldIs
<1>3. Sidecars' = Sidecars /\ \A o : Members(o)' = Members(o)
  BY <1>1, SameGroups DEF Taken
<1> SUFFICES ASSUME NEW o \in Sidecars, sidecar'[o].pull_intents # <<>>, NEW r \in Members(o)
             PROVE  FreeSlots(sidecar'[o], r) = 0 \/ Reporting(inbox'[SidecarBox(o)], r)
  BY <1>3 DEF Kept, FreeSlots, FreeBeside, Reporting, Reports
<1>4. CASE o = s
  <2>1. inbox'[SidecarBox(s)] = Tail(inbox[SidecarBox(s)])
    BY <1>1 DEF Taken
  <2>2. FreeSlots(sidecar'[o], r) = FreeSlots(u, r)
    BY <1>2, <1>4 DEF FreeSlots
  <2> QED
    BY <1>2, <1>4, <2>1, <2>2 DEF Rests
<1>5. CASE o # s
  BY <1>1, <1>2, <1>5 DEF Kept, Taken
<1> QED
  BY <1>4, <1>5

(* What is added to a mailbox, or taken that is no report, is not waited for. *)
LEMMA StillReporting ==
  ASSUME NEW M, NEW b \in Seq(M), NEW c, Elsewhere(b, c, M), NEW r, Reporting(b, r)
  PROVE  Reporting(c, r)
<1>1. CASE c = b
  BY <1>1
<1>2. CASE \E e \in M : Aside(e) /\ c = Append(b, e)
  BY <1>2 DEF Reporting
<1>3. CASE b # <<>> /\ Aside(Head(b)) /\ c = Tail(b)
  BY <1>3 DEF Reporting, Aside, Foreign
<1> QED
  BY <1>1, <1>2, <1>3 DEF Elsewhere

LEMMA PassingKept ==
  ASSUME Types, Types', Kept, NEW d, NEW m, Passing(d, m),
         \A s \in Sidecars : sidecar'[s].pull_intents = sidecar[s].pull_intents
  PROVE  Kept'
<1>1. config' = config
  BY DEF Passing, Receiving
<1>2. Sidecars' = Sidecars /\ (\A o : Members(o)' = Members(o)) /\ \A o : SidecarState(o)' = SidecarState(o)
  BY <1>1, SameGroups
<1> SUFFICES ASSUME NEW s \in Sidecars, sidecar'[s].pull_intents # <<>>, NEW r \in Members(s)
             PROVE  FreeSlots(sidecar'[s], r) = 0 \/ Reporting(inbox'[SidecarBox(s)], r)
  BY <1>2 DEF Kept, FreeSlots, FreeBeside, Reporting, Reports
<1>3. CASE Reporting(inbox[SidecarBox(s)], r)
  <2>1. inbox[SidecarBox(s)] \in Seq(SidecarMail(s))
    BY DEF Types, Mailboxes
  <2>2. Elsewhere(inbox[SidecarBox(s)], inbox'[SidecarBox(s)], SidecarMail(s))
    BY DEF Passing
  <2> QED
    BY <1>3, <2>1, <2>2, StillReporting
<1>4. CASE FreeSlots(sidecar[s], r) = 0
  <2>1. r \in Replicas /\ SidecarId(r) = s
    BY DEF Members
  <2>2. sidecar'[s].occupancy[r] >= sidecar[s].occupancy[r] /\ sidecar'[s].pending_pulls = sidecar[s].pending_pulls
    BY <2>1 DEF Passing, OccOf
  <2>3. sidecar[s] \in SidecarState(s) /\ sidecar'[s] \in SidecarState(s)
    BY <1>2 DEF Types
  <2>4. PICK x, y, p : x = sidecar[s].occupancy[r] /\ y = sidecar'[s].occupancy[r] /\ p = sidecar[s].pending_pulls[r]
    OBVIOUS
  <2>5. x \in Nat /\ y \in Nat /\ p \in Nat /\ y >= x
    BY <2>2, <2>3, <2>4 DEF SidecarState
  <2>6. FreeBeside(x + p) = 0
    BY <1>4, <2>4 DEF FreeSlots
  <2>7. FreeBeside(y + p) = 0
    BY ONLY <2>5, <2>6, SidecarAssumption DEF FreeBeside
  <2>8. FreeSlots(sidecar'[s], r) = FreeBeside(y + p)
    BY <2>2, <2>4 DEF FreeSlots
  <2> QED
    BY <2>7, <2>8
<1> QED
  BY <1>3, <1>4 DEF Kept

LEMMA HandlesKept ==
  ASSUME Types, Kept, NEW r \in Replicas, NEW c, NEW u, Handles(r, c, u)
  PROVE  Kept'
<1>1. config' = config /\ sidecar' = sidecar
  BY DEF Handles, Handled
<1>2. Sidecars' = Sidecars /\ \A o : Members(o)' = Members(o)
  BY <1>1, SameGroups
<1> SUFFICES ASSUME NEW s \in Sidecars, sidecar[s].pull_intents # <<>>, NEW o \in Members(s)
             PROVE  FreeSlots(sidecar[s], o) = 0 \/ Reporting(inbox'[SidecarBox(s)], o)
  BY <1>1, <1>2 DEF Kept, FreeSlots, FreeBeside, Reporting, Reports
<1>3. CASE s # SidecarId(r)
  BY <1>3 DEF Kept, Handles, Handled
<1>4. CASE s = SidecarId(r)
  <2>1. inbox'[SidecarBox(s)] = inbox[SidecarBox(s)] \o u.events
    BY <1>4 DEF Handles, Handled, EventsOf
  <2>2. inbox[SidecarBox(s)] \in Seq(SidecarMail(s))
    BY DEF Types, Mailboxes
  <2>3. u.events \in Seq(EventMail(r))
    BY DEF Handles, HandledBy, Sane, Counted, Working
  <2>4. Reporting(inbox[SidecarBox(s)], o) => Reporting(inbox'[SidecarBox(s)], o)
    BY <2>1, <2>2, <2>3, FrontStays DEF Reporting
  <2> QED
    BY <2>4 DEF Kept
<1> QED
  BY <1>3, <1>4

LEMMA BesidesKept ==
  ASSUME Kept, Besides
  PROVE  Kept'
<1>1. config' = config /\ sidecar' = sidecar /\ \A s \in Sidecars : inbox'[SidecarBox(s)] = inbox[SidecarBox(s)]
  BY DEF Besides
<1>2. Sidecars' = Sidecars /\ \A o : Members(o)' = Members(o)
  BY <1>1, SameGroups
<1> QED
  BY <1>1, <1>2 DEF Kept, FreeSlots, FreeBeside, Reporting, Reports

-----------------------------------------------------------------------------
(***************************************************************************)
(* What the edge counts: the ingress tasks of a sidecar and its replicas.  *)
(***************************************************************************)
At(q, bx, rp, r) == InHand(rp[r], bx[ReplicaBox(r)], q) # 0

With(q, bx, rp, s) ==
  \/ Count(bx[SidecarBox(s)], HopOf(q)) # 0
  \/ \E r \in Members(s) : At(q, bx, rp, r) /\ q \notin rp[r].done

Entered(bx, rp, s) == {q \in Ingress : With(q, bx, rp, s)}

EdgeLoads ==
  \A s \in Sidecars :
    edge[s] = Cardinality(Entered(inbox, replica, s)) + Count(inbox[EdgeBox], Releases(s))

(* A task with a replica is with no other and not with a sidecar. *)
LEMMA PlacesApart ==
  ASSUME Placed, NEW q \in Tasks
  PROVE  /\ \A r \in Replicas : At(q, inbox, replica, r) =>
              /\ \A s \in Sidecars : Count(inbox[SidecarBox(s)], HopOf(q)) = 0
              /\ \A o \in Replicas \ {r} : ~At(q, inbox, replica, o)
         /\ \A s \in Sidecars : Count(inbox[SidecarBox(s)], HopOf(q)) # 0 =>
              \A o \in Sidecars \ {s} : Count(inbox[SidecarBox(o)], HopOf(q)) = 0
         /\ q \notin arrived => /\ \A s \in Sidecars : Count(inbox[SidecarBox(s)], HopOf(q)) = 0
                                /\ \A r \in Replicas : ~At(q, inbox, replica, r)
<1>1. PICK w : /\ Presence(q, Sidecars, client, replica, inbox, w)
               /\ \A x, y \in SpotsOf(Sidecars) : w[x] # 0 /\ x # y => w[y] = 0
               /\ \A x \in SpotsOf(Sidecars) : w[x] # 0 => w[x] = 1 /\ q \in arrived
  BY FoundOnce
<1>2. /\ \A s \in Sidecars : w[SidecarBox(s)] = Count(inbox[SidecarBox(s)], HopOf(q))
      /\ \A r \in Replicas : w[ReplicaBox(r)] # 0 <=> At(q, inbox, replica, r)
  BY <1>1 DEF Presence, At
<1>3. /\ \A s \in Sidecars : SidecarBox(s) \in SpotsOf(Sidecars)
      /\ \A r \in Replicas : ReplicaBox(r) \in SpotsOf(Sidecars)
  BY SpotsAre
<1>4. /\ \A s, o : s # o => SidecarBox(s) # SidecarBox(o) /\ ReplicaBox(s) # ReplicaBox(o)
      /\ \A s, r : SidecarBox(s) # ReplicaBox(r)
  BY DEF SidecarBox, ReplicaBox
<1>5. ASSUME NEW r \in Replicas, At(q, inbox, replica, r)
      PROVE  /\ \A s \in Sidecars : Count(inbox[SidecarBox(s)], HopOf(q)) = 0
             /\ \A o \in Replicas \ {r} : ~At(q, inbox, replica, o)
  BY <1>1, <1>2, <1>3, <1>4, <1>5
<1>6. ASSUME NEW s \in Sidecars, Count(inbox[SidecarBox(s)], HopOf(q)) # 0, NEW o \in Sidecars \ {s}
      PROVE  Count(inbox[SidecarBox(o)], HopOf(q)) = 0
  BY <1>1, <1>2, <1>3, <1>4, <1>6
<1>7. ASSUME q \notin arrived
      PROVE  /\ \A s \in Sidecars : Count(inbox[SidecarBox(s)], HopOf(q)) = 0
             /\ \A r \in Replicas : ~At(q, inbox, replica, r)
  BY <1>1, <1>2, <1>3, <1>7
<1> QED
  BY <1>5, <1>6, <1>7

(* The sets are finite, and what is in the edge's mailbox is counted. *)
LEMMA EnteredFinite ==
  ASSUME NEW bx, NEW rp, NEW s
  PROVE  IsFiniteSet(Entered(bx, rp, s)) /\ Cardinality(Entered(bx, rp, s)) \in Nat
         /\ Entered(bx, rp, s) \subseteq Ingress
<1>1. Entered(bx, rp, s) \subseteq Ingress /\ Ingress \subseteq Tasks
  BY DEF Entered, Tasks
<1> QED
  BY <1>1, TasksFinite

LEMMA EdgeNext ==
  ASSUME config' = config,
         \A s \in Sidecars :
           edge'[s] = Cardinality(Entered(inbox', replica', s)) + Count(inbox'[EdgeBox], Releases(s))
  PROVE  EdgeLoads'
<1>1. Sidecars' = Sidecars /\ \A o : Members(o)' = Members(o)
  BY SameGroups
<1>2. \A s : Entered(inbox', replica', s) = Entered(inbox, replica, s)'
  BY <1>1 DEF Entered, With, At, HopOf
<1> QED
  BY <1>1, <1>2 DEF EdgeLoads, Releases

(* The edge is unaffected where its tasks stay with the same sidecar. *)
LEMMA EdgeStays ==
  ASSUME EdgeLoads, config' = config, edge' = edge, inbox'[EdgeBox] = inbox[EdgeBox],
         \A s \in Sidecars : \A q \in Ingress : With(q, inbox', replica', s) <=> With(q, inbox, replica, s)
  PROVE  EdgeLoads'
<1>1. \A s \in Sidecars : Entered(inbox', replica', s) = Entered(inbox, replica, s)
  BY DEF Entered
<1>2. \A s \in Sidecars : edge'[s] = Cardinality(Entered(inbox', replica', s)) + Count(inbox'[EdgeBox], Releases(s))
  BY <1>1 DEF EdgeLoads
<1> QED
  BY <1>2, EdgeNext

LEMMA SamePlaces ==
  ASSUME config' = config, replica' = replica, NEW q,
         \A s \in Sidecars : Count(inbox'[SidecarBox(s)], HopOf(q)) = Count(inbox[SidecarBox(s)], HopOf(q)),
         \A r \in Replicas : InHand(replica[r], inbox'[ReplicaBox(r)], q) = InHand(replica[r], inbox[ReplicaBox(r)], q)
  PROVE  \A s \in Sidecars : With(q, inbox', replica', s) <=> With(q, inbox, replica, s)
BY DEF With, At, Members

LEMMA ToldEdge ==
  ASSUME Types, EdgeLoads, NEW s \in Sidecars, NEW u, Told(s, u)
  PROVE  EdgeLoads'
<1>1. Taken(s, u) /\ \A q \in Tasks : Head(inbox[SidecarBox(s)]) \notin HopOf(q)
  BY DEF Told, Hears
<1>2. ASSUME NEW q \in Ingress
      PROVE  \A o \in Sidecars : With(q, inbox', replica', o) <=> With(q, inbox, replica, o)
  <2>1. ASSUME NEW o \in Sidecars
        PROVE  Count(inbox'[SidecarBox(o)], HopOf(q)) = Count(inbox[SidecarBox(o)], HopOf(q))
    <3>1. CASE o = s
      <4>1. /\ inbox[SidecarBox(s)] \in Seq(SidecarMail(s)) /\ inbox[SidecarBox(s)] # <<>>
            /\ inbox'[SidecarBox(s)] = Tail(inbox[SidecarBox(s)])
        BY <1>1 DEF Types, Mailboxes, Taken, Told
      <4>2. Head(inbox[SidecarBox(s)]) \notin HopOf(q)
        BY <1>1 DEF Tasks
      <4>3. Count(inbox[SidecarBox(s)], HopOf(q)) = Count(Tail(inbox[SidecarBox(s)]), HopOf(q))
                + IF Head(inbox[SidecarBox(s)]) \in HopOf(q) THEN 1 ELSE 0
        BY <4>1, CountPopFront
      <4>4. Tail(inbox[SidecarBox(s)]) \in Seq(SidecarMail(s))
        BY <4>1
      <4>5. Count(Tail(inbox[SidecarBox(s)]), HopOf(q)) \in Nat
        BY <4>4, CountFinite
      <4> QED
        BY <3>1, <4>1, <4>2, <4>3, <4>5
    <3>2. CASE o # s
      BY <1>1, <3>2 DEF Taken
    <3> QED
      BY <3>1, <3>2
  <2>2. config' = config /\ replica' = replica /\ \A r \in Replicas : inbox'[ReplicaBox(r)] = inbox[ReplicaBox(r)]
    BY <1>1 DEF Taken
  <2>3. \A r \in Replicas : InHand(replica[r], inbox'[ReplicaBox(r)], q) = InHand(replica[r], inbox[ReplicaBox(r)], q)
    BY <2>2
  <2> QED
    BY ONLY <2>1, <2>2, <2>3, SamePlaces
<1>3. config' = config /\ edge' = edge /\ inbox'[EdgeBox] = inbox[EdgeBox]
  BY <1>1 DEF Taken
<1> QED
  BY <1>2, <1>3, EdgeStays

LEMMA FetchesEdge ==
  ASSUME Types, AllCounted, EdgeLoads, NEW c \in Clients, NEW m, NEW i, Fetches(c, m, i)
  PROVE  EdgeLoads'
<1>1. Receiving(m.server, PulledCall(c, i)) /\ PulledCall(c, i).task \in Calls
  BY FetchesReceiving
<1>2. ASSUME NEW q \in Ingress
      PROVE  \A o \in Sidecars : With(q, inbox', replica', o) <=> With(q, inbox, replica, o)
  <2>1. q \in Tasks /\ PulledCall(c, i).task # q
    BY <1>1, SidecarAssumption DEF Tasks
  <2>2. ASSUME NEW r \in Replicas
        PROVE  InHand(replica[r], inbox'[ReplicaBox(r)], q) = InHand(replica[r], inbox[ReplicaBox(r)], q)
    <3>1. InHand(replica'[r], inbox'[ReplicaBox(r)], q)
             = InHand(replica[r], inbox[ReplicaBox(r)], q) + OneIf(r = m.server /\ PulledCall(c, i).task = q)
      BY <1>1, <2>1, ReceivingIs
    <3>2. InHand(replica[r], inbox[ReplicaBox(r)], q) \in Nat /\ replica' = replica
      BY <1>1, Naturals DEF Receiving
    <3> QED
      BY <2>1, <3>1, <3>2 DEF OneIf
  <2>3. config' = config /\ replica' = replica
        /\ \A o \in Sidecars : inbox'[SidecarBox(o)] = inbox[SidecarBox(o)]
    BY DEF Fetches
  <2>4. \A o \in Sidecars : Count(inbox'[SidecarBox(o)], HopOf(q)) = Count(inbox[SidecarBox(o)], HopOf(q))
    BY <2>3
  <2> QED
    BY ONLY <2>2, <2>3, <2>4, SamePlaces
<1>3. config' = config /\ edge' = edge /\ inbox'[EdgeBox] = inbox[EdgeBox]
  BY DEF Fetches
<1> QED
  BY <1>2, <1>3, EdgeStays

LEMMA CallQueuedEdge ==
  ASSUME Types, EdgeLoads, NEW c \in Clients, NEW q, NEW s, CallQueued(c, q, s)
  PROVE  EdgeLoads'
<1> DEFINE m == [kind |-> "intent", client |-> c, task |-> q]
<1>1. ASSUME NEW p \in Ingress
      PROVE  \A o \in Sidecars : With(p, inbox', replica', o) <=> With(p, inbox, replica, o)
  <2>1. ASSUME NEW o \in Sidecars
        PROVE  Count(inbox'[SidecarBox(o)], HopOf(p)) = Count(inbox[SidecarBox(o)], HopOf(p))
    <3>1. CASE o = s
      <4>1. inbox[SidecarBox(s)] \in Seq(SidecarMail(s)) /\ inbox'[SidecarBox(s)] = Append(inbox[SidecarBox(s)], m)
        BY <3>1 DEF Types, Mailboxes, CallQueued
      <4>2. m \in SidecarMail(s)
        BY DEF SidecarMail, Intents, CallQueued
      <4>3. m \notin HopOf(p)
        BY DEF HopOf
      <4> HIDE DEF m
      <4>4. Count(Append(inbox[SidecarBox(s)], m), HopOf(p)) = Count(inbox[SidecarBox(s)], HopOf(p))
                + IF m \in HopOf(p) THEN 1 ELSE 0
        BY <4>1, <4>2, CountPushBack
      <4>5. Count(inbox[SidecarBox(s)], HopOf(p)) \in Nat
        BY <4>1, CountFinite
      <4> QED
        BY <3>1, <4>1, <4>3, <4>4, <4>5
    <3>2. CASE o # s
      BY <3>2 DEF CallQueued
    <3> QED
      BY <3>1, <3>2
  <2>2. config' = config /\ replica' = replica
        /\ \A r \in Replicas : inbox'[ReplicaBox(r)] = inbox[ReplicaBox(r)]
    BY DEF CallQueued
  <2>3. \A r \in Replicas : InHand(replica[r], inbox'[ReplicaBox(r)], p) = InHand(replica[r], inbox[ReplicaBox(r)], p)
    BY <2>2
  <2> QED
    BY ONLY <2>1, <2>2, <2>3, SamePlaces
<1>2. config' = config /\ edge' = edge /\ inbox'[EdgeBox] = inbox[EdgeBox]
  BY DEF CallQueued
<1> QED
  BY <1>1, <1>2, EdgeStays

(* A task that is done is found where it was done. *)
LEMMA DoneAt ==
  ASSUME NEW r, NEW b, NEW v, Counted(r, b, v), NEW q, q \in v.done
  PROVE  InHand(v, b, q) # 0
<1>1. PICK n, k, j, i, d :
           /\ n = Count(b, HopOf(q)) /\ k = Count(v.queue, HopOf(q))
           /\ j = Cardinality(v.serving \cap HopOf(q))
           /\ i = OneIf(q \in v.calling) /\ d = OneIf(q \in v.done)
  OBVIOUS
<1>2. n \in Nat /\ k \in Nat /\ j \in Nat /\ i \in {0, 1} /\ d = 1
  BY <1>1, InHandParts DEF OneIf
<1>3. InHand(v, b, q) = n + k + j + i + d
  BY <1>1 DEF InHand
<1> QED
  BY ONLY <1>2, <1>3

LEMMA DoneIsAt ==
  ASSUME AllCounted, NEW r \in Replicas, NEW q, ~At(q, inbox, replica, r)
  PROVE  q \notin replica[r].done
BY DoneAt DEF AllCounted, At

(* A task q appears with sidecar s, or with its replica d. *)
Appears(q, s, d, p) ==
  /\ \A o \in Sidecars : Count(inbox'[SidecarBox(o)], HopOf(p)) =
                           Count(inbox[SidecarBox(o)], HopOf(p)) + OneIf(o = s /\ d = Nobody /\ p = q)
  /\ \A r \in Replicas : InHand(replica[r], inbox'[ReplicaBox(r)], p) =
                           InHand(replica[r], inbox[ReplicaBox(r)], p) + OneIf(r = d /\ p = q)

LEMMA EdgeEntersAppears ==
  ASSUME Types, AllCounted, NEW q, NEW s, NEW d, EdgeEnters(q, s, d), NEW p \in Ingress
  PROVE  Appears(q, s, d, p)
<1>1. Receiving(d, HopTo(q)) /\ HopTo(q).task = q /\ HopTo(q) \in Ingested
  BY EdgeEntersPasses, EdgeEntersTypes
<1>2. p \in Tasks
  BY DEF Tasks
<1>3. ASSUME NEW r \in Replicas
      PROVE  InHand(replica[r], inbox'[ReplicaBox(r)], p) =
               InHand(replica[r], inbox[ReplicaBox(r)], p) + OneIf(r = d /\ p = q)
  <2>1. InHand(replica'[r], inbox'[ReplicaBox(r)], p) =
          InHand(replica[r], inbox[ReplicaBox(r)], p) + OneIf(r = d /\ HopTo(q).task = p)
    BY <1>1, <1>2, ReceivingIs
  <2> QED
    BY <1>1, <2>1 DEF Receiving, OneIf
<1>4. ASSUME NEW o \in Sidecars
      PROVE  Count(inbox'[SidecarBox(o)], HopOf(p)) =
               Count(inbox[SidecarBox(o)], HopOf(p)) + OneIf(o = s /\ d = Nobody /\ p = q)
  <2>1. inbox[SidecarBox(o)] \in Seq(SidecarMail(o)) /\ HopTo(q) \in SidecarMail(o)
    BY <1>1 DEF Types, Mailboxes, SidecarMail
  <2>2. Count(inbox[SidecarBox(o)], HopOf(p)) \in Nat
    BY <2>1, CountFinite
  <2>3. CASE o = s /\ d = Nobody
    <3>1. inbox'[SidecarBox(o)] = Append(inbox[SidecarBox(o)], HopTo(q))
      BY <2>3 DEF EdgeEnters
    <3>2. HopTo(q) \in HopOf(p) <=> p = q
      BY DEF HopTo, HopOf
    <3>3. Count(Append(inbox[SidecarBox(o)], HopTo(q)), HopOf(p)) =
            Count(inbox[SidecarBox(o)], HopOf(p)) + IF HopTo(q) \in HopOf(p) THEN 1 ELSE 0
      BY <2>1, CountPushBack
    <3> QED
      BY <2>3, <3>1, <3>2, <3>3 DEF OneIf
  <2>4. CASE ~(o = s /\ d = Nobody)
    <3>1. inbox'[SidecarBox(o)] = inbox[SidecarBox(o)]
      BY <2>4 DEF EdgeEnters
    <3>2. OneIf(o = s /\ d = Nobody /\ p = q) = 0
      BY <2>4 DEF OneIf
    <3> QED
      BY <2>2, <3>1, <3>2
  <2> QED
    BY <2>3, <2>4
<1> QED
  BY <1>3, <1>4 DEF Appears

LEMMA EdgeEntersEdge ==
  ASSUME Types, AllCounted, Placed, EdgeLoads, NEW q, NEW s, NEW d, EdgeEnters(q, s, d)
  PROVE  EdgeLoads'
<1>1. /\ config' = config /\ replica' = replica /\ q \in Ingress /\ q \in Tasks /\ q \notin arrived
      /\ s \in Sidecars /\ edge' = [edge EXCEPT ![s] = @ + 1] /\ inbox'[EdgeBox] = inbox[EdgeBox]
      /\ d = Nobody \/ (d \in Replicas /\ SidecarId(d) = s)
  BY DEF EdgeEnters, Tasks
<1>2. ASSUME NEW p \in Ingress, p # q, NEW o \in Sidecars
      PROVE  With(p, inbox', replica', o) <=> With(p, inbox, replica, o)
  <2>1. Appears(q, s, d, p)
    BY EdgeEntersAppears
  <2>2. \A z \in Sidecars : Count(inbox[SidecarBox(z)], HopOf(p)) \in Nat
    BY Naturals
  <2>3. \A r \in Replicas : InHand(replica[r], inbox[ReplicaBox(r)], p) \in Nat
    BY Naturals
  <2>4. \A z \in Sidecars : Count(inbox'[SidecarBox(z)], HopOf(p)) = Count(inbox[SidecarBox(z)], HopOf(p))
    BY <1>2, <2>1, <2>2 DEF Appears, OneIf
  <2>5. \A r \in Replicas : InHand(replica[r], inbox'[ReplicaBox(r)], p) = InHand(replica[r], inbox[ReplicaBox(r)], p)
    BY <1>2, <2>1, <2>3 DEF Appears, OneIf
  <2> QED
    BY ONLY <1>1, <1>2, <2>4, <2>5, SamePlaces
<1>3. /\ \A o \in Sidecars : Count(inbox[SidecarBox(o)], HopOf(q)) = 0
      /\ \A r \in Replicas : InHand(replica[r], inbox[ReplicaBox(r)], q) = 0 /\ q \notin replica[r].done
  <2>1. /\ \A o \in Sidecars : Count(inbox[SidecarBox(o)], HopOf(q)) = 0
        /\ \A r \in Replicas : ~At(q, inbox, replica, r)
    BY <1>1, PlacesApart
  <2> QED
    BY <2>1, DoneIsAt DEF At
<1>4. Appears(q, s, d, q)
  BY <1>1, EdgeEntersAppears
<1>5. /\ \A o \in Sidecars : Count(inbox'[SidecarBox(o)], HopOf(q)) = OneIf(o = s /\ d = Nobody)
      /\ \A r \in Replicas : InHand(replica[r], inbox'[ReplicaBox(r)], q) = OneIf(r = d)
  BY <1>3, <1>4 DEF Appears, OneIf
<1>6. \A o \in Sidecars : ~With(q, inbox, replica, o)
  BY <1>3 DEF With, At, Members
<1>7. With(q, inbox', replica', s)
  <2>1. CASE d = Nobody
    BY <1>1, <1>5, <2>1 DEF With, OneIf
  <2>2. CASE d \in Replicas /\ SidecarId(d) = s
    <3>1. d \in Members(s)
      BY <2>2 DEF Members
    <3>2. At(q, inbox', replica', d) /\ q \notin replica'[d].done
      BY <1>1, <1>3, <1>5, <2>2 DEF At, OneIf
    <3> QED
      BY <3>1, <3>2 DEF With
  <2> QED
    BY <1>1, <2>1, <2>2
<1>8. ASSUME NEW o \in Sidecars \ {s}
      PROVE  ~With(q, inbox', replica', o)
  <2>1. Count(inbox'[SidecarBox(o)], HopOf(q)) = 0
    BY <1>5 DEF OneIf
  <2>2. ASSUME NEW r \in Members(o)
        PROVE  ~At(q, inbox', replica', r)
    <3>1. r \in Replicas /\ r # d
      BY <1>1, NobodyIs DEF Members
    <3> QED
      BY <1>1, <1>5, <3>1 DEF At, OneIf
  <2> QED
    BY <2>1, <2>2 DEF With
<1>9. ASSUME NEW o \in Sidecars
      PROVE  edge'[o] = Cardinality(Entered(inbox', replica', o)) + Count(inbox'[EdgeBox], Releases(o))
  <2>1. PICK A, B : A = Entered(inbox, replica, o) /\ B = Entered(inbox', replica', o)
    OBVIOUS
  <2>2. edge[o] = Cardinality(A) + Count(inbox[EdgeBox], Releases(o)) /\ edge[o] \in Nat
    BY <2>1 DEF EdgeLoads, Types
  <2>3. IsFiniteSet(A) /\ Cardinality(A) \in Nat
    BY <2>1, EnteredFinite
  <2>4. Count(inbox[EdgeBox], Releases(o)) \in Nat
    BY CountFinite DEF Types, Mailboxes
  <2>5. CASE o = s
    <3>1. q \notin A /\ B = A \cup {q}
      BY <1>1, <1>2, <1>6, <1>7, <2>1, <2>5 DEF Entered
    <3>2. Cardinality(B) = Cardinality(A) + 1
      BY <2>3, <3>1, FS_AddElement
    <3>3. edge'[o] = edge[o] + 1
      BY <1>1, <2>5 DEF Types
    <3> QED
      BY <1>1, <2>1, <2>2, <2>3, <2>4, <3>2, <3>3
  <2>6. CASE o # s
    <3>1. B = A
      BY <1>2, <1>6, <1>8, <2>1, <2>6 DEF Entered
    <3>2. edge'[o] = edge[o]
      BY <1>1, <2>6 DEF Types
    <3> QED
      BY <1>1, <2>1, <2>2, <3>1, <3>2
  <2> QED
    BY <2>5, <2>6
<1> QED
  BY <1>1, <1>9, EdgeNext

LEMMA ForwardsEdge ==
  ASSUME Types, AllCounted, Placed, EdgeLoads, NEW s \in Sidecars, NEW r, Forwards(s, r)
  PROVE  EdgeLoads'
<1>1. PICK m : m = Head(inbox[SidecarBox(s)])
  OBVIOUS
<1>2. /\ config' = config /\ replica' = replica /\ edge' = edge /\ inbox'[EdgeBox] = inbox[EdgeBox]
      /\ r \in Members(s) /\ r \in Replicas /\ SidecarId(r) = s /\ m \in Ingested
      /\ inbox[SidecarBox(s)] # <<>> /\ inbox'[SidecarBox(s)] = Tail(inbox[SidecarBox(s)])
      /\ \A o \in Sidecars \ {s} : inbox'[SidecarBox(o)] = inbox[SidecarBox(o)]
  BY <1>1 DEF Forwards, Members
<1>3. Receiving(r, m)
  BY <1>1, ForwardsPasses
<1>4. ASSUME NEW p \in Ingress
      PROVE  /\ \A o \in Sidecars : Count(inbox'[SidecarBox(o)], HopOf(p)) + OneIf(o = s /\ m.task = p)
                                      = Count(inbox[SidecarBox(o)], HopOf(p))
                                    /\ Count(inbox'[SidecarBox(o)], HopOf(p)) \in Nat
             /\ \A o \in Replicas : InHand(replica[o], inbox'[ReplicaBox(o)], p)
                                      = InHand(replica[o], inbox[ReplicaBox(o)], p) + OneIf(o = r /\ m.task = p)
                                    /\ InHand(replica[o], inbox[ReplicaBox(o)], p) \in Nat
  <2>1. p \in Tasks
    BY DEF Tasks
  <2>2. ASSUME NEW o \in Replicas
        PROVE  InHand(replica[o], inbox'[ReplicaBox(o)], p)
                 = InHand(replica[o], inbox[ReplicaBox(o)], p) + OneIf(o = r /\ m.task = p)
               /\ InHand(replica[o], inbox[ReplicaBox(o)], p) \in Nat
    <3>1. InHand(replica'[o], inbox'[ReplicaBox(o)], p)
            = InHand(replica[o], inbox[ReplicaBox(o)], p) + OneIf(o = r /\ m.task = p)
      BY <1>3, <2>1, ReceivingIs
    <3> QED
      BY <1>2, <3>1, Naturals
  <2>3. ASSUME NEW o \in Sidecars
        PROVE  Count(inbox'[SidecarBox(o)], HopOf(p)) + OneIf(o = s /\ m.task = p)
                 = Count(inbox[SidecarBox(o)], HopOf(p))
               /\ Count(inbox'[SidecarBox(o)], HopOf(p)) \in Nat
    <3>1. CASE o = s
      <4>1. inbox[SidecarBox(s)] \in Seq(SidecarMail(s))
        BY DEF Types, Mailboxes
      <4>2. Tail(inbox[SidecarBox(s)]) \in Seq(SidecarMail(s))
        BY <1>2, <4>1
      <4>3. Count(Tail(inbox[SidecarBox(s)]), HopOf(p)) \in Nat
        BY <4>2, CountFinite
      <4>4. Count(inbox[SidecarBox(s)], HopOf(p)) = Count(Tail(inbox[SidecarBox(s)]), HopOf(p))
              + IF m \in HopOf(p) THEN 1 ELSE 0
        BY <1>1, <1>2, <4>1, CountPopFront
      <4>5. m \in HopOf(p) <=> m.task = p
        BY <1>2 DEF Ingested, HopOf
      <4> QED
        BY <1>2, <3>1, <4>3, <4>4, <4>5 DEF OneIf
    <3>2. CASE o # s
      <4>1. OneIf(o = s /\ m.task = p) = 0
        BY <3>2 DEF OneIf
      <4> QED
        BY <1>2, <3>2, <4>1, Naturals
    <3> QED
      BY <3>1, <3>2
  <2> QED
    BY <2>2, <2>3
<1>5. ASSUME NEW p \in Ingress, NEW o \in Sidecars
      PROVE  With(p, inbox', replica', o) <=> With(p, inbox, replica, o)
  <2>1. CASE m.task # p
    <3>1. \A z \in Sidecars : Count(inbox'[SidecarBox(z)], HopOf(p)) = Count(inbox[SidecarBox(z)], HopOf(p))
      BY <1>4, <2>1 DEF OneIf
    <3>2. \A z \in Replicas : InHand(replica[z], inbox'[ReplicaBox(z)], p) = InHand(replica[z], inbox[ReplicaBox(z)], p)
      BY <1>4, <2>1 DEF OneIf
    <3> QED
      BY ONLY <1>2, <1>5, <3>1, <3>2, SamePlaces
  <2>2. CASE m.task = p
    <3>1. Count(inbox[SidecarBox(s)], HopOf(p)) # 0
      BY <1>4, <2>2 DEF OneIf
    <3>2. /\ \A z \in Sidecars \ {s} : Count(inbox[SidecarBox(z)], HopOf(p)) = 0
          /\ \A z \in Replicas : ~At(p, inbox, replica, z)
      BY <3>1, PlacesApart DEF Tasks
    <3>3. With(p, inbox, replica, s)
      BY <3>1 DEF With
    <3>4. p \notin replica[r].done
      BY <1>2, <3>2, DoneIsAt
    <3>5. At(p, inbox', replica', r)
      BY <1>2, <1>4, <2>2, <3>2 DEF At, OneIf
    <3>6. With(p, inbox', replica', s)
      BY <1>2, <3>4, <3>5 DEF With
    <3>7. CASE o # s
      <4>1. ~With(p, inbox, replica, o)
        BY <3>2, <3>7 DEF With, Members
      <4>2. Count(inbox'[SidecarBox(o)], HopOf(p)) = 0
        BY <1>2, <3>2, <3>7
      <4>3. ASSUME NEW z \in Members(o)
            PROVE  ~At(p, inbox', replica', z)
        <5>1. z \in Replicas /\ z # r
          BY <1>2, <3>7 DEF Members
        <5> QED
          BY <1>2, <1>4, <3>2, <5>1 DEF At, OneIf
      <4> QED
        BY <4>1, <4>2, <4>3 DEF With
    <3> QED
      BY <3>3, <3>6, <3>7
  <2> QED
    BY <2>1, <2>2
<1> QED
  BY <1>2, <1>5, EdgeStays

LEMMA HandlesReleases ==
  ASSUME Types, NEW r \in Replicas, NEW c, NEW u, Handles(r, c, u), NEW s \in Sidecars
  PROVE  /\ u.released \in Nat
         /\ Count(inbox'[EdgeBox], Releases(s)) =
              Count(inbox[EdgeBox], Releases(s)) + IF s = SidecarId(r) THEN u.released ELSE 0
<1>1. PICK l : l = [i \in 1 .. u.released |-> Release(r)]
  OBVIOUS
<1>2. inbox'[EdgeBox] = inbox[EdgeBox] \o l
  BY <1>1 DEF Handles, Handled
<1>3. u.released \in Nat
  BY DEF Handles, HandledBy, Sane, Counted, Working
<1>4. Release(r) \in EdgeMail /\ (Release(r) \in Releases(s) <=> s = SidecarId(r))
  BY MembersAre DEF Types, Release, EdgeMail, Releases
<1>5. l \in Seq({Release(r)}) /\ Count(l, Releases(s)) = IF Release(r) \in Releases(s) THEN u.released ELSE 0
  <2>1. l \in Seq({Release(r)}) /\ Len(l) = u.released /\ \A i \in DOMAIN l : l[i] = Release(r)
    BY <1>1, <1>3
  <2>2. CASE Release(r) \in Releases(s)
    BY <2>1, <2>2, CountAll
  <2>3. CASE Release(r) \notin Releases(s)
    BY <2>1, <2>3, CountNone
  <2> QED
    BY <2>1, <2>2, <2>3
<1>6. l \in Seq(EdgeMail) /\ inbox[EdgeBox] \in Seq(EdgeMail)
  BY <1>4, <1>5 DEF Types, Mailboxes
<1>7. Count(inbox[EdgeBox] \o l, Releases(s)) = Count(inbox[EdgeBox], Releases(s)) + Count(l, Releases(s))
  BY <1>6, CountConcat
<1> QED
  BY <1>2, <1>3, <1>4, <1>5, <1>7

(* A handler ends the ingress tasks it has released, and no other. *)
LEMMA HandlesEntered ==
  ASSUME Types, AllCounted, Placed, NEW r \in Replicas, NEW c, NEW u, Handles(r, c, u),
         NEW N, N = (u.done \ replica[r].done) \cap Ingress
  PROVE  /\ Entered(inbox', replica', SidecarId(r)) = Entered(inbox, replica, SidecarId(r)) \ N
         /\ N \subseteq Entered(inbox, replica, SidecarId(r))
         /\ \A s \in Sidecars \ {SidecarId(r)} : Entered(inbox', replica', s) = Entered(inbox, replica, s)
<1>1. PICK s : s = SidecarId(r)
  OBVIOUS
<1>2. s \in Sidecars /\ r \in Members(s)
  BY <1>1, MembersAre DEF Types
<1>3. /\ Counted(r, c, u) /\ replica'[r].done = u.done /\ inbox'[ReplicaBox(r)] = c
      /\ \A o \in Replicas \ {r} : replica'[o] = replica[o] /\ inbox'[ReplicaBox(o)] = inbox[ReplicaBox(o)]
      /\ \A o \in Sidecars \ {s} : inbox'[SidecarBox(o)] = inbox[SidecarBox(o)]
  BY <1>1, HandlesIs DEF Handles, Handled
<1>4. replica[r].done \subseteq u.done
  BY DEF Handles, HandledBy, Freed
<1>5. \A o \in Replicas \ {r} : \A q : At(q, inbox', replica', o) <=> At(q, inbox, replica, o)
  BY <1>3 DEF At
<1>6. ASSUME NEW q \in Ingress
      PROVE  /\ At(q, inbox', replica', r) <=> At(q, inbox, replica, r)
             /\ q \in u.done => At(q, inbox, replica, r)
             /\ Count(inbox'[SidecarBox(s)], HopOf(q)) = Count(inbox[SidecarBox(s)], HopOf(q))
  <2>1. q \in Tasks
    BY DEF Tasks
  <2>2. InHand(replica'[r], c, q) = InHand(u, c, q)
    BY <2>1, HandlesIs
  <2>3. InHand(u, c, q) = InHand(replica[r], inbox[ReplicaBox(r)], q)
    BY <2>1 DEF Handles, HandledBy, SameTasks
  <2>4. q \in u.done => InHand(u, c, q) # 0
    BY <1>3, DoneAt
  <2>5. inbox'[SidecarBox(s)] = inbox[SidecarBox(s)] \o u.events
    BY <1>1 DEF Handles, Handled, EventsOf
  <2>6. u.events \in Seq(EventMail(r)) /\ inbox[SidecarBox(s)] \in Seq(SidecarMail(s))
    BY <1>2, <1>3 DEF Counted, Working, Types, Mailboxes
  <2>7. u.events \in Seq(SidecarMail(s))
    <3>1. EventMail(r) \subseteq SidecarMail(s)
      BY <1>2 DEF SidecarMail
    <3> QED
      BY <2>6, <3>1
  <2>8. Count(inbox[SidecarBox(s)] \o u.events, HopOf(q)) = Count(inbox[SidecarBox(s)], HopOf(q)) + Count(u.events, HopOf(q))
    BY <2>6, <2>7, CountConcat
  <2>9. Count(u.events, HopOf(q)) = 0
    BY <2>6, EventsApart
  <2>10. Count(inbox[SidecarBox(s)], HopOf(q)) \in Nat
    BY <2>6, CountFinite
  <2> QED
    BY <1>3, <2>2, <2>3, <2>4, <2>5, <2>8, <2>9, <2>10 DEF At
<1>7. ASSUME NEW q \in Ingress
      PROVE  /\ q \in u.done => /\ Count(inbox[SidecarBox(s)], HopOf(q)) = 0
                                /\ \A o \in Replicas \ {r} : ~At(q, inbox, replica, o)
  BY <1>2, <1>6, PlacesApart DEF Tasks
<1>8. ASSUME NEW q \in Ingress
      PROVE  With(q, inbox', replica', s) <=> With(q, inbox, replica, s) /\ q \notin N
  <2>1. CASE q \in u.done
    <3>1. q \in N <=> q \notin replica[r].done
      BY <2>1
    <3>2. /\ Count(inbox'[SidecarBox(s)], HopOf(q)) = 0
          /\ \A o \in Members(s) \ {r} : ~At(q, inbox', replica', o) /\ ~At(q, inbox, replica, o)
      BY <1>5, <1>6, <1>7, <2>1 DEF Members
    <3>3. ~With(q, inbox', replica', s)
      BY <1>3, <2>1, <3>2 DEF With
    <3>4. q \in replica[r].done => ~With(q, inbox, replica, s)
      BY <1>7, <2>1, <3>2 DEF With
    <3> QED
      BY <3>1, <3>3, <3>4
  <2>2. CASE q \notin u.done
    <3>1. q \notin N /\ q \notin replica[r].done
      BY <1>4, <2>2
    <3>2. \A o \in Members(s) : /\ At(q, inbox', replica', o) <=> At(q, inbox, replica, o)
                                /\ q \in replica'[o].done <=> q \in replica[o].done
      BY <1>3, <1>5, <1>6, <2>2, <3>1 DEF Members
    <3> QED
      BY <1>6, <3>1, <3>2 DEF With
  <2> QED
    BY <2>1, <2>2
<1>9. N \subseteq Entered(inbox, replica, s)
  <2> SUFFICES ASSUME NEW q \in N
               PROVE  q \in Entered(inbox, replica, s)
    OBVIOUS
  <2>1. q \in Ingress /\ q \in u.done /\ q \notin replica[r].done
    OBVIOUS
  <2>2. At(q, inbox, replica, r)
    BY <1>6, <2>1
  <2> QED
    BY <1>2, <2>1, <2>2 DEF Entered, With
<1>10. Entered(inbox', replica', s) = Entered(inbox, replica, s) \ N
  BY <1>8 DEF Entered
<1>11. ASSUME NEW o \in Sidecars \ {s}
       PROVE  Entered(inbox', replica', o) = Entered(inbox, replica, o)
  <2>1. \A z \in Members(o) : z \in Replicas \ {r}
    BY <1>1 DEF Members
  <2>2. \A q \in Ingress : With(q, inbox', replica', o) <=> With(q, inbox, replica, o)
    BY <1>3, <1>5, <2>1 DEF With
  <2> QED
    BY <2>2 DEF Entered
<1> QED
  BY <1>1, <1>9, <1>10, <1>11

LEMMA HandlesEdge ==
  ASSUME Types, AllCounted, Placed, EdgeLoads, NEW r \in Replicas, NEW c, NEW u, Handles(r, c, u)
  PROVE  EdgeLoads'
<1>1. PICK N : N = (u.done \ replica[r].done) \cap Ingress
  OBVIOUS
<1>2. /\ Entered(inbox', replica', SidecarId(r)) = Entered(inbox, replica, SidecarId(r)) \ N
      /\ N \subseteq Entered(inbox, replica, SidecarId(r))
      /\ \A s \in Sidecars \ {SidecarId(r)} : Entered(inbox', replica', s) = Entered(inbox, replica, s)
  BY <1>1, HandlesEntered
<1>3. u.released = Cardinality(N)
  <2>1. u.released = replica[r].released + Cardinality(N) /\ replica[r].released = 0
    BY <1>1 DEF Handles, HandledBy, Freed, Types, ReplicaState
  <2>2. IsFiniteSet(N) /\ Cardinality(N) \in Nat
    BY <1>1, TasksFinite DEF Tasks
  <2> QED
    BY <2>1, <2>2
<1>4. ASSUME NEW s \in Sidecars
      PROVE  edge'[s] = Cardinality(Entered(inbox', replica', s)) + Count(inbox'[EdgeBox], Releases(s))
  <2>1. PICK A, B : A = Entered(inbox, replica, s) /\ B = Entered(inbox', replica', s)
    OBVIOUS
  <2>2. PICK k, l : k = Count(inbox[EdgeBox], Releases(s)) /\ l = Count(inbox'[EdgeBox], Releases(s))
    OBVIOUS
  <2>3. edge[s] = Cardinality(A) + k /\ edge' = edge
    BY <2>1, <2>2 DEF EdgeLoads, Handles, Handled
  <2>4. IsFiniteSet(A) /\ Cardinality(A) \in Nat
    BY <2>1, EnteredFinite
  <2>5. k \in Nat
    BY <2>2, CountFinite DEF Types, Mailboxes
  <2>6. l = k + IF s = SidecarId(r) THEN u.released ELSE 0
    BY <2>2, HandlesReleases
  <2>7. CASE s = SidecarId(r)
    <3>1. B = A \ N /\ N \subseteq A
      BY <1>2, <2>1, <2>7
    <3>2. A \cap N = N
      BY <3>1
    <3>3. Cardinality(A \ N) = Cardinality(A) - Cardinality(A \cap N)
      BY <2>4, FS_Difference
    <3>4. Cardinality(N) \in Nat
      BY <2>4, <3>1, FS_Subset, FS_CardinalityType
    <3>5. Cardinality(A \cap N) = Cardinality(N)
      BY <3>2
    <3>6. Cardinality(B) = Cardinality(A \ N)
      BY <3>1, Zenon
    <3>7. l = k + u.released
      BY <2>6, <2>7
    <3>8. edge[s] = Cardinality(B) + l
      BY ONLY <1>3, <2>3, <2>4, <2>5, <3>3, <3>4, <3>5, <3>6, <3>7
    <3> QED
      BY <2>1, <2>2, <2>3, <3>8
  <2>8. CASE s # SidecarId(r)
    <3>1. B = A /\ l = k
      BY <1>2, <2>1, <2>5, <2>6, <2>8
    <3> QED
      BY <2>1, <2>2, <2>3, <3>1
  <2> QED
    BY <2>7, <2>8
<1>5. config' = config
  BY DEF Handles, Handled
<1> QED
  BY <1>4, <1>5, EdgeNext

LEMMA ReleaseTakenEdge ==
  ASSUME Types, EdgeLoads, ReleaseTaken
  PROVE  EdgeLoads'
<1>1. PICK m : m = Head(inbox[EdgeBox])
  OBVIOUS
<1>2. /\ inbox[EdgeBox] \in Seq(EdgeMail) /\ inbox[EdgeBox] # <<>> /\ inbox'[EdgeBox] = Tail(inbox[EdgeBox])
      /\ config' = config /\ replica' = replica /\ edge' = [edge EXCEPT ![m.target] = SaturatingDec(@)]
  BY <1>1 DEF Types, Mailboxes, ReleaseTaken
<1>3. m \in EdgeMail /\ Tail(inbox[EdgeBox]) \in Seq(EdgeMail)
  BY <1>1, <1>2
<1>4. ASSUME NEW s \in Sidecars
      PROVE  edge'[s] = Cardinality(Entered(inbox', replica', s)) + Count(inbox'[EdgeBox], Releases(s))
  <2>1. Entered(inbox', replica', s) = Entered(inbox, replica, s)
    BY DEF ReleaseTaken, Entered, With, At, Members
  <2>2. PICK a, k, l : /\ a = Cardinality(Entered(inbox, replica, s))
                       /\ k = Count(inbox[EdgeBox], Releases(s)) /\ l = Count(Tail(inbox[EdgeBox]), Releases(s))
    OBVIOUS
  <2>3. edge[s] = a + k /\ a \in Nat /\ l \in Nat
    BY <1>3, <2>2, EnteredFinite, CountFinite DEF EdgeLoads
  <2>4. k = l + IF m \in Releases(s) THEN 1 ELSE 0
    BY <1>1, <1>2, <2>2, CountPopFront
  <2>5. m \in Releases(s) <=> m.target = s
    BY <1>3 DEF EdgeMail, Releases
  <2>6. edge'[s] = IF m.target = s THEN SaturatingDec(edge[s]) ELSE edge[s]
    BY <1>2 DEF Types
  <2>7. edge'[s] = a + l
    BY ONLY <2>3, <2>4, <2>5, <2>6 DEF SaturatingDec
  <2>8. Cardinality(Entered(inbox', replica', s)) = a
    BY <2>1, <2>2
  <2>9. Count(inbox'[EdgeBox], Releases(s)) = l
    BY <1>2, <2>2
  <2> QED
    BY <2>7, <2>8, <2>9
<1> QED
  BY <1>2, <1>4, EdgeNext

-----------------------------------------------------------------------------
(***************************************************************************)
(* What is counted and what is kept waiting, beside PullInv                *)
(***************************************************************************)
LoadsInv == PullInv /\ IntentLoads /\ Announced /\ Kept /\ EdgeLoads

LEMMA InitLoadsInv ==
  ASSUME Init
  PROVE  LoadsInv
<1>1. PullInv
  BY InitPullInv
<1>2. Types /\ \A s \in Sidecars : sidecar[s].pull_intents = <<>>
  BY InitTypes
<1>3. /\ \A x \in Boxes : inbox[x] = <<>>
      /\ \A c \in Clients : client[c].queue = <<>> /\ \A s \in Sidecars : client[c].pull_intent_load[s] = 0
      /\ \A s \in Sidecars : edge[s] = 0
      /\ arrived = {}
  BY DEF Init
<1>4. /\ \A c \in Clients : inbox[ClientBox(c)] = <<>>
      /\ \A s \in Sidecars : inbox[SidecarBox(s)] = <<>>
      /\ inbox[EdgeBox] = <<>>
  <2>1. Sidecars \subseteq AllSidecars
    BY <1>2 DEF Types, Sidecars, AllSidecars
  <2> QED
    BY <1>3, <2>1 DEF Boxes
<1>5. IntentLoads
  BY <1>2, <1>3, <1>4, CountEmpty DEF IntentLoads, Unanswered
<1>6. Announced
  <2> SUFFICES ASSUME NEW c \in Clients
               PROVE  Len(client[c].queue) = Across(SidecarBoxes(inbox), Sidecars, IntentsOf(c))
                                               + Across(IntentQueues(sidecar), Sidecars, IntentsOf(c))
                                               + Len(inbox[ClientBox(c)])
    BY DEF Announced
  <2>1. PICK f, g : f = SidecarBoxes(inbox) /\ g = IntentQueues(sidecar)
    OBVIOUS
  <2>2. \A s \in Sidecars : f[s] = <<>> /\ g[s] = <<>>
    BY <1>2, <1>4, <2>1 DEF SidecarBoxes, IntentQueues
  <2>3. Across(f, Sidecars, IntentsOf(c)) = 0 /\ Across(g, Sidecars, IntentsOf(c)) = 0
    BY <2>2, AcrossEmpty
  <2>4. Len(client[c].queue) = 0 /\ Len(inbox[ClientBox(c)]) = 0
    BY <1>3, <1>4
  <2> QED
    BY <2>1, <2>3, <2>4
<1>7. Kept
  BY <1>2 DEF Kept
<1>8. EdgeLoads
  <2> SUFFICES ASSUME NEW s \in Sidecars
               PROVE  edge[s] = Cardinality(Entered(inbox, replica, s)) + Count(inbox[EdgeBox], Releases(s))
    BY DEF EdgeLoads
  <2>1. \A q \in Tasks : /\ Count(inbox[SidecarBox(s)], HopOf(q)) = 0
                         /\ \A r \in Replicas : ~At(q, inbox, replica, r)
    BY <1>1, <1>3, PlacesApart DEF PullInv
  <2>2. Entered(inbox, replica, s) = {}
    BY <2>1 DEF Entered, With, Members, Tasks
  <2>3. Cardinality(Entered(inbox, replica, s)) = 0
    BY <2>2, FS_EmptySet
  <2> QED
    BY <1>3, <1>4, <2>3, CountEmpty
<1> QED
  BY <1>1, <1>5, <1>6, <1>7, <1>8 DEF LoadsInv

LEMMA SpecKeepsLoadsInv ==
  ASSUME LoadsInv, [Next]_vars
  PROVE  LoadsInv'
<1>1. PullInv /\ Types /\ AllCounted /\ Placed /\ IntentLoads /\ Announced /\ Kept /\ EdgeLoads
  BY DEF LoadsInv, PullInv
<1>2. PullInv' /\ Types'
  <2>1. PullInv'
    BY <1>1, SpecKeepsPullInv
  <2> QED
    BY <2>1 DEF PullInv
<1>3. ASSUME \E d : Turns(d), Kept', EdgeLoads'
      PROVE  LoadsInv'
  <2>1. PICK d : Turns(d)
    BY <1>3
  <2>2. IntentLoads'
    BY <1>1, <1>2, <2>1, TurnsLoads
  <2>3. Announced'
    BY <1>1, <1>2, <2>1, TurnsAnnounced
  <2> QED
    BY <1>2, <1>3, <2>2, <2>3 DEF LoadsInv
<1>4. ASSUME NEW q \in Tasks, Call(q)
      PROVE  LoadsInv'
  <2>1. PICK c, s : c \in Clients /\ CallQueued(c, q, s)
    BY <1>1, <1>4, CallIs
  <2>2. \E d : Turns(d)
    BY <1>1, <2>1, CallQueuedTurns
  <2>3. Kept'
    <3>1. Passing(Nobody, HopTo(q))
      BY <1>1, <2>1, CallQueuedPasses
    <3>2. \A o \in Sidecars : sidecar'[o].pull_intents = sidecar[o].pull_intents
      BY <2>1 DEF CallQueued
    <3> QED
      BY <1>1, <1>2, <3>1, <3>2, PassingKept
  <2>4. EdgeLoads'
    BY <1>1, <2>1, CallQueuedEdge
  <2> QED
    BY <1>3, <2>2, <2>3, <2>4
<1>5. ASSUME NEW q \in Tasks, EdgeInput(q)
      PROVE  LoadsInv'
  <2>1. PICK s, d : EdgeEnters(q, s, d)
    BY <1>1, <1>5, EdgeInputEnters
  <2>2. \E e : Turns(e)
    BY <1>1, <2>1, EdgeEntersTurns
  <2>3. Kept'
    <3>1. Passing(d, HopTo(q))
      BY <1>1, <2>1, EdgeEntersPasses
    <3>2. \A o \in Sidecars : sidecar'[o].pull_intents = sidecar[o].pull_intents
      BY <2>1 DEF EdgeEnters
    <3> QED
      BY <1>1, <1>2, <3>1, <3>2, PassingKept
  <2>4. EdgeLoads'
    BY <1>1, <2>1, EdgeEntersEdge
  <2> QED
    BY <1>3, <2>2, <2>3, <2>4
<1>6. ASSUME NEW s \in Sidecars, ReceiveUpstream(s)
      PROVE  LoadsInv'
  <2>1. PICK r : Forwards(s, r)
    BY <1>1, <1>6, ReceiveUpstreamForwards
  <2>2. \E e : Turns(e)
    BY <1>1, <2>1, ForwardsTurns
  <2>3. Kept'
    <3>1. Passing(r, Head(inbox[SidecarBox(s)]))
      BY <1>1, <2>1, ForwardsPasses
    <3>2. \A o \in Sidecars : sidecar'[o].pull_intents = sidecar[o].pull_intents
      BY <2>1 DEF Forwards
    <3> QED
      BY <1>1, <1>2, <3>1, <3>2, PassingKept
  <2>4. EdgeLoads'
    BY <1>1, <2>1, ForwardsEdge
  <2> QED
    BY <1>3, <2>2, <2>3, <2>4
<1>7. ASSUME NEW s \in Sidecars, NEW u, Told(s, u), Asks(s, u), Rests(s, u)
      PROVE  LoadsInv'
  <2>1. \E e : Turns(e)
    BY <1>1, <1>7, ToldTurns
  <2>2. Kept'
    BY <1>1, <1>7, ToldKept
  <2>3. EdgeLoads'
    BY <1>1, <1>7, ToldEdge
  <2> QED
    BY <1>3, <2>1, <2>2, <2>3
<1>8. ASSUME NEW s \in Sidecars, ReceivePullIntent(s) \/ CapacityEvent(s)
      PROVE  LoadsInv'
  <2>1. \E u : Told(s, u) /\ Asks(s, u) /\ Rests(s, u)
    <3>1. CASE ReceivePullIntent(s)
      BY <1>1, <3>1, ReceivePullIntentAnswers
    <3>2. CASE CapacityEvent(s)
      BY <1>1, <3>2, CapacityEventAnswers
    <3> QED
      BY <1>8, <3>1, <3>2
  <2> QED
    BY <1>7, <2>1
<1>9. ASSUME NEW c \in Clients, PullArrives(c)
      PROVE  LoadsInv'
  <2>1. PICK m, i : Fetches(c, m, i)
    BY <1>1, <1>9, PullArrivesFetches
  <2>2. \E e : Turns(e)
    BY <1>1, <2>1, FetchesTurns
  <2>3. Kept'
    <3>1. Passing(m.server, PulledCall(c, i))
      BY <1>1, <2>1, FetchesPasses
    <3>2. \A o \in Sidecars : sidecar'[o].pull_intents = sidecar[o].pull_intents
      BY <2>1 DEF Fetches
    <3> QED
      BY <1>1, <1>2, <3>1, <3>2, PassingKept
  <2>4. EdgeLoads'
    BY <1>1, <2>1, FetchesEdge
  <2> QED
    BY <1>3, <2>2, <2>3, <2>4
<1>10. ASSUME NEW r \in Replicas, \E c, u : Handles(r, c, u)
       PROVE  LoadsInv'
  <2>1. PICK c, u : Handles(r, c, u)
    BY <1>10
  <2>2. \E e : Turns(e)
    BY <1>1, <2>1, HandlesTurns
  <2>3. Kept'
    BY <1>1, <2>1, HandlesKept
  <2>4. EdgeLoads'
    BY <1>1, <2>1, HandlesEdge
  <2> QED
    BY <1>3, <2>2, <2>3, <2>4
<1>11. ASSUME NEW r \in Replicas, StartPulled(r) \/ EnqueueWork(r)
       PROVE  LoadsInv'
  BY <1>1, <1>10, <1>11, StartPulledHandles, EnqueueWorkHandles
<1>12. ASSUME NEW r \in Replicas, NEW h \in replica[r].serving, Complete(r, h)
       PROVE  LoadsInv'
  BY <1>1, <1>10, <1>12, CompleteHandles
<1>13. ASSUME NEW r \in Replicas, NEW q \in replica[r].calling, ChildReturns(r, q)
       PROVE  LoadsInv'
  BY <1>1, <1>10, <1>13, ChildReturnsHandles
<1>14. CASE EdgeRelease
  <2>1. ReleaseTaken
    BY <1>1, <1>14, EdgeReleaseIs
  <2>2. Besides
    BY <2>1 DEF ReleaseTaken, Besides
  <2>3. \E e : Turns(e)
    BY <1>1, <2>2, BesidesTurns
  <2>4. Kept'
    BY <1>1, <2>2, BesidesKept
  <2>5. EdgeLoads'
    BY <1>1, <2>1, ReleaseTakenEdge
  <2> QED
    BY <1>3, <2>3, <2>4, <2>5
<1>15. CASE UNCHANGED vars
  <2>1. Besides /\ config' = config /\ edge' = edge /\ inbox' = inbox /\ replica' = replica
    BY <1>15 DEF vars, Besides
  <2>2. \E e : Turns(e)
    BY <1>1, <2>1, BesidesTurns
  <2>3. Kept'
    BY <1>1, <2>1, BesidesKept
  <2>4. EdgeLoads'
    BY <1>1, <2>1, EdgeStays
  <2> QED
    BY <1>3, <2>2, <2>3, <2>4
<1>16. CASE Finished
  BY <1>15, <1>16 DEF Finished
<1> QED
  BY <1>4, <1>5, <1>6, <1>8, <1>9, <1>11, <1>12, <1>13, <1>14, <1>15, <1>16 DEF Next

(***************************************************************************)
(* The invariant behind the loads: what balancers and edge count is on its *)
(* way or with the sidecar, a call that waits has its intent, and an       *)
(* intent waits only for replicas that have no slot or will report.        *)
(***************************************************************************)
THEOREM LoadsInvariant == Spec => []LoadsInv
<1>1. Init => LoadsInv
  BY InitLoadsInv
<1>2. LoadsInv /\ [Next]_vars => LoadsInv'
  BY SpecKeepsLoadsInv
<1> QED
  BY <1>1, <1>2, PTL DEF Spec

(* Where a replica has q: in hand, or done *)
LEMMA InHandWhere ==
  ASSUME NEW r, NEW b, NEW v, Counted(r, b, v), NEW q, InHand(v, b, q) <= 1
  PROVE  (InHand(v, b, q) # 0 /\ q \notin v.done) <=>
           \/ \E i \in DOMAIN b : b[i] \in HopOf(q)
           \/ \E i \in DOMAIN v.queue : v.queue[i] \in HopOf(q)
           \/ \E h \in v.serving : h \in HopOf(q)
           \/ q \in v.calling
<1>1. PICK n, k, j, i, d :
           /\ n = Count(b, HopOf(q)) /\ k = Count(v.queue, HopOf(q))
           /\ j = Cardinality(v.serving \cap HopOf(q))
           /\ i = OneIf(q \in v.calling) /\ d = OneIf(q \in v.done)
  OBVIOUS
<1>2. n \in Nat /\ k \in Nat /\ j \in Nat /\ i \in {0, 1} /\ d \in {0, 1}
  BY <1>1, InHandParts
<1>3. n + k + j + i + d <= 1 /\ InHand(v, b, q) = n + k + j + i + d
  BY <1>1 DEF InHand
<1>4. b \in Seq(Work) /\ v.queue \in Seq(PlainWork) /\ IsFiniteSet(v.serving)
  BY DEF Counted, Working
<1>5. n # 0 <=> \E z \in DOMAIN b : b[z] \in HopOf(q)
  BY <1>1, <1>4, CountSome
<1>6. k # 0 <=> \E z \in DOMAIN v.queue : v.queue[z] \in HopOf(q)
  BY <1>1, <1>4, CountSome
<1>7. j # 0 <=> \E h \in v.serving : h \in HopOf(q)
  <2>1. IsFiniteSet(v.serving \cap HopOf(q))
    BY <1>4, SetPart
  <2>2. j = 0 <=> v.serving \cap HopOf(q) = {}
    BY <1>1, <2>1, FS_EmptySet
  <2> QED
    BY <2>2
<1>8. (i # 0 <=> q \in v.calling) /\ (d = 0 <=> q \notin v.done)
  BY <1>1 DEF OneIf
<1>9. (InHand(v, b, q) # 0 /\ d = 0) <=> (n # 0 \/ k # 0 \/ j # 0 \/ i # 0)
  BY ONLY <1>2, <1>3
<1> QED
  BY <1>5, <1>6, <1>7, <1>8, <1>9

LEMMA InsideIs ==
  ASSUME PullInv, NEW s \in Sidecars
  PROVE  Inside(s) = Entered(inbox, replica, s)
<1>1. Types /\ AllCounted /\ Placed
  BY DEF PullInv
<1>2. ASSUME NEW q \in Ingress, NEW r \in Members(s)
      PROVE  (At(q, inbox, replica, r) /\ q \notin replica[r].done) <=>
               \/ \E i \in DOMAIN inbox[ReplicaBox(r)] : inbox[ReplicaBox(r)][i] \in HopOf(q)
               \/ \E i \in DOMAIN replica[r].queue : replica[r].queue[i] \in HopOf(q)
               \/ \E h \in replica[r].serving : h \in HopOf(q)
               \/ q \in replica[r].calling
  <2>1. r \in Replicas /\ q \in Tasks
    BY DEF Members, Tasks
  <2>2. Sane(r, inbox[ReplicaBox(r)], replica[r])
    BY <1>1, <2>1, AllSane
  <2>3. Counted(r, inbox[ReplicaBox(r)], replica[r]) /\ InHand(replica[r], inbox[ReplicaBox(r)], q) <= 1
    BY <2>1, <2>2 DEF Sane
  <2> QED
    BY <2>3, InHandWhere DEF At
<1>3. ASSUME NEW q \in Ingress
      PROVE  Count(inbox[SidecarBox(s)], HopOf(q)) # 0 <=>
               \E i \in DOMAIN inbox[SidecarBox(s)] : inbox[SidecarBox(s)][i] \in HopOf(q)
  <2>1. inbox[SidecarBox(s)] \in Seq(SidecarMail(s))
    BY <1>1 DEF Types, Mailboxes
  <2> QED
    BY <2>1, CountSome
<1>4. PICK P : P = {SidecarBox(s)} \cup {ReplicaBox(r) : r \in Members(s)}
  OBVIOUS
<1>5. Inside(s) = {q \in Ingress :
         \/ \E x \in P : \E i \in DOMAIN inbox[x] : inbox[x][i] \in HopOf(q)
         \/ \E r \in Members(s) :
              \/ \E i \in DOMAIN replica[r].queue : replica[r].queue[i] \in HopOf(q)
              \/ \E h \in replica[r].serving : h \in HopOf(q)
              \/ q \in replica[r].calling}
  BY <1>4 DEF Inside
<1>6. ASSUME NEW q \in Ingress
      PROVE  q \in Inside(s) <=> With(q, inbox, replica, s)
  <2>1. (\E x \in P : \E i \in DOMAIN inbox[x] : inbox[x][i] \in HopOf(q)) <=>
          \/ \E i \in DOMAIN inbox[SidecarBox(s)] : inbox[SidecarBox(s)][i] \in HopOf(q)
          \/ \E r \in Members(s) : \E i \in DOMAIN inbox[ReplicaBox(r)] : inbox[ReplicaBox(r)][i] \in HopOf(q)
    BY <1>4
  <2> QED
    BY <1>2, <1>3, <1>5, <2>1 DEF With
<1> QED
  BY <1>5, <1>6 DEF Entered

(***************************************************************************)
(* pull_intent_load counts, per sidecar, the intents not yet answered, and *)
(* local_inflight of the edge the ingress tasks not yet finished           *)
(* (ReplicaBalancer::pull, EdgeBalancer::release, Replica::advance).       *)
(***************************************************************************)
THEOREM LoadsAreExact == Spec => []LoadsExact
<1>1. LoadsInv => LoadsExact
  <2> SUFFICES ASSUME LoadsInv, NEW s \in Sidecars
               PROVE  /\ \A c \in Clients :
                           client[c].pull_intent_load[s] =
                             Held(SidecarBox(s), IntentsOf(c)) + Held(ClientBox(c), Answers(s))
                             + Cardinality({i \in DOMAIN sidecar[s].pull_intents :
                                              sidecar[s].pull_intents[i] \in IntentsOf(c)})
                      /\ edge[s] = Cardinality(Inside(s)) + Held(EdgeBox, Releases(s))
    BY DEF LoadsExact
  <2>1. ASSUME NEW c \in Clients
        PROVE  client[c].pull_intent_load[s] =
                 Held(SidecarBox(s), IntentsOf(c)) + Held(ClientBox(c), Answers(s))
                 + Count(sidecar[s].pull_intents, IntentsOf(c))
    <3>1. client[c].pull_intent_load[s] =
            Count(inbox[SidecarBox(s)], IntentsOf(c)) + Count(sidecar[s].pull_intents, IntentsOf(c))
              + Count(inbox[ClientBox(c)], Answers(s))
      BY DEF LoadsInv, IntentLoads, Unanswered
    <3>2. /\ Count(inbox[SidecarBox(s)], IntentsOf(c)) \in Nat /\ Count(sidecar[s].pull_intents, IntentsOf(c)) \in Nat
          /\ Count(inbox[ClientBox(c)], Answers(s)) \in Nat
      BY IntentNumbers DEF LoadsInv, PullInv, Numbers
    <3>3. /\ Held(SidecarBox(s), IntentsOf(c)) = Count(inbox[SidecarBox(s)], IntentsOf(c))
          /\ Held(ClientBox(c), Answers(s)) = Count(inbox[ClientBox(c)], Answers(s))
      BY HeldIs
    <3> QED
      BY ONLY <3>1, <3>2, <3>3
  <2>2. edge[s] = Cardinality(Inside(s)) + Held(EdgeBox, Releases(s))
    BY InsideIs, HeldIs DEF LoadsInv, EdgeLoads
  <2> QED
    BY <2>1, <2>2 DEF Count
<1> QED
  BY <1>1, LoadsInvariant, PTL

(* A sidecar keeps no intent when nothing is under way. *)
LEMMA QuietKeepsNone ==
  ASSUME LoadsInv, Quiet
  PROVE  /\ \A s \in Sidecars : sidecar[s].pull_intents = <<>>
         /\ \A r \in Replicas : replica[r].queue = <<>>
         /\ \A c \in Clients : inbox[ClientBox(c)] = <<>>
         /\ \A s \in Sidecars : inbox[SidecarBox(s)] = <<>>
         /\ \A r \in Replicas : inbox[ReplicaBox(r)] = <<>>
<1>1. PullInv /\ Types /\ AllCounted /\ AllFull /\ Reported /\ Reserved /\ Kept
  BY DEF LoadsInv, PullInv
<1>2. /\ \A c \in Clients : inbox[ClientBox(c)] = <<>>
      /\ \A s \in Sidecars : inbox[SidecarBox(s)] = <<>>
      /\ \A r \in Replicas : inbox[ReplicaBox(r)] = <<>> /\ replica[r].serving = {}
  <2>1. Sidecars \subseteq AllSidecars
    BY <1>1 DEF Types, Sidecars, AllSidecars
  <2> QED
    BY <2>1 DEF Quiet, Boxes
<1>3. ASSUME NEW r \in Replicas
      PROVE  replica[r].queue = <<>> /\ replica[r].in_flight = 0
  <2>1. Cardinality(replica[r].serving) = replica[r].in_flight
    BY <1>1 DEF AllCounted, Counted
  <2>2. Cardinality(replica[r].serving) = 0
    BY <1>2, FS_EmptySet
  <2>3. replica[r].queue # <<>> => replica[r].in_flight >= MaxConcurrency
    BY <1>1 DEF AllFull, Full
  <2> QED
    BY <2>1, <2>2, <2>3, SidecarAssumption
<1>4. ASSUME NEW r \in Replicas
      PROVE  FreeSlots(sidecar[SidecarId(r)], r) # 0
  <2>1. SidecarId(r) \in Sidecars
    BY <1>1, MembersAre DEF Types
  <2>2. EventsOf(r) = <<>>
    BY <1>2, <2>1 DEF EventsOf
  <2>3. sidecar[SidecarId(r)].occupancy[r] = 0
    <3>1. Latest(EventsOf(r), r, OccOf(r), OccupancyLevel(replica[r]), Count(inbox[ReplicaBox(r)], PushedTasks))
      BY <1>1 DEF Reported, HeardOf, Heard
    <3>2. Count(EventsOf(r), Reports(r)) = 0 /\ Count(inbox[ReplicaBox(r)], PushedTasks) = 0
      BY <1>2, <2>2, CountEmpty
    <3>3. OccOf(r) = OccupancyLevel(replica[r])
      BY <3>1, <3>2 DEF Latest
    <3>4. OccupancyLevel(replica[r]) = 0
      BY <1>3 DEF OccupancyLevel
    <3> QED
      BY <3>3, <3>4 DEF OccOf
  <2>4. sidecar[SidecarId(r)].pending_pulls[r] = 0
    <3>1. PICK f : f = ClientMail(inbox)
      OBVIOUS
    <3>2. \A c \in Clients : f[c] = <<>>
      BY <1>2, <3>1 DEF ClientMail
    <3>3. Across(f, Clients, Pulls(r)) = 0
      BY <3>2, AcrossEmpty
    <3>4. Count(inbox[ReplicaBox(r)], PulledCalls) = 0 /\ Count(EventsOf(r), Arrivals(r)) = 0
      BY <1>2, <2>2, CountEmpty
    <3> QED
      BY <1>1, <3>1, <3>3, <3>4 DEF Reserved, UnderWay
  <2> QED
    BY <2>3, <2>4, SidecarAssumption DEF FreeSlots, FreeBeside
<1>5. ASSUME NEW s \in Sidecars
      PROVE  sidecar[s].pull_intents = <<>>
  <2>1. PICK r \in Members(s) : TRUE
    BY <1>1, MembersAre DEF Types
  <2>2. r \in Replicas /\ SidecarId(r) = s
    BY DEF Members
  <2>3. FreeSlots(sidecar[s], r) # 0 /\ ~Reporting(inbox[SidecarBox(s)], r)
    BY <1>2, <1>4, <2>2 DEF Reporting
  <2> QED
    BY <1>1, <2>3 DEF Kept
<1> QED
  BY <1>2, <1>3, <1>5

(***************************************************************************)
(* When nothing is left to do no task is left behind, whatever share and   *)
(* pull scheduling: an intent kept for want of a slot is answered when the *)
(* replica reports (capacity_event, report_occupancy_to_sidecar).          *)
(***************************************************************************)
THEOREM NothingIsStranded == Spec => []NothingStranded
<1>1. LoadsInv => NothingStranded
  <2> SUFFICES ASSUME LoadsInv, arrived = Tasks, Quiet
               PROVE  UNION {replica[r].done : r \in Replicas} = Tasks
    BY DEF NothingStranded
  <2>1. Types /\ AllCounted /\ Placed /\ Announced
    BY DEF LoadsInv, PullInv
  <2>2. /\ \A s \in Sidecars : sidecar[s].pull_intents = <<>>
        /\ \A r \in Replicas : replica[r].queue = <<>>
        /\ \A c \in Clients : inbox[ClientBox(c)] = <<>>
        /\ \A s \in Sidecars : inbox[SidecarBox(s)] = <<>>
        /\ \A r \in Replicas : inbox[ReplicaBox(r)] = <<>>
    BY QuietKeepsNone
  <2>3. ASSUME NEW c \in Clients
        PROVE  client[c].queue = <<>>
    <3>1. PICK f, g : f = SidecarBoxes(inbox) /\ g = IntentQueues(sidecar)
      OBVIOUS
    <3>2. \A s \in Sidecars : f[s] = <<>> /\ g[s] = <<>>
      BY <2>2, <3>1 DEF SidecarBoxes, IntentQueues
    <3>3. Across(f, Sidecars, IntentsOf(c)) = 0 /\ Across(g, Sidecars, IntentsOf(c)) = 0
      BY <3>2, AcrossEmpty
    <3>4. Len(client[c].queue) = Across(f, Sidecars, IntentsOf(c)) + Across(g, Sidecars, IntentsOf(c))
                                   + Len(inbox[ClientBox(c)])
      BY <2>1, <3>1 DEF Announced
    <3>5. Len(client[c].queue) = 0
      BY <2>2, <3>3, <3>4
    <3>6. client[c].queue \in Seq([task : Calls])
      BY <2>1 DEF Types, ClientState
    <3> QED
      BY ONLY <3>5, <3>6
  <2>4. ASSUME NEW q \in Tasks
        PROVE  \E r \in Replicas : q \in replica[r].done
    <3>1. PICK w : /\ Presence(q, Sidecars, client, replica, inbox, w)
                   /\ Single(w, SpotsOf(Sidecars), q \in arrived)
      BY <2>1 DEF Placed
    <3>2. PICK x \in SpotsOf(Sidecars) : w[x] = 1
      BY <3>1 DEF Single
    <3>3. \A c \in Clients : w[ClientBox(c)] = 0
      BY <2>3, <3>1, CountEmpty DEF Presence
    <3>4. \A s \in Sidecars : w[SidecarBox(s)] = 0
      BY <2>2, <3>1, CountEmpty DEF Presence
    <3>5. PICK r \in Replicas : x = ReplicaBox(r)
      BY <3>2, <3>3, <3>4 DEF SpotsOf
    <3>6. InHand(replica[r], inbox[ReplicaBox(r)], q) = 1
      BY <3>1, <3>2, <3>5 DEF Presence
    <3>7. Counted(r, inbox[ReplicaBox(r)], replica[r])
      BY <2>1 DEF AllCounted
    <3>8. /\ DOMAIN inbox[ReplicaBox(r)] = {} /\ DOMAIN replica[r].queue = {}
          /\ replica[r].serving = {} /\ replica[r].calling = {}
      BY <2>2 DEF Quiet
    <3>9. q \in replica[r].done
      BY <3>6, <3>7, <3>8, InHandWhere
    <3> QED
      BY <3>9
  <2>5. \A r \in Replicas : replica[r].done \subseteq Tasks
    BY <2>1 DEF Types, ReplicaState
  <2> QED
    BY <2>4, <2>5
<1> QED
  BY <1>1, LoadsInvariant, PTL
=============================================================================
