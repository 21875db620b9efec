----------------------- MODULE MicroservicesInvariant -----------------------
(***************************************************************************)
(* What is invariant in an `ms` run: where a request, a pull, an intent    *)
(* and a balancer's load can be found, and what one handler does to each,  *)
(* wherever it is.  Four invariants are made of it:                        *)
(*   Basics   types, slots and services, one place for each request;       *)
(*   Slots    every pull stands for one slot of its server;                *)
(*   Tickets  every intent stands for one call of its balancer;            *)
(*   Loads    every load a balancer compares is its open calls and the     *)
(*            releases under way to it.                                    *)
(* Slots needs EntriesApart: no API enters at a service that is called.    *)
(***************************************************************************)
EXTENDS Microservices, QueueLemmas

(* The places of a run *)
Places == Replicas \cup Balancers \cup {Sink}

Policies == SharedPolicies \cup OwnPolicies

-----------------------------------------------------------------------------
(* Types, for a run under policy p *)
(***************************************************************************)
(* No API enters where calls are made to: the call graphs of tests/ are    *)
(* like this.  What depends on it says so.                                 *)
(***************************************************************************)
EntriesApart == \A e \in Entries : ServiceOf[e] \notin AllTargets

PullPolicies == CentralPullPolicies \cup {"amphiqueue"}

Frames == {f \in Frame : ServiceOf[f.endpoint] = f.replica[1]}

Hopping == {h \in Hop : h.callers \in Seq(Frames)}

(* Upstream hops and returns of replica r *)
Work(p, r) ==
  {h \in Hopping :
     /\ h.kind \in {"upstream", "return"}
     /\ ServiceOf[h.endpoint] = r[1]
     /\ h.slot => h.kind = "upstream" /\ r \in Serving[p] /\ p \in PullPolicies
     /\ (h.kind = "upstream" /\ r \in Serving[p] /\ p \in PullPolicies /\ EntriesApart) => h.slot}

Queued(p, r) == {h \in Work(p, r) : h.slot => p = "jbsq"}

Intents(p, r) ==
  {m \in PullIntent : p = "amphiqueue" /\ m.lb \in Used[p] /\ r \in ServersOf[m.lb]}

(* h is a call that its caller sends to b and has not been dispatched. *)
Called(p, b, h) ==
  /\ h.callers # <<>> /\ h.callers[1].server = NoServer
  /\ h.callers[1].replica \in Replicas
  /\ h.endpoint \in Targets[h.callers[1].replica]
  /\ LbOf[p][h.callers[1].replica][h.endpoint] = b

(* Calls that wait at balancer b *)
Calls(p, b) ==
  {h \in Hopping : /\ h.kind = "call" /\ ~h.slot
                   /\ b \in Used[p] /\ ServiceOf[h.endpoint] = TargetOf(b)
                   /\ Called(p, b, h)}

Pulls(p, b) == {m \in Pull : p \in PullPolicies /\ b \in Used[p] /\ m.server \in ServersOf[b]}

Releases(p, b) == {m \in Release : b \in Used[p]}

Completions == [kind : {"completed"}, req : Requests]

Mail(p, x) ==
  IF x = Sink THEN Completions
  ELSE IF x \in Replicas THEN Work(p, x) \cup Intents(p, x)
  ELSE Calls(p, x) \cup Pulls(p, x) \cup Releases(p, x)

Mails(p) == UNION {Mail(p, x) : x \in Places}

Sends(p) == {o \in [to : Places, msg : Mails(p)] : o.msg \in Mail(p, o.to)}

(* Mailboxes *)
Boxes(p, bx) ==
  /\ bx = [x \in Places |-> bx[x]]
  /\ \A x \in Places : bx[x] \in Seq(Mail(p, x))

-----------------------------------------------------------------------------
(* What a replica's handlers are made of *)
OutSends(p, r) ==
  {o \in Sends(p) : /\ o.msg.kind \in {"call", "return", "completed", "release", "pull"}
                    /\ o.msg.kind = "pull" => o.msg.server = r}

PullSends(p, r) == {o \in OutSends(p, r) : o.msg.kind = "pull"}

(* Hops in service *)
FiniteWork(p, r) ==
  {S \in SUBSET Work(p, r) : IsFiniteSet(S) /\ \A h \in S : h.kind = "upstream"}

State(p, r) ==
  [queue : Seq(Queued(p, r)), in_flight : Nat, pending_pulls : Nat,
   pull_intents : Seq(Intents(p, r)), serving : FiniteWork(p, r),
   warm : Nat, out : Seq(OutSends(p, r))]

HopsOf(q) == {h \in Hop : h.req = q}

(* What makes request q be where it is *)
About(q) == HopsOf(q) \cup [kind : {"completed"}, req : {q}]

SentAbout(q) == [to : Places, msg : About(q)]

(* u is v but for what it sends. *)
ButSends(v, u) ==
  /\ u.queue = v.queue /\ u.in_flight = v.in_flight /\ u.pending_pulls = v.pending_pulls
  /\ u.pull_intents = v.pull_intents /\ u.serving = v.serving /\ u.warm = v.warm

(* u is v with one more send. *)
Posts(p, r, v, o, u) ==
  /\ u \in State(p, r) /\ ButSends(v, u) /\ o \in OutSends(p, r)
  /\ \A T : Count(u.out, T) = Count(v.out, T) + OneIf(o \in T) /\ Count(v.out, T) \in Nat

(* The sends of u go beyond those of v by one hop of q, or none, and no pull. *)
Sent(p, r, v, u, q, n) ==
  /\ u \in State(p, r)
  /\ ButSends(v, u)
  /\ \A a : Count(u.out, SentAbout(a)) = Count(v.out, SentAbout(a)) + (IF a = q THEN n ELSE 0)
  /\ \A T \in SUBSET PullSends(p, r) : Count(u.out, T) = Count(v.out, T)

-----------------------------------------------------------------------------
(***************************************************************************)
(* The calls open at server s of balancer b, under a push policy: each is  *)
(* known by its request and its depth, a = <<request, depth>>, and is held *)
(* open by the hop of the request, wherever that is.                       *)
(***************************************************************************)
(* The replicas whose calls go through balancer b *)
Callers(p, b) == {r \in Replicas : \E e \in Targets[r] : LbOf[p][r][e] = b}

(* Frames of calls that b sent to s *)
Naming(p, b, s) == {f \in Frame : f.server = s /\ f.replica \in Callers(p, b)}

Depths(p, b, s, c) == FromEnd(c, Naming(p, b, s))

(* Hops below call a: a frame of theirs names s. *)
Marked(p, b, s, a) == {h \in Hop : h.req = a[1] /\ a[2] \in Depths(p, b, s, h.callers)}

(* Returns from call a, on their way to its caller *)
Unpaid(s, a) ==
  {h \in Hop : h.kind = "return" /\ h.req = a[1] /\ Len(h.callers) = a[2] /\ h.release = s}

SentMarked(p, b, s, a) == [to : Places, msg : Marked(p, b, s, a)]
SentUnpaid(p, b, s, a) == [to : Callers(p, b), msg : Unpaid(s, a)]

(* The release that balancer b gets for server s *)
Freeing(b, s) == [to : {b}, msg : {[kind |-> "release", server |-> s]}]

(* What a replica sends for hop h when it goes on with it, o, holds the same calls open. *)
Passes(p, h, o) ==
  \A b \in Balancers : \A s \in ServersOf[b] :
    /\ o \notin Freeing(b, s)
    /\ \A a : OneIf(o \in SentMarked(p, b, s, a)) + OneIf(o \in SentUnpaid(p, b, s, a))
                = OneIf(h \in Marked(p, b, s, a))

(* Calls that what is sent holds open *)
SentOpen(p, b, s, a, out) == Count(out, SentMarked(p, b, s, a)) + Count(out, SentUnpaid(p, b, s, a))

(* The sends of u hold open what those of v do, and the calls of h if `with`, *)
(* and free server s of balancer b once more if `frees`.                      *)
Carries(p, v, u, h, b, s, with, frees) ==
  /\ Count(u.out, Freeing(b, s)) = Count(v.out, Freeing(b, s)) + OneIf(frees)
  /\ \A a : SentOpen(p, b, s, a, u.out)
              = SentOpen(p, b, s, a, v.out) + OneIf(with /\ h \in Marked(p, b, s, a))

(* u is v with what is sent for h. *)
Forwards(p, r, v, h, u) ==
  /\ Sent(p, r, v, u, h.req, 1)
  /\ \E o : Posts(p, r, v, o, u) /\ Passes(p, h, o)

(* Hops whose return frees server s of balancer b at replica r *)
FreedBy(p, b, s, r) == {h \in Hop : h.release = s /\ r \in Callers(p, b)}

(* The returns of `list` are handled one after the other. *)
ReturnsHandled(v, r, list) == FoldLeft(LAMBDA x, h : HandleReturn(x, r, h), v, list)

Returns(p, r) == {h \in Work(p, r) : h.kind = "return"}

(* The calls that u holds open and the servers it frees, after the first k returns *)
Repaid(p, r, v, u, list, k) ==
  \A b \in Balancers : \A s \in ServersOf[b] :
    /\ Count(u.out, Freeing(b, s)) = Count(v.out, Freeing(b, s)) + Between(list, 1, k, FreedBy(p, b, s, r))
    /\ \A a : SentOpen(p, b, s, a, u.out)
                = SentOpen(p, b, s, a, v.out) + Between(list, 1, k, Marked(p, b, s, a))

(* u is v with what handling the first k returns sends. *)
Returned(p, r, v, u, list, k) ==
  /\ Repaid(p, r, v, u, list, k)
  /\ u \in State(p, r) /\ ButSends(v, u)
  /\ \A a : Count(u.out, SentAbout(a)) = Count(v.out, SentAbout(a)) + Between(list, 1, k, About(a))
  /\ \A T \in SUBSET PullSends(p, r) : Count(u.out, T) = Count(v.out, T)

ReturnTable(g, v, r, list) ==
  g = [x \in SUBSET (1 .. Len(list)) |->
         IF x = {} THEN v ELSE HandleReturn(g[x \ {Max(x)}], r, list[Max(x)])]

Upstreams == {h \in Hop : h.kind = "upstream"}

(* Where request a is in a replica's state, and among what it sends *)
Load(v, a) ==
  Count(v.queue, About(a)) + Cardinality(v.serving \cap About(a)) + Count(v.out, SentAbout(a))

(* u has one more service than v. *)
Begun(p, r, v, h, u) ==
  /\ u \in State(p, r)
  /\ u.queue = v.queue /\ u.pending_pulls = v.pending_pulls /\ u.pull_intents = v.pull_intents
  /\ u.warm = v.warm /\ u.out = v.out
  /\ u.in_flight = v.in_flight + 1 /\ u.serving = v.serving \cup {h}
  /\ Cardinality(u.serving) = Cardinality(v.serving) + 1
  /\ \A a : Load(u, a) = Load(v, a) + OneIf(h \in About(a))

(* Returns from call a that replica r is the caller of *)
Freed(p, b, s, a, r) == {h \in Unpaid(s, a) : r \in Callers(p, b)}

(* Whether replica r, in state v, holds call a open *)
Owing(p, r, v, b, s, a) ==
  Count(v.queue, Marked(p, b, s, a)) + Count(v.queue, Freed(p, b, s, a, r))
    + Cardinality(v.serving \cap Marked(p, b, s, a)) + SentOpen(p, b, s, a, v.out)

AllReturns(p, r, q, k) == \A j \in 1 .. k : q[j] \in Returns(p, r)

(* u is v with the first k of its queue, returns, handled: they free their servers. *)
Paid(p, r, v, u, k) ==
  \A b \in Balancers : \A s \in ServersOf[b] :
    /\ Count(u.out, Freeing(b, s)) = Count(v.out, Freeing(b, s)) + Between(v.queue, 1, k, FreedBy(p, b, s, r))
    /\ \A a : Owing(p, r, u, b, s, a) + Between(v.queue, 1, k, Freed(p, b, s, a, r)) = Owing(p, r, v, b, s, a)

(* c is v without the first k of its queue. *)
Behead(v, c, k) ==
  /\ c.serving = v.serving /\ c.out = v.out
  /\ \A T : Count(v.queue, T) = Between(v.queue, 1, k, T) + Count(c.queue, T)

SameHead(q, list, k) == \A T : Between(list, 1, k, T) = Between(q, 1, k, T)

(* The returns at the head of v's queue, if they were handled, are all that u has paid for. *)
Pays(p, r, v, u) ==
  \E k \in 0 .. Len(v.queue) : AllReturns(p, r, v.queue, k) /\ Paid(p, r, v, u, k)

(* A service begins: the hop that was at the head of the queue is served. *)
TakenUp(u, h, w) ==
  /\ w.out = u.out /\ h \notin u.serving /\ w.serving = u.serving \cup {h}
  /\ \A T : Count(u.queue, T) = Count(w.queue, T) + OneIf(h \in T)

(* What drain_queue leaves alone, and what it changes *)
Drained(p, r, v, u) ==
  /\ u \in State(p, r) /\ Pays(p, r, v, u)
  /\ u.pending_pulls = v.pending_pulls /\ u.pull_intents = v.pull_intents /\ u.warm = v.warm
  /\ \A T \in SUBSET PullSends(p, r) : Count(u.out, T) = Count(v.out, T)
  /\ \A a : Load(u, a) = Load(v, a)
  /\ u.in_flight + Cardinality(v.serving) = v.in_flight + Cardinality(u.serving)
  /\ u.in_flight = v.in_flight \/ (u.in_flight = v.in_flight + 1 /\ u.in_flight <= MaxConcurrency)
  /\ u.in_flight + Count(u.queue, Upstreams) = v.in_flight + Count(v.queue, Upstreams)
  /\ (v.in_flight + 1 >= MaxConcurrency \/ Len(v.queue) <= 1) /\ u.queue # <<>>
       => u.in_flight >= MaxConcurrency

(* The first upstream hop of a queue, and the returns before it *)
FirstUpstream(q) == SelectInSeq(q, LAMBDA h : h.kind = "upstream")

(* The returns at the head, and the queue behind them *)
HeadHandled(v, r, k) ==
  ReturnsHandled([v EXCEPT !.queue = SubSeq(@, k + 1, Len(@))], r, SubSeq(v.queue, 1, k))

HeadGone(p, r, v, k, u) ==
  /\ u \in State(p, r)
  /\ u.pending_pulls = v.pending_pulls /\ u.pull_intents = v.pull_intents /\ u.warm = v.warm
  /\ u.in_flight = v.in_flight /\ u.serving = v.serving
  /\ u.queue = SubSeq(v.queue, k + 1, Len(v.queue)) /\ Len(u.queue) = Len(v.queue) - k
  /\ \A T \in SUBSET PullSends(p, r) : Count(u.out, T) = Count(v.out, T)
  /\ \A a : Load(u, a) = Load(v, a)
  /\ Count(u.queue, Upstreams) = Count(v.queue, Upstreams)
  /\ Paid(p, r, v, u, k)

Keys == Requests \X Nat

(* Servers are freed from v to u once for each of some calls, which are not open any more. *)
Clears(p, r, v, u) ==
  \A b \in Balancers : \A s \in ServersOf[b] : \E F \in SUBSET Keys :
    /\ IsFiniteSet(F)
    /\ Count(u.out, Freeing(b, s)) = Count(v.out, Freeing(b, s)) + Cardinality(F)
    /\ \A a \in Keys : Owing(p, r, u, b, s, a) + OneIf(a \in F) = Owing(p, r, v, b, s, a)

(* The calls that the hops of a queue return from *)
KeyAt(q) == [i \in 1 .. Len(q) |-> <<q[i].req, Len(q[i].callers)>>]

(* c is v with hop h come, or gone on. *)
Takes(p, r, v, h, c) ==
  \A b \in Balancers : \A s \in ServersOf[b] :
    /\ Count(c.out, Freeing(b, s)) = Count(v.out, Freeing(b, s))
    /\ \A a : Owing(p, r, c, b, s, a)
                = Owing(p, r, v, b, s, a) + OneIf(h \in Marked(p, b, s, a)) + OneIf(h \in Freed(p, b, s, a, r))

(* From v to w hop h comes, or goes on, and servers are freed for calls not open any more. *)
Moves(p, r, v, h, w) ==
  \A b \in Balancers : \A s \in ServersOf[b] : \E F \in SUBSET Keys :
    /\ IsFiniteSet(F)
    /\ Count(w.out, Freeing(b, s)) = Count(v.out, Freeing(b, s)) + Cardinality(F)
    /\ \A a \in Keys : Owing(p, r, w, b, s, a) + OneIf(a \in F)
                         = Owing(p, r, v, b, s, a) + OneIf(h \in Marked(p, b, s, a))
                             + OneIf(h \in Freed(p, b, s, a, r))

(* w is v after the messages of `in`: servers are freed for calls not open any more. *)
Squared(p, r, v, in, w) ==
  \A b \in Balancers : \A s \in ServersOf[b] : \E F \in SUBSET Keys :
    /\ IsFiniteSet(F)
    /\ Count(w.out, Freeing(b, s)) = Cardinality(F)
    /\ \A a \in Keys : Owing(p, r, w, b, s, a) + OneIf(a \in F)
                         = Owing(p, r, v, b, s, a) + Count(in, Marked(p, b, s, a))
                             + Count(in, Freed(p, b, s, a, r))

-----------------------------------------------------------------------------
(* Queues in deadline order, and pulls *)
(* u is v with j more pulls sent, but for what counts them. *)
Asks(p, r, v, u, j) ==
  /\ u \in State(p, r) /\ j \in Nat
  /\ u.queue = v.queue /\ u.in_flight = v.in_flight /\ u.serving = v.serving /\ u.warm = v.warm
  /\ \A a : Load(u, a) = Load(v, a)
  /\ Count(u.out, PullSends(p, r)) = Count(v.out, PullSends(p, r)) + j

(* How many pulls fill up to --jbsq-n *)
Short(v) == JbsqN - JbsqOccupancy(v) - v.pending_pulls

PullsUpTo(v, most) == Max({0, Min({most, Short(v)})})

(* u is v with as many pulls sent, and counted, as there is room for. *)
Filled(p, r, v, u, most) ==
  LET j == IF Short(v) <= 0 THEN 0 ELSE IF Short(v) < most THEN Short(v) ELSE most IN
  /\ Asks(p, r, v, u, j)
  /\ u.pending_pulls = v.pending_pulls + j /\ u.pull_intents = v.pull_intents
  /\ Short(v) \in Int

(* Intents of balancer b for the requests of Q, and the pulls they become *)
Ann(b, Q) == {m \in PullIntent : m.lb = b /\ m.req \in Q}

AskTo(p, r, b, Q) == {o \in PullSends(p, r) : o.to = b /\ o.msg.req \in Q}

(* Intents that are open at r, or turned into a pull by what v sends *)
Announced(p, r, v, b, Q) == Count(v.pull_intents, Ann(b, Q)) + Count(v.out, AskTo(p, r, b, Q))

(* What drain_pull_intents_async does to v *)
Drawn(p, r, v, u) ==
  \/ u = v /\ (v.in_flight + v.pending_pulls >= MaxConcurrency \/ v.pull_intents = <<>>)
  \/ /\ v.in_flight + v.pending_pulls < MaxConcurrency /\ v.pull_intents # <<>>
     /\ Asks(p, r, v, u, 1)
     /\ u.pending_pulls = v.pending_pulls + 1
     /\ Len(u.pull_intents) = Len(v.pull_intents) - 1
     /\ \A b, Q : Announced(p, r, u, b, Q) = Announced(p, r, v, b, Q)

-----------------------------------------------------------------------------
(***************************************************************************)
(* What a handler of replica r does, that takes the messages of `in` (one  *)
(* or none) in state v and ends in w: nothing is lost, work is not left    *)
(* waiting, and intents are answered by pulls.                             *)
(***************************************************************************)
Exact(v) == v.in_flight = Cardinality(v.serving)

Busy(v) == v.queue # <<>> => v.in_flight >= MaxConcurrency

Handled(p, r, v, in, w) ==
  /\ w \in State(p, r)
  /\ \A a : Load(w, a) = Load(v, a) + Count(in, About(a))
  /\ Exact(w) /\ Busy(w) /\ w.warm <= v.warm
  /\ p = "amphiqueue" => \A b, Q :
       Announced(p, r, w, b, Q) = Announced(p, r, v, b, Q) + Count(in, Ann(b, Q))

(***************************************************************************)
(* The slots and the pulls of replica r in state v, with `open` pulls or   *)
(* pulled calls under way to it                                            *)
(***************************************************************************)
Accounts(p, r, v, open) ==
  /\ v.in_flight <= MaxConcurrency
  /\ r \in Serving[p] =>
       /\ p = "centralized" => v.warm + open + v.in_flight = MaxConcurrency
       /\ p \in {"jbsq", "amphiqueue"} => v.pending_pulls = open
       /\ p = "amphiqueue" => v.in_flight + v.pending_pulls <= MaxConcurrency
       /\ p = "amphiqueue" /\ v.pull_intents # <<>> =>
            v.in_flight + v.pending_pulls >= MaxConcurrency
       /\ p = "jbsq" => Short(v) >= 0 /\ v.warm >= Short(v)

Pulled == {h \in Hop : h.kind = "upstream" /\ h.slot}

Keeps(p, r, v, in, w) ==
  \A o1, o2 \in Nat :
    Accounts(p, r, v, o1) /\ o2 + Count(in, Pulled) = o1 + Count(w.out, PullSends(p, r))
      => Accounts(p, r, w, o2)

(* What holds when a handler of r is called *)
Ready(p, r, v, in) ==
  /\ v \in State(p, r) /\ v.out = <<>>
  /\ Exact(v) /\ Busy(v)
  /\ \A a \in Requests : Load(v, a) + Count(in, About(a)) <= 1

Done(p, r, v, in, w) ==
  /\ Handled(p, r, v, in, w)
  /\ EntriesApart => Keeps(p, r, v, in, w)
  /\ p \in PushPolicies => Squared(p, r, v, in, w)

(* The hop h joins the queue, d pulls are under way, and the queue is drained. *)
Joined(p, r, v, h, d, w) ==
  /\ w \in State(p, r) /\ w.pending_pulls = d /\ w.pull_intents = v.pull_intents /\ w.warm = v.warm
  /\ \A T \in SUBSET PullSends(p, r) : Count(w.out, T) = 0
  /\ \A a : Load(w, a) = Load(v, a) + Count(<<h>>, About(a))
  /\ Exact(w) /\ Busy(w)
  /\ w.in_flight = v.in_flight \/ (w.in_flight = v.in_flight + 1 /\ w.in_flight <= MaxConcurrency)
  /\ JbsqOccupancy(w) = JbsqOccupancy(v) + OneIf(h \in Upstreams)
  /\ Moves(p, r, v, h, w)

(* The initial pulls are those of replicas that pull under a central queue. *)
Warms(p, r, v) == v.warm > 0 => r \in Serving[p] /\ p \in CentralPullPolicies

RequestPullState(v, r) ==
  LET u == [v EXCEPT !.warm = @ - 1] IN
  IF UsesJbsq(r) THEN JbsqPulls(u, r, 1)
  ELSE IF u.in_flight < MaxConcurrency THEN Post(u, PullFrom(r), CentralPull(r)) ELSE u

(* The service of h has ended. *)
Ended(p, r, v, h, c) ==
  /\ c \in State(p, r)
  /\ c.queue = v.queue /\ c.pending_pulls = v.pending_pulls /\ c.pull_intents = v.pull_intents
  /\ c.warm = v.warm /\ c.out = v.out
  /\ c.in_flight + 1 = v.in_flight /\ Exact(c)
  /\ \A b, s, a : Owing(p, r, c, b, s, a) + OneIf(h \in Marked(p, b, s, a)) = Owing(p, r, v, b, s, a)
  /\ \A a : Load(c, a) + OneIf(h \in About(a)) = Load(v, a)

(* What a served pulled call triggers *)
PullCount(p, r, v) == Count(v.out, PullSends(p, r))

Silent(p, r, c, b) ==
  /\ b.pending_pulls = c.pending_pulls /\ b.pull_intents = c.pull_intents
  /\ PullCount(p, r, b) = PullCount(p, r, c)

Followed(p, r, h, c, b) ==
  /\ b \in State(p, r)
  /\ b.queue = c.queue /\ b.in_flight = c.in_flight /\ b.serving = c.serving /\ b.warm = c.warm
  /\ ~h.slot => b = c
  /\ \A a : Load(b, a) = Load(c, a)
  /\ p = "amphiqueue" => \A d, Q : Announced(p, r, b, d, Q) = Announced(p, r, c, d, Q)
  /\ ~h.slot \/ p \notin {"centralized", "amphiqueue"} => Silent(p, r, c, b)
  /\ h.slot /\ p = "centralized" => PullCount(p, r, b) = PullCount(p, r, c) + 1
  /\ h.slot /\ p = "amphiqueue" =>
       \/ /\ Silent(p, r, c, b)
          /\ c.in_flight + c.pending_pulls >= MaxConcurrency \/ c.pull_intents = <<>>
       \/ /\ c.in_flight + c.pending_pulls < MaxConcurrency /\ c.pull_intents # <<>>
          /\ b.pending_pulls = c.pending_pulls + 1
          /\ PullCount(p, r, b) = PullCount(p, r, c) + 1

(* The replica goes on with h, and takes what waits for the slot. *)
GoesOn(p, r, h, b, s) ==
  /\ s \in State(p, r)
  /\ s.pending_pulls = b.pending_pulls /\ s.pull_intents = b.pull_intents /\ s.warm = b.warm
  /\ \A T \in SUBSET PullSends(p, r) : Count(s.out, T) = Count(b.out, T)
  /\ \A a : Load(s, a) = Load(b, a) + OneIf(h \in About(a))
  /\ Exact(s) /\ Busy(s)
  /\ s.in_flight = b.in_flight \/ (s.in_flight = b.in_flight + 1 /\ s.in_flight <= MaxConcurrency)
  /\ JbsqOccupancy(s) = JbsqOccupancy(b)
  /\ Moves(p, r, b, h, s)

(* A service less than all, if anything waits *)
OneFree(b) == b.queue # <<>> => b.in_flight + 1 >= MaxConcurrency

GoneOn(b, r, h) == DrainQueue(Advance(b, r, [h EXCEPT !.slot = FALSE, !.sibling = 0]), r)

CompleteState(v, r, h) ==
  LET c == [v EXCEPT !.in_flight = SaturatingDec(@), !.serving = @ \ {h}]
      b == IF h.slot THEN AfterPulled(ReleaseOutbound(c, r, r), r) ELSE c
      s == GoneOn(b, r, h)
  IN IF UsesJbsq(r) THEN JbsqPulls(s, r, JbsqN) ELSE s

(* A completion up to the pulls at its end, from v to s *)
Goes(p, r, v, h, s) ==
  \E c, b : Ended(p, r, v, h, c) /\ Followed(p, r, h, c, b) /\ GoesOn(p, r, h, b, s)

-----------------------------------------------------------------------------
(* A handler's message, and what it sends *)
(* The handler at x takes the messages of `in`, one or none, off mailboxes bx. *)
Taken(bx, x, in, boxes) ==
  \/ in = <<>> /\ boxes = bx
  \/ bx[x] # <<>> /\ in = <<Head(bx[x])>> /\ boxes = [bx EXCEPT ![x] = Tail(@)]

(* by is bx without the messages of `in`, taken at x, and with those of `out`. *)
Ledger(p, x, in, out, bx, by) ==
  /\ Boxes(p, by)
  /\ \A D \in SUBSET Places : \A T :
       Across(by, D, T) + (IF x \in D THEN Count(in, T) ELSE 0)
         = Across(bx, D, T) + Count(out, [to : D, msg : T])

-----------------------------------------------------------------------------
(***************************************************************************)
(* The state of a run: replicas rp, balancers lb, mailboxes bx, under      *)
(* policy p                                                                *)
(***************************************************************************)
Held(p, b) == {h \in Calls(p, b) : p \in PullPolicies}

Parked(p, b) == {s \in ServersOf[b] : b \in Used[p] /\ p \in CentralPullPolicies}

Lb(p, b) == [queue : Seq(Held(p, b)), inflight : [ServersOf[b] -> Nat],
             pull_intent_load : [ServersOf[b] -> Nat], waiting : Seq(Parked(p, b))]

(* Between handlers *)
Resting(p, r, v) == v \in State(p, r) /\ v.out = <<>>

ReplicasTyped(p, rp) ==
  /\ FunOn(rp, Replicas)
  /\ \A r \in Replicas : Resting(p, r, rp[r])

BalancersTyped(p, lb) ==
  /\ FunOn(lb, Balancers)
  /\ \A b \in Balancers : lb[b] \in Lb(p, b)

QueuesOf(x, D) == [d \in D |-> x[d].queue]
ServingSets(rp) == [r \in Replicas |-> rp[r].serving]

(* Where request a is *)
Where(rp, lb, bx, a) ==
  Across(bx, Places, About(a)) + Across(QueuesOf(rp, Replicas), Replicas, About(a))
    + Across(QueuesOf(lb, Balancers), Balancers, About(a)) + Within(ServingSets(rp), Replicas, About(a))

(* What a replica's handler changes *)
Became(rp, r, w) == [rp EXCEPT ![r] = [w EXCEPT !.out = <<>>]]

Placed(arr, rp, lb, bx) == \A a \in Requests : Where(rp, lb, bx, a) = OneIf(a \in arr)

(* A replica's slots count its services, and none is free while work waits. *)
Steady(p, r, v) == Exact(v) /\ Busy(v) /\ Warms(p, r, v)

AllSteady(p, rp) == \A r \in Replicas : Steady(p, r, rp[r])

(* No call waits where a server is parked. *)
Apart(v) == v.queue = <<>> \/ v.waiting = <<>>

AllApart(lb) == \A b \in Balancers : Apart(lb[b])

Basics ==
  /\ config \in Configs
  /\ arrived \subseteq Requests
  /\ ReplicasTyped(policy, replica) /\ BalancersTyped(policy, balancer) /\ Boxes(policy, inbox)
  /\ AllSteady(policy, replica) /\ AllApart(balancer)
  /\ Placed(arrived, replica, balancer, inbox)

(* A handler of r takes the messages of `in`, if any, and ends in state w. *)
Handles(r, in, boxes, w) ==
  /\ Taken(inbox, r, in, boxes)
  /\ Done(policy, r, replica[r], in, w)
  /\ Becomes(r, w, boxes)

-----------------------------------------------------------------------------
(* What a balancer's handlers are made of *)
AskBy(s) == {m \in Pull : m.server = s}

(* A call that balancer b dispatches to server s *)
Dispatch(p, h, s, d) ==
  /\ d \in Work(p, s) /\ d.kind = "upstream" /\ d.req = h.req
  /\ d.slot <=> p \in PullPolicies
  /\ [to |-> s, msg |-> d] \in Sends(p)
  /\ s \in Replicas /\ s \in Places

-----------------------------------------------------------------------------
(***************************************************************************)
(* What a handler of balancer b does in state u with message m: it ends in *)
(* state v and sends `out`.  No hop is lost, and a call that is dispatched *)
(* answers a pull that came or that was parked.                            *)
(***************************************************************************)
Routed(p, b, u, m, v, out) ==
  /\ v \in Lb(p, b) /\ out \in Seq(Sends(p)) /\ Apart(v)
  /\ \A a : Count(v.queue, About(a)) + Count(out, SentAbout(a))
              = Count(u.queue, About(a)) + OneIf(m \in About(a))
  /\ \A s \in Replicas : OneIf(m \in AskBy(s)) + Count(u.waiting, {s})
                           = Count(v.waiting, {s}) + Count(out, [to : {s}, msg : Pulled])
  /\ \A D, s : Count(out, [to : D, msg : AskBy(s)]) = 0

(* `out` is a call dispatched to server s. *)
SendsCall(p, h, s, out) ==
  /\ out \in Seq(Sends(p))
  /\ \A a : Count(out, SentAbout(a)) = OneIf(h \in About(a))
  /\ \A x : Count(out, [to : {x}, msg : Pulled]) = OneIf(x = s /\ p \in PullPolicies)
  /\ \A D, x : Count(out, [to : D, msg : AskBy(x)]) = 0

(* What QueueCall makes of a balancer's state, and what it sends *)
QueuedState(u, q, w, k) ==
  [u EXCEPT !.queue = SubSeq(q, k + 1, Len(q)), !.waiting = SubSeq(w, k + 1, Len(w)),
            !.inflight = [s \in DOMAIN @ |-> @[s] + Cardinality({i \in 1 .. k : w[i] = s})]]

QueuedSends(q, w, k) == [i \in 1 .. k |-> [to |-> w[i], msg |-> Dispatched(q[i], w[i])]]

(* v is u with the calls of q and the servers of w behind the first k. *)
Behind(p, b, v, q, w, k) ==
  /\ v \in Lb(p, b)
  /\ v.queue = SubSeq(q, k + 1, Len(q))
  /\ v.waiting = SubSeq(w, k + 1, Len(w))

(* The call at position i taken by a pull of server s *)
TakenState(u, i, s) ==
  [u EXCEPT !.queue = RemoveAt(@, i), !.pull_intent_load[s] = SaturatingDec(@),
            !.inflight[s] = @ + 1]

WithoutCall(p, b, u, i, s, v) ==
  /\ v \in Lb(p, b) /\ v.waiting = u.waiting
  /\ v.pull_intent_load = [u.pull_intent_load EXCEPT ![s] = SaturatingDec(@)]
  /\ u.queue[i] \in Held(p, b)
  /\ \A T : Count(u.queue, T) = Count(v.queue, T) + OneIf(u.queue[i] \in T)
  /\ Len(u.queue) = Len(v.queue) + 1 /\ Len(v.queue) \in Nat

-----------------------------------------------------------------------------
(* A handler of b takes message m and ends in state v. *)
RoutesFrom(b, m, v, out) ==
  /\ inbox[b] # <<>> /\ m = Head(inbox[b])
  /\ Routed(policy, b, balancer[b], m, v, out)
  /\ Routes(b, v, out)

-----------------------------------------------------------------------------
(* What a balancer's handler changes *)
Rerouted(lb, b, v) == [lb EXCEPT ![b] = v]

-----------------------------------------------------------------------------
(* The initial state *)
NewReplica(n) ==
  [queue |-> <<>>, in_flight |-> 0, pending_pulls |-> 0, pull_intents |-> <<>>,
   serving |-> {}, warm |-> n, out |-> <<>>]

NewBalancer(b) ==
  [queue |-> <<>>, inflight |-> [s \in ServersOf[b] |-> 0],
   pull_intent_load |-> [s \in ServersOf[b] |-> 0], waiting |-> <<>>]

-----------------------------------------------------------------------------
(* An arrival *)
ArrivalAt(q) ==
  [kind |-> "upstream", req |-> q, endpoint |-> Root[q], sibling |-> 0,
   callers |-> <<>>, slot |-> FALSE, release |-> NoServer]

-----------------------------------------------------------------------------
(***************************************************************************)
(* Pulls and pulled calls under way to replica s: asked for in a mailbox,  *)
(* parked at a balancer, or a call in the replica's own mailbox            *)
(***************************************************************************)
Waits(lb) == [b \in Balancers |-> lb[b].waiting]

Open(p, lb, bx, s) ==
  Across(bx, Used[p], AskBy(s)) + Across(Waits(lb), Used[p], {s}) + Across(bx, {s}, Pulled)

Accounted(p, rp, lb, bx) == \A r \in Replicas : Accounts(p, r, rp[r], Open(p, lb, bx, r))

(* What a replica's handler sends *)
OutCounts(p, r, out) ==
  /\ \A s : Count(out, [to : Used[p], msg : AskBy(s)])
              = IF s = r THEN Count(out, PullSends(p, r)) ELSE 0
  /\ \A D : Count(out, [to : D, msg : Pulled]) = 0
  /\ \A D, b, Q : Count(out, [to : D, msg : Ann(b, Q)]) = 0
  /\ Count(out, PullSends(p, r)) \in Nat

(* What a handler of r, that takes `in` and sends `out`, does to what is under way to s *)
Opens(p, r, in, out, lb, bx, by, s) ==
  Open(p, lb, by, s) + (IF s = r THEN Count(in, Pulled) ELSE 0)
    = Open(p, lb, bx, s) + (IF s = r THEN Count(out, PullSends(p, r)) ELSE 0)

-----------------------------------------------------------------------------
(* Slots and pulls are accounted for. *)
Slots == Accounted(policy, replica, balancer, inbox)

-----------------------------------------------------------------------------
(***************************************************************************)
(* amphiqueue: the intents of balancer b for the requests of Q that are    *)
(* under way to the replicas of S, wait there, or come back as pulls       *)
(***************************************************************************)
Ids == Requests \cup {NoServer}

Ask(S, Q) == {m \in Pull : m.server \in S /\ m.req \in Q}

IntentsOf(rp) == [r \in Replicas |-> rp[r].pull_intents]

Owed(rp, bx, b, S, Q) ==
  Across(bx, S, Ann(b, Q)) + Across(IntentsOf(rp), S, Ann(b, Q)) + Across(bx, {b}, Ask(S, Q))

(* Every call in u's queue is announced, and no other. *)
Met(u, rp, bx, b, bound) ==
  /\ \A s \in ServersOf[b] : u.pull_intent_load[s] = Owed(rp, bx, b, {s}, Ids)
  /\ Len(u.queue) = Owed(rp, bx, b, ServersOf[b], Ids)
  /\ bound => \A q \in Ids : Count(u.queue, HopsOf(q)) = Owed(rp, bx, b, ServersOf[b], {q})

(* Pulls that r sends to b, among those from the replicas of S *)
AskedTo(p, r, out, b, S, Q) ==
  Count(out, [to : {b}, msg : Ask(S, Q)]) = IF r \in S THEN Count(out, AskTo(p, r, b, Q)) ELSE 0

(***************************************************************************)
(* A handler of balancer d, under amphiqueue, that takes message m in      *)
(* state u and ends in v with sends `out`: each call that joins the queue  *)
(* is announced, each that leaves answers a pull.                          *)
(***************************************************************************)
Settles(d, u, m, v, out, bound) ==
  /\ \A s \in ServersOf[d] :
       v.pull_intent_load[s] + OneIf(m \in Ask({s}, Ids))
         = u.pull_intent_load[s] + Count(out, [to : {s}, msg : Ann(d, Ids)])
  /\ Len(v.queue) + OneIf(m \in Ask(ServersOf[d], Ids))
       = Len(u.queue) + Count(out, [to : ServersOf[d], msg : Ann(d, Ids)])
  /\ bound => \A q \in Ids :
       Count(v.queue, HopsOf(q)) + OneIf(m \in Ask(ServersOf[d], {q}))
         = Count(u.queue, HopsOf(q)) + Count(out, [to : ServersOf[d], msg : Ann(d, {q})])
  /\ \A b, S, Q : b # d => Count(out, [to : S, msg : Ann(b, Q)]) = 0
  /\ \A b \in Balancers : \A S, Q : Count(out, [to : {b}, msg : Ask(S, Q)]) = 0

OwedMoved(rp, bx, by, d, m, out, b, S, Q) ==
  /\ b # d => Owed(rp, by, b, S, Q) = Owed(rp, bx, b, S, Q)
  /\ b = d => Owed(rp, by, b, S, Q) + OneIf(m \in Ask(S, Q))
                = Owed(rp, bx, b, S, Q) + Count(out, [to : S, msg : Ann(d, Q)])
  /\ Owed(rp, by, b, S, Q) \in Nat /\ Owed(rp, bx, b, S, Q) \in Nat
  /\ Count(out, [to : S, msg : Ann(d, Q)]) \in Nat /\ OneIf(m \in Ask(S, Q)) \in Nat

Announce(b, s, q) == [to |-> s, msg |-> [kind |-> "intent", lb |-> b, req |-> q]]

AnnouncedOnce(d, s, q, out) ==
  /\ \A b, S, Q : Count(out, [to : S, msg : Ann(b, Q)]) = OneIf(b = d /\ s \in S /\ q \in Q)
  /\ \A b, S, Q : Count(out, [to : {b}, msg : Ask(S, Q)]) = 0

-----------------------------------------------------------------------------
(* Every step keeps the intents and the calls together. *)
Bound == config.pull_sched = "bound"

Tickets ==
  policy = "amphiqueue" =>
    \A b \in Balancers : Met(balancer[b], replica, inbox, b, Bound)

Settling(b, m, v, out) ==
  RoutesFrom(b, m, v, out) /\ Settles(b, balancer[b], m, v, out, Bound)

-----------------------------------------------------------------------------
(* The load that a balancer compares *)
(* How often a call is held open: hops below it, and returns from it to its callers C *)
Carried(rp, bx, M) ==
  Across(bx, Places, M) + Across(QueuesOf(rp, Replicas), Replicas, M)
    + Within(ServingSets(rp), Replicas, M)

Due(rp, bx, C, U) == Across(bx, C, U) + Across(QueuesOf(rp, Replicas), C, U)

Holding(p, rp, bx, b, s, a) ==
  Carried(rp, bx, Marked(p, b, s, a)) + Due(rp, bx, Callers(p, b), Unpaid(s, a))

HoldsOpen(p, rp, bx, b, s) == [a \in Keys |-> Holding(p, rp, bx, b, s, a)]

(* The calls of F are closed. *)
Closes(p, rp, bx, rq, by, b, s, F) ==
  \A a \in Keys : Holding(p, rq, by, b, s, a) + OneIf(a \in F) = Holding(p, rp, bx, b, s, a)

AtMostOnce(rp, lb, bx) == \A q \in Requests : Where(rp, lb, bx, q) <= 1

Freer(s) == {[kind |-> "release", server |-> s]}

(* The load that balancer b counts for server s: its open calls, and releases under way *)
Loaded(p, rp, lb, bx, b, s) ==
  /\ IsFiniteSet(NonZero(HoldsOpen(p, rp, bx, b, s), Keys))
  /\ lb[b].inflight[s] = Cardinality(NonZero(HoldsOpen(p, rp, bx, b, s), Keys))
                           + Across(bx, {b}, Freer(s))

Loads ==
  policy \in PushPolicies =>
    \A b \in Balancers : \A s \in ServersOf[b] : Loaded(policy, replica, balancer, inbox, b, s)

(* The call that is made with message m *)
CallOf(m) == <<m.req, Len(m.callers) - 1>>

(* When m is dispatched as d, by b0 to s0, that pair has one more call open, and no other. *)
OpensCall(p, m, d, b0, s0, b, s, a) ==
  /\ d \in Marked(p, b, s, a) <=> m \in Marked(p, b, s, a) \/ (b = b0 /\ s = s0 /\ a = CallOf(m))
  /\ m \in Marked(p, b, s, a) => ~(b = b0 /\ s = s0 /\ a = CallOf(m))
  /\ m \notin Unpaid(s, a) /\ d \notin Unpaid(s, a)

(* A step that neither opens nor closes a call *)
Idle(p, x, in, out, b, s, a) ==
  /\ Count(in, Marked(p, b, s, a)) = 0
  /\ Count(out, [to : Places, msg : Marked(p, b, s, a)]) = 0
  /\ x \in Callers(p, b) => Count(in, Unpaid(s, a)) = 0
  /\ Count(out, [to : Callers(p, b), msg : Unpaid(s, a)]) = 0

(* Where a hop is, under push: in a mailbox, a replica's queue or in service *)
HeldAt(rp, bx, x, h) ==
  \/ \E i \in DOMAIN bx[x] : bx[x][i] = h
  \/ x \in Replicas /\ (h \in rp[x].serving \/ \E i \in DOMAIN rp[x].queue : rp[x].queue[i] = h)

(* There it holds call a open. *)
OpenAt(p, x, h, b, s, a) == h \in Marked(p, b, s, a) \/ (x \in Callers(p, b) /\ h \in Unpaid(s, a))
=============================================================================
