---------------------------- MODULE TaskService ----------------------------
(***************************************************************************)
(* What a pool of servers behind load balancers promises, whatever the     *)
(* dispatch policy: every submitted task runs exactly once, on one server, *)
(* on a server of the pool its client may use, with at most MaxConcurrency *)
(* tasks in service per server, and eventually finishes.  The policy       *)
(* modules (AmphiQueue, CentralizedPull, PushDispatch) are shown to        *)
(* implement it.                                                           *)
(***************************************************************************)
EXTENDS Naturals, FiniteSets

CONSTANTS
  Tasks,           \* every task a run may submit
  Servers,         \* the servers of the pool
  MaxConcurrency,  \* service slots per server
  Eligible         \* pairs <<t, s>>: the client of t may use server s

VARIABLES
  submitted,  \* tasks that reached a load balancer
  running,    \* running[s]: tasks in service on s
  done        \* tasks handed to the statistics sink

vars == <<submitted, running, done>>

Init ==
  /\ submitted = {}
  /\ running = [s \in Servers |-> {}]
  /\ done = {}

Waiting(t) ==
  /\ t \in submitted \ done
  /\ \A s \in Servers : t \notin running[s]

Submit(t) ==
  /\ t \in Tasks \ submitted
  /\ submitted' = submitted \cup {t}
  /\ UNCHANGED <<running, done>>

Start(t, s) ==
  /\ Waiting(t)
  /\ <<t, s>> \in Eligible
  /\ Cardinality(running[s]) < MaxConcurrency
  /\ running' = [running EXCEPT ![s] = @ \cup {t}]
  /\ UNCHANGED <<submitted, done>>

Finish(t, s) ==
  /\ t \in running[s]
  /\ running' = [running EXCEPT ![s] = @ \ {t}]
  /\ done' = done \cup {t}
  /\ UNCHANGED submitted

(* A freed slot goes to a waiting task at once, without being seen free. *)
HandOver(t, u, s) ==
  /\ t \in running[s]
  /\ Waiting(u)
  /\ <<u, s>> \in Eligible
  /\ running' = [running EXCEPT ![s] = (@ \ {t}) \cup {u}]
  /\ done' = done \cup {t}
  /\ UNCHANGED submitted

Starts(t)   == \E s \in Servers : Start(t, s) \/ \E u \in Tasks : HandOver(u, t, s)
Finishes(t) == \E s \in Servers : Finish(t, s) \/ \E u \in Tasks : HandOver(t, u, s)

Next == \E t \in Tasks : Submit(t) \/ Starts(t) \/ Finishes(t)

(***************************************************************************)
(* A finite run drains: a waiting task is started once slots stay free,    *)
(* and a running task finishes.                                            *)
(***************************************************************************)
Fairness ==
  \A t \in Tasks : WF_vars(Starts(t)) /\ WF_vars(Finishes(t))

Safety == Init /\ [][Next]_vars
Spec == Safety /\ Fairness
=============================================================================
