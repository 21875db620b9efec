------------------------------ MODULE MCSidecar ------------------------------
(* Calls and ingress at one microservice behind sidecars. *)
EXTENDS Sidecar, TLC

CONSTANTS a, b

MCClientOf == [q \in Calls |-> IF q = 1 THEN a ELSE b]
MCDeadline == [q \in Tasks |-> 9 - q]   \* the later, the more urgent
=============================================================================
