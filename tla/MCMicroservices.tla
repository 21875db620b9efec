--------------------------- MODULE MCMicroservices ---------------------------
(***************************************************************************)
(* A small instance of Microservices.  "front" calls "left" and then       *)
(* "right", and "left" calls "deep": microservice F serves front, B left,  *)
(* C both deep and right. In a second graph B serves deep too, so that a   *)
(* request enters B again below its call there, and the last request takes *)
(* a shorter path, to B only.                                              *)
(***************************************************************************)
EXTENDS Microservices, TLC

MCRoot == [q \in Requests |-> "front"]
MCDeadline == [q \in Requests |-> 4 - q]    \* the later, the more urgent
MCServiceOf == ("front" :> "F") @@ ("left" :> "B") @@ ("deep" :> "C") @@ ("right" :> "C")
MCEndpoints == DOMAIN MCServiceOf
MCChildren == [e \in MCEndpoints |->
  CASE e = "front" -> <<"left", "right">> [] e = "left" -> <<"deep">> [] OTHER -> <<>>]
MCShuffled == [n \in 1 .. 2 |-> [round \in 0 .. 1 |-> [i \in 0 .. n - 1 |-> (i + round) % n]]]

TwoOfB == [m \in {"F", "B", "C"} |-> IF m = "B" THEN 2 ELSE 1]
OneOfEach == [m \in {"F", "B", "C"} |-> 1]

Run(lb_policy, pull, central, scheduling) ==
  [policy |-> lb_policy, pull_sched |-> pull, central |-> central, scheduling |-> scheduling]
MCConfigs == { Run("push", "bound", "fcfs", "fifo"), Run("push", "bound", "fcfs", "edf"),
               Run("cl", "bound", "fcfs", "edf"),
               Run("centralized", "bound", "edf", "fifo"),
               Run("jbsq", "bound", "fcfs", "edf"),
               Run("amphiqueue", "bound", "fcfs", "fifo"),
               Run("amphiqueue", "edf+", "fcfs", "edf") }
MCAllConfigs == MCConfigs \cup { Run("amphiqueue", "fcfs", "fcfs", "fifo") }
MCCentralized == { Run("centralized", "bound", "fcfs", "fifo") }

\* The second graph
AgainServiceOf == ("deep" :> "B") @@ ("light" :> "F") @@ ("quick" :> "B") @@ MCServiceOf
AgainEndpoints == DOMAIN AgainServiceOf
AgainChildren == [e \in AgainEndpoints |->
  CASE e = "light" -> <<"quick">> [] e \in MCEndpoints -> MCChildren[e] [] OTHER -> <<>>]
AgainRoot == [q \in Requests |-> IF q = 3 THEN "light" ELSE "front"]

\* C is also where the API of the second request enters.
MixedRoot == [q \in Requests |-> IF q = 1 THEN "front" ELSE "deep"]
MCAmphiQueue == { Run("amphiqueue", "bound", "fcfs", "fifo") }
=============================================================================
