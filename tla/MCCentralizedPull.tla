------------------------- MODULE MCCentralizedPull -------------------------
(***************************************************************************)
(* A small instance of CentralizedPull: four servers in subsets of two,    *)
(* each subset with a balancer and more tasks than slots.                  *)
(***************************************************************************)
EXTENDS LbCentralizedAudit

MCShuffled == [round \in 0 .. 1 |-> [i \in 0 .. 3 |-> (3 * i + round + 1) % 4]]
MCHome == ServerToLb(4, 2, MCShuffled)
MCTaskCount == [l \in LBs |-> IF l = 0 THEN 3 ELSE 1]
=============================================================================
