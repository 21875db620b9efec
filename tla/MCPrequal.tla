------------------------------ MODULE MCPrequal ------------------------------
(***************************************************************************)
(* Five servers, so that a pool holds two candidates, and two balancers:   *)
(* one with enough requests to owe removals, one whose tasks load the      *)
(* servers behind its back.                                                *)
(***************************************************************************)
EXTENDS Prequal, TLC

CONSTANTS l1, l2

MCRequestCount == (l1 :> 4) @@ (l2 :> 1)
MCBurstCount == (l1 :> 2) @@ (l2 :> 1)
Symmetry == Permutations(Servers)
=============================================================================
