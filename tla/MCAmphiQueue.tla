---------------------------- MODULE MCAmphiQueue ----------------------------
(***************************************************************************)
(* A small instance of AmphiQueue under its audit: two balancers that      *)
(* share one of two servers, so that intents of both meet in one intent    *)
(* queue, with bound pulls and without.                                    *)
(***************************************************************************)
EXTENDS LbPullAudit

CONSTANTS l1, l2, s1, s2

MCSubset == (l1 :> {s1, s2}) @@ (l2 :> {s2})
MCTaskCount == (l1 :> 3) @@ (l2 :> 2)
=============================================================================
