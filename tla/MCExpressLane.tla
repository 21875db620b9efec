---------------------------- MODULE MCExpressLane ---------------------------
(***************************************************************************)
(* A small instance of ExpressLane: two clients of one regular server.     *)
(***************************************************************************)
EXTENDS ExpressLane

CONSTANTS l1, l2, s1, x1, xlb

SharedServer == (l1 :> {s1}) @@ (l2 :> {s1})
=============================================================================
