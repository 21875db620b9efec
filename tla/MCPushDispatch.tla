--------------------------- MODULE MCPushDispatch ---------------------------
(***************************************************************************)
(* Small instances of PushDispatch: two clients and two servers, or one    *)
(* client with one server.                                                 *)
(***************************************************************************)
EXTENDS PushDispatch

CONSTANTS l1, l2, s1, s2

(* Both clients use s1, one of them s2 as well. *)
SharedSubset == (l1 :> {s1, s2}) @@ (l2 :> {s1})
OneSubset == (l1 :> {s1}) @@ (l2 :> {s1})
OneClient == l1 :> {s1}
=============================================================================
